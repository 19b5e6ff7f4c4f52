------------------------------- MODULE Client -------------------------------
(***************************************************************************)
(* What datasets and experiments share: the tasks of the program that call *)
(* them, the registration of an object at its first use, and the client's  *)
(* log queue, which their rows are submitted to.                           *)
(*                                                                         *)
(* An object is registered through a OnceCell: one caller runs the         *)
(* request, the others wait for it, and when it gives up the next one      *)
(* asks.  A task may give up a call (drop its future) where it waits.      *)
(*                                                                         *)
(* The queue is what LogQueue gives: a flush takes the rows submitted      *)
(* before it and a checked queue reports when one of them fails.  But a    *)
(* row may be stranded: the queue is full and drops it, or a flush drains  *)
(* the channel that submit has just loaded, and no later flush takes it.   *)
(* What the server then holds is FlushPipeline's matter.                   *)
(***************************************************************************)
EXTENDS Naturals, SequencesExt

CONSTANTS
  Tasks,     \* tasks of the program
  Programs,  \* what they do: functions from Tasks to sequences of calls, which
             \* are records [on, op] of a handle and an operation
  Handles,   \* the handles of objects
  Ids,       \* ids the server gives to what it registers
  Failed,    \* the cell of an object whose registration failed
  None,
  MaxStranded  \* bound: rows that the queue strands

ASSUME ClientAssumption ==
  /\ Failed \notin Ids /\ None \notin Ids /\ None # Failed /\ None \notin Tasks
  /\ MaxStranded \in Nat

VARIABLES
  program,      \* program[t]: the calls of t
  answers,      \* answers[t]: how the calls of t that are over ended
  pc,           \* pc[t]: where t is in its call, "idle" between calls
  cell,         \* cell[h]: lazy_metadata, the id or Failed, None when unset
  initializer,  \* initializer[h]: the task that runs the request, or None
  submitted,    \* rows handed to submit
  queue,        \* those of them that no flush has taken yet
  stranded      \* those of them that no flush will ever take

taskVars   == <<program, answers, pc>>
cellVars   == <<cell, initializer>>
queueVars  == <<submitted, queue, stranded>>
clientVars == <<taskVars, cellVars, queueVars>>

ClientInit ==
  /\ program \in Programs
  /\ answers = [t \in Tasks |-> <<>>]
  /\ pc = [t \in Tasks |-> "idle"]
  /\ cell = [h \in Handles |-> None]
  /\ initializer = [h \in Handles |-> None]
  /\ submitted = {}
  /\ queue = {}
  /\ stranded = {}

-----------------------------------------------------------------------------
(* Calls.                                                                  *)

Number(t)  == Len(answers[t]) + 1
Calling(t) == Number(t) \in DOMAIN program[t]
Call(t)    == program[t][Number(t)]

(* Task t is at the label, in one of the operations ops on one of hs. *)
At(t, label, hs, ops) ==
  pc[t] = label /\ Calling(t) /\ Call(t).on \in hs /\ Call(t).op \in ops

Goto(t, label) == pc' = [pc EXCEPT ![t] = label] /\ UNCHANGED <<program, answers>>

Return(t, answer) ==
  /\ answers' = [answers EXCEPT ![t] = Append(@, answer)]
  /\ pc' = [pc EXCEPT ![t] = "idle"]
  /\ program' = program

(* The row that the call of t is about. *)
Row(t) == [call |-> <<t, Number(t)>>, on |-> Call(t).on, op |-> Call(t).op]

-----------------------------------------------------------------------------
(* The log queue.                                                          *)

(* SpanSubmitter::submit, for a row with destination id. *)
Submit(row, id) ==
  LET r == [row |-> row, id |-> id] IN
  /\ submitted' = submitted \cup {r}
  /\ queue' = queue \cup {r}
  /\ \/ stranded' = stranded
     \/ Cardinality(stranded) < MaxStranded /\ stranded' = stranded \cup {r}

(* flush_all, once the worker has answered. *)
FlushAll == queue' = stranded /\ UNCHANGED <<submitted, stranded>>

(* A flush in the background, which submit may have triggered. *)
BackgroundFlush ==
  /\ queue # stranded
  /\ FlushAll
  /\ UNCHANGED <<taskVars, cellVars>>

-----------------------------------------------------------------------------
(* Requests to the server, which are not retried: one comes to an answer   *)
(* that parses, to status 400, or to another failure (of the network, the  *)
(* status or the body).                                                    *)

Replies == {"ok", "400", "failed"}

-----------------------------------------------------------------------------
(* ensure_registered: OnceCell::get_or_init.                               *)

(* Mutant: two callers that find the cell unset both run the request. *)
EnsureRacing(t) ==
  /\ pc[t] = "ensure"
  /\ LET h == Call(t).on IN
     IF cell[h] # None THEN Goto(t, "registered") /\ UNCHANGED initializer
     ELSE initializer' = [initializer EXCEPT ![h] = t] /\ Goto(t, "registering")
  /\ UNCHANGED <<cell, queueVars>>

(* The cell is set, or nobody is setting it and t does. *)
Ensure(t) ==
  /\ pc[t] = "ensure"
  /\ LET h == Call(t).on IN
     \/ cell[h] # None /\ Goto(t, "registered") /\ UNCHANGED initializer
     \/ /\ cell[h] = None /\ initializer[h] = None
        /\ initializer' = [initializer EXCEPT ![h] = t]
        /\ Goto(t, "registering")
  /\ UNCHANGED <<cell, queueVars>>

(* The request of t ends and the cell is set, to one of the values.        *)
SetCell(t, values) ==
  /\ pc[t] = "registering"
  /\ \E value \in values : cell' = [cell EXCEPT ![Call(t).on] = value]
  /\ initializer' = [initializer EXCEPT ![Call(t).on] = None]
  /\ Goto(t, "registered")
  /\ UNCHANGED queueVars

(* Mutant: a request that is given up is never asked again. *)
LeaveCellTaken(t) == UNCHANGED cellVars

(* What becomes of the cell when t gives up its call. *)
LeaveCell(t) ==
  /\ initializer' = [h \in Handles |-> IF initializer[h] = t THEN None ELSE initializer[h]]
  /\ cell' = cell

(* The labels at which a call waits for the registration. *)
WaitsForCell(t) == pc[t] \in {"ensure", "registering"}
=============================================================================
