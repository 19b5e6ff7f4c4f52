----------------------------- MODULE Experiment -----------------------------
(***************************************************************************)
(* Experiments (src/src/experiments).  log submits a row at once and keeps *)
(* its span in pending_flushes, for flush to flush; spans started by the   *)
(* program, feedback and updates are only submitted.  A clone shares       *)
(* pending_flushes and registers again.                                    *)
(***************************************************************************)
EXTENDS Client

CONSTANTS
  Checked  \* config.checked_delivery: flush_all may fail

ASSUME ExperimentAssumption == {"experiment", "clone"} \subseteq Handles /\ Checked \in BOOLEAN

VARIABLES
  calledStartSpan,  \* called_start_span of each handle
  pendingFlushes,   \* the rows of the spans in pending_flushes
  flusher,          \* the task that holds the lock of pending_flushes, or None
  left,             \* left[t]: drained spans that the flush of t has to flush
  logged            \* logged[t]: rows of the log calls that were over when t
                    \* called flush

experimentVars == <<calledStartSpan, pendingFlushes, flusher, left, logged>>

Experiments == {"experiment", "clone"}

ExperimentInit ==
  /\ calledStartSpan = [h \in Experiments |-> FALSE]
  /\ pendingFlushes = {}
  /\ flusher = None
  /\ left = [t \in Tasks |-> 0]
  /\ logged = [t \in Tasks |-> {}]

AtExperiment(t, label, ops) == At(t, label, Experiments, ops)

LookUps     == {"project", "export", "fetch_base_experiment"}
StartOps    == {"start_span", "traced"}
FlushAllOps == {"flush", "summarize"}

(* Clone: a cell of its own, the flag by value, the same pending_flushes. *)
CloneExperiment(t) ==
  /\ AtExperiment(t, "idle", {"clone"})
  /\ calledStartSpan' = [calledStartSpan EXCEPT !["clone"] = calledStartSpan["experiment"]]
  /\ Return(t, "ok")
  /\ UNCHANGED <<cellVars, queueVars, pendingFlushes, flusher, left, logged>>

(* BraintrustClient::register_experiment.  On an error the experiment goes *)
(* on with a placeholder id, which the server does not know.               *)
ExperimentRegistrations(reply) == IF reply = "ok" THEN Ids ELSE {Failed}

RegisterExperiment(t) ==
  /\ Calling(t) /\ Call(t).on \in Experiments
  /\ \E reply \in Replies : SetCell(t, ExperimentRegistrations(reply))
  /\ UNCHANGED experimentVars

-----------------------------------------------------------------------------
(* log, start_span, traced, log_feedback, update_span.                     *)

(* log panics when start_span has been called on the handle. *)
BeginLog(t) ==
  /\ AtExperiment(t, "idle", {"log"})
  /\ IF calledStartSpan[Call(t).on] THEN Return(t, "panic") ELSE Goto(t, "ensure")
  /\ UNCHANGED <<cellVars, queueVars, experimentVars>>

BeginStart(t) ==
  /\ AtExperiment(t, "idle", StartOps)
  /\ calledStartSpan' = [calledStartSpan EXCEPT ![Call(t).on] = TRUE]
  /\ Goto(t, "ensure")
  /\ UNCHANGED <<cellVars, queueVars, pendingFlushes, flusher, left, logged>>

BeginOther(t) ==
  /\ AtExperiment(t, "idle", {"log_feedback", "update_span"} \cup LookUps)
  /\ Goto(t, "ensure")
  /\ UNCHANGED <<cellVars, queueVars, experimentVars>>

(* The row of the call is submitted with the registered id. *)
SubmitRow(t, ops) ==
  /\ AtExperiment(t, "registered", ops)
  /\ Submit(Row(t), cell[Call(t).on])
  /\ UNCHANGED <<cellVars, experimentVars>>

(* log makes a span and logs the event to it. *)
LogEvent(t) == SubmitRow(t, {"log"}) /\ Goto(t, "track")

(* The program builds the span that start_span or traced offers it, and    *)
(* logs to it once.                                                        *)
StartSpan(t) ==
  /\ SubmitRow(t, StartOps)
  /\ IF Call(t).op = "traced" THEN Goto(t, "flushing") ELSE Return(t, "ok")

(* A row that merges into the one of the given id. *)
LogFeedback(t) == SubmitRow(t, {"log_feedback"}) /\ Return(t, "ok")
UpdateSpan(t)  == SubmitRow(t, {"update_span"}) /\ Return(t, "ok")

(* log puts its span into pending_flushes, under the lock. *)
Track(t) ==
  /\ AtExperiment(t, "track", {"log"})
  /\ flusher = None
  /\ pendingFlushes' = pendingFlushes \cup {Row(t)}
  /\ Return(t, "ok")
  /\ UNCHANGED <<cellVars, queueVars, calledStartSpan, flusher, left, logged>>

(* traced flushes its span whatever comes of it. *)
FlushTraced(t) ==
  /\ AtExperiment(t, "flushing", {"traced"})
  /\ FlushAll
  /\ Return(t, "ok")
  /\ UNCHANGED <<cellVars, experimentVars>>

(* project and export return what the cell holds. *)
LookUp(t) ==
  /\ AtExperiment(t, "registered", LookUps \ {"fetch_base_experiment"})
  /\ Return(t, "ok")
  /\ UNCHANGED <<cellVars, queueVars, experimentVars>>

(* BraintrustClient::fetch_base_experiment: status 400 means there is none. *)
BaseExperiments(reply) ==
  CASE reply = "ok"     -> {"ok", "no base"}
    [] reply = "400"    -> {"no base"}
    [] reply = "failed" -> {"err"}

(* For summarize, a failure is as good as no base. *)
FetchBaseExperiment(t) ==
  /\ AtExperiment(t, "registered", {"fetch_base_experiment", "summarize"})
  /\ \E reply \in Replies : \E answer \in BaseExperiments(reply) :
       IF Call(t).op = "summarize" THEN Goto(t, "comparing") ELSE Return(t, answer)
  /\ UNCHANGED <<cellVars, queueVars, experimentVars>>

-----------------------------------------------------------------------------
(* flush and summarize.                                                    *)

(* Rows of log calls that are over. *)
Logged == {r \in {s.row : s \in submitted} :
             r.op = "log" /\ r.call[2] \in DOMAIN answers[r.call[1]]
                          /\ answers[r.call[1]][r.call[2]] = "ok"}

BeginFlush(t) ==
  /\ AtExperiment(t, "idle", FlushAllOps)
  /\ logged' = [logged EXCEPT ![t] = Logged]
  /\ Goto(t, "lock")
  /\ UNCHANGED <<cellVars, queueVars, calledStartSpan, pendingFlushes, flusher, left>>

(* summarize goes on to the comparison once the spans are flushed. *)
AfterSpans(t) == IF Call(t).op = "flush" THEN Return(t, "ok") ELSE Goto(t, "ensure")

(* Mutant: the lock is released as soon as the spans are drained. *)
DrainUnlocked(t) ==
  /\ AtExperiment(t, "lock", FlushAllOps)
  /\ flusher = None
  /\ pendingFlushes' = {}
  /\ left' = [left EXCEPT ![t] = Cardinality(pendingFlushes)]
  /\ flusher' = None
  /\ IF pendingFlushes = {} THEN AfterSpans(t) ELSE Goto(t, "flushing")
  /\ UNCHANGED <<cellVars, queueVars, calledStartSpan, logged>>

(* The lock is taken and held while the drained spans are flushed. *)
DrainFlushes(t) ==
  /\ AtExperiment(t, "lock", FlushAllOps)
  /\ flusher = None
  /\ pendingFlushes' = {}
  /\ left' = [left EXCEPT ![t] = Cardinality(pendingFlushes)]
  /\ IF pendingFlushes = {} THEN flusher' = None /\ AfterSpans(t)
     ELSE flusher' = t /\ Goto(t, "flushing")
  /\ UNCHANGED <<cellVars, queueVars, calledStartSpan, logged>>

(* One drained span: its flush is a flush_all.  An error drops the others  *)
(* and, like the end of the loop, releases the lock.                       *)
FlushSpan(t) ==
  /\ AtExperiment(t, "flushing", FlushAllOps)
  /\ FlushAll
  /\ \/ /\ left[t] > 1
        /\ left' = [left EXCEPT ![t] = @ - 1]
        /\ UNCHANGED <<taskVars, flusher>>
     \/ /\ left[t] = 1
        /\ left' = [left EXCEPT ![t] = 0]
        /\ flusher' = None
        /\ AfterSpans(t)
     \/ /\ Checked
        /\ left' = [left EXCEPT ![t] = 0]
        /\ flusher' = None
        /\ Return(t, "err")
  /\ UNCHANGED <<cellVars, calledStartSpan, pendingFlushes, logged>>

(* BraintrustClient::fetch_experiment_comparison. *)
Comparison(reply) == IF reply = "ok" THEN "ok" ELSE "err"

(* summarize ends on the comparison. *)
Compare(t) ==
  /\ AtExperiment(t, "comparing", {"summarize"})
  /\ \E reply \in Replies : Return(t, Comparison(reply))
  /\ UNCHANGED <<cellVars, queueVars, experimentVars>>

GiveUpOnExperiment(t) ==
  /\ Calling(t) /\ Call(t).on \in Experiments
  /\ \/ WaitsForCell(t) \/ pc[t] \in {"track", "lock", "flushing", "comparing"}
     \/ AtExperiment(t, "registered", {"fetch_base_experiment", "summarize"})
  /\ Return(t, "given up")
  /\ LeaveCell(t)
  /\ flusher' = IF flusher = t THEN None ELSE flusher
  /\ left' = [left EXCEPT ![t] = 0]
  /\ UNCHANGED <<queueVars, calledStartSpan, pendingFlushes, logged>>

ExperimentStep(t) ==
  \/ RegisterExperiment(t) \/ LogEvent(t) \/ StartSpan(t) \/ LogFeedback(t) \/ UpdateSpan(t)
  \/ Track(t) \/ FlushTraced(t) \/ LookUp(t) \/ FetchBaseExperiment(t)
  \/ DrainFlushes(t) \/ FlushSpan(t) \/ Compare(t)

-----------------------------------------------------------------------------
(* The last call of t was a flush, it is over and was Ok. *)
Flushed(t) ==
  \E n \in DOMAIN answers[t] :
    /\ pc[t] = "idle" /\ n = Len(answers[t]) /\ answers[t][n] = "ok"
    /\ program[t][n].on \in Experiments /\ program[t][n].op = "flush"

(* No flush of pending_flushes was given up with spans in its hands. *)
FlushesFinished ==
  \A t \in Tasks : \A n \in DOMAIN answers[t] :
    program[t][n].on \in Experiments /\ program[t][n].op \in FlushAllOps =>
      answers[t][n] # "given up"

(* A flush that returns Ok leaves no row in the queue whose log call was   *)
(* over when it was called, but what the queue stranded, though another    *)
(* flush may have drained the span of it; only a flush that was given up   *)
(* takes spans with it.                                                    *)
LoggedIsFlushed ==
  FlushesFinished =>
    \A t \in Tasks : Flushed(t) => logged[t] \cap {s.row : s \in queue \ stranded} = {}
=============================================================================
