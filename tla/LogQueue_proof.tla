--------------------------- MODULE LogQueue_proof ---------------------------
(***************************************************************************)
(* Proofs about LogQueue for any threads, callers, limits and              *)
(* configuration: the slot accounting of the lock-free queue, that every   *)
(* row is accounted for as the ledger says, that flush_all is a barrier,   *)
(* and that checked delivery hides no failure from it.                     *)
(***************************************************************************)
EXTENDS LogQueue, FiniteSetTheorems, SequenceTheorems, TLAPS

(* A thread between load and send holds a channel and has a row; a drain   *)
(* has a channel.                                                          *)
PhaseOK ==
  /\ \A t \in Threads :
       /\ pc[t] \in {"loaded", "reserving", "reserved"} => held[t] # 0
       /\ pc[t] # "idle" => nth[t] # 0
  /\ task \in {"drain", "popped"} => draining # 0

(* The bound on the slots handed out, of which the rows are a part. *)
SlotsBounded ==
  Enforce => \A c \in 1..Len(items) : queued[c] <= QueueMaxSize

(* The inductive invariant. *)
IInv == TypeOK /\ PhaseOK /\ SlotAccounting /\ SlotsBounded

LEMMA InitIInv == Init => IInv
<1> SUFFICES ASSUME Init PROVE IInv
  OBVIOUS
<1> USE LogQueueAssumption
<1>1. TypeOK
  <2>1. PushTypeOK
    BY DEF Init, PushTypeOK
  <2>2. ChannelTypeOK
    <3>1. /\ <<>> \in Seq(Rows) /\ << <<>> >> \in Seq(Seq(Rows)) /\ <<0>> \in Seq(Nat)
          /\ Len(<< <<>> >>) = 1 /\ Len(<<0>>) = 1 /\ << <<>> >> # <<>>
      OBVIOUS
    <3>2. QED
      BY <3>1 DEF Init, ChannelTypeOK
  <2>3. FlushTypeOK
    BY DEF Init, FlushTypeOK
  <2>4. WorkerTypeOK
    BY DEF Init, WorkerTypeOK
  <2>5. CallerTypeOK
    BY DEF Init, CallerTypeOK
  <2>6. QED
    BY <2>1, <2>2, <2>3, <2>4, <2>5 DEF TypeOK
<1>2. PhaseOK
  BY DEF Init, PhaseOK
<1>3. SlotAccounting
  <2>1. \A c : Reserving(c) = {}
    BY DEF Init, Reserving
  <2>2. Cardinality({}) = 0
    BY FS_EmptySet
  <2>3. Len(items) = 1 /\ Len(items[1]) = 0 /\ queued[1] = 0 /\ task = "none"
    BY DEF Init
  <2>4. SUFFICES ASSUME NEW c \in 1..Len(items)
                 PROVE  queued[c] = Len(items[c]) + Cardinality(Reserving(c)) + Unreleased(c)
    BY DEF SlotAccounting
  <2>5. c = 1
    BY <2>3
  <2>6. QED
    <3>1. Cardinality(Reserving(c)) = 0
      BY <2>1, <2>2
    <3>2. Unreleased(c) = 0
      BY <2>3 DEF Unreleased
    <3>3. QED
      BY <2>3, <2>5, <3>1, <3>2
<1>4. SlotsBounded
  BY DEF Init, SlotsBounded
<1>5. QED
  BY <1>1, <1>2, <1>3, <1>4 DEF IInv

LEMMA PushTypes == TypeOK /\ PhaseOK /\ [Next]_vars => PushTypeOK'
<1> SUFFICES ASSUME TypeOK, PhaseOK, [Next]_vars PROVE PushTypeOK'
  OBVIOUS
<1> USE LogQueueAssumption DEF TypeOK, PushTypeOK
<1>1. ASSUME NEW t \in Threads, LoadChannel(t) PROVE PushTypeOK'
  BY <1>1 DEF LoadChannel, Goto
<1>2. ASSUME NEW t \in Threads, ReadCount(t) \/ Reserve(t) PROVE PushTypeOK'
  <2>1. held[t] \in 1..Len(queued)
    BY <1>2 DEF ReadCount, Reserve, PhaseOK, ChannelTypeOK
  <2>2. queued[held[t]] \in Nat
    BY <2>1, ElementOfSeq DEF ChannelTypeOK
  <2>3. QED
    BY <1>2, <2>2 DEF ReadCount, Reserve, Goto
<1>3. ASSUME NEW t \in Threads, Refuse(t) \/ Send(t) PROVE PushTypeOK'
  BY <1>3 DEF Refuse, Send, Goto
<1>4. ASSUME NEW t \in Threads, Signal(t) PROVE PushTypeOK'
  BY <1>4 DEF Signal, Goto
<1>5. CASE UNCHANGED pushVars
  BY <1>5 DEF pushVars
<1>6. QED
  BY <1>1, <1>2, <1>3, <1>4, <1>5 DEF Push, Next, vars, CallFlush, SendFlush, TriggerFlushCommand, Drop, SendDropFlush, Exited,
     Worker, Receive, TriggerFlushBackground, Join, Check, Respond,
     FlushTask, Swap, Pop, ReleaseSlot, DrainDone, SendRows

(* The slots of a channel are a finite set of threads. *)
LEMMA ReservingFinite ==
  \A c : /\ IsFiniteSet(Reserving(c)) /\ Cardinality(Reserving(c)) \in Nat
         /\ IsFiniteSet(Reserving(c)') /\ Cardinality(Reserving(c)') \in Nat
<1> SUFFICES ASSUME NEW c
             PROVE /\ IsFiniteSet(Reserving(c)) /\ Cardinality(Reserving(c)) \in Nat
                   /\ IsFiniteSet(Reserving(c)') /\ Cardinality(Reserving(c)') \in Nat
  OBVIOUS
<1>1. Reserving(c) \in SUBSET Threads /\ Reserving(c)' \in SUBSET Threads
  BY DEF Reserving
<1>2. IsFiniteSet(Reserving(c)) /\ IsFiniteSet(Reserving(c)')
  BY <1>1, FS_Subset, LogQueueAssumption DEF LogQueueAssumption
<1>3. QED
  BY <1>2, FS_CardinalityType

(* The count of a channel with a row out of it can be lowered. *)
LEMMA Predecessor ==
  ASSUME NEW n, NEW a \in Nat, NEW b \in Nat, n = a + b + 1
  PROVE  n - 1 \in Nat
OBVIOUS

LEMMA ChannelTypes ==
  TypeOK /\ PhaseOK /\ SlotAccounting /\ [Next]_vars => ChannelTypeOK'
<1> SUFFICES ASSUME TypeOK, PhaseOK, SlotAccounting, [Next]_vars PROVE ChannelTypeOK'
  OBVIOUS
<1> USE DEF TypeOK, ChannelTypeOK
<1>1. Len(items) \in Nat \ {0}
  BY EmptySeq
<1>2. ASSUME NEW t \in Threads, LoadChannel(t) PROVE ChannelTypeOK'
  BY <1>1, <1>2 DEF LoadChannel, chanVars, flushVars, current
<1>3. ASSUME NEW t \in Threads, Signal(t) PROVE ChannelTypeOK'
  BY <1>3 DEF Signal, chanVars, flushVars
<1>4. ASSUME NEW t \in Threads, Reserve(t) PROVE ChannelTypeOK'
  <2>1. held[t] \in 1..Len(queued) /\ UNCHANGED <<items, held, draining>>
    BY <1>4 DEF Reserve, PhaseOK, flushVars
  <2>2. queued[held[t]] \in Nat
    BY <2>1, ElementOfSeq
  <2>3. CASE queued' = [queued EXCEPT ![held[t]] = @ + 1]
    BY <2>1, <2>2, <2>3, ExceptSeq
  <2>4. CASE queued' = queued
    BY <2>1, <2>4
  <2>5. QED
    BY <1>4, <2>3, <2>4 DEF Reserve
<1>5. ASSUME NEW t \in Threads, Send(t) PROVE ChannelTypeOK'
  <2>1. held[t] \in 1..Len(items) /\ UNCHANGED <<queued, held, draining>>
    BY <1>5 DEF Send, PhaseOK, flushVars
  <2>2. items[held[t]] \in Seq(Rows) /\ RowOf(t) \in Rows
    <3>1. nth[t] \in 1..RowsPerThread
      BY <1>5, LogQueueAssumption DEF Send, PhaseOK, PushTypeOK, LogQueueAssumption
    <3>2. QED
      BY <2>1, <3>1, ElementOfSeq DEF RowOf, Rows
  <2>3. Append(items[held[t]], RowOf(t)) \in Seq(Rows)
    BY <2>2
  <2>4. /\ items' \in Seq(Seq(Rows)) /\ Len(items') = Len(items)
    BY <1>5, <2>1, <2>3, ExceptSeq DEF Send
  <2>5. QED
    BY <1>1, <2>1, <2>4
<1>6. CASE Swap
  <2>1. /\ items' \in Seq(Seq(Rows)) /\ Len(items') = Len(items) + 1 /\ items' # <<>>
        /\ queued' \in Seq(Nat) /\ Len(queued') = Len(queued) + 1
    <3>1. <<>> \in Seq(Rows) /\ 0 \in Nat
      OBVIOUS
    <3>2. /\ Append(items, <<>>) \in Seq(Seq(Rows)) /\ Append(items, <<>>) # <<>>
          /\ Len(Append(items, <<>>)) = Len(items) + 1
      BY <3>1, AppendProperties
    <3>3. Append(queued, 0) \in Seq(Nat) /\ Len(Append(queued, 0)) = Len(queued) + 1
      BY <3>1, AppendProperties
    <3>4. QED
      BY <1>6, <3>2, <3>3 DEF Swap
  <2>2. QED
    BY <1>1, <1>6, <2>1 DEF Swap, pushVars, current
<1>7. CASE Pop
  <2>1. draining \in 1..Len(items) /\ UNCHANGED <<queued, held, draining>>
    BY <1>7 DEF Pop, PhaseOK, pushVars
  <2>2. items[draining] \in Seq(Rows)
    BY <2>1, ElementOfSeq
  <2>3. Tail(items[draining]) \in Seq(Rows)
    BY <1>7, <2>2, HeadTailProperties DEF Pop
  <2>4. items' \in Seq(Seq(Rows)) /\ Len(items') = Len(items)
    BY <1>7, <2>1, <2>3, ExceptSeq DEF Pop
  <2>5. QED
    BY <1>1, <2>1, <2>4
<1>8. CASE ReleaseSlot
  <2>1. draining \in 1..Len(items) /\ UNCHANGED <<items, held, draining>>
    BY <1>8 DEF ReleaseSlot, PhaseOK, pushVars
  <2>2. queued[draining] = Len(items[draining]) + Cardinality(Reserving(draining)) + 1
    BY <1>8, <2>1 DEF ReleaseSlot, SlotAccounting, Unreleased
  <2>3. Len(items[draining]) \in Nat
    BY <2>1, ElementOfSeq, LenProperties
  <2>4. queued[draining] - 1 \in Nat
    <3>1. Cardinality(Reserving(draining)) \in Nat
      BY ReservingFinite
    <3>2. QED
      BY <2>2, <2>3, <3>1, Predecessor
  <2>5. queued' \in Seq(Nat) /\ Len(queued') = Len(queued)
    BY <1>8, <2>1, <2>4, ExceptSeq DEF ReleaseSlot
  <2>6. QED
    BY <2>1, <2>5
<1>9. CASE DrainDone
  BY <1>1, <1>9 DEF DrainDone, chanVars, pushVars
<1>10. CASE UNCHANGED <<items, queued, held, draining>>
  BY <1>10
<1>11. QED
  BY <1>2, <1>3, <1>4, <1>5, <1>6, <1>7, <1>8, <1>9, <1>10
     DEF Next, vars, Push, ReadCount, Refuse, CallFlush, SendFlush, TriggerFlushCommand,
         Drop, SendDropFlush, Exited, Worker, Receive, TriggerFlushBackground, Join, Check, Respond,
         FlushTask, SendRows, pushVars, chanVars, flushVars

LEMMA FlushTypes ==
  TypeOK /\ PhaseOK /\ [Next]_vars => FlushTypeOK'
<1> SUFFICES ASSUME TypeOK, PhaseOK, [Next]_vars PROVE FlushTypeOK'
  OBVIOUS
<1> USE DEF TypeOK, FlushTypeOK, reports
<1>1. ASSUME NEW t \in Threads, Refuse(t) PROVE FlushTypeOK'
  <2>1. nth[t] \in 1..RowsPerThread
    BY <1>1, LogQueueAssumption DEF Refuse, PhaseOK, PushTypeOK, LogQueueAssumption
  <2>2. RowOf(t) \in Rows
    BY <2>1 DEF RowOf, Rows
  <2>3. QED
    BY <1>1, <2>2 DEF Refuse, flushVars
<1>2. CASE Pop
  <2>1. items[draining] \in Seq(Rows)
    BY <1>2, ElementOfSeq DEF Pop, PhaseOK, ChannelTypeOK
  <2>2. Head(items[draining]) \in Rows
    BY <1>2, <2>1, HeadTailProperties DEF Pop
  <2>3. batch' \in Seq(Rows)
    BY <1>2, <2>2, AppendProperties DEF Pop
  <2>4. QED
    BY <1>2, <2>3 DEF Pop
<1>3. CASE SendRows
  <2>1. outcome' \in [Rows -> {"pending", "dropped", "delivered", "failed"}]
    BY <1>3 DEF SendRows
  <2>2. task' \in {"ok", "err"} /\ batch' = <<>> /\ UNCHANGED <<told, logged>>
    BY <1>3 DEF SendRows
  <2>3. QED
    BY <2>1, <2>2
<1>4. CASE Respond
  BY <1>4 DEF Respond, Failed, flushVars
<1>5. CASE TriggerFlushBackground \/ Join \/ Swap \/ ReleaseSlot \/ DrainDone
  BY <1>5 DEF TriggerFlushBackground, Join, Swap, ReleaseSlot, DrainDone
<1>6. CASE UNCHANGED <<batch, outcome, told, logged, task>>
  BY <1>6
<1>7. QED
  BY <1>1, <1>2, <1>3, <1>4, <1>5, <1>6
     DEF Next, vars, LoadChannel, Push, ReadCount, Reserve, Send, Signal, CallFlush,
         SendFlush, TriggerFlushCommand, Drop, SendDropFlush, Exited, Worker, Receive, Check,
         FlushTask, flushVars

LEMMA WorkerTypes == TypeOK /\ [Next]_vars => WorkerTypeOK'
<1> SUFFICES ASSUME TypeOK, [Next]_vars PROVE WorkerTypeOK'
  OBVIOUS
<1> USE DEF TypeOK, WorkerTypeOK
<1>1. ASSUME NEW e \in Callers \cup {Trigger, DropFlush}, cmds' = Append(cmds, e)
      PROVE  cmds' \in Seq(Callers \cup {Trigger, DropFlush})
  BY <1>1, AppendProperties
<1>2. ASSUME NEW t \in Threads, Signal(t) PROVE WorkerTypeOK'
  BY <1>1, <1>2 DEF Signal
<1>3. ASSUME NEW f \in Callers, SendFlush(f) PROVE WorkerTypeOK'
  BY <1>1, <1>3 DEF SendFlush
<1>4. CASE TriggerFlushCommand \/ SendDropFlush
  BY <1>1, <1>4 DEF TriggerFlushCommand, SendDropFlush
<1>5. CASE Receive
  <2>1. cmds # <<>> => /\ Head(cmds) \in Callers \cup {Trigger, DropFlush}
                       /\ Tail(cmds) \in Seq(Callers \cup {Trigger, DropFlush})
    BY HeadTailProperties
  <2>2. QED
    BY <1>5, <2>1 DEF Receive
<1>6. CASE TriggerFlushBackground \/ Join \/ Check \/ Respond
  BY <1>6 DEF TriggerFlushBackground, Join, Check, Respond
<1>7. CASE UNCHANGED workerVars
  BY <1>7 DEF workerVars
<1>8. QED
  BY <1>2, <1>3, <1>4, <1>5, <1>6, <1>7
     DEF Next, vars, LoadChannel, Push, ReadCount, Refuse, Reserve, Send, CallFlush,
         Drop, SendDropFlush, Exited, Worker, FlushTask, Swap, Pop, ReleaseSlot, DrainDone, SendRows

LEMMA CallerTypes == TypeOK /\ [Next]_vars => CallerTypeOK'
<1> SUFFICES ASSUME TypeOK, [Next]_vars PROVE CallerTypeOK'
  OBVIOUS
<1> USE DEF TypeOK, CallerTypeOK
<1>1. ASSUME NEW f \in Callers, CallFlush(f) PROVE CallerTypeOK'
  BY <1>1 DEF CallFlush, Submitted
<1>2. ASSUME NEW f \in Callers, SendFlush(f) PROVE CallerTypeOK'
  BY <1>2 DEF SendFlush
<1>3. CASE TriggerFlushCommand
  BY <1>3, LogQueueAssumption DEF TriggerFlushCommand, LogQueueAssumption
<1>4. CASE Drop \/ SendDropFlush
  BY <1>4 DEF Drop, SendDropFlush
<1>5. CASE Respond
  BY <1>5 DEF Respond, WorkerTypeOK
<1>6. CASE UNCHANGED <<callerVars, config>>
  BY <1>6 DEF callerVars
<1>7. QED
  BY <1>1, <1>2, <1>3, <1>4, <1>5, <1>6
     DEF Next, vars, LoadChannel, Push, ReadCount, Refuse, Reserve, Send, Signal,
         Exited, Worker, Receive, TriggerFlushBackground, Join, Check,
         FlushTask, Swap, Pop, ReleaseSlot, DrainDone, SendRows

LEMMA Phases == TypeOK /\ PhaseOK /\ [Next]_vars => PhaseOK'
<1> SUFFICES ASSUME TypeOK, PhaseOK, [Next]_vars PROVE PhaseOK'
  OBVIOUS
<1> USE DEF TypeOK, PhaseOK, PushTypeOK, ChannelTypeOK
<1>1. Len(items) \in Nat \ {0}
  BY EmptySeq
<1>2. ASSUME NEW t \in Threads, LoadChannel(t) PROVE PhaseOK'
  BY <1>1, <1>2 DEF LoadChannel, Goto, current, flushVars
<1>3. ASSUME NEW t \in Threads, ReadCount(t) \/ Refuse(t) \/ Reserve(t) \/ Send(t) PROVE PhaseOK'
  BY <1>3 DEF ReadCount, Refuse, Reserve, Send, Goto, flushVars
<1>4. ASSUME NEW t \in Threads, Signal(t) PROVE PhaseOK'
  BY <1>4 DEF Signal, Goto, flushVars
<1>5. CASE Swap
  BY <1>1, <1>5 DEF Swap, current, pushVars
<1>6. CASE Pop \/ ReleaseSlot \/ DrainDone \/ SendRows
  BY <1>6 DEF Pop, ReleaseSlot, DrainDone, SendRows, pushVars
<1>7. CASE TriggerFlushBackground \/ Join
  BY <1>7 DEF TriggerFlushBackground, Join, Running, pushVars
<1>8. CASE UNCHANGED <<pushVars, flushVars>>
  BY <1>8 DEF pushVars, flushVars
<1>9. QED
  BY <1>2, <1>3, <1>4, <1>5, <1>6, <1>7, <1>8
     DEF Next, vars, Push, CallFlush, SendFlush, TriggerFlushCommand, Drop, SendDropFlush, Exited,
         Worker, Receive, Check, Respond, FlushTask

LEMMA UnreleasedType == \A c : Unreleased(c) \in {0, 1} /\ Unreleased(c)' \in {0, 1}
BY DEF Unreleased

(* A step that moves no row, no slot and no reservation keeps the accounts.*)
LEMMA AccountsKept ==
  ASSUME TypeOK, SlotAccounting, UNCHANGED <<items, queued>>,
         \A c : Reserving(c)' = Reserving(c),
         \A c : Unreleased(c)' = Unreleased(c)
  PROVE  SlotAccounting'
  BY DEF SlotAccounting

LEMMA Accounts ==
  TypeOK /\ PhaseOK /\ SlotAccounting /\ [Next]_vars => SlotAccounting'
<1> SUFFICES ASSUME TypeOK, PhaseOK, SlotAccounting, [Next]_vars PROVE SlotAccounting'
  OBVIOUS
<1> USE DEF TypeOK, PushTypeOK, ChannelTypeOK
<1>1. /\ Len(items) \in Nat \ {0}
      /\ \A c \in 1..Len(items) : items[c] \in Seq(Rows) /\ Len(items[c]) \in Nat
  BY EmptySeq, ElementOfSeq, LenProperties
<1>2. ASSUME NEW t \in Threads,
             LoadChannel(t) \/ ReadCount(t) \/ Refuse(t) \/ Signal(t)
      PROVE  SlotAccounting'
  <2>1. \A c : Reserving(c)' = Reserving(c)
    BY <1>2 DEF Reserving, LoadChannel, ReadCount, Refuse, Signal, Goto
  <2>2. UNCHANGED <<items, queued>> /\ \A c : Unreleased(c)' = Unreleased(c)
    BY <1>2 DEF LoadChannel, ReadCount, Refuse, Signal, chanVars, flushVars, Unreleased
  <2>3. QED
    BY <2>1, <2>2, AccountsKept
<1>3. ASSUME NEW t \in Threads, Reserve(t) PROVE SlotAccounting'
  <2>1. /\ held[t] \in 1..Len(items) /\ UNCHANGED items
        /\ \A c : Unreleased(c)' = Unreleased(c)
    BY <1>3 DEF Reserve, PhaseOK, flushVars, Unreleased
  <2>2. CASE UNCHANGED <<queued, pc>>
    <3>1. \A c : Reserving(c)' = Reserving(c)
      BY <1>3, <2>2 DEF Reserving, Reserve
    <3>2. QED
      BY <2>1, <2>2, <3>1, AccountsKept
  <2>3. CASE queued' = [queued EXCEPT ![held[t]] = @ + 1] /\ Goto(t, "reserved")
    <3>1. \A c : c = held[t] => t \notin Reserving(c) /\ Reserving(c)' = Reserving(c) \cup {t}
      BY <1>3, <2>3 DEF Reserving, Reserve, Goto
    <3>2. \A c : c # held[t] => Reserving(c)' = Reserving(c)
      BY <1>3, <2>3 DEF Reserving, Reserve, Goto
    <3>3. \A c : c = held[t] => Cardinality(Reserving(c)') = Cardinality(Reserving(c)) + 1
      BY <3>1, ReservingFinite, FS_AddElement
    <3>4. SUFFICES ASSUME NEW c \in 1..Len(items)
                   PROVE  queued'[c] = Len(items[c]) + Cardinality(Reserving(c)') + Unreleased(c)
      BY <2>1 DEF SlotAccounting
    <3>5. queued[c] = Len(items[c]) + Cardinality(Reserving(c)) + Unreleased(c)
      BY DEF SlotAccounting
    <3>6. CASE c = held[t]
      <4>1. queued'[c] = queued[c] + 1
        BY <2>1, <2>3, <3>6
      <4>2. Cardinality(Reserving(c)) \in Nat /\ Unreleased(c) \in {0, 1}
        BY ReservingFinite, UnreleasedType
      <4>3. Cardinality(Reserving(c)') = Cardinality(Reserving(c)) + 1
        BY <3>3, <3>6
      <4>4. Len(items[c]) \in Nat
        BY <1>1
      <4>5. QED
        BY ONLY <3>5, <4>1, <4>2, <4>3, <4>4
    <3>7. CASE c # held[t]
      BY <2>1, <2>3, <3>2, <3>5, <3>7
    <3>8. QED
      BY <3>6, <3>7
  <2>4. QED
    BY <1>3, <2>2, <2>3 DEF Reserve
<1>4. ASSUME NEW t \in Threads, Send(t) PROVE SlotAccounting'
  <2>1. /\ held[t] \in 1..Len(items) /\ UNCHANGED queued
        /\ \A c : Unreleased(c)' = Unreleased(c) /\ Unreleased(c) \in {0, 1}
    BY <1>4, UnreleasedType DEF Send, PhaseOK, flushVars, Unreleased
  <2>2. \A c : c = held[t] => t \in Reserving(c) /\ Reserving(c)' = Reserving(c) \ {t}
    BY <1>4 DEF Reserving, Send, Goto
  <2>3. \A c : c # held[t] => Reserving(c)' = Reserving(c)
    BY <1>4 DEF Reserving, Send, Goto
  <2>4. \A c : c = held[t] => Cardinality(Reserving(c)') = Cardinality(Reserving(c)) - 1
    BY <2>2, ReservingFinite, FS_RemoveElement
  <2>5. /\ Len(items') = Len(items) /\ Len(items'[held[t]]) = Len(items[held[t]]) + 1
        /\ \A c \in 1..Len(items) : c # held[t] => items'[c] = items[c]
    <3>1. nth[t] \in 1..RowsPerThread
      BY <1>4, LogQueueAssumption DEF Send, PhaseOK, LogQueueAssumption
    <3>2. RowOf(t) \in Rows
      BY <3>1 DEF RowOf, Rows
    <3>3. /\ Append(items[held[t]], RowOf(t)) \in Seq(Rows)
          /\ Len(Append(items[held[t]], RowOf(t))) = Len(items[held[t]]) + 1
      BY <1>1, <2>1, <3>2, AppendProperties
    <3>4. QED
      BY <1>4, <2>1, <3>3, ExceptSeq DEF Send
  <2>6. SUFFICES ASSUME NEW c \in 1..Len(items)
                 PROVE  queued[c] = Len(items'[c]) + Cardinality(Reserving(c)') + Unreleased(c)
    BY <2>1, <2>5 DEF SlotAccounting
  <2>7. queued[c] = Len(items[c]) + Cardinality(Reserving(c)) + Unreleased(c)
    BY DEF SlotAccounting
  <2>8. CASE c = held[t]
    <3>1. Cardinality(Reserving(c)) \in Nat
      BY ReservingFinite
    <3>2. Cardinality(Reserving(c)') = Cardinality(Reserving(c)) - 1
      BY <2>4, <2>8
    <3>3. QED
      BY <1>1, <2>1, <2>5, <2>7, <2>8, <3>1, <3>2
  <2>9. CASE c # held[t]
    BY <2>1, <2>3, <2>5, <2>7, <2>9
  <2>10. QED
    BY <2>8, <2>9
<1>5. CASE Swap
  <2>1. /\ Len(items') = Len(items) + 1 /\ items'[Len(items) + 1] = <<>>
        /\ \A c \in 1..Len(items) : items'[c] = items[c]
    <3>1. <<>> \in Seq(Rows)
      OBVIOUS
    <3>2. QED
      BY <1>5, <3>1, AppendProperties DEF Swap
  <2>2. /\ queued'[Len(items) + 1] = 0
        /\ \A c \in 1..Len(items) : queued'[c] = queued[c]
    BY <1>5, AppendProperties DEF Swap
  <2>3. \A c : Reserving(c)' = Reserving(c)
    BY <1>5 DEF Swap, pushVars, Reserving
  <2>4. \A c : Unreleased(c) = 0 /\ Unreleased(c)' = 0
    BY <1>5 DEF Swap, Unreleased
  <2>5. SUFFICES ASSUME NEW c \in 1..(Len(items) + 1)
                 PROVE  queued'[c] = Len(items'[c]) + Cardinality(Reserving(c)) + 0
    BY <2>1, <2>3, <2>4 DEF SlotAccounting
  <2>6. CASE c = Len(items) + 1
    <3>1. Reserving(c) = {}
      BY <1>1, <2>6 DEF Reserving
    <3>2. Cardinality(Reserving(c)) = 0
      BY <3>1, FS_EmptySet
    <3>3. Len(<<>>) = 0
      OBVIOUS
    <3>4. QED
      BY <2>1, <2>2, <2>6, <3>2, <3>3
  <2>7. CASE c \in 1..Len(items)
    <3>1. queued[c] = Len(items[c]) + Cardinality(Reserving(c)) + 0
      BY <2>4, <2>7 DEF SlotAccounting
    <3>2. QED
      BY <2>1, <2>2, <2>7, <3>1
  <2>8. QED
    BY <1>1, <2>6, <2>7
<1>6. CASE Pop
  <2>1. draining \in 1..Len(items) /\ UNCHANGED <<queued, draining>>
    BY <1>6 DEF Pop, PhaseOK
  <2>2. \A c : Reserving(c)' = Reserving(c)
    BY <1>6 DEF Pop, pushVars, Reserving
  <2>3. /\ Len(items') = Len(items) /\ Len(items'[draining]) = Len(items[draining]) - 1
        /\ \A c \in 1..Len(items) : c # draining => items'[c] = items[c]
    BY <1>1, <1>6, <2>1, HeadTailProperties DEF Pop
  <2>4. \A c : /\ Unreleased(c) = 0
               /\ Unreleased(c)' = IF draining = c THEN 1 ELSE 0
    BY <1>6 DEF Pop, Unreleased
  <2>5. SUFFICES ASSUME NEW c \in 1..Len(items)
                 PROVE  queued[c] = Len(items'[c]) + Cardinality(Reserving(c))
                                    + (IF draining = c THEN 1 ELSE 0)
    BY <2>1, <2>2, <2>3, <2>4 DEF SlotAccounting
  <2>6. queued[c] = Len(items[c]) + Cardinality(Reserving(c)) + 0
    BY <2>4 DEF SlotAccounting
  <2>7. Cardinality(Reserving(c)) \in Nat
    BY ReservingFinite
  <2>8. Len(items[c]) \in Nat
    BY <1>1
  <2>9. CASE draining = c
    <3>1. Len(items'[c]) = Len(items[c]) - 1
      BY <2>3, <2>9
    <3>2. QED
      BY ONLY <3>1, <2>6, <2>7, <2>8, <2>9
  <2>10. CASE draining # c
    <3>1. items'[c] = items[c]
      BY <2>3, <2>10
    <3>2. QED
      BY ONLY <3>1, <2>6, <2>7, <2>10
  <2>11. QED
    BY <2>9, <2>10
<1>7. CASE ReleaseSlot
  <2>1. draining \in 1..Len(items) /\ UNCHANGED <<items, draining>>
    BY <1>7 DEF ReleaseSlot, PhaseOK
  <2>2. \A c : Reserving(c)' = Reserving(c)
    BY <1>7 DEF ReleaseSlot, pushVars, Reserving
  <2>3. \A c : /\ Unreleased(c) = IF draining = c THEN 1 ELSE 0
               /\ Unreleased(c)' = 0
    BY <1>7 DEF ReleaseSlot, Unreleased
  <2>4. /\ queued'[draining] = queued[draining] - 1
        /\ \A c \in 1..Len(items) : c # draining => queued'[c] = queued[c]
    BY <1>7, <2>1 DEF ReleaseSlot
  <2>5. SUFFICES ASSUME NEW c \in 1..Len(items)
                 PROVE  queued'[c] = Len(items[c]) + Cardinality(Reserving(c)) + 0
    BY <2>1, <2>2, <2>3 DEF SlotAccounting
  <2>6. queued[c] = Len(items[c]) + Cardinality(Reserving(c))
                    + (IF draining = c THEN 1 ELSE 0)
    BY <2>3 DEF SlotAccounting
  <2>7. Cardinality(Reserving(c)) \in Nat
    BY ReservingFinite
  <2>8. QED
    BY <1>1, <2>4, <2>6, <2>7
<1>8. CASE DrainDone \/ SendRows \/ TriggerFlushBackground \/ Join
  <2>1. \A c : Reserving(c)' = Reserving(c)
    BY <1>8 DEF DrainDone, SendRows, TriggerFlushBackground, Join, pushVars, Reserving
  <2>2. UNCHANGED <<items, queued>>
    BY <1>8 DEF DrainDone, SendRows, TriggerFlushBackground, Join, chanVars
  <2>3. \A c : Unreleased(c)' = Unreleased(c)
    BY <1>8 DEF DrainDone, SendRows, TriggerFlushBackground, Join, Running, Unreleased
  <2>4. QED
    BY <2>1, <2>2, <2>3, AccountsKept
<1>9. CASE UNCHANGED <<pushVars, chanVars, flushVars>>
  <2>1. \A c : Reserving(c)' = Reserving(c)
    BY <1>9 DEF pushVars, Reserving
  <2>2. UNCHANGED <<items, queued>> /\ \A c : Unreleased(c)' = Unreleased(c)
    BY <1>9 DEF chanVars, flushVars, Unreleased
  <2>3. QED
    BY <2>1, <2>2, AccountsKept
<1>10. QED
  BY <1>2, <1>3, <1>4, <1>5, <1>6, <1>7, <1>8, <1>9
     DEF Next, vars, Push, CallFlush, SendFlush, TriggerFlushCommand, Drop, SendDropFlush, Exited,
         Worker, Receive, Check, Respond, FlushTask

LEMMA ConfigKept == [Next]_vars => config' = config /\ (Checked' <=> Checked) /\ (Enforce' <=> Enforce)
BY DEF Next, vars, LoadChannel, Push, ReadCount, Refuse, Reserve, Send, Signal, CallFlush,
       SendFlush, TriggerFlushCommand, Drop, SendDropFlush, Exited, Worker, Receive,
       TriggerFlushBackground, Join, Check, Respond, FlushTask, Swap, Pop, ReleaseSlot,
       DrainDone, SendRows, Checked, Enforce

LEMMA Bounds ==
  TypeOK /\ PhaseOK /\ SlotsBounded /\ [Next]_vars /\ ChannelTypeOK' => SlotsBounded'
<1> SUFFICES ASSUME TypeOK, PhaseOK, SlotsBounded, [Next]_vars, ChannelTypeOK', Enforce
             PROVE  \A c \in 1..Len(items') : queued'[c] <= QueueMaxSize
  BY ConfigKept DEF SlotsBounded
<1> USE DEF TypeOK, PushTypeOK, ChannelTypeOK
<1>1. /\ Len(items) \in Nat \ {0} /\ QueueMaxSize \in Nat
      /\ \A c \in 1..Len(items) : queued[c] \in Nat /\ queued[c] <= QueueMaxSize
  BY EmptySeq, ElementOfSeq, LogQueueAssumption DEF SlotsBounded, LogQueueAssumption
<1>2. ASSUME NEW t \in Threads, Reserve(t)
      PROVE  \A c \in 1..Len(items') : queued'[c] <= QueueMaxSize
  <2>1. held[t] \in 1..Len(items) /\ items' = items /\ seen[t] \in Nat
    BY <1>2 DEF Reserve, PhaseOK
  <2>2. seen[t] < QueueMaxSize
    BY <1>1, <1>2, <2>1 DEF Reserve, Full
  <2>3. CASE queued[held[t]] = seen[t] /\ queued' = [queued EXCEPT ![held[t]] = @ + 1]
    <3> SUFFICES ASSUME NEW c \in 1..Len(items) PROVE queued'[c] <= QueueMaxSize
      BY <2>1
    <3>1. DOMAIN queued = 1..Len(items)
      OBVIOUS
    <3>2. queued'[c] = IF c = held[t] THEN queued[c] + 1 ELSE queued[c]
      BY ONLY <2>3, <3>1, c \in 1..Len(items)
    <3>3. /\ queued[c] \in Nat /\ queued[c] <= QueueMaxSize
          /\ c = held[t] => queued[c] = seen[t]
      BY <1>1, <2>3
    <3>4. QED
      BY ONLY <1>1, <2>1, <2>2, <3>2, <3>3
  <2>4. CASE queued' = queued
    BY <1>1, <2>1, <2>4
  <2>5. QED
    BY <1>2, <2>3, <2>4 DEF Reserve
<1>3. ASSUME NEW t \in Threads, Send(t)
      PROVE  \A c \in 1..Len(items') : queued'[c] <= QueueMaxSize
  <2>1. queued' = queued
    BY <1>3 DEF Send
  <2>2. Len(items') = Len(items)
    BY <2>1
  <2>3. QED
    BY <1>1, <2>1, <2>2
<1>4. CASE Swap
  <2>1. 0 \in Nat /\ queued' = Append(queued, 0)
    BY <1>4 DEF Swap
  <2>2. /\ Len(queued') = Len(queued) + 1 /\ queued'[Len(queued) + 1] = 0
        /\ \A c \in 1..Len(queued) : queued'[c] = queued[c]
    BY <2>1, AppendProperties
  <2>3. SUFFICES ASSUME NEW c \in 1..(Len(items) + 1) PROVE queued'[c] <= QueueMaxSize
    BY <2>2
  <2>4. c \in 1..Len(items) \/ c = Len(items) + 1
    BY <1>1
  <2>5. Len(queued) = Len(items)
    OBVIOUS
  <2>6. CASE c \in 1..Len(items)
    BY <1>1, <2>2, <2>5, <2>6
  <2>7. CASE c = Len(items) + 1
    <3>1. queued'[c] = 0
      BY <2>2, <2>5, <2>7
    <3>2. QED
      BY <1>1, <3>1
  <2>8. QED
    BY <2>4, <2>6, <2>7
<1>5. CASE Pop
  <2>1. queued' = queued
    BY <1>5 DEF Pop
  <2>2. Len(items') = Len(items)
    BY <2>1
  <2>3. QED
    BY <1>1, <2>1, <2>2
<1>6. CASE ReleaseSlot
  <2>1. /\ draining \in 1..Len(items) /\ items' = items
        /\ queued' = [queued EXCEPT ![draining] = @ - 1]
    BY <1>6 DEF ReleaseSlot, PhaseOK
  <2>2. DOMAIN queued = 1..Len(items)
    OBVIOUS
  <2>3. ASSUME NEW c \in 1..Len(items) PROVE queued'[c] <= queued[c]
    <3>1. queued'[c] = IF c = draining THEN queued[c] - 1 ELSE queued[c]
      BY ONLY <2>1, <2>2, c \in 1..Len(items)
    <3>2. queued[c] \in Nat
      BY <1>1
    <3>3. QED
      BY ONLY <3>1, <3>2
  <2>4. \A c \in 1..Len(items) : queued[c] \in Nat /\ queued'[c] \in Int
    <3>1. \A c \in 1..Len(items) : queued'[c] = IF c = draining THEN queued[c] - 1 ELSE queued[c]
      BY ONLY <2>1, <2>2
    <3>2. QED
      BY ONLY <1>1, <3>1
  <2>5. QED
    BY ONLY <1>1, <2>1, <2>3, <2>4
<1>7. CASE UNCHANGED <<items, queued>>
  BY <1>1, <1>7
<1>8. QED
  BY <1>2, <1>3, <1>4, <1>5, <1>6, <1>7
     DEF Next, vars, LoadChannel, Push, ReadCount, Refuse, Signal, CallFlush, SendFlush,
         TriggerFlushCommand, Drop, SendDropFlush, Exited, Worker, Receive, TriggerFlushBackground,
         Join, Check, Respond, FlushTask, DrainDone, SendRows, chanVars

(* Every action preserves the inductive invariant. *)
LEMMA Inductive == IInv /\ [Next]_vars => IInv'
BY PushTypes, ChannelTypes, FlushTypes, WorkerTypes, CallerTypes, Phases, Accounts, Bounds
   DEF IInv, TypeOK

LEMMA SpecIInv == Spec => []IInv
BY InitIInv, Inductive, PTL DEF Spec

(* The state variables of LogQueue keep their types. *)
THEOREM TypeCorrect == Spec => []TypeOK
<1>1. IInv => TypeOK
  BY DEF IInv
<1>2. QED
  BY <1>1, SpecIInv, PTL

(* queued_count is exact: push and drain_all never leak or double-free a   *)
(* slot, whatever threads race with a flush.                               *)
THEOREM SlotsExact == Spec => []SlotAccounting
<1>1. IInv => SlotAccounting
  BY DEF IInv
<1>2. QED
  BY <1>1, SpecIInv, PTL

(* An enforced queue_max_size is never exceeded by any channel. *)
THEOREM NeverOverfull == Spec => []QueueBounded
<1>1. IInv => QueueBounded
  <2> SUFFICES ASSUME IInv, Enforce, NEW c \in 1..Len(items)
               PROVE  Len(items[c]) <= QueueMaxSize
    BY DEF QueueBounded
  <2>1. queued[c] = Len(items[c]) + Cardinality(Reserving(c)) + Unreleased(c)
    BY DEF IInv, SlotAccounting
  <2>2. queued[c] <= QueueMaxSize
    BY DEF IInv, SlotsBounded
  <2>3. /\ Cardinality(Reserving(c)) \in Nat /\ Unreleased(c) \in {0, 1}
        /\ QueueMaxSize \in Nat
    BY ReservingFinite, UnreleasedType, LogQueueAssumption DEF LogQueueAssumption
  <2>4. Len(items[c]) \in Nat
    BY ElementOfSeq, LenProperties DEF IInv, TypeOK, ChannelTypeOK
  <2>5. QED
    BY <2>1, <2>2, <2>3, <2>4
<1>2. QED
  BY <1>1, SpecIInv, PTL

-----------------------------------------------------------------------------
(* Where the rows are.                                                     *)

Channels == 1..Len(items)

(* The rows a thread has put into a channel or given up on. *)
Done == {r \in Rows : \/ r[2] < nth[r[1]]
                      \/ r[2] = nth[r[1]] /\ pc[r[1]] \in {"signal", "idle"}}

(* Rows of one thread keep the order of its submit calls. *)
Precedes(r, q) == r[1] = q[1] => r[2] < q[2]
Ordered(s) == \A i, j \in DOMAIN s : i < j => Precedes(s[i], s[j])

(* A row that has been pushed is in a channel or in the batch, and in no   *)
(* two of them, until it has an outcome.                                   *)
Placed ==
  /\ \A r \in Rows :
       r \in Done <=> \/ outcome[r] # "pending" \/ r \in ToSet(batch)
                      \/ \E c \in Channels : r \in ToSet(items[c])
  /\ \A r \in ToSet(batch) : outcome[r] = "pending"
  /\ \A c \in Channels : \A r \in ToSet(items[c]) :
       outcome[r] = "pending" /\ r \notin ToSet(batch)

(* The rows of a thread are in order, within a channel and across them. *)
InOrder ==
  /\ \A c \in Channels : Ordered(items[c])
  /\ \A c, d \in Channels : c < d =>
       \A r \in ToSet(items[c]), q \in ToSet(items[d]) : Precedes(r, q)

(* No row of a thread is ahead of the channel the thread is about to use. *)
Behind ==
  \A t \in Threads : pc[t] \in {"loaded", "reserving", "reserved"} =>
    \A c \in Channels : \A r \in ToSet(items[c]) : r[1] = t => c <= held[t]

(* The worker awaits the only flush task there is, and only one that       *)
(* drains or sends has rows.                                               *)
Tasks ==
  /\ draining # 0 <=> task \in {"drain", "popped"}
  /\ task \in {"none", "swap", "ok", "err"} => batch = <<>>
  /\ task # "none" <=> wpc = "join"

RowsInv == Placed /\ InOrder /\ Behind /\ Tasks

LEMMA RowParts ==
  /\ \A r \in Rows : r[1] \in Threads /\ r[2] \in Nat /\ r[2] \in 1..RowsPerThread
  /\ \A q, r \in Rows : q[1] = r[1] /\ q[2] = r[2] => q = r
BY LogQueueAssumption DEF Rows, LogQueueAssumption

LEMMA RowOfType ==
  ASSUME IInv, NEW t \in Threads, pc[t] # "idle"
  PROVE  RowOf(t) \in Rows /\ RowOf(t)[1] = t /\ RowOf(t)[2] = nth[t]
<1>1. nth[t] \in 1..RowsPerThread
  BY LogQueueAssumption DEF IInv, TypeOK, PushTypeOK, PhaseOK, LogQueueAssumption
<1>2. QED
  BY <1>1 DEF RowOf, Rows

LEMMA RowsAre ==
  ASSUME NEW s \in Seq(Rows)
  PROVE  ToSet(s) \subseteq Rows
BY ElementOfSeq, LenProperties DEF ToSet

LEMMA EmptyHasNone == ToSet(<<>>) = {} /\ Ordered(<<>>)
<1>1. DOMAIN <<>> = {}
  OBVIOUS
<1>2. QED
  BY <1>1 DEF ToSet, Ordered

(* A row appended behind its elders keeps a channel in order. *)
LEMMA AppendOrdered ==
  ASSUME NEW s \in Seq(Rows), NEW e \in Rows
  PROVE  /\ ToSet(Append(s, e)) = ToSet(s) \cup {e}
         /\ Ordered(s) /\ (\A q \in ToSet(s) : Precedes(q, e)) => Ordered(Append(s, e))
<1> DEFINE a == Append(s, e)
<1>1. /\ a \in Seq(Rows) /\ Len(a) = Len(s) + 1
      /\ \A i \in 1..Len(s) : a[i] = s[i]
      /\ a[Len(s) + 1] = e
  BY AppendProperties
<1>2. Len(s) \in Nat /\ DOMAIN s = 1..Len(s) /\ DOMAIN a = 1..(Len(s) + 1)
  BY <1>1, LenProperties
<1> HIDE DEF a
<1>3. ToSet(a) = ToSet(s) \cup {e}
  BY <1>1, <1>2 DEF ToSet
<1>4. ASSUME Ordered(s), \A q \in ToSet(s) : Precedes(q, e)
      PROVE  Ordered(a)
  <2> SUFFICES ASSUME NEW i \in DOMAIN a, NEW j \in DOMAIN a, i < j
               PROVE  Precedes(a[i], a[j])
    BY DEF Ordered
  <2>1. i \in 1..Len(s) /\ a[i] = s[i] /\ s[i] \in ToSet(s)
    BY <1>1, <1>2 DEF ToSet
  <2>2. CASE j = Len(s) + 1
    BY <1>1, <1>4, <2>1, <2>2
  <2>3. CASE j \in 1..Len(s)
    BY <1>1, <1>2, <1>4, <2>1, <2>3 DEF Ordered
  <2> QED
    BY <1>2, <2>2, <2>3
<1> QED
  BY <1>3, <1>4 DEF a

(* The head of a channel in order is the eldest of its thread. *)
LEMMA TailOrdered ==
  ASSUME NEW s \in Seq(Rows), s # <<>>
  PROVE  /\ Head(s) \in Rows /\ Tail(s) \in Seq(Rows)
         /\ ToSet(s) = {Head(s)} \cup ToSet(Tail(s))
         /\ Ordered(s) => /\ Ordered(Tail(s))
                          /\ \A q \in ToSet(Tail(s)) : Precedes(Head(s), q)
<1> DEFINE tl == Tail(s)
<1>1. /\ tl \in Seq(Rows) /\ Len(tl) = Len(s) - 1
      /\ \A i \in 1..Len(tl) : tl[i] = s[i + 1]
      /\ Head(s) \in Rows
  BY HeadTailProperties
<1>2. Len(s) \in Nat \ {0} /\ DOMAIN s = 1..Len(s) /\ DOMAIN tl = 1..Len(tl)
  BY <1>1, LenProperties, EmptySeq
<1>3. Head(s) = s[1]
  BY <1>2
<1> HIDE DEF tl
<1>4. ToSet(s) = {s[1]} \cup ToSet(tl)
  <2>1. \A i \in DOMAIN s : i = 1 \/ (i - 1 \in DOMAIN tl /\ s[i] = tl[i - 1])
    BY <1>1, <1>2
  <2>2. \A i \in DOMAIN tl : i + 1 \in DOMAIN s /\ tl[i] = s[i + 1]
    BY <1>1, <1>2
  <2>3. 1 \in DOMAIN s
    BY <1>2
  <2> QED
    BY <2>1, <2>2, <2>3 DEF ToSet
<1>5. ASSUME Ordered(s)
      PROVE  Ordered(tl) /\ \A q \in ToSet(tl) : Precedes(s[1], q)
  <2>1. \A i \in DOMAIN tl : i + 1 \in DOMAIN s /\ tl[i] = s[i + 1] /\ 1 < i + 1 /\ 1 \in DOMAIN s
    BY <1>1, <1>2
  <2>2. \A i, j \in DOMAIN tl : i < j => i + 1 < j + 1
    BY <1>2
  <2>3. Ordered(tl)
    BY <1>5, <2>1, <2>2 DEF Ordered
  <2>4. \A q \in ToSet(tl) : Precedes(s[1], q)
    BY <1>5, <2>1 DEF Ordered, ToSet
  <2> QED
    BY <2>3, <2>4
<1> QED
  BY <1>1, <1>3, <1>4, <1>5 DEF tl

-----------------------------------------------------------------------------
(* What the steps do to the rows.                                          *)

LEMMA ChannelsAre ==
  ASSUME IInv
  PROVE  /\ Len(items) \in Nat \ {0} /\ current \in Channels
         /\ \A c \in Channels : items[c] \in Seq(Rows) /\ ToSet(items[c]) \subseteq Rows
         /\ batch \in Seq(Rows) /\ ToSet(batch) \subseteq Rows
<1>1. items \in Seq(Seq(Rows)) /\ items # <<>> /\ batch \in Seq(Rows)
  BY DEF IInv, TypeOK, ChannelTypeOK, FlushTypeOK
<1>2. Len(items) \in Nat \ {0}
  BY <1>1, EmptySeq, LenProperties
<1>3. \A c \in Channels : items[c] \in Seq(Rows)
  BY <1>1, ElementOfSeq DEF Channels
<1> QED
  BY <1>1, <1>2, <1>3, RowsAre DEF Channels, current

LEMMA SendEffect ==
  ASSUME IInv, NEW t \in Threads, Send(t)
  PROVE  /\ held[t] \in Channels /\ Channels' = Channels
         /\ items'[held[t]] = Append(items[held[t]], RowOf(t))
         /\ \A c \in Channels : c # held[t] => items'[c] = items[c]
         /\ UNCHANGED <<held, nth, batch, outcome, draining, task, wpc>>
         /\ pc[t] = "reserved" /\ pc' = [pc EXCEPT ![t] = "signal"]
<1>1. held[t] \in Channels /\ items \in Seq(Seq(Rows))
  BY DEF Send, IInv, PhaseOK, TypeOK, ChannelTypeOK, Channels
<1>2. Len(items') = Len(items) /\ items'[held[t]] = Append(items[held[t]], RowOf(t))
      /\ \A c \in Channels : c # held[t] => items'[c] = items[c]
  BY <1>1 DEF Send, Channels
<1> QED
  BY <1>1, <1>2 DEF Send, Goto, Channels, flushVars, workerVars

LEMMA SwapEffect ==
  ASSUME IInv, Swap
  PROVE  /\ Len(items') = Len(items) + 1 /\ items'[Len(items) + 1] = <<>>
         /\ \A c \in Channels : items'[c] = items[c]
         /\ UNCHANGED <<pc, held, nth, batch, outcome>>
<1>1. items \in Seq(Seq(Rows)) /\ <<>> \in Seq(Rows)
  BY DEF IInv, TypeOK, ChannelTypeOK
<1>2. /\ Len(items') = Len(items) + 1 /\ items'[Len(items) + 1] = <<>>
      /\ \A c \in Channels : items'[c] = items[c]
  BY <1>1, AppendProperties DEF Swap, Channels
<1> QED
  BY <1>2 DEF Swap, pushVars

LEMMA PopEffect ==
  ASSUME IInv, Pop, NEW h, h = Head(items[draining])
  PROVE  /\ draining \in Channels /\ Channels' = Channels
         /\ items[draining] # <<>> /\ items'[draining] = Tail(items[draining])
         /\ \A c \in Channels : c # draining => items'[c] = items[c]
         /\ h \in Rows /\ h \in ToSet(items[draining])
         /\ ToSet(batch') = ToSet(batch) \cup {h}
         /\ UNCHANGED <<pc, held, nth, outcome, draining, wpc>>
<1>1. draining \in Channels /\ items \in Seq(Seq(Rows)) /\ items[draining] # <<>>
  BY DEF Pop, IInv, PhaseOK, TypeOK, ChannelTypeOK, Channels
<1>2. items[draining] \in Seq(Rows) /\ batch \in Seq(Rows)
  BY <1>1, ChannelsAre
<1>3. Len(items') = Len(items) /\ items'[draining] = Tail(items[draining])
      /\ \A c \in Channels : c # draining => items'[c] = items[c]
  BY <1>1 DEF Pop, Channels
<1>4. h \in Rows /\ h \in ToSet(items[draining])
  BY <1>1, <1>2, TailOrdered
<1>5. batch' = Append(batch, h)
  BY DEF Pop
<1>6. ToSet(batch') = ToSet(batch) \cup {h}
  BY <1>2, <1>4, <1>5, AppendOrdered
<1> QED
  BY <1>1, <1>3, <1>4, <1>6 DEF Pop, Channels, pushVars, workerVars

(* Only a refusal and a send finish a push. *)
LEMMA DoneGrows ==
  ASSUME IInv, NEW t \in Threads, Refuse(t) \/ Send(t)
  PROVE  RowOf(t) \notin Done /\ Done' = Done \cup {RowOf(t)}
<1>1. RowOf(t) \in Rows /\ RowOf(t)[1] = t /\ RowOf(t)[2] = nth[t]
  BY RowOfType DEF Refuse, Send
<1>2. /\ pc[t] \notin {"signal", "idle"} /\ nth[t] \in Nat /\ nth' = nth
      /\ pc'[t] = "signal" /\ \A u \in Threads : u # t => pc'[u] = pc[u]
  BY LogQueueAssumption DEF Refuse, Send, Goto, IInv, TypeOK, PushTypeOK, LogQueueAssumption
<1>3. RowOf(t) \notin Done
  BY <1>1, <1>2 DEF Done
<1>4. ASSUME NEW r \in Rows PROVE r \in Done' <=> r \in Done \/ r = RowOf(t)
  <2>1. CASE r[1] # t
    BY <1>1, <1>2, <2>1, RowParts DEF Done
  <2>2. CASE r[1] = t
    <3>1. r \in Done <=> r[2] < nth[t]
      BY <1>2, <2>2 DEF Done
    <3>2. r \in Done' <=> r[2] < nth[t] \/ r[2] = nth[t]
      BY <1>2, <2>2 DEF Done
    <3> QED
      BY <1>1, <2>2, <3>1, <3>2, RowParts
  <2> QED
    BY <2>1, <2>2
<1> QED
  BY <1>1, <1>3, <1>4 DEF Done

LEMMA DoneStays ==
  ASSUME IInv, NEW t \in Threads, LoadChannel(t) \/ ReadCount(t) \/ Reserve(t) \/ Signal(t)
  PROVE  Done' = Done
<1>1. nth \in [Threads -> Nat] /\ pc \in [Threads -> {"idle", "loaded", "reserving", "reserved", "signal"}]
  BY LogQueueAssumption DEF IInv, TypeOK, PushTypeOK, LogQueueAssumption
<1>2. ASSUME NEW r \in Rows PROVE r \in Done' <=> r \in Done
  <2>1. r[1] \in Threads /\ r[2] \in Nat /\ nth[r[1]] \in Nat
    BY <1>1, RowParts
  <2>2. CASE LoadChannel(t)
    <3>1. /\ pc[t] = "idle" /\ pc' = [pc EXCEPT ![t] = "loaded"] /\ nth' = [nth EXCEPT ![t] = @ + 1]
      BY <2>2 DEF LoadChannel, Goto
    <3> QED
      BY <1>1, <2>1, <3>1 DEF Done
  <2>3. CASE ReadCount(t) \/ Reserve(t)
    BY <1>1, <2>1, <2>3 DEF Done, ReadCount, Reserve, Goto
  <2>4. CASE Signal(t)
    BY <1>1, <2>1, <2>4 DEF Done, Signal, Goto
  <2> QED
    BY <2>2, <2>3, <2>4
<1> QED
  BY <1>2 DEF Done

(* The steps that move rows; every other step leaves them alone. *)
Aside ==
  /\ UNCHANGED <<pushVars, chanVars, flushVars, outcome>>
  /\ wpc = "join" <=> wpc' = "join"

LEMMA RowSteps ==
  ASSUME [Next]_vars
  PROVE  \/ \E t \in Threads : \/ LoadChannel(t) \/ ReadCount(t) \/ Refuse(t)
                               \/ Reserve(t) \/ Send(t) \/ Signal(t)
         \/ Swap \/ Pop \/ ReleaseSlot \/ DrainDone \/ SendRows
         \/ TriggerFlushBackground \/ Join
         \/ Aside
<1>1. CASE UNCHANGED vars
  BY <1>1 DEF vars, Aside, workerVars
<1>2. ASSUME NEW f \in Callers, CallFlush(f) \/ SendFlush(f) PROVE Aside
  BY <1>2 DEF CallFlush, SendFlush, Aside, workerVars
<1>3. CASE TriggerFlushCommand \/ Drop \/ SendDropFlush \/ Exited
  BY <1>3 DEF TriggerFlushCommand, Drop, SendDropFlush, Exited, vars, Aside, workerVars
<1>4. CASE Receive \/ Check \/ Respond
  BY <1>4 DEF Receive, Check, Respond, Aside
<1> QED
  BY <1>1, <1>2, <1>3, <1>4 DEF Next, Push, Worker, FlushTask

(* A step that moves no row keeps every row where it was. *)
LEMMA PlacedStays ==
  ASSUME Placed, Done' = Done, UNCHANGED <<items, batch, outcome>>
  PROVE  Placed'
BY DEF Placed, Channels

LEMMA PlacedKept ==
  ASSUME IInv, RowsInv, [Next]_vars
  PROVE  Placed'
<1> USE DEF RowsInv
<1>1. ASSUME NEW t \in Threads, LoadChannel(t) \/ ReadCount(t) \/ Reserve(t) \/ Signal(t)
      PROVE  Placed'
  <2>1. UNCHANGED <<items, batch, outcome>>
    BY <1>1 DEF LoadChannel, ReadCount, Reserve, Signal, chanVars, flushVars
  <2> QED
    BY <1>1, <2>1, DoneStays, PlacedStays
<1>2. ASSUME NEW t \in Threads, Refuse(t) PROVE Placed'
  <2>1. RowOf(t) \in Rows /\ RowOf(t) \notin Done /\ Done' = Done \cup {RowOf(t)}
    BY <1>2, RowOfType, DoneGrows DEF Refuse
  <2>2. outcome' = [outcome EXCEPT ![RowOf(t)] = "dropped"] /\ UNCHANGED <<items, batch>>
    BY <1>2 DEF Refuse, chanVars, flushVars
  <2>3. outcome \in [Rows -> {"pending", "dropped", "delivered", "failed"}]
    BY DEF IInv, TypeOK, FlushTypeOK
  <2>4. /\ \A r \in ToSet(batch) : r \in Rows
        /\ \A c \in Channels : \A r \in ToSet(items[c]) : r \in Rows
    BY ChannelsAre
  <2>5. /\ RowOf(t) \notin ToSet(batch)
        /\ \A c \in Channels : RowOf(t) \notin ToSet(items[c])
    BY <2>1 DEF Placed
  <2>6. /\ outcome'[RowOf(t)] # "pending"
        /\ \A r \in Rows : r # RowOf(t) => outcome'[r] = outcome[r]
    BY <2>1, <2>2, <2>3
  <2>7. Channels' = Channels
    BY <2>2 DEF Channels
  <2> QED
    BY <2>1, <2>2, <2>4, <2>5, <2>6, <2>7 DEF Placed
<1>3. ASSUME NEW t \in Threads, Send(t) PROVE Placed'
  <2> DEFINE r == RowOf(t)
  <2>1. r \in Rows /\ r \notin Done /\ Done' = Done \cup {r}
    BY <1>3, RowOfType, DoneGrows DEF Send
  <2>2. /\ held[t] \in Channels /\ Channels' = Channels
        /\ ToSet(items'[held[t]]) = ToSet(items[held[t]]) \cup {r}
        /\ \A c \in Channels : c # held[t] => ToSet(items'[c]) = ToSet(items[c])
        /\ UNCHANGED <<batch, outcome>>
    BY <1>3, <2>1, SendEffect, ChannelsAre, AppendOrdered
  <2>3. outcome[r] = "pending" /\ r \notin ToSet(batch)
    BY <2>1 DEF Placed
  <2> HIDE DEF r
  <2>4. \A q : (\E c \in Channels : q \in ToSet(items'[c]))
                 <=> q = r \/ \E c \in Channels : q \in ToSet(items[c])
    BY <2>2
  <2> QED
    BY <2>1, <2>2, <2>3, <2>4 DEF Placed
<1>4. CASE Swap
  <2>1. Done' = Done /\ UNCHANGED <<batch, outcome>>
    BY <1>4, SwapEffect DEF Done
  <2>2. Channels' = Channels \cup {Len(items) + 1}
    BY <1>4, SwapEffect, ChannelsAre DEF Channels
  <2>3. ToSet(items'[Len(items) + 1]) = {} /\ \A c \in Channels : items'[c] = items[c]
    BY <1>4, SwapEffect, EmptyHasNone
  <2>4. \A q : (\E c \in Channels' : q \in ToSet(items'[c]))
                 <=> \E c \in Channels : q \in ToSet(items[c])
    BY <2>2, <2>3
  <2> QED
    BY <2>1, <2>2, <2>3, <2>4 DEF Placed
<1>5. CASE Pop
  <2> DEFINE h == Head(items[draining])
  <2>1. /\ draining \in Channels /\ Channels' = Channels
        /\ h \in Rows /\ ToSet(batch') = ToSet(batch) \cup {h}
        /\ \A c \in Channels : c # draining => items'[c] = items[c]
        /\ UNCHANGED <<pc, nth, outcome>>
    BY <1>5, PopEffect
  <2>2. /\ ToSet(items[draining]) = {h} \cup ToSet(items'[draining])
        /\ \A q \in ToSet(items'[draining]) : Precedes(h, q)
    BY <1>5, PopEffect, ChannelsAre, TailOrdered DEF InOrder
  <2>3. h \notin ToSet(items'[draining])
    BY <2>1, <2>2, RowParts DEF Precedes
  <2>4. \A c \in Channels : c # draining => h \notin ToSet(items[c])
    <3> SUFFICES ASSUME NEW c \in Channels, c # draining, h \in ToSet(items[c]) PROVE FALSE
      OBVIOUS
    <3>1. c < draining \/ draining < c
      BY <2>1 DEF Channels
    <3>2. Precedes(h, h)
      BY <2>1, <2>2, <3>1 DEF InOrder
    <3> QED
      BY <2>1, <3>2, RowParts DEF Precedes
  <2>5. outcome[h] = "pending" /\ h \notin ToSet(batch)
    BY <2>1, <2>2 DEF Placed
  <2>6. Done' = Done
    BY <2>1 DEF Done
  <2> HIDE DEF h
  <2>7. \A q : q = h \/ (\E c \in Channels : q \in ToSet(items'[c]))
                 <=> \E c \in Channels : q \in ToSet(items[c])
    BY <2>1, <2>2
  <2>8. \A c \in Channels : h \notin ToSet(items'[c])
                            /\ ToSet(items'[c]) \subseteq ToSet(items[c])
    BY <2>1, <2>2, <2>3, <2>4
  <2> QED
    BY <2>1, <2>5, <2>6, <2>7, <2>8 DEF Placed
<1>6. CASE ReleaseSlot \/ DrainDone
  <2>1. UNCHANGED <<items, batch, outcome, pc, nth>>
    BY <1>6 DEF ReleaseSlot, DrainDone, chanVars, pushVars
  <2> QED
    BY <2>1, PlacedStays DEF Done
<1>7. CASE SendRows
  <2>1. /\ UNCHANGED <<items, pc, nth>> /\ ToSet(batch') = {}
        /\ \A r \in Rows : IF r \in ToSet(batch) THEN outcome'[r] # "pending"
                                               ELSE outcome'[r] = outcome[r]
    BY <1>7, EmptyHasNone DEF SendRows, pushVars, chanVars
  <2>2. Done' = Done /\ Channels' = Channels
    BY <2>1 DEF Done, Channels
  <2>3. \A c \in Channels : \A r \in ToSet(items[c]) : r \in Rows
    BY ChannelsAre
  <2> QED
    BY <2>1, <2>2, <2>3 DEF Placed
<1>8. CASE TriggerFlushBackground \/ Join \/ Aside
  <2>1. UNCHANGED <<items, batch, outcome, pc, nth>>
    BY <1>8 DEF TriggerFlushBackground, Join, Aside, pushVars, chanVars, flushVars
  <2> QED
    BY <2>1, PlacedStays DEF Done
<1> QED
  BY <1>1, <1>2, <1>3, <1>4, <1>5, <1>6, <1>7, <1>8, RowSteps

LEMMA OrderKept ==
  ASSUME IInv, RowsInv, [Next]_vars
  PROVE  InOrder'
<1> USE DEF RowsInv
<1>1. ASSUME NEW t \in Threads, Send(t) PROVE InOrder'
  <2> DEFINE r == RowOf(t)
  <2>1. /\ r \in Rows /\ r[1] = t /\ r[2] = nth[t] /\ pc[t] = "reserved"
    BY <1>1, RowOfType DEF Send
  <2>2. /\ held[t] \in Channels /\ Channels' = Channels
        /\ items[held[t]] \in Seq(Rows)
        /\ items'[held[t]] = Append(items[held[t]], r)
        /\ \A c \in Channels : c # held[t] => items'[c] = items[c]
    BY <1>1, SendEffect, ChannelsAre
  <2>3. \A c \in Channels : \A q \in ToSet(items[c]) : Precedes(q, r)
    <3> SUFFICES ASSUME NEW c \in Channels, NEW q \in ToSet(items[c]), q[1] = t
                 PROVE  q[2] < nth[t]
      BY <2>1 DEF Precedes
    <3>1. q \in Rows
      BY ChannelsAre
    <3>2. q \in Done
      BY <3>1 DEF Placed
    <3> QED
      BY <2>1, <3>2 DEF Done
  <2>4. \A c \in Channels : held[t] < c => \A q \in ToSet(items[c]) : q[1] # t
    <3> SUFFICES ASSUME NEW c \in Channels, held[t] < c, NEW q \in ToSet(items[c]), q[1] = t
                 PROVE  FALSE
      OBVIOUS
    <3>1. c <= held[t]
      BY <2>1 DEF Behind
    <3> QED
      BY <2>2, <3>1 DEF Channels
  <2> HIDE DEF r
  <2>5. /\ ToSet(items'[held[t]]) = ToSet(items[held[t]]) \cup {r}
        /\ Ordered(items'[held[t]])
    BY <2>1, <2>2, <2>3, AppendOrdered DEF InOrder
  <2>6. \A c \in Channels : Ordered(items'[c])
    BY <2>2, <2>5 DEF InOrder
  <2>7. ASSUME NEW c \in Channels, NEW d \in Channels, c < d,
               NEW p \in ToSet(items'[c]), NEW q \in ToSet(items'[d])
        PROVE  Precedes(p, q)
    <3>1. c # d
      BY <2>7 DEF Channels
    <3>2. CASE p \in ToSet(items[c]) /\ q \in ToSet(items[d])
      BY <2>7, <3>2 DEF InOrder
    <3>3. CASE c = held[t] /\ p = r
      <4>1. q \in ToSet(items[d])
        BY <2>2, <3>1, <3>3
      <4> QED
        BY <2>1, <2>4, <2>7, <3>3, <4>1 DEF Precedes
    <3>4. CASE d = held[t] /\ q = r
      <4>1. p \in ToSet(items[c])
        BY <2>2, <3>1, <3>4
      <4> QED
        BY <2>3, <3>4, <4>1
    <3> QED
      BY <2>2, <2>5, <3>2, <3>3, <3>4
  <2> QED
    BY <2>2, <2>6, <2>7 DEF InOrder
<1>2. CASE Swap
  <2>1. Channels' = Channels \cup {Len(items) + 1}
        /\ \A c \in Channels : c < Len(items) + 1
    BY <1>2, SwapEffect, ChannelsAre DEF Channels
  <2>2. /\ items'[Len(items) + 1] = <<>> /\ ToSet(items'[Len(items) + 1]) = {}
        /\ \A c \in Channels : items'[c] = items[c]
    BY <1>2, SwapEffect, EmptyHasNone
  <2>3. \A c \in Channels' : Ordered(items'[c])
    BY <2>1, <2>2, EmptyHasNone DEF InOrder
  <2>4. \A c, d \in Channels' : c < d =>
          \A p \in ToSet(items'[c]), q \in ToSet(items'[d]) : Precedes(p, q)
    BY <2>1, <2>2 DEF InOrder
  <2> QED
    BY <2>3, <2>4 DEF InOrder
<1>3. CASE Pop
  <2>1. /\ draining \in Channels /\ Channels' = Channels
        /\ items[draining] \in Seq(Rows) /\ items[draining] # <<>>
        /\ items'[draining] = Tail(items[draining])
        /\ \A c \in Channels : c # draining => items'[c] = items[c]
    BY <1>3, PopEffect, ChannelsAre
  <2>2. /\ Ordered(items'[draining]) 
        /\ ToSet(items'[draining]) \subseteq ToSet(items[draining])
    BY <2>1, TailOrdered DEF InOrder
  <2>3. \A c \in Channels : /\ Ordered(items'[c])
                            /\ ToSet(items'[c]) \subseteq ToSet(items[c])
    BY <2>1, <2>2 DEF InOrder
  <2> QED
    BY <2>1, <2>3 DEF InOrder
<1>4. CASE items' = items
  BY <1>4 DEF InOrder, Channels
<1> QED
  BY <1>1, <1>2, <1>3, <1>4, RowSteps
     DEF LoadChannel, ReadCount, Refuse, Reserve, Signal, ReleaseSlot, DrainDone, SendRows,
         TriggerFlushBackground, Join, Aside, chanVars

LEMMA BehindKept ==
  ASSUME IInv, RowsInv, [Next]_vars
  PROVE  Behind'
<1> USE DEF RowsInv
<1> DEFINE Pushing(p) == p \in {"loaded", "reserving", "reserved"}
<1>0. /\ pc \in [Threads -> {"idle", "loaded", "reserving", "reserved", "signal"}]
      /\ held \in [Threads -> 0..Len(items)]
  BY DEF IInv, TypeOK, PushTypeOK, ChannelTypeOK
<1>1. ASSUME NEW t \in Threads, LoadChannel(t) PROVE Behind'
  <2>1. /\ held' = [held EXCEPT ![t] = Len(items)] /\ items' = items
        /\ pc' = [pc EXCEPT ![t] = "loaded"]
    BY <1>1 DEF LoadChannel, Goto, chanVars, current
  <2>2. SUFFICES ASSUME NEW u \in Threads, Pushing(pc'[u]), NEW c \in Channels,
                        NEW r \in ToSet(items[c]), r[1] = u
                 PROVE  c <= held'[u]
    BY <2>1 DEF Behind, Channels
  <2>3. CASE u = t
    BY <1>0, <2>1, <2>3 DEF Channels
  <2>4. CASE u # t
    BY <1>0, <2>1, <2>2, <2>4 DEF Behind
  <2> QED
    BY <2>3, <2>4
<1>2. ASSUME NEW t \in Threads, ReadCount(t) \/ Refuse(t) \/ Reserve(t) \/ Signal(t) PROVE Behind'
  <2>1. items' = items
    BY <1>2 DEF ReadCount, Refuse, Reserve, Signal, chanVars
  <2>2. ASSUME NEW u \in Threads, Pushing(pc'[u]) PROVE Pushing(pc[u]) /\ held'[u] = held[u]
    BY <1>0, <1>2, <2>2 DEF ReadCount, Refuse, Reserve, Signal, Goto
  <2> QED
    BY <2>1, <2>2 DEF Behind, Channels
<1>3. ASSUME NEW t \in Threads, Send(t) PROVE Behind'
  <2>1. /\ held[t] \in Channels /\ Channels' = Channels
        /\ ToSet(items'[held[t]]) = ToSet(items[held[t]]) \cup {RowOf(t)}
        /\ \A c \in Channels : c # held[t] => ToSet(items'[c]) = ToSet(items[c])
        /\ held' = held /\ RowOf(t)[1] = t /\ pc' = [pc EXCEPT ![t] = "signal"]
    BY <1>3, SendEffect, RowOfType, ChannelsAre, AppendOrdered
  <2>2. SUFFICES ASSUME NEW u \in Threads, Pushing(pc'[u]), NEW c \in Channels,
                        NEW r \in ToSet(items'[c]), r[1] = u
                 PROVE  c <= held[u]
    BY <2>1 DEF Behind
  <2>3. u # t /\ Pushing(pc[u])
    BY <1>0, <2>1, <2>2
  <2>4. r \in ToSet(items[c])
    BY <2>1, <2>2, <2>3
  <2> QED
    BY <2>2, <2>3, <2>4 DEF Behind
<1>4. CASE Swap
  <2>1. /\ Channels' = Channels \cup {Len(items) + 1}
        /\ ToSet(items'[Len(items) + 1]) = {}
        /\ \A c \in Channels : items'[c] = items[c]
        /\ UNCHANGED <<pc, held>>
    BY <1>4, SwapEffect, ChannelsAre, EmptyHasNone DEF Channels
  <2> QED
    BY <2>1 DEF Behind
<1>5. CASE Pop
  <2>1. /\ draining \in Channels /\ Channels' = Channels
        /\ items[draining] \in Seq(Rows) /\ items[draining] # <<>>
        /\ items'[draining] = Tail(items[draining])
        /\ \A c \in Channels : c # draining => items'[c] = items[c]
        /\ UNCHANGED <<pc, held>>
    BY <1>5, PopEffect, ChannelsAre
  <2>2. \A c \in Channels : ToSet(items'[c]) \subseteq ToSet(items[c])
    BY <2>1, TailOrdered
  <2> QED
    BY <2>1, <2>2 DEF Behind
<1>6. CASE UNCHANGED <<pc, held, items>>
  BY <1>6 DEF Behind, Channels
<1> QED
  BY <1>1, <1>2, <1>3, <1>4, <1>5, <1>6, RowSteps
     DEF ReleaseSlot, DrainDone, SendRows, TriggerFlushBackground, Join, Aside, chanVars, pushVars

LEMMA TasksKept ==
  ASSUME IInv, RowsInv, [Next]_vars
  PROVE  Tasks'
<1> USE DEF RowsInv, Tasks
<1>1. CASE Swap
  <2>1. Len(items) # 0 /\ wpc' = wpc
    BY <1>1, ChannelsAre DEF Swap, workerVars
  <2> QED
    BY <1>1, <2>1 DEF Swap, current
<1>2. CASE Pop \/ ReleaseSlot \/ DrainDone \/ SendRows
  BY <1>2 DEF Pop, ReleaseSlot, DrainDone, SendRows, workerVars
<1>3. CASE TriggerFlushBackground \/ Join
  BY <1>3 DEF TriggerFlushBackground, Join, Running
<1>4. CASE UNCHANGED flushVars /\ (wpc = "join" <=> wpc' = "join")
  BY <1>4 DEF flushVars
<1> QED
  BY <1>1, <1>2, <1>3, <1>4, RowSteps
     DEF LoadChannel, ReadCount, Refuse, Reserve, Send, Signal, Aside, workerVars

LEMMA RowsInit == Init => RowsInv
<1> SUFFICES ASSUME Init PROVE RowsInv
  OBVIOUS
<1>1. /\ Len(items) = 1 /\ items[1] = <<>> /\ ToSet(batch) = {}
      /\ Channels = {1} /\ ToSet(items[1]) = {} /\ Ordered(items[1])
  BY EmptyHasNone DEF Init, Channels
<1>2. Done = {}
  BY RowParts, LogQueueAssumption DEF Init, Done, LogQueueAssumption, Rows
<1>3. Placed
  BY <1>1, <1>2 DEF Init, Placed
<1>4. InOrder /\ Behind
  BY <1>1 DEF InOrder, Behind
<1>5. Tasks
  BY DEF Init, Tasks
<1> QED
  BY <1>3, <1>4, <1>5 DEF RowsInv

LEMMA SpecRows == Spec => [](IInv /\ RowsInv)
<1>1. Init => IInv /\ RowsInv
  BY InitIInv, RowsInit
<1>2. IInv /\ RowsInv /\ [Next]_vars => (IInv /\ RowsInv)'
  BY Inductive, PlacedKept, OrderKept, BehindKept, TasksKept DEF RowsInv
<1> QED
  BY <1>1, <1>2, PTL DEF Spec

-----------------------------------------------------------------------------
(* The ledger.                                                             *)

LEMMA LiveAre ==
  ASSUME IInv, RowsInv
  PROVE  LiveChannels \subseteq Channels /\ current \in LiveChannels
<1>1. current \in Channels /\ draining \in 0..Len(items) 
  BY ChannelsAre DEF IInv, TypeOK, ChannelTypeOK
<1> QED
  BY <1>1 DEF LiveChannels, Channels

(* The ledger reads the batch, the outcomes and the channels only. *)
LEMMA StageStays ==
  ASSUME UNCHANGED <<items, batch, outcome, draining>>
  PROVE  \A r : Stage(r)' = Stage(r)
BY DEF Stage, LiveChannels, current

(* What a stage says of a row. *)
LEMMA Stages ==
  ASSUME IInv, RowsInv, NEW r \in Rows
  PROVE  /\ Stage(r) = "unsubmitted" <=> r \notin Done
         /\ Stage(r) = "inflight" <=> r \in ToSet(batch)
         /\ Stage(r) = "queued" <=> \E c \in LiveChannels : r \in ToSet(items[c])
         /\ outcome[r] \in {"dropped", "delivered", "failed"} => Stage(r) = outcome[r]
<1>1. outcome[r] \in {"pending", "dropped", "delivered", "failed"}
  BY DEF IInv, TypeOK, FlushTypeOK
<1>2. /\ r \in ToSet(batch) => outcome[r] = "pending"
      /\ \A c \in Channels : r \in ToSet(items[c]) => outcome[r] = "pending" /\ r \notin ToSet(batch)
      /\ r \in Done <=> \/ outcome[r] # "pending" \/ r \in ToSet(batch)
                        \/ \E c \in Channels : r \in ToSet(items[c])
  BY DEF RowsInv, Placed
<1>3. LiveChannels \subseteq Channels
  BY LiveAre
<1> QED
  BY <1>1, <1>2, <1>3 DEF Stage, Channels

LEMMA StepRefuse ==
  ASSUME IInv, RowsInv, IInv', RowsInv', NEW t \in Threads, Refuse(t), NEW r, r = RowOf(t)
  PROVE  Ledger!Submit(r)
<1>1. r \in Rows /\ r[1] = t /\ r[2] = nth[t] /\ r \notin Done
  BY RowOfType, DoneGrows DEF Refuse
<1>2. /\ outcome' = [outcome EXCEPT ![r] = "dropped"]
      /\ UNCHANGED <<items, batch, draining>>
  BY DEF Refuse, chanVars, flushVars
<1>3. outcome \in [Rows -> {"pending", "dropped", "delivered", "failed"}]
  BY DEF IInv, TypeOK, FlushTypeOK
<1>4. Stage(r) = "unsubmitted" /\ Stage(r)' = "dropped"
  BY <1>1, <1>2, <1>3, Stages DEF Stage
<1>5. \A q \in Rows : q # r => Stage(q)' = Stage(q)
  BY <1>1, <1>2, <1>3 DEF Stage, LiveChannels, current
<1>6. \A q \in Rows : q[1] = r[1] /\ q[2] < r[2] => Stage(q) # "unsubmitted"
  BY <1>1, Stages DEF Done
<1> QED
  BY <1>1, <1>4, <1>5, <1>6 DEF Ledger!Submit, Ledger!Move, Ledger!Earlier, Ledger!Rows, Rows

LEMMA StepSend ==
  ASSUME IInv, RowsInv, NEW t \in Threads, Send(t), NEW r, r = RowOf(t)
  PROVE  Ledger!Submit(r)
<1>1. r \in Rows /\ r[1] = t /\ r[2] = nth[t] /\ r \notin Done
  BY RowOfType, DoneGrows DEF Send
<1>2. /\ held[t] \in Channels /\ Len(items') = Len(items)
      /\ ToSet(items'[held[t]]) = ToSet(items[held[t]]) \cup {r}
      /\ \A c \in Channels : c # held[t] => ToSet(items'[c]) = ToSet(items[c])
      /\ UNCHANGED <<batch, outcome, draining>>
  <2>1. Len(items') = Len(items)
    BY DEF Send
  <2> QED
    BY <1>1, <2>1, SendEffect, ChannelsAre, AppendOrdered
<1>3. LiveChannels' = LiveChannels /\ Channels' = Channels /\ LiveChannels \subseteq Channels
  BY <1>2, LiveAre DEF LiveChannels, current, Channels
<1>4. Stage(r) = "unsubmitted"
  BY <1>1, Stages
<1>5. Stage(r)' \in {"queued", "stranded"}
  <2>1. outcome[r] = "pending" /\ r \notin ToSet(batch)
    BY <1>1 DEF RowsInv, Placed
  <2> QED
    BY <1>2, <1>3, <2>1 DEF Stage, Channels
<1>6. \A q \in Rows : q # r => Stage(q)' = Stage(q)
  <2> SUFFICES ASSUME NEW q \in Rows, q # r PROVE Stage(q)' = Stage(q)
    OBVIOUS
  <2>1. \A c \in Channels : q \in ToSet(items'[c]) <=> q \in ToSet(items[c])
    BY <1>2
  <2> QED
    BY <1>2, <1>3, <2>1 DEF Stage, Channels
<1>7. \A q \in Rows : q[1] = r[1] /\ q[2] < r[2] => Stage(q) # "unsubmitted"
  BY <1>1, Stages DEF Done
<1> QED
  BY <1>1, <1>4, <1>5, <1>6, <1>7 DEF Ledger!Submit, Ledger!Move, Ledger!Earlier, Ledger!Rows, Rows

LEMMA StepPop ==
  ASSUME IInv, RowsInv, Pop, NEW h, h = Head(items[draining])
  PROVE  h \in Rows /\ Ledger!Take(h)
<1>1. /\ draining \in Channels /\ Len(items') = Len(items)
      /\ h \in Rows /\ ToSet(batch') = ToSet(batch) \cup {h}
      /\ \A c \in Channels : c # draining => items'[c] = items[c]
      /\ UNCHANGED <<outcome, draining>>
  <2>1. Len(items') = Len(items)
    BY DEF Pop
  <2> QED
    BY <2>1, PopEffect
<1>2. /\ ToSet(items[draining]) = {h} \cup ToSet(items'[draining])
      /\ \A q \in ToSet(items'[draining]) : Precedes(h, q)
  BY PopEffect, ChannelsAre, TailOrdered DEF RowsInv, InOrder
<1>3. /\ LiveChannels' = LiveChannels /\ Channels' = Channels
      /\ LiveChannels = {current, draining}
  BY <1>1 DEF LiveChannels, current, Channels
<1>4. current \in Channels /\ (current = draining \/ draining < current)
  BY <1>1, ChannelsAre DEF current, Channels
<1>5. Stage(h) = "queued"
  BY <1>1, <1>2, <1>3, Stages
<1>6. outcome[h] = "pending"
  BY <1>1, <1>2 DEF RowsInv, Placed
<1>7. Stage(h)' = "inflight"
  BY <1>1, <1>6 DEF Stage
<1>8. \A q \in Rows : q # h => Stage(q)' = Stage(q)
  <2> SUFFICES ASSUME NEW q \in Rows, q # h PROVE Stage(q)' = Stage(q)
    OBVIOUS
  <2>1. \A c \in Channels : q \in ToSet(items'[c]) <=> q \in ToSet(items[c])
    BY <1>1, <1>2
  <2>2. q \in ToSet(batch') <=> q \in ToSet(batch)
    BY <1>1
  <2>3. \A c \in LiveChannels : q \in ToSet(items'[c]) <=> q \in ToSet(items[c])
    BY <1>1, <1>3, <1>4, <2>1
  <2> QED
    BY <1>1, <1>3, <2>1, <2>2, <2>3 DEF Stage, Channels
<1>9. ASSUME NEW q \in Rows, q[1] = h[1], q[2] < h[2]
      PROVE  Stage(q) # "queued"
  <2> SUFFICES ASSUME NEW c \in LiveChannels, q \in ToSet(items[c]) PROVE FALSE
    BY Stages
  <2>1. q # h /\ ~ Precedes(h, q)
    BY <1>1, <1>9, RowParts DEF Precedes
  <2>2. CASE c = draining
    BY <1>2, <2>1, <2>2
  <2>3. CASE c # draining
    <3>1. c = current /\ draining < current
      BY <1>3, <1>4, <2>3
    <3>2. Precedes(h, q)
      BY <1>1, <1>2, <1>4, <3>1 DEF RowsInv, InOrder
    <3> QED
      BY <2>1, <3>2
  <2> QED
    BY <2>2, <2>3
<1>10. Ledger!Take(h)
  BY <1>1, <1>5, <1>7, <1>8, <1>9 DEF Ledger!Take, Ledger!Move, Ledger!Earlier, Ledger!Rows, Rows
<1> QED
  BY <1>1, <1>10

LEMMA StepSettle ==
  ASSUME IInv, RowsInv, SendRows
  PROVE  Ledger!Settle
<1>1. PICK bad \in SUBSET ToSet(batch) :
        outcome' = [r \in Rows |-> IF r \notin ToSet(batch) THEN outcome[r]
                                   ELSE IF r \in bad THEN "failed" ELSE "delivered"]
  BY DEF SendRows
<1>2. ToSet(batch') = {} /\ UNCHANGED <<items, draining>>
  BY EmptyHasNone DEF SendRows, chanVars
<1>3. \A r \in Rows : r \in ToSet(batch) <=> Stage(r) = "inflight"
  BY Stages
<1>4. bad \in SUBSET {r \in Rows : Stage(r) = "inflight"}
  BY <1>1, <1>3, ChannelsAre
<1>5. ASSUME NEW r \in Rows
      PROVE  Stage(r)' = IF Stage(r) # "inflight" THEN Stage(r)
                         ELSE IF r \in bad THEN "failed" ELSE "delivered"
  <2>1. CASE r \in ToSet(batch)
    BY <1>1, <1>3, <2>1 DEF Stage
  <2>2. CASE r \notin ToSet(batch)
    <3>1. outcome'[r] = outcome[r]
      BY <1>1, <2>2
    <3> QED
      BY <1>2, <1>3, <2>2, <3>1 DEF Stage, LiveChannels, current
  <2> QED
    BY <2>1, <2>2
<1> QED
  BY <1>4, <1>5 DEF Ledger!Settle, Ledger!Rows, Rows

LEMMA StageAtSwap ==
  ASSUME IInv, RowsInv, Swap \/ DrainDone, NEW r \in Rows
  PROVE  Stage(r)' = Stage(r)
<1>1. CASE Swap
  <2>1. /\ Len(items') = Len(items) + 1 /\ ToSet(items'[Len(items) + 1]) = {}
        /\ \A c \in Channels : items'[c] = items[c]
        /\ UNCHANGED <<batch, outcome>>
    BY <1>1, SwapEffect, EmptyHasNone
  <2>2. /\ LiveChannels = {Len(items)} /\ LiveChannels' = {Len(items) + 1, Len(items)}
        /\ Len(items) \in Channels /\ Channels' = Channels \cup {Len(items) + 1}
    BY <1>1, <2>1, ChannelsAre DEF LiveChannels, current, Channels, Swap, RowsInv, Tasks
  <2>3. (\E c \in LiveChannels' : r \in ToSet(items'[c])) <=> \E c \in LiveChannels : r \in ToSet(items[c])
    BY <2>1, <2>2
  <2>4. (\E c \in Channels' : r \in ToSet(items'[c])) <=> \E c \in Channels : r \in ToSet(items[c])
    BY <2>1, <2>2
  <2> QED
    BY <2>1, <2>3, <2>4 DEF Stage, Channels
<1>2. CASE DrainDone
  <2>1. /\ UNCHANGED <<items, batch, outcome>> /\ draining # 0
        /\ draining' = 0 /\ ToSet(items[draining]) = {}
    BY <1>2, EmptyHasNone DEF DrainDone, chanVars, RowsInv, Tasks
  <2>2. LiveChannels = {current, draining} /\ LiveChannels' = {current}
    BY <2>1 DEF LiveChannels, current
  <2> QED
    BY <2>1, <2>2 DEF Stage
<1> QED
  BY <1>1, <1>2

(* The step of the ledger each step of the queue takes. *)
LEMMA LedgerStep ==
  ASSUME IInv, RowsInv, IInv', RowsInv', [Next]_vars
  PROVE  Ledger!LedgerNext \/ \A r \in Rows : Stage(r)' = Stage(r)
<1>1. ASSUME NEW t \in Threads, Refuse(t) \/ Send(t) PROVE Ledger!LedgerNext
  <2>1. PICK r \in Ledger!Rows : r = RowOf(t)
    BY <1>1, RowOfType DEF Refuse, Send, Ledger!Rows, Rows
  <2> QED
    BY <1>1, <2>1, StepRefuse, StepSend DEF Ledger!LedgerNext
<1>2. CASE Pop
  <2>1. PICK h : h = Head(items[draining])
    OBVIOUS
  <2> QED
    BY <1>2, <2>1, StepPop DEF Ledger!LedgerNext, Ledger!Rows, Rows
<1>3. CASE SendRows
  BY <1>3, StepSettle DEF Ledger!LedgerNext
<1>4. CASE Swap \/ DrainDone
  BY <1>4, StageAtSwap
<1>5. CASE UNCHANGED <<items, batch, outcome, draining>>
  BY <1>5, StageStays
<1> QED
  BY <1>1, <1>2, <1>3, <1>4, <1>5, RowSteps
     DEF LoadChannel, ReadCount, Reserve, Signal, ReleaseSlot, TriggerFlushBackground, Join,
         Aside, chanVars, flushVars

LEMMA LedgerStart == Init => Ledger!LedgerInit
<1> SUFFICES ASSUME Init PROVE Ledger!LedgerInit
  OBVIOUS
<1>1. IInv /\ RowsInv
  BY InitIInv, RowsInit
<1>2. \A r \in Rows : Stage(r) = "unsubmitted"
  <2>1. Done = {}
    BY RowParts, LogQueueAssumption DEF Init, Done, LogQueueAssumption, Rows
  <2> QED
    BY <1>1, <2>1, Stages
<1> QED
  BY <1>2 DEF Ledger!LedgerInit, Ledger!Rows, Rows

(* The queue implements the ledger. *)
THEOREM LedgerImplemented == Spec => ImplementsLedger
<1>1. IInv /\ RowsInv /\ [Next]_vars /\ (IInv /\ RowsInv)'
        => [Ledger!LedgerNext]_[r \in Rows |-> Stage(r)]
  BY LedgerStep
<1> QED
  BY <1>1, LedgerStart, SpecRows, PTL DEF Spec, ImplementsLedger, Ledger!LedgerSpec

-----------------------------------------------------------------------------
(* The barrier.                                                            *)

Settled(r) == Stage(r) \notin {"unsubmitted", "queued", "inflight"}

(* A call the worker knows has begun, and what was submitted before it has *)
(* been pushed.                                                            *)
CallsInv ==
  /\ \A f \in Callers : f \in ToSet(cmds) \/ wcmd = f => cpc[f] # "idle"
  /\ \A f \in Callers : cpc[f] # "idle" => before[f] \subseteq Done

(* While the worker serves a call, each row the call waits for leaves the  *)
(* current channel when the flush swaps it, and has been settled when the  *)
(* call is about to be answered.                                           *)
ServedInv ==
  wcmd \in Callers => \A r \in before[wcmd] :
    /\ wpc = "join" /\ task \in {"drain", "popped", "send", "err"} =>
         r \notin ToSet(items[current])
    /\ wpc = "respond" => Settled(r)

BarrierInv == CallsInv /\ ServedInv /\ FlushBarrier

(* What holds of the queue before and after a step. *)
QueueInv == IInv /\ RowsInv

LEMMA CmdsAre ==
  ASSUME NEW s \in Seq(Callers \cup {Trigger, DropFlush})
  PROVE  /\ \A e \in Callers \cup {Trigger, DropFlush} : ToSet(Append(s, e)) = ToSet(s) \cup {e}
         /\ s # <<>> => /\ Head(s) \in ToSet(s)
                        /\ \A e \in ToSet(Tail(s)) : e \in ToSet(s)
<1>1. ASSUME NEW e \in Callers \cup {Trigger, DropFlush}
      PROVE  ToSet(Append(s, e)) = ToSet(s) \cup {e}
  <2> DEFINE a == Append(s, e)
  <2>1. /\ a \in Seq(Callers \cup {Trigger, DropFlush}) /\ Len(a) = Len(s) + 1
        /\ \A i \in 1..Len(s) : a[i] = s[i]
        /\ a[Len(s) + 1] = e
    BY AppendProperties
  <2>2. Len(s) \in Nat /\ DOMAIN s = 1..Len(s) /\ DOMAIN a = 1..(Len(s) + 1)
    BY <2>1, LenProperties
  <2> HIDE DEF a
  <2>3. ToSet(a) = ToSet(s) \cup {e}
    BY <2>1, <2>2 DEF ToSet
  <2> QED
    BY <2>3 DEF a
<1>2. ASSUME s # <<>>
      PROVE  Head(s) \in ToSet(s) /\ \A e \in ToSet(Tail(s)) : e \in ToSet(s)
  <2> DEFINE tl == Tail(s)
  <2>1. /\ tl \in Seq(Callers \cup {Trigger, DropFlush}) /\ Len(tl) = Len(s) - 1
        /\ \A i \in 1..Len(tl) : tl[i] = s[i + 1]
    BY <1>2, HeadTailProperties
  <2>2. Len(s) \in Nat \ {0} /\ DOMAIN s = 1..Len(s) /\ DOMAIN tl = 1..Len(tl)
    BY <1>2, <2>1, LenProperties, EmptySeq
  <2>3. Head(s) = s[1]
    BY <2>2
  <2> HIDE DEF tl
  <2>4. \A i \in DOMAIN tl : i + 1 \in DOMAIN s /\ tl[i] = s[i + 1]
    BY <2>1, <2>2
  <2>5. \A e \in ToSet(tl) : e \in ToSet(s)
    BY <2>4 DEF ToSet
  <2>6. 1 \in DOMAIN s
    BY <2>2
  <2> QED
    BY <2>3, <2>5, <2>6 DEF ToSet, tl
<1> QED
  BY <1>1, <1>2

(* What is done stays done. *)
LEMMA DoneOnly ==
  ASSUME QueueInv, [Next]_vars
  PROVE  Done \subseteq Done'
<1>1. CASE UNCHANGED <<pc, nth>>
  BY <1>1 DEF Done
<1> QED
  BY <1>1, RowSteps, DoneGrows, DoneStays
     DEF QueueInv, Swap, Pop, ReleaseSlot, DrainDone, SendRows, TriggerFlushBackground, Join,
         Aside, pushVars

(* What is settled stays settled. *)
LEMMA SettledStays ==
  ASSUME QueueInv, QueueInv', [Next]_vars, NEW r \in Rows, Settled(r)
  PROVE  Settled(r)'
<1>1. Ledger!LedgerNext \/ Stage(r)' = Stage(r)
  BY LedgerStep DEF QueueInv
<1>2. CASE Stage(r)' = Stage(r)
  BY <1>2 DEF Settled
<1>3. ASSUME NEW q \in Ledger!Rows, Ledger!Submit(q) \/ Ledger!Take(q)
      PROVE  Stage(r)' = Stage(r)
  BY <1>3 DEF Ledger!Submit, Ledger!Take, Ledger!Move, Ledger!Rows, Rows, Settled
<1>4. CASE Ledger!Settle
  BY <1>4 DEF Ledger!Settle, Ledger!Rows, Rows, Settled
<1> QED
  BY <1>1, <1>2, <1>3, <1>4 DEF Ledger!LedgerNext, Settled

(* What the steps of the callers and of the worker do to the calls. *)
LEMMA CallsKept ==
  ASSUME QueueInv, BarrierInv, [Next]_vars
  PROVE  CallsInv'
<1> USE DEF BarrierInv
<1>0. /\ cmds \in Seq(Callers \cup {Trigger, DropFlush}) /\ Callers \cap {Trigger, DropFlush, "close", "none"} = {}
      /\ cpc \in [Callers -> {"idle", "sending", "waiting", "answered"}]
      /\ before \in [Callers -> SUBSET Rows]
  BY LogQueueAssumption
     DEF QueueInv, IInv, TypeOK, WorkerTypeOK, CallerTypeOK, LogQueueAssumption, Trigger, DropFlush
<1>1. Done \subseteq Done'
  BY DoneOnly
<1>2. ASSUME NEW t \in Threads, Signal(t) PROVE CallsInv'
  <2>1. \A f \in Callers : f \in ToSet(cmds') => f \in ToSet(cmds)
    BY <1>0, <1>2, CmdsAre DEF Signal
  <2>2. UNCHANGED <<wcmd, cpc, before>>
    BY <1>2 DEF Signal, callerVars
  <2> QED
    BY <1>1, <2>1, <2>2 DEF CallsInv
<1>3. ASSUME NEW f \in Callers, CallFlush(f) PROVE CallsInv'
  <2>1. Submitted \subseteq Done
    BY DEF Submitted, Done
  <2>2. /\ cpc' = [cpc EXCEPT ![f] = "sending"] /\ before' = [before EXCEPT ![f] = Submitted]
        /\ UNCHANGED <<cmds, wcmd>> /\ Submitted \subseteq Done
    BY <1>3, <2>1 DEF CallFlush, workerVars
  <2>3. \A g \in Callers : cpc[g] # "idle" => cpc'[g] # "idle"
    BY <1>0, <2>2
  <2>4. \A g \in Callers : cpc'[g] # "idle" => before'[g] \subseteq Done
    BY <1>0, <2>2 DEF CallsInv
  <2> QED
    BY <1>1, <2>2, <2>3, <2>4 DEF CallsInv
<1>4. ASSUME NEW f \in Callers, SendFlush(f) PROVE CallsInv'
  <2>1. ToSet(cmds') = ToSet(cmds) \cup {f}
    BY <1>0, <1>4, CmdsAre DEF SendFlush
  <2>2. cpc[f] = "sending" /\ cpc' = [cpc EXCEPT ![f] = "waiting"] /\ UNCHANGED <<wcmd, before>>
    BY <1>4 DEF SendFlush
  <2>3. \A g \in Callers : cpc[g] # "idle" <=> cpc'[g] # "idle"
    BY <1>0, <2>2
  <2> QED
    BY <1>1, <2>1, <2>2, <2>3 DEF CallsInv
<1>5. CASE TriggerFlushCommand \/ SendDropFlush
  <2>1. ToSet(cmds') \subseteq ToSet(cmds) \cup {Trigger, DropFlush}
    <3>1. ASSUME NEW e \in {Trigger, DropFlush}, cmds' = Append(cmds, e)
          PROVE  ToSet(cmds') \subseteq ToSet(cmds) \cup {Trigger, DropFlush}
      BY <1>0, <3>1, CmdsAre
    <3> QED
      BY <1>5, <3>1 DEF TriggerFlushCommand, SendDropFlush
  <2>2. UNCHANGED <<wcmd, cpc, before>>
    BY <1>5 DEF TriggerFlushCommand, SendDropFlush
  <2> QED
    BY <1>0, <1>1, <2>1, <2>2 DEF CallsInv
<1>6. CASE Receive
  <2>1. /\ \A f \in Callers : f \in ToSet(cmds') \/ wcmd' = f => f \in ToSet(cmds)
        /\ UNCHANGED <<cpc, before>>
    <3>1. CASE cmds # <<>> /\ wcmd' = Head(cmds) /\ cmds' = Tail(cmds)
      BY <1>0, <1>6, <3>1, CmdsAre DEF Receive, callerVars
    <3>2. CASE wcmd' = "close" /\ cmds' = cmds
      BY <1>0, <1>6, <3>2 DEF Receive, callerVars
    <3> QED
      BY <1>6, <3>1, <3>2 DEF Receive
  <2> QED
    BY <1>1, <2>1 DEF CallsInv
<1>7. CASE Respond
  <2>1. /\ wcmd' = "none" /\ UNCHANGED <<cmds, before>>
        /\ \/ cpc' = cpc
           \/ wcmd \in Callers /\ cpc' = [cpc EXCEPT ![wcmd] = "answered"]
    BY <1>7 DEF Respond
  <2>2. \A f \in Callers : cpc'[f] # "idle" <=> cpc[f] # "idle"
    BY <1>0, <2>1 DEF CallsInv
  <2> QED
    BY <1>0, <1>1, <2>1, <2>2 DEF CallsInv
<1>8. CASE UNCHANGED <<cmds, wcmd, cpc, before>>
  BY <1>1, <1>8 DEF CallsInv
<1> QED
  BY <1>2, <1>3, <1>4, <1>5, <1>6, <1>7, <1>8
     DEF Next, vars, LoadChannel, Push, ReadCount, Refuse, Reserve, Send, Drop, SendDropFlush, Exited,
         Worker, TriggerFlushBackground, Join, Check,
         FlushTask, Swap, Pop, ReleaseSlot, DrainDone, SendRows, workerVars, callerVars

(* No step takes a served call back to a row of the current channel. *)
LEMMA CurrentLoses ==
  ASSUME QueueInv, [Next]_vars, NEW r \in Done, r \notin ToSet(items[current])
  PROVE  r \notin ToSet(items[current])'
<1> USE DEF QueueInv
<1>0. current \in Channels
  BY ChannelsAre
<1>1. ASSUME NEW t \in Threads, Send(t) PROVE r \notin ToSet(items[current])'
  <2>1. r # RowOf(t)
    BY <1>1, DoneGrows
  <2>2. Len(items') = Len(items)
    BY <1>1 DEF Send
  <2>3. ToSet(items'[current]) \subseteq ToSet(items[current]) \cup {RowOf(t)}
    BY <1>0, <1>1, SendEffect, RowOfType, ChannelsAre, AppendOrdered DEF Send
  <2> QED
    BY <2>1, <2>2, <2>3 DEF current
<1>2. CASE Swap
  BY <1>2, SwapEffect, EmptyHasNone DEF current
<1>3. CASE Pop
  <2>1. Len(items') = Len(items)
    BY <1>3 DEF Pop
  <2>2. ToSet(items'[current]) \subseteq ToSet(items[current])
    BY <1>0, <1>3, PopEffect, ChannelsAre, TailOrdered
  <2> QED
    BY <2>1, <2>2 DEF current
<1>4. CASE items' = items
  BY <1>4 DEF current
<1> QED
  BY <1>1, <1>2, <1>3, <1>4, RowSteps
     DEF LoadChannel, ReadCount, Refuse, Reserve, Signal, ReleaseSlot, DrainDone, SendRows,
         TriggerFlushBackground, Join, Aside, chanVars

(* With no flush running, a row that is not in the current channel has     *)
(* been settled.                                                           *)
LEMMA NotWaiting ==
  ASSUME QueueInv, task \in {"none", "err"}, NEW r \in Done, r \notin ToSet(items[current])
  PROVE  Settled(r)
<1>1. r \in Rows
  BY DEF Done
<1>2. draining = 0 /\ ToSet(batch) = {}
  BY EmptyHasNone DEF QueueInv, RowsInv, Tasks
<1>3. LiveChannels = {current}
  BY <1>2 DEF LiveChannels
<1> QED
  BY <1>1, <1>2, <1>3, Stages DEF QueueInv, Settled

LEMMA ServedKept ==
  ASSUME QueueInv, QueueInv', BarrierInv, [Next]_vars
  PROVE  ServedInv'
<1> USE DEF BarrierInv
<1>0. /\ cmds \in Seq(Callers \cup {Trigger, DropFlush}) /\ Callers \cap {Trigger, DropFlush, "close", "none"} = {}
      /\ before \in [Callers -> SUBSET Rows]
  BY LogQueueAssumption
     DEF QueueInv, IInv, TypeOK, WorkerTypeOK, CallerTypeOK, LogQueueAssumption, Trigger, DropFlush
<1>1. wcmd \in Callers => before[wcmd] \subseteq Done /\ before[wcmd] \subseteq Rows
  BY <1>0 DEF CallsInv, Done
<1>2. CASE Receive \/ TriggerFlushBackground
  <2>1. ~ (wpc' = "respond") /\ ~ (wpc' = "join" /\ task' \in {"drain", "popped", "send", "err"})
    BY <1>2 DEF Receive, TriggerFlushBackground, QueueInv, RowsInv, Tasks, Running
  <2> QED
    BY <2>1 DEF ServedInv
<1>3. CASE Join \/ Check
  <2>1. /\ wpc' # "join" /\ UNCHANGED <<wcmd, before>>
        /\ \A r : Stage(r)' = Stage(r)
    <3>1. /\ wpc' # "join" /\ UNCHANGED <<wcmd, before>>
          /\ UNCHANGED <<items, batch, outcome, draining>>
      BY <1>3 DEF Join, Check, chanVars, flushVars, callerVars
    <3> QED
      BY <3>1, StageStays
  <2>2. ASSUME wcmd \in Callers, NEW r \in before[wcmd], wpc' = "respond" PROVE Settled(r)
    <3>1. CASE Join
      BY <1>1, <2>2, <3>1, NotWaiting DEF Join, ServedInv
    <3>2. CASE Check
      <4>1. items[current] = <<>> /\ task = "none"
        BY <2>2, <3>2 DEF Check, QueueInv, RowsInv, Tasks
      <4> QED
        BY <1>1, <2>2, <4>1, NotWaiting, EmptyHasNone
    <3> QED
      BY <1>3, <3>1, <3>2
  <2> QED
    BY <2>1, <2>2 DEF ServedInv, Settled
<1>4. CASE Respond
  BY <1>0, <1>4 DEF ServedInv, Respond
<1>5. CASE Swap
  <2>1. UNCHANGED wpc /\ wpc = "join" /\ ToSet(items[current])' = {}
    BY <1>5, SwapEffect, EmptyHasNone DEF QueueInv, Swap, RowsInv, Tasks, workerVars, current
  <2> QED
    BY <2>1 DEF ServedInv
<1>6. CASE /\ UNCHANGED <<wcmd, wpc>>
           /\ wcmd \in Callers => before'[wcmd] = before[wcmd]
           /\ task' \in {"drain", "popped", "send", "err"} => 
                task \in {"drain", "popped", "send", "err"}
  <2>1. ASSUME wcmd \in Callers, NEW r \in before[wcmd]
        PROVE  /\ r \notin ToSet(items[current]) => r \notin ToSet(items[current])'
               /\ Settled(r) => Settled(r)'
    BY <1>1, <2>1, CurrentLoses, SettledStays
  <2>2. ASSUME wcmd' \in Callers, NEW r \in before'[wcmd'],
               wpc' = "join", task' \in {"drain", "popped", "send", "err"}
        PROVE  r \notin ToSet(items[current])'
    BY <1>6, <2>1, <2>2 DEF ServedInv
  <2>3. ASSUME wcmd' \in Callers, NEW r \in before'[wcmd'], wpc' = "respond"
        PROVE  Settled(r)'
    BY <1>6, <2>1, <2>3 DEF ServedInv
  <2> QED
    BY <2>2, <2>3 DEF ServedInv
<1>7. ASSUME NEW f \in Callers, CallFlush(f) PROVE ServedInv'
  <2>1. /\ UNCHANGED <<wcmd, wpc, task>> /\ cpc[f] = "idle"
        /\ before' = [before EXCEPT ![f] = Submitted]
    BY <1>7 DEF CallFlush, workerVars, flushVars
  <2>2. wcmd \in Callers => before'[wcmd] = before[wcmd]
    BY <1>0, <2>1 DEF CallsInv
  <2> QED
    BY <1>6, <2>1, <2>2
<1>8. CASE Pop \/ ReleaseSlot \/ DrainDone \/ SendRows
  BY <1>6, <1>8 DEF Pop, ReleaseSlot, DrainDone, SendRows, workerVars, callerVars
<1>9. CASE UNCHANGED <<wcmd, wpc, before, task>>
  BY <1>6, <1>9
<1> QED
  BY <1>2, <1>3, <1>4, <1>5, <1>7, <1>8, <1>9
     DEF Next, vars, LoadChannel, Push, ReadCount, Refuse, Reserve, Send, Signal, SendFlush,
         TriggerFlushCommand, Drop, SendDropFlush, Exited, Worker, FlushTask,
         workerVars, callerVars, flushVars

LEMMA BarrierKept ==
  ASSUME QueueInv, QueueInv', BarrierInv, [Next]_vars
  PROVE  FlushBarrier'
<1> USE DEF BarrierInv
<1>0. /\ cpc \in [Callers -> {"idle", "sending", "waiting", "answered"}]
      /\ before \in [Callers -> SUBSET Rows]
  BY DEF QueueInv, IInv, TypeOK, CallerTypeOK
<1>1. \A f \in Callers : cpc[f] = "answered" => \A r \in before[f] : r \in Rows /\ Settled(r)'
  BY <1>0, SettledStays DEF FlushBarrier, Settled
<1>2. ASSUME NEW f \in Callers, CallFlush(f) \/ SendFlush(f) PROVE FlushBarrier'
  <2>1. \A g \in Callers : cpc'[g] = "answered" => cpc[g] = "answered" /\ before'[g] = before[g]
    BY <1>0, <1>2 DEF CallFlush, SendFlush
  <2> QED
    BY <1>1, <2>1 DEF FlushBarrier, Settled
<1>3. CASE Respond
  <2>1. before' = before /\ \A f \in Callers : cpc'[f] = "answered" =>
                              cpc[f] = "answered" \/ wcmd = f
    BY <1>0, <1>3 DEF Respond
  <2>2. wcmd \in Callers => \A r \in before[wcmd] : r \in Rows /\ Settled(r)'
    BY <1>0, <1>3, SettledStays DEF Respond, ServedInv
  <2> QED
    BY <1>1, <2>1, <2>2 DEF FlushBarrier, Settled
<1>4. CASE UNCHANGED <<cpc, before>>
  BY <1>1, <1>4 DEF FlushBarrier, Settled
<1> QED
  BY <1>2, <1>3, <1>4
     DEF Next, vars, LoadChannel, Push, ReadCount, Refuse, Reserve, Send, Signal,
         TriggerFlushCommand, Drop, SendDropFlush, Exited, Worker, Receive, TriggerFlushBackground, Join,
         Check, FlushTask, Swap, Pop, ReleaseSlot, DrainDone, SendRows, callerVars

LEMMA BarrierInit == Init => BarrierInv
<1>1. Init => ToSet(cmds) = {} /\ "none" \notin Callers
  BY EmptyHasNone, LogQueueAssumption DEF Init, LogQueueAssumption
<1> QED
  BY <1>1 DEF Init, BarrierInv, CallsInv, ServedInv, FlushBarrier

LEMMA SpecBarrier == Spec => [](QueueInv /\ BarrierInv)
<1>1. Init => QueueInv /\ BarrierInv
  BY InitIInv, RowsInit, BarrierInit DEF QueueInv
<1>2. QueueInv /\ BarrierInv /\ [Next]_vars /\ QueueInv' => BarrierInv'
  BY CallsKept, ServedKept, BarrierKept DEF BarrierInv
<1>3. IInv /\ RowsInv <=> QueueInv
  BY DEF QueueInv
<1> QED
  BY <1>1, <1>2, <1>3, SpecRows, PTL DEF Spec

(* flush_all is a barrier. *)
THEOREM BarrierHolds == Spec => []FlushBarrier
<1>1. BarrierInv => FlushBarrier
  BY DEF BarrierInv
<1> QED
  BY <1>1, SpecBarrier, PTL

-----------------------------------------------------------------------------
(* Checked delivery.  An error of a flush goes to whoever's command made   *)
(* the worker join that flush: to a caller of flush_all, or to the log.    *)

(* The failure of a row has been given away, or is on its way.             *)
Unreported == task = "err" \/ wres = "err"

FailInv ==
  /\ wpc = "recv" <=> wpc # "exited" /\ wcmd = "none"
  /\ wres = "err" => wpc = "respond"
  /\ Checked => \A r \in Rows : outcome[r] = "failed" => r \in told \cup logged \/ Unreported
  /\ \A f \in Callers : result[f] # "none" => cpc[f] = "answered"

(* A row fails in the flush that holds it, which then fails. *)
LEMMA NewFailures ==
  ASSUME QueueInv, [Next]_vars, NEW r \in Rows, outcome'[r] = "failed"
  PROVE  \/ outcome[r] = "failed"
         \/ SendRows /\ r \in ToSet(batch) /\ (Checked => task' = "err")
<1>0. outcome \in [Rows -> {"pending", "dropped", "delivered", "failed"}]
  BY DEF QueueInv, IInv, TypeOK, FlushTypeOK
<1>1. ASSUME NEW t \in Threads, Refuse(t) PROVE outcome[r] = "failed"
  <2>1. outcome' = [outcome EXCEPT ![RowOf(t)] = "dropped"]
    BY <1>1 DEF Refuse
  <2> QED
    BY <1>0, <2>1
<1>2. CASE SendRows
  <2>1. PICK bad \in SUBSET ToSet(batch) :
          /\ outcome' = [q \in Rows |-> IF q \notin ToSet(batch) THEN outcome[q]
                                        ELSE IF q \in bad THEN "failed" ELSE "delivered"]
          /\ task' = IF Checked /\ bad # {} THEN "err" ELSE "ok"
    BY <1>2 DEF SendRows
  <2>2. outcome[r] = "failed" \/ r \in bad
    BY <2>1
  <2> QED
    BY <1>2, <2>1, <2>2
<1>3. CASE outcome' = outcome
  BY <1>3
<1> QED
  BY <1>1, <1>2, <1>3, RowSteps
     DEF LoadChannel, ReadCount, Reserve, Send, Signal, Swap, Pop, ReleaseSlot, DrainDone,
         TriggerFlushBackground, Join, Aside

(* The worker always has a command while it serves one, and an error only  *)
(* as long as it takes to deliver it.                                      *)
LEMMA ServingKept ==
  ASSUME QueueInv, FailInv, [Next]_vars
  PROVE  /\ wpc' = "recv" <=> wpc' # "exited" /\ wcmd' = "none"
         /\ wres' = "err" => wpc' = "respond"
<1> USE DEF FailInv
<1>0. /\ cmds \in Seq(Callers \cup {Trigger, DropFlush}) /\ "none" \notin Callers \cup {Trigger, DropFlush, "close"}
  BY LogQueueAssumption
     DEF QueueInv, IInv, TypeOK, WorkerTypeOK, LogQueueAssumption, Trigger, DropFlush
<1>1. CASE Receive
  <2>1. cmds # <<>> => Head(cmds) \in Callers \cup {Trigger, DropFlush}
    BY <1>0, HeadTailProperties
  <2> QED
    BY <1>0, <1>1, <2>1 DEF Receive
<1>2. CASE TriggerFlushBackground \/ Join \/ Check \/ Respond
  BY <1>0, <1>2 DEF TriggerFlushBackground, Join, Check, Respond
<1>3. CASE UNCHANGED <<wpc, wcmd, wres>>
  BY <1>3
<1> QED
  BY <1>1, <1>2, <1>3
     DEF Next, vars, LoadChannel, Push, ReadCount, Refuse, Reserve, Send, Signal, CallFlush,
         SendFlush, TriggerFlushCommand, Drop, SendDropFlush, Exited, Worker, FlushTask, Swap, Pop,
         ReleaseSlot, DrainDone, SendRows, workerVars

(* No report is lost between the flush that fails and the end of the       *)
(* command that joined it.                                                 *)
LEMMA ReportsKept ==
  ASSUME QueueInv, FailInv, Checked, [Next]_vars, NEW r \in Rows, outcome'[r] = "failed"
  PROVE  r \in told' \cup logged' \/ Unreported'
<1> USE DEF Unreported
<1>1. CASE SendRows /\ task' = "err"
  BY <1>1
<1>2. CASE outcome[r] = "failed"
  <2>1. r \in told \cup logged \/ Unreported
    BY <1>2 DEF FailInv
  <2>2. CASE Receive
    BY <2>1, <2>2 DEF Receive, flushVars, reports
  <2>3. CASE TriggerFlushBackground
    BY <2>1, <2>3 DEF TriggerFlushBackground, Running, QueueInv, RowsInv, Tasks, reports
  <2>4. CASE Join \/ Check
    BY <2>1, <2>4 DEF Join, Check, flushVars, FailInv, reports
  <2>5. CASE Respond
    <3>1. task = "none" /\ r \in Failed
      BY <1>2, <2>5 DEF Respond, QueueInv, RowsInv, Tasks, Failed
    <3>2. CASE wcmd \in Callers
      <4>1. told' = (IF wres = "err" THEN told \cup (Failed \ logged) ELSE told) /\ logged' = logged
        BY <2>5, <3>2 DEF Respond
      <4> QED
        BY <2>1, <3>1, <4>1
    <3>3. CASE wcmd \notin Callers
      <4>1. logged' = (IF wres = "err" THEN logged \cup (Failed \ told) ELSE logged) /\ told' = told
        BY <2>5, <3>3 DEF Respond
      <4> QED
        BY <2>1, <3>1, <4>1
    <3> QED
      BY <3>2, <3>3
  <2>6. CASE Swap \/ Pop \/ ReleaseSlot \/ DrainDone \/ SendRows
    BY <2>1, <2>6 DEF Swap, Pop, ReleaseSlot, DrainDone, SendRows, workerVars, reports
  <2>7. CASE UNCHANGED <<task, wres, told, logged>>
    BY <2>1, <2>7
  <2> QED
    BY <2>2, <2>3, <2>4, <2>5, <2>6, <2>7
       DEF Next, vars, LoadChannel, Push, ReadCount, Refuse, Reserve, Send, Signal, CallFlush,
           SendFlush, TriggerFlushCommand, Drop, SendDropFlush, Exited, Worker, FlushTask,
           workerVars, flushVars, reports
<1> QED
  BY <1>1, <1>2, NewFailures

(* Results are those of answered calls, and an Ok is given only when every *)
(* failure has been told.                                                  *)
LEMMA ResultsKept ==
  ASSUME QueueInv, BarrierInv, FailInv, FailuresObserved, QueueInv', [Next]_vars
  PROVE  /\ \A f \in Callers : result'[f] # "none" => cpc'[f] = "answered"
         /\ FailuresObserved'
<1>0. /\ cpc \in [Callers -> {"idle", "sending", "waiting", "answered"}]
      /\ result \in [Callers -> {"none", "ok", "err"}]
      /\ before \in [Callers -> SUBSET Rows]
  BY DEF QueueInv, IInv, TypeOK, CallerTypeOK
<1>1. \A f \in Callers : \A r \in before[f] :
        result[f] = "ok" /\ outcome'[r] = "failed" => outcome[r] = "failed"
  <2> SUFFICES ASSUME NEW f \in Callers, NEW r \in before[f],
                      result[f] = "ok", outcome'[r] = "failed"
               PROVE  outcome[r] = "failed"
    OBVIOUS
  <2>1. cpc[f] = "answered" /\ r \in Rows
    BY <1>0 DEF FailInv
  <2>2. Stage(r) # "inflight"
    BY <2>1 DEF BarrierInv, FlushBarrier
  <2>3. r \notin ToSet(batch)
    BY <2>1, <2>2, Stages DEF QueueInv
  <2> QED
    BY <2>1, <2>3, NewFailures
<1>2. ASSUME NEW f \in Callers, CallFlush(f) \/ SendFlush(f)
      PROVE  /\ \A g \in Callers : result'[g] # "none" => cpc'[g] = "answered"
             /\ FailuresObserved'
  <2>1. /\ UNCHANGED <<result, told, logged>> /\ cpc[f] \in {"idle", "sending"}
        /\ \A g \in Callers : g # f => cpc'[g] = cpc[g] /\ before'[g] = before[g]
    BY <1>0, <1>2 DEF CallFlush, SendFlush, reports
  <2>2. result[f] = "none"
    BY <2>1 DEF FailInv
  <2>3. \A g \in Callers : result'[g] # "none" => cpc'[g] = "answered" /\ before'[g] = before[g]
    BY <2>1, <2>2 DEF FailInv
  <2> QED
    BY <1>1, <2>1, <2>3, ConfigKept DEF FailuresObserved
<1>3. CASE Respond /\ wcmd \in Callers
  <2>1. /\ cpc' = [cpc EXCEPT ![wcmd] = "answered"] /\ result' = [result EXCEPT ![wcmd] = wres]
        /\ told \subseteq told' /\ UNCHANGED <<before, outcome, logged>>
    BY <1>3 DEF Respond
  <2>2. \A g \in Callers : result'[g] # "none" => cpc'[g] = "answered"
    BY <1>0, <2>1 DEF FailInv
  <2>3. ASSUME Checked, wres = "ok", NEW r \in Rows, outcome[r] = "failed"
        PROVE  r \in told \cup logged
    <3>1. r \in told \cup logged \/ Unreported
      BY <2>3 DEF FailInv
    <3>2. task = "none"
      BY <1>3 DEF Respond, QueueInv, RowsInv, Tasks
    <3> QED
      BY <2>3, <3>1, <3>2 DEF Unreported
  <2>4. ASSUME Checked, NEW f \in Callers, result'[f] = "ok", NEW r \in before[f],
               outcome[r] = "failed"
        PROVE  r \in told' \cup logged'
    <3>1. r \in Rows
      BY <1>0
    <3>2. CASE f = wcmd
      BY <1>0, <2>1, <2>3, <2>4, <3>1, <3>2
    <3>3. CASE f # wcmd
      BY <1>0, <2>1, <2>4, <3>3 DEF FailuresObserved
    <3> QED
      BY <3>2, <3>3
  <2> QED
    BY <2>1, <2>2, <2>4, ConfigKept DEF FailuresObserved
<1>4. CASE Respond /\ wcmd \notin Callers
  <2>1. UNCHANGED <<cpc, result, told, before, outcome>> /\ logged \subseteq logged'
    BY <1>4 DEF Respond
  <2> QED
    BY <2>1, ConfigKept DEF FailInv, FailuresObserved
<1>5. CASE UNCHANGED <<cpc, result, told, logged, before>>
  BY <1>1, <1>5, ConfigKept DEF FailInv, FailuresObserved
<1> QED
  BY <1>2, <1>3, <1>4, <1>5
     DEF Next, vars, LoadChannel, Push, ReadCount, Refuse, Reserve, Send, Signal,
         TriggerFlushCommand, Drop, SendDropFlush, Exited, Worker, Receive,
         TriggerFlushBackground, Join, Check, FlushTask, Swap, Pop, ReleaseSlot, DrainDone,
         SendRows, callerVars, reports

LEMMA FailInit == Init => FailInv /\ FailuresObserved
BY DEF Init, FailInv, FailuresObserved

(* Checked delivery: an Ok hides no failure that nobody was given. *)
THEOREM FailuresAreObserved == Spec => []FailuresObserved
<1>1. FailInv /\ FailuresObserved /\ [Next]_vars /\ (QueueInv /\ BarrierInv)
        /\ (QueueInv /\ BarrierInv)' => (FailInv /\ FailuresObserved)'
  <2> SUFFICES ASSUME FailInv, FailuresObserved, [Next]_vars, QueueInv, BarrierInv, QueueInv'
               PROVE  FailInv' /\ FailuresObserved'
    OBVIOUS
  <2>1. Checked' => \A r \in Rows :
          outcome'[r] = "failed" => r \in told' \cup logged' \/ Unreported'
    BY ReportsKept, ConfigKept
  <2>2. /\ \A f \in Callers : result'[f] # "none" => cpc'[f] = "answered"
        /\ FailuresObserved'
    BY ResultsKept
  <2>3. FailInv'
    BY <2>1, <2>2, ServingKept DEF FailInv
  <2> QED
    BY <2>2, <2>3
<1> QED
  BY <1>1, FailInit, SpecBarrier, PTL DEF Spec
=============================================================================
