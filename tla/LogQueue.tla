------------------------------ MODULE LogQueue ------------------------------
(***************************************************************************)
(* The log queue of src/src/log_queue: LogQueueCore and LogQueue           *)
(* (queue.rs) and the background worker (worker.rs).                       *)
(*                                                                         *)
(* Threads submit rows into a lock-free channel that a flush swaps for a   *)
(* new one and then drains.  One worker serves the flush commands; each    *)
(* flush runs as a task of its own, which the worker joins.  An action is  *)
(* one atomic access to shared state, so that a thread may be between      *)
(* loading the channel, reserving a slot in it and sending into it while a *)
(* flush swaps and drains.                                                 *)
(*                                                                         *)
(* What a flush does with the rows it drained (preparation, merging,       *)
(* batching, HTTP) is one step that settles each row either way.           *)
(***************************************************************************)
EXTENDS Naturals, FiniteSets, SequencesExt

CONSTANTS
  Threads,        \* threads that submit rows
  RowsPerThread,  \* bound: rows each of them submits
  MaxRows,        \* bound: rows all of them submit
  Callers,        \* tasks that each call flush_all once
  MaxTriggers,    \* bound: calls of trigger_flush_command by the program of a
                  \* sync_flush client; of the others each submit makes that call
  QueueMaxSize,   \* config.queue_max_size
  Configs,        \* the configurations of the queue, of those a client can have
  WorkerCapacity  \* capacity of the worker's command channel

(* A checked client is built with sync_flush (logger.rs). *)
ClientConfigs ==
  {c \in [sync_flush : BOOLEAN, checked_delivery : BOOLEAN, enforce_queue_size_limit : BOOLEAN] :
     c.checked_delivery => c.sync_flush}

ASSUME LogQueueAssumption ==
  /\ IsFiniteSet(Threads)
  /\ RowsPerThread \in Nat
  /\ MaxRows \in Nat
  /\ MaxTriggers \in Nat
  /\ QueueMaxSize \in Nat
  /\ WorkerCapacity \in Nat \ {0}
  /\ Configs \subseteq ClientConfigs
  /\ Callers \cap {"trigger", "drop", "close", "none"} = {}

VARIABLES
  pc,        \* pc[t]: where thread t is in LogQueue::submit
  nth,       \* nth[t]: how many rows t has begun to submit
  held,      \* held[t]: index of the channel t loaded, 0 when it holds none
  seen,      \* seen[t]: the queued_count t last read
  items,     \* items[c]: the rows in channel c; the last channel is current
  queued,    \* queued[c]: queued_count of channel c
  draining,  \* index of the channel the flush drains, 0 when none
  batch,     \* rows the running flush has drained, in order
  outcome,   \* outcome[r]: what became of row r
  told,      \* failed rows whose error a caller of flush_all was given
  logged,    \* failed rows whose error was given to nobody: logged or ignored
  task,      \* the spawned flush task; "none" when flush_handle is None
  cmds,      \* the worker's command channel
  wpc,       \* where the worker is
  wcmd,      \* the command the worker serves
  wres,      \* the result of core.flush the worker is about to deliver
  cpc,       \* cpc[f]: where caller f is in flush_all
  result,    \* result[f]: what flush_all returned to f
  before,    \* before[f]: rows submitted before f called flush_all
  triggers,  \* trigger_flush_command calls left
  handle,    \* where the last handle of the queue is: alive or in its Drop
  config     \* config.sync_flush, .checked_delivery, .enforce_queue_size_limit

reports    == <<told, logged>>
pushVars   == <<pc, nth, held, seen>>
chanVars   == <<items, queued>>
flushVars  == <<draining, batch, task>>
workerVars == <<cmds, wpc, wcmd, wres>>
callerVars == <<cpc, result, before, triggers, handle>>
vars == <<pushVars, chanVars, flushVars, workerVars, callerVars, outcome, reports, config>>

SyncFlush == config.sync_flush
Checked   == config.checked_delivery
Enforce   == config.enforce_queue_size_limit

Rows    == Threads \X (1..RowsPerThread)
RowOf(t) == <<t, nth[t]>>
current == Len(items)   \* the channel ArcSwap::load returns

Trigger == "trigger"    \* LogCommand::TriggerFlush; a caller stands for its Flush
DropFlush == "drop"     \* the Flush of the Drop handlers

Begun == {r \in Rows : r[2] <= nth[r[1]]}

(* Rows whose call of submit has returned. *)
Submitted == {r \in Rows : \/ r[2] < nth[r[1]]
                           \/ r[2] = nth[r[1]] /\ pc[r[1]] = "idle"}

Init ==
  /\ pc = [t \in Threads |-> "idle"]
  /\ nth = [t \in Threads |-> 0]
  /\ held = [t \in Threads |-> 0]
  /\ seen = [t \in Threads |-> 0]
  /\ items = << <<>> >>
  /\ queued = <<0>>
  /\ draining = 0
  /\ batch = <<>>
  /\ outcome = [r \in Rows |-> "pending"]
  /\ told = {}
  /\ logged = {}
  /\ task = "none"
  /\ cmds = <<>>
  /\ wpc = "recv"
  /\ wcmd = "none"
  /\ wres = "ok"
  /\ cpc = [f \in Callers |-> "idle"]
  /\ result = [f \in Callers |-> "none"]
  /\ before = [f \in Callers |-> {}]
  /\ handle = "alive"
  /\ config \in Configs
  /\ triggers = IF SyncFlush THEN MaxTriggers ELSE 0

-----------------------------------------------------------------------------
(* LogQueue::submit: push, then signal the worker.                         *)

Goto(t, label) == pc' = [pc EXCEPT ![t] = label]

(* `self.channel.load()`: from here on t keeps that channel alive. *)
LoadChannel(t) ==
  /\ pc[t] = "idle"
  /\ handle = "alive"
  /\ nth[t] < RowsPerThread
  /\ Cardinality(Begun) < MaxRows
  /\ nth' = [nth EXCEPT ![t] = @ + 1]
  /\ held' = [held EXCEPT ![t] = current]
  /\ Goto(t, "loaded")
  /\ UNCHANGED <<seen, chanVars, flushVars, workerVars, callerVars, outcome,
                 reports, config>>

(* reserve_queue_slot: the first load of queued_count. *)
ReadCount(t) ==
  /\ pc[t] = "loaded"
  /\ seen' = [seen EXCEPT ![t] = queued[held[t]]]
  /\ Goto(t, "reserving")
  /\ UNCHANGED <<nth, held, chanVars, flushVars, workerVars, callerVars,
                 outcome, reports, config>>

Full(t) == Enforce /\ seen[t] >= QueueMaxSize

(* Mutant: a refused row gives back a slot it never had. *)
RefuseReleasing(t) ==
  /\ pc[t] = "reserving"
  /\ Full(t)
  /\ outcome' = [outcome EXCEPT ![RowOf(t)] = "dropped"]
  /\ queued' = [queued EXCEPT ![held[t]] = @ - 1]
  /\ Goto(t, "signal")
  /\ UNCHANGED <<nth, held, seen, items, flushVars, workerVars, callerVars,
                 reports, config>>

(* The limit is reached: the row is dropped and submit carries on. *)
Refuse(t) ==
  /\ pc[t] = "reserving"
  /\ Full(t)
  /\ outcome' = [outcome EXCEPT ![RowOf(t)] = "dropped"]
  /\ Goto(t, "signal")
  /\ UNCHANGED <<nth, held, seen, chanVars, flushVars, workerVars, callerVars,
                 reports, config>>

(* Mutant: check-then-increment in place of the compare-exchange. *)
ReserveWithoutCas(t) ==
  /\ pc[t] = "reserving"
  /\ ~Full(t)
  /\ queued' = [queued EXCEPT ![held[t]] = @ + 1]
  /\ Goto(t, "reserved")
  /\ UNCHANGED <<nth, held, seen, items, flushVars, workerVars, callerVars,
                 outcome, reports, config>>

(* compare_exchange_weak: reserve the slot if the count is the one read,   *)
(* else go round with the count found.                                     *)
Reserve(t) ==
  /\ pc[t] = "reserving"
  /\ ~Full(t)
  /\ \/ /\ queued[held[t]] = seen[t]
        /\ queued' = [queued EXCEPT ![held[t]] = @ + 1]
        /\ Goto(t, "reserved")
        /\ seen' = seen
     \/ /\ queued[held[t]] # seen[t]
        /\ seen' = [seen EXCEPT ![t] = queued[held[t]]]
        /\ UNCHANGED <<queued, pc>>
  /\ UNCHANGED <<nth, held, items, flushVars, workerVars, callerVars, outcome,
                 reports, config>>

(* `channel.sender.try_send(cmd)`: the channel is unbounded and t's own    *)
(* guard keeps its receiver alive, so the send always succeeds.            *)
Send(t) ==
  /\ pc[t] = "reserved"
  /\ items' = [items EXCEPT ![held[t]] = Append(@, RowOf(t))]
  /\ Goto(t, "signal")
  /\ UNCHANGED <<nth, held, seen, queued, flushVars, workerVars, callerVars,
                 outcome, reports, config>>

(* Mutant: the trigger is sent in sync mode only. *)
SignalInverted(t) ==
  /\ pc[t] = "signal"
  /\ cmds' = IF SyncFlush /\ Len(cmds) < WorkerCapacity
             THEN Append(cmds, Trigger) ELSE cmds
  /\ held' = [held EXCEPT ![t] = 0]
  /\ seen' = [seen EXCEPT ![t] = 0]
  /\ Goto(t, "idle")
  /\ UNCHANGED <<nth, chanVars, flushVars, wpc, wcmd, wres, callerVars,
                 outcome, reports, config>>

(* `worker_sender.try_send(TriggerFlush)` unless sync_flush: lost when the *)
(* command channel is full.  push's guard on the channel is gone.          *)
Signal(t) ==
  /\ pc[t] = "signal"
  /\ cmds' = IF ~SyncFlush /\ Len(cmds) < WorkerCapacity
             THEN Append(cmds, Trigger) ELSE cmds
  /\ held' = [held EXCEPT ![t] = 0]
  /\ seen' = [seen EXCEPT ![t] = 0]
  /\ Goto(t, "idle")
  /\ UNCHANGED <<nth, chanVars, flushVars, wpc, wcmd, wres, callerVars,
                 outcome, reports, config>>

Push(t) == ReadCount(t) \/ Refuse(t) \/ Reserve(t) \/ Send(t) \/ Signal(t)

-----------------------------------------------------------------------------
(* LogQueue::flush_all, trigger_flush_command and Drop.                    *)

CallFlush(f) ==
  /\ cpc[f] = "idle"
  /\ handle = "alive"
  /\ cpc' = [cpc EXCEPT ![f] = "sending"]
  /\ before' = [before EXCEPT ![f] = Submitted]
  /\ UNCHANGED <<pushVars, chanVars, flushVars, workerVars, result, triggers,
                 handle, outcome, reports, config>>

(* Mutant: the command is sent with try_send, as submit's trigger is. *)
SendFlushLossy(f) ==
  /\ cpc[f] = "sending"
  /\ cmds' = IF Len(cmds) < WorkerCapacity THEN Append(cmds, f) ELSE cmds
  /\ cpc' = [cpc EXCEPT ![f] = "waiting"]
  /\ UNCHANGED <<pushVars, chanVars, flushVars, wpc, wcmd, wres, result, before,
                 triggers, handle, outcome, reports, config>>

(* `send(LogCommand::Flush(tx)).await` waits for room in the channel. *)
SendFlush(f) ==
  /\ cpc[f] = "sending"
  /\ Len(cmds) < WorkerCapacity
  /\ cmds' = Append(cmds, f)
  /\ cpc' = [cpc EXCEPT ![f] = "waiting"]
  /\ UNCHANGED <<pushVars, chanVars, flushVars, wpc, wcmd, wres, result, before,
                 triggers, handle, outcome, reports, config>>

TriggerFlushCommand ==
  /\ triggers > 0
  /\ handle = "alive"
  /\ Len(cmds) < WorkerCapacity
  /\ cmds' = Append(cmds, Trigger)
  /\ triggers' = triggers - 1
  /\ UNCHANGED <<pushVars, chanVars, flushVars, wpc, wcmd, wres, cpc, result,
                 before, handle, outcome, reports, config>>

(* The last handle is dropped: no submit and no flush_all is running.      *)
(* Drop of the client and then Drop of the queue it owns look whether the  *)
(* queue is empty, and flush it if not, unless the runtime is a            *)
(* current-thread one.                                                     *)
Drop ==
  /\ handle \in {"alive", "flushed"}
  /\ \A t \in Threads : pc[t] = "idle"
  /\ \A f \in Callers : cpc[f] \in {"idle", "answered"}
  /\ \/ handle' = "closed"
     \/ items[current] # <<>> /\ handle' = "sending"
  /\ UNCHANGED <<pushVars, chanVars, flushVars, workerVars, cpc, result, before,
                 triggers, outcome, reports, config>>

(* Drop's own flush_all. *)
SendDropFlush ==
  /\ handle = "sending"
  /\ Len(cmds) < WorkerCapacity
  /\ cmds' = Append(cmds, DropFlush)
  /\ handle' = "waiting"
  /\ UNCHANGED <<pushVars, chanVars, flushVars, wpc, wcmd, wres, cpc, result,
                 before,
                 triggers, outcome, reports, config>>

-----------------------------------------------------------------------------
(* The worker: run_worker, and core.flush which it calls.                  *)

(* Mutant: the worker exits as soon as the channel is closed and empty. *)
ReceiveNoFinalFlush ==
  /\ wpc = "recv"
  /\ \/ /\ cmds # <<>>
        /\ wcmd' = Head(cmds)
        /\ cmds' = Tail(cmds)
        /\ wpc' = "trigger"
     \/ /\ cmds = <<>> /\ handle = "closed"
        /\ wcmd' = "none"
        /\ cmds' = cmds
        /\ wpc' = "exited"
  /\ UNCHANGED <<pushVars, chanVars, flushVars, wres, callerVars, outcome,
                 reports, config>>

(* A command, or None once the channel is closed and empty. *)
Receive ==
  /\ wpc = "recv"
  /\ \/ /\ cmds # <<>>
        /\ wcmd' = Head(cmds)
        /\ cmds' = Tail(cmds)
     \/ /\ cmds = <<>> /\ handle = "closed"
        /\ wcmd' = "close"
        /\ cmds' = cmds
  /\ wpc' = "trigger"
  /\ UNCHANGED <<pushVars, chanVars, flushVars, wres, callerVars, outcome,
                 reports, config>>

Running == task \in {"swap", "drain", "popped", "send"}

(* trigger_flush_background: spawn a flush task unless one is running. *)
TriggerFlushBackground ==
  /\ wpc = "trigger"
  /\ task' = IF Running THEN task ELSE "swap"
  /\ wpc' = "join"
  /\ UNCHANGED <<pushVars, chanVars, draining, batch, cmds, wcmd, wres,
                 callerVars, outcome, reports, config>>

(* Mutant: the handle is taken but not awaited. *)
JoinWithoutAwait ==
  /\ wpc = "join"
  /\ wres' = IF task = "err" THEN "err" ELSE "ok"
  /\ wpc' = IF task = "err" THEN "respond" ELSE "check"
  /\ task' = IF Running THEN task ELSE "none"
  /\ UNCHANGED <<pushVars, chanVars, draining, batch, cmds, wcmd, callerVars,
                 outcome, reports, config>>

(* Take the handle and await the task; an error ends the loop at once. *)
Join ==
  /\ wpc = "join"
  /\ task \in {"ok", "err"}
  /\ wres' = task
  /\ wpc' = IF task = "err" THEN "respond" ELSE "check"
  /\ task' = "none"
  /\ UNCHANGED <<pushVars, chanVars, draining, batch, cmds, wcmd, callerVars,
                 outcome, reports, config>>

(* `if self.is_empty() { return Ok(()) }`, else flush again. *)
Check ==
  /\ wpc = "check"
  /\ wpc' = IF items[current] = <<>> THEN "respond" ELSE "trigger"
  /\ UNCHANGED <<pushVars, chanVars, flushVars, cmds, wcmd, wres, callerVars,
                 outcome, reports, config>>

Failed == {r \in Rows : outcome[r] = "failed"}

(* The end of the command: a caller of flush_all gets the result, Drop     *)
(* ignores it, and that of a trigger or of the final flush is only logged. *)
Respond ==
  /\ wpc = "respond"
  /\ IF wcmd \in Callers
     THEN /\ cpc' = [cpc EXCEPT ![wcmd] = "answered"]
          /\ result' = [result EXCEPT ![wcmd] = wres]
          /\ told' = IF wres = "err" THEN told \cup (Failed \ logged) ELSE told
          /\ UNCHANGED <<handle, logged>>
     ELSE /\ handle' = IF wcmd = DropFlush THEN "flushed" ELSE handle
          /\ logged' = IF wres = "err" THEN logged \cup (Failed \ told) ELSE logged
          /\ UNCHANGED <<cpc, result, told>>
  /\ wpc' = IF wcmd = "close" THEN "exited" ELSE "recv"
  /\ wcmd' = "none"
  /\ wres' = "ok"
  /\ UNCHANGED <<pushVars, chanVars, flushVars, cmds, before, triggers,
                 outcome, config>>

Worker == Receive \/ TriggerFlushBackground \/ Join \/ Check \/ Respond

-----------------------------------------------------------------------------
(* The flush task: flush_internal with drain_all at its start.             *)

(* `self.channel.swap(Arc::new(make_cmd_channel()))` *)
Swap ==
  /\ task = "swap"
  /\ items' = Append(items, <<>>)
  /\ queued' = Append(queued, 0)
  /\ draining' = current
  /\ task' = "drain"
  /\ UNCHANGED <<pushVars, batch, workerVars, callerVars, outcome, reports,
                 config>>

(* Mutant: the newest row of the channel is taken first. *)
PopNewest ==
  /\ task = "drain"
  /\ items[draining] # <<>>
  /\ batch' = Append(batch, Last(items[draining]))
  /\ items' = [items EXCEPT ![draining] = Front(@)]
  /\ task' = "popped"
  /\ UNCHANGED <<pushVars, queued, draining, workerVars, callerVars, outcome,
                 reports, config>>

(* `old_channel.receiver.try_recv()` yields a row ... *)
Pop ==
  /\ task = "drain"
  /\ items[draining] # <<>>
  /\ batch' = Append(batch, Head(items[draining]))
  /\ items' = [items EXCEPT ![draining] = Tail(@)]
  /\ task' = "popped"
  /\ UNCHANGED <<pushVars, queued, draining, workerVars, callerVars, outcome,
                 reports, config>>

(* Mutant: the slot is released in the channel that replaced the old one. *)
ReleaseSlotOfCurrent ==
  /\ task = "popped"
  /\ queued' = [queued EXCEPT ![current] = @ - 1]
  /\ task' = "drain"
  /\ UNCHANGED <<pushVars, items, draining, batch, workerVars, callerVars,
                 outcome, reports, config>>

(* ... whose slot is released. *)
ReleaseSlot ==
  /\ task = "popped"
  /\ queued' = [queued EXCEPT ![draining] = @ - 1]
  /\ task' = "drain"
  /\ UNCHANGED <<pushVars, items, draining, batch, workerVars, callerVars,
                 outcome, reports, config>>

(* try_recv finds the old channel empty: the drain is over. *)
DrainDone ==
  /\ task = "drain"
  /\ items[draining] = <<>>
  /\ draining' = 0
  /\ task' = IF batch = <<>> THEN "ok" ELSE "send"
  /\ UNCHANGED <<pushVars, chanVars, batch, workerVars, callerVars, outcome,
                 reports, config>>

(* Mutant: only the failure of the whole flush makes it return Err. *)
SendRowsIgnoringSome ==
  /\ task = "send"
  /\ \E bad \in SUBSET ToSet(batch) :
       /\ outcome' = [r \in Rows |->
                        IF r \notin ToSet(batch) THEN outcome[r]
                        ELSE IF r \in bad THEN "failed" ELSE "delivered"]
       /\ task' = IF Checked /\ bad = ToSet(batch) THEN "err" ELSE "ok"
  /\ batch' = <<>>
  /\ UNCHANGED <<pushVars, chanVars, draining, workerVars, callerVars, reports,
                 config>>

(* The rest of flush_internal: rows are prepared, merged, batched and sent *)
(* with retries.  Any of them may fail, all of them when the API URL does  *)
(* not parse; a checked queue returns the first error, an unchecked one Ok.*)
SendRows ==
  /\ task = "send"
  /\ \E bad \in SUBSET ToSet(batch) :
       /\ outcome' = [r \in Rows |->
                        IF r \notin ToSet(batch) THEN outcome[r]
                        ELSE IF r \in bad THEN "failed" ELSE "delivered"]
       /\ task' = IF Checked /\ bad # {} THEN "err" ELSE "ok"
  /\ batch' = <<>>
  /\ UNCHANGED <<pushVars, chanVars, draining, workerVars, callerVars, reports,
                 config>>

FlushTask == Swap \/ Pop \/ ReleaseSlot \/ DrainDone \/ SendRows

-----------------------------------------------------------------------------
(* The worker has exited and nothing can happen any more. *)
Exited ==
  /\ wpc = "exited"
  /\ UNCHANGED vars

Next ==
  \/ \E t \in Threads : LoadChannel(t) \/ Push(t)
  \/ \E f \in Callers : CallFlush(f) \/ SendFlush(f)
  \/ TriggerFlushCommand
  \/ Drop
  \/ SendDropFlush
  \/ Worker
  \/ FlushTask
  \/ Exited

Spec == Init /\ [][Next]_vars

(***************************************************************************)
(* Fairness.  A thread inside submit is not descheduled for ever, tokio    *)
(* polls the worker and the flush task, and its channel hands permits to   *)
(* waiting senders in FIFO order, hence strong fairness of the sends of    *)
(* flush_all.  A Drop that has begun goes on.  Nothing makes the program   *)
(* submit, call flush_all or drop its handles.                             *)
(***************************************************************************)
Fairness ==
  /\ \A t \in Threads : WF_vars(Push(t))
  /\ \A f \in Callers : SF_vars(SendFlush(f))
  /\ SF_vars(SendDropFlush)
  /\ WF_vars(handle = "flushed" /\ Drop)
  /\ WF_vars(Worker)
  /\ WF_vars(FlushTask)

FairSpec == Spec /\ Fairness

-----------------------------------------------------------------------------
(* Properties.                                                             *)

(* The type invariant, by component. *)
PushTypeOK ==
  /\ pc \in [Threads -> {"idle", "loaded", "reserving", "reserved", "signal"}]
  /\ nth \in [Threads -> 0..RowsPerThread]
  /\ seen \in [Threads -> Nat]

ChannelTypeOK ==
  /\ items \in Seq(Seq(Rows)) /\ items # <<>>
  /\ queued \in Seq(Nat) /\ Len(queued) = Len(items)
  /\ held \in [Threads -> 0..Len(items)]
  /\ draining \in 0..Len(items)

FlushTypeOK ==
  /\ batch \in Seq(Rows)
  /\ outcome \in [Rows -> {"pending", "dropped", "delivered", "failed"}]
  /\ told \in SUBSET Rows /\ logged \in SUBSET Rows
  /\ task \in {"none", "swap", "drain", "popped", "send", "ok", "err"}

WorkerTypeOK ==
  /\ cmds \in Seq(Callers \cup {Trigger, DropFlush})
  /\ wpc \in {"recv", "trigger", "join", "check", "respond", "exited"}
  /\ wcmd \in Callers \cup {Trigger, DropFlush, "close", "none"}
  /\ wres \in {"ok", "err"}

CallerTypeOK ==
  /\ cpc \in [Callers -> {"idle", "sending", "waiting", "answered"}]
  /\ result \in [Callers -> {"none", "ok", "err"}]
  /\ before \in [Callers -> SUBSET Rows]
  /\ triggers \in 0..MaxTriggers
  /\ handle \in {"alive", "sending", "waiting", "flushed", "closed"}
  /\ config \in Configs

TypeOK == PushTypeOK /\ ChannelTypeOK /\ FlushTypeOK /\ WorkerTypeOK /\ CallerTypeOK

(* With the limit enforced no channel ever holds more than queue_max_size  *)
(* rows, however the reservations of the threads and the releases of a     *)
(* drain interleave (enforce_queue_size_limit, config.rs).                 *)
QueueBounded ==
  Enforce => \A c \in 1..Len(items) : Len(items[c]) <= QueueMaxSize

(* The threads that hold a slot of channel c they have not used yet. *)
Reserving(c) == {t \in Threads : pc[t] = "reserved" /\ held[t] = c}

(* The row just taken out of channel c whose slot is not released yet. *)
Unreleased(c) == IF task = "popped" /\ draining = c THEN 1 ELSE 0

(* queued_count is exactly the rows in the channel, the slots reserved for *)
(* rows on their way and the row just taken out whose slot is not released:*)
(* no interleaving of push and drain_all leaks a slot or frees it twice.   *)
SlotAccounting ==
  \A c \in 1..Len(items) :
    queued[c] = Len(items[c]) + Cardinality(Reserving(c)) + Unreleased(c)

(* Where a row is, as the ledger sees it. *)
LiveChannels == {current} \cup ({draining} \ {0})
Stage(r) ==
  IF outcome[r] # "pending" THEN outcome[r]
  ELSE IF r \in ToSet(batch) THEN "inflight"
  ELSE IF \E c \in LiveChannels : r \in ToSet(items[c]) THEN "queued"
  ELSE IF \E c \in 1..Len(items) : r \in ToSet(items[c]) THEN "stranded"
  ELSE "unsubmitted"

Ledger == INSTANCE RowLedger WITH stage <- [r \in Rows |-> Stage(r)]

(* Every row is accounted for exactly once and the rows of one thread are  *)
(* flushed in the order of their submit calls: the queue implements the    *)
(* ledger.                                                                 *)
ImplementsLedger == Ledger!LedgerSpec

(* flush_all is a barrier: once it has returned, with Ok or with Err, no   *)
(* row submitted before the call still waits in the queue or in a flush.   *)
FlushBarrier ==
  \A f \in Callers : cpc[f] = "answered" =>
    \A r \in before[f] : Stage(r) \notin {"unsubmitted", "queued", "inflight"}

(* What the documentation of push says: a row that is not handed to a      *)
(* flush is a counted drop.  So after flush_all every row submitted before *)
(* it was delivered, failed or dropped.                                    *)
NoRowVanishes ==
  \A f \in Callers : cpc[f] = "answered" =>
    \A r \in before[f] : Stage(r) \in {"delivered", "failed", "dropped"}

(* Checked delivery: a flush_all that returns Ok hides no failure of a row *)
(* submitted before it.  The error was given to a caller of flush_all, or  *)
(* it was spent where the code gives it to nobody: on the worker's log     *)
(* line for a trigger_flush, or in a Drop.                                 *)
FailuresObserved ==
  Checked => \A f \in Callers : result[f] = "ok" =>
    \A r \in before[f] : outcome[r] = "failed" => r \in told \cup logged

(* What the documentation of checked_delivery says: no failure is consumed *)
(* before a caller of flush_all observes it.                               *)
NoFailureConsumed ==
  Checked => \A f \in Callers : result[f] = "ok" =>
    \A r \in before[f] : outcome[r] = "failed" => r \in told

(* Every flush_all that begins is answered. *)
CallsAnswered ==
  \A f \in Callers : cpc[f] = "sending" ~> cpc[f] = "answered"

(* Without sync_flush the rows in the queue reach a flush and leave it,    *)
(* even though a trigger that finds the command channel full is lost and   *)
(* nobody calls flush_all.  Submits come to an end in the model (MaxRows), *)
(* so this is said of every row that is queued at one time.                *)
Waiting(r) == Stage(r) \in {"queued", "inflight"}
RowsSettle ==
  ~SyncFlush /\ (\E r \in Rows : Waiting(r)) ~> \A r \in Rows : ~Waiting(r)

(* Once the last handle is being dropped the worker exits and leaves       *)
(* nothing in the queue: in sync mode, where no submit ever triggered a    *)
(* flush, and also when the flush of a Drop fails or is skipped.           *)
ClosedDrains ==
  handle # "alive" ~>
    (wpc = "exited" /\ \A r \in Rows : ~Waiting(r))
=============================================================================
