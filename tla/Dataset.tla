------------------------------ MODULE Dataset ------------------------------
(***************************************************************************)
(* A dataset (src/src/dataset.rs): operations on records are kept in       *)
(* pending_rows until a flush registers the dataset and submits them.      *)
(* The tasks share one Dataset, whose methods take &self.                  *)
(***************************************************************************)
EXTENDS Client

ASSUME DatasetAssumption == "dataset" \in Handles

VARIABLES
  pending,     \* pending_rows
  taken,       \* taken[t]: the rows that the flush of t has yet to submit
  pushed,      \* every row that entered pending_rows, in order
  sent,        \* the rows that flushes submitted, in order
  overlapped   \* two flushes have held rows at the same time

datasetVars == <<pending, taken, pushed, sent, overlapped>>

DatasetInit ==
  /\ pending = <<>>
  /\ taken = [t \in Tasks |-> <<>>]
  /\ pushed = <<>>
  /\ sent = <<>>
  /\ overlapped = FALSE

RecordOps == {"insert", "update", "delete"}
FlushOps  == {"flush", "summarize"}
AtDataset(t, label, ops) == At(t, label, {"dataset"}, ops)

(* insert, update and delete push their row under the lock. *)
Push(t) ==
  /\ AtDataset(t, "idle", RecordOps)
  /\ pending' = Append(pending, Row(t))
  /\ pushed' = Append(pushed, Row(t))
  /\ Return(t, "ok")
  /\ UNCHANGED <<cellVars, queueVars, taken, sent, overlapped>>

(* BraintrustClient::register_dataset. *)
DatasetRegistrations(reply) == IF reply = "ok" THEN Ids ELSE {Failed}

(* The initializer of ensure_registered; the cell keeps an error as well. *)
RegisterDataset(t) ==
  /\ Calling(t) /\ Call(t).on = "dataset"
  /\ \E reply \in Replies : SetCell(t, DatasetRegistrations(reply))
  /\ UNCHANGED datasetVars

(* flush, summarize, fetch and dataset_id begin with ensure_registered. *)
BeginOnDataset(t) ==
  /\ AtDataset(t, "idle", FlushOps \cup {"fetch", "dataset_id"})
  /\ Goto(t, "ensure")
  /\ UNCHANGED <<cellVars, queueVars, datasetVars>>

(* dataset_id and fetch have what they need, or return the cached error. *)
GetId(t) ==
  /\ AtDataset(t, "registered", {"fetch", "dataset_id"})
  /\ Return(t, IF cell["dataset"] = Failed THEN "err" ELSE "ok")
  /\ UNCHANGED <<cellVars, queueVars, datasetVars>>

(* After the rows summarize looks the dataset up, flush is done. *)
AfterFlush(t) == IF Call(t).op = "flush" THEN Return(t, "ok") ELSE Goto(t, "summary")

Holding == {t \in Tasks : taken[t] # <<>>}

(* Mutant: the rows are taken before the registration is looked at. *)
TakeFirst(t) ==
  /\ AtDataset(t, "registered", FlushOps)
  /\ pending' = <<>>
  /\ IF cell["dataset"] = Failed
     THEN Return(t, "err") /\ UNCHANGED <<taken, overlapped>>
     ELSE /\ taken' = [taken EXCEPT ![t] = pending]
          /\ overlapped' = (overlapped \/ (Holding # {} /\ pending # <<>>))
          /\ IF pending = <<>> THEN AfterFlush(t) ELSE Goto(t, "submitting")
  /\ UNCHANGED <<cellVars, queueVars, pushed, sent>>

(* `std::mem::take` of the pending rows under the lock, or the error. *)
Take(t) ==
  /\ AtDataset(t, "registered", FlushOps)
  /\ IF cell["dataset"] = Failed
     THEN Return(t, "err") /\ UNCHANGED <<pending, taken, overlapped>>
     ELSE /\ pending' = <<>>
          /\ taken' = [taken EXCEPT ![t] = pending]
          /\ overlapped' = (overlapped \/ (Holding # {} /\ pending # <<>>))
          /\ IF pending = <<>> THEN AfterFlush(t) ELSE Goto(t, "submitting")
  /\ UNCHANGED <<cellVars, queueVars, pushed, sent>>

(* Mutant: the rows are submitted from the last to the first. *)
SubmitNewest(t) ==
  /\ AtDataset(t, "submitting", FlushOps)
  /\ Submit(Last(taken[t]), cell["dataset"])
  /\ sent' = Append(sent, Last(taken[t]))
  /\ taken' = [taken EXCEPT ![t] = Front(@)]
  /\ IF Len(taken[t]) = 1 THEN AfterFlush(t) ELSE UNCHANGED taskVars
  /\ UNCHANGED <<cellVars, pending, pushed, overlapped>>

(* One row of the loop in flush; nothing waits here, other threads run. *)
SubmitTaken(t) ==
  /\ AtDataset(t, "submitting", FlushOps)
  /\ Submit(Head(taken[t]), cell["dataset"])
  /\ sent' = Append(sent, Head(taken[t]))
  /\ taken' = [taken EXCEPT ![t] = Tail(@)]
  /\ IF Len(taken[t]) = 1 THEN AfterFlush(t) ELSE UNCHANGED taskVars
  /\ UNCHANGED <<cellVars, pending, pushed, overlapped>>

(* BraintrustClient::fetch_dataset_summary. *)
DatasetSummary(reply) == IF reply = "ok" THEN "ok" ELSE "err"

(* summarize returns what the server says of the dataset. *)
FetchDatasetSummary(t) ==
  /\ AtDataset(t, "summary", FlushOps)
  /\ \E reply \in Replies : Return(t, DatasetSummary(reply))
  /\ UNCHANGED <<cellVars, queueVars, datasetVars>>

(* Record operations wait for nothing but the lock of pending_rows. *)
GiveUpOnDataset(t) ==
  /\ Calling(t) /\ Call(t).on = "dataset"
  /\ \/ WaitsForCell(t) \/ pc[t] \in {"registered", "summary"}
     \/ AtDataset(t, "idle", RecordOps)
  /\ Return(t, "given up")
  /\ LeaveCell(t)
  /\ UNCHANGED <<queueVars, datasetVars>>

DatasetStep(t) ==
  RegisterDataset(t) \/ GetId(t) \/ Take(t) \/ SubmitTaken(t) \/ FetchDatasetSummary(t)

-----------------------------------------------------------------------------
(* Every record operation that returned is in one place, once: pending,    *)
(* held by one flush, or submitted.  A flush that fails to register or is  *)
(* given up, and flushes at the same time, lose and repeat none.           *)
Once(s) == \A i, j \in DOMAIN s : s[i] = s[j] => i = j
RowsKeptOnce ==
  /\ Once(sent) /\ Once(pending) /\ \A t \in Tasks : Once(taken[t])
  /\ ToSet(sent) \cap ToSet(pending) = {}
  /\ \A t \in Tasks :
       /\ ToSet(taken[t]) \cap (ToSet(sent) \cup ToSet(pending)) = {}
       /\ \A u \in Tasks \ {t} : ToSet(taken[t]) \cap ToSet(taken[u]) = {}
  /\ ToSet(pushed) = ToSet(sent) \cup ToSet(pending) \cup UNION {ToSet(taken[t]) : t \in Tasks}

(* An insert replaces a record and an update merges into it, so the order  *)
(* counts: unless two flushes ran into each other, rows reach the queue in *)
(* the order of the calls.                                                 *)
RowsInOrder ==
  ~overlapped =>
    /\ Holding = {} => pushed = sent \o pending
    /\ \A t \in Holding : pushed = sent \o taken[t] \o pending
=============================================================================
