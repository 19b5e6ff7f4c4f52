----------------------------- MODULE RowLedger -----------------------------
(***************************************************************************)
(* What the log queue promises to the threads that submit rows, with none  *)
(* of the machinery: every submitted row is accounted for exactly once,    *)
(* and the rows of one thread are flushed in the order it submitted them.  *)
(*                                                                         *)
(* A row is refused when it is submitted ("dropped"), or waits ("queued"), *)
(* is taken by one flush ("inflight") and leaves it acknowledged or given  *)
(* up ("delivered", "failed").  "stranded" is the outcome the             *)
(* implementation adds: a row accepted by `push` that no flush will see.   *)
(***************************************************************************)
EXTENDS Naturals

CONSTANTS Threads,       \* the threads that submit rows
          RowsPerThread  \* how many rows each of them submits at most

VARIABLE stage           \* stage[r]: where row r is

Rows == Threads \X (1..RowsPerThread)

(* The rows the same thread submitted before r. *)
Earlier(r) == {q \in Rows : q[1] = r[1] /\ q[2] < r[2]}

Move(r, to) == stage' = [stage EXCEPT ![r] = to]

LedgerInit == stage = [r \in Rows |-> "unsubmitted"]

(* One call of submit: rows of a thread are submitted one after another.   *)
Submit(r) ==
  /\ stage[r] = "unsubmitted"
  /\ \A q \in Earlier(r) : stage[q] # "unsubmitted"
  /\ stage'[r] \in {"queued", "dropped", "stranded"}
  /\ Move(r, stage'[r])

(* The running flush takes a row.  No row overtakes an earlier row of its  *)
(* own thread.                                                             *)
Take(r) ==
  /\ stage[r] = "queued"
  /\ \A q \in Earlier(r) : stage[q] # "queued"
  /\ Move(r, "inflight")

(* The flush ends: everything it took gets its final outcome in one step,  *)
(* so two flushes never hold rows at the same time.                        *)
Settle ==
  \E lost \in SUBSET {r \in Rows : stage[r] = "inflight"} :
    stage' = [r \in Rows |->
                IF stage[r] # "inflight" THEN stage[r]
                ELSE IF r \in lost THEN "failed" ELSE "delivered"]

LedgerNext ==
  \/ \E r \in Rows : Submit(r) \/ Take(r)
  \/ Settle

LedgerSpec == LedgerInit /\ [][LedgerNext]_stage
=============================================================================
