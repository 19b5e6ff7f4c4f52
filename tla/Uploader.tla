------------------------------- MODULE Uploader -------------------------------
(***************************************************************************)
(* Logs3BatchUploader (src/src/logs3.rs): one call of upload_rows.  The    *)
(* rows are cut into batches; a chunk the server finds too large goes by   *)
(* way of the object store, or in two halves when there is none.           *)
(*                                                                         *)
(* A row is its number, a payload is its length.  The waits between the    *)
(* attempts and the counts of requests and bytes are left out.  A request  *)
(* that timed out may reach the server later: while the call goes on this  *)
(* is the same as reaching it at once, and after an error it is Lands.     *)
(***************************************************************************)
EXTENDS Naturals, SequencesExt

CONSTANTS
  RowSizes,     \* lengths of a row
  MaxRows,      \* bound: rows of the call
  MaxItems,     \* batch_max_num_items
  Limits,       \* what the server may advertise, or the caller override
  DefaultLimit, \* DEFAULT_MAX_REQUEST_SIZE
  Frame,        \* length of a payload without rows
  MaxAttempts   \* MAX_ATTEMPTS

ASSUME UploaderAssumption ==
  /\ RowSizes \subseteq Nat \ {0} /\ Limits \subseteq Nat \ {0}
  /\ MaxRows \in Nat \ {0} /\ MaxItems \in Nat \ {0} /\ DefaultLimit \in Nat \ {0}
  /\ Frame \in Nat /\ MaxAttempts \in Nat \ {0}

VARIABLES
  size,          \* size[r]: row_bytes of row r
  limits,        \* PayloadLimits: [max_request_size, can_use_overflow]
  batches,       \* batches to submit
  pending,       \* chunks of the current batch to submit, the next one last
  chunk,         \* the chunk that is being submitted
  phase,         \* "limits", "next", a request ("post", "url", "put", "reference"), or the
                 \* result: "ok" or "err"
  attempts,      \* of run_with_backoff
  stored,        \* stored[r]: how often row r reached the server, 2 for more than once
  late,          \* a post or reference of the chunk failed, and may yet reach the server
  lost,          \* an answer got lost after its request took effect
  rows_uploaded  \* of Logs3UploadResult

vars == <<size, limits, batches, pending, chunk, phase, attempts, stored, late, lost,
          rows_uploaded>>

Requests == {"post", "url", "put", "reference"}

Init ==
  /\ size \in UNION {[1..n -> RowSizes] : n \in 1..MaxRows}
  /\ limits = [max_request_size |-> DefaultLimit, can_use_overflow |-> FALSE]
  /\ batches = <<>> /\ pending = <<>> /\ chunk = <<>>
  /\ phase = "limits"
  /\ attempts = 0
  /\ stored = [r \in DOMAIN size |-> 0] /\ late = FALSE /\ lost = FALSE
  /\ rows_uploaded = 0

-----------------------------------------------------------------------------
(* Batches.                                                                *)

Bytes(rows) ==
  LET sum[n \in 0..Len(rows)] == IF n = 0 THEN 0 ELSE sum[n - 1] + size[rows[n]]
  IN  sum[Len(rows)]

(* Mutant: a batch may be as long as the limit. *)
FitsToLimit(batch, r, max_bytes) ==
  Len(batch) < MaxItems /\ Bytes(batch) + size[r] <= max_bytes

Fits(batch, r, max_bytes) ==
  Len(batch) < MaxItems /\ Bytes(batch) + size[r] < max_bytes

(* batch_items: the last batch takes the row, or a new batch begins. *)
Place(out, r, max_bytes) ==
  IF out # <<>> /\ Fits(Last(out), r, max_bytes)
  THEN [out EXCEPT ![Len(out)] = Append(@, r)] ELSE Append(out, <<r>>)

BatchItems(rows, max_bytes) ==
  LET out[n \in 0..Len(rows)] == IF n = 0 THEN <<>> ELSE Place(out[n - 1], rows[n], max_bytes)
  IN  out[Len(rows)]

(* construct_logs3_payload *)
Payload(rows) == Bytes(rows) + (Len(rows) - 1) + Frame

AtLeastOne(n) == IF n = 0 THEN 1 ELSE n
Least(a, b) == IF a < b THEN a ELSE b

Rows == [r \in DOMAIN size |-> r]

(* fetch_payload_limits, 0 for what is not there, and the first lines of   *)
(* upload_rows.                                                            *)
GetPayloadLimits ==
  /\ phase = "limits"
  /\ \E server \in Limits \cup {0}, override \in Limits \cup {0} :
       limits' = [max_request_size |->
                    IF override # 0 /\ server # 0 THEN Least(override, server)
                    ELSE IF override # 0 THEN override
                    ELSE IF server # 0 THEN server ELSE DefaultLimit,
                  can_use_overflow |-> server # 0]
  /\ batches' = BatchItems(Rows, AtLeastOne(limits'.max_request_size \div 2))
  /\ phase' = "next"
  /\ UNCHANGED <<size, pending, chunk, attempts, stored, late, lost, rows_uploaded>>

NextBatch ==
  /\ phase = "next" /\ pending = <<>>
  /\ IF batches = <<>> THEN phase' = "ok" /\ UNCHANGED <<batches, pending>>
     ELSE /\ pending' = <<Head(batches)>>
          /\ batches' = Tail(batches)
          /\ phase' = phase
  /\ UNCHANGED <<size, limits, chunk, attempts, stored, late, lost, rows_uploaded>>

-----------------------------------------------------------------------------
(* Chunks.                                                                 *)

(* The next chunk is posted, or uploaded if its payload is too long.       *)
NextChunk ==
  /\ phase = "next" /\ pending # <<>>
  /\ chunk' = Last(pending)
  /\ pending' = Front(pending)
  /\ phase' = CASE chunk' = <<>> -> "next"
                [] chunk' # <<>> /\ limits.can_use_overflow
                   /\ Payload(chunk') > limits.max_request_size -> "url"
                [] OTHER -> "post"
  /\ attempts' = 0 /\ late' = FALSE
  /\ UNCHANGED <<size, limits, batches, stored, lost, rows_uploaded>>

(* Attempts are counted for each request. *)
Attempt(next) ==
  /\ phase \in Requests
  /\ phase' = next
  /\ attempts' = IF next = phase THEN attempts + 1 ELSE 0

(* The requests that bring rows to the server. *)
Storing == {"post", "reference"}

(* The server takes the rows of the chunk, or not. *)
Take(took) ==
  /\ took => phase \in Storing \cup {"err"}
  /\ stored' = [r \in DOMAIN stored |->
                  IF took /\ r \in ToSet(chunk) THEN Least(stored[r] + 1, 2) ELSE stored[r]]

(* The request succeeds. *)
Succeeds ==
  /\ Attempt(CASE phase = "url" -> "put" [] phase = "put" -> "reference" [] OTHER -> "next")
  /\ Take(phase \in Storing)
  /\ rows_uploaded' = IF phase' = "next" THEN rows_uploaded + Len(chunk) ELSE rows_uploaded
  /\ UNCHANGED <<size, limits, batches, pending, chunk, late, lost>>

(* should_retry: a time-out, a refused connection, 429 or 5xx.  The server *)
(* may have taken the rows all the same.                                   *)
Fails ==
  /\ Attempt(IF attempts + 1 < MaxAttempts THEN phase ELSE "err")
  /\ \E took \in BOOLEAN : Take(took) /\ lost' = (lost \/ took)
  /\ late' = (late \/ phase \in Storing)
  /\ UNCHANGED <<size, limits, batches, pending, chunk, rows_uploaded>>

(* A refusal, or a connection that breaks later, is an error at once. *)
FailsForGood ==
  /\ Attempt("err")
  /\ \E took \in BOOLEAN : Take(took) /\ lost' = (lost \/ took)
  /\ late' = (late \/ phase \in Storing)
  /\ UNCHANGED <<size, limits, batches, pending, chunk, rows_uploaded>>

(* A failed request reaches the server after the caller got its error. *)
Lands ==
  /\ phase = "err" /\ late
  /\ Take(TRUE)
  /\ lost' = TRUE
  /\ UNCHANGED <<size, limits, batches, pending, chunk, phase, attempts, late, rows_uploaded>>

Half == Len(chunk) \div 2

(* Mutant: the second half goes first. *)
SplitReversed ==
  pending' = pending \o <<SubSeq(chunk, 1, Half), SubSeq(chunk, Half + 1, Len(chunk))>>

Split ==
  pending' = pending \o <<SubSeq(chunk, Half + 1, Len(chunk)), SubSeq(chunk, 1, Half)>>

(* Mutant: a single row is split, too. *)
TooLargeAlways ==
  /\ phase = "post"
  /\ Attempt(IF limits.can_use_overflow THEN "url" ELSE "next")
  /\ IF phase' = "next" THEN Split ELSE pending' = pending
  /\ late' = FALSE
  /\ UNCHANGED <<size, limits, batches, chunk, stored, lost, rows_uploaded>>

(* Mutant: the whole chunk is tried again behind the overflow. *)
TooLargeTwice ==
  /\ phase = "post"
  /\ Attempt(CASE limits.can_use_overflow -> "url"
              [] ~limits.can_use_overflow /\ Len(chunk) > 1 -> "next"
              [] OTHER -> "err")
  /\ IF phase' = "next" THEN Split
     ELSE pending' = IF phase' = "url" THEN Append(pending, chunk) ELSE pending
  /\ late' = FALSE
  /\ UNCHANGED <<size, limits, batches, chunk, stored, lost, rows_uploaded>>

(* 413: the chunk goes by the object store, or in two halves; the server   *)
(* does not take a post of that length later either.                       *)
TooLarge ==
  /\ phase = "post"
  /\ Attempt(CASE limits.can_use_overflow -> "url"
              [] ~limits.can_use_overflow /\ Len(chunk) > 1 -> "next"
              [] OTHER -> "err")
  /\ IF phase' = "next" THEN Split ELSE pending' = pending
  /\ late' = FALSE
  /\ UNCHANGED <<size, limits, batches, chunk, stored, lost, rows_uploaded>>

Call ==
  \/ GetPayloadLimits \/ NextBatch \/ NextChunk
  \/ Succeeds \/ Fails \/ FailsForGood \/ TooLarge

Next == Call \/ Lands

Spec == Init /\ [][Next]_vars

(* Requests time out, the task is polled. *)
FairSpec == Spec /\ WF_vars(Call)

-----------------------------------------------------------------------------
(* "Splits `items` into batches respecting `max_items` and `max_bytes`":   *)
(* every row once and in order; a batch of several rows is shorter than    *)
(* the limit; and no batch could take the first row of the next one.       *)
BatchesFit ==
  \A max_bytes \in 1..Bytes(Rows) :
    LET out == BatchItems(Rows, max_bytes) IN
    /\ FlattenSeq(out) = Rows
    /\ \A b \in DOMAIN out :
         /\ Len(out[b]) \in 1..MaxItems
         /\ Len(out[b]) > 1 => Bytes(out[b]) < max_bytes
    /\ \A b \in DOMAIN out \ {1} :
         \/ Len(out[b - 1]) = MaxItems
         \/ Bytes(out[b - 1]) + size[Head(out[b])] >= max_bytes

(* Whatever is split, retried or uploaded, and wherever it ends: the rows  *)
(* at the server are the first rows of the call, and Ok means all of them. *)
Caller ==
  INSTANCE Transfer WITH
            n <- Len(size),
            held <- {r \in DOMAIN size : stored[r] > 0},
            result <- IF phase \in {"ok", "err"} THEN phase ELSE "none"
ImplementsTransfer == Caller!TransferSpec

(* The server gets a row twice only where an answer got lost; a chunk that *)
(* was too large was not taken, in one way or the other.                   *)
StoredOnce == ~lost => \A r \in DOMAIN size : stored[r] <= 1

(* upload_rows returns, also if the server finds every payload too large,  *)
(* and if it returns Ok its count is the number of rows.                   *)
Returns == <>(phase = "err" \/ (phase = "ok" /\ rows_uploaded = Len(size)))
=============================================================================
