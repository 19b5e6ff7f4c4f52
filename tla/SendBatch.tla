----------------------------- MODULE SendBatch -----------------------------
(***************************************************************************)
(* send_batch_with_retry (src/src/log_queue/http.rs): one batch, posted    *)
(* directly or, when it exceeds the server's limit, uploaded to a signed   *)
(* URL and posted by reference, with retries and exponential back-off.     *)
(*                                                                         *)
(* The network may lose a request, lose its answer, or deliver a request   *)
(* after the client's time-out.                                            *)
(***************************************************************************)
EXTENDS Naturals, Sequences

CONSTANTS
  NumRetries,    \* config.num_retries: retries, one less than attempts
  DefaultMax,    \* the limit assumed of a server that states none
  StatedLimits,  \* limits a server may state, 0 when it states none
  PayloadSizes   \* sizes of the serialized batch

ASSUME SendBatchAssumption ==
  /\ NumRetries \in Nat
  /\ DefaultMax \in Nat /\ StatedLimits \subseteq Nat /\ PayloadSizes \subseteq Nat

VARIABLES
  useOverflow,  \* can_use_overflow and the payload exceeds max_request_size
  pc,        \* "start", "backoff", "attempt", "url", "upload", "post" or "done"
  attempt,   \* the attempt in progress, from 0
  slept,     \* back-off sleeps so far
  key,       \* the upload in hand, requested but not cached; 0 when none
  cached,    \* overflow_upload: the key the references name; 0 for None
  issued,    \* signed URLs the server has issued: keys 1..issued
  objects,   \* keys under which the payload is in the object store
  stored,    \* the server holds the rows of the batch
  late,      \* a timed-out post is still on its way to the server
  answers,   \* the answers to the calls so far, in order
  result     \* what the function returned

local  == <<useOverflow, pc, attempt, slept, key, cached, answers, result>>
server == <<issued, objects, stored, late>>
vars   == <<local, server>>

(* How a call ends: 2xx; 429 or 5xx; another status; no usable answer.     *)
Kinds == {"ok", "busy", "refused", "broken"}
Calls == [call : {"url", "upload", "post"}, answer : Kinds]

(* fetch_version_info: the limit the server states, and with it the way    *)
(* around it; the default and no way around it after any failure.          *)
VersionInfo(answer, stated) ==
  IF answer = "ok" /\ stated > 0
  THEN [max |-> stated, overflow |-> TRUE]
  ELSE [max |-> DefaultMax, overflow |-> FALSE]

(* get_version_info keeps the outcome of the one probe for all batches. *)
UseOverflow(info, size) == info.overflow /\ size > info.max

Init ==
  /\ \E answer \in Kinds, stated \in StatedLimits, size \in PayloadSizes :
       useOverflow = UseOverflow(VersionInfo(answer, stated), size)
  /\ pc = "start"
  /\ attempt = 0
  /\ slept = 0
  /\ key = 0
  /\ cached = 0
  /\ issued = 0
  /\ objects = {}
  /\ stored = FALSE
  /\ late = FALSE
  /\ answers = <<>>
  /\ result = "none"

Return(r) == pc' = "done" /\ result' = r

(* `api_url.join("logs3")?`, then the first attempt without a delay. *)
Start ==
  /\ pc = "start"
  /\ \/ Return("err")
     \/ pc' = "attempt" /\ result' = result
  /\ UNCHANGED <<useOverflow, attempt, slept, key, cached, answers, server>>

(* Sleep 1, 2, 4, ... seconds, 30 at most, before a retry. *)
Backoff ==
  /\ pc = "backoff"
  /\ slept' = slept + 1
  /\ pc' = "attempt"
  /\ UNCHANGED <<useOverflow, attempt, key, cached, answers, result, server>>

(* An upload made by an earlier attempt is used again. *)
Attempt ==
  /\ pc = "attempt"
  /\ pc' = IF useOverflow /\ cached = 0 THEN "url" ELSE "post"
  /\ UNCHANGED <<useOverflow, attempt, slept, key, cached, answers, result, server>>

Record(call, answer) == answers' = Append(answers, [call |-> call, answer |-> answer])

(* Mutant: num_retries counts attempts. *)
RetryOrFailEarly(mayRetry) ==
  IF mayRetry /\ attempt + 1 < NumRetries
  THEN attempt' = attempt + 1 /\ pc' = "backoff" /\ result' = result
  ELSE Return("err") /\ attempt' = attempt

(* `continue` to the next attempt, or return the error of the last one. *)
RetryOrFail(mayRetry) ==
  IF mayRetry /\ attempt < NumRetries
  THEN attempt' = attempt + 1 /\ pc' = "backoff" /\ result' = result
  ELSE Return("err") /\ attempt' = attempt

(* request_overflow_upload: any error at all is retried. *)
RequestUrl ==
  /\ pc = "url"
  /\ \E answer \in Kinds :
       /\ Record("url", answer)
       /\ \/ answer # "refused" /\ issued' = issued + 1
          \/ answer # "ok" /\ issued' = issued
       /\ IF answer = "ok"
          THEN key' = issued' /\ pc' = "upload" /\ UNCHANGED <<attempt, result>>
          ELSE key' = key /\ RetryOrFail(TRUE)
  /\ UNCHANGED <<useOverflow, slept, cached, objects, stored, late>>

(* The object store takes the payload, or does not. *)
PutObject(answer) ==
  \/ answer # "refused" /\ objects' = objects \cup {key}
  \/ answer # "ok" /\ objects' = objects

(* Mutant: the upload is cached before it is known to have succeeded. *)
UploadCachedEarly ==
  /\ pc = "upload"
  /\ \E answer \in Kinds :
       /\ Record("upload", answer)
       /\ PutObject(answer)
       /\ cached' = key
       /\ IF answer = "ok"
          THEN pc' = "post" /\ UNCHANGED <<attempt, result>>
          ELSE RetryOrFail(TRUE)
  /\ key' = 0
  /\ UNCHANGED <<useOverflow, slept, issued, stored, late>>

(* upload_overflow_payload: again any error is retried, from a new URL. *)
Upload ==
  /\ pc = "upload"
  /\ \E answer \in Kinds :
       /\ Record("upload", answer)
       /\ PutObject(answer)
       /\ IF answer = "ok"
          THEN cached' = key /\ pc' = "post" /\ UNCHANGED <<attempt, result>>
          ELSE cached' = cached /\ RetryOrFail(TRUE)
  /\ key' = 0
  /\ UNCHANGED <<useOverflow, slept, issued, stored, late>>

(* What a post does at the server: it takes the rows, which it must find   *)
(* when they were uploaded; it takes nothing; or the request, timed out,   *)
(* is still to arrive.                                                     *)
TakeRows(answer) ==
  LET found == useOverflow => cached \in objects IN
  \/ answer # "refused" /\ found /\ stored' = TRUE /\ late' = late
  \/ answer # "ok" /\ stored' = stored /\ late' = late
  \/ answer = "broken" /\ found /\ stored' = stored /\ late' = TRUE

(* Mutant: a request that broke off is taken for sent. *)
PostAssumingSent ==
  /\ pc = "post"
  /\ \E answer \in Kinds :
       /\ Record("post", answer)
       /\ TakeRows(answer)
       /\ IF answer \in {"ok", "broken"}
          THEN Return("ok") /\ attempt' = attempt
          ELSE RetryOrFail(answer = "busy")
  /\ UNCHANGED <<useOverflow, slept, key, cached, issued, objects>>

(* POST logs3 with the rows, or with the reference to the upload: 429,     *)
(* 5xx and broken calls are retried, other statuses are final.             *)
Post ==
  /\ pc = "post"
  /\ \E answer \in Kinds :
       /\ Record("post", answer)
       /\ TakeRows(answer)
       /\ IF answer = "ok"
          THEN Return("ok") /\ attempt' = attempt
          ELSE RetryOrFail(answer # "refused")
  /\ UNCHANGED <<useOverflow, slept, key, cached, issued, objects>>

(* The timed-out post reaches the server. *)
Arrive ==
  /\ late
  /\ late' = FALSE
  /\ stored' = TRUE
  /\ UNCHANGED <<local, issued, objects>>

Send == Start \/ Backoff \/ Attempt \/ RequestUrl \/ Upload \/ Post

Next == Send \/ Arrive

Spec == Init /\ [][Next]_vars

-----------------------------------------------------------------------------
(* The type invariant. *)
TypeOK ==
  /\ useOverflow \in BOOLEAN
  /\ pc \in {"start", "backoff", "attempt", "url", "upload", "post", "done"}
  /\ attempt \in 0..NumRetries
  /\ slept \in 0..NumRetries
  /\ issued \in Nat /\ key \in 0..issued /\ cached \in 0..issued
  /\ objects \in SUBSET (1..issued)
  /\ stored \in BOOLEAN /\ late \in BOOLEAN
  /\ answers \in Seq(Calls)
  /\ result \in {"none", "ok", "err"}

Outcome == INSTANCE Delivery

(* Ok is returned only for a batch the server has: a reference is never    *)
(* acknowledged without its payload.                                       *)
ImplementsDelivery == Outcome!DeliverySpec

(* A reference is posted only after its payload is in the object store. *)
ReferenceUploaded == pc = "post" /\ useOverflow => cached \in objects

(* "the signed URL is requested once and reused across retries": once an   *)
(* upload has succeeded, every later call is a post.                       *)
UploadedOnce ==
  \A i, j \in 1..Len(answers) :
    i < j /\ answers[i] = [call |-> "upload", answer |-> "ok"]
      => answers[j].call = "post"

(* "Total attempts = num_retries + 1": the sender gives up on an error     *)
(* that may pass only after all attempts, each after its back-off.         *)
PersistsOnTransient ==
  /\ slept <= attempt
  /\ result = "err" /\ answers # <<>> /\ answers[Len(answers)].answer # "refused"
       => attempt = NumRetries /\ slept = NumRetries
=============================================================================
