-------------------------- MODULE SendBatch_proof --------------------------
(***************************************************************************)
(* Proofs about SendBatch, for every number of retries, with and without   *)
(* the overflow path.                                                      *)
(***************************************************************************)
EXTENDS SendBatch, SequenceTheorems, TLAPS

(* The function has returned exactly when it is done. *)
Unfinished == pc # "done" <=> result = "none"

(* A key in hand or cached is a real one, and a cached key is uploaded. *)
KeysInHand ==
  /\ pc = "upload" => key \in 1..issued
  /\ cached # 0 => cached \in objects
  /\ pc = "post" /\ useOverflow => cached # 0

(* One sleep before each retry. *)
SleepsCount ==
  /\ pc = "backoff" => slept + 1 = attempt
  /\ pc # "backoff" => slept = attempt

(* No upload has succeeded before one is cached, none is tried after. *)
Uploaded == [call |-> "upload", answer |-> "ok"]
NoUploadYet ==
  /\ pc \in {"url", "upload"} => cached = 0
  /\ cached = 0 => \A i \in 1..Len(answers) : answers[i] # Uploaded

(* An Err after a call is a refusal or came with the last attempt. *)
LastWord ==
  /\ pc = "start" => answers = <<>>
  /\ result = "err" /\ answers # <<>> /\ answers[Len(answers)].answer # "refused"
       => attempt = NumRetries

IInv == /\ TypeOK /\ Unfinished /\ KeysInHand /\ SleepsCount
        /\ NoUploadYet /\ UploadedOnce /\ LastWord

(* Whatever the probe says, the sender either goes around the limit or not. *)
LEMMA OverflowDecided ==
  ASSUME NEW answer, NEW stated, NEW size
  PROVE  UseOverflow(VersionInfo(answer, stated), size) \in BOOLEAN
BY DEF UseOverflow, VersionInfo

LEMMA InitIInv == Init => IInv
<1> SUFFICES ASSUME Init PROVE IInv
  OBVIOUS
<1> USE DEF Init
<1>1. stored \in BOOLEAN /\ late \in BOOLEAN
  OBVIOUS
<1>2. answers \in Seq(Calls) /\ Len(answers) = 0
  BY EmptySeq
<1>a. useOverflow \in BOOLEAN
  BY OverflowDecided
<1>3. TypeOK
  BY SendBatchAssumption, <1>1, <1>2, <1>a DEF SendBatchAssumption, TypeOK
<1>4. Unfinished /\ KeysInHand /\ SleepsCount
  BY DEF Unfinished, KeysInHand, SleepsCount
<1>5. NoUploadYet /\ UploadedOnce /\ LastWord
  BY <1>2 DEF NoUploadYet, UploadedOnce, LastWord
<1>6. QED
  BY <1>3, <1>4, <1>5 DEF IInv

(* What Record does to the sequence of answers. *)
LEMMA Recorded ==
  ASSUME answers \in Seq(Calls), NEW call \in {"url", "upload", "post"},
         NEW answer \in Kinds, Record(call, answer)
  PROVE  /\ answers' \in Seq(Calls)
         /\ Len(answers') = Len(answers) + 1
         /\ answers' # <<>>
         /\ \A i \in 1..Len(answers) : answers'[i] = answers[i]
         /\ answers'[Len(answers')] = [call |-> call, answer |-> answer]
<1>1. [call |-> call, answer |-> answer] \in Calls
  BY DEF Calls
<1>2. QED
  BY <1>1, AppendProperties DEF Record

LEMMA TypeStep == IInv /\ [Next]_vars => TypeOK'
<1> SUFFICES ASSUME IInv, [Next]_vars PROVE TypeOK'
  OBVIOUS
<1> USE SendBatchAssumption DEF SendBatchAssumption, IInv, TypeOK
<1>1. CASE Start
  BY <1>1 DEF Start, Return, server
<1>2. CASE Backoff
  BY <1>2 DEF Backoff, server, SleepsCount
<1>3. CASE Attempt
  BY <1>3 DEF Attempt, server
<1>4. CASE RequestUrl
  <2>1. PICK answer \in Kinds : RequestUrl!2!(answer)
    BY <1>4 DEF RequestUrl
  <2>2. answers' \in Seq(Calls)
    BY <2>1, Recorded
  <2>3. attempt' \in 0..NumRetries /\ UNCHANGED <<slept, cached, objects, stored, late>>
    BY <1>4, <2>1 DEF RequestUrl, RetryOrFail, Return
  <2>4. /\ pc' \in {"upload", "backoff", "done"} /\ result' \in {"none", "ok", "err"}
        /\ issued' \in {issued, issued + 1} /\ key' \in {key, issued'}
    BY <1>4, <2>1 DEF RequestUrl, RetryOrFail, Return
  <2>5. useOverflow' \in BOOLEAN
    BY <1>4 DEF RequestUrl
  <2>6. QED
    BY <2>2, <2>3, <2>4, <2>5
<1>5. CASE Upload
  <2>1. PICK answer \in Kinds : Upload!2!(answer)
    BY <1>5 DEF Upload
  <2>2. answers' \in Seq(Calls)
    BY <2>1, Recorded
  <2>3. attempt' \in 0..NumRetries /\ UNCHANGED <<slept, issued, stored, late>> /\ key' = 0
    BY <1>5, <2>1 DEF Upload, RetryOrFail, Return
  <2>4. /\ pc' \in {"post", "backoff", "done"} /\ result' \in {"none", "ok", "err"}
        /\ cached' \in {cached, key}
    BY <1>5, <2>1 DEF Upload, RetryOrFail, Return
  <2>5. objects' \in SUBSET (1..issued)
    BY <1>5, <2>1 DEF Upload, PutObject, KeysInHand
  <2>6. useOverflow' \in BOOLEAN
    BY <1>5 DEF Upload
  <2>7. QED
    BY <2>2, <2>3, <2>4, <2>5, <2>6
<1>6. CASE Post
  <2>1. PICK answer \in Kinds : Post!2!(answer)
    BY <1>6 DEF Post
  <2>2. answers' \in Seq(Calls)
    BY <2>1, Recorded
  <2>3. /\ attempt' \in 0..NumRetries /\ UNCHANGED <<slept, key, cached, issued, objects>>
        /\ pc' \in {"backoff", "done"} /\ result' \in {"none", "ok", "err"}
    BY <1>6, <2>1 DEF Post, RetryOrFail, Return
  <2>4. stored' \in BOOLEAN /\ late' \in BOOLEAN
    BY <1>6, <2>1 DEF Post, TakeRows
  <2>5. useOverflow' \in BOOLEAN
    BY <1>6 DEF Post
  <2>6. QED
    BY <2>2, <2>3, <2>4, <2>5
<1>7. CASE Arrive
  BY <1>7 DEF Arrive, local
<1>8. CASE UNCHANGED vars
  BY <1>8 DEF vars, local, server
<1>9. QED
  BY <1>1, <1>2, <1>3, <1>4, <1>5, <1>6, <1>7, <1>8 DEF Next, Send

LEMMA ControlStep ==
  IInv /\ [Next]_vars => Unfinished' /\ KeysInHand' /\ SleepsCount'
<1> SUFFICES ASSUME IInv, [Next]_vars PROVE Unfinished' /\ KeysInHand' /\ SleepsCount'
  OBVIOUS
<1> USE SendBatchAssumption
    DEF SendBatchAssumption, IInv, TypeOK, Unfinished, KeysInHand, SleepsCount
<1>1. CASE Start
  BY <1>1 DEF Start, Return, server
<1>2. CASE Backoff
  BY <1>2 DEF Backoff, server
<1>3. CASE Attempt
  BY <1>3 DEF Attempt, server
<1>4. CASE RequestUrl
  BY <1>4 DEF RequestUrl, RetryOrFail, Return
<1>5. CASE Upload
  BY <1>5 DEF Upload, PutObject, RetryOrFail, Return
<1>6. CASE Post
  BY <1>6 DEF Post, TakeRows, RetryOrFail, Return
<1>7. CASE Arrive
  BY <1>7 DEF Arrive, local
<1>8. CASE UNCHANGED vars
  BY <1>8 DEF vars, local, server
<1>9. QED
  BY <1>1, <1>2, <1>3, <1>4, <1>5, <1>6, <1>7, <1>8 DEF Next, Send

(* A call that is no successful upload leaves the history without one. *)
LEMMA NoneRecorded ==
  ASSUME answers \in Seq(Calls), NEW call \in {"url", "upload", "post"},
         NEW answer \in Kinds, Record(call, answer),
         [call |-> call, answer |-> answer] # Uploaded,
         \A i \in 1..Len(answers) : answers[i] # Uploaded
  PROVE  \A i \in 1..Len(answers') : answers'[i] # Uploaded
<1>1. /\ Len(answers') = Len(answers) + 1 /\ Len(answers) \in Nat
      /\ \A i \in 1..Len(answers) : answers'[i] = answers[i]
      /\ answers'[Len(answers')] = [call |-> call, answer |-> answer]
  BY Recorded, LenProperties
<1>2. SUFFICES ASSUME NEW i \in 1..Len(answers') PROVE answers'[i] # Uploaded
  OBVIOUS
<1>3. CASE i \in 1..Len(answers)
  BY <1>1, <1>3
<1>4. CASE i = Len(answers')
  BY <1>1, <1>4
<1>5. QED
  BY <1>1, <1>3, <1>4

LEMMA HistoryStep ==
  IInv /\ [Next]_vars => NoUploadYet' /\ UploadedOnce' /\ LastWord'
<1> SUFFICES ASSUME IInv, [Next]_vars PROVE NoUploadYet' /\ UploadedOnce' /\ LastWord'
  OBVIOUS
<1> USE SendBatchAssumption DEF SendBatchAssumption, IInv, TypeOK
<1>1. ASSUME NEW call \in {"url", "upload", "post"}, NEW answer \in Kinds,
             Record(call, answer),
             call # "post" => cached = 0
      PROVE  UploadedOnce'
  <2>1. SUFFICES ASSUME NEW i \in 1..Len(answers'), NEW j \in 1..Len(answers'),
                        i < j, answers'[i] = Uploaded
                 PROVE  answers'[j].call = "post"
    BY DEF UploadedOnce, Uploaded
  <2>2. /\ Len(answers') = Len(answers) + 1 /\ Len(answers) \in Nat
        /\ \A k \in 1..Len(answers) : answers'[k] = answers[k]
        /\ answers'[Len(answers')] = [call |-> call, answer |-> answer]
    BY <1>1, Recorded, LenProperties
  <2>3. i \in 1..Len(answers) /\ answers[i] = Uploaded
    BY <2>1, <2>2
  <2>4. CASE j \in 1..Len(answers)
    BY <2>1, <2>2, <2>3, <2>4 DEF UploadedOnce, Uploaded
  <2>5. CASE j = Len(answers')
    BY <1>1, <2>2, <2>3, <2>5 DEF NoUploadYet
  <2>6. QED
    BY <2>2, <2>4, <2>5
<1>2. ASSUME UNCHANGED <<answers, cached>>, pc' \in {"url", "upload"} => cached = 0,
             result' = "err" => result = "err" \/ answers = <<>>, attempt' = attempt,
             pc' = "start" => pc = "start"
      PROVE  NoUploadYet' /\ UploadedOnce' /\ LastWord'
  BY <1>2 DEF NoUploadYet, UploadedOnce, LastWord
<1>3. CASE Start
  <2>1. answers = <<>>
    BY <1>3 DEF Start, LastWord
  <2>2. QED
    BY <1>2, <1>3, <2>1 DEF Start, Return, server
<1>4. CASE Backoff \/ Attempt
  BY <1>2, <1>4 DEF Backoff, Attempt, server
<1>5. CASE RequestUrl
  <2>1. PICK answer \in Kinds : RequestUrl!2!(answer)
    BY <1>5 DEF RequestUrl
  <2>2. cached = 0 /\ cached' = 0 /\ pc' # "post"
    BY <1>5, <2>1 DEF RequestUrl, RetryOrFail, Return, NoUploadYet
  <2>3. UploadedOnce'
    BY <1>1, <2>1, <2>2
  <2>4. [call |-> "url", answer |-> answer] # Uploaded
    BY DEF Uploaded
  <2>5. \A i \in 1..Len(answers') : answers'[i] # Uploaded
    BY <2>1, <2>2, <2>4, NoneRecorded DEF NoUploadYet
  <2>6. LastWord'
    <3>1. pc' # "start" /\ (result' = "err" => attempt' = NumRetries)
      BY <1>5, <2>1 DEF RequestUrl, RetryOrFail, Return, Unfinished
    <3>2. QED
      BY <3>1 DEF LastWord
  <2>7. QED
    BY <2>2, <2>3, <2>5, <2>6 DEF NoUploadYet
<1>6. CASE Upload
  <2>1. PICK answer \in Kinds : Upload!2!(answer)
    BY <1>6 DEF Upload
  <2>2. cached = 0 /\ key # 0 /\ pc' \in {"post", "backoff", "done"}
    BY <1>6, <2>1 DEF Upload, RetryOrFail, Return, NoUploadYet, KeysInHand
  <2>3. UploadedOnce'
    BY <1>1, <2>1, <2>2
  <2>4. cached' = 0 => [call |-> "upload", answer |-> answer] # Uploaded
    BY <1>6, <2>1, <2>2 DEF Upload, Uploaded
  <2>5. cached' = 0 => \A i \in 1..Len(answers') : answers'[i] # Uploaded
    BY <2>1, <2>2, <2>4, NoneRecorded DEF NoUploadYet
  <2>6. LastWord'
    <3>1. pc' # "start" /\ (result' = "err" => attempt' = NumRetries)
      BY <1>6, <2>1 DEF Upload, RetryOrFail, Return, Unfinished
    <3>2. QED
      BY <3>1 DEF LastWord
  <2>7. QED
    BY <2>2, <2>3, <2>5, <2>6 DEF NoUploadYet
<1>7. CASE Post
  <2>1. PICK answer \in Kinds : Post!2!(answer)
    BY <1>7 DEF Post
  <2>2. cached' = cached /\ pc' \in {"backoff", "done"}
    BY <1>7, <2>1 DEF Post, RetryOrFail, Return
  <2>3. UploadedOnce'
    BY <1>1, <2>1
  <2>4. [call |-> "post", answer |-> answer] # Uploaded
    BY DEF Uploaded
  <2>5. cached = 0 => \A i \in 1..Len(answers') : answers'[i] # Uploaded
    <3>1. Record("post", answer)
      BY <2>1
    <3>2. QED
      BY <3>1, <2>4, NoneRecorded DEF NoUploadYet
  <2>6. answers'[Len(answers')].answer = answer
    <3>1. answers'[Len(answers')] = [call |-> "post", answer |-> answer]
      BY <2>1, Recorded
    <3>2. QED
      BY <3>1
  <2>7. LastWord'
    <3>1. pc' # "start" /\ (result' = "err" /\ answer # "refused" => attempt' = NumRetries)
      BY <1>7, <2>1 DEF Post, RetryOrFail, Return, Unfinished
    <3>2. QED
      BY <2>6, <3>1 DEF LastWord
  <2>8. QED
    BY <2>2, <2>3, <2>5, <2>7 DEF NoUploadYet
<1>8. CASE Arrive \/ UNCHANGED vars
  BY <1>2, <1>8 DEF Arrive, vars, local, server, NoUploadYet
<1>9. QED
  BY <1>3, <1>4, <1>5, <1>6, <1>7, <1>8 DEF Next, Send

LEMMA SpecIInv == Spec => []IInv
<1>1. IInv /\ [Next]_vars => IInv'
  BY TypeStep, ControlStep, HistoryStep DEF IInv
<1>2. QED
  BY InitIInv, <1>1, PTL DEF Spec

(* The sender makes num_retries + 1 attempts at most. *)
THEOREM TypeCorrect == Spec => []TypeOK
BY SpecIInv, PTL DEF IInv

(* A reference never names a payload that was not uploaded. *)
THEOREM ReferencesUploaded == Spec => []ReferenceUploaded
<1>1. IInv => ReferenceUploaded
  BY DEF IInv, KeysInHand, ReferenceUploaded
<1>2. QED
  BY <1>1, SpecIInv, PTL

(* The payload is uploaded once. *)
THEOREM UploadsOnce == Spec => []UploadedOnce
BY SpecIInv, PTL DEF IInv

(* The sender gives up on a passing error only after its last attempt. *)
THEOREM Persists == Spec => []PersistsOnTransient
<1>1. IInv => PersistsOnTransient
  BY SendBatchAssumption
     DEF SendBatchAssumption, IInv, TypeOK, Unfinished, SleepsCount, LastWord,
         PersistsOnTransient
<1>2. QED
  BY <1>1, SpecIInv, PTL

(* The sender implements the delivery its callers rely on. *)
THEOREM DeliveryImplemented == Spec => ImplementsDelivery
<1>1. Init => Outcome!DeliveryInit
  BY DEF Init, Outcome!DeliveryInit
<1>2. IInv /\ [Next]_vars => [Outcome!DeliveryNext]_<<stored, result>>
  <2> SUFFICES ASSUME IInv, [Next]_vars PROVE [Outcome!DeliveryNext]_<<stored, result>>
    OBVIOUS
  <2> USE DEF Outcome!DeliveryNext, Outcome!Store, Outcome!Acknowledge, Outcome!GiveUp,
              IInv, Unfinished
  <2>1. CASE Start
    BY <2>1 DEF Start, Return, server
  <2>2. CASE Backoff \/ Attempt
    BY <2>2 DEF Backoff, Attempt, server
  <2>3. CASE RequestUrl \/ Upload
    BY <2>3 DEF RequestUrl, Upload, RetryOrFail, Return
  <2>4. CASE Post
    BY <2>4 DEF Post, TakeRows, RetryOrFail, Return, TypeOK
  <2>5. CASE Arrive
    BY <2>5 DEF Arrive, local
  <2>6. CASE UNCHANGED vars
    BY <2>6 DEF vars, local, server
  <2>7. QED
    BY <2>1, <2>2, <2>3, <2>4, <2>5, <2>6 DEF Next, Send
<1>3. QED
  BY <1>1, <1>2, SpecIInv, PTL DEF Spec, ImplementsDelivery, Outcome!DeliverySpec
=============================================================================
