-------------------------- MODULE LoginStream_proof --------------------------
(***************************************************************************)
(* Proofs about two parts of the client that stand on their own.           *)
(*                                                                         *)
(* Login keeps its types and loses no wake-up, for any number of waiters   *)
(* and attempts.                                                           *)
(*                                                                         *)
(* The end of a wrapped stream means one whole output, one end of the span *)
(* and one flush, in this order, for any items, any number of them and any *)
(* interval of the partial outputs.                                        *)
(***************************************************************************)
EXTENDS Login, Stream, FiniteSetTheorems, SequenceTheorems, WellFoundedInduction,
        NaturalsInduction, TLAPS

-----------------------------------------------------------------------------
(* Login.                                                                  *)


(* The initial state has the types. *)
LEMMA TypeInit == Init => TypeOK
BY LoginAssumption DEF LoginAssumption, Init, TypeOK

(* The login task keeps the types: an attempt is begun only below          *)
(* MaxAttempts.                                                            *)
LEMMA TypeTask == TypeOK /\ LoginTask => TypeOK'
<1> SUFFICES ASSUME TypeOK, LoginTask PROVE TypeOK'
  OBVIOUS
<1>1. CASE Request
  BY <1>1, LoginAssumption DEF LoginAssumption, TypeOK, Request, AttemptFails
<1>2. CASE Set
  BY <1>2, LoginAssumption DEF LoginAssumption, TypeOK, Set, AttemptFails, IsLoggedIn
<1>3. CASE NotifyWaiters
  BY <1>3 DEF TypeOK, NotifyWaiters
<1>4. CASE Sleep
  BY <1>4 DEF TypeOK, Sleep
<1> QED
  BY <1>1, <1>2, <1>3, <1>4 DEF LoginTask

(* A waiter that moves, moves to a place there is. *)
LEMMA TypeMove ==
  ASSUME NEW w \in Waiters, NEW to \in {"start", "register", "check", "wait", "ok", "err"},
         TypeOK, Move(w, to)
  PROVE  TypeOK'
BY DEF TypeOK, Move

(* The operations keep the types. *)
LEMMA TypeWait ==
  ASSUME NEW w \in Waiters, TypeOK, Wait(w)
  PROVE  TypeOK'
<1>1. CASE Begin(w)
  BY <1>1, TypeMove DEF Begin
<1>2. CASE Register(w)
  BY <1>2, TypeMove DEF Register
<1>3. CASE CheckAgain(w)
  BY <1>3, TypeMove DEF CheckAgain
<1>4. CASE Woken(w)
  BY <1>4, TypeMove DEF Woken
<1>5. CASE TimeOut(w)
  BY <1>5, TypeMove DEF TimeOut
<1> QED
  BY <1>1, <1>2, <1>3, <1>4, <1>5 DEF Wait

(* The variables of the login keep their types: the background task never  *)
(* begins more than MAX_ATTEMPTS attempts.                                 *)
THEOREM TypeCorrect == Spec => []TypeOK
<1>1. Init => TypeOK
  BY TypeInit
<1>2. TypeOK /\ [Next]_vars => TypeOK'
  <2> SUFFICES ASSUME TypeOK, [Next]_vars PROVE TypeOK'
    OBVIOUS
  <2>1. CASE LoginTask
    BY <2>1, TypeTask
  <2>2. CASE ExperimentBuilderWithCredentials
    BY <2>2 DEF TypeOK, ExperimentBuilderWithCredentials
  <2>3. CASE \E w \in Waiters : Wait(w)
    BY <2>3, TypeWait
  <2>4. CASE UNCHANGED vars
    BY <2>4 DEF TypeOK, vars
  <2> QED
    BY <2>1, <2>2, <2>3, <2>4 DEF Next
<1> QED
  BY <1>1, <1>2, PTL DEF Spec

(* The login's own steps lose no wake-up: Set opens the debt, and only     *)
(* NotifyWaiters, which pays it, leaves "notify".                          *)
LEMMA WakeupTask == TypeOK /\ NoLostWakeup /\ LoginTask => NoLostWakeup'
<1> SUFFICES ASSUME TypeOK, NoLostWakeup, LoginTask,
                    NEW w \in Waiters, waiting'[w] = "wait", state' = "login"
             PROVE  w \in notified' \/ task' = "notify"
  BY DEF NoLostWakeup
<1>1. CASE Request
  BY <1>1 DEF NoLostWakeup, Request
<1>2. CASE Set
  BY <1>2 DEF NoLostWakeup, Set, IsLoggedIn
<1>3. CASE NotifyWaiters
  BY <1>3 DEF NoLostWakeup, NotifyWaiters
<1>4. CASE Sleep
  BY <1>4 DEF NoLostWakeup, Sleep
<1> QED
  BY <1>1, <1>2, <1>3, <1>4 DEF LoginTask

(* A waiter falls asleep only where its second look found no login. *)
LEMMA WakeupWait ==
  ASSUME NEW v \in Waiters, TypeOK, NoLostWakeup, Wait(v)
  PROVE  NoLostWakeup'
<1>1. /\ state' = state /\ task' = task /\ notified' = notified
      /\ \A w \in Waiters : waiting'[w] = "wait" => waiting[w] = "wait" \/ state = None
  BY DEF Wait, Begin, Register, CheckAgain, Woken, TimeOut, Move, IsLoggedIn, TypeOK
<1> QED
  BY <1>1, LoginAssumption DEF LoginAssumption, NoLostWakeup

(* Nobody sleeps through the login, however the waiters' two looks at the  *)
(* state fall between the login's set and its notification.                *)
THEOREM NoWakeupLost == Spec => []NoLostWakeup
<1>1. Init => NoLostWakeup
  BY DEF Init, NoLostWakeup
<1>2. TypeOK /\ NoLostWakeup /\ [Next]_vars => NoLostWakeup'
  <2> SUFFICES ASSUME TypeOK, NoLostWakeup, [Next]_vars PROVE NoLostWakeup'
    OBVIOUS
  <2>1. CASE LoginTask
    BY <2>1, WakeupTask
  <2>2. CASE ExperimentBuilderWithCredentials
    BY <2>2 DEF NoLostWakeup, ExperimentBuilderWithCredentials
  <2>3. CASE \E w \in Waiters : Wait(w)
    BY <2>3, WakeupWait
  <2>4. CASE UNCHANGED vars
    BY <2>4 DEF NoLostWakeup, vars
  <2> QED
    BY <2>1, <2>2, <2>3, <2>4 DEF Next
<1> QED
  BY <1>1, <1>2, TypeCorrect, PTL DEF Spec

-----------------------------------------------------------------------------
(* Streams: the chunks that are in a set.                                  *)

(* A set of numbers with 0 and every successor is all of them. *)
LEMMA SetInduction ==
  ASSUME NEW T \in SUBSET Nat, 0 \in T, \A n \in T : n + 1 \in T
  PROVE  T = Nat
<1>1. SUFFICES ASSUME Nat \ T # {} PROVE FALSE
  OBVIOUS
<1>2. IsWellFoundedOn(OpToRel(<, Nat), Nat)
  BY NatLessThanWellFounded
<1>3. PICK x \in Nat \ T : \A y \in Nat \ T : <<y, x>> \notin OpToRel(<, Nat)
  BY <1>1, <1>2, WFMin
<1>4. x # 0 /\ x - 1 \in Nat /\ x - 1 < x /\ (x - 1) + 1 = x
  OBVIOUS
<1>5. <<x - 1, x>> \in OpToRel(<, Nat)
  BY <1>4 DEF OpToRel
<1>6. x - 1 \in T
  BY <1>3, <1>4, <1>5
<1> QED  BY <1>3, <1>4, <1>6

(* Those is the last of the selections that its recursion defines. *)
Selecting(chunks, S, m, f) ==
  f = [n \in 0..m |->
         IF n = 0 THEN <<>>
         ELSE IF chunks[n] \in S THEN Append(f[n - 1], chunks[n]) ELSE f[n - 1]]

LEMMA ThoseIsSelecting ==
  ASSUME NEW chunks, NEW S, Len(chunks) \in Nat
  PROVE  \E f : Selecting(chunks, S, Len(chunks), f) /\ Those(chunks, S) = f[Len(chunks)]
<1> DEFINE With(r, n) == IF chunks[n] \in S THEN Append(r, chunks[n]) ELSE r
           T == {m \in Nat : \E f : Selecting(chunks, S, m, f)}
<1>1. 0 \in T
  <2>1. Selecting(chunks, S, 0, [n \in 0..0 |-> <<>>])
    BY DEF Selecting
  <2> QED  BY <2>1
<1>2. ASSUME NEW m \in T PROVE m + 1 \in T
  <2>1. PICK f : Selecting(chunks, S, m, f)
    BY <1>2
  <2>2. m \in Nat
    BY <1>2
  <2> DEFINE g == [n \in 0..(m + 1) |-> IF n = m + 1 THEN With(f[m], m + 1) ELSE f[n]]
  <2>3. ASSUME NEW n \in 0..(m + 1)
        PROVE  g[n] = IF n = 0 THEN <<>> ELSE With(g[n - 1], n)
    <3>1. CASE n = m + 1
      BY <3>1, <2>2
    <3>2. CASE n # m + 1
      <4>1. n \in 0..m
        BY <3>2, <2>2
      <4>2. f[n] = IF n = 0 THEN <<>> ELSE With(f[n - 1], n)
        BY <2>1, <4>1 DEF Selecting
      <4>3. g[n] = f[n] /\ (n # 0 => g[n - 1] = f[n - 1])
        BY <4>1, <2>2, <3>2
      <4> HIDE DEF g
      <4> QED  BY <4>2, <4>3
    <3> QED  BY <3>1, <3>2
  <2>4. Selecting(chunks, S, m + 1, g)
    BY <2>3 DEF Selecting
  <2>5. \E h : Selecting(chunks, S, m + 1, h)
    <3> HIDE DEF g
    <3> QED  BY <2>4
  <2> QED  BY <2>5, <2>2
<1>3. T = Nat
  <2>1. T \in SUBSET Nat
    OBVIOUS
  <2> HIDE DEF T
  <2> QED  BY <2>1, <1>1, <1>2, SetInduction
<1>4. PICK f : Selecting(chunks, S, Len(chunks), f)
  BY <1>3
<1> QED  BY <1>4 DEF Those, Selecting

(* Of no chunks there are none. *)
LEMMA ThoseOfNone == \A S : Those(<<>>, S) = <<>>
<1> SUFFICES ASSUME NEW S PROVE Those(<<>>, S) = <<>>
  OBVIOUS
<1>1. Len(<<>>) = 0 /\ Len(<<>>) \in Nat
  OBVIOUS
<1>2. PICK f : Selecting(<<>>, S, 0, f) /\ Those(<<>>, S) = f[0]
  BY <1>1, ThoseIsSelecting
<1> QED  BY <1>2 DEF Selecting

(* A chunk more is one more of those in S, or none. *)
LEMMA ThoseOfAppend ==
  ASSUME NEW X, NEW chunks \in Seq(X), NEW c \in X, NEW S
  PROVE  Those(Append(chunks, c), S) =
           IF c \in S THEN Append(Those(chunks, S), c) ELSE Those(chunks, S)
<1>1. PICK k \in Nat : k = Len(chunks)
  BY LenProperties
<1>2. PICK more : more = Append(chunks, c)
  OBVIOUS
<1>3. /\ Len(more) = k + 1
      /\ more[k + 1] = c
      /\ \A i \in 1..k : more[i] = chunks[i]
  BY <1>1, <1>2, AppendProperties
<1>4. PICK f : Selecting(chunks, S, k, f) /\ Those(chunks, S) = f[k]
  BY <1>1, ThoseIsSelecting
<1>5. PICK g : Selecting(more, S, k + 1, g) /\ Those(more, S) = g[k + 1]
  BY <1>3, ThoseIsSelecting
<1> DEFINE T == {n \in Nat : n <= k => f[n] = g[n]}
<1>6. 0 \in T
  <2>1. f[0] = <<>>
    BY <1>4 DEF Selecting
  <2>2. g[0] = <<>>
    BY <1>5 DEF Selecting
  <2> QED  BY <2>1, <2>2
<1>7. ASSUME NEW n \in T PROVE n + 1 \in T
  <2>1. n \in Nat
    BY <1>7
  <2>2. SUFFICES ASSUME n + 1 <= k PROVE f[n + 1] = g[n + 1]
    BY <2>1
  <2>3. f[n] = g[n]
    BY <1>7, <2>1, <2>2
  <2>4. n + 1 \in 0..k /\ n + 1 \in 0..(k + 1) /\ n + 1 \in 1..k /\ n + 1 # 0 /\ (n + 1) - 1 = n
    BY <2>1, <2>2
  <2>5. f[n + 1] = IF chunks[n + 1] \in S THEN Append(f[n], chunks[n + 1]) ELSE f[n]
    BY <1>4, <2>4 DEF Selecting
  <2>6. g[n + 1] = IF more[n + 1] \in S THEN Append(g[n], more[n + 1]) ELSE g[n]
    BY <1>5, <2>4 DEF Selecting
  <2>7. more[n + 1] = chunks[n + 1]
    BY <2>4, <1>3
  <2> QED  BY ONLY <2>3, <2>5, <2>6, <2>7
<1>8. T = Nat
  <2>1. T \in SUBSET Nat
    OBVIOUS
  <2> HIDE DEF T
  <2> QED  BY <2>1, <1>6, <1>7, SetInduction
<1>9. f[k] = g[k]
  BY <1>8
<1>10. g[k + 1] = IF more[k + 1] \in S THEN Append(g[k], more[k + 1]) ELSE g[k]
  <2>1. k + 1 \in 0..(k + 1) /\ k + 1 # 0 /\ (k + 1) - 1 = k
    OBVIOUS
  <2> QED  BY <1>5, <2>1 DEF Selecting
<1> QED  BY ONLY <1>2, <1>3, <1>4, <1>5, <1>9, <1>10

(* The aggregate depends on nothing but the chunks of a kind. *)
LEMMA SameParts ==
  ASSUME NEW a, NEW b, \A S \in SUBSET ChunkItems : Those(a, S) = Those(b, S)
  PROVE  /\ Texts(a) = Texts(b)
         /\ Indexes(a) = Indexes(b)
         /\ \A i : Fragments(a, i) = Fragments(b, i)
<1>1. OfKind(a, "text") = OfKind(b, "text") /\ OfKind(a, "tool") = OfKind(b, "tool")
  <2>1. \A kind \in {"text", "tool"} : {c \in Items : c.kind = kind} \in SUBSET ChunkItems
    BY DEF ChunkItems
  <2> QED  BY <2>1 DEF OfKind
<1>2. ASSUME NEW i PROVE Fragments(a, i) = Fragments(b, i)
  <2>1. {c \in Items : c.kind = "tool" /\ c.index = i} \in SUBSET ChunkItems
    BY DEF ChunkItems
  <2>2. Those(a, {c \in Items : c.kind = "tool" /\ c.index = i}) =
        Those(b, {c \in Items : c.kind = "tool" /\ c.index = i})
    BY <2>1
  <2> QED  BY <2>2 DEF Fragments
<1> QED  BY <1>1, <1>2 DEF Texts, Indexes

-----------------------------------------------------------------------------
(* Streams: the invariant.                                                 *)

SpanCalls ==
  [op : {"ttft", "log", "trigger_flush", "end", "flush"},
   output : {Aggregate(chunks) : chunks \in Seq(Items)}]

StreamTypes ==
  /\ source \in Seq(Items) /\ delivered \in Seq(Items) /\ raw_chunks \in Seq(Items)
  /\ closure \in {"none", "ttft", "push", "count", "partial", "trigger", "return"}
  /\ ttft \in BOOLEAN
  /\ count \in Nat
  /\ calls \in Seq(SpanCalls)
  /\ finalize \in {"idle", "log", "end", "flush", "done"}
  /\ consumer \in {"polling", "ended", "gone"}
  /\ closure # "none" => finalize = "idle"
  /\ consumer = "ended" <=> finalize = "done"

(* The span is ended by the last call but the flush. *)
EndsLast ==
  /\ \A i \in 1..Len(calls) :
       /\ calls[i].op = "end" <=>
            \/ finalize = "flush" /\ i = Len(calls)
            \/ finalize = "done" /\ i = Len(calls) - 1
       /\ calls[i].op = "flush" <=> (finalize = "done" /\ i = Len(calls))
  /\ finalize = "flush" => Len(calls) >= 1
  /\ finalize = "done" => Len(calls) >= 2

(* The items that went through the lock of the aggregator: all but the one *)
(* that is on its way there.                                               *)
Passed == IF closure \in {"ttft", "push"} THEN delivered ELSE source

(* The aggregator has the chunks among them, in their order. *)
ItemsPass ==
  /\ closure = "none" => source = delivered
  /\ closure # "none" => Item \in Items /\ source = Append(delivered, Item)
  /\ closure \in {"ttft", "push"} => Item \in ChunkItems
  /\ raw_chunks = Chunks(Passed)
  /\ \A S \in SUBSET ChunkItems : Those(raw_chunks, S) = Those(Passed, S)

(* Behind the final log the last output is that of all chunks. *)
LastLog(i) ==
  /\ i \in 1..Len(calls) /\ calls[i].op = "log"
  /\ \A j \in 1..Len(calls) : calls[j].op = "log" => j <= i
FinalOutput ==
  finalize \in {"end", "flush", "done"} /\ raw_chunks # <<>> =>
    \E i : LastLog(i) /\ calls[i].output = Aggregate(raw_chunks)

StreamInv == StreamTypes /\ EndsLast /\ ItemsPass /\ FinalOutput

LEMMA InitStream == StreamInit => StreamInv
<1> SUFFICES ASSUME StreamInit PROVE StreamInv
  OBVIOUS
<1>1. <<>> \in Seq(Items) /\ <<>> \in Seq(SpanCalls) /\ Len(<<>>) = 0
  OBVIOUS
<1>2. StreamTypes
  BY <1>1 DEF StreamInit, StreamTypes
<1>3. EndsLast
  BY <1>1 DEF StreamInit, EndsLast
<1>4. ItemsPass
  BY ThoseOfNone DEF StreamInit, ItemsPass, Passed, Chunks
<1>5. FinalOutput
  BY DEF StreamInit, FinalOutput
<1> QED  BY <1>2, <1>3, <1>4, <1>5 DEF StreamInv

(* The last item of a sequence that one was appended to. *)
LEMMA LastAppended ==
  ASSUME NEW X, NEW s \in Seq(X), NEW x \in X
  PROVE  Append(s, x) \in Seq(X) /\ Last(Append(s, x)) = x
BY AppendProperties DEF Last

(* A call is added behind the others. *)
Added(op, output) ==
  /\ calls' \in Seq(SpanCalls)
  /\ Len(calls') = Len(calls) + 1
  /\ calls'[Len(calls')] = [op |-> op, output |-> output]
  /\ \A i \in 1..Len(calls) : calls'[i] = calls[i]

LEMMA CallAdded ==
  ASSUME NEW op \in {"ttft", "log", "trigger_flush", "end", "flush"},
         NEW chunks \in Seq(Items), calls \in Seq(SpanCalls), Span(op, Aggregate(chunks))
  PROVE  Added(op, Aggregate(chunks))
<1>1. [op |-> op, output |-> Aggregate(chunks)] \in SpanCalls
  BY DEF SpanCalls
<1>2. PICK call \in SpanCalls : call = [op |-> op, output |-> Aggregate(chunks)]
  BY <1>1
<1>3. calls' = Append(calls, call)
  BY <1>2 DEF Span
<1> QED  BY ONLY <1>2, <1>3, calls \in Seq(SpanCalls), AppendProperties, LenProperties DEF Added

LEMMA NothingAdded ==
  ASSUME NEW op \in {"ttft", "log", "trigger_flush", "end", "flush"},
         calls \in Seq(SpanCalls), Span(op, Nothing)
  PROVE  Added(op, Nothing)
BY CallAdded, <<>> \in Seq(Items) DEF Nothing

(* What a step does to the calls, the chunks and the end of the stream. *)
Elsewhere ==
  calls' = calls /\ finalize' = finalize /\ (raw_chunks' = raw_chunks \/ finalize = "idle")
Begins == finalize = "idle" /\ finalize' = "log"
Passes ==
  /\ finalize = "idle" /\ finalize' = "idle"
  /\ \E op \in {"ttft", "log", "trigger_flush"} : \E output : Added(op, output)
Logs ==
  /\ finalize = "log" /\ finalize' = "end" /\ raw_chunks' = raw_chunks
  /\ IF raw_chunks # <<>> THEN Added("log", Aggregate(raw_chunks)) ELSE calls' = calls
EndsIt == /\ finalize = "end" /\ finalize' = "flush" /\ raw_chunks' = raw_chunks
          /\ \E output : Added("end", output)
Flushes == /\ finalize = "flush" /\ finalize' = "done" /\ raw_chunks' = raw_chunks
           /\ \E output : Added("flush", output)

LEMMA CallSteps ==
  ASSUME StreamTypes, [StreamNext]_streamVars
  PROVE  \/ Elsewhere
         \/ Begins /\ calls' = calls
         \/ Passes \/ Logs \/ EndsIt \/ Flushes
<1>1. calls \in Seq(SpanCalls) /\ raw_chunks \in Seq(Items) /\ (closure # "none" => finalize = "idle")
  BY DEF StreamTypes
<1>2. CASE Yield
  BY <1>2 DEF Yield, Elsewhere
<1>3. CASE RecordTtft
  <2>1. CASE Span("ttft", Nothing)
    BY <1>1, <1>3, <2>1, NothingAdded DEF RecordTtft, Passes
  <2>2. CASE calls' = calls
    BY <1>3, <2>2 DEF RecordTtft, Elsewhere
  <2> QED  BY <1>3, <2>1, <2>2 DEF RecordTtft
<1>4. CASE Push
  BY <1>1, <1>4 DEF Push, Elsewhere
<1>5. CASE Count
  BY <1>5 DEF Count, Elsewhere
<1>6. CASE LogPartial
  BY <1>1, <1>6, CallAdded DEF LogPartial, Passes
<1>7. CASE TriggerFlush
  BY <1>1, <1>7, NothingAdded DEF TriggerFlush, Passes
<1>8. CASE Deliver
  BY <1>8 DEF Deliver, Elsewhere
<1>9. CASE SourceEnds
  BY <1>9 DEF SourceEnds, Begins
<1>10. CASE LogFinal
  BY <1>1, <1>10, CallAdded DEF LogFinal, Logs
<1>11. CASE EndSpan
  BY <1>1, <1>11, NothingAdded DEF EndSpan, EndsIt
<1>12. CASE Flush
  BY <1>1, <1>12, NothingAdded DEF Flush, Flushes
<1>13. CASE Drop
  BY <1>13 DEF Drop, Elsewhere
<1>14. CASE UNCHANGED streamVars
  BY <1>14 DEF streamVars, Elsewhere
<1> QED
  BY <1>2, <1>3, <1>4, <1>5, <1>6, <1>7, <1>8, <1>9, <1>10, <1>11, <1>12, <1>13, <1>14
  DEF StreamNext, Closure, Finalize

(* The steps keep the types. *)
LEMMA TypesStream == StreamTypes /\ ItemsPass /\ [StreamNext]_streamVars => StreamTypes'
<1> SUFFICES ASSUME StreamTypes, ItemsPass, [StreamNext]_streamVars PROVE StreamTypes'
  OBVIOUS
<1>1. calls' \in Seq(SpanCalls)
  <2>1. calls \in Seq(SpanCalls)
    BY DEF StreamTypes
  <2> QED  BY <2>1, CallSteps DEF Elsewhere, Passes, Logs, EndsIt, Flushes, Added
<1>2. closure # "none" => Item \in Items
  BY DEF ItemsPass
<1>3. CASE Yield
  BY <1>1, <1>3, AppendProperties DEF Yield, StreamTypes
<1>4. CASE RecordTtft
  BY <1>1, <1>4 DEF RecordTtft, StreamTypes
<1>5. CASE Push
  BY <1>1, <1>2, <1>5, AppendProperties DEF Push, StreamTypes
<1>6. CASE Count
  BY <1>1, <1>6 DEF Count, StreamTypes
<1>7. CASE LogPartial
  BY <1>1, <1>7 DEF LogPartial, StreamTypes
<1>8. CASE TriggerFlush
  BY <1>1, <1>8 DEF TriggerFlush, StreamTypes
<1>9. CASE Deliver
  BY <1>1, <1>2, <1>9, AppendProperties DEF Deliver, StreamTypes
<1>10. CASE SourceEnds
  BY <1>1, <1>10 DEF SourceEnds, StreamTypes
<1>11. CASE LogFinal
  BY <1>1, <1>11 DEF LogFinal, StreamTypes
<1>12. CASE EndSpan
  BY <1>1, <1>12 DEF EndSpan, StreamTypes
<1>13. CASE Flush
  BY <1>1, <1>13 DEF Flush, StreamTypes
<1>14. CASE Drop
  BY <1>1, <1>14 DEF Drop, StreamTypes
<1>15. CASE UNCHANGED streamVars
  BY <1>1, <1>15 DEF streamVars, StreamTypes
<1> QED
  BY <1>3, <1>4, <1>5, <1>6, <1>7, <1>8, <1>9, <1>10, <1>11, <1>12, <1>13, <1>14, <1>15
  DEF StreamNext, Closure, Finalize

(* The span is ended once, by EndSpan, and flushed once, behind it. *)
LEMMA EndsStream ==
  ASSUME StreamTypes, EndsLast, [StreamNext]_streamVars
  PROVE  EndsLast'
<1>1. Len(calls) \in Nat
  BY LenProperties DEF StreamTypes
<1>2. CASE Elsewhere
  BY <1>2 DEF Elsewhere, EndsLast
<1>3. CASE Begins /\ calls' = calls
  BY <1>3 DEF Begins, EndsLast
<1>4. CASE Passes
  BY <1>1, <1>4 DEF Passes, Added, EndsLast
<1>5. CASE Logs
  BY <1>1, <1>5 DEF Logs, Added, EndsLast
<1>6. CASE EndsIt
  BY <1>1, <1>6 DEF EndsIt, Added, EndsLast
<1>7. CASE Flushes
  BY <1>1, <1>7 DEF Flushes, Added, EndsLast
<1> QED  BY <1>2, <1>3, <1>4, <1>5, <1>6, <1>7, CallSteps

(* Nothing is logged behind the final output. *)
LEMMA OutputStream ==
  ASSUME StreamTypes, FinalOutput, [StreamNext]_streamVars
  PROVE  FinalOutput'
<1>1. Len(calls) \in Nat
  BY LenProperties DEF StreamTypes
<1>2. CASE Elsewhere
  BY <1>2 DEF Elsewhere, FinalOutput, LastLog
<1>3. CASE Begins \/ Passes
  BY <1>3 DEF Begins, Passes, FinalOutput
<1>4. CASE Logs
  <2> SUFFICES ASSUME raw_chunks # <<>>
               PROVE  \E i : LastLog(i)' /\ calls'[i].output = Aggregate(raw_chunks)'
    BY <1>4 DEF Logs, FinalOutput
  <2>0. PICK n \in Nat : n = Len(calls) + 1
    BY <1>1
  <2>1. LastLog(n)' /\ calls'[n].output = Aggregate(raw_chunks)
    BY <1>1, <1>4, <2>0 DEF Logs, Added, LastLog
  <2>2. Aggregate(raw_chunks)' = Aggregate(raw_chunks)
    BY <1>4 DEF Logs
  <2> QED  BY <2>1, <2>2
<1>5. ASSUME NEW op \in {"end", "flush"}, NEW output, Added(op, output),
             raw_chunks' = raw_chunks, finalize \in {"end", "flush"}
      PROVE  FinalOutput'
  <2> SUFFICES ASSUME raw_chunks # <<>>
               PROVE  \E i : LastLog(i)' /\ calls'[i].output = Aggregate(raw_chunks)'
    BY <1>5 DEF FinalOutput
  <2>1. PICK i : LastLog(i) /\ calls[i].output = Aggregate(raw_chunks)
    BY <1>5 DEF FinalOutput
  <2>2. LastLog(i)' /\ calls'[i].output = Aggregate(raw_chunks)
    <3>1. PICK n \in Nat : n = Len(calls)
      BY <1>1
    <3>2. Len(calls') = n + 1 /\ calls'[n + 1].op # "log" /\ i \in 1..n
      BY <1>5, <2>1, <3>1 DEF Added, LastLog
    <3>3. \A j \in 1..n : calls'[j] = calls[j]
      BY <1>5, <3>1 DEF Added
    <3>4. \A j \in 1..(n + 1) : j = n + 1 \/ j \in 1..n
      OBVIOUS
    <3>5. \A j \in 1..(n + 1) : calls'[j].op = "log" => j \in 1..n /\ calls[j].op = "log"
      BY ONLY <3>2, <3>3, <3>4
    <3> QED  BY <2>1, <3>1, <3>2, <3>3, <3>5 DEF LastLog
  <2>3. Aggregate(raw_chunks)' = Aggregate(raw_chunks)
    BY <1>5
  <2> QED  BY <2>2, <2>3
<1>6. CASE EndsIt \/ Flushes
  BY <1>5, <1>6 DEF EndsIt, Flushes
<1> QED  BY <1>2, <1>3, <1>4, <1>6, CallSteps

(* Each item goes through the aggregator once, before it is delivered. *)
LEMMA ItemsStream ==
  ASSUME StreamTypes, ItemsPass, [StreamNext]_streamVars
  PROVE  ItemsPass'
<1>1. source \in Seq(Items) /\ delivered \in Seq(Items) /\ raw_chunks \in Seq(Items)
  BY DEF StreamTypes
<1>2. CASE Yield
  <2>1. closure = "none" /\ source = delivered /\ Passed = source
    BY <1>2 DEF Yield, ItemsPass, Passed
  <2>2. PICK i \in Items : /\ source' = Append(source, i)
                           /\ closure' = IF i.kind \in {"error", "keep_alive"} THEN "return" ELSE "ttft"
    BY <1>2 DEF Yield
  <2>3. Item' = i /\ delivered' = delivered /\ raw_chunks' = raw_chunks
    BY <1>1, <1>2, <2>2, LastAppended DEF Yield, Item
  <2>4. ASSUME NEW S \in SUBSET ChunkItems PROVE Those(Passed', S) = Those(Passed, S)
    <3>1. CASE closure' = "ttft"
      BY <3>1, <2>1, <2>3 DEF Passed
    <3>2. CASE closure' = "return"
      <4>1. i \notin S
        BY <2>2, <3>2 DEF ChunkItems
      <4>2. Passed' = Append(source, i)
        BY <2>2, <3>2 DEF Passed
      <4> QED  BY <1>1, <2>1, <4>1, <4>2, ThoseOfAppend
    <3> QED  BY <2>2, <3>1, <3>2
  <2>5. raw_chunks' = Chunks(Passed') /\ \A S \in SUBSET ChunkItems : Those(raw_chunks', S) = Those(Passed', S)
    BY <2>3, <2>4 DEF ItemsPass, Chunks
  <2>6. closure' \in {"ttft", "push"} => i \in ChunkItems
    BY <2>2 DEF ChunkItems
  <2>7. closure' # "none" /\ source' = Append(delivered', i)
    BY <2>1, <2>2, <2>3
  <2> QED  BY <2>3, <2>5, <2>6, <2>7 DEF ItemsPass, Chunks
<1>3. CASE RecordTtft
  BY <1>3 DEF RecordTtft, ItemsPass, Passed, Item, Chunks
<1>4. CASE Push
  <2>1. /\ Passed = delivered /\ Item \in ChunkItems /\ source = Append(delivered, Item)
        /\ closure' = "count" /\ source' = source /\ delivered' = delivered
        /\ raw_chunks' = Append(raw_chunks, Item)
    BY <1>4 DEF Push, ItemsPass, Passed
  <2>2. Passed' = Append(delivered, Item) /\ Item' = Item /\ Item \in Items
    BY <2>1 DEF Passed, Item, ChunkItems
  <2>3. ASSUME NEW S \in SUBSET ChunkItems PROVE Those(raw_chunks', S) = Those(Passed', S)
    <3>1. Those(raw_chunks, S) = Those(delivered, S)
      BY <2>1 DEF ItemsPass
    <3>2. Those(raw_chunks', S) = IF Item \in S THEN Append(Those(raw_chunks, S), Item) ELSE Those(raw_chunks, S)
      BY <1>1, <2>1, <2>2, ThoseOfAppend
    <3>3. Those(Passed', S) = IF Item \in S THEN Append(Those(delivered, S), Item) ELSE Those(delivered, S)
      BY <1>1, <2>2, ThoseOfAppend
    <3> QED  BY <3>1, <3>2, <3>3
  <2>4. raw_chunks' = Chunks(Passed')
    <3>1. raw_chunks = Those(delivered, ChunkItems)
      BY <2>1 DEF ItemsPass, Chunks
    <3>2. Those(Passed', ChunkItems) = Append(Those(delivered, ChunkItems), Item)
      BY <1>1, <2>1, <2>2, ThoseOfAppend
    <3> QED  BY <2>1, <3>1, <3>2 DEF Chunks
  <2> QED  BY <2>1, <2>2, <2>3, <2>4 DEF ItemsPass, Chunks
<1>5. CASE Count
  BY <1>5 DEF Count, ItemsPass, Passed, Item, Chunks
<1>6. CASE LogPartial \/ TriggerFlush
  BY <1>6 DEF LogPartial, TriggerFlush, ItemsPass, Passed, Item, Chunks
<1>7. CASE Deliver
  <2>1. closure = "return" /\ closure' = "none" /\ source' = source /\ raw_chunks' = raw_chunks
    BY <1>7 DEF Deliver
  <2>2. delivered' = source' /\ Passed' = Passed
    BY <1>7, <2>1 DEF Deliver, ItemsPass, Passed
  <2> QED  BY <2>1, <2>2 DEF ItemsPass, Chunks
<1>8. CASE SourceEnds \/ LogFinal \/ EndSpan \/ Flush \/ Drop \/ UNCHANGED streamVars
  <2>1. UNCHANGED <<source, delivered, closure, raw_chunks>>
    BY <1>8 DEF SourceEnds, LogFinal, EndSpan, Flush, Drop, streamVars
  <2> QED  BY <2>1 DEF ItemsPass, Passed, Item, Chunks
<1> QED
  BY <1>2, <1>3, <1>4, <1>5, <1>6, <1>7, <1>8 DEF StreamNext, Closure, Finalize

LEMMA StreamInvariant == StreamSpec => []StreamInv
<1>1. StreamInv /\ [StreamNext]_streamVars => StreamInv'
  BY TypesStream, EndsStream, ItemsStream, OutputStream DEF StreamInv
<1> QED  BY <1>1, InitStream, PTL DEF StreamSpec

-----------------------------------------------------------------------------
(* Streams: what the consumer may rely on.                                 *)

(* A consumer that sees the end of the stream finds the span ended once,   *)
(* behind everything that was logged, and flushed once, behind that.       *)
THEOREM EndMeansComplete == StreamSpec => []EndIsComplete
<1>1. StreamInv => EndIsComplete
  <2> SUFFICES ASSUME StreamInv, consumer = "ended" PROVE EndIsComplete
    BY DEF EndIsComplete
  <2>1. PICK n \in Nat : n = Len(calls)
    BY LenProperties DEF StreamInv, StreamTypes
  <2>2. DOMAIN calls = 1..n
    BY <2>1, LenProperties DEF StreamInv, StreamTypes
  <2>3. /\ n >= 2
        /\ \A i \in 1..n : (calls[i].op = "end") <=> (i = n - 1)
        /\ \A i \in 1..n : (calls[i].op = "flush") <=> (i = n)
    BY <2>1 DEF StreamInv, StreamTypes, EndsLast
  <2>4. Calls("end") = {n - 1} /\ Calls("flush") = {n}
    <3>1. n - 1 \in 1..n /\ n \in 1..n
      BY <2>3
    <3>2. \A i : i \in Calls("end") <=> i = n - 1
      BY <2>2, <2>3, <3>1 DEF Calls
    <3>3. \A i : i \in Calls("flush") <=> i = n
      BY <2>2, <2>3, <3>1 DEF Calls
    <3> QED  BY ONLY <3>2, <3>3
  <2>5. \A i \in Calls("log") \cup Calls("ttft") : i < n - 1
    <3> SUFFICES ASSUME NEW i \in 1..n, calls[i].op \in {"log", "ttft"} PROVE i < n - 1
      BY <2>2 DEF Calls
    <3>1. i # n - 1 /\ i # n
      BY ONLY <2>3, i \in 1..n, calls[i].op \in {"log", "ttft"}
    <3> QED  BY <3>1
  <2>6. Cardinality({n - 1}) = 1 /\ Cardinality({n}) = 1
    BY FS_Singleton
  <2> QED  BY <2>4, <2>5, <2>6 DEF EndIsComplete
<1> QED  BY <1>1, StreamInvariant, PTL

(* The last output that is logged before the span ends is that of all the  *)
(* chunks the consumer got: the text in its order, whole tool calls, and   *)
(* all of them unless their indexes have a gap.                            *)
THEOREM LastOutputIsWhole == StreamSpec => []OutputIsWhole
<1>1. StreamInv => OutputIsWhole
  <2> SUFFICES ASSUME StreamInv, Calls("end") # {}, Chunks(source) # <<>> PROVE OutputIsWhole
    BY DEF OutputIsWhole
  <2>1. DOMAIN calls = 1..Len(calls)
    BY LenProperties DEF StreamInv, StreamTypes
  <2>2. finalize \in {"flush", "done"}
    BY <2>1 DEF Calls, StreamInv, EndsLast
  <2>3. closure = "none" /\ Passed = delivered /\ source = delivered
    BY <2>2 DEF StreamInv, StreamTypes, ItemsPass, Passed
  <2>4. raw_chunks # <<>> /\ \A S \in SUBSET ChunkItems : Those(raw_chunks, S) = Those(delivered, S)
    BY <2>3 DEF StreamInv, ItemsPass
  <2>5. PICK i : LastLog(i) /\ calls[i].output = Aggregate(raw_chunks)
    BY <2>2, <2>4 DEF StreamInv, FinalOutput
  <2>6. i \in Calls("log") /\ \A j \in Calls("log") : j <= i
    BY <2>1, <2>5 DEF LastLog, Calls
  <2> DEFINE last == CHOOSE n \in Calls("log") : \A m \in Calls("log") : m <= n
             out == calls[last].output
             indexes == Indexes(delivered)
  <2>7. last = i
    <3>1. last \in Calls("log") /\ \A m \in Calls("log") : m <= last
      BY <2>6
    <3>2. last \in 1..Len(calls) /\ i \in 1..Len(calls) /\ Len(calls) \in Nat
      BY <2>1, <2>6, <3>1, LenProperties DEF Calls, StreamInv, StreamTypes
    <3> HIDE DEF last
    <3> QED  BY <2>6, <3>1, <3>2
  <2>8. /\ out.text = Texts(raw_chunks)
        /\ out.tool_calls =
             [k \in Indexes(raw_chunks) \cap 0..(Cardinality(Indexes(raw_chunks)) - 1) |->
                Fragments(raw_chunks, k)]
    <3> HIDE DEF last
    <3> QED  BY <2>5, <2>7 DEF Aggregate
  <2>9. /\ Texts(raw_chunks) = Texts(delivered)
        /\ Indexes(raw_chunks) = indexes
        /\ \A k : Fragments(raw_chunks, k) = Fragments(delivered, k)
    BY <2>4, SameParts
  <2>10. indexes = 0..(Cardinality(indexes) - 1) => DOMAIN out.tool_calls = indexes
    <3> HIDE DEF out
    <3> QED  BY <2>8, <2>9
  <2>11. \A k \in DOMAIN out.tool_calls : out.tool_calls[k] = Fragments(delivered, k)
    <3> HIDE DEF out
    <3> QED  BY <2>8, <2>9
  <2>12. out.text = Texts(delivered)
    BY <2>8, <2>9
  <2>13. Calls("log") # {}
    BY <2>6
  <2> QED  BY <2>10, <2>11, <2>12, <2>13 DEF OutputIsWhole
<1> QED  BY <1>1, StreamInvariant, PTL
=============================================================================
