----------------------------- MODULE Span_proof -----------------------------
(***************************************************************************)
(* Proofs about spans (Span, SpanComponents).                              *)
(*                                                                         *)
(* The sequences of Span hold values of many kinds, so the proofs take     *)
(* them as arrays: functions on 1..n.  Shapes says what the variables look *)
(* like.  Three invariants rest on it:                                     *)
(*                                                                         *)
(*   OnlyFirst   a snapshot replaces only while has_flushed is not set     *)
(*   TraceInv    a child follows the span whose export became its parent,  *)
(*               because a string that was exported parses to what was     *)
(*               exported (RoundTrip, ExportKept, ChildOfExport)           *)
(*   SnapInv     the newest snapshot holds all that was logged, and once   *)
(*               it is stored the server does too                          *)
(*                                                                         *)
(* FormsKept and PathsApart (Span) are hypotheses: they say which ids and  *)
(* paths a program may use, and no more of them is assumed than a theorem  *)
(* needs.  Parents of every kind may be used.                              *)
(***************************************************************************)
EXTENDS Span, FiniteSetTheorems, SequenceTheorems, TLAPS

-----------------------------------------------------------------------------
(* Arrays: sequences of values of any kind.                                *)

Array(a, n) == a = [i \in 1..n |-> a[i]]

(* An array is a sequence of its length. *)
LEMMA ArrayLength ==
  ASSUME NEW a, NEW n \in Nat, Array(a, n)
  PROVE  Len(a) = n /\ DOMAIN a = 1..n
<1> DEFINE S == {a[i] : i \in 1..n}
<1>1. a \in [1..n -> S]
  BY DEF Array
<1>2. a \in Seq(S)
  BY <1>1, SeqDef
<1>3. DOMAIN a = 1..n
  BY DEF Array
<1>4. Len(a) \in Nat /\ DOMAIN a = 1..Len(a)
  BY <1>2, LenProperties
<1> QED  BY <1>3, <1>4

(* Append adds one element at the end. *)
LEMMA ArrayAppend ==
  ASSUME NEW a, NEW n \in Nat, Array(a, n), NEW e
  PROVE  /\ Array(Append(a, e), n + 1)
         /\ Append(a, e)[n + 1] = e
         /\ \A i \in 1..n : Append(a, e)[i] = a[i]
         /\ Len(Append(a, e)) = n + 1
<1> DEFINE S == {a[i] : i \in 1..n} \cup {e}
           b == Append(a, e)
<1>1. a \in [1..n -> S]
  BY DEF Array
<1>2. a \in Seq(S) /\ e \in S
  BY <1>1, SeqDef
<1>3. Len(a) = n
  BY ArrayLength
<1>4. /\ b \in Seq(S)
      /\ Len(b) = Len(a) + 1
      /\ \A i \in 1..Len(a) : b[i] = a[i]
      /\ b[Len(a) + 1] = e
  <2> HIDE DEF S
  <2> QED  BY <1>2, AppendProperties
<1>5. b \in [1..(n + 1) -> S]
  <2>1. b \in [1..Len(b) -> S]
    <3> HIDE DEF S, b
    <3> QED  BY <1>4, LenProperties
  <2> QED  BY <2>1, <1>3, <1>4
<1>6. Array(b, n + 1)
  <2> HIDE DEF S, b
  <2> QED  BY <1>5 DEF Array
<1> HIDE DEF b
<1>7. Array(b, n + 1) /\ b[n + 1] = e /\ (\A i \in 1..n : b[i] = a[i]) /\ Len(b) = n + 1
  BY <1>3, <1>4, <1>6
<1> QED  BY <1>7 DEF b

LEMMA EmptyArray == Array(<<>>, 0) /\ Len(<<>>) = 0
<1>1. <<>> \in Seq({})
  BY EmptySeq
<1>2. Len(<<>>) = 0
  BY EmptySeq, <1>1
<1>3. <<>> \in [1..0 -> {}]
  BY <1>1, <1>2, LenProperties
<1> QED  BY <1>2, <1>3 DEF Array

-----------------------------------------------------------------------------
(* What the variables look like.                                           *)

Data(d) ==
  /\ d = [content |-> d.content, ended |-> d.ended, has_flushed |-> d.has_flushed, taken |-> d.taken]
  /\ d.has_flushed \in BOOLEAN
  /\ d.taken \in Nat

Shapes ==
  /\ Len(spans) \in Nat
  /\ Array(spans, Len(spans)) /\ Array(tree, Len(spans))
  /\ Array(data, Len(spans)) /\ Array(rows, Len(spans))
  /\ \A s \in 1..Len(spans) : Data(data[s])
  /\ \A s \in 1..Len(spans) : Len(rows[s]) \in Nat /\ Array(rows[s], Len(rows[s]))
  /\ pending = [t \in Threads |-> pending[t]]
  /\ \A t \in Threads :
       pending[t] = NoRow \/ (pending[t].span \in 1..Len(spans) /\ pending[t].is_merge \in BOOLEAN)
  /\ clock \in Nat

(* The rows of s that were submitted as a replacement, and the threads     *)
(* that have yet to submit one.                                            *)
Replacing(s) == {i \in 1..Len(rows[s]) : ~rows[s][i].is_merge}
WillReplace(s) == {t \in Threads : pending[t].span = s /\ ~pending[t].is_merge}

(* A snapshot replaces only while has_flushed is not set, and sets it.     *)
OnlyFirst ==
  \A s \in 1..Len(spans) :
    /\ ~data[s].has_flushed => Replacing(s) = {} /\ WillReplace(s) = {}
    /\ Replacing(s) = {} \/ WillReplace(s) = {}
    /\ \A i, j \in Replacing(s) : i = j
    /\ \A t, u \in WillReplace(s) : t = u

UniqueInv == Shapes /\ OnlyFirst

LEMMA SpanDomain ==
  ASSUME Shapes
  PROVE  /\ DOMAIN spans = 1..Len(spans) /\ DOMAIN data = 1..Len(spans)
         /\ DOMAIN rows = 1..Len(spans) /\ DOMAIN tree = 1..Len(spans)
BY ArrayLength DEF Shapes

LEMMA UniqueInit == Init => UniqueInv
<1> SUFFICES ASSUME Init PROVE UniqueInv
  OBVIOUS
<1>1. Array(<<>>, 0) /\ Len(<<>>) = 0
  BY EmptyArray
<1>2. spans = <<>> /\ tree = <<>> /\ data = <<>> /\ rows = <<>> /\ pending = [t \in Threads |-> NoRow] /\ clock = 0
  BY DEF Init
<1>3. Shapes
  <2>1. pending = [t \in Threads |-> pending[t]] /\ \A t \in Threads : pending[t] = NoRow
    BY <1>2
  <2>2. Len(spans) = 0 /\ Array(spans, 0) /\ Array(tree, 0) /\ Array(data, 0) /\ Array(rows, 0) /\ clock = 0
    BY <1>1, <1>2
  <2> QED  BY <2>1, <2>2 DEF Shapes
<1>4. OnlyFirst
  BY <1>1, <1>2 DEF OnlyFirst
<1> QED  BY <1>3, <1>4 DEF UniqueInv

(* What a new span adds. *)
LEMMA BuildAdds ==
  ASSUME Shapes, NEW parent, NEW project, NEW row_id, NEW span_id, NEW under,
         Build(parent, project, row_id, span_id, under)
  PROVE  LET n == Len(spans) IN
         /\ n \in Nat /\ Len(spans') = n + 1
         /\ Array(spans', n + 1) /\ Array(tree', n + 1) /\ Array(data', n + 1) /\ Array(rows', n + 1)
         /\ \A s \in 1..n : spans'[s] = spans[s] /\ tree'[s] = tree[s] /\ data'[s] = data[s] /\ rows'[s] = rows[s]
         /\ spans'[n + 1] = [row_id |-> row_id, span_id |-> span_id, project |-> project, parent |-> parent,
                             event |-> IF parent.kind = "full_span" THEN parent.event ELSE None]
         /\ tree'[n + 1] = under
         /\ data'[n + 1] = [content |-> Empty, ended |-> 0, has_flushed |-> FALSE, taken |-> 0]
         /\ rows'[n + 1] = <<>>
         /\ pending' = pending /\ server' = server /\ clock' = clock
<1> DEFINE n == Len(spans)
           new == [row_id |-> row_id, span_id |-> span_id, project |-> project, parent |-> parent,
                   event |-> IF parent.kind = "full_span" THEN parent.event ELSE None]
           blank == [content |-> Empty, ended |-> 0, has_flushed |-> FALSE, taken |-> 0]
<1>1. n \in Nat /\ Array(spans, n) /\ Array(tree, n) /\ Array(data, n) /\ Array(rows, n)
  BY DEF Shapes
<1>2. /\ spans' = Append(spans, new) /\ tree' = Append(tree, under)
      /\ data' = Append(data, blank) /\ rows' = Append(rows, <<>>)
      /\ pending' = pending /\ server' = server /\ clock' = clock
  BY DEF Build
<1>3. Array(Append(spans, new), n + 1) /\ Append(spans, new)[n + 1] = new
      /\ (\A i \in 1..n : Append(spans, new)[i] = spans[i]) /\ Len(Append(spans, new)) = n + 1
  <2> HIDE DEF n, new
  <2> QED  BY <1>1, ArrayAppend
<1>4. Array(Append(tree, under), n + 1) /\ Append(tree, under)[n + 1] = under
      /\ (\A i \in 1..n : Append(tree, under)[i] = tree[i])
  <2> HIDE DEF n, new
  <2> QED  BY <1>1, ArrayAppend
<1>5. Array(Append(data, blank), n + 1) /\ Append(data, blank)[n + 1] = blank
      /\ (\A i \in 1..n : Append(data, blank)[i] = data[i])
  <2> HIDE DEF n, blank
  <2> QED  BY <1>1, ArrayAppend
<1>6. Array(Append(rows, <<>>), n + 1) /\ Append(rows, <<>>)[n + 1] = <<>>
      /\ (\A i \in 1..n : Append(rows, <<>>)[i] = rows[i])
  <2> HIDE DEF n, new
  <2> QED  BY <1>1, ArrayAppend
<1>7. Len(spans') = n + 1
  BY <1>2, <1>3
<1>8. Array(spans', n + 1) /\ Array(tree', n + 1) /\ Array(data', n + 1) /\ Array(rows', n + 1)
  BY <1>2, <1>3, <1>4, <1>5, <1>6
<1>9. \A s \in 1..n : spans'[s] = spans[s] /\ tree'[s] = tree[s] /\ data'[s] = data[s] /\ rows'[s] = rows[s]
  <2> HIDE DEF n, new, blank
  <2> QED  BY <1>2, <1>3, <1>4, <1>5, <1>6
<1>10. spans'[n + 1] = new /\ tree'[n + 1] = under /\ data'[n + 1] = blank /\ rows'[n + 1] = <<>>
  BY <1>2, <1>3, <1>4, <1>5, <1>6
<1> QED  BY <1>1, <1>2, <1>7, <1>8, <1>9, <1>10

LEMMA UniqueBuild ==
  ASSUME UniqueInv, NEW parent, NEW project, NEW row_id, NEW span_id, NEW under,
         Build(parent, project, row_id, span_id, under)
  PROVE  UniqueInv'
<1> PICK n : n = Len(spans)
  OBVIOUS
<1>0. Shapes /\ OnlyFirst
  BY DEF UniqueInv
<1>1. /\ n \in Nat /\ Len(spans') = n + 1
      /\ Array(spans', n + 1) /\ Array(tree', n + 1) /\ Array(data', n + 1) /\ Array(rows', n + 1)
      /\ \A s \in 1..n : data'[s] = data[s] /\ rows'[s] = rows[s]
      /\ data'[n + 1] = [content |-> Empty, ended |-> 0, has_flushed |-> FALSE, taken |-> 0]
      /\ rows'[n + 1] = <<>> /\ pending' = pending /\ clock' = clock
  BY <1>0, BuildAdds
<1>2. Array(<<>>, 0) /\ Len(<<>>) = 0
  BY EmptyArray
<1>3. \A s \in 1..(n + 1) : s \in 1..n \/ s = n + 1
  BY <1>1
<1>4. \A t \in Threads :
        pending[t] = NoRow \/ (pending[t].span \in 1..n /\ pending[t].is_merge \in BOOLEAN)
  BY <1>0 DEF Shapes
<1>5. Shapes'
  <2>1. \A s \in 1..(n + 1) : Data(data'[s])
    <3>1. \A s \in 1..n : Data(data'[s])
      BY <1>0, <1>1 DEF Shapes
    <3>2. Data(data'[n + 1])
      BY <1>1 DEF Data
    <3> QED  BY <3>1, <3>2, <1>3
  <2>2. \A s \in 1..(n + 1) : Len(rows'[s]) \in Nat /\ Array(rows'[s], Len(rows'[s]))
    BY <1>0, <1>1, <1>2, <1>3 DEF Shapes
  <2>3. \A t \in Threads :
          pending[t] = NoRow \/ (pending[t].span \in 1..(n + 1) /\ pending[t].is_merge \in BOOLEAN)
    BY <1>4, <1>1
  <2> QED  BY <1>0, <1>1, <2>1, <2>2, <2>3 DEF Shapes
<1>6. \A t \in Threads : pending[t].span # n + 1
  BY <1>4, <1>1 DEF NoRow
<1>7. \A s \in 1..n : Replacing(s)' = Replacing(s) /\ WillReplace(s)' = WillReplace(s)
  BY <1>1 DEF Replacing, WillReplace
<1>8. Replacing(n + 1)' = {} /\ WillReplace(n + 1)' = {}
  <2>1. Replacing(n + 1)' = {}
    BY <1>1, <1>2 DEF Replacing
  <2>2. WillReplace(n + 1)' = {}
    BY <1>1, <1>6 DEF WillReplace
  <2> QED  BY <2>1, <2>2
<1>9. OnlyFirst'
  <2> SUFFICES ASSUME NEW s \in 1..(n + 1)
               PROVE  /\ ~data'[s].has_flushed => Replacing(s)' = {} /\ WillReplace(s)' = {}
                      /\ Replacing(s)' = {} \/ WillReplace(s)' = {}
                      /\ \A i, j \in Replacing(s)' : i = j
                      /\ \A t, u \in WillReplace(s)' : t = u
    BY <1>1 DEF OnlyFirst
  <2>1. CASE s = n + 1
    BY <2>1, <1>8
  <2>2. CASE s \in 1..n
    <3>1. data'[s] = data[s]
      BY <2>2, <1>1
    <3> QED  BY <2>2, <3>1, <1>0, <1>7 DEF OnlyFirst
  <2> QED  BY <2>1, <2>2, <1>3
<1> QED  BY <1>5, <1>9 DEF UniqueInv

-----------------------------------------------------------------------------
(* A step that takes a snapshot: t of s, for the data d.                   *)
Taking(t, s, d) ==
  /\ pending[t] = NoRow
  /\ Snapshot(t, s, d)
  /\ clock' = clock + 1
  /\ UNCHANGED <<spans, tree, rows, server>>

(* The calls that take one keep what was taken and flushed so far. *)
LEMMA CallsTake ==
  ASSUME Shapes, NEW t \in Threads, NEW s \in 1..Len(spans),
         EndSpan(t, s) \/ \E p \in Paths : Log(t, s, p)
  PROVE  \E d : /\ Taking(t, s, d) /\ Data(d)
                /\ d.has_flushed = data[s].has_flushed /\ d.taken = data[s].taken
<1>1. Data(data[s])
  BY DEF Shapes
<1>2. CASE EndSpan(t, s)
  <2> DEFINE d == [data[s] EXCEPT !.ended = clock + 1]
  <2>1. Taking(t, s, d)
    BY <1>2 DEF EndSpan, Call, Taking
  <2>2. Data(d) /\ d.has_flushed = data[s].has_flushed /\ d.taken = data[s].taken
    BY <1>1 DEF Data
  <2> QED  BY <2>1, <2>2
<1>3. ASSUME NEW p \in Paths, Log(t, s, p)
      PROVE  \E d : /\ Taking(t, s, d) /\ Data(d)
                    /\ d.has_flushed = data[s].has_flushed /\ d.taken = data[s].taken
  <2> DEFINE d == [data[s] EXCEPT !.content = Applied(@, p, clock + 1)]
  <2>1. Taking(t, s, d)
    BY <1>3 DEF Log, Call, Taking
  <2>2. Data(d) /\ d.has_flushed = data[s].has_flushed /\ d.taken = data[s].taken
    BY <1>1 DEF Data
  <2> QED  BY <2>1, <2>2
<1> QED  BY <1>2, <1>3

(* What a snapshot changes. *)
Took(t, s, d) ==
  LET content == IF d.ended = 0 THEN d.content ELSE MergeRowInto(d.content, [p \in {End} |-> d.ended]) IN
  /\ Array(data', Len(spans))
  /\ data'[s] = [content |-> content, ended |-> d.ended, has_flushed |-> TRUE, taken |-> d.taken + 1]
  /\ \A r \in 1..Len(spans) : r # s => data'[r] = data[r]
  /\ pending' = [u \in Threads |-> pending'[u]]
  /\ pending'[t] = [span |-> s, taken |-> d.taken + 1, is_merge |-> d.has_flushed,
                    content |-> WithEvent(content, spans[s].event)]
  /\ \A u \in Threads : u # t => pending'[u] = pending[u]

LEMMA TakingChanges ==
  ASSUME Shapes, NEW t \in Threads, NEW s \in 1..Len(spans), NEW d, Data(d), Taking(t, s, d)
  PROVE  Took(t, s, d)
<1> DEFINE content == IF d.ended = 0 THEN d.content ELSE MergeRowInto(d.content, [p \in {End} |-> d.ended])
           new == [content |-> content, ended |-> d.ended, has_flushed |-> TRUE, taken |-> d.taken + 1]
           row == [span |-> s, taken |-> d.taken + 1, is_merge |-> d.has_flushed,
                   content |-> WithEvent(content, spans[s].event)]
<1>1. data' = [data EXCEPT ![s] = new] /\ pending' = [pending EXCEPT ![t] = row]
  BY DEF Taking, Snapshot
<1>2. Len(spans) \in Nat /\ Array(data, Len(spans)) /\ pending = [u \in Threads |-> pending[u]]
  BY DEF Shapes
<1> HIDE DEF new, row
<1>3. /\ Array(data', Len(spans)) /\ data'[s] = new
      /\ \A r \in 1..Len(spans) : r # s => data'[r] = data[r]
  BY <1>1, <1>2 DEF Array
<1>4. /\ pending' = [u \in Threads |-> pending'[u]] /\ pending'[t] = row
      /\ \A u \in Threads : u # t => pending'[u] = pending[u]
  BY <1>1, <1>2
<1> QED  BY <1>3, <1>4 DEF new, row, Took

LEMMA ShapesTaking ==
  ASSUME Shapes, NEW t \in Threads, NEW s \in 1..Len(spans), NEW d, Data(d), Taking(t, s, d)
  PROVE  Shapes'
<1> DEFINE c == IF d.ended = 0 THEN d.content ELSE MergeRowInto(d.content, [p \in {End} |-> d.ended])
           new == [content |-> c, ended |-> d.ended, has_flushed |-> TRUE, taken |-> d.taken + 1]
           row == [span |-> s, taken |-> d.taken + 1, is_merge |-> d.has_flushed,
                   content |-> WithEvent(c, spans[s].event)]
<1>1. /\ Array(data', Len(spans)) /\ data'[s] = new
      /\ \A r \in 1..Len(spans) : r # s => data'[r] = data[r]
      /\ pending' = [u \in Threads |-> pending'[u]] /\ pending'[t] = row
      /\ \A u \in Threads : u # t => pending'[u] = pending[u]
  <2>1. Took(t, s, d)
    BY TakingChanges
  <2> QED  BY ONLY <2>1 DEF Took
<1> HIDE DEF c
<1>2. spans' = spans /\ tree' = tree /\ rows' = rows /\ clock' = clock + 1
  BY DEF Taking
<1>3. Data(data'[s])
  BY <1>1 DEF Data
<1>6. row.span = s /\ row.is_merge \in BOOLEAN
  BY DEF Data
<1> HIDE DEF new, row
<1>4. \A r \in 1..Len(spans) : Data(data'[r])
  BY <1>1, <1>3 DEF Shapes
<1>5. \A u \in Threads :
        pending'[u] = NoRow \/ (pending'[u].span \in 1..Len(spans) /\ pending'[u].is_merge \in BOOLEAN)
  BY <1>1, <1>6 DEF Shapes
<1> QED  BY <1>1, <1>2, <1>4, <1>5 DEF Shapes

LEMMA UniqueTaking ==
  ASSUME UniqueInv, NEW t \in Threads, NEW s \in 1..Len(spans), NEW d, Data(d), Taking(t, s, d),
         d.has_flushed = data[s].has_flushed
  PROVE  UniqueInv'
<1>0. Shapes /\ OnlyFirst
  BY DEF UniqueInv
<1> DEFINE c == IF d.ended = 0 THEN d.content ELSE MergeRowInto(d.content, [p \in {End} |-> d.ended])
           new == [content |-> c, ended |-> d.ended, has_flushed |-> TRUE, taken |-> d.taken + 1]
           row == [span |-> s, taken |-> d.taken + 1, is_merge |-> d.has_flushed,
                   content |-> WithEvent(c, spans[s].event)]
<1>9. /\ data'[s] = new
      /\ \A r \in 1..Len(spans) : r # s => data'[r] = data[r]
      /\ pending'[t] = row
      /\ \A u \in Threads : u # t => pending'[u] = pending[u]
  <2>1. Took(t, s, d)
    BY <1>0, TakingChanges
  <2> QED  BY ONLY <2>1 DEF Took
<1> HIDE DEF c
<1>1. /\ data'[s].has_flushed
      /\ \A r \in 1..Len(spans) : r # s => data'[r] = data[r]
      /\ pending'[t].span = s /\ pending'[t].is_merge = d.has_flushed
      /\ \A u \in Threads : u # t => pending'[u] = pending[u]
  BY <1>9
<1> HIDE DEF new, row
<1>2. spans' = spans /\ rows' = rows /\ pending[t].span = 0
  BY DEF Taking, NoRow
<1>3. d.has_flushed \in BOOLEAN
  BY DEF Data
<1>4. SUFFICES ASSUME NEW r \in 1..Len(spans)
               PROVE  /\ ~data'[r].has_flushed => Replacing(r)' = {} /\ WillReplace(r)' = {}
                      /\ Replacing(r)' = {} \/ WillReplace(r)' = {}
                      /\ \A i, j \in Replacing(r)' : i = j
                      /\ \A u, v \in WillReplace(r)' : u = v
  <2>1. Shapes'
    BY <1>0, ShapesTaking
  <2>2. OnlyFirst'
    BY <1>4, <1>2 DEF OnlyFirst
  <2> QED  BY <2>1, <2>2 DEF UniqueInv
<1>5. Replacing(r)' = Replacing(r)
  BY <1>2 DEF Replacing
<1>6. CASE r # s
  <2>1. WillReplace(r)' = WillReplace(r)
    BY <1>1, <1>2, <1>6 DEF WillReplace
  <2>2. data'[r] = data[r]
    BY <1>1, <1>6
  <2> QED  BY <1>5, <2>1, <2>2, <1>0 DEF OnlyFirst
<1>7. CASE r = s /\ d.has_flushed
  <2>5. pending'[t].is_merge
    BY <1>1, <1>7
  <2>6. pending[t].span # s
    BY <1>2
  <2>3. t \notin WillReplace(s) /\ t \notin WillReplace(s)'
    BY <2>5, <2>6 DEF WillReplace
  <2>4. \A u \in Threads : u # t => (u \in WillReplace(s)' <=> u \in WillReplace(s))
    BY <1>1 DEF WillReplace
  <2>1. WillReplace(s)' = WillReplace(s)
    BY <2>3, <2>4 DEF WillReplace
  <2>2. data'[s].has_flushed
    BY <1>1
  <2> QED  BY <1>5, <1>7, <2>1, <2>2, <1>0 DEF OnlyFirst
<1>8. CASE r = s /\ ~d.has_flushed
  <2>1. Replacing(s) = {} /\ WillReplace(s) = {}
    BY <1>0, <1>8 DEF OnlyFirst
  <2>2. WillReplace(s)' \subseteq {t}
    BY <1>1, <2>1 DEF WillReplace
  <2>3. data'[s].has_flushed
    BY <1>1
  <2> QED  BY <1>5, <1>8, <2>1, <2>2, <2>3
<1> QED  BY <1>3, <1>6, <1>7, <1>8

(* What a submission changes. *)
LEMMA SubmitChanges ==
  ASSUME Shapes, NEW t \in Threads, Submit(t)
  PROVE  LET s == pending[t].span IN
         /\ s \in 1..Len(spans)
         /\ Array(rows', Len(spans))
         /\ \A r \in 1..Len(spans) : r # s => rows'[r] = rows[r]
         /\ Len(rows'[s]) = Len(rows[s]) + 1 /\ Array(rows'[s], Len(rows'[s]))
         /\ \A i \in 1..Len(rows[s]) : rows'[s][i] = rows[s][i]
         /\ rows'[s][Len(rows[s]) + 1].taken = pending[t].taken
         /\ rows'[s][Len(rows[s]) + 1].is_merge = pending[t].is_merge
         /\ \/ /\ rows'[s][Len(rows[s]) + 1].stored
               /\ Receive(Key(s), pending[t].is_merge, pending[t].content)
            \/ ~rows'[s][Len(rows[s]) + 1].stored /\ server' = server
         /\ pending' = [u \in Threads |-> IF u = t THEN NoRow ELSE pending[u]]
         /\ UNCHANGED <<spans, tree, data, clock>>
<1> DEFINE s == pending[t].span
<1>1. s \in 1..Len(spans) /\ pending[t] # NoRow
  BY DEF Shapes, Submit
<1>2. PICK stored \in BOOLEAN :
        /\ rows' = [rows EXCEPT ![s] = Append(@, [taken |-> pending[t].taken,
                       is_merge |-> pending[t].is_merge, stored |-> stored])]
        /\ IF stored THEN Receive(Key(s), pending[t].is_merge, pending[t].content) ELSE server' = server
  BY DEF Submit
<1> DEFINE row == [taken |-> pending[t].taken, is_merge |-> pending[t].is_merge, stored |-> stored]
           all == Append(rows[s], row)
<1>3. /\ Len(spans) \in Nat /\ Array(rows, Len(spans))
      /\ Len(rows[s]) \in Nat /\ Array(rows[s], Len(rows[s]))
  BY <1>1 DEF Shapes
<1>4. /\ Array(all, Len(rows[s]) + 1) /\ all[Len(rows[s]) + 1] = row
      /\ \A i \in 1..Len(rows[s]) : all[i] = rows[s][i]
      /\ Len(all) = Len(rows[s]) + 1
  <2> HIDE DEF row, s
  <2> QED  BY <1>3, ArrayAppend
<1>5. rows' = [rows EXCEPT ![s] = all]
  BY <1>2
<1>6. /\ Array(rows', Len(spans)) /\ rows'[s] = all
      /\ \A r \in 1..Len(spans) : r # s => rows'[r] = rows[r]
  <2> HIDE DEF all, s
  <2> QED  BY <1>1, <1>3, <1>5 DEF Array
<1>7. row.taken = pending[t].taken /\ row.is_merge = pending[t].is_merge /\ row.stored = stored
  OBVIOUS
<1>8. \/ row.stored /\ Receive(Key(s), pending[t].is_merge, pending[t].content)
      \/ ~row.stored /\ server' = server
  BY <1>2
<1>9. pending = [u \in Threads |-> pending[u]] /\ pending' = [pending EXCEPT ![t] = NoRow]
      /\ UNCHANGED <<spans, tree, data, clock>>
  BY DEF Shapes, Submit
<1>10. pending' = [u \in Threads |-> IF u = t THEN NoRow ELSE pending[u]]
  BY <1>9
<1> HIDE DEF row, all
<1> QED  BY <1>1, <1>4, <1>6, <1>7, <1>8, <1>9, <1>10

LEMMA ShapesSubmit ==
  ASSUME Shapes, NEW t \in Threads, Submit(t)
  PROVE  Shapes'
<1> PICK s : s = pending[t].span
  OBVIOUS
<1>1. /\ s \in 1..Len(spans)
      /\ Array(rows', Len(spans))
      /\ \A r \in 1..Len(spans) : r # s => rows'[r] = rows[r]
      /\ Len(rows'[s]) = Len(rows[s]) + 1 /\ Array(rows'[s], Len(rows'[s]))
      /\ pending' = [u \in Threads |-> IF u = t THEN NoRow ELSE pending[u]]
      /\ spans' = spans /\ tree' = tree /\ data' = data /\ clock' = clock
  BY SubmitChanges
<1>2. \A r \in 1..Len(spans) : Len(rows'[r]) \in Nat /\ Array(rows'[r], Len(rows'[r]))
  BY <1>1 DEF Shapes
<1>3. \A u \in Threads :
        pending'[u] = NoRow \/ (pending'[u].span \in 1..Len(spans) /\ pending'[u].is_merge \in BOOLEAN)
  <2>1. \A u \in Threads : pending'[u] = IF u = t THEN NoRow ELSE pending[u]
    BY <1>1
  <2>2. spans' = spans
    BY <1>1
  <2> QED  BY <2>1, <2>2 DEF Shapes
<1>4. pending' = [u \in Threads |-> pending'[u]]
  BY <1>1
<1> QED  BY <1>1, <1>2, <1>3, <1>4 DEF Shapes

LEMMA UniqueSubmit ==
  ASSUME UniqueInv, NEW t \in Threads, Submit(t)
  PROVE  UniqueInv'
<1> PICK s : s = pending[t].span
  OBVIOUS
<1>0. Shapes /\ OnlyFirst
  BY DEF UniqueInv
<1>1. /\ s \in 1..Len(spans)
      /\ \A r \in 1..Len(spans) : r # s => rows'[r] = rows[r]
      /\ Len(rows'[s]) = Len(rows[s]) + 1
      /\ \A i \in 1..Len(rows[s]) : rows'[s][i] = rows[s][i]
      /\ rows'[s][Len(rows[s]) + 1].is_merge = pending[t].is_merge
      /\ pending' = [u \in Threads |-> IF u = t THEN NoRow ELSE pending[u]]
      /\ spans' = spans /\ data' = data
  BY <1>0, SubmitChanges
<1>2. SUFFICES ASSUME NEW r \in 1..Len(spans)
               PROVE  /\ ~data[r].has_flushed => Replacing(r)' = {} /\ WillReplace(r)' = {}
                      /\ Replacing(r)' = {} \/ WillReplace(r)' = {}
                      /\ \A i, j \in Replacing(r)' : i = j
                      /\ \A u, v \in WillReplace(r)' : u = v
  <2>1. Shapes'
    BY <1>0, ShapesSubmit
  <2>2. OnlyFirst'
    BY <1>2, <1>1 DEF OnlyFirst
  <2> QED  BY <2>1, <2>2 DEF UniqueInv
<1>3. WillReplace(r)' = WillReplace(r) \ {t}
  <2>1. \A u \in Threads : pending'[u].span = r <=> u # t /\ pending[u].span = r
    BY <1>1 DEF NoRow
  <2> QED  BY <2>1, <1>1 DEF WillReplace
<1>4. CASE r # s \/ pending[t].is_merge
  <2>1. CASE r # s
    BY <2>1, <1>1, <1>3, <1>0 DEF OnlyFirst, Replacing
  <2>2. CASE r = s /\ pending[t].is_merge
    <3>1. Len(rows[s]) \in Nat
      BY <1>0, <1>1 DEF Shapes
    <3>3. \A i \in 1..Len(rows[s]) : rows'[s][i] = rows[s][i]
      BY <1>1
    <3>4. Len(rows'[s]) = Len(rows[s]) + 1 /\ rows'[s][Len(rows[s]) + 1].is_merge
      BY <1>1, <2>2
    <3>5. \A i \in 1..(Len(rows[s]) + 1) : i \in 1..Len(rows[s]) \/ i = Len(rows[s]) + 1
      BY <3>1
    <3>6. \A i : i \in Replacing(s)' <=> i \in Replacing(s)
      <4>1. \A i : i \in Replacing(s)' => i \in Replacing(s)
        BY <3>3, <3>4, <3>5, Zenon DEF Replacing
      <4>2. 1..Len(rows[s]) \subseteq 1..(Len(rows[s]) + 1)
        BY <3>1
      <4>3. \A i : i \in Replacing(s) => i \in Replacing(s)'
        BY <3>3, <3>4, <4>2, Zenon DEF Replacing
      <4> QED  BY <4>1, <4>3
    <3>2. Replacing(s)' = Replacing(s)
      BY <3>6 DEF Replacing
    <3> QED  BY <3>2, <2>2, <1>3, <1>0 DEF OnlyFirst
  <2> QED  BY <2>1, <2>2, <1>4
<1>5. CASE r = s /\ ~pending[t].is_merge
  <2>1. t \in WillReplace(s)
    BY <1>5 DEF WillReplace
  <2>2. Replacing(s) = {} /\ WillReplace(s) = {t} /\ data[s].has_flushed
    BY <2>1, <1>1, <1>0 DEF OnlyFirst
  <2>3. Len(rows[s]) \in Nat
    BY <1>0, <1>1 DEF Shapes
  <2>5. \A i \in 1..Len(rows[s]) : rows'[s][i] = rows[s][i]
    BY <1>1
  <2>6. Len(rows'[s]) = Len(rows[s]) + 1
    BY <1>1
  <2>4. ASSUME NEW i \in Replacing(s)' PROVE i = Len(rows[s]) + 1
    <3>1. i \in 1..(Len(rows[s]) + 1) /\ ~rows'[s][i].is_merge
      BY <2>6 DEF Replacing
    <3>2. i \notin 1..Len(rows[s])
      BY <3>1, <2>2, <2>5, Zenon DEF Replacing
    <3> QED  BY <3>1, <3>2, <2>3
  <2> QED  BY <2>2, <2>4, <1>3, <1>5
<1> QED  BY <1>4, <1>5

LEMMA UniqueElsewhere ==
  ASSUME UniqueInv, UNCHANGED <<spans, tree, data, pending, rows>>, clock' \in {clock, clock + 1}
  PROVE  UniqueInv'
<1>1. spans' = spans /\ tree' = tree /\ data' = data /\ pending' = pending /\ rows' = rows
  OBVIOUS
<1>2. clock' \in Nat
  BY DEF UniqueInv, Shapes
<1>3. Shapes'
  BY <1>1, <1>2 DEF UniqueInv, Shapes
<1>4. OnlyFirst'
  BY <1>1 DEF UniqueInv, OnlyFirst, Replacing, WillReplace
<1> QED  BY <1>3, <1>4 DEF UniqueInv

LEMMA UniqueStep == UniqueInv /\ [Next]_vars => UniqueInv'
<1> SUFFICES ASSUME UniqueInv, [Next]_vars PROVE UniqueInv'
  OBVIOUS
<1>0. Shapes
  BY DEF UniqueInv
<1>1. ASSUME BuildRoot \/ BuildChild PROVE UniqueInv'
  <2>1. CASE BuildRoot
    BY <2>1, UniqueBuild DEF BuildRoot
  <2>2. CASE BuildChild
    BY <2>2, UniqueBuild DEF BuildChild
  <2> QED  BY <1>1, <2>1, <2>2
<1>2. ASSUME NEW s \in DOMAIN spans, NEW p \in Updated, UpdateSpan(s, p) PROVE UniqueInv'
  <2> QED  BY <1>2, UniqueElsewhere DEF UpdateSpan
<1>3. ASSUME NEW t \in Threads, Submit(t) PROVE UniqueInv'
  BY <1>3, UniqueSubmit
<1>4. ASSUME NEW t \in Threads, NEW s \in DOMAIN spans, EndSpan(t, s) \/ \E p \in Paths : Log(t, s, p)
      PROVE  UniqueInv'
  <2>1. s \in 1..Len(spans)
    BY <1>0, SpanDomain
  <2>2. PICK d : Taking(t, s, d) /\ Data(d) /\ d.has_flushed = data[s].has_flushed
    BY <1>0, <1>4, <2>1, CallsTake
  <2> QED  BY <2>1, <2>2, UniqueTaking
<1>5. CASE UNCHANGED vars
  BY <1>5, UniqueElsewhere DEF vars
<1> QED  BY <1>1, <1>2, <1>3, <1>4, <1>5 DEF Next

LEMMA UniqueAlways == Spec => []UniqueInv
<1> QED  BY UniqueInit, UniqueStep, PTL DEF Spec

LEMMA AtMostOne ==
  ASSUME NEW S, \A a, b \in S : a = b
  PROVE  IsFiniteSet(S) /\ Cardinality(S) \in {0, 1} /\ (S = {} <=> Cardinality(S) = 0)
<1>1. CASE S = {}
  BY <1>1, FS_EmptySet
<1>2. CASE S # {}
  <2>1. PICK a : S = {a}
    BY <1>2
  <2> QED  BY <2>1, FS_Singleton
<1> QED  BY <1>1, <1>2

(* However the threads of a span race, one of its rows replaces what the   *)
(* server has and all the others merge into it.                            *)
THEOREM RowsReplaceOnce == Spec => []ReplacesOnce
<1>1. UniqueInv => ReplacesOnce
  <2> SUFFICES ASSUME UniqueInv, NEW s \in DOMAIN spans
               PROVE  Cardinality({i \in DOMAIN rows[s] : ~rows[s][i].is_merge})
                      + Cardinality({t \in Threads : pending[t].span = s /\ ~pending[t].is_merge}) <= 1
    BY DEF ReplacesOnce
  <2>1. Shapes /\ OnlyFirst
    BY DEF UniqueInv
  <2>2. s \in 1..Len(spans)
    BY <2>1, SpanDomain
  <2>3. DOMAIN rows[s] = 1..Len(rows[s])
    BY <2>1, <2>2, ArrayLength DEF Shapes
  <2>4. /\ (Cardinality(Replacing(s)) \in {0, 1}) /\ (Replacing(s) = {} <=> Cardinality(Replacing(s)) = 0)
        /\ (Cardinality(WillReplace(s)) \in {0, 1}) /\ (WillReplace(s) = {} <=> Cardinality(WillReplace(s)) = 0)
    BY <2>1, <2>2, AtMostOne DEF OnlyFirst
  <2>5. Replacing(s) = {} \/ WillReplace(s) = {}
    BY <2>1, <2>2 DEF OnlyFirst
  <2>6. Cardinality(Replacing(s)) + Cardinality(WillReplace(s)) <= 1
    BY <2>4, <2>5
  <2> QED  BY <2>3, <2>6 DEF Replacing, WillReplace
<1> QED  BY <1>1, UniqueAlways, PTL

-----------------------------------------------------------------------------
(* The two ways to the destination of a row.                               *)

LEMMA DumpOfSpanAgrees ==
  ASSUME NEW s, ~(s.parent.kind = "full_span" /\ BlankLogs(s.parent))
  PROVE  DumpOfSpan(s) \in {Invalid, DestinationOfSpan(s)}
<1>1. CASE s.parent.kind \in {"none", "project_name"}
  BY <1>1 DEF DumpOfSpan
<1>2. CASE s.parent.kind = "full_span"
  <2>1. CASE s.parent.object_id = None
    BY <1>2, <2>1 DEF DumpOfSpan
  <2>2. CASE s.parent.object_id # None
    <3>1. s.parent.type = "project_logs" =>
            Identifier(s.parent.object_id, s.parent.args) = [kind |-> "id", id |-> s.parent.object_id]
      BY <1>2, <2>2 DEF Identifier, Filled, BlankLogs
    <3>2. DestinationOfSpan(s) = Destination(s.parent.type, s.parent.object_id, s.parent.args)
      BY <1>2 DEF DestinationOfSpan
    <3>3. DestinationOfSpan(s) = LogDestination(s.parent.type, s.parent.object_id)
      BY <2>2, <3>1, <3>2 DEF Destination
    <3>4. DumpOfSpan(s) = LogDestination(s.parent.type, s.parent.object_id)
      BY <1>2, <2>2 DEF DumpOfSpan
    <3> QED  BY <3>3, <3>4
  <2> QED  BY <2>1, <2>2
<1>3. CASE s.parent.kind \notin {"none", "project_name", "full_span"}
  <2>1. DestinationOfSpan(s) = LogDestination(s.parent.kind, s.parent.id)
    BY <1>3 DEF DestinationOfSpan
  <2>2. DumpOfSpan(s) = LogDestination(s.parent.kind, s.parent.id)
    BY <1>3 DEF DumpOfSpan
  <2> QED  BY <2>1, <2>2
<1> QED  BY <1>1, <1>2, <1>3

LEMMA DumpOfUpdateAgrees ==
  ASSUME NEW c, ~BlankLogs(c)
  PROVE  DumpOfUpdate(c) \in {Invalid, DestinationOfUpdate(c)}
<1>1. CASE c.object_id # None
  <2>1. c.type = "project_logs" => Identifier(c.object_id, c.args) = [kind |-> "id", id |-> c.object_id]
    BY <1>1 DEF Identifier, Filled, BlankLogs
  <2>2. DestinationOfUpdate(c) = LogDestination(c.type, c.object_id)
    BY <1>1, <2>1 DEF DestinationOfUpdate, Destination
  <2>3. DumpOfUpdate(c) = LogDestination(c.type, c.object_id)
    BY <1>1 DEF DumpOfUpdate
  <2> QED  BY <2>2, <2>3
<1>2. CASE c.object_id = None /\ c.type = "project_logs" /\ Identifier(None, c.args).kind = "id"
  <2>1. DestinationOfUpdate(c) = LogDestination("project_logs", Identifier(None, c.args).id)
    BY <1>2 DEF DestinationOfUpdate, Destination
  <2>2. DumpOfUpdate(c) = LogDestination("project_logs", Identifier(None, c.args).id)
    BY <1>2 DEF DumpOfUpdate
  <2> QED  BY <2>1, <2>2
<1>3. CASE c.object_id = None /\ ~(c.type = "project_logs" /\ Identifier(None, c.args).kind = "id")
  BY <1>3 DEF DumpOfUpdate
<1> QED  BY <1>1, <1>2, <1>3

(* The dump of a row that was dropped names the destination that the row   *)
(* would have had, of a span or of an update, whatever its parent was but  *)
(* project logs with a blank id.                                           *)
THEOREM DumpsAgree == Spec => []DumpAgrees
<1>1. DumpAgrees
  <2> SUFFICES ASSUME NEW s \in DOMAIN spans
               PROVE  /\ ~(spans[s].parent.kind = "full_span" /\ BlankLogs(spans[s].parent)) =>
                           DumpOfSpan(spans[s]) \in {Invalid, DestinationOfSpan(spans[s])}
                      /\ ~BlankLogs(Exported(s)) =>
                           DumpOfUpdate(Exported(s)) \in {Invalid, DestinationOfUpdate(Exported(s))}
    BY DEF DumpAgrees
  <2>1. \A r : ~(r.parent.kind = "full_span" /\ BlankLogs(r.parent)) =>
                  DumpOfSpan(r) \in {Invalid, DestinationOfSpan(r)}
    BY DumpOfSpanAgrees
  <2>2. \A c : ~BlankLogs(c) => DumpOfUpdate(c) \in {Invalid, DestinationOfUpdate(c)}
    BY DumpOfUpdateAgrees
  <2> QED  BY <2>1, <2>2
<1> QED  BY <1>1, PTL

-----------------------------------------------------------------------------
(* Export, its string form, and the parent that it becomes.                *)

Kept(id) == IsId(id) /\ id.form \notin {"HEX16", "HEX32"}

(* An id whose form is kept comes back from its bytes as it was. *)
LEMMA BytesKeep == \A id : Kept(id) => Bytes(id) = id
BY DEF Kept, IsId, Bytes

(* What to_str writes of components, parse reads. *)
LEMMA RoundTrip ==
  ASSUME NEW c, \A f \in Fields : HexEncoded(c, f) => Bytes(c[f]) = c[f]
  PROVE  Parse(ToStr(c)) = [f \in Fields \cup {"type"} |-> IF f = "type" THEN c.type ELSE c[f]]
<1> DEFINE present == {f \in Fields : c[f] # None}
           hex == {f \in present : HexEncoded(c, f)}
           h == [f \in hex |-> Bytes(c[f])]
           j == [f \in present \ hex |-> c[f]]
           all == LaidOver(j, h)
<1>1. ToStr(c).version = 4 /\ ToStr(c).type = c.type /\ ToStr(c).hex = h /\ ToStr(c).json = j
  BY DEF ToStr
<1>2. Parse(ToStr(c)) = FromJsonObj(c.type, all)
  BY <1>1 DEF Parse, ParseV4
<1>3. DOMAIN all = present
  BY DEF LaidOver
<1>4. \A f \in present : all[f] = c[f]
  <2> SUFFICES ASSUME NEW f \in present PROVE all[f] = c[f]
    OBVIOUS
  <2>1. CASE f \in hex
    <3>1. all[f] = Bytes(c[f])
      BY <2>1 DEF LaidOver
    <3> QED  BY <2>1, <3>1
  <2>2. CASE f \notin hex
    BY <2>2 DEF LaidOver
  <2> QED  BY <2>1, <2>2
<1> HIDE DEF all
<1>5. \A f \in Fields : f \notin present => c[f] = None
  OBVIOUS
<1> HIDE DEF present
<1>6. "type" \notin Fields
  BY DEF Fields
<1>7. \A f \in Fields \cup {"type"} :
        (CASE f = "type" -> c.type [] f \in DOMAIN all -> all[f] [] OTHER -> None)
        = IF f = "type" THEN c.type ELSE c[f]
  <2> SUFFICES ASSUME NEW f \in Fields \cup {"type"}
               PROVE  (CASE f = "type" -> c.type [] f \in DOMAIN all -> all[f] [] OTHER -> None)
                      = IF f = "type" THEN c.type ELSE c[f]
    OBVIOUS
  <2>1. CASE f = "type"
    <3>1. f \notin DOMAIN all
      BY <2>1, <1>3, <1>6 DEF present
    <3> QED  BY <2>1, <3>1
  <2>2. CASE f # "type" /\ f \in present
    BY <2>2, <1>3, <1>4
  <2>3. CASE f # "type" /\ f \notin present
    BY <2>3, <1>3, <1>5
  <2> QED  BY <2>1, <2>2, <2>3
<1> QED  BY <1>2, <1>7 DEF FromJsonObj

(* Spans as they are built. *)
GoodSpan(s) ==
  /\ Kept(s.span_id) /\ s.row_id # None
  /\ s.project # None => None # [project_id |-> None, project_name |-> s.project]
  /\ \/ s.parent.kind \in {"none", "project_name"}
     \/ s.parent.kind \in {"experiment", "project_logs", "playground_logs", "dataset"} /\ s.parent.id # None
     \/ s.parent.kind = "full_span" /\ s.parent.span_id # None /\ Kept(s.parent.root_span_id)
  /\ s.event = IF s.parent.kind = "full_span" THEN s.parent.event ELSE None

(* The exported string of such a span says what was exported. *)
LEMMA ExportKept ==
  ASSUME NEW s, GoodSpan(s)
  PROVE  LET c == Parse(ToStr(Export(s))) IN
         /\ c = [c EXCEPT !.object_id = c.object_id]
         /\ c.type = Export(s).type /\ c.object_id = Export(s).object_id /\ c.args = Export(s).args
         /\ c.row_id = s.row_id /\ c.span_id = s.span_id
         /\ c.root_span_id = RootOfSpan(s) /\ c.event = s.event
         /\ \A o : LET d == [c EXCEPT !.object_id = o] IN
              /\ d.type = c.type /\ d.object_id = o /\ d.args = c.args
              /\ d.span_id = c.span_id /\ d.root_span_id = c.root_span_id /\ d.event = c.event
<1> DEFINE e == Export(s)
           c == Parse(ToStr(e))
<1>1. e.row_id = s.row_id /\ e.span_id = s.span_id /\ e.root_span_id = RootOfSpan(s) /\ e.event = s.event
  BY DEF Export, RootOfSpan
<1>2. Kept(e.span_id) /\ Kept(e.root_span_id)
  BY <1>1 DEF GoodSpan, RootOfSpan
<1> HIDE DEF e
<1>3. \A f \in Fields : HexEncoded(e, f) => Bytes(e[f]) = e[f]
  <2> SUFFICES ASSUME NEW f \in Fields, HexEncoded(e, f) PROVE Bytes(e[f]) = e[f]
    OBVIOUS
  <2>1. f = "span_id" \/ f = "root_span_id"
    BY DEF HexEncoded
  <2> QED  BY <2>1, <1>2, BytesKeep
<1>4. c = [f \in Fields \cup {"type"} |-> IF f = "type" THEN e.type ELSE e[f]]
  BY <1>3, RoundTrip
<1> HIDE DEF c
<1>5. /\ c.type = e.type /\ c.object_id = e.object_id /\ c.args = e.args /\ c.row_id = e.row_id
      /\ c.span_id = e.span_id /\ c.root_span_id = e.root_span_id /\ c.event = e.event
  BY <1>4 DEF Fields
<1>6. \A o : LET d == [c EXCEPT !.object_id = o] IN
              /\ d.type = c.type /\ d.object_id = o /\ d.args = c.args
              /\ d.span_id = c.span_id /\ d.root_span_id = c.root_span_id /\ d.event = c.event
  BY <1>4 DEF Fields
<1>7. c = [c EXCEPT !.object_id = c.object_id]
  BY <1>4
<1> QED  BY <1>1, <1>5, <1>6, <1>7 DEF e, c

-----------------------------------------------------------------------------
(* Where the rows of exported spans and of their children go.              *)

LEMMA LogDestinationValid == \A kind, id : LogDestination(kind, id) # Invalid
<1> SUFFICES ASSUME NEW kind, NEW id, LogDestination(kind, id) = Invalid PROVE FALSE
  OBVIOUS
<1>1. "id" \in DOMAIN LogDestination(kind, id)
  BY DEF LogDestination
<1>2. DOMAIN Invalid = {"kind"}
  BY DEF Invalid
<1> QED  BY <1>1, <1>2

(* What Identifier returns, and that an id is found again by itself. *)
LEMMA IdentifierCases ==
  ASSUME NEW o, NEW args
  PROVE  /\ Filled(o) => Identifier(o, args) = [kind |-> "id", id |-> o]
         /\ Identifier(o, args).kind = "id" => Filled(Identifier(o, args).id)
         /\ Identifier(o, args) # Invalid <=> Identifier(o, args).kind \in {"id", "name"}
         /\ Identifier(o, args).kind \in {"id", "name", "invalid"}
BY DEF Identifier, Invalid

(* The destination is there exactly when the object is placed. *)
LEMMA DestinationPlaced ==
  ASSUME NEW c
  PROVE  Destination(c.type, c.object_id, c.args) # Invalid <=> Placed(c)
<1> DEFINE i == Identifier(c.object_id, c.args)
<1>1. CASE c.type = "project_logs"
  <2>1. i # Invalid <=> i.kind \in {"id", "name"}
    BY IdentifierCases
  <2>2. CASE i.kind = "id"
    <3>1. Destination(c.type, c.object_id, c.args) = LogDestination(c.type, i.id)
      BY <1>1, <2>2 DEF Destination
    <3> QED  BY <1>1, <2>1, <2>2, <3>1, LogDestinationValid DEF Placed
  <2>3. CASE i.kind = "name"
    <3>1. Destination(c.type, c.object_id, c.args) = LogDestination(c.type, ProjectId(i.name))
      BY <1>1, <2>3 DEF Destination
    <3> QED  BY <1>1, <2>1, <2>3, <3>1, LogDestinationValid DEF Placed
  <2>4. CASE i.kind \notin {"id", "name"}
    <3>1. Destination(c.type, c.object_id, c.args) = Invalid
      BY <1>1, <2>4 DEF Destination
    <3> QED  BY <1>1, <2>1, <2>4, <3>1 DEF Placed
  <2> QED  BY <2>2, <2>3, <2>4
<1>2. CASE c.type # "project_logs" /\ c.object_id # None
  <2>1. Destination(c.type, c.object_id, c.args) = LogDestination(c.type, c.object_id)
    BY <1>2 DEF Destination
  <2> QED  BY <1>2, <2>1, LogDestinationValid DEF Placed
<1>3. CASE c.type # "project_logs" /\ c.object_id = None
  BY <1>3 DEF Destination, Placed
<1> QED  BY <1>1, <1>2, <1>3

(* A span whose place an export keeps and what it exports have one         *)
(* destination.                                                            *)
LEMMA ExportDestination ==
  ASSUME NEW s, GoodSpan(s), ParentKept(s)
  PROVE  LET e == Export(s) IN Destination(e.type, e.object_id, e.args) = DestinationOfSpan(s)
<1> DEFINE e == Export(s)
           p == s.parent
<1>1. CASE p.kind = "none" /\ s.project = None
  <2>1. e.type = "project_logs" /\ e.object_id = None /\ e.args = None
    BY <1>1 DEF Export
  <2>2. Identifier(None, None) = Invalid
    BY DEF Identifier, Filled
  <2>3. Destination("project_logs", None, None) = Invalid
    BY <2>2 DEF Destination, Invalid
  <2>4. DestinationOfSpan(s) = Invalid
    BY <1>1 DEF DestinationOfSpan
  <2> QED  BY <2>1, <2>3, <2>4
<1>2. CASE p.kind = "none" /\ s.project # None
  <2> DEFINE args == [project_id |-> None, project_name |-> s.project]
  <2>1. e.type = "project_logs" /\ e.object_id = None /\ e.args = args
    BY <1>2 DEF Export
  <2>2. args # None /\ Filled(s.project)
    BY <1>2 DEF GoodSpan, ParentKept, Filled
  <2>3. Identifier(None, args) = [kind |-> "name", name |-> s.project]
    BY <2>2 DEF Identifier, Filled
  <2>4. Destination("project_logs", None, args) = LogDestination("project_logs", ProjectId(s.project))
    BY <2>3 DEF Destination
  <2>5. DestinationOfSpan(s) = LogDestination("project_logs", ProjectId(s.project))
    BY <1>2 DEF DestinationOfSpan
  <2> QED  BY <2>1, <2>4, <2>5
<1>3. CASE p.kind \in {"experiment", "project_logs", "playground_logs"} /\ p.id # None
  <2>1. e.type = p.kind /\ e.object_id = p.id /\ e.args = None
    BY <1>3 DEF Export
  <2>2. p.kind = "project_logs" => Identifier(p.id, None) = [kind |-> "id", id |-> p.id]
    BY <1>3 DEF Identifier, Filled, ParentKept
  <2>3. Destination(p.kind, p.id, None) = LogDestination(p.kind, p.id)
    BY <1>3, <2>2 DEF Destination
  <2>4. DestinationOfSpan(s) = LogDestination(p.kind, p.id)
    BY <1>3 DEF DestinationOfSpan
  <2> QED  BY <2>1, <2>3, <2>4
<1>4. CASE p.kind = "full_span"
  <2>1. ~(p.object_id = None /\ p.args = None)
    BY <1>4 DEF ParentKept, Placed, Identifier, Filled
  <2>2. e.type = p.type /\ e.object_id = p.object_id /\ e.args = p.args
    BY <1>4, <2>1 DEF Export
  <2>3. DestinationOfSpan(s) = Destination(p.type, p.object_id, p.args)
    BY <1>4 DEF DestinationOfSpan
  <2> QED  BY <2>2, <2>3
<1>5. p.kind \notin {"project_name", "dataset"}
  BY DEF ParentKept
<1> QED  BY <1>1, <1>2, <1>3, <1>4, <1>5 DEF GoodSpan

(* The parent that an export becomes: the ids and the event are those of   *)
(* the exported span.  If an export keeps the place of the span, the       *)
(* parent has it exactly when the span has.                                *)
LEMMA ChildOfExport ==
  ASSUME NEW s, GoodSpan(s)
  PROVE  LET c == Parse(ToStr(Export(s)))
             q == ToParentResolving(c) IN
         /\ q # Invalid =>
              /\ q.kind = "full_span" /\ Placed(q)
              /\ q.span_id = s.span_id /\ q.root_span_id = RootOfSpan(s) /\ q.event = s.event
         /\ ParentKept(s) =>
              /\ q # Invalid <=> DestinationOfSpan(s) # Invalid
              /\ Placed(c) <=> DestinationOfSpan(s) # Invalid
              /\ DestinationOfUpdate(c) = DestinationOfSpan(s)
              /\ q # Invalid => Destination(q.type, q.object_id, q.args) = DestinationOfSpan(s)
<1> DEFINE c == Parse(ToStr(Export(s)))
           i == Identifier(c.object_id, c.args)
           promoted == c.type = "project_logs" /\ c.object_id = None /\ i.kind = "id"
           d == IF promoted THEN [c EXCEPT !.object_id = i.id] ELSE c
           q == ToParentResolving(c)
<1>1. /\ c.type = Export(s).type /\ c.object_id = Export(s).object_id /\ c.args = Export(s).args
      /\ c.span_id = s.span_id /\ c.root_span_id = RootOfSpan(s) /\ c.event = s.event
  BY ExportKept
<1>2. \A o : LET x == [c EXCEPT !.object_id = o] IN
              /\ x.type = c.type /\ x.object_id = o /\ x.args = c.args
              /\ x.span_id = c.span_id /\ x.root_span_id = c.root_span_id /\ x.event = c.event
  BY ExportKept
<1> HIDE DEF c
<1>3. ParentKept(s) => Destination(c.type, c.object_id, c.args) = DestinationOfSpan(s)
  BY <1>1, ExportDestination
<1>4. s.span_id # None /\ RootOfSpan(s) # None
  BY DEF GoodSpan, Kept, IsId, RootOfSpan
<1>5. q = ToParentSpanInfo(d)
  BY <1>1, <1>4 DEF ToParentResolving
<1>6. /\ d.type = c.type /\ d.args = c.args /\ d.span_id = c.span_id
      /\ d.root_span_id = c.root_span_id /\ d.event = c.event
      /\ d.object_id = IF promoted THEN i.id ELSE c.object_id
  <2>1. CASE promoted
    <3>1. d = [c EXCEPT !.object_id = i.id]
      BY <2>1
    <3> HIDE DEF i, d, promoted
    <3> QED  BY <2>1, <3>1, <1>2
  <2>2. CASE ~promoted
    <3>1. d = c
      BY <2>2
    <3> HIDE DEF d, i, promoted
    <3> QED  BY <2>2, <3>1
  <2> QED  BY <2>1, <2>2
<1> HIDE DEF d
<1>7. Destination(d.type, d.object_id, d.args) = Destination(c.type, c.object_id, c.args)
  <2>1. CASE promoted
    <3>1. Filled(i.id)
      BY <2>1, IdentifierCases
    <3>2. d.object_id = i.id /\ d.type = "project_logs"
      BY <1>6, <2>1
    <3>3. Identifier(d.object_id, d.args) = [kind |-> "id", id |-> i.id]
      BY <3>1, <3>2, IdentifierCases
    <3>4. Destination(d.type, d.object_id, d.args) = LogDestination("project_logs", i.id)
      BY <3>2, <3>3 DEF Destination
    <3>5. Destination(c.type, c.object_id, c.args) = LogDestination("project_logs", i.id)
      BY <2>1 DEF Destination
    <3> QED  BY <3>4, <3>5
  <2>2. CASE ~promoted
    <3> HIDE DEF promoted
    <3> QED  BY <1>6, <2>2
  <2> QED  BY <2>1, <2>2
<1>8. ParentKept(s) =>
        (Placed(d) <=> DestinationOfSpan(s) # Invalid) /\ (Placed(c) <=> DestinationOfSpan(s) # Invalid)
  BY <1>3, <1>7, DestinationPlaced
<1>9. ParentKept(s) => DestinationOfUpdate(c) = DestinationOfSpan(s)
  BY <1>3 DEF DestinationOfUpdate
<1>10. d.span_id # None /\ d.root_span_id # None
  BY <1>1, <1>4, <1>6
<1>11. CASE Placed(d)
  <2> DEFINE r == [kind |-> "full_span", type |-> d.type, object_id |-> d.object_id, args |-> d.args,
                   span_id |-> d.span_id, root_span_id |-> d.root_span_id, event |-> d.event]
  <2>1. q = r
    BY <1>5, <1>10, <1>11 DEF ToParentSpanInfo
  <2>2. "type" \in DOMAIN r /\ DOMAIN Invalid = {"kind"}
    BY DEF Invalid
  <2>3. q # Invalid
    <3> HIDE DEF r
    <3> QED  BY <2>1, <2>2
  <2> HIDE DEF q
  <2>4. /\ q.kind = "full_span" /\ q.span_id = s.span_id /\ q.root_span_id = RootOfSpan(s)
        /\ q.event = s.event /\ q.type = d.type /\ q.object_id = d.object_id /\ q.args = d.args
    BY <2>1, <1>6, <1>1
  <2>5. Placed(q)
    BY <2>4, <1>11 DEF Placed
  <2>6. ParentKept(s) => Destination(q.type, q.object_id, q.args) = DestinationOfSpan(s)
    BY <2>4, <1>3, <1>7
  <2> QED  BY <2>3, <2>4, <2>5, <2>6, <1>8, <1>9, <1>11 DEF q, c
<1>12. CASE ~Placed(d)
  <2>1. q = Invalid
    BY <1>5, <1>12 DEF ToParentSpanInfo
  <2> QED  BY <2>1, <1>8, <1>9, <1>12 DEF c
<1> QED  BY <1>11, <1>12

-----------------------------------------------------------------------------
(* Traces.                                                                 *)

Follows(c, s) ==
  /\ c.parent.span_id = s.span_id
  /\ RootOfSpan(c) = RootOfSpan(s)
  /\ c.event = s.event
  /\ ParentKept(s) => DestinationOfSpan(c) = DestinationOfSpan(s)

(* Every span is well formed and follows the one it was made a child of. *)
TraceInv ==
  \A c \in 1..Len(spans) :
    /\ GoodSpan(spans[c])
    /\ tree[c] # 0 => tree[c] \in 1..Len(spans) /\ Follows(spans[c], spans[tree[c]])

(* The span that Build adds. *)
Built(row_id, span_id, parent, project) ==
  [row_id |-> row_id, span_id |-> span_id, project |-> project, parent |-> parent,
   event |-> IF parent.kind = "full_span" THEN parent.event ELSE None]

LEMMA BuiltIs ==
  ASSUME NEW row_id, NEW span_id, NEW parent, NEW project,
         NEW s, s = Built(row_id, span_id, parent, project)
  PROVE  /\ s.row_id = row_id /\ s.span_id = span_id /\ s.project = project
         /\ s.parent = parent /\ s.event = IF parent.kind = "full_span" THEN parent.event ELSE None
BY DEF Built

(* The ids of the next span are kept, fresh or not. *)
LEMMA IdsKept ==
  ASSUME FormsKept, Shapes, TraceInv, Len(spans) < MaxSpans,
         NEW row_id \in RowIds, NEW span_id \in SpanIds
  PROVE  row_id # None /\ Kept(span_id)
<1> PICK n : n = Len(spans) + 1
  OBVIOUS
<1>1. n \in 1..MaxSpans
  BY SpanAssumption DEF Shapes
<1>2. \A s \in DOMAIN spans : spans[s].row_id # None /\ Kept(spans[s].span_id)
  BY SpanDomain DEF TraceInv, GoodSpan
<1>3. ASSUME NEW form \in IdForms PROVE Kept([number |-> n, form |-> form])
  <2> DEFINE id == [number |-> n, form |-> form]
  <2>1. id # None
    BY <1>1, RootsAssumption
  <2>2. form \notin {"HEX16", "HEX32"}
    BY DEF FormsKept
  <2>3. id.number = n /\ id.form = form
    OBVIOUS
  <2>4. id # None /\ id = [number |-> id.number, form |-> id.form]
    BY <2>1
  <2> QED  BY <2>2, <2>3, <2>4 DEF Kept, IsId
<1>4. row_id # None
  <2>1. row_id = n \/ \E s \in DOMAIN spans : row_id = spans[s].row_id
    BY DEF RowIds
  <2>2. n # None
    BY <1>1, RootsAssumption
  <2> QED  BY <1>2, <2>1, <2>2
<1>5. Kept(span_id)
  <2>1. (\E form \in IdForms : span_id = [number |-> n, form |-> form]) \/ \E s \in DOMAIN spans : span_id = spans[s].span_id
    BY DEF SpanIds
  <2> QED  BY <1>2, <1>3, <2>1
<1> QED  BY <1>4, <1>5

(* A root and a child are well formed. *)
LEMMA RootIsGood ==
  ASSUME FormsKept, NEW row_id, row_id # None, NEW span_id, Kept(span_id), NEW r \in Roots
  PROVE  GoodSpan(Built(row_id, span_id, r.parent, r.project))
<1> DEFINE s == Built(row_id, span_id, r.parent, r.project)
<1>1. /\ s.row_id = row_id /\ s.span_id = span_id /\ s.project = r.project
      /\ s.parent = r.parent
      /\ s.event = IF r.parent.kind = "full_span" THEN r.parent.event ELSE None
  BY BuiltIs
<1> HIDE DEF s
<1>3. IsParent(r.parent) /\ None # [project_id |-> None, project_name |-> r.project]
  BY RootsAssumption
<1>4. r.parent.kind = "full_span" => r.parent.root_span_id.form \notin {"HEX16", "HEX32"}
  BY DEF FormsKept
<1>5. \/ r.parent.kind \in {"none", "project_name"}
      \/ r.parent.kind \in {"experiment", "project_logs", "playground_logs", "dataset"} /\ r.parent.id # None
      \/ r.parent.kind = "full_span" /\ r.parent.span_id # None /\ Kept(r.parent.root_span_id)
  <2>1. CASE r.parent.kind = "full_span" /\ IsId(r.parent.span_id) /\ IsId(r.parent.root_span_id)
    <3>1. r.parent.span_id # None
      BY <2>1 DEF IsId
    <3>2. Kept(r.parent.root_span_id)
      BY <2>1, <1>4 DEF Kept
    <3> QED  BY <2>1, <3>1, <3>2
  <2> QED  BY <1>3, <2>1 DEF IsParent
<1>6. GoodSpan(s)
  BY <1>1, <1>3, <1>5 DEF GoodSpan
<1> QED  BY <1>6 DEF s

LEMMA ChildIsGood ==
  ASSUME NEW row_id, row_id # None, NEW span_id, Kept(span_id), NEW s, GoodSpan(s),
         NEW q, q = ToParentResolving(Parse(ToStr(Export(s)))), q # Invalid
  PROVE  GoodSpan(Built(row_id, span_id, q, None)) /\ Follows(Built(row_id, span_id, q, None), s)
<1> DEFINE c == Built(row_id, span_id, q, None)
<1>1. /\ c.row_id = row_id /\ c.span_id = span_id /\ c.project = None
      /\ c.parent = q /\ c.event = IF q.kind = "full_span" THEN q.event ELSE None
  BY BuiltIs
<1> HIDE DEF c
<1>3. /\ q.kind = "full_span"
      /\ q.span_id = s.span_id /\ q.root_span_id = RootOfSpan(s) /\ q.event = s.event
      /\ ParentKept(s) => Destination(q.type, q.object_id, q.args) = DestinationOfSpan(s)
  BY ChildOfExport
<1>4. s.span_id # None /\ Kept(RootOfSpan(s))
  BY DEF GoodSpan, Kept, IsId, RootOfSpan
<1>5. GoodSpan(c)
  BY <1>1, <1>3, <1>4 DEF GoodSpan
<1>6. DestinationOfSpan(c) = Destination(q.type, q.object_id, q.args)
  BY <1>1, <1>3 DEF DestinationOfSpan
<1>7. Follows(c, s)
  BY <1>1, <1>3, <1>6 DEF Follows, RootOfSpan
<1> QED  BY <1>5, <1>7 DEF c

LEMMA TraceBuild ==
  ASSUME Shapes, TraceInv, FormsKept, BuildRoot \/ BuildChild
  PROVE  TraceInv'
<1> PICK n : n = Len(spans)
  OBVIOUS
<1>1. /\ n \in Nat /\ Len(spans') = n + 1
      /\ \A s \in 1..n : spans'[s] = spans[s] /\ tree'[s] = tree[s]
      /\ GoodSpan(spans'[n + 1])
      /\ tree'[n + 1] # 0 => tree'[n + 1] \in 1..n /\ Follows(spans'[n + 1], spans[tree'[n + 1]])
  <2>1. ASSUME NEW parent, NEW project, NEW row_id \in RowIds, NEW span_id \in SpanIds, NEW under,
               Build(parent, project, row_id, span_id, under)
        PROVE  /\ n \in Nat /\ Len(spans') = n + 1
               /\ \A s \in 1..n : spans'[s] = spans[s] /\ tree'[s] = tree[s]
               /\ spans'[n + 1] = Built(row_id, span_id, parent, project)
               /\ tree'[n + 1] = under
               /\ row_id # None /\ Kept(span_id)
    <3>1. /\ n \in Nat /\ Len(spans') = n + 1
          /\ \A s \in 1..n : spans'[s] = spans[s] /\ tree'[s] = tree[s]
          /\ spans'[n + 1] = Built(row_id, span_id, parent, project)
          /\ tree'[n + 1] = under
      BY <2>1, BuildAdds DEF Built
    <3>2. Len(spans) < MaxSpans
      BY <2>1 DEF Build
    <3> QED  BY <3>1, <3>2, IdsKept
  <2>2. CASE BuildRoot
    <3>1. PICK r \in Roots, row_id \in RowIds, span_id \in SpanIds :
            Build(r.parent, r.project, row_id, span_id, 0)
      BY <2>2 DEF BuildRoot
    <3>2. /\ n \in Nat /\ Len(spans') = n + 1
          /\ \A s \in 1..n : spans'[s] = spans[s] /\ tree'[s] = tree[s]
          /\ spans'[n + 1] = Built(row_id, span_id, r.parent, r.project)
          /\ tree'[n + 1] = 0
          /\ row_id # None /\ Kept(span_id)
      BY <2>1, <3>1
    <3>3. GoodSpan(spans'[n + 1])
      BY <3>2, RootIsGood
    <3> QED  BY <3>2, <3>3
  <2>3. CASE BuildChild
    <3>1. PICK s \in DOMAIN spans, row_id \in RowIds, span_id \in SpanIds :
            /\ ToParentResolving(Exported(s)) # Invalid
            /\ Build(ToParentResolving(Exported(s)), None, row_id, span_id, s)
      BY <2>3 DEF BuildChild
    <3> DEFINE q == ToParentResolving(Exported(s))
    <3>2. /\ n \in Nat /\ Len(spans') = n + 1
          /\ \A r \in 1..n : spans'[r] = spans[r] /\ tree'[r] = tree[r]
          /\ spans'[n + 1] = Built(row_id, span_id, q, None)
          /\ tree'[n + 1] = s
          /\ row_id # None /\ Kept(span_id)
      BY <2>1, <3>1
    <3>3. s \in 1..n /\ GoodSpan(spans[s])
      BY <3>1, SpanDomain DEF TraceInv
    <3>4. GoodSpan(spans'[n + 1]) /\ Follows(spans'[n + 1], spans[s])
      BY <3>1, <3>2, <3>3, ChildIsGood DEF Exported
    <3> QED  BY <3>2, <3>3, <3>4
  <2> QED  BY <2>2, <2>3
<1>2. \A c \in 1..(n + 1) : c \in 1..n \/ c = n + 1
  BY <1>1
<1>3. \A c \in 1..n : c \in 1..(n + 1)
  BY <1>1
<1> SUFFICES ASSUME NEW c \in 1..(n + 1)
             PROVE  /\ GoodSpan(spans'[c])
                    /\ tree'[c] # 0 => tree'[c] \in 1..(n + 1) /\ Follows(spans'[c], spans'[tree'[c]])
  BY <1>1 DEF TraceInv
<1>4. CASE c \in 1..n
  BY <1>4, <1>1, <1>3 DEF TraceInv
<1>5. CASE c = n + 1
  BY <1>5, <1>1, <1>3
<1> QED  BY <1>2, <1>4, <1>5

LEMMA SpansOnlyBuilt ==
  [Next]_vars => BuildRoot \/ BuildChild \/ UNCHANGED <<spans, tree>>
BY DEF Next, vars, UpdateSpan, Submit, EndSpan, Log, Call

LEMMA TraceAlways ==
  ASSUME FormsKept
  PROVE  Spec => [](Shapes /\ TraceInv)
<1>1. Init => TraceInv
  <2>1. Len(<<>>) = 0
    BY EmptyArray
  <2> QED  BY <2>1 DEF Init, TraceInv
<1>2. Shapes /\ TraceInv /\ [Next]_vars => TraceInv'
  <2> SUFFICES ASSUME Shapes, TraceInv, [Next]_vars PROVE TraceInv'
    OBVIOUS
  <2>1. CASE BuildRoot \/ BuildChild
    BY <2>1, TraceBuild
  <2>2. CASE UNCHANGED <<spans, tree>>
    BY <2>2 DEF TraceInv
  <2> QED  BY <2>1, <2>2, SpansOnlyBuilt
<1>3. UniqueInv => Shapes
  BY DEF UniqueInv
<1> QED  BY <1>1, <1>2, <1>3, UniqueAlways, PTL DEF Spec

(* Spans exported to one another form one trace: a child names its parent, *)
(* shares its root and its propagated event, and the place where its rows  *)
(* go if an export keeps that of its parent.                               *)
THEOREM ChildrenShareTrace ==
  ASSUME FormsKept
  PROVE  Spec => []OneTrace
<1>1. Shapes /\ TraceInv => OneTrace
  BY SpanDomain DEF TraceInv, Follows, OneTrace
<1> QED  BY <1>1, TraceAlways, PTL

(* A span whose rows have a place that an export keeps can be exported as  *)
(* a parent and for an update, and the update goes to the row of the span. *)
THEOREM ExportsLeadBack ==
  ASSUME FormsKept
  PROVE  Spec => []ExportUsable
<1>1. Shapes /\ TraceInv => ExportUsable
  <2> SUFFICES ASSUME Shapes, TraceInv, NEW s \in DOMAIN spans,
                      DestinationOfSpan(spans[s]) # Invalid, ParentKept(spans[s])
               PROVE  /\ ToParentResolving(Exported(s)) # Invalid
                      /\ Updatable(Exported(s))
                      /\ <<DestinationOfUpdate(Exported(s)), Exported(s).row_id>> = Key(s)
    BY DEF ExportUsable
  <2>1. GoodSpan(spans[s])
    BY SpanDomain DEF TraceInv
  <2>2. /\ ToParentResolving(Exported(s)) # Invalid /\ Placed(Exported(s))
        /\ DestinationOfUpdate(Exported(s)) = DestinationOfSpan(spans[s])
    BY <2>1, ChildOfExport DEF Exported
  <2>3. /\ Exported(s).row_id = spans[s].row_id /\ Exported(s).span_id = spans[s].span_id
        /\ Exported(s).root_span_id = RootOfSpan(spans[s])
    BY <2>1, ExportKept DEF Exported
  <2>4. spans[s].row_id # None /\ spans[s].span_id # None /\ RootOfSpan(spans[s]) # None
    BY <2>1 DEF GoodSpan, Kept, IsId, RootOfSpan
  <2>5. Updatable(Exported(s))
    BY <2>2, <2>3, <2>4 DEF Updatable
  <2> QED  BY <2>2, <2>3, <2>5 DEF Key
<1> QED  BY <1>1, TraceAlways, PTL

-----------------------------------------------------------------------------
(* Where propagated events come from.                                      *)

(* What an export and its string form keep of any span. *)
LEMMA ExportCarries ==
  ASSUME NEW s, s.row_id # None
  PROVE  LET c == Parse(ToStr(Export(s))) IN
         /\ c.row_id = s.row_id /\ c.event = s.event
         /\ c.type = Export(s).type
         /\ \A o : LET d == [c EXCEPT !.object_id = o] IN d.event = c.event
<1> DEFINE e == Export(s)
           present == {f \in Fields : e[f] # None}
           hex == {f \in present : HexEncoded(e, f)}
           h == [f \in hex |-> Bytes(e[f])]
           j == [f \in present \ hex |-> e[f]]
           all == LaidOver(j, h)
           c == Parse(ToStr(e))
<1>1. e.row_id = s.row_id /\ e.event = s.event
  BY DEF Export
<1> HIDE DEF e
<1>2. ToStr(e).version = 4 /\ ToStr(e).type = e.type /\ ToStr(e).hex = h /\ ToStr(e).json = j
  BY DEF ToStr
<1>3. c = FromJsonObj(e.type, all)
  BY <1>2 DEF Parse, ParseV4
<1>4. DOMAIN all = present
  BY DEF LaidOver
<1>5. "row_id" \notin hex /\ "event" \notin hex
  BY DEF HexEncoded
<1>6. ("row_id" \in present => all["row_id"] = e.row_id) /\ ("event" \in present => all["event"] = e.event)
  BY <1>5 DEF LaidOver
<1>7. "row_id" \in Fields /\ "event" \in Fields
  BY DEF Fields
<1>8. ("row_id" \in present <=> e.row_id # None) /\ ("event" \in present <=> e.event # None)
  BY <1>7
<1> HIDE DEF all, present
<1> DEFINE g(f) == CASE f = "type" -> e.type [] f \in DOMAIN all -> all[f] [] OTHER -> None
<1>9. g("row_id") = e.row_id /\ g("event") = e.event
  BY <1>4, <1>6, <1>8
<1>10. g("type") = e.type
  <2>1. "type" \notin Fields
    BY DEF Fields
  <2>2. "type" \notin DOMAIN all
    BY <2>1, <1>4 DEF present
  <2> QED  BY <2>2
<1>11. c = [f \in Fields \cup {"type"} |-> g(f)]
  BY <1>3 DEF FromJsonObj
<1> HIDE DEF g, c
<1>12. c.row_id = e.row_id /\ c.event = e.event /\ c.type = e.type
  BY <1>7, <1>9, <1>10, <1>11
<1>13. \A o : LET d == [c EXCEPT !.object_id = o] IN d.event = c.event
  BY <1>7, <1>11
<1> QED  BY <1>1, <1>12, <1>13 DEF e, c

ObjectTypes == {"experiment", "project_logs", "playground_logs"}

(* A span under an exported one takes over its event, or has none. *)
LEMMA ParentCarries ==
  ASSUME NEW s, s.row_id # None,
         s.parent.kind = "full_span" => s.parent.type \in ObjectTypes,
         NEW q, q = ToParentResolving(Parse(ToStr(Export(s)))), q.kind = "full_span"
  PROVE  q.event = s.event /\ q.type \in ObjectTypes
<1> DEFINE c == Parse(ToStr(Export(s)))
           i == Identifier(c.object_id, c.args)
           promoted == c.type = "project_logs" /\ c.object_id = None /\ i.kind = "id"
           d == IF promoted THEN [c EXCEPT !.object_id = i.id] ELSE c
<1>1. /\ c.event = s.event /\ c.type = Export(s).type
      /\ \A o : LET x == [c EXCEPT !.object_id = o] IN x.event = c.event
  BY ExportCarries
<1>2. Export(s).type \in ObjectTypes
  BY DEF Export, ObjectTypes
<1> HIDE DEF c
<1>3. d.event = c.event
  <2>1. CASE promoted
    <3>1. d = [c EXCEPT !.object_id = i.id]
      BY <2>1
    <3> HIDE DEF i, d, promoted
    <3> QED  BY <3>1, <1>1
  <2>2. CASE ~promoted
    <3>1. d = c
      BY <2>2
    <3> HIDE DEF d, i, promoted
    <3> QED  BY <3>1
  <2> QED  BY <2>1, <2>2
<1>4. d.type \in ObjectTypes
  <2>1. CASE promoted
    <3>1. d = [c EXCEPT !.object_id = i.id] /\ c \in [Fields \cup {"type"} -> {c[f] : f \in Fields \cup {"type"}}]
      BY <2>1 DEF c, Parse, ParseV3, ParseV4, FromJsonObj
    <3> HIDE DEF i, d, promoted
    <3>2. d.type = c.type
      BY <3>1
    <3> QED  BY <3>2, <1>1, <1>2
  <2>2. CASE ~promoted
    <3>1. d = c
      BY <2>2
    <3> HIDE DEF d, i, promoted
    <3> QED  BY <3>1, <1>1, <1>2
  <2> QED  BY <2>1, <2>2
<1> HIDE DEF d
<1>5. q \in {ToParentSpanInfo(d), Invalid, [kind |-> "project_name", name |-> i.name],
             [kind |-> c.type, id |-> i.id], [kind |-> c.type, id |-> c.object_id]}
  BY DEF ToParentResolving, c, d
<1>6. q # Invalid
  BY DEF Invalid
<1>7. q # [kind |-> "project_name", name |-> i.name]
  OBVIOUS
<1>8. q # [kind |-> c.type, id |-> i.id] /\ q # [kind |-> c.type, id |-> c.object_id]
  <2>1. c.type # "full_span"
    BY <1>1, <1>2 DEF ObjectTypes
  <2> QED  BY <2>1
<1>9. q = [kind |-> "full_span", type |-> d.type, object_id |-> d.object_id, args |-> d.args,
           span_id |-> d.span_id, root_span_id |-> d.root_span_id, event |-> d.event]
  BY <1>5, <1>6, <1>7, <1>8 DEF ToParentSpanInfo
<1> QED  BY <1>1, <1>3, <1>4, <1>9

(* The event of every span was propagated from a root. *)
EventInv ==
  /\ Len(spans) <= MaxSpans
  /\ \A s \in 1..Len(spans) :
       /\ spans[s].row_id # None
       /\ spans[s].event \in Events \cup {None}
       /\ spans[s].parent.kind = "full_span" => spans[s].parent.type \in ObjectTypes

LEMMA BuiltEvent ==
  ASSUME NEW row_id, row_id # None, NEW span_id, NEW parent, NEW project,
         parent.kind = "full_span" => parent.event \in Events \cup {None} /\ parent.type \in ObjectTypes,
         NEW s, s = Built(row_id, span_id, parent, project)
  PROVE  /\ s.row_id # None /\ s.event \in Events \cup {None}
         /\ s.parent.kind = "full_span" => s.parent.type \in ObjectTypes
<1>1. /\ s.row_id = row_id /\ s.parent = parent
      /\ s.event = IF parent.kind = "full_span" THEN parent.event ELSE None
  BY BuiltIs
<1> QED  BY <1>1

LEMMA EventBuild ==
  ASSUME Shapes, EventInv, BuildRoot \/ BuildChild
  PROVE  EventInv' /\ \A s \in 1..Len(spans) : spans'[s] = spans[s]
<1> PICK n : n = Len(spans)
  OBVIOUS
<1>1. ASSUME NEW parent, NEW project, NEW row_id \in RowIds, NEW span_id, NEW under,
             Build(parent, project, row_id, span_id, under),
             parent.kind = "full_span" => parent.event \in Events \cup {None} /\ parent.type \in ObjectTypes
      PROVE  EventInv' /\ \A s \in 1..n : spans'[s] = spans[s]
  <2>1. /\ n \in Nat /\ Len(spans') = n + 1
        /\ \A s \in 1..n : spans'[s] = spans[s]
        /\ spans'[n + 1] = Built(row_id, span_id, parent, project)
    BY <1>1, BuildAdds DEF Built
  <2>4. n + 1 <= MaxSpans /\ n + 1 \in 1..MaxSpans
    BY <1>1, <2>1, SpanAssumption DEF Build
  <2>5. row_id # None
    <3>1. row_id = n + 1 \/ \E s \in DOMAIN spans : row_id = spans[s].row_id
      BY DEF RowIds
    <3>2. \A s \in DOMAIN spans : spans[s].row_id # None
      BY SpanDomain DEF EventInv
    <3> QED  BY <3>1, <3>2, <2>4, RootsAssumption
  <2>2. /\ spans'[n + 1].row_id # None /\ spans'[n + 1].event \in Events \cup {None}
        /\ spans'[n + 1].parent.kind = "full_span" => spans'[n + 1].parent.type \in ObjectTypes
    <3>1. PICK s : s = spans'[n + 1]
      OBVIOUS
    <3> QED  BY <1>1, <2>1, <2>5, <3>1, BuiltEvent
  <2>3. \A s \in 1..(n + 1) : s \in 1..n \/ s = n + 1
    BY <2>1
  <2> QED  BY <2>1, <2>2, <2>3, <2>4 DEF EventInv
<1>2. CASE BuildRoot
  <2>1. PICK r \in Roots, row_id \in RowIds, span_id \in SpanIds :
          Build(r.parent, r.project, row_id, span_id, 0)
    BY <1>2 DEF BuildRoot
  <2>2. r.parent.kind = "full_span" => r.parent.event \in Events \cup {None} /\ r.parent.type \in ObjectTypes
    <3> SUFFICES ASSUME r.parent.kind = "full_span"
                 PROVE  r.parent.event \in Events \cup {None} /\ r.parent.type \in ObjectTypes
      OBVIOUS
    <3>1. r.parent.event \in Events \cup {None}
      BY DEF Events
    <3>2. IsParent(r.parent)
      BY RootsAssumption
    <3> QED  BY <3>1, <3>2 DEF IsParent, ObjectTypes
  <2> QED  BY <1>1, <2>1, <2>2
<1>3. CASE BuildChild
  <2>1. PICK s \in DOMAIN spans, row_id \in RowIds, span_id \in SpanIds :
          Build(ToParentResolving(Exported(s)), None, row_id, span_id, s)
    BY <1>3 DEF BuildChild
  <2>2. s \in 1..n
    BY SpanDomain
  <2>3. spans[s].row_id # None
    BY <2>2 DEF EventInv
  <2> PICK q : q = ToParentResolving(Exported(s))
    OBVIOUS
  <2>4. q.kind = "full_span" => q.event \in Events \cup {None} /\ q.type \in ObjectTypes
    <3> SUFFICES ASSUME q.kind = "full_span" PROVE q.event \in Events \cup {None} /\ q.type \in ObjectTypes
      OBVIOUS
    <3>1. q.event = spans[s].event /\ q.type \in ObjectTypes
      BY <2>2, <2>3, ParentCarries DEF EventInv, Exported
    <3> QED  BY <2>2, <3>1 DEF EventInv
  <2> QED  BY <1>1, <2>1, <2>4
<1> QED  BY <1>2, <1>3

-----------------------------------------------------------------------------
(* Merging, when no path lies below another.                               *)

LEMMA MergeApart ==
  ASSUME PathsApart, NEW target, NEW source,
         DOMAIN target \subseteq Written, DOMAIN source \subseteq Written
  PROVE  LET m == MergeRowInto(target, source) IN
         /\ DOMAIN m = DOMAIN target \cup DOMAIN source
         /\ \A p \in DOMAIN m : m[p] = MergedValue(target, source, p)
<1> DEFINE kept == {p \in DOMAIN target : \A q \in DOMAIN source : ~Conflict(p, q)}
<1>1. \A p \in DOMAIN target \ DOMAIN source : p \in kept
  BY DEF PathsApart
<1>2. kept \cup DOMAIN source = DOMAIN target \cup DOMAIN source
  BY <1>1
<1>3. MergeRowInto(target, source) = [p \in kept \cup DOMAIN source |-> MergedValue(target, source, p)]
  BY DEF MergeRowInto
<1> HIDE DEF kept
<1> QED  BY <1>2, <1>3

(* A leaf that only the target has stays, whatever else the target has.    *)
LEMMA MergeKeeps ==
  ASSUME PathsApart, NEW target, NEW source, DOMAIN source \subseteq Written,
         NEW p \in (DOMAIN target \cap Written) \ DOMAIN source
  PROVE  /\ p \in DOMAIN MergeRowInto(target, source)
         /\ MergeRowInto(target, source)[p] = target[p]
<1> DEFINE kept == {r \in DOMAIN target : \A q \in DOMAIN source : ~Conflict(r, q)}
<1>1. p \in kept
  BY DEF PathsApart
<1>2. MergeRowInto(target, source) = [r \in kept \cup DOMAIN source |-> MergedValue(target, source, r)]
  BY DEF MergeRowInto
<1> HIDE DEF kept
<1>3. MergedValue(target, source, p) = target[p]
  BY DEF MergedValue
<1> QED  BY <1>1, <1>2, <1>3

(* A leaf of the source takes its place, or is united with what is there.  *)
LEMMA MergeWrites ==
  ASSUME NEW target, NEW source, NEW p \in DOMAIN source
  PROVE  /\ p \in DOMAIN MergeRowInto(target, source)
         /\ MergeRowInto(target, source)[p] = MergedValue(target, source, p)
BY DEF MergeRowInto

LEMMA EventWritten ==
  ASSUME NEW e \in Events
  PROVE  DOMAIN e \subseteq Written
BY DEF Written

(* What a snapshot or an update adds the event to is kept beside it. *)
LEMMA EventBeside ==
  ASSUME PathsApart, NEW content, DOMAIN content \subseteq Written, NEW e \in Events \cup {None}
  PROVE  LET w == WithEvent(content, e) IN
         /\ DOMAIN w = DOMAIN content \cup (IF e = None THEN {} ELSE DOMAIN e)
         /\ \A p \in DOMAIN content \ (IF e = None THEN {} ELSE DOMAIN e) : w[p] = content[p]
<1>1. CASE e = None
  BY <1>1 DEF WithEvent
<1>2. CASE e # None
  <2>1. e \in Events /\ DOMAIN e \subseteq Written
    BY <1>2, EventWritten
  <2>2. WithEvent(content, e) = MergeRowInto(content, e)
    BY <1>2 DEF WithEvent
  <2>3. DOMAIN MergeRowInto(content, e) = DOMAIN content \cup DOMAIN e
    BY <2>1, MergeApart
  <2>4. \A p \in DOMAIN content \ DOMAIN e : MergeRowInto(content, e)[p] = content[p]
    BY <2>1, MergeKeeps
  <2> QED  BY <1>2, <2>2, <2>3, <2>4
<1> QED  BY <1>1, <1>2

(* The content of a span: times of calls, sets where leaves are united.    *)
Content(f, now) ==
  /\ DOMAIN f \subseteq Written
  /\ \A p \in DOMAIN f : ~United(p) => f[p] \in 0..now

LEMMA AppliedContent ==
  ASSUME NEW f, NEW now \in Nat, Content(f, now), NEW p \in Written
  PROVE  /\ Content(Applied(f, p, now + 1), now + 1)
         /\ p \in DOMAIN Applied(f, p, now + 1)
<1> DEFINE over(q) == IF Head(p) \in Replaced THEN Head(q) = Head(p) ELSE Conflict(p, q)
           kept == {q \in DOMAIN f : ~over(q)}
           value(q) == IF q # p THEN f[q]
                       ELSE IF ~United(p) THEN now + 1
                       ELSE IF p \in DOMAIN f THEN f[p] \cup {now + 1} ELSE {now + 1}
<1>1. Applied(f, p, now + 1) = [q \in kept \cup {p} |-> value(q)]
  BY DEF Applied
<1>2. kept \subseteq DOMAIN f
  OBVIOUS
<1>3. \A q \in kept \cup {p} : ~United(q) => value(q) \in 0..(now + 1)
  <2> SUFFICES ASSUME NEW q \in kept \cup {p}, ~United(q) PROVE value(q) \in 0..(now + 1)
    OBVIOUS
  <2>1. CASE q = p
    BY <2>1
  <2>2. CASE q # p
    <3>1. f[q] \in 0..now
      BY <2>2 DEF Content
    <3> QED  BY <2>2, <3>1
  <2> QED  BY <2>1, <2>2
<1> HIDE DEF kept, value
<1>4. kept \cup {p} \subseteq Written
  BY <1>2 DEF Content
<1> QED  BY <1>1, <1>3, <1>4 DEF Content

LEMMA EndedContent ==
  ASSUME PathsApart, NEW f, NEW now \in Nat, Content(f, now), NEW ended \in 0..now
  PROVE  Content(MergeRowInto(f, [p \in {End} |-> ended]), now)
<1> DEFINE e == [p \in {End} |-> ended]
           m == MergeRowInto(f, e)
<1>1. DOMAIN e = {End} /\ e[End] = ended /\ End \in Written
  BY DEF Written
<1> HIDE DEF e
<1>2. DOMAIN m = DOMAIN f \cup DOMAIN e /\ \A p \in DOMAIN m : m[p] = MergedValue(f, e, p)
  BY <1>1, MergeApart DEF Content
<1> HIDE DEF m
<1>3. ASSUME NEW p \in DOMAIN m, ~United(p) PROVE m[p] \in 0..now
  <2>1. m[p] = IF p \in DOMAIN e THEN e[p] ELSE f[p]
    BY <1>2, <1>3 DEF MergedValue
  <2>2. CASE p \in DOMAIN e
    BY <1>1, <2>1, <2>2
  <2>3. CASE p \notin DOMAIN e
    BY <1>2, <1>3, <2>1, <2>3 DEF Content
  <2> QED  BY <2>2, <2>3
<1>4. Content(m, now)
  BY <1>1, <1>2, <1>3 DEF Content
<1> QED  BY <1>4 DEF m, e

-----------------------------------------------------------------------------
(* The last snapshot.                                                      *)

(* Everything of s was submitted in order, and the last row was stored. *)
AllSubmitted(s) ==
  LET n == Len(rows[s]) IN
  /\ n > 0 /\ n = data[s].taken
  /\ \A i \in 1..n : rows[s][i].taken = i
  /\ rows[s][n].stored

(* The server holds at p itself what was written there, or newer. *)
HeldThere(k, p, v) ==
  /\ p \in DOMAIN Held(k)
  /\ IF United(p) THEN v \subseteq Held(k)[p] ELSE Held(k)[p] \in Nat /\ Held(k)[p] >= v

ContentInv ==
  \A s \in 1..Len(spans) : Content(data[s].content, clock) /\ data[s].ended \in 0..clock

(* Snapshots are numbered, and the newest one has all that was logged. *)
NewestInv ==
  /\ \A s \in 1..Len(spans) : \A i \in 1..Len(rows[s]) : rows[s][i].taken \in 1..data[s].taken
  /\ \A t \in Threads : pending[t] # NoRow =>
       LET s == pending[t].span IN
       /\ pending[t].taken \in 1..data[s].taken
       /\ pending[t].taken = data[s].taken =>
            pending[t].content = WithEvent(data[s].content, spans[s].event)

StoredInv ==
  \A s \in 1..Len(spans) : Alone(s) /\ AllSubmitted(s) =>
    \A p \in DOMAIN data[s].content \ EventPaths(s) : HeldThere(Key(s), p, data[s].content[p])

SnapInv == Shapes /\ EventInv /\ ContentInv /\ NewestInv /\ StoredInv

LEMMA SnapInit == Init => SnapInv
<1> SUFFICES ASSUME Init PROVE SnapInv
  OBVIOUS
<1>1. Shapes
  BY UniqueInit DEF UniqueInv
<1>2. Len(spans) = 0 /\ \A t \in Threads : pending[t] = NoRow
  BY EmptyArray DEF Init
<1> QED  BY <1>1, <1>2, SpanAssumption DEF SnapInv, EventInv, ContentInv, NewestInv, StoredInv

LEMMA SnapBuild ==
  ASSUME SnapInv, BuildRoot \/ BuildChild, Shapes'
  PROVE  SnapInv'
<1> PICK n : n = Len(spans)
  OBVIOUS
<1>0. Shapes /\ EventInv /\ ContentInv /\ NewestInv /\ StoredInv
  BY DEF SnapInv
<1>1. EventInv' /\ \A s \in 1..n : spans'[s] = spans[s]
  BY <1>0, EventBuild
<1>2. PICK parent, project, row_id, span_id, under : Build(parent, project, row_id, span_id, under)
  BY DEF BuildRoot, BuildChild
<1>3. /\ n \in Nat /\ Len(spans') = n + 1
      /\ \A s \in 1..n : data'[s] = data[s] /\ rows'[s] = rows[s]
      /\ data'[n + 1] = [content |-> Empty, ended |-> 0, has_flushed |-> FALSE, taken |-> 0]
      /\ rows'[n + 1] = <<>> /\ pending' = pending /\ server' = server /\ clock' = clock
  BY <1>0, <1>2, BuildAdds
<1>4. Len(<<>>) = 0
  BY EmptyArray
<1>5. clock \in Nat /\ (\A s \in 1..(n + 1) : s \in 1..n \/ s = n + 1)
  BY <1>0, <1>3 DEF Shapes
<1>6. ContentInv'
  <2>1. Content(data'[n + 1].content, clock) /\ data'[n + 1].ended \in 0..clock
    BY <1>3, <1>5 DEF Content, Empty
  <2>2. \A s \in 1..n : Content(data'[s].content, clock) /\ data'[s].ended \in 0..clock
    BY <1>0, <1>3 DEF ContentInv
  <2> QED  BY <2>1, <2>2, <1>3, <1>5 DEF ContentInv
<1>7. NewestInv'
  <2>1. \A t \in Threads : pending[t] # NoRow => pending[t].span \in 1..n
    BY <1>0 DEF Shapes
  <2>2. \A t \in Threads : pending[t] # NoRow =>
          data'[pending[t].span] = data[pending[t].span] /\ spans'[pending[t].span] = spans[pending[t].span]
    BY <2>1, <1>1, <1>3
  <2>3. \A s \in 1..n : \A i \in 1..Len(rows'[s]) : rows'[s][i].taken \in 1..data'[s].taken
    BY <1>0, <1>3 DEF NewestInv
  <2>4. \A i \in 1..Len(rows'[n + 1]) : rows'[n + 1][i].taken \in 1..data'[n + 1].taken
    BY <1>3, <1>4
  <2>5. \A s \in 1..(n + 1) : \A i \in 1..Len(rows'[s]) : rows'[s][i].taken \in 1..data'[s].taken
    BY <2>3, <2>4, <1>5
  <2> QED  BY <1>0, <2>2, <2>5, <1>3 DEF NewestInv
<1>9. DOMAIN spans = 1..n /\ DOMAIN spans' = 1..(n + 1)
  <2>1. Array(spans', n + 1)
    BY <1>0, <1>2, BuildAdds
  <2> QED  BY <2>1, <1>0, <1>3, SpanDomain, ArrayLength
<1>8. StoredInv'
  <2> SUFFICES ASSUME NEW s \in 1..(n + 1), Alone(s)', AllSubmitted(s)',
                      NEW p \in DOMAIN data'[s].content \ EventPaths(s)'
               PROVE  HeldThere(Key(s), p, data[s].content[p])'
    BY <1>3 DEF StoredInv
  <2>1. s # n + 1
    BY <1>3, <1>4 DEF AllSubmitted
  <2>2. s \in 1..n
    BY <2>1, <1>5
  <2>3. data'[s] = data[s] /\ rows'[s] = rows[s] /\ spans'[s] = spans[s]
    BY <2>2, <1>1, <1>3
  <2>6. Alone(s)
    <3>1. \A r \in 1..n : spans'[r].row_id = spans'[s].row_id => r = s
      BY <1>9 DEF Alone
    <3> QED  BY <3>1, <2>2, <1>1, <1>9 DEF Alone
  <2>4. AllSubmitted(s) /\ EventPaths(s)' = EventPaths(s) /\ Key(s)' = Key(s)
    BY <2>3 DEF AllSubmitted, EventPaths, Key
  <2>5. HeldThere(Key(s), p, data[s].content[p])
    BY <1>0, <2>2, <2>3, <2>4, <2>6 DEF StoredInv
  <2> QED  BY <2>3, <2>4, <2>5, <1>3 DEF HeldThere, Held
<1> QED  BY <1>1, <1>6, <1>7, <1>8 DEF SnapInv

(* What a call that takes a snapshot has written. *)
LEMMA CallsWrite ==
  ASSUME PathsApart, SnapInv, NEW t \in Threads, NEW s \in 1..Len(spans),
         EndSpan(t, s) \/ \E p \in Paths : Log(t, s, p)
  PROVE  \E d : /\ Taking(t, s, d) /\ Data(d) /\ d.taken = data[s].taken
                /\ Content(d.content, clock + 1) /\ d.ended \in 0..(clock + 1)
<1>1. Data(data[s]) /\ clock \in Nat /\ Content(data[s].content, clock) /\ data[s].ended \in 0..clock
  BY DEF SnapInv, Shapes, ContentInv
<1>2. CASE EndSpan(t, s)
  <2> DEFINE d == [data[s] EXCEPT !.ended = clock + 1]
  <2>1. Taking(t, s, d)
    BY <1>2 DEF EndSpan, Call, Taking
  <2>2. Data(d) /\ d.taken = data[s].taken /\ d.content = data[s].content /\ d.ended = clock + 1
    BY <1>1 DEF Data
  <2>3. Content(data[s].content, clock + 1)
    BY <1>1 DEF Content
  <2> HIDE DEF d
  <2>4. Content(d.content, clock + 1) /\ d.ended \in 0..(clock + 1)
    BY <1>1, <2>2, <2>3
  <2> QED  BY <2>1, <2>2, <2>4
<1>3. ASSUME NEW p \in Paths, Log(t, s, p)
      PROVE  \E d : /\ Taking(t, s, d) /\ Data(d) /\ d.taken = data[s].taken
                    /\ Content(d.content, clock + 1) /\ d.ended \in 0..(clock + 1)
  <2> DEFINE d == [data[s] EXCEPT !.content = Applied(@, p, clock + 1)]
  <2>1. Taking(t, s, d)
    BY <1>3 DEF Log, Call, Taking
  <2>2. /\ Data(d) /\ d.taken = data[s].taken /\ d.content = Applied(data[s].content, p, clock + 1)
        /\ d.ended = data[s].ended
    BY <1>1 DEF Data
  <2>3. Content(Applied(data[s].content, p, clock + 1), clock + 1)
    BY <1>1, AppliedContent DEF Written
  <2> HIDE DEF d
  <2>4. Content(d.content, clock + 1) /\ d.ended \in 0..(clock + 1)
    BY <1>1, <2>2, <2>3
  <2> QED  BY <2>1, <2>2, <2>4
<1> QED  BY <1>2, <1>3

LEMMA SnapTaking ==
  ASSUME PathsApart, SnapInv, NEW t \in Threads, NEW s \in 1..Len(spans), NEW d,
         Taking(t, s, d), Data(d), d.taken = data[s].taken,
         Content(d.content, clock + 1), d.ended \in 0..(clock + 1), Shapes'
  PROVE  SnapInv'
<1> DEFINE c == IF d.ended = 0 THEN d.content ELSE MergeRowInto(d.content, [p \in {End} |-> d.ended])
           new == [content |-> c, ended |-> d.ended, has_flushed |-> TRUE, taken |-> d.taken + 1]
           row == [span |-> s, taken |-> d.taken + 1, is_merge |-> d.has_flushed,
                   content |-> WithEvent(c, spans[s].event)]
<1>0. Shapes /\ EventInv /\ ContentInv /\ NewestInv /\ StoredInv
  BY DEF SnapInv
<1>1. /\ data'[s] = new
      /\ \A r \in 1..Len(spans) : r # s => data'[r] = data[r]
      /\ pending'[t] = row
      /\ \A u \in Threads : u # t => pending'[u] = pending[u]
  <2>1. Took(t, s, d)
    BY <1>0, TakingChanges
  <2> QED  BY ONLY <2>1 DEF Took
<1>2. clock \in Nat /\ Content(c, clock + 1)
  <2>1. clock \in Nat
    BY <1>0 DEF Shapes
  <2> PICK now, f, e : now = clock + 1 /\ f = d.content /\ e = d.ended
    OBVIOUS
  <2>2. now \in Nat /\ Content(f, now) /\ e \in 0..now
    BY <2>1
  <2>3. Content(MergeRowInto(f, [p \in {End} |-> e]), now)
    BY <2>2, EndedContent
  <2>4. c = IF e = 0 THEN f ELSE MergeRowInto(f, [p \in {End} |-> e])
    OBVIOUS
  <2> QED  BY <2>1, <2>2, <2>3, <2>4
<1> HIDE DEF c
<1>3. /\ data'[s].content = c /\ data'[s].ended = d.ended /\ data'[s].taken = d.taken + 1
      /\ pending'[t].span = s /\ pending'[t].taken = d.taken + 1
      /\ pending'[t].content = WithEvent(c, spans[s].event)
  BY <1>1
<1> HIDE DEF new, row
<1>4. spans' = spans /\ rows' = rows /\ server' = server /\ clock' = clock + 1
  BY DEF Taking
<1>5. d.taken \in Nat /\ d.taken = data[s].taken
  BY DEF Data
<1>6. EventInv'
  BY <1>0, <1>4 DEF EventInv
<1>7. ContentInv'
  <2> SUFFICES ASSUME NEW r \in 1..Len(spans)
               PROVE  Content(data'[r].content, clock + 1) /\ data'[r].ended \in 0..(clock + 1)
    BY <1>4 DEF ContentInv
  <2>1. CASE r = s
    BY <2>1, <1>2, <1>3
  <2>2. CASE r # s
    <3>1. Content(data[r].content, clock) /\ data[r].ended \in 0..clock /\ data'[r] = data[r]
      BY <1>0, <1>1, <2>2 DEF ContentInv
    <3>2. data[r].ended \in 0..(clock + 1)
      BY <3>1, <1>2
    <3>3. Content(data[r].content, clock + 1)
      BY <3>1, <1>2 DEF Content
    <3> QED  BY <3>1, <3>2, <3>3
  <2> QED  BY <2>1, <2>2
<1>8. NewestInv'
  <2>1. \A r \in 1..Len(spans) : \A i \in 1..Len(rows[r]) : rows[r][i].taken \in 1..data'[r].taken
    <3> SUFFICES ASSUME NEW r \in 1..Len(spans), NEW i \in 1..Len(rows[r])
                 PROVE  rows[r][i].taken \in 1..data'[r].taken
      OBVIOUS
    <3>1. rows[r][i].taken \in 1..data[r].taken
      BY <1>0 DEF NewestInv
    <3>2. CASE r = s
      BY <3>1, <3>2, <1>3, <1>5
    <3>3. CASE r # s
      BY <3>1, <3>3, <1>1
    <3> QED  BY <3>2, <3>3
  <2>2. ASSUME NEW u \in Threads, pending'[u] # NoRow, NEW r, r = pending'[u].span
        PROVE  /\ pending'[u].taken \in 1..data'[r].taken
               /\ pending'[u].taken = data'[r].taken =>
                    pending'[u].content = WithEvent(data'[r].content, spans[r].event)
    <3>1. CASE u = t
      BY <2>2, <3>1, <1>3, <1>5
    <3>2. CASE u # t
      <4>1. pending'[u] = pending[u] /\ r \in 1..Len(spans)
        BY <2>2, <3>2, <1>0, <1>1 DEF Shapes
      <4>2. /\ pending[u].taken \in 1..data[r].taken
            /\ pending[u].taken = data[r].taken =>
                 pending[u].content = WithEvent(data[r].content, spans[r].event)
        BY <4>1, <2>2, <1>0 DEF NewestInv
      <4>3. CASE r = s
        BY <4>1, <4>2, <4>3, <1>3, <1>5
      <4>4. CASE r # s
        BY <4>1, <4>2, <4>4, <1>1
      <4> QED  BY <4>3, <4>4
    <3> QED  BY <3>1, <3>2
  <2> QED  BY <1>4, <2>1, <2>2 DEF NewestInv
<1>9. StoredInv'
  <2> SUFFICES ASSUME NEW r \in 1..Len(spans), Alone(r)', AllSubmitted(r)',
                      NEW p \in DOMAIN data'[r].content \ EventPaths(r)'
               PROVE  HeldThere(Key(r), p, data[r].content[p])'
    BY <1>4 DEF StoredInv
  <2>1. CASE r = s
    <3>1. Len(rows[s]) = d.taken + 1 /\ \A i \in 1..Len(rows[s]) : rows[s][i].taken = i
      BY <2>1, <1>3, <1>4 DEF AllSubmitted
    <3>2. \A i \in 1..Len(rows[s]) : rows[s][i].taken \in 1..d.taken
      BY <1>0, <1>5 DEF NewestInv
    <3>3. d.taken + 1 \in 1..Len(rows[s])
      BY <3>1, <1>5
    <3>4. d.taken + 1 \in 1..d.taken
      BY <3>1, <3>2, <3>3
    <3> QED  BY <3>4, <1>5
  <2>2. CASE r # s
    <3>1. data'[r] = data[r] /\ rows'[r] = rows[r] /\ spans'[r] = spans[r]
      BY <2>2, <1>1, <1>4
    <3>2. AllSubmitted(r) /\ EventPaths(r)' = EventPaths(r) /\ Key(r)' = Key(r)
      BY <3>1 DEF AllSubmitted, EventPaths, Key
    <3>4. Alone(r)
      BY <1>4 DEF Alone
    <3>3. HeldThere(Key(r), p, data[r].content[p])
      BY <1>0, <3>1, <3>2, <3>4 DEF StoredInv
    <3> QED  BY <3>1, <3>2, <3>3, <1>4 DEF HeldThere, Held
  <2> QED  BY <2>1, <2>2
<1> QED  BY <1>6, <1>7, <1>8, <1>9 DEF SnapInv

LEMMA ReceiveChanges ==
  ASSUME NEW k, NEW m \in BOOLEAN, NEW content, Receive(k, m, content)
  PROVE  /\ k \in DOMAIN server'
         /\ server'[k] = IF m THEN MergeRowInto(Held(k), content) ELSE content
         /\ \A l : l # k => Held(l)' = Held(l)
<1> DEFINE new == IF m THEN MergeRowInto(Held(k), content) ELSE content
<1>1. server' = [l \in DOMAIN server \cup {k} |-> IF l # k THEN server[l] ELSE new]
  BY DEF Receive
<1> HIDE DEF new
<1>2. k \in DOMAIN server' /\ server'[k] = new
  BY <1>1
<1>3. \A l : l # k => Held(l)' = Held(l)
  BY <1>1 DEF Held
<1> QED  BY <1>2, <1>3 DEF new

(* A span that is alone on its row has a key of its own. *)
LEMMA KeysDiffer ==
  ASSUME Shapes, NEW r \in 1..Len(spans), NEW s \in 1..Len(spans), r # s, Alone(r)
  PROVE  Key(r) # Key(s)
<1>1. spans[s].row_id # spans[r].row_id
  BY SpanDomain DEF Alone
<1> QED  BY <1>1 DEF Key

(* Once the newest snapshot is stored, the server holds all that it has.   *)
LEMMA NewestHeld ==
  ASSUME PathsApart, SnapInv, NEW s \in 1..Len(spans), NEW m \in BOOLEAN,
         Receive(Key(s), m, WithEvent(data[s].content, spans[s].event)),
         Key(s)' = Key(s), data'[s] = data[s],
         NEW p \in DOMAIN data[s].content \ EventPaths(s)
  PROVE  HeldThere(Key(s), p, data[s].content[p])'
<1> DEFINE f == data[s].content
           w == WithEvent(f, spans[s].event)
<1>1. Content(f, clock) /\ clock \in Nat /\ spans[s].event \in Events \cup {None}
  BY DEF SnapInv, Shapes, ContentInv, EventInv
<1>2. p \in DOMAIN w /\ w[p] = f[p]
  <2>1. /\ DOMAIN w = DOMAIN f \cup EventPaths(s)
        /\ \A q \in DOMAIN f \ EventPaths(s) : w[q] = f[q]
    <3> HIDE DEF f
    <3> QED  BY <1>1, EventBeside DEF Content, EventPaths
  <2> QED  BY <2>1
<1>3. Key(s) \in DOMAIN server' /\ server'[Key(s)] = IF m THEN MergeRowInto(Held(Key(s)), w) ELSE w
  <2>1. PICK k : k = Key(s)
    OBVIOUS
  <2>2. Receive(k, m, w) /\ m \in BOOLEAN
    BY <2>1
  <2>3. k \in DOMAIN server' /\ server'[k] = IF m THEN MergeRowInto(Held(k), w) ELSE w
    <3> HIDE DEF w
    <3> QED  BY ONLY <2>2, ReceiveChanges
  <2> QED  BY ONLY <2>1, <2>3
<1>4. p \in DOMAIN server'[Key(s)]
      /\ server'[Key(s)][p] \in {w[p], MergedValue(Held(Key(s)), w, p)}
  <2>1. CASE m
    <3>1. server'[Key(s)] = MergeRowInto(Held(Key(s)), w)
      BY <1>3, <2>1
    <3> HIDE DEF w
    <3> QED  BY <1>2, <3>1, MergeWrites
  <2>2. CASE ~m
    <3>1. server'[Key(s)] = w
      BY <1>3, <2>2
    <3> HIDE DEF w
    <3> QED  BY <1>2, <3>1
  <2> QED  BY <2>1, <2>2
<1> HIDE DEF w, f
<1>5. CASE United(p)
  <2>1. MergedValue(Held(Key(s)), w, p) \in {w[p], Held(Key(s))[p] \cup w[p]}
    BY <1>2, <1>5 DEF MergedValue
  <2>2. f[p] \subseteq server'[Key(s)][p]
    BY <1>2, <1>4, <2>1
  <2> QED  BY <1>3, <1>4, <1>5, <2>2 DEF HeldThere, Held, f
<1>6. CASE ~United(p)
  <2>1. MergedValue(Held(Key(s)), w, p) = w[p]
    BY <1>2, <1>6 DEF MergedValue
  <2>2. f[p] \in Nat
    BY <1>1, <1>6 DEF Content, f
  <2>3. server'[Key(s)][p] \in Nat /\ server'[Key(s)][p] >= f[p]
    BY <1>2, <1>4, <2>1, <2>2
  <2> QED  BY <1>3, <1>4, <1>6, <2>3 DEF HeldThere, Held, f
<1> QED  BY <1>5, <1>6

LEMMA SnapSubmit ==
  ASSUME PathsApart, SnapInv, NEW t \in Threads, Submit(t), Shapes'
  PROVE  SnapInv'
<1> PICK s : s = pending[t].span
  OBVIOUS
<1>0. Shapes /\ EventInv /\ ContentInv /\ NewestInv /\ StoredInv
  BY DEF SnapInv
<1>1. /\ s \in 1..Len(spans)
      /\ \A r \in 1..Len(spans) : r # s => rows'[r] = rows[r]
      /\ Len(rows'[s]) = Len(rows[s]) + 1
      /\ \A i \in 1..Len(rows[s]) : rows'[s][i] = rows[s][i]
      /\ rows'[s][Len(rows[s]) + 1].taken = pending[t].taken
      /\ \/ /\ rows'[s][Len(rows[s]) + 1].stored
            /\ Receive(Key(s), pending[t].is_merge, pending[t].content)
         \/ ~rows'[s][Len(rows[s]) + 1].stored /\ server' = server
      /\ pending' = [u \in Threads |-> IF u = t THEN NoRow ELSE pending[u]]
      /\ spans' = spans /\ data' = data /\ clock' = clock
  BY <1>0, SubmitChanges
<1>2. pending[t] # NoRow /\ Len(rows[s]) \in Nat /\ pending[t].is_merge \in BOOLEAN
  BY <1>0, <1>1 DEF Submit, Shapes
<1>3. EventInv' /\ ContentInv'
  BY <1>0, <1>1 DEF EventInv, ContentInv
<1>4. /\ pending[t].taken \in 1..data[s].taken
      /\ pending[t].taken = data[s].taken =>
           pending[t].content = WithEvent(data[s].content, spans[s].event)
  BY <1>0, <1>2 DEF NewestInv
<1>5. NewestInv'
  <2>1. \A r \in 1..Len(spans) : \A i \in 1..Len(rows'[r]) : rows'[r][i].taken \in 1..data[r].taken
    <3> SUFFICES ASSUME NEW r \in 1..Len(spans), NEW i \in 1..Len(rows'[r])
                 PROVE  rows'[r][i].taken \in 1..data[r].taken
      OBVIOUS
    <3>1. CASE r # s
      BY <3>1, <1>0, <1>1 DEF NewestInv
    <3>2. CASE r = s /\ i \in 1..Len(rows[s])
      BY <3>2, <1>0, <1>1 DEF NewestInv
    <3>3. CASE r = s /\ i = Len(rows[s]) + 1
      BY <3>3, <1>1, <1>4
    <3> QED  BY <3>1, <3>2, <3>3, <1>1, <1>2
  <2>2. \A u \in Threads : pending'[u] # NoRow => pending'[u] = pending[u]
    BY <1>1
  <2> QED  BY <2>1, <2>2, <1>0, <1>1 DEF NewestInv
<1>6. StoredInv'
  <2> SUFFICES ASSUME NEW r \in 1..Len(spans), Alone(r)', AllSubmitted(r)',
                      NEW p \in DOMAIN data[r].content \ EventPaths(r)
               PROVE  HeldThere(Key(r), p, data[r].content[p])'
    <3>1. \A r : EventPaths(r)' = EventPaths(r)
      BY <1>1 DEF EventPaths
    <3> QED  BY <1>1, <3>1 DEF StoredInv
  <2>1. Key(r)' = Key(r) /\ data'[r] = data[r]
    BY <1>1 DEF Key
  <2>2. CASE r = s
    <3>1. /\ Len(rows[s]) + 1 = data[s].taken
          /\ rows'[s][Len(rows[s]) + 1].taken = Len(rows[s]) + 1
          /\ rows'[s][Len(rows[s]) + 1].stored
      <4>1. Len(rows[s]) + 1 \in 1..(Len(rows[s]) + 1)
        BY <1>2
      <4>2. /\ Len(rows'[s]) = data'[s].taken
            /\ \A i \in 1..Len(rows'[s]) : rows'[s][i].taken = i
            /\ rows'[s][Len(rows'[s])].stored
        BY <2>2 DEF AllSubmitted
      <4> QED  BY <4>1, <4>2, <1>1
    <3>2. pending[t].content = WithEvent(data[s].content, spans[s].event)
      BY <3>1, <1>1, <1>4
    <3>3. Receive(Key(s), pending[t].is_merge, WithEvent(data[s].content, spans[s].event))
      BY <3>1, <3>2, <1>1
    <3> QED  BY <3>3, <2>1, <2>2, <1>2, NewestHeld
  <2>3. CASE r # s
    <3>1. Alone(r) /\ AllSubmitted(r)
      BY <2>3, <1>1 DEF Alone, AllSubmitted
    <3>2. HeldThere(Key(r), p, data[r].content[p])
      BY <3>1, <1>0 DEF StoredInv
    <3>3. Held(Key(r))' = Held(Key(r))
      <4>1. Key(r) # Key(s)
        BY <2>3, <3>1, <1>0, <1>1, KeysDiffer
      <4>2. CASE server' = server
        BY <4>2, <2>1 DEF Held
      <4>3. CASE Receive(Key(s), pending[t].is_merge, pending[t].content)
        <5>1. \A l : l # Key(s) => Held(l)' = Held(l)
          BY <4>3, <1>2, ReceiveChanges
        <5> PICK l : l = Key(r)
          OBVIOUS
        <5> QED  BY <5>1, <4>1, <2>1
      <4> QED  BY <4>2, <4>3, <1>1
    <3> QED  BY <3>2, <3>3, <2>1 DEF HeldThere
  <2> QED  BY <2>2, <2>3
<1> QED  BY <1>3, <1>5, <1>6 DEF SnapInv

(* An update leaves what was logged, unless it writes there later. *)
LEMMA UpdateHeld ==
  ASSUME PathsApart, SnapInv, NEW s \in 1..Len(spans), NEW q \in Updated,
         Receive(Key(s), TRUE, WithEvent(Applied(Empty, q, clock + 1), spans[s].event)),
         Key(s)' = Key(s), data'[s] = data[s],
         NEW p \in DOMAIN data[s].content \ EventPaths(s),
         HeldThere(Key(s), p, data[s].content[p])
  PROVE  HeldThere(Key(s), p, data[s].content[p])'
<1> DEFINE u == Applied(Empty, q, clock + 1)
           w == WithEvent(u, spans[s].event)
           held == Held(Key(s))
           f == data[s].content
<1>4. Key(s) \in DOMAIN server' /\ server'[Key(s)] = MergeRowInto(held, w)
  BY ReceiveChanges
<1>1. Content(f, clock) /\ clock \in Nat /\ spans[s].event \in Events \cup {None} /\ p \in DOMAIN f \ EventPaths(s)
  BY DEF SnapInv, Shapes, ContentInv, EventInv
<1>2. DOMAIN u = {q} /\ u[q] = (IF United(q) THEN {clock + 1} ELSE clock + 1) /\ q \in Written
  BY DEF Applied, Empty, Written
<1> HIDE DEF u
<1>3. /\ DOMAIN w = DOMAIN u \cup EventPaths(s) /\ \A r \in DOMAIN u \ EventPaths(s) : w[r] = u[r]
      /\ DOMAIN w \subseteq Written
  <2>1. DOMAIN w = DOMAIN u \cup EventPaths(s) /\ \A r \in DOMAIN u \ EventPaths(s) : w[r] = u[r]
    BY <1>1, <1>2, EventBeside DEF EventPaths
  <2>2. EventPaths(s) \subseteq Written
    BY <1>1, EventWritten DEF EventPaths
  <2> QED  BY <2>1, <2>2, <1>2
<1> HIDE DEF w
<1>5. p \in DOMAIN held /\ p \in Written
      /\ IF United(p) THEN f[p] \subseteq held[p] ELSE held[p] \in Nat /\ held[p] >= f[p]
  BY <1>1 DEF HeldThere, Content
<1> HIDE DEF held, f
<1>6. CASE p \notin DOMAIN w
  <2>1. p \in DOMAIN MergeRowInto(held, w) /\ MergeRowInto(held, w)[p] = held[p]
    BY <1>3, <1>5, <1>6, MergeKeeps
  <2> QED  BY <1>4, <1>5, <2>1 DEF HeldThere, Held, f
<1>7. CASE p \in DOMAIN w
  <2>1. p = q /\ w[p] = IF United(p) THEN {clock + 1} ELSE clock + 1
    BY <1>1, <1>2, <1>3, <1>7
  <2>2. p \in DOMAIN MergeRowInto(held, w) /\ MergeRowInto(held, w)[p] = MergedValue(held, w, p)
    BY <1>7, MergeWrites
  <2>3. CASE United(p)
    <3>1. MergedValue(held, w, p) = held[p] \cup w[p]
      BY <1>5, <1>7, <2>3 DEF MergedValue
    <3> QED  BY <1>4, <1>5, <2>2, <2>3, <3>1 DEF HeldThere, Held, f
  <2>4. CASE ~United(p)
    <3>1. MergedValue(held, w, p) = clock + 1
      BY <1>7, <2>1, <2>4 DEF MergedValue
    <3>2. f[p] \in 0..clock
      BY <1>1, <2>4 DEF Content
    <3>3. clock + 1 \in Nat /\ clock + 1 >= f[p]
      BY <1>1, <3>2
    <3> QED  BY <1>4, <2>2, <2>4, <3>1, <3>3 DEF HeldThere, Held, f
  <2> QED  BY <2>3, <2>4
<1> QED  BY <1>6, <1>7

LEMMA SnapUpdate ==
  ASSUME PathsApart, SnapInv, NEW s \in DOMAIN spans, NEW q \in Updated, UpdateSpan(s, q), Shapes'
  PROVE  SnapInv'
<1> DEFINE c == Exported(s)
           content == Applied(Empty, q, clock + 1)
<1>0. Shapes /\ EventInv /\ ContentInv /\ NewestInv /\ StoredInv /\ clock \in Nat
  BY DEF SnapInv, Shapes
<1>1. /\ spans' = spans /\ tree' = tree /\ data' = data /\ pending' = pending /\ rows' = rows
      /\ clock' = clock + 1
  BY DEF UpdateSpan
<1>2. s \in 1..Len(spans)
  BY <1>0, SpanDomain
<1>3. EventInv' /\ NewestInv'
  BY <1>0, <1>1 DEF EventInv, NewestInv
<1>4. ContentInv'
  <2> SUFFICES ASSUME NEW r \in 1..Len(spans)
               PROVE  Content(data[r].content, clock + 1) /\ data[r].ended \in 0..(clock + 1)
    BY <1>1 DEF ContentInv
  <2>1. Content(data[r].content, clock) /\ data[r].ended \in 0..clock
    BY <1>0 DEF ContentInv
  <2>2. Content(data[r].content, clock + 1)
    BY <2>1, <1>0 DEF Content
  <2>3. data[r].ended \in 0..(clock + 1)
    BY <2>1, <1>0
  <2> QED  BY <2>2, <2>3
<1>5. c.row_id = spans[s].row_id /\ c.event = spans[s].event
  <2>1. spans[s].row_id # None
    BY <1>0, <1>2 DEF EventInv
  <2> QED  BY <2>1, ExportCarries DEF Exported
<1>6. StoredInv'
  <2> SUFFICES ASSUME NEW r \in 1..Len(spans), Alone(r)', AllSubmitted(r)',
                      NEW p \in DOMAIN data[r].content \ EventPaths(r)
               PROVE  HeldThere(Key(r), p, data[r].content[p])'
    <3>1. \A r : EventPaths(r)' = EventPaths(r)
      BY <1>1 DEF EventPaths
    <3> QED  BY <1>1, <3>1 DEF StoredInv
  <2>1. Key(r)' = Key(r) /\ data'[r] = data[r] /\ Alone(r) /\ AllSubmitted(r)
    BY <1>1 DEF Key, Alone, AllSubmitted
  <2>2. HeldThere(Key(r), p, data[r].content[p])
    BY <2>1, <1>0 DEF StoredInv
  <2>3. CASE server' = server
    BY <2>1, <2>2, <2>3 DEF HeldThere, Held
  <2>4. CASE Receive(<<DestinationOfUpdate(c), c.row_id>>, TRUE, WithEvent(content, c.event))
    <3> PICK k : k = <<DestinationOfUpdate(c), c.row_id>>
      OBVIOUS
    <3>1. CASE Key(r) = k
      <4>1. spans[r].row_id = c.row_id
        BY <3>1 DEF Key
      <4>2. r = s
        BY <4>1, <2>1, <1>5 DEF Alone
      <4>3. Receive(Key(s), TRUE, WithEvent(content, spans[s].event))
        BY <2>4, <3>1, <4>2, <1>5
      <4> QED  BY <4>2, <4>3, <2>1, <2>2, UpdateHeld
    <3>2. CASE Key(r) # k
      <4>1. \A l : l # k => Held(l)' = Held(l)
        BY <2>4, ReceiveChanges
      <4> PICK l : l = Key(r)
        OBVIOUS
      <4>2. Held(Key(r))' = Held(Key(r))
        BY <4>1, <3>2, <2>1
      <4> QED  BY <4>2, <2>1, <2>2 DEF HeldThere
    <3> QED  BY <3>1, <3>2
  <2> QED  BY <2>3, <2>4 DEF UpdateSpan
<1> QED  BY <1>3, <1>4, <1>6 DEF SnapInv

LEMMA SnapAlways ==
  ASSUME PathsApart
  PROVE  Spec => []SnapInv
<1>1. SnapInv /\ Shapes' /\ [Next]_vars => SnapInv'
  <2> SUFFICES ASSUME SnapInv, Shapes', [Next]_vars PROVE SnapInv'
    OBVIOUS
  <2>1. CASE BuildRoot \/ BuildChild
    BY <2>1, SnapBuild
  <2>2. ASSUME NEW s \in DOMAIN spans, NEW q \in Updated, UpdateSpan(s, q) PROVE SnapInv'
    BY <2>2, SnapUpdate
  <2>3. ASSUME NEW t \in Threads, Submit(t) PROVE SnapInv'
    BY <2>3, SnapSubmit
  <2>4. ASSUME NEW t \in Threads, NEW s \in DOMAIN spans, EndSpan(t, s) \/ \E p \in Paths : Log(t, s, p)
        PROVE  SnapInv'
    <3>1. s \in 1..Len(spans)
      BY SpanDomain DEF SnapInv
    <3>2. PICK d : /\ Taking(t, s, d) /\ Data(d) /\ d.taken = data[s].taken
                   /\ Content(d.content, clock + 1) /\ d.ended \in 0..(clock + 1)
      BY <2>4, <3>1, CallsWrite
    <3> QED  BY <3>1, <3>2, SnapTaking
  <2>5. CASE UNCHANGED vars
    <3>1. spans' = spans /\ data' = data /\ pending' = pending /\ rows' = rows /\ server' = server /\ clock' = clock
      BY <2>5 DEF vars
    <3>2. EventInv' /\ ContentInv' /\ NewestInv'
      BY <3>1 DEF SnapInv, EventInv, ContentInv, NewestInv
    <3>3. StoredInv'
      <4> SUFFICES ASSUME NEW s \in 1..Len(spans), Alone(s)', AllSubmitted(s)',
                          NEW p \in DOMAIN data[s].content \ EventPaths(s)
                   PROVE  HeldThere(Key(s), p, data[s].content[p])'
        <5>1. \A s : EventPaths(s)' = EventPaths(s)
          BY <3>1 DEF EventPaths
        <5> QED  BY <3>1, <5>1 DEF StoredInv
      <4>1. Alone(s) /\ AllSubmitted(s)
        BY <3>1 DEF Alone, AllSubmitted
      <4>2. HeldThere(Key(s), p, data[s].content[p])
        BY <4>1 DEF SnapInv, StoredInv
      <4>3. Key(s)' = Key(s)
        BY <3>1 DEF Key
      <4> QED  BY <4>2, <4>3, <3>1 DEF HeldThere, Held
    <3> QED  BY <3>2, <3>3 DEF SnapInv
  <2> QED  BY <2>1, <2>2, <2>3, <2>4, <2>5 DEF Next
<1>2. UniqueInv => Shapes
  BY DEF UniqueInv
<1> QED  BY <1>1, <1>2, SnapInit, UniqueAlways, PTL DEF Spec

(* Snapshots repeat everything, so that the last one makes up for all the  *)
(* rows lost before it: if the snapshots of a span that is alone on its    *)
(* row were submitted in the order they were taken and the last one was    *)
(* stored, the server holds all that was logged.                           *)
THEOREM LastSnapshotHolds ==
  ASSUME PathsApart
  PROVE  Spec => []LastSnapshotSuffices
<1>1. SnapInv => LastSnapshotSuffices
  <2> SUFFICES ASSUME SnapInv, NEW s \in DOMAIN spans, Alone(s),
                      Len(rows[s]) > 0, Len(rows[s]) = data[s].taken,
                      \A i \in 1..Len(rows[s]) : rows[s][i].taken = i,
                      rows[s][Len(rows[s])].stored,
                      NEW p \in DOMAIN data[s].content \ EventPaths(s)
               PROVE  HeldAt(Key(s), p, data[s].content[p])
    BY DEF LastSnapshotSuffices
  <2>1. s \in 1..Len(spans)
    BY SpanDomain DEF SnapInv
  <2>2. HeldThere(Key(s), p, data[s].content[p])
    BY <2>1 DEF SnapInv, StoredInv, AllSubmitted
  <2>3. p \in Written
    BY <2>1 DEF SnapInv, ContentInv, Content
  <2>4. Conflict(p, p)
    BY <2>3 DEF PathsApart
  <2> QED  BY <2>2, <2>4 DEF HeldAt, HeldThere
<1> QED  BY <1>1, SnapAlways, PTL
=============================================================================
