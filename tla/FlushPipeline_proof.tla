------------------------ MODULE FlushPipeline_proof ------------------------
(***************************************************************************)
(* For any rows, any chunk size and any limit of a batch: a flush reports  *)
(* an error exactly when a row failed; the rows of a request share their   *)
(* credentials; and, where the rows of a key come with one token and none  *)
(* of them arrives late after a later one, what the server holds is never  *)
(* set back, has what the last row of the key wrote, and is what sending   *)
(* the rows one by one would have left.                                    *)
(*                                                                         *)
(* FlushInv says where each row is: lost, in a group, handled, in flight.  *)
(* HandInv says what was handed to senders, and that whatever is not in    *)
(* flight comes before what is.  ServerInv says which rows the content of  *)
(* each key comes from.                                                    *)
(***************************************************************************)
EXTENDS FlushPipeline, SequenceTheorems, WellFoundedInduction, NaturalsInduction, TLAPS

-----------------------------------------------------------------------------
(* Numbers.                                                                *)

(* A set of numbers with 0 and every successor is all of them. *)
LEMMA SetInduction ==
  ASSUME NEW T \in SUBSET Nat, 0 \in T, \A n \in T : n + 1 \in T
  PROVE  T = Nat
<1>1. SUFFICES ASSUME Nat \ T # {} PROVE FALSE
  OBVIOUS
<1>2. IsWellFoundedOn(OpToRel(<, Nat), Nat)
  BY NatLessThanWellFounded
<1>3. PICK x \in Nat \ T : \A y \in Nat \ T : <<y, x>> \notin OpToRel(<, Nat)
  BY <1>1, <1>2, WFMin
<1>4. x # 0 /\ x - 1 \in Nat /\ x - 1 < x /\ (x - 1) + 1 = x
  OBVIOUS
<1>5. <<x - 1, x>> \in OpToRel(<, Nat)
  BY <1>4 DEF OpToRel
<1>6. x - 1 \in T
  BY <1>3, <1>4, <1>5
<1> QED  BY <1>3, <1>4, <1>6

(* A set of numbers has a least one, and a bounded set a greatest one. *)
LEMMA LeastElement ==
  ASSUME NEW S \in SUBSET Nat, S # {}
  PROVE  Min(S) \in S /\ \A y \in S : Min(S) <= y
<1>1. IsWellFoundedOn(OpToRel(<, Nat), Nat)
  BY NatLessThanWellFounded
<1>2. PICK x \in S : \A y \in S : <<y, x>> \notin OpToRel(<, Nat)
  BY <1>1, WFMin
<1>3. \A y \in S : x <= y
  <2>1. SUFFICES ASSUME NEW y \in S, ~(x <= y) PROVE FALSE
    OBVIOUS
  <2>2. y < x
    BY <2>1
  <2>3. <<y, x>> \in OpToRel(<, Nat)
    BY <2>2 DEF OpToRel
  <2> QED  BY <2>3, <1>2
<1>4. \E z \in S : \A y \in S : z <= y
  BY <1>3
<1> QED  BY <1>4 DEF Min

LEMMA GreatestElement ==
  ASSUME NEW n \in Nat, NEW S \in SUBSET (0..n), S # {}
  PROVE  Max(S) \in S /\ \A y \in S : y <= Max(S)
<1>1. PICK T : T = {n - y : y \in S}
  OBVIOUS
<1>2. T \in SUBSET Nat /\ T # {}
  <2>1. \A y \in S : n - y \in Nat
    OBVIOUS
  <2> QED  BY <1>1, <2>1
<1>3. PICK t \in T : \A u \in T : t <= u
  BY <1>2, LeastElement
<1>4. PICK x \in S : t = n - x
  BY <1>1
<1>5. \A y \in S : x >= y
  <2>1. SUFFICES ASSUME NEW y \in S PROVE x >= y
    OBVIOUS
  <2>2. n - x <= n - y
    BY <1>1, <1>3, <1>4
  <2> QED  BY <2>2
<1>6. \E z \in S : \A y \in S : z >= y
  BY <1>5
<1>7. Max(S) \in S /\ \A y \in S : Max(S) >= y
  BY <1>6 DEF Max
<1> QED  BY <1>7

-----------------------------------------------------------------------------
(* Arrays: sequences of values of any kind.                                *)

Array(a, n) == a = [i \in 1..n |-> a[i]]

(* An array is a sequence of its length. *)
LEMMA ArrayLength ==
  ASSUME NEW a, NEW n \in Nat, Array(a, n)
  PROVE  Len(a) = n /\ DOMAIN a = 1..n
<1> DEFINE S == {a[i] : i \in 1..n}
<1>1. a \in [1..n -> S]
  BY DEF Array
<1>2. a \in Seq(S)
  BY <1>1, SeqDef
<1>3. DOMAIN a = 1..n
  BY DEF Array
<1>4. Len(a) \in Nat /\ DOMAIN a = 1..Len(a)
  BY <1>2, LenProperties
<1> QED  BY <1>3, <1>4

(* Append adds one element at the end. *)
LEMMA ArrayAppend ==
  ASSUME NEW a, NEW n \in Nat, Array(a, n), NEW e
  PROVE  /\ Array(Append(a, e), n + 1)
         /\ Append(a, e)[n + 1] = e
         /\ \A i \in 1..n : Append(a, e)[i] = a[i]
         /\ Len(Append(a, e)) = n + 1
<1> DEFINE S == {a[i] : i \in 1..n} \cup {e}
           b == Append(a, e)
<1>1. a \in [1..n -> S]
  BY DEF Array
<1>2. a \in Seq(S) /\ e \in S
  BY <1>1, SeqDef
<1>3. Len(a) = n
  BY ArrayLength
<1>4. /\ b \in Seq(S)
      /\ Len(b) = Len(a) + 1
      /\ \A i \in 1..Len(a) : b[i] = a[i]
      /\ b[Len(a) + 1] = e
  <2> HIDE DEF S
  <2> QED  BY <1>2, AppendProperties
<1>5. b \in [1..(n + 1) -> S]
  <2>1. b \in [1..Len(b) -> S]
    <3> HIDE DEF S, b
    <3> QED  BY <1>4, LenProperties
  <2> QED  BY <2>1, <1>3, <1>4
<1>6. Array(b, n + 1)
  <2> HIDE DEF S, b
  <2> QED  BY <1>5 DEF Array
<1> HIDE DEF b
<1>7. Array(b, n + 1) /\ b[n + 1] = e /\ (\A i \in 1..n : b[i] = a[i]) /\ Len(b) = n + 1
  BY <1>3, <1>4, <1>6
<1> QED  BY <1>7 DEF b

(* The empty sequence is an array. *)
LEMMA EmptyArray == Array(<<>>, 0) /\ Len(<<>>) = 0
<1>1. <<>> \in Seq({})
  BY EmptySeq
<1>2. Len(<<>>) = 0
  BY EmptySeq, <1>1
<1>3. <<>> \in [1..0 -> {}]
  BY <1>1, <1>2, LenProperties
<1> QED  BY <1>2, <1>3 DEF Array

-----------------------------------------------------------------------------
(* Recursive functions.                                                    *)

Mergings(chunk, m, f) ==
  f = [n \in 0..m |-> IF n = 0 THEN <<>> ELSE MergeInto(f[n - 1], chunk[n])]

(* MergeChunk is the last of the results that its recursion defines. *)
LEMMA MergeChunkIsMerging ==
  ASSUME NEW chunk, Len(chunk) \in Nat
  PROVE  \E f : Mergings(chunk, Len(chunk), f) /\ MergeChunk(chunk) = f[Len(chunk)]
<1> DEFINE T == {m \in Nat : \E f : Mergings(chunk, m, f)}
<1>1. 0 \in T
  <2>1. Mergings(chunk, 0, [n \in 0..0 |-> <<>>])
    BY DEF Mergings
  <2> QED  BY <2>1
<1>2. ASSUME NEW m \in T PROVE m + 1 \in T
  <2>1. PICK f : Mergings(chunk, m, f)
    BY <1>2
  <2>2. m \in Nat
    BY <1>2
  <2> DEFINE g == [n \in 0..(m + 1) |-> IF n = m + 1 THEN MergeInto(f[m], chunk[m + 1]) ELSE f[n]]
  <2>3. ASSUME NEW n \in 0..(m + 1)
        PROVE  g[n] = IF n = 0 THEN <<>> ELSE MergeInto(g[n - 1], chunk[n])
    <3>1. CASE n = m + 1
      <4>1. g[n] = MergeInto(f[m], chunk[n]) /\ g[n - 1] = f[m] /\ n # 0
        BY <3>1, <2>2
      <4> QED  BY <4>1
    <3>2. CASE n # m + 1
      <4>1. n \in 0..m
        BY <3>2, <2>2
      <4>2. f[n] = IF n = 0 THEN <<>> ELSE MergeInto(f[n - 1], chunk[n])
        BY <2>1, <4>1 DEF Mergings
      <4>3. g[n] = f[n] /\ (n # 0 => g[n - 1] = f[n - 1])
        BY <4>1, <2>2, <3>2
      <4> HIDE DEF g
      <4> QED  BY <4>2, <4>3
    <3> QED  BY <3>1, <3>2
  <2>4. Mergings(chunk, m + 1, g)
    BY <2>3 DEF Mergings
  <2>5. \E h : Mergings(chunk, m + 1, h)
    <3> HIDE DEF g
    <3> QED  BY <2>4
  <2> QED  BY <2>5, <2>2
<1>3. T = Nat
  <2>1. T \in SUBSET Nat
    OBVIOUS
  <2> HIDE DEF T
  <2> QED  BY <2>1, <1>1, <1>2, SetInduction
<1>4. PICK f : Mergings(chunk, Len(chunk), f)
  BY <1>3
<1> QED  BY <1>4 DEF MergeChunk, Mergings

Storings(s, batch, m, f) ==
  f = [n \in 0..m |-> IF n = 0 THEN s ELSE Apply(f[n - 1], batch[n])]

(* StoreAll is the last of the results that its recursion defines. *)
LEMMA StoreAllIsStoring ==
  ASSUME NEW s, NEW batch, Len(batch) \in Nat
  PROVE  \E f : Storings(s, batch, Len(batch), f) /\ StoreAll(s, batch) = f[Len(batch)]
<1> DEFINE T == {m \in Nat : \E f : Storings(s, batch, m, f)}
<1>1. 0 \in T
  <2>1. Storings(s, batch, 0, [n \in 0..0 |-> s])
    BY DEF Storings
  <2> QED  BY <2>1
<1>2. ASSUME NEW m \in T PROVE m + 1 \in T
  <2>1. PICK f : Storings(s, batch, m, f)
    BY <1>2
  <2>2. m \in Nat
    BY <1>2
  <2> DEFINE g == [n \in 0..(m + 1) |-> IF n = m + 1 THEN Apply(f[m], batch[m + 1]) ELSE f[n]]
  <2>3. ASSUME NEW n \in 0..(m + 1)
        PROVE  g[n] = IF n = 0 THEN s ELSE Apply(g[n - 1], batch[n])
    <3>1. CASE n = m + 1
      <4>1. g[n] = Apply(f[m], batch[n]) /\ g[n - 1] = f[m] /\ n # 0
        BY <3>1, <2>2
      <4> QED  BY <4>1
    <3>2. CASE n # m + 1
      <4>1. n \in 0..m
        BY <3>2, <2>2
      <4>2. f[n] = IF n = 0 THEN s ELSE Apply(f[n - 1], batch[n])
        BY <2>1, <4>1 DEF Storings
      <4>3. g[n] = f[n] /\ (n # 0 => g[n - 1] = f[n - 1])
        BY <4>1, <2>2, <3>2
      <4> HIDE DEF g
      <4> QED  BY <4>2, <4>3
    <3> QED  BY <3>1, <3>2
  <2>4. Storings(s, batch, m + 1, g)
    BY <2>3 DEF Storings
  <2>5. \E h : Storings(s, batch, m + 1, h)
    <3> HIDE DEF g
    <3> QED  BY <2>4
  <2> QED  BY <2>5, <2>2
<1>3. T = Nat
  <2>1. T \in SUBSET Nat
    OBVIOUS
  <2> HIDE DEF T
  <2> QED  BY <2>1, <1>1, <1>2, SetInduction
<1>4. PICK f : Storings(s, batch, Len(batch), f)
  BY <1>3
<1> QED  BY <1>4 DEF StoreAll, Storings

-----------------------------------------------------------------------------
(* Merging contents.                                                       *)

LEMMA MaxIs ==
  ASSUME NEW S \in SUBSET Nat, NEW x \in S, \A y \in S : y <= x
  PROVE  Max(S) = x
<1>1. \A y \in S : x >= y
  OBVIOUS
<1>2. \E z \in S : \A y \in S : z >= y
  BY <1>1
<1>3. Max(S) \in S /\ \A y \in S : Max(S) >= y
  BY <1>2 DEF Max
<1>4. PICK y : y = Max(S)
  OBVIOUS
<1>5. y \in Nat /\ x \in Nat /\ y <= x /\ x <= y
  BY <1>3, <1>4
<1>6. y = x
  BY <1>5
<1> QED  BY <1>4, <1>6

(* Row i is the last to have written the paths. *)
WrittenBy(content, paths, i) ==
  \A p \in paths : p \in DOMAIN content /\ IF United(p) THEN i \in content[p] ELSE content[p] = i

LEMMA MergedIn ==
  ASSUME NEW t, NEW c
  PROVE  /\ DOMAIN c \subseteq DOMAIN MergeRowInto(t, c)
         /\ DOMAIN MergeRowInto(t, c) \subseteq DOMAIN t \cup DOMAIN c
         /\ \A p \in DOMAIN MergeRowInto(t, c) : MergeRowInto(t, c)[p] = MergedValue(t, c, p)
BY DEF MergeRowInto

LEMMA WrittenStays ==
  ASSUME NEW t, NEW c, NEW paths, NEW i, WrittenBy(c, paths, i)
  PROVE  WrittenBy(MergeRowInto(t, c), paths, i)
<1> SUFFICES ASSUME NEW p \in paths
             PROVE  /\ p \in DOMAIN MergeRowInto(t, c)
                    /\ IF United(p) THEN i \in MergeRowInto(t, c)[p] ELSE MergeRowInto(t, c)[p] = i
  BY DEF WrittenBy
<1>1. p \in DOMAIN c /\ IF United(p) THEN i \in c[p] ELSE c[p] = i
  BY DEF WrittenBy
<1>2. p \in DOMAIN MergeRowInto(t, c) /\ MergeRowInto(t, c)[p] = MergedValue(t, c, p)
  BY <1>1, MergedIn
<1> QED  BY <1>1, <1>2 DEF MergedValue

-----------------------------------------------------------------------------
(* What rows F of one key leave when they are sent one by one: the rows    *)
(* since the last that replaces the others, the last of them for each      *)
(* path, all of them for a united one.                                     *)
Since(s, F) == {i \in F : \A j \in F : s[j].merge \/ j <= i}
Writers(s, F, p) == {i \in Since(s, F) : p \in s[i].paths}
Expected(s, F) ==
  [p \in UNION {s[i].paths : i \in Since(s, F)} |->
     IF United(p) THEN Writers(s, F, p) ELSE Max(Writers(s, F, p))]

Stable(s) ==
  \A i, j \in DOMAIN s : \A p \in s[i].paths, q \in s[j].paths : Conflict(p, q) => p = q

LEMMA ExpectedPaths ==
  ASSUME NEW s, NEW F
  PROVE  \A p : p \in DOMAIN Expected(s, F) <=> Writers(s, F, p) # {}
BY DEF Expected, Writers

LEMMA ExpectedValues ==
  ASSUME NEW s, NEW F, NEW p \in DOMAIN Expected(s, F)
  PROVE  Expected(s, F)[p] = IF United(p) THEN Writers(s, F, p) ELSE Max(Writers(s, F, p))
BY DEF Expected

LEMMA ExpectedOfNone ==
  ASSUME NEW s
  PROVE  Expected(s, {}) = Empty
<1>1. Since(s, {}) = {}
  BY DEF Since
<1>2. UNION {s[i].paths : i \in Since(s, {})} = {}
  BY <1>1
<1> QED  BY <1>2 DEF Expected, Empty

LEMMA ExpectedOfOne ==
  ASSUME NEW i \in Nat
  PROVE  Expected(rows, {i}) = Content(i)
<1>1. Since(rows, {i}) = {i}
  BY DEF Since
<1>2. UNION {rows[j].paths : j \in Since(rows, {i})} = rows[i].paths
  BY <1>1
<1>3. ASSUME NEW p \in rows[i].paths
      PROVE  Writers(rows, {i}, p) = {i} /\ Max(Writers(rows, {i}, p)) = i
  <2>1. Writers(rows, {i}, p) = {i}
    BY <1>1 DEF Writers
  <2>2. Max({i}) = i
    BY MaxIs
  <2> QED  BY <2>1, <2>2
<1>4. Expected(rows, {i}) = [p \in rows[i].paths |-> IF United(p) THEN Writers(rows, {i}, p)
                                                     ELSE Max(Writers(rows, {i}, p))]
  BY <1>2 DEF Expected
<1>5. [p \in rows[i].paths |-> IF United(p) THEN Writers(rows, {i}, p)
                               ELSE Max(Writers(rows, {i}, p))]
      = [p \in rows[i].paths |-> IF United(p) THEN {i} ELSE i]
  BY <1>3
<1> QED  BY <1>4, <1>5 DEF Content

(* Later rows, one of which replaces the others. *)
LEMMA ReplacedByLater ==
  ASSUME NEW s, NEW R \in SUBSET Nat, NEW F \in SUBSET Nat,
         \A i \in R, j \in F : i < j, \E j \in F : ~s[j].merge
  PROVE  Expected(s, R \cup F) = Expected(s, F)
<1>1. ASSUME NEW i \in R PROVE i \notin F /\ ~(\A j \in R \cup F : s[j].merge \/ j <= i)
  <2>1. PICK j \in F : ~s[j].merge
    OBVIOUS
  <2>2. i < j
    OBVIOUS
  <2>3. i \notin F
    <3>1. ~(i < i)
      OBVIOUS
    <3> QED  BY <3>1
  <2> QED  BY <2>1, <2>2, <2>3
<1>2. ASSUME NEW i \in F, NEW j \in R PROVE j <= i
  OBVIOUS
<1>3. Since(s, R \cup F) = Since(s, F)
  <2>1. ASSUME NEW i \in Since(s, R \cup F) PROVE i \in Since(s, F)
    BY <1>1 DEF Since
  <2>2. ASSUME NEW i \in Since(s, F) PROVE i \in Since(s, R \cup F)
    BY <1>2 DEF Since
  <2> QED  BY <2>1, <2>2
<1> QED  BY <1>3 DEF Expected, Writers

(* Rows F merge into what came with the earlier rows R. *)
MergingLater(s, n, R, F) ==
  /\ n \in Nat /\ DOMAIN s = 1..n /\ R \in SUBSET (1..n) /\ F \in SUBSET (1..n)
  /\ \A i \in R, j \in F : i < j
  /\ \A j \in F : s[j].merge

LEMMA WritersOfLater ==
  ASSUME NEW s, NEW n, NEW R, NEW F, MergingLater(s, n, R, F)
  PROVE  \A p : Writers(s, R \cup F, p) = Writers(s, R, p) \cup Writers(s, F, p)
<1> R \in SUBSET Nat /\ F \in SUBSET Nat
  BY DEF MergingLater
<1> (\A i \in R, j \in F : i < j) /\ (\A j \in F : s[j].merge)
  BY DEF MergingLater
<1>1. Since(s, R \cup F) = Since(s, R) \cup Since(s, F)
  <2>1. ASSUME NEW i \in Since(s, R \cup F) PROVE i \in Since(s, R) \cup Since(s, F)
    BY DEF Since
  <2>2. ASSUME NEW i \in Since(s, R) PROVE i \in Since(s, R \cup F)
    BY DEF Since
  <2>3. ASSUME NEW i \in Since(s, F) PROVE i \in Since(s, R \cup F)
    <3>1. \A j \in R : j <= i
      BY DEF Since
    <3> QED  BY <3>1 DEF Since
  <2> QED  BY <2>1, <2>2, <2>3
<1> QED  BY <1>1 DEF Writers

LEMMA WritersBounds ==
  ASSUME NEW s, NEW n \in Nat, NEW F \in SUBSET (1..n), NEW p
  PROVE  /\ Writers(s, F, p) \subseteq F
         /\ Writers(s, F, p) # {} => /\ Max(Writers(s, F, p)) \in Writers(s, F, p)
                                     /\ \A y \in Writers(s, F, p) : y <= Max(Writers(s, F, p))
<1>1. Writers(s, F, p) \subseteq F
  BY DEF Writers, Since
<1>2. Writers(s, F, p) \in SUBSET (0..n)
  <2>1. \A y \in F : y \in 0..n
    OBVIOUS
  <2> QED  BY <1>1, <2>1
<1> QED  BY <1>1, <1>2, GreatestElement

(* The last writer is a later row, if a later row has written. *)
LEMMA LastWriter ==
  ASSUME NEW s, NEW n, NEW R, NEW F, MergingLater(s, n, R, F), NEW p,
         Writers(s, F, p) # {}
  PROVE  Max(Writers(s, R \cup F, p)) = Max(Writers(s, F, p))
<1> n \in Nat /\ R \in SUBSET (1..n) /\ F \in SUBSET (1..n)
  BY DEF MergingLater
<1> (\A i \in R, j \in F : i < j) /\ (\A j \in F : s[j].merge)
  BY DEF MergingLater
<1>1. PICK x : x = Max(Writers(s, F, p))
  OBVIOUS
<1>2. x \in Writers(s, F, p) /\ \A y \in Writers(s, F, p) : y <= x
  BY <1>1, WritersBounds
<1>3. Writers(s, F, p) \subseteq F /\ Writers(s, R, p) \subseteq R
  BY DEF Writers, Since
<1>4. Writers(s, R \cup F, p) = Writers(s, R, p) \cup Writers(s, F, p)
  <2>1. MergingLater(s, n, R, F)
    OBVIOUS
  <2> QED  BY ONLY <2>1, WritersOfLater
<1>5. PICK S : S = Writers(s, R \cup F, p)
  OBVIOUS
<1>6. S \in SUBSET Nat /\ x \in S /\ \A y \in S : y <= x
  <2>0. \A y : (y \in F => y \in Nat) /\ (y \in R => y \in Nat)
    <3>1. F \in SUBSET Nat /\ R \in SUBSET Nat
      OBVIOUS
    <3> QED  BY <3>1
  <2>1. x \in F /\ x \in Nat
    BY <1>2, <1>3, <2>0
  <2>2. ASSUME NEW y \in S PROVE y <= x /\ y \in Nat
    <3>1. CASE y \in Writers(s, F, p)
      BY <3>1, <1>2, <1>3, <2>0
    <3>2. CASE y \in Writers(s, R, p)
      <4>1. y \in R /\ y < x /\ y \in Nat
        BY <3>2, <1>3, <2>0, <2>1
      <4> QED  BY <4>1, <2>1
    <3> QED  BY <3>1, <3>2, <1>4, <1>5
  <2> QED  BY <2>2, <1>2, <1>4, <1>5
<1>7. Max(S) = x
  BY <1>6, MaxIs
<1> QED  BY <1>1, <1>5, <1>7

LEMMA StablePaths ==
  ASSUME NEW s, Stable(s), NEW R \in SUBSET DOMAIN s, NEW F \in SUBSET DOMAIN s
  PROVE  \A p \in DOMAIN Expected(s, R), q \in DOMAIN Expected(s, F) : Conflict(p, q) => p = q
<1> SUFFICES ASSUME NEW p \in DOMAIN Expected(s, R), NEW q \in DOMAIN Expected(s, F), Conflict(p, q)
             PROVE  p = q
  OBVIOUS
<1>1. Writers(s, R, p) # {} /\ Writers(s, F, q) # {}
  BY ExpectedPaths
<1>2. PICK i \in R : p \in s[i].paths
  BY <1>1 DEF Writers, Since
<1>3. PICK j \in F : q \in s[j].paths
  BY <1>1 DEF Writers, Since
<1>4. i \in DOMAIN s /\ j \in DOMAIN s
  OBVIOUS
<1> QED  BY <1>2, <1>3, <1>4 DEF Stable

(* Where paths do not conflict, merging joins them. *)
LEMMA JoinedPaths ==
  ASSUME NEW t, NEW c, \A p \in DOMAIN t, q \in DOMAIN c : Conflict(p, q) => p = q
  PROVE  MergeRowInto(t, c) = [p \in DOMAIN t \cup DOMAIN c |-> MergedValue(t, c, p)]
<1>1. {p \in DOMAIN t : \A q \in DOMAIN c : ~Conflict(p, q)} \cup DOMAIN c = DOMAIN t \cup DOMAIN c
  <2>1. ASSUME NEW p \in DOMAIN t, p \notin DOMAIN c, NEW q \in DOMAIN c PROVE ~Conflict(p, q)
    BY <2>1
  <2> QED  BY <2>1
<1> QED  BY <1>1 DEF MergeRowInto

(* Merging later rows adds what they leave, however often it happens. *)
MergesInto(s, R, F) ==
  /\ MergeRowInto(Expected(s, R), Expected(s, F)) = Expected(s, R \cup F)
  /\ MergeRowInto(Expected(s, R \cup F), Expected(s, F)) = Expected(s, R \cup F)

LEMMA MergedWithLater ==
  ASSUME NEW s, NEW n, NEW R, NEW F, MergingLater(s, n, R, F), Stable(s)
  PROVE  MergesInto(s, R, F)
<1> n \in Nat /\ DOMAIN s = 1..n /\ R \in SUBSET (1..n) /\ F \in SUBSET (1..n)
  BY DEF MergingLater
<1> (\A i \in R, j \in F : i < j) /\ (\A j \in F : s[j].merge)
  BY DEF MergingLater
<1>1. MergingLater(s, n, R, F)
  OBVIOUS
<1>2. \A p : Writers(s, R \cup F, p) = Writers(s, R, p) \cup Writers(s, F, p)
  BY ONLY <1>1, WritersOfLater
<1>3. PICK a : a = Expected(s, R)
  OBVIOUS
<1>4. PICK c : c = Expected(s, F)
  OBVIOUS
<1>5. PICK e : e = Expected(s, R \cup F)
  OBVIOUS
<1>6. \A p : /\ p \in DOMAIN a <=> Writers(s, R, p) # {}
             /\ p \in DOMAIN c <=> Writers(s, F, p) # {}
             /\ p \in DOMAIN e <=> Writers(s, R \cup F, p) # {}
  BY <1>3, <1>4, <1>5, ExpectedPaths
<1>7. DOMAIN e = DOMAIN a \cup DOMAIN c /\ DOMAIN e = DOMAIN e \cup DOMAIN c
  BY <1>2, <1>6
<1>8. ASSUME NEW p \in DOMAIN e
      PROVE  e[p] = MergedValue(a, c, p) /\ e[p] = MergedValue(e, c, p)
  <2>1. e[p] = IF United(p) THEN Writers(s, R \cup F, p) ELSE Max(Writers(s, R \cup F, p))
    BY <1>5, ExpectedValues
  <2>2. p \in DOMAIN c => c[p] = IF United(p) THEN Writers(s, F, p) ELSE Max(Writers(s, F, p))
    BY <1>4, ExpectedValues
  <2>3. p \in DOMAIN a => a[p] = IF United(p) THEN Writers(s, R, p) ELSE Max(Writers(s, R, p))
    BY <1>3, ExpectedValues
  <2>4. Writers(s, R \cup F, p) = Writers(s, R, p) \cup Writers(s, F, p)
    BY <1>2
  <2>5. CASE United(p)
    <3>1. CASE p \in DOMAIN a /\ p \in DOMAIN c
      BY <2>1, <2>2, <2>3, <2>4, <2>5, <3>1, <1>7 DEF MergedValue
    <3>2. CASE p \in DOMAIN a /\ p \notin DOMAIN c
      BY <2>1, <2>3, <2>4, <2>5, <3>2, <1>6 DEF MergedValue
    <3>3. CASE p \notin DOMAIN a /\ p \in DOMAIN c
      BY <2>1, <2>2, <2>4, <2>5, <3>3, <1>6 DEF MergedValue
    <3> QED  BY <3>1, <3>2, <3>3, <1>7
  <2>6. CASE ~United(p)
    <3>1. CASE p \in DOMAIN c
      <4>1. Writers(s, F, p) # {}
        BY <3>1, <1>6
      <4>2. Max(Writers(s, R \cup F, p)) = Max(Writers(s, F, p))
        BY ONLY <4>1, <1>1, LastWriter
      <4> QED  BY <4>2, <3>1, <2>1, <2>2, <2>6 DEF MergedValue
    <3>2. CASE p \notin DOMAIN c
      <4>1. Writers(s, R \cup F, p) = Writers(s, R, p)
        BY <3>2, <1>6, <2>4
      <4>2. p \in DOMAIN a
        BY <3>2, <1>7
      <4> QED  BY <4>1, <4>2, <3>2, <2>1, <2>3, <2>6 DEF MergedValue
    <3> QED  BY <3>1, <3>2
  <2> QED  BY <2>5, <2>6
<1>9. MergeRowInto(a, c) = e
  <2>1. \A p \in DOMAIN a, q \in DOMAIN c : Conflict(p, q) => p = q
    BY <1>3, <1>4, StablePaths
  <2>2. MergeRowInto(a, c) = [p \in DOMAIN a \cup DOMAIN c |-> MergedValue(a, c, p)]
    BY <2>1, JoinedPaths
  <2>3. e = [p \in DOMAIN e |-> e[p]]
    BY <1>5 DEF Expected
  <2> HIDE DEF MergedValue
  <2> QED  BY <2>2, <2>3, <1>7, <1>8
<1>10. MergeRowInto(e, c) = e
  <2>1. \A p \in DOMAIN e, q \in DOMAIN c : Conflict(p, q) => p = q
    <3>1. R \cup F \in SUBSET DOMAIN s /\ F \in SUBSET DOMAIN s
      OBVIOUS
    <3> QED  BY <3>1, <1>4, <1>5, StablePaths
  <2>2. MergeRowInto(e, c) = [p \in DOMAIN e \cup DOMAIN c |-> MergedValue(e, c, p)]
    BY <2>1, JoinedPaths
  <2>3. e = [p \in DOMAIN e |-> e[p]]
    BY <1>5 DEF Expected
  <2> QED  BY <2>2, <2>3, <1>7, <1>8
<1> QED  BY <1>3, <1>4, <1>5, <1>9, <1>10 DEF MergesInto

-----------------------------------------------------------------------------
(* The merged rows of a chunk.                                             *)

(* A part of an array is an array. *)
LEMMA ArrayPart ==
  ASSUME NEW a, NEW n \in Nat, Array(a, n), NEW i \in Nat \ {0}, NEW j \in 1..n, i <= j
  PROVE  /\ Array(SubSeq(a, i, j), j - i + 1)
         /\ Len(SubSeq(a, i, j)) = j - i + 1
         /\ \A k \in 1..(j - i + 1) : SubSeq(a, i, j)[k] = a[i + k - 1]
<1> DEFINE S == {a[k] : k \in i..j}
<1>1. PICK b : b = SubSeq(a, i, j)
  OBVIOUS
<1>2. \A k \in i..j : a[k] \in S
  OBVIOUS
<1>3. /\ b \in Seq(S)
      /\ Len(b) = j - i + 1
      /\ \A k \in 1..(j - i + 1) : b[k] = a[i + k - 1]
  <2> HIDE DEF S
  <2> QED  BY <1>1, <1>2, SubSeqProperties
<1>4. b \in [1..(j - i + 1) -> S]
  <2>1. b \in [1..Len(b) -> S]
    <3> HIDE DEF S
    <3> QED  BY <1>3, LenProperties
  <2> QED  BY <2>1, <1>3
<1>5. Array(b, j - i + 1)
  <2> HIDE DEF S
  <2> QED  BY <1>4 DEF Array
<1> QED  BY <1>1, <1>3, <1>5

(* What is known of a merged row: where it comes from, whether it merges,  *)
(* which rows its values are from, that what the last of them wrote is     *)
(* there and, where shapes are stable, all of its content.                 *)
MergedRow(s, x) ==
  /\ x = [key |-> x.key, merge |-> x.merge, content |-> x.content, from |-> x.from]
  /\ x.from \in SUBSET DOMAIN s /\ x.from # {}
  /\ x.merge <=> \A i \in x.from : s[i].merge
  /\ \A p \in DOMAIN x.content :
       IF United(p) THEN x.content[p] \subseteq x.from /\ x.content[p] # {}
       ELSE x.content[p] \in x.from
  /\ \A i \in x.from : (\A j \in x.from : j <= i) => WrittenBy(x.content, s[i].paths, i)
  /\ Stable(s) => x.content = Expected(s, x.from)

LEMMA ContentOf ==
  ASSUME NEW i
  PROVE  /\ DOMAIN Content(i) = rows[i].paths
         /\ \A p \in rows[i].paths : Content(i)[p] = IF United(p) THEN {i} ELSE i
         /\ WrittenBy(Content(i), rows[i].paths, i)
BY DEF Content, WrittenBy

LEMMA RowAlone ==
  ASSUME NEW n \in Nat, DOMAIN rows = 1..n, NEW i \in 1..n, NEW x, rows[i].merge \in BOOLEAN,
         x = [key |-> RowKey(rows[i]), merge |-> rows[i].merge, content |-> Content(i), from |-> {i}]
  PROVE  MergedRow(rows, x)
<1>1. /\ x.key = RowKey(rows[i]) /\ x.merge = rows[i].merge
      /\ x.content = Content(i) /\ x.from = {i}
  OBVIOUS
<1>2. x = [key |-> x.key, merge |-> x.merge, content |-> x.content, from |-> x.from]
  BY <1>1
<1>3. ASSUME NEW p \in DOMAIN x.content
      PROVE  IF United(p) THEN x.content[p] \subseteq x.from /\ x.content[p] # {}
             ELSE x.content[p] \in x.from
  BY <1>1, ContentOf
<1>4. x.content = Expected(rows, x.from)
  BY <1>1, ExpectedOfOne
<1>5. \A j \in x.from : WrittenBy(x.content, rows[j].paths, j)
  BY <1>1, ContentOf
<1>6. x.from \in SUBSET DOMAIN rows /\ x.from # {}
  BY <1>1
<1>7. x.merge <=> \A j \in x.from : rows[j].merge
  BY <1>1
<1> QED  BY <1>2, <1>3, <1>4, <1>5, <1>6, <1>7 DEF MergedRow

LEMMA RowMerged ==
  ASSUME NEW n \in Nat, DOMAIN rows = 1..n, NEW i \in 1..n, NEW x, MergedRow(rows, x),
         \A j \in x.from : j < i, rows[i].merge, NEW y,
         y = [key |-> x.key, merge |-> x.merge, content |-> MergeRowInto(x.content, Content(i)),
              from |-> x.from \cup {i}]
  PROVE  MergedRow(rows, y)
<1>1. /\ y.key = x.key /\ y.merge = x.merge
      /\ y.content = MergeRowInto(x.content, Content(i)) /\ y.from = x.from \cup {i}
  OBVIOUS
<1>2. y = [key |-> y.key, merge |-> y.merge, content |-> y.content, from |-> y.from]
  BY <1>1
<1>x. x.from \in SUBSET (1..n) /\ x.from # {}
  BY DEF MergedRow
<1>3. y.from \in SUBSET DOMAIN rows /\ y.from # {}
  BY <1>1, <1>x
<1>4. y.merge <=> \A j \in y.from : rows[j].merge
  BY <1>1 DEF MergedRow
<1>5. ASSUME NEW p \in DOMAIN y.content
      PROVE  IF United(p) THEN y.content[p] \subseteq y.from /\ y.content[p] # {}
             ELSE y.content[p] \in y.from
  <2>1. y.content[p] = MergedValue(x.content, Content(i), p)
    BY <1>1, MergedIn
  <2>2. p \in DOMAIN x.content \cup DOMAIN Content(i)
    BY <1>1, MergedIn
  <2>3. p \in DOMAIN Content(i) => Content(i)[p] = IF United(p) THEN {i} ELSE i
    BY ContentOf
  <2>4. p \in DOMAIN x.content => IF United(p) THEN x.content[p] \subseteq x.from /\ x.content[p] # {}
                                  ELSE x.content[p] \in x.from
    BY DEF MergedRow
  <2>5. CASE p \in DOMAIN Content(i)
    BY <2>1, <2>3, <2>4, <2>5, <1>1 DEF MergedValue
  <2>6. CASE p \notin DOMAIN Content(i)
    BY <2>1, <2>2, <2>4, <2>6, <1>1 DEF MergedValue
  <2> QED  BY <2>5, <2>6
<1>6. ASSUME NEW j \in y.from, \A l \in y.from : l <= j
      PROVE  WrittenBy(y.content, rows[j].paths, j)
  <2>1. i <= j /\ j \in 1..n
    BY <1>1, <1>6, <1>x
  <2>2. j = i
    <3>1. j \in x.from => j < i
      OBVIOUS
    <3> QED  BY <3>1, <2>1, <1>1
  <2> QED  BY <2>2, <1>1, ContentOf, WrittenStays
<1>7. ASSUME Stable(rows) PROVE y.content = Expected(rows, y.from)
  <2>1. x.content = Expected(rows, x.from)
    BY <1>7 DEF MergedRow
  <2>2. Content(i) = Expected(rows, {i})
    BY ExpectedOfOne
  <2>3. MergeRowInto(Expected(rows, x.from), Expected(rows, {i})) = Expected(rows, x.from \cup {i})
    <3>1. /\ {i} \in SUBSET (1..n)
          /\ \A l \in x.from, j \in {i} : l < j
          /\ \A j \in {i} : rows[j].merge
      OBVIOUS
    <3>2. MergingLater(rows, n, x.from, {i})
      BY <3>1, <1>x DEF MergingLater
    <3>3. PICK R, F : R = x.from /\ F = {i}
      OBVIOUS
    <3>4. MergingLater(rows, n, R, F)
      BY <3>2, <3>3
    <3>5. MergesInto(rows, R, F)
      BY ONLY <3>4, <1>7, MergedWithLater
    <3> QED  BY <3>3, <3>5 DEF MergesInto
  <2> QED  BY <2>1, <2>2, <2>3, <1>1
<1> QED  BY <1>2, <1>3, <1>4, <1>5, <1>6, <1>7 DEF MergedRow

LEMMA RowReplaced ==
  ASSUME NEW n \in Nat, DOMAIN rows = 1..n, NEW i \in 1..n, NEW x, MergedRow(rows, x),
         \A j \in x.from : j < i, rows[i].merge \in BOOLEAN, ~rows[i].merge, NEW y,
         y = [key |-> RowKey(rows[i]), merge |-> rows[i].merge, content |-> Content(i),
              from |-> x.from \cup {i}]
  PROVE  MergedRow(rows, y)
<1>1. /\ y.key = RowKey(rows[i]) /\ y.merge = rows[i].merge
      /\ y.content = Content(i) /\ y.from = x.from \cup {i}
  OBVIOUS
<1>2. y = [key |-> y.key, merge |-> y.merge, content |-> y.content, from |-> y.from]
  BY <1>1
<1>x. x.from \in SUBSET (1..n) /\ x.from # {}
  BY DEF MergedRow
<1>3. y.from \in SUBSET DOMAIN rows /\ y.from # {}
  BY <1>1, <1>x
<1>4. y.merge <=> \A j \in y.from : rows[j].merge
  BY <1>1
<1>5. ASSUME NEW p \in DOMAIN y.content
      PROVE  IF United(p) THEN y.content[p] \subseteq y.from /\ y.content[p] # {}
             ELSE y.content[p] \in y.from
  <2>1. p \in rows[i].paths /\ Content(i)[p] = IF United(p) THEN {i} ELSE i
    BY <1>1, ContentOf
  <2> QED  BY <2>1, <1>1
<1>6. ASSUME NEW j \in y.from, \A l \in y.from : l <= j
      PROVE  WrittenBy(y.content, rows[j].paths, j)
  <2>1. i <= j /\ j \in 1..n
    BY <1>1, <1>6, <1>x
  <2>2. j = i
    <3>1. j \in x.from => j < i
      OBVIOUS
    <3> QED  BY <3>1, <2>1, <1>1
  <2> QED  BY <2>2, <1>1, ContentOf
<1>7. y.content = Expected(rows, y.from)
  <2>1. Content(i) = Expected(rows, {i})
    BY ExpectedOfOne
  <2>2. Expected(rows, x.from \cup {i}) = Expected(rows, {i})
    <3>1. /\ {i} \in SUBSET Nat /\ x.from \in SUBSET Nat
          /\ \A l \in x.from, j \in {i} : l < j
          /\ \E j \in {i} : ~rows[j].merge
      BY <1>x
    <3> QED  BY <3>1, ReplacedByLater
  <2> QED  BY <2>1, <2>2, <1>1
<1> QED  BY <1>2, <1>3, <1>4, <1>5, <1>6, <1>7 DEF MergedRow

(* The rows C of a chunk, merged: one row for each key. *)
MergedRows(s, merged, C) ==
  /\ Len(merged) \in Nat /\ Array(merged, Len(merged))
  /\ \A m \in 1..Len(merged) :
       MergedRow(s, merged[m]) /\ merged[m].from = {i \in C : RowKey(s[i]) = merged[m].key}
  /\ \A l, m \in 1..Len(merged) : merged[l].key = merged[m].key => l = m
  /\ \A i \in C : \E m \in 1..Len(merged) : merged[m].key = RowKey(s[i])

First(I) == IF I # {} THEN Min(I) ELSE 0

LEMMA FoundFirst ==
  ASSUME NEW I \in SUBSET (Nat \ {0})
  PROVE  \/ I # {} /\ First(I) \in I
         \/ I = {} /\ First(I) = 0
<1>1. I \in SUBSET Nat
  OBVIOUS
<1>2. I # {} => Min(I) \in I
  BY <1>1, LeastElement
<1> QED  BY <1>2 DEF First

LEMMA WithFrom ==
  ASSUME NEW k, NEW m, NEW c, NEW f, NEW z,
         z = [key |-> k, merge |-> m, content |-> c, from |-> f], NEW g
  PROVE  [z EXCEPT !.from = g] = [key |-> k, merge |-> m, content |-> c, from |-> g]
<1>1. PICK y : y = [z EXCEPT !.from = g]
  OBVIOUS
<1>2. DOMAIN y = {"key", "merge", "content", "from"}
  BY <1>1
<1>3. y = [a \in {"key", "merge", "content", "from"} |-> y[a]]
  BY <1>1, <1>2
<1>4. y["key"] = k /\ y["merge"] = m /\ y["content"] = c /\ y["from"] = g
  BY <1>1
<1> QED  BY <1>1, <1>3, <1>4

LEMMA ChunkGrows ==
  ASSUME NEW n \in Nat, DOMAIN rows = 1..n, NEW i \in 1..n, rows[i].merge \in BOOLEAN,
         NEW C \in SUBSET (1..n), \A j \in C : j < i, NEW merged, MergedRows(rows, merged, C)
  PROVE  MergedRows(rows, MergeInto(merged, i), C \cup {i})
<1>1. PICK m : m = SelectInSeq(merged, LAMBDA x : x.key = RowKey(rows[i]))
  OBVIOUS
<1>2. \/ m \in 1..Len(merged) /\ merged[m].key = RowKey(rows[i])
      \/ m = 0 /\ \A l \in 1..Len(merged) : merged[l].key # RowKey(rows[i])
  <2>1. PICK I : I = {l \in 1..Len(merged) : merged[l].key = RowKey(rows[i])}
    OBVIOUS
  <2>2. m = First(I)
    BY <1>1, <2>1 DEF SelectInSeq, First
  <2>3. I \in SUBSET (Nat \ {0})
    BY <2>1
  <2>4. \/ I # {} /\ m \in I
        \/ I = {} /\ m = 0
    BY <2>2, <2>3, FoundFirst
  <2> QED  BY <2>1, <2>4
<1>3. PICK w : w = MergeInto(merged, i)
  OBVIOUS
<1>4. PICK L : L = Len(merged)
  OBVIOUS
<1>5. /\ L \in Nat /\ Array(merged, L)
      /\ \A l \in 1..L : MergedRow(rows, merged[l]) /\ merged[l].from = {j \in C : RowKey(rows[j]) = merged[l].key}
      /\ \A l, k \in 1..L : merged[l].key = merged[k].key => l = k
      /\ \A j \in C : \E l \in 1..L : merged[l].key = RowKey(rows[j])
  BY <1>4 DEF MergedRows
<1>6. CASE m = 0
  <2>1. PICK x : x = [key |-> RowKey(rows[i]), merge |-> rows[i].merge, content |-> Content(i), from |-> {i}]
    OBVIOUS
  <2>2. w = Append(merged, x)
    BY <1>1, <1>3, <1>6, <2>1 DEF MergeInto
  <2>3. /\ Array(w, L + 1) /\ Len(w) = L + 1 /\ w[L + 1] = x
        /\ \A l \in 1..L : w[l] = merged[l]
    BY <1>5, <2>2, ArrayAppend
  <2>4. x.key = RowKey(rows[i]) /\ x.from = {i} /\ MergedRow(rows, x)
    BY <2>1, RowAlone
  <2>5. \A l \in 1..L : merged[l].key # RowKey(rows[i])
    BY <1>2, <1>4, <1>6
  <2>6. ASSUME NEW l \in 1..(L + 1)
        PROVE  MergedRow(rows, w[l]) /\ w[l].from = {j \in C \cup {i} : RowKey(rows[j]) = w[l].key}
    <3>1. CASE l = L + 1
      <4>1. \A j \in C : RowKey(rows[j]) # RowKey(rows[i])
        BY <1>5, <2>5
      <4> QED  BY <4>1, <3>1, <2>3, <2>4
    <3>2. CASE l # L + 1
      <4>1. l \in 1..L
        BY <3>2, <1>5
      <4> QED  BY <4>1, <2>3, <2>5, <1>5
    <3> QED  BY <3>1, <3>2
  <2>7. ASSUME NEW l \in 1..(L + 1), NEW k \in 1..(L + 1), w[l].key = w[k].key PROVE l = k
    <3>1. (l \in 1..L \/ l = L + 1) /\ (k \in 1..L \/ k = L + 1)
      BY <1>5
    <3> QED  BY <3>1, <2>3, <2>4, <2>5, <2>7, <1>5
  <2>8. ASSUME NEW j \in C \cup {i} PROVE \E l \in 1..(L + 1) : w[l].key = RowKey(rows[j])
    <3>1. L + 1 \in 1..(L + 1) /\ \A l \in 1..L : l \in 1..(L + 1)
      BY <1>5
    <3> QED  BY <3>1, <2>3, <2>4, <1>5
  <2>9. L + 1 \in Nat
    BY <1>5
  <2>10. PICK K : K = L + 1
    OBVIOUS
  <2>11. /\ K \in Nat /\ Array(w, K) /\ Len(w) = K
         /\ \A l \in 1..K :
              MergedRow(rows, w[l]) /\ w[l].from = {j \in C \cup {i} : RowKey(rows[j]) = w[l].key}
         /\ \A l, k \in 1..K : w[l].key = w[k].key => l = k
         /\ \A j \in C \cup {i} : \E l \in 1..K : w[l].key = RowKey(rows[j])
    BY <2>3, <2>6, <2>7, <2>8, <2>9, <2>10
  <2> QED  BY <2>11, <1>3 DEF MergedRows
<1>7. CASE m \in 1..L
  <2>1. PICK x : x = merged[m]
    OBVIOUS
  <2>2. MergedRow(rows, x) /\ x.from = {j \in C : RowKey(rows[j]) = x.key} /\ x.key = RowKey(rows[i])
    BY <2>1, <1>2, <1>4, <1>5, <1>7
  <2>3. x = [key |-> x.key, merge |-> x.merge, content |-> x.content, from |-> x.from]
    BY <2>2 DEF MergedRow
  <2>4. \A j \in x.from : j < i
    BY <2>2
  <2>5. PICK y : y = IF rows[i].merge
                     THEN [key |-> x.key, merge |-> x.merge,
                           content |-> MergeRowInto(x.content, Content(i)), from |-> x.from \cup {i}]
                     ELSE [key |-> RowKey(rows[i]), merge |-> rows[i].merge, content |-> Content(i),
                           from |-> x.from \cup {i}]
    OBVIOUS
  <2>6. w = [merged EXCEPT ![m] = y]
    <3>1. m # 0
      BY <1>5, <1>7
    <3>2. CASE rows[i].merge
      <4>1. w = [merged EXCEPT ![m].content = MergeRowInto(@, Content(i)), ![m].from = @ \cup {i}]
        BY <1>1, <1>3, <3>1, <3>2 DEF MergeInto
      <4>2. DOMAIN merged = 1..L
        BY <1>5 DEF Array
      <4>3. PICK v : v = [merged EXCEPT ![m].content = MergeRowInto(@, Content(i))]
        OBVIOUS
      <4>4. w = [v EXCEPT ![m].from = @ \cup {i}]
        BY <4>1, <4>3
      <4>5. /\ v = [l \in 1..L |-> v[l]] /\ \A l \in 1..L : l # m => v[l] = merged[l]
            /\ v[m] = [x EXCEPT !.content = MergeRowInto(@, Content(i))]
        BY <4>2, <4>3, <2>1, <1>7
      <4>6. v[m] = [key |-> x.key, merge |-> x.merge,
                    content |-> MergeRowInto(x.content, Content(i)), from |-> x.from]
        BY <4>5, <2>3
      <4>7. /\ w = [l \in 1..L |-> w[l]] /\ \A l \in 1..L : l # m => w[l] = merged[l]
            /\ w[m] = [v[m] EXCEPT !.from = @ \cup {i}]
        BY <4>4, <4>5, <1>7
      <4>8. w[m] = y
        <5>1. PICK u : u = v[m]
          OBVIOUS
        <5>2. u.from = x.from /\ w[m] = [u EXCEPT !.from = u.from \cup {i}]
          BY <4>6, <4>7, <5>1
        <5>3. PICK c : c = MergeRowInto(x.content, Content(i))
          OBVIOUS
        <5>4. PICK g : g = x.from \cup {i}
          OBVIOUS
        <5>5. u = [key |-> x.key, merge |-> x.merge, content |-> c, from |-> x.from]
          BY <4>6, <5>1, <5>3
        <5>6. [u EXCEPT !.from = g] = [key |-> x.key, merge |-> x.merge, content |-> c, from |-> g]
          BY <5>5, WithFrom
        <5>7. w[m] = [u EXCEPT !.from = g]
          BY <5>2, <5>4
        <5>8. y = [key |-> x.key, merge |-> x.merge, content |-> c, from |-> g]
          BY <2>5, <3>2, <5>3, <5>4
        <5> QED  BY <5>6, <5>7, <5>8
      <4> QED  BY <4>2, <4>7, <4>8
    <3>3. CASE ~rows[i].merge
      <4>1. w = [merged EXCEPT ![m] = [[key |-> RowKey(rows[i]), merge |-> rows[i].merge,
                                        content |-> Content(i), from |-> {i}]
                                       EXCEPT !.from = @ \cup merged[m].from]]
        BY <1>1, <1>3, <3>1, <3>3 DEF MergeInto
      <4>2. PICK z : z = [key |-> RowKey(rows[i]), merge |-> rows[i].merge,
                          content |-> Content(i), from |-> {i}]
        OBVIOUS
      <4>3. w = [merged EXCEPT ![m] = [z EXCEPT !.from = @ \cup merged[m].from]]
        BY <4>1, <4>2
      <4>4. {i} \cup x.from = x.from \cup {i}
        OBVIOUS
      <4>5. [z EXCEPT !.from = @ \cup merged[m].from]
            = [key |-> RowKey(rows[i]), merge |-> rows[i].merge, content |-> Content(i),
               from |-> {i} \cup x.from]
        <5>1. z.from = {i} /\ merged[m].from = x.from
          BY <4>2, <2>1
        <5>2. [z EXCEPT !.from = @ \cup merged[m].from] = [z EXCEPT !.from = {i} \cup x.from]
          BY <5>1
        <5>3. PICK c : c = Content(i)
          OBVIOUS
        <5>4. PICK g : g = {i} \cup x.from
          OBVIOUS
        <5>5. z = [key |-> RowKey(rows[i]), merge |-> rows[i].merge, content |-> c, from |-> {i}]
          BY <4>2, <5>3
        <5>6. [z EXCEPT !.from = g]
              = [key |-> RowKey(rows[i]), merge |-> rows[i].merge, content |-> c, from |-> g]
          BY <5>5, WithFrom
        <5> QED  BY <5>2, <5>3, <5>4, <5>6
      <4>6. [z EXCEPT !.from = @ \cup merged[m].from] = y
        BY <4>4, <4>5, <2>5, <3>3
      <4> QED  BY <4>3, <4>6
    <3> QED  BY <3>2, <3>3
  <2>7. MergedRow(rows, y) /\ y.key = RowKey(rows[i]) /\ y.from = x.from \cup {i}
    <3>1. CASE rows[i].merge
      BY <3>1, <2>2, <2>4, <2>5, RowMerged
    <3>2. CASE ~rows[i].merge
      BY <3>2, <2>2, <2>4, <2>5, RowReplaced
    <3> QED  BY <3>1, <3>2
  <2>8. /\ Array(w, L) /\ Len(w) = L /\ w[m] = y
        /\ \A l \in 1..L : l # m => w[l] = merged[l]
    <3>1. L \in Nat /\ Array(merged, L)
      BY <1>5
    <3>2. Array(w, L) /\ w[m] = y /\ \A l \in 1..L : l # m => w[l] = merged[l]
      BY <2>6, <3>1, <1>7 DEF Array
    <3> QED  BY <3>1, <3>2, ArrayLength
  <2>9. \A l \in 1..L : w[l].key = merged[l].key
    BY <2>8, <2>7, <2>2, <2>1
  <2>10. ASSUME NEW l \in 1..L
         PROVE  MergedRow(rows, w[l]) /\ w[l].from = {j \in C \cup {i} : RowKey(rows[j]) = w[l].key}
    <3>1. CASE l = m
      BY <3>1, <2>2, <2>7, <2>8
    <3>2. CASE l # m
      <4>1. merged[l].key # RowKey(rows[i])
        BY <3>2, <1>5, <1>7, <2>1, <2>2
      <4> QED  BY <4>1, <3>2, <2>8, <1>5
    <3> QED  BY <3>1, <3>2
  <2>11. \A j \in C \cup {i} : \E l \in 1..L : w[l].key = RowKey(rows[j])
    BY <1>5, <1>7, <2>7, <2>8, <2>9
  <2>12. \A l, k \in 1..L : w[l].key = w[k].key => l = k
    BY <1>5, <2>9
  <2> QED  BY <2>8, <2>10, <2>11, <2>12, <1>3, <1>5 DEF MergedRows
<1> QED  BY <1>2, <1>4, <1>6, <1>7

(* The rows of a chunk come in the order of submission. *)
LEMMA ChunkMerged ==
  ASSUME NEW n \in Nat, DOMAIN rows = 1..n, \A i \in 1..n : rows[i].merge \in BOOLEAN,
         NEW chunk, NEW c \in Nat, Len(chunk) = c, \A a \in 1..c : chunk[a] \in 1..n,
         \A a, b \in 1..c : a < b => chunk[a] < chunk[b]
  PROVE  MergedRows(rows, MergeChunk(chunk), {chunk[a] : a \in 1..c})
<1>1. PICK f : Mergings(chunk, c, f) /\ MergeChunk(chunk) = f[c]
  BY MergeChunkIsMerging
<1> DEFINE P(m) == MergedRows(rows, f[m], {chunk[a] : a \in 1..m})
           T == {m \in Nat : m <= c => P(m)}
<1>2. 0 \in T
  <2>1. f[0] = <<>>
    BY <1>1 DEF Mergings
  <2>2. {chunk[a] : a \in 1..0} = {}
    OBVIOUS
  <2>3. MergedRows(rows, <<>>, {})
    BY EmptyArray DEF MergedRows
  <2> QED  BY <2>1, <2>2, <2>3
<1>3. ASSUME NEW m \in T PROVE m + 1 \in T
  <2>1. m \in Nat
    OBVIOUS
  <2>2. ASSUME m + 1 <= c, P(m) PROVE P(m + 1)
    <3>1. f[m + 1] = MergeInto(f[m], chunk[m + 1])
      <4>1. m + 1 \in 0..c /\ m + 1 # 0 /\ (m + 1) - 1 = m
        BY <2>1, <2>2
      <4> QED  BY <4>1, <1>1 DEF Mergings
    <3>2. PICK C : C = {chunk[a] : a \in 1..m}
      OBVIOUS
    <3>3. PICK i : i = chunk[m + 1]
      OBVIOUS
    <3>4. i \in 1..n
      BY <2>1, <2>2, <3>3
    <3>5. C \in SUBSET (1..n) /\ \A j \in C : j < i
      <4>1. \A a \in 1..m : chunk[a] \in 1..n /\ chunk[a] < i
        BY <2>1, <2>2, <3>3
      <4> QED  BY <4>1, <3>2
    <3>6. {chunk[a] : a \in 1..(m + 1)} = C \cup {i}
      <4>1. 1..(m + 1) = 1..m \cup {m + 1}
        <5>1. ASSUME NEW a \in 1..(m + 1) PROVE a \in 1..m \cup {m + 1}
          BY <2>1
        <5>2. ASSUME NEW a \in 1..m \cup {m + 1} PROVE a \in 1..(m + 1)
          BY <2>1
        <5> QED  BY <5>1, <5>2
      <4> QED  BY <4>1, <3>2, <3>3
    <3>7. MergedRows(rows, f[m], C)
      BY <2>2, <3>2
    <3>8. MergedRows(rows, MergeInto(f[m], i), C \cup {i})
      BY <3>4, <3>5, <3>7, ChunkGrows
    <3> QED  BY <3>1, <3>3, <3>6, <3>8
  <2>3. m + 1 <= c => m <= c
    BY <2>1
  <2> HIDE DEF P
  <2> QED  BY <2>1, <2>2, <2>3
<1>4. T = Nat
  <2>1. T \in SUBSET Nat
    OBVIOUS
  <2> HIDE DEF T
  <2> QED  BY <2>1, <1>2, <1>3, SetInduction
<1>5. P(c)
  <2>1. c \in T /\ c <= c
    <3> HIDE DEF T
    <3> QED  BY <1>4
  <2> HIDE DEF P
  <2> QED  BY <2>1
<1> QED  BY <1>1, <1>5

-----------------------------------------------------------------------------
(* What a row leaves at the server.                                        *)

(* The content of a key after row x has arrived. *)
Received(s, x) ==
  IF x.merge THEN MergeRowInto(Held(s, x.key), x.content) ELSE x.content

IsMap(s) == s = [k \in DOMAIN s |-> s[k]]

LEMMA RowStored ==
  ASSUME NEW s, IsMap(s), NEW x, NEW t, t = Apply(s, x)
  PROVE  /\ IsMap(t)
         /\ DOMAIN t = DOMAIN s \cup {x.key}
         /\ t[x.key] = Received(s, x)
         /\ \A k \in DOMAIN s : k # x.key => t[k] = s[k]
BY DEF Apply, Received, IsMap

-----------------------------------------------------------------------------
(* What sending the rows one by one would leave.                           *)

KeyRows(s, F, k) == {i \in F : RowKey(s[i]) = k}

(* Rows F have arrived one by one. *)
Expecting(s, held, F) ==
  /\ IsMap(held)
  /\ \A k : k \in DOMAIN held <=> KeyRows(s, F, k) # {}
  /\ \A k \in DOMAIN held : held[k] = Expected(s, KeyRows(s, F, k))

LEMMA HeldExpected ==
  ASSUME NEW s, NEW F, Expecting(rows, s, F)
  PROVE  \A k : Held(s, k) = Expected(rows, KeyRows(rows, F, k))
<1> SUFFICES ASSUME NEW k PROVE Held(s, k) = Expected(rows, KeyRows(rows, F, k))
  OBVIOUS
<1>1. CASE k \in DOMAIN s
  BY <1>1 DEF Expecting, Held
<1>2. CASE k \notin DOMAIN s
  <2>1. KeyRows(rows, F, k) = {}
    BY <1>2 DEF Expecting
  <2> QED  BY <2>1, <1>2, ExpectedOfNone DEF Held
<1> QED  BY <1>1, <1>2

LEMMA SentOneByOne ==
  ASSUME NEW n \in Nat, DOMAIN rows = 1..n, \A i \in 1..n : rows[i].merge \in BOOLEAN, Stable(rows)
  PROVE  Expecting(rows, OneByOne(n), 1..n)
<1>1. PICK batch : batch = [i \in 1..n |-> Alone(i)]
  OBVIOUS
<1>2. Len(batch) = n
  <2>1. Array(batch, n)
    BY <1>1 DEF Array
  <2> QED  BY <2>1, ArrayLength
<1>3. PICK f : Storings(Empty, batch, n, f) /\ OneByOne(n) = f[n]
  <2>1. OneByOne(n) = StoreAll(Empty, batch)
    BY <1>1 DEF OneByOne
  <2>2. \E g : Storings(Empty, batch, n, g) /\ StoreAll(Empty, batch) = g[n]
    BY <1>2, StoreAllIsStoring
  <2> QED  BY <2>1, <2>2
<1> DEFINE P(m) == Expecting(rows, f[m], 1..m)
           T == {m \in Nat : m <= n => P(m)}
<1>4. 0 \in T
  <2>1. f[0] = Empty
    BY <1>3 DEF Storings
  <2>2. DOMAIN Empty = {} /\ IsMap(Empty)
    BY DEF Empty, IsMap
  <2>3. \A k : KeyRows(rows, 1..0, k) = {}
    BY DEF KeyRows
  <2>4. P(0)
    BY <2>1, <2>2, <2>3 DEF Expecting
  <2> HIDE DEF P
  <2> QED  BY <2>4
<1>5. ASSUME NEW m \in T PROVE m + 1 \in T
  <2>1. m \in Nat
    OBVIOUS
  <2>2. ASSUME m + 1 <= n, P(m) PROVE P(m + 1)
    <3>0. m + 1 \in 1..n
      BY <2>1, <2>2
    <3>1. f[m + 1] = Apply(f[m], batch[m + 1])
      <4>1. m + 1 \in 0..n /\ m + 1 # 0 /\ (m + 1) - 1 = m
        BY <2>1, <2>2
      <4> QED  BY <4>1, <1>3 DEF Storings
    <3>2. PICK i : i = m + 1
      OBVIOUS
    <3>3. PICK x : x = Alone(i)
      OBVIOUS
    <3>4. PICK a : a = f[m]
      OBVIOUS
    <3>5. PICK c : c = f[m + 1]
      OBVIOUS
    <3>6. c = Apply(a, x)
      BY <3>0, <3>1, <3>2, <3>3, <3>4, <3>5, <1>1
    <3>7. /\ IsMap(c) /\ DOMAIN c = DOMAIN a \cup {x.key}
          /\ c[x.key] = Received(a, x)
          /\ \A k \in DOMAIN a : k # x.key => c[k] = a[k]
      BY <3>6 DEF Apply, Received, IsMap
    <3>8. x.key = RowKey(rows[i]) /\ x.merge = rows[i].merge /\ x.content = Content(i)
      BY <3>3 DEF Alone
    <3>9. i \in 1..n /\ 1..(m + 1) = 1..m \cup {i} /\ i \notin 1..m
      <4>1. ASSUME NEW l \in 1..(m + 1) PROVE l \in 1..m \cup {i}
        BY <2>1, <3>2
      <4>2. ASSUME NEW l \in 1..m \cup {i} PROVE l \in 1..(m + 1)
        BY <2>1, <3>2
      <4>3. i \notin 1..m
        BY <2>1, <3>2
      <4> QED  BY <4>1, <4>2, <4>3, <3>0, <3>2
    <3>10. Expecting(rows, a, 1..m)
      BY <2>2, <3>4
    <3>11. \A k : KeyRows(rows, 1..(m + 1), k) = IF k = x.key THEN KeyRows(rows, 1..m, k) \cup {i}
                                           ELSE KeyRows(rows, 1..m, k)
      BY <3>8, <3>9 DEF KeyRows
    <3>12. PICK R : R = KeyRows(rows, 1..m, x.key)
      OBVIOUS
    <3>13. /\ R \in SUBSET (1..n) /\ {i} \in SUBSET (1..n) /\ \A l \in R, j \in {i} : l < j
           /\ R \in SUBSET Nat /\ {i} \in SUBSET Nat
      <4>1. \A l \in 1..m : l \in 1..n /\ l < i /\ l \in Nat
        BY <2>1, <2>2, <3>2
      <4>2. i \in Nat
        BY <2>1, <3>2
      <4> QED  BY <4>1, <4>2, <3>9, <3>12 DEF KeyRows
    <3>14. Content(i) = Expected(rows, {i})
      BY <3>13, ExpectedOfOne
    <3>15. Held(a, x.key) = Expected(rows, R)
      BY <3>10, <3>12, HeldExpected
    <3>16. Received(a, x) = Expected(rows, R \cup {i})
      <4>1. CASE rows[i].merge
        <5>1. \A j \in {i} : rows[j].merge
          BY <4>1
        <5>2. MergeRowInto(Expected(rows, R), Expected(rows, {i})) = Expected(rows, R \cup {i})
          <6>1. PICK F : F = {i}
            OBVIOUS
          <6>2. MergingLater(rows, n, R, F) /\ Stable(rows)
            <7>1. /\ R \in SUBSET (1..n) /\ F \in SUBSET (1..n)
                  /\ (\A l \in R, j \in F : l < j) /\ (\A j \in F : rows[j].merge)
              BY ONLY <6>1, <5>1, <3>13
            <7>2. n \in Nat /\ DOMAIN rows = 1..n /\ Stable(rows)
              OBVIOUS
            <7> QED  BY ONLY <7>1, <7>2 DEF MergingLater
          <6>3. MergesInto(rows, R, F)
            BY ONLY <6>2, MergedWithLater
          <6> QED  BY ONLY <6>1, <6>3 DEF MergesInto
        <5> QED  BY <5>2, <4>1, <3>8, <3>14, <3>15 DEF Received
      <4>2. CASE ~rows[i].merge
        <5>1. \E j \in {i} : ~rows[j].merge
          BY <4>2
        <5>2. Expected(rows, R \cup {i}) = Expected(rows, {i})
          BY <5>1, <3>13, ReplacedByLater
        <5> QED  BY <5>2, <4>2, <3>8, <3>14 DEF Received
      <4> QED  BY <4>1, <4>2
    <3>17. \A k : k \in DOMAIN c <=> KeyRows(rows, 1..(m + 1), k) # {}
      BY <3>7, <3>10, <3>11 DEF Expecting
    <3>18. ASSUME NEW k \in DOMAIN c PROVE c[k] = Expected(rows, KeyRows(rows, 1..(m + 1), k))
      <4>1. CASE k = x.key
        BY <4>1, <3>7, <3>11, <3>12, <3>16
      <4>2. CASE k # x.key
        <5>1. k \in DOMAIN a /\ c[k] = a[k]
          BY <4>2, <3>7
        <5> QED  BY <5>1, <4>2, <3>10, <3>11 DEF Expecting
      <4> QED  BY <4>1, <4>2
    <3> QED  BY <3>5, <3>7, <3>17, <3>18 DEF Expecting
  <2>3. m + 1 <= n => m <= n
    BY <2>1
  <2> HIDE DEF P
  <2> QED  BY <2>1, <2>2, <2>3
<1>6. T = Nat
  <2>1. T \in SUBSET Nat
    OBVIOUS
  <2> HIDE DEF T
  <2> QED  BY <2>1, <1>4, <1>5, SetInduction
<1>7. P(n)
  <2>1. n \in T /\ n <= n
    <3> HIDE DEF T
    <3> QED  BY <1>6
  <2> HIDE DEF P
  <2> QED  BY <2>1
<1> QED  BY <1>3, <1>7

-----------------------------------------------------------------------------
(* The batches of a chunk.                                                 *)

(* The cuts of a chunk divide it: each of its rows is in one batch. *)
LEMMA CutsDivide ==
  ASSUME NEW merged, NEW L \in Nat, Len(merged) = L, NEW ends \in Cuts(merged)
  PROVE  \E K \in Nat \ {0} :
           /\ DOMAIN ends = 1..K
           /\ \A b \in 1..K : ends[b] \in 1..L /\ Start(ends, b) \in Nat /\ Start(ends, b) < ends[b]
           /\ \A a, b \in 1..K : a < b => ends[a] <= Start(ends, b)
           /\ \A x \in 1..L : \E b \in 1..K : Start(ends, b) < x /\ x <= ends[b]
<1>1. PICK K \in 1..L : ends \in [1..K -> 1..L]
  BY DEF Cuts
<1>2. K \in Nat \ {0}
  OBVIOUS
<1>3. Len(ends) = K
  <2>1. Array(ends, K)
    BY <1>1 DEF Array
  <2> QED  BY <2>1, <1>2, ArrayLength
<1>4. DOMAIN ends = 1..K
  BY <1>1
<1>5. ends[K] = L /\ \A b \in 1..K : ends[b] - Start(ends, b) \in 1..BatchMaxItems
  BY <1>3, <1>4 DEF Cuts
<1>6. \A b \in 1..K : Start(ends, b) = IF b = 1 THEN 0 ELSE ends[b - 1]
  BY DEF Start
<1>7. ASSUME NEW b \in 1..K
      PROVE  ends[b] \in 1..L /\ Start(ends, b) \in Nat /\ Start(ends, b) < ends[b]
  <2>1. ends[b] \in 1..L /\ ends[b] - Start(ends, b) \in 1..BatchMaxItems
    BY <1>1, <1>5
  <2>2. Start(ends, b) \in Nat
    <3>1. b # 1 => b - 1 \in 1..K
      BY <1>2
    <3> QED  BY <3>1, <1>1, <1>6
  <2> QED  BY <2>1, <2>2, FlushPipelineAssumption
<1> DEFINE T == {d \in Nat : \A a \in 1..K : a + d + 1 \in 1..K => ends[a] <= Start(ends, a + d + 1)}
<1>8. 0 \in T
  <2>1. ASSUME NEW a \in 1..K, a + 0 + 1 \in 1..K PROVE ends[a] <= Start(ends, a + 0 + 1)
    <3>1. Start(ends, a + 0 + 1) = ends[a]
      BY <2>1, <1>6
    <3> QED  BY <3>1, <1>7
  <2> QED  BY <2>1
<1>9. ASSUME NEW d \in T PROVE d + 1 \in T
  <2>1. d \in Nat
    OBVIOUS
  <2>2. ASSUME NEW a \in 1..K, a + (d + 1) + 1 \in 1..K PROVE ends[a] <= Start(ends, a + (d + 1) + 1)
    <3>1. PICK e : e = a + d + 1
      OBVIOUS
    <3>2. e \in 1..K /\ a + (d + 1) + 1 = e + 1 /\ e + 1 \in 1..K
      BY <2>1, <2>2, <3>1
    <3>3. ends[a] <= Start(ends, e)
      BY <2>1, <3>1, <3>2
    <3>4. Start(ends, e + 1) = ends[e]
      BY <3>2, <1>6
    <3>5. ends[e] \in Nat /\ Start(ends, e) \in Nat /\ Start(ends, e) < ends[e] /\ ends[a] \in Nat
      BY <3>2, <1>7
    <3> QED  BY <3>2, <3>3, <3>4, <3>5
  <2> QED  BY <2>1, <2>2
<1>10. T = Nat
  <2>1. T \in SUBSET Nat
    OBVIOUS
  <2> HIDE DEF T
  <2> QED  BY <2>1, <1>8, <1>9, SetInduction
<1>11. ASSUME NEW a \in 1..K, NEW b \in 1..K, a < b PROVE ends[a] <= Start(ends, b)
  <2>1. PICK d : d = b - a - 1
    OBVIOUS
  <2>2. d \in Nat /\ a + d + 1 = b
    BY <2>1, <1>11
  <2>3. d \in T
    <3> HIDE DEF T
    <3> QED  BY <2>2, <1>10
  <2>4. a + d + 1 \in 1..K
    BY <2>2
  <2>5. ends[a] <= Start(ends, a + d + 1)
    BY <2>3, <2>4
  <2> QED  BY <2>2, <2>5
<1>12. ASSUME NEW x \in 1..L PROVE \E b \in 1..K : Start(ends, b) < x /\ x <= ends[b]
  <2>1. PICK S : S = {b \in 1..K : x <= ends[b]}
    OBVIOUS
  <2>2. S \in SUBSET Nat /\ K \in S
    BY <2>1, <1>5
  <2>3. PICK b : b = Min(S)
    OBVIOUS
  <2>4. b \in S /\ \A c \in S : b <= c
    BY <2>2, <2>3, LeastElement
  <2>5. b \in 1..K /\ x <= ends[b]
    BY <2>1, <2>4
  <2>6. Start(ends, b) < x
    <3>1. CASE b = 1
      BY <3>1, <2>5, <1>6
    <3>2. CASE b # 1
      <4>1. b - 1 \in 1..K /\ b - 1 < b
        BY <2>5, <3>2
      <4>2. b - 1 \notin S
        <5>1. b \in Nat /\ b - 1 \in Nat /\ ~(b <= b - 1)
          BY <4>1, <2>5
        <5> QED  BY <5>1, <2>4
      <4>3. ~(x <= ends[b - 1]) /\ ends[b - 1] \in Nat
        BY <4>1, <4>2, <2>1, <1>7
      <4>4. Start(ends, b) = ends[b - 1]
        BY <2>5, <3>2, <1>6
      <4> QED  BY <4>3, <4>4
    <3> QED  BY <3>1, <3>2
  <2> QED  BY <2>5, <2>6
<1> QED  BY <1>2, <1>4, <1>7, <1>11, <1>12

IsSend(x) == x = [rows |-> x.rows, answer |-> x.answer]

(* The batches that are sent, for rows C: one merged row for each key.     *)
Batched(s, ss, C) ==
  /\ Len(ss) \in Nat /\ Array(ss, Len(ss))
  /\ \A n \in 1..Len(ss) :
       /\ IsSend(ss[n])
       /\ Len(ss[n].rows) \in Nat \ {0} /\ DOMAIN ss[n].rows = 1..Len(ss[n].rows)
       /\ \A j \in 1..Len(ss[n].rows) :
            /\ MergedRow(s, ss[n].rows[j])
            /\ ss[n].rows[j].from = KeyRows(s, C, ss[n].rows[j].key)
  /\ \A n, m \in 1..Len(ss) : \A j \in 1..Len(ss[n].rows), l \in 1..Len(ss[m].rows) :
       ss[n].rows[j].key = ss[m].rows[l].key => n = m /\ j = l
  /\ \A i \in C : \E n \in 1..Len(ss) : \E j \in 1..Len(ss[n].rows) :
       ss[n].rows[j].key = RowKey(s[i])

LEMMA NothingBatched == Batched(rows, <<>>, {})
BY EmptyArray DEF Batched

(* Positions within a part. *)
LEMMA WithinPart ==
  ASSUME NEW a \in Nat, NEW b \in Nat, NEW L \in Nat, b <= L, NEW j \in 1..(b - a)
  PROVE  a + j \in 1..L /\ j \in Nat
OBVIOUS

LEMMA PlaceInPart ==
  ASSUME NEW a \in Nat, NEW b \in Nat, NEW x \in Nat, a < x, x <= b
  PROVE  x - a \in 1..(b - a) /\ a + (x - a) = x
OBVIOUS

LEMMA PartsApart ==
  ASSUME NEW a \in Nat, NEW b \in Nat, NEW c \in Nat, NEW d \in Nat,
         NEW j \in 1..(b - a), NEW l \in 1..(d - c), a + j = c + l
  PROVE  ~(b <= c) /\ (a = c => j = l)
OBVIOUS

(* Batch n is the merged rows from lo[n] + 1 to hi[n]. *)
Parts(merged, L, K, lo, hi, ss) ==
  \A n \in 1..K :
    /\ lo[n] \in Nat /\ hi[n] \in Nat /\ lo[n] < hi[n] /\ hi[n] <= L
    /\ Len(ss[n].rows) = hi[n] - lo[n] /\ DOMAIN ss[n].rows = 1..(hi[n] - lo[n])
    /\ \A j \in 1..(hi[n] - lo[n]) : ss[n].rows[j] = merged[lo[n] + j]

LEMMA PartsBatched ==
  ASSUME NEW C, NEW merged, NEW L \in Nat, Len(merged) = L, MergedRows(rows, merged, C),
         NEW K \in Nat \ {0}, NEW lo, NEW hi, NEW ss, Array(ss, K),
         \A n \in 1..K : IsSend(ss[n]),
         Parts(merged, L, K, lo, hi, ss),
         \A a, b \in 1..K : a < b => hi[a] <= lo[b],
         \A x \in 1..L : \E b \in 1..K : lo[b] < x /\ x <= hi[b]
  PROVE  Batched(rows, ss, C)
<1>1. /\ \A m \in 1..L :
           MergedRow(rows, merged[m]) /\ merged[m].from = KeyRows(rows, C, merged[m].key)
      /\ \A l, m \in 1..L : merged[l].key = merged[m].key => l = m
      /\ \A i \in C : \E m \in 1..L : merged[m].key = RowKey(rows[i])
  BY DEF MergedRows, KeyRows
<1>2. ASSUME NEW n \in 1..K
      PROVE  /\ lo[n] \in Nat /\ hi[n] \in Nat /\ lo[n] < hi[n] /\ hi[n] <= L
             /\ Len(ss[n].rows) = hi[n] - lo[n] /\ DOMAIN ss[n].rows = 1..(hi[n] - lo[n])
             /\ \A j \in 1..(hi[n] - lo[n]) : ss[n].rows[j] = merged[lo[n] + j]
  BY DEF Parts
<1>3. Len(ss) = K
  BY ArrayLength
<1>4. ASSUME NEW n \in 1..K
      PROVE  /\ Len(ss[n].rows) \in Nat \ {0} /\ DOMAIN ss[n].rows = 1..Len(ss[n].rows)
             /\ \A j \in 1..Len(ss[n].rows) :
                  /\ MergedRow(rows, ss[n].rows[j])
                  /\ ss[n].rows[j].from = KeyRows(rows, C, ss[n].rows[j].key)
  <2>1. PICK d : d = hi[n] - lo[n]
    OBVIOUS
  <2>2. /\ lo[n] \in Nat /\ hi[n] \in Nat /\ lo[n] < hi[n] /\ hi[n] <= L
        /\ Len(ss[n].rows) = d /\ DOMAIN ss[n].rows = 1..d
        /\ \A j \in 1..d : ss[n].rows[j] = merged[lo[n] + j]
    BY <1>2, <2>1
  <2>3. d \in Nat \ {0}
    BY <2>1, <2>2
  <2>4. ASSUME NEW j \in 1..d
        PROVE  /\ MergedRow(rows, ss[n].rows[j])
               /\ ss[n].rows[j].from = KeyRows(rows, C, ss[n].rows[j].key)
    <3>1. lo[n] + j \in 1..L
      <4>1. PICK l, h : l = lo[n] /\ h = hi[n]
        OBVIOUS
      <4>2. l \in Nat /\ h \in Nat /\ h <= L /\ L \in Nat /\ d = h - l /\ j \in 1..d
        BY <4>1, <2>1, <2>2
      <4>3. l + j \in 1..L
        BY ONLY <4>2
      <4> QED  BY <4>1, <4>3
    <3>2. PICK x : x = ss[n].rows[j]
      OBVIOUS
    <3>3. x = merged[lo[n] + j]
      BY <2>2, <3>2
    <3>4. MergedRow(rows, x) /\ x.from = KeyRows(rows, C, x.key)
      BY <3>1, <3>3, <1>1
    <3> QED  BY <3>2, <3>4
  <2> QED  BY <2>2, <2>3, <2>4
<1>5. ASSUME NEW n \in 1..K, NEW m \in 1..K,
             NEW j \in 1..Len(ss[n].rows), NEW l \in 1..Len(ss[m].rows),
             ss[n].rows[j].key = ss[m].rows[l].key
      PROVE  n = m /\ j = l
  <2>1. /\ lo[n] \in Nat /\ hi[n] \in Nat /\ lo[n] < hi[n] /\ hi[n] <= L
        /\ j \in 1..(hi[n] - lo[n]) /\ ss[n].rows[j] = merged[lo[n] + j]
    BY <1>2
  <2>2. /\ lo[m] \in Nat /\ hi[m] \in Nat /\ lo[m] < hi[m] /\ hi[m] <= L
        /\ l \in 1..(hi[m] - lo[m]) /\ ss[m].rows[l] = merged[lo[m] + l]
    BY <1>2
  <2>3. lo[n] + j \in 1..L /\ lo[m] + l \in 1..L
    BY <2>1, <2>2, WithinPart
  <2>4. lo[n] + j = lo[m] + l
    BY <2>1, <2>2, <2>3, <1>1, <1>5
  <2>5. (n < m => hi[n] <= lo[m]) /\ (m < n => hi[m] <= lo[n])
    OBVIOUS
  <2>p. PICK a : a = lo[n]
    OBVIOUS
  <2>q. PICK b : b = hi[n]
    OBVIOUS
  <2>r. PICK c : c = lo[m]
    OBVIOUS
  <2>s. PICK d : d = hi[m]
    OBVIOUS
  <2>t. /\ a \in Nat /\ b \in Nat /\ c \in Nat /\ d \in Nat /\ a + j = c + l /\ c + l = a + j
        /\ j \in 1..(b - a) /\ l \in 1..(d - c)
    BY <2>1, <2>2, <2>4, <2>p, <2>q, <2>r, <2>s
  <2>6. ~(hi[n] <= lo[m])
    <3>1. ~(b <= c)
      BY <2>t, PartsApart
    <3> QED  BY <3>1, <2>q, <2>r
  <2>7. ~(hi[m] <= lo[n])
    <3>1. ~(d <= a)
      BY <2>t, PartsApart
    <3> QED  BY <3>1, <2>p, <2>s
  <2>8. n \in Nat /\ m \in Nat /\ ~(n < m) /\ ~(m < n)
    BY <2>5, <2>6, <2>7
  <2>9. n = m
    BY <2>8
  <2>10. j = l
    <3>1. a = c
      BY <2>9, <2>p, <2>r
    <3> QED  BY <3>1, <2>t, PartsApart
  <2> QED  BY <2>9, <2>10
<1>6. ASSUME NEW i \in C
      PROVE  \E n \in 1..K : \E j \in 1..Len(ss[n].rows) : ss[n].rows[j].key = RowKey(rows[i])
  <2>1. PICK x \in 1..L : merged[x].key = RowKey(rows[i])
    BY <1>1
  <2>2. PICK b \in 1..K : lo[b] < x /\ x <= hi[b]
    OBVIOUS
  <2>3. PICK j : j = x - lo[b]
    OBVIOUS
  <2>4. j \in 1..(hi[b] - lo[b]) /\ lo[b] + j = x
    <3>1. lo[b] \in Nat /\ hi[b] \in Nat /\ x \in Nat
      BY <1>2
    <3> QED  BY <3>1, <2>2, <2>3, PlaceInPart
  <2>5. j \in 1..Len(ss[b].rows) /\ ss[b].rows[j].key = RowKey(rows[i])
    BY <2>1, <2>4, <1>2
  <2> QED  BY <2>5
<1> QED  BY <1>3, <1>4, <1>5, <1>6 DEF Batched

LEMMA BatchIs ==
  ASSUME NEW merged, NEW L \in Nat, Len(merged) = L, Array(merged, L),
         NEW a \in Nat, NEW z \in 1..L, a < z, NEW q, q = SubSeq(merged, a + 1, z)
  PROVE  /\ Len(q) = z - a /\ DOMAIN q = 1..(z - a)
         /\ \A j \in 1..(z - a) : q[j] = merged[a + j]
<1>1. PICK e : e = a + 1
  OBVIOUS
<1>2. e \in Nat \ {0} /\ z \in 1..L /\ e <= z /\ z - e + 1 = z - a
  BY <1>1
<1>3. PICK d : d = z - a
  OBVIOUS
<1>4. d \in Nat /\ d = z - e + 1
  BY <1>2, <1>3
<1>5. Array(q, d) /\ Len(q) = d /\ \A k \in 1..d : q[k] = merged[e + k - 1]
  <2>1. e \in Nat \ {0} /\ e <= z /\ L \in Nat /\ Array(merged, L)
    BY <1>2
  <2>2. /\ Array(SubSeq(merged, e, z), z - e + 1)
        /\ Len(SubSeq(merged, e, z)) = z - e + 1
        /\ \A k \in 1..(z - e + 1) : SubSeq(merged, e, z)[k] = merged[e + k - 1]
    BY <2>1, ArrayPart
  <2>3. q = SubSeq(merged, e, z)
    BY <1>1
  <2> QED  BY <2>2, <2>3, <1>4
<1>6. DOMAIN q = 1..d
  BY <1>5 DEF Array
<1>7. ASSUME NEW j \in 1..d PROVE q[j] = merged[a + j]
  <2>1. e + j - 1 = a + j
    BY <1>1, <1>4
  <2> QED  BY <2>1, <1>5
<1> QED  BY <1>3, <1>5, <1>6, <1>7

(* Batches bs are to be sent. *)
ToSend(ss, bs, D) ==
  /\ IsMap(ss) /\ DOMAIN ss = D
  /\ \A n \in D : IsSend(ss[n]) /\ ss[n].rows = bs[n] /\ ss[n].answer = "none"

LEMMA ChunkBatched ==
  ASSUME NEW C, NEW merged, MergedRows(rows, merged, C), NEW ends \in Cuts(merged), NEW bs,
         bs = Batches(merged, ends), NEW ss, ToSend(ss, bs, DOMAIN ends)
  PROVE  /\ Batched(rows, ss, C)
         /\ DOMAIN ss = DOMAIN ends
         /\ \A n \in DOMAIN ss : ss[n].answer = "none" /\ ss[n].rows = bs[n]
<1>1. PICK L : L = Len(merged)
  OBVIOUS
<1>2. L \in Nat /\ Array(merged, L) /\ Len(merged) = L
  BY <1>1 DEF MergedRows
<1>3. PICK K \in Nat \ {0} :
        /\ DOMAIN ends = 1..K
        /\ \A b \in 1..K : ends[b] \in 1..L /\ Start(ends, b) \in Nat /\ Start(ends, b) < ends[b]
        /\ \A a, b \in 1..K : a < b => ends[a] <= Start(ends, b)
        /\ \A x \in 1..L : \E b \in 1..K : Start(ends, b) < x /\ x <= ends[b]
  BY <1>2, CutsDivide
<1>4. PICK lo : lo = [b \in 1..K |-> Start(ends, b)]
  OBVIOUS
<1>5. \A b \in 1..K : lo[b] = Start(ends, b)
  BY <1>4
<1>6. DOMAIN ss = 1..K /\ Array(ss, K)
  BY <1>3 DEF Array, IsMap, ToSend
<1>7. ASSUME NEW n \in 1..K
      PROVE  /\ IsSend(ss[n])
             /\ ss[n].answer = "none" /\ ss[n].rows = bs[n]
  BY <1>3 DEF ToSend
<1>8. ASSUME NEW n \in 1..K
      PROVE  /\ lo[n] \in Nat /\ ends[n] \in Nat /\ lo[n] < ends[n] /\ ends[n] <= L
             /\ Len(ss[n].rows) = ends[n] - lo[n] /\ DOMAIN ss[n].rows = 1..(ends[n] - lo[n])
             /\ \A j \in 1..(ends[n] - lo[n]) : ss[n].rows[j] = merged[lo[n] + j]
  <2>1. PICK a : a = lo[n]
    OBVIOUS
  <2>2. PICK z : z = ends[n]
    OBVIOUS
  <2>3. PICK q : q = ss[n].rows
    OBVIOUS
  <2>4. a \in Nat /\ z \in 1..L /\ a < z /\ a = Start(ends, n)
    BY <2>1, <2>2, <1>3, <1>5
  <2>5. n \in DOMAIN ends
    BY <1>3
  <2>6. q = SubSeq(merged, a + 1, z)
    BY <2>2, <2>3, <2>4, <2>5, <1>7 DEF Batches
  <2>7. /\ Len(q) = z - a /\ DOMAIN q = 1..(z - a)
        /\ \A j \in 1..(z - a) : q[j] = merged[a + j]
    <3>1. L \in Nat /\ Array(merged, L) /\ Len(merged) = L /\ a \in Nat /\ z \in 1..L /\ a < z
      BY <1>2, <2>4
    <3>2. /\ Len(SubSeq(merged, a + 1, z)) = z - a
          /\ DOMAIN SubSeq(merged, a + 1, z) = 1..(z - a)
          /\ \A j \in 1..(z - a) : SubSeq(merged, a + 1, z)[j] = merged[a + j]
      BY ONLY <3>1, BatchIs
    <3> QED  BY <2>6, <3>2
  <2>8. z \in Nat /\ z <= L
    BY <2>4, <1>2
  <2> QED  BY <2>1, <2>2, <2>3, <2>4, <2>7, <2>8
<1>9. Parts(merged, L, K, lo, ends, ss)
  BY <1>8 DEF Parts
<1>10. /\ \A a, b \in 1..K : a < b => ends[a] <= lo[b]
       /\ \A x \in 1..L : \E b \in 1..K : lo[b] < x /\ x <= ends[b]
  BY <1>3, <1>5
<1>11. Batched(rows, ss, C)
  <2>1. \A n \in 1..K : IsSend(ss[n])
    BY <1>7
  <2> QED  BY <2>1, <1>2, <1>6, <1>9, <1>10, PartsBatched
<1> QED  BY <1>3, <1>6, <1>7, <1>11

(* The rows in flight are those the batches are for. *)
InFlight(ss) == UNION {Members(ss[n].rows) : n \in DOMAIN ss}

LEMMA MembersAre ==
  ASSUME NEW C, NEW ss, Batched(rows, ss, C), NEW n \in DOMAIN ss
  PROVE  /\ DOMAIN ss = 1..Len(ss)
         /\ \A i : i \in Members(ss[n].rows) <=> \E j \in 1..Len(ss[n].rows) : i \in ss[n].rows[j].from
         /\ Members(ss[n].rows) # {}
<1>1. DOMAIN ss = 1..Len(ss)
  BY DEF Batched, Array
<1>2. DOMAIN ss[n].rows = 1..Len(ss[n].rows) /\ Len(ss[n].rows) \in Nat \ {0}
  BY <1>1 DEF Batched
<1>3. \A i : i \in Members(ss[n].rows) <=> \E j \in 1..Len(ss[n].rows) : i \in ss[n].rows[j].from
  BY <1>2 DEF Members
<1>4. 1 \in 1..Len(ss[n].rows)
  BY <1>2
<1>5. ss[n].rows[1].from # {}
  BY <1>1, <1>4 DEF Batched, MergedRow
<1> QED  BY <1>1, <1>3, <1>4, <1>5

LEMMA InFlightAre ==
  ASSUME NEW C, NEW ss, Batched(rows, ss, C)
  PROVE  InFlight(ss) = C
<1>1. DOMAIN ss = 1..Len(ss)
  BY DEF Batched, Array
<1>2. ASSUME NEW i \in C PROVE i \in InFlight(ss)
  <2>0. PICK n \in 1..Len(ss) : \E j \in 1..Len(ss[n].rows) : ss[n].rows[j].key = RowKey(rows[i])
    BY DEF Batched
  <2>1. PICK j \in 1..Len(ss[n].rows) : ss[n].rows[j].key = RowKey(rows[i])
    BY <2>0
  <2>2. i \in ss[n].rows[j].from
    <3>1. ss[n].rows[j].from = KeyRows(rows, C, ss[n].rows[j].key)
      BY DEF Batched
    <3> QED  BY <2>1, <3>1 DEF KeyRows
  <2>3. n \in DOMAIN ss
    BY <1>1
  <2>4. i \in Members(ss[n].rows)
    BY <2>2, <2>3, MembersAre
  <2> QED  BY <2>3, <2>4 DEF InFlight
<1>3. ASSUME NEW i \in InFlight(ss) PROVE i \in C
  <2>1. PICK n \in DOMAIN ss : i \in Members(ss[n].rows)
    BY DEF InFlight
  <2>2. PICK j \in 1..Len(ss[n].rows) : i \in ss[n].rows[j].from
    BY <2>1, MembersAre
  <2>3. ss[n].rows[j].from = KeyRows(rows, C, ss[n].rows[j].key)
    BY <1>1 DEF Batched
  <2> QED  BY <2>2, <2>3 DEF KeyRows
<1> QED  BY <1>2, <1>3

-----------------------------------------------------------------------------
(* Groups.                                                                 *)

IsGroup(g) == g = [token |-> g.token, org |-> g.org, header |-> g.header, rows |-> g.rows]

(* The rows of a group have its credentials and come in the order of       *)
(* submission; row lim is the next to come.  Its header is the first's.    *)
GroupOk(s, g, lim) ==
  /\ IsGroup(g)
  /\ g.rows \in Seq(DOMAIN s) /\ Len(g.rows) \in Nat \ {0}
  /\ g.header = Header(s[g.rows[1]])
  /\ \A a \in 1..Len(g.rows) :
       /\ g.rows[a] \in DOMAIN s /\ g.rows[a] < lim
       /\ s[g.rows[a]].token = g.token /\ s[g.rows[a]].org = g.org
  /\ \A a, b \in 1..Len(g.rows) : a < b => g.rows[a] < g.rows[b]

InGroup(g, i) == \E a \in 1..Len(g.rows) : g.rows[a] = i

(* Every row before lim is in a group or lost, and no two groups have the  *)
(* same credentials.                                                       *)
Grouped(s, gs, lim, lost) ==
  /\ Len(gs) \in Nat /\ Array(gs, Len(gs))
  /\ \A g \in 1..Len(gs) : GroupOk(s, gs[g], lim)
  /\ \A g, h \in 1..Len(gs) : gs[g].token = gs[h].token /\ gs[g].org = gs[h].org => g = h
  /\ \A i \in DOMAIN s : i < lim => i \in lost \/ \E g \in 1..Len(gs) : InGroup(gs[g], i)

LEMMA NothingGrouped ==
  ASSUME NEW s, \A i \in DOMAIN s : ~(i < 1)
  PROVE  Grouped(s, <<>>, 1, {})
BY EmptyArray DEF Grouped

LEMMA WithRows ==
  ASSUME NEW t, NEW o, NEW h, NEW r, NEW z,
         z = [token |-> t, org |-> o, header |-> h, rows |-> r], NEW g
  PROVE  [z EXCEPT !.rows = g] = [token |-> t, org |-> o, header |-> h, rows |-> g]
<1>1. PICK y : y = [z EXCEPT !.rows = g]
  OBVIOUS
<1>2. DOMAIN y = {"token", "org", "header", "rows"}
  BY <1>1
<1>3. y = [a \in {"token", "org", "header", "rows"} |-> y[a]]
  BY <1>1, <1>2
<1>4. y["token"] = t /\ y["org"] = o /\ y["header"] = h /\ y["rows"] = g
  BY <1>1
<1> QED  BY <1>1, <1>3, <1>4

(* A group stays one while the next row comes. *)
LEMMA GroupStays ==
  ASSUME NEW n \in Nat, DOMAIN rows = 1..n, NEW lim \in Nat, NEW g, GroupOk(rows, g, lim)
  PROVE  GroupOk(rows, g, lim + 1)
<1>1. ASSUME NEW a \in 1..Len(g.rows) PROVE g.rows[a] < lim + 1
  <2>1. g.rows[a] \in 1..n /\ g.rows[a] < lim
    BY DEF GroupOk
  <2> QED  BY <2>1
<1> QED  BY <1>1 DEF GroupOk

(* A row joins a group. *)
LEMMA GroupGrows ==
  ASSUME NEW n \in Nat, DOMAIN rows = 1..n, NEW i \in 1..n, NEW g, GroupOk(rows, g, i),
         rows[i].token = g.token, rows[i].org = g.org, NEW h, IsGroup(h),
         h.token = g.token, h.org = g.org, h.header = g.header, h.rows = Append(g.rows, i)
  PROVE  GroupOk(rows, h, i + 1) /\ \A j : InGroup(h, j) <=> InGroup(g, j) \/ j = i
<1>1. PICK r : r = g.rows
  OBVIOUS
<1>2. PICK L : L = Len(r)
  OBVIOUS
<1>3. /\ r \in Seq(1..n) /\ L \in Nat \ {0}
      /\ \A a \in 1..L : r[a] \in 1..n /\ r[a] < i /\ rows[r[a]].token = g.token /\ rows[r[a]].org = g.org
      /\ \A a, b \in 1..L : a < b => r[a] < r[b]
  BY <1>1, <1>2 DEF GroupOk
<1>4. PICK q : q = Append(r, i)
  OBVIOUS
<1>5. /\ q \in Seq(1..n) /\ Len(q) = L + 1 /\ q[L + 1] = i
      /\ \A a \in 1..L : q[a] = r[a]
  BY <1>2, <1>3, <1>4, AppendProperties
<1>6. ASSUME NEW a \in 1..(L + 1) PROVE a \in 1..L \/ a = L + 1
  BY <1>3
<1>7. ASSUME NEW a \in 1..(L + 1)
      PROVE  q[a] \in 1..n /\ q[a] < i + 1 /\ rows[q[a]].token = g.token /\ rows[q[a]].org = g.org
  <2>1. CASE a \in 1..L
    <3>1. PICK x : x = q[a]
      OBVIOUS
    <3>2. x \in 1..n /\ x < i /\ rows[x].token = g.token /\ rows[x].org = g.org
      BY <2>1, <3>1, <1>3, <1>5
    <3>3. x < i + 1
      BY <3>2
    <3> QED  BY <3>1, <3>2, <3>3
  <2>2. CASE a = L + 1
    BY <2>2, <1>5
  <2> QED  BY <2>1, <2>2, <1>6
<1>8. ASSUME NEW a \in 1..(L + 1), NEW b \in 1..(L + 1), a < b PROVE q[a] < q[b]
  <2>1. a \in 1..L
    BY <1>3, <1>8
  <2>2. CASE b \in 1..L
    BY <2>1, <2>2, <1>3, <1>5, <1>8
  <2>3. CASE b = L + 1
    BY <2>1, <2>3, <1>3, <1>5
  <2> QED  BY <2>2, <2>3, <1>6
<1>9. h.rows = q /\ h.token = g.token /\ h.org = g.org /\ IsGroup(h)
  BY <1>1, <1>4
<1>10. Len(q) = L + 1 /\ L + 1 \in Nat \ {0}
  BY <1>3, <1>5
<1>11. PICK K : K = L + 1
  OBVIOUS
<1>12. GroupOk(rows, h, i + 1)
  <2>1. PICK lim : lim = i + 1
    OBVIOUS
  <2>2. /\ \A a \in 1..K : q[a] \in 1..n /\ q[a] < lim /\ rows[q[a]].token = g.token /\ rows[q[a]].org = g.org
        /\ \A a, b \in 1..K : a < b => q[a] < q[b]
    BY <1>7, <1>8, <1>11, <2>1
  <2>3. GroupOk(rows, h, lim)
    <3>1. h.rows \in Seq(DOMAIN rows) /\ Len(h.rows) = K /\ K \in Nat \ {0} /\ IsGroup(h)
      BY <1>5, <1>9, <1>10, <1>11
    <3>2. \A a \in 1..K : /\ h.rows[a] \in DOMAIN rows /\ h.rows[a] < lim
                          /\ rows[h.rows[a]].token = h.token /\ rows[h.rows[a]].org = h.org
      BY <2>2, <1>9
    <3>3. \A a, b \in 1..K : a < b => h.rows[a] < h.rows[b]
      BY <2>2, <1>9
    <3>4. h.header = Header(rows[h.rows[1]])
      <4>1. 1 \in 1..L /\ g.header = Header(rows[r[1]])
        BY <1>1, <1>3 DEF GroupOk
      <4>2. h.rows[1] = r[1]
        BY <4>1, <1>5, <1>9
      <4> QED  BY <4>1, <4>2
    <3> QED  BY <3>1, <3>2, <3>3, <3>4 DEF GroupOk
  <2> QED  BY <2>1, <2>3
<1>13. ASSUME NEW j PROVE InGroup(h, j) <=> InGroup(g, j) \/ j = i
  <2>1. ASSUME NEW a \in 1..L PROVE a \in 1..(L + 1)
    BY <1>3
  <2>2. L + 1 \in 1..(L + 1)
    BY <1>3
  <2> QED  BY <2>1, <2>2, <1>1, <1>2, <1>5, <1>6, <1>9 DEF InGroup
<1> QED  BY <1>12, <1>13

(* A row opens a group. *)
LEMMA GroupOpens ==
  ASSUME NEW n \in Nat, DOMAIN rows = 1..n, NEW i \in 1..n, NEW h,
         h = [token |-> rows[i].token, org |-> rows[i].org, header |-> Header(rows[i]), rows |-> <<i>>]
  PROVE  GroupOk(rows, h, i + 1) /\ InGroup(h, i)
<1>1. PICK q : q = <<i>>
  OBVIOUS
<1>2. q \in Seq(1..n) /\ Len(q) = 1 /\ q[1] = i
  BY <1>1
<1>3. h.rows = q /\ h.token = rows[i].token /\ h.org = rows[i].org /\ IsGroup(h)
  BY <1>1 DEF IsGroup
<1>4. i < i + 1
  OBVIOUS
<1>5. \A a \in 1..1 : a = 1
  OBVIOUS
<1>6. \A a, b \in 1..1 : ~(a < b)
  OBVIOUS
<1>7. 1 \in Nat \ {0} /\ 1 \in 1..1
  OBVIOUS
<1>8. h.header = Header(rows[h.rows[1]])
  BY <1>2, <1>3
<1> QED  BY <1>8, <1>2, <1>3, <1>4, <1>5, <1>6, <1>7 DEF GroupOk, InGroup

LEMMA RowEnters ==
  ASSUME NEW n \in Nat, DOMAIN rows = 1..n, NEW i \in 1..n, NEW lost,
         Grouped(rows, groups, i, lost), Enter(i)
  PROVE  Grouped(rows, groups', i + 1, lost)
<1>1. PICK L : L = Len(groups)
  OBVIOUS
<1>2. /\ L \in Nat /\ Array(groups, L)
      /\ \A g \in 1..L : GroupOk(rows, groups[g], i)
      /\ \A g, h \in 1..L : groups[g].token = groups[h].token /\ groups[g].org = groups[h].org => g = h
      /\ \A j \in 1..n : j < i => j \in lost \/ \E g \in 1..L : InGroup(groups[g], j)
  BY <1>1 DEF Grouped
<1>3. PICK r : r = rows[i]
  OBVIOUS
<1>4. PICK g : g = SelectInSeq(groups, LAMBDA h : SameGroup(h, r))
  OBVIOUS
<1>5. \/ g \in 1..L /\ groups[g].token = r.token /\ groups[g].org = r.org
      \/ g = 0 /\ \A l \in 1..L : ~(groups[l].token = r.token /\ groups[l].org = r.org)
  <2>1. PICK I : I = {l \in 1..L : SameGroup(groups[l], r)}
    OBVIOUS
  <2>2. g = First(I)
    BY <1>1, <1>4, <2>1 DEF SelectInSeq, First
  <2>3. I \in SUBSET (Nat \ {0})
    BY <2>1
  <2>4. \/ I # {} /\ g \in I
        \/ I = {} /\ g = 0
    BY <2>2, <2>3, FoundFirst
  <2> QED  BY <2>1, <2>4 DEF SameGroup
<1>6. PICK gs : gs = groups'
  OBVIOUS
<1>7. \A h \in 1..L : GroupOk(rows, groups[h], i + 1)
  BY <1>2, GroupStays
<1>8. ASSUME NEW j \in 1..n, j < i + 1 PROVE j < i \/ j = i
  BY <1>8
<1>9. CASE g = 0
  <2>1. PICK h : h = [token |-> r.token, org |-> r.org, header |-> Header(r), rows |-> <<i>>]
    OBVIOUS
  <2>2. gs = Append(groups, h)
    <3>1. gs = IF g # 0 THEN [groups EXCEPT ![g].rows = Append(@, i)]
               ELSE Append(groups, [token |-> r.token, org |-> r.org,
                                    header |-> Header(r), rows |-> <<i>>])
      BY <1>3, <1>4, <1>6 DEF Enter
    <3> QED  BY <3>1, <1>9, <2>1
  <2>3. /\ Array(gs, L + 1) /\ Len(gs) = L + 1 /\ gs[L + 1] = h
        /\ \A l \in 1..L : gs[l] = groups[l]
    BY <1>2, <2>2, ArrayAppend
  <2>4. GroupOk(rows, h, i + 1) /\ InGroup(h, i) /\ h.token = r.token /\ h.org = r.org
    BY <1>3, <2>1, GroupOpens
  <2>5. ASSUME NEW l \in 1..(L + 1) PROVE l \in 1..L \/ l = L + 1
    BY <1>2
  <2>6. ASSUME NEW l \in 1..L PROVE l \in 1..(L + 1)
    BY <1>2
  <2>7. L + 1 \in Nat /\ L + 1 \in 1..(L + 1)
    BY <1>2
  <2>8. PICK K : K = L + 1
    OBVIOUS
  <2>9. \A l \in 1..K : GroupOk(rows, gs[l], i + 1)
    BY <2>3, <2>4, <2>5, <2>8, <1>7
  <2>10. ASSUME NEW l \in 1..K, NEW m \in 1..K, gs[l].token = gs[m].token, gs[l].org = gs[m].org
         PROVE  l = m
    <3>1. (l \in 1..L \/ l = L + 1) /\ (m \in 1..L \/ m = L + 1)
      BY <2>5, <2>8
    <3>2. \A k \in 1..L : ~(groups[k].token = h.token /\ groups[k].org = h.org)
      BY <1>2, <1>5, <1>9, <2>4
    <3> QED  BY <3>1, <3>2, <2>3, <2>10, <1>2
  <2>11. ASSUME NEW j \in 1..n, j < i + 1 PROVE j \in lost \/ \E l \in 1..K : InGroup(gs[l], j)
    BY <2>3, <2>4, <2>6, <2>7, <2>8, <2>11, <1>2, <1>8
  <2>12. K \in Nat /\ Array(gs, K) /\ Len(gs) = K
    BY <2>3, <2>7, <2>8
  <2> QED  BY <2>9, <2>10, <2>11, <2>12, <1>6 DEF Grouped
<1>10. CASE g \in 1..L
  <2>1. PICK o : o = groups[g]
    OBVIOUS
  <2>2. GroupOk(rows, o, i) /\ o.token = r.token /\ o.org = r.org
    <3>1. g # 0
      BY <1>2, <1>10
    <3> QED  BY <3>1, <2>1, <1>2, <1>5, <1>10
  <2>q. PICK q : q = Append(o.rows, i)
    OBVIOUS
  <2>3. PICK h : h = [token |-> o.token, org |-> o.org, header |-> o.header, rows |-> q]
    OBVIOUS
  <2>4. /\ GroupOk(rows, h, i + 1) /\ h.token = o.token /\ h.org = o.org
        /\ \A j : InGroup(h, j) <=> InGroup(o, j) \/ j = i
    <3>1. GroupOk(rows, h, i + 1) /\ \A j : InGroup(h, j) <=> InGroup(o, j) \/ j = i
      <4>1. rows[i].token = o.token /\ rows[i].org = o.org
        BY <2>2, <1>3
      <4>2. h.token = o.token /\ h.org = o.org /\ h.header = o.header /\ h.rows = Append(o.rows, i) /\ IsGroup(h)
        BY <2>q, <2>3 DEF IsGroup
      <4> QED  BY <4>1, <4>2, <2>2, GroupGrows
    <3> QED  BY <3>1, <2>3
  <2>5. gs = [groups EXCEPT ![g].rows = Append(@, i)]
    <3>1. g # 0
      BY <1>2, <1>10
    <3> QED  BY <3>1, <1>3, <1>4, <1>6 DEF Enter
  <2>6. gs[g] = [o EXCEPT !.rows = Append(o.rows, i)]
    BY <2>1, <2>5, <1>2, <1>10 DEF Array
  <2>7. gs[g] = h
    <3>1. o = [token |-> o.token, org |-> o.org, header |-> o.header, rows |-> o.rows]
      BY <2>2 DEF GroupOk, IsGroup
    <3>3. [o EXCEPT !.rows = q] = [token |-> o.token, org |-> o.org, header |-> o.header, rows |-> q]
      BY <3>1, WithRows
    <3> QED  BY <3>3, <2>q, <2>3, <2>6
  <2>8. Array(gs, L) /\ \A l \in 1..L : l # g => gs[l] = groups[l]
    BY <2>5, <1>2, <1>10 DEF Array
  <2>9. Len(gs) = L
    BY <2>8, <1>2, ArrayLength
  <2>10. \A l \in 1..L : GroupOk(rows, gs[l], i + 1)
    BY <2>4, <2>7, <2>8, <1>7
  <2>11. \A l \in 1..L : gs[l].token = groups[l].token /\ gs[l].org = groups[l].org
    BY <2>1, <2>4, <2>7, <2>8
  <2>12. ASSUME NEW j \in 1..n, j < i + 1 PROVE j \in lost \/ \E l \in 1..L : InGroup(gs[l], j)
    <3>1. CASE j = i
      BY <3>1, <2>4, <2>7, <1>10
    <3>2. CASE j < i
      BY <3>2, <2>1, <2>4, <2>7, <2>8, <1>2
    <3> QED  BY <3>1, <3>2, <2>12, <1>8
  <2>13. \A l, m \in 1..L : gs[l].token = gs[m].token /\ gs[l].org = gs[m].org => l = m
    BY <2>11, <1>2
  <2> QED  BY <2>8, <2>9, <2>10, <2>12, <2>13, <1>2, <1>6 DEF Grouped
<1> QED  BY <1>5, <1>9, <1>10

(* A row that is lost needs no group. *)
LEMMA RowLost ==
  ASSUME NEW n \in Nat, DOMAIN rows = 1..n, NEW i \in 1..n, NEW gs, NEW lost,
         Grouped(rows, gs, i, lost)
  PROVE  Grouped(rows, gs, i + 1, lost \cup {i})
<1>1. \A h \in 1..Len(gs) : GroupOk(rows, gs[h], i + 1)
  BY GroupStays DEF Grouped
<1>2. \A j \in 1..n : j < i + 1 => j < i \/ j = i
  OBVIOUS
<1> QED  BY <1>1, <1>2 DEF Grouped

-----------------------------------------------------------------------------
(* The invariant.                                                          *)

(* The rows of the groups before group grp, and of it up to position off,  *)
(* are handled.                                                            *)
Taken(grp, off, g, a) == g < grp \/ (g = grp /\ a <= off)
Handled(s, gs, grp, off) ==
  {i \in DOMAIN s : \E g \in 1..Len(gs) : \E a \in 1..Len(gs[g].rows) :
                      gs[g].rows[a] = i /\ Taken(grp, off, g, a)}

(* A request is for rows of one group. *)
Asked(reqs, gs) ==
  \A q \in reqs : \E g \in 1..Len(gs) :
    q.token = gs[g].token /\ q.header = gs[g].header /\ \A i \in Members(q.rows) : InGroup(gs[g], i)

Accounted(s, gs, grp, off, lost, reqs) ==
  \A i \in Handled(s, gs, grp, off) : i \in lost \/ \E q \in reqs : i \in Members(q.rows)

(* Where the flush is. *)
Preparing == group = 1 /\ offset = 0 /\ sends = <<>> /\ requests = {}
Going == next = Len(rows) + 1 /\ group \in 1..Len(groups) /\ offset \in Nat /\ offset <= Len(groups[group].rows)
Over ==
  /\ sends = <<>>
  /\ \A i \in DOMAIN rows : i \in failed \/ i \in Handled(rows, groups, group, offset)
  /\ result = "err" <=> Checked /\ failed # {}

Phases ==
  /\ phase \in {"prepare", "chunk", "sending", "done"}
  /\ phase = "prepare" => Preparing
  /\ phase \in {"chunk", "sending"} => Going
  /\ phase = "chunk" => offset < Len(groups[group].rows) /\ sends = <<>>
  /\ phase = "done" => Over
  /\ phase # "done" => (firstError <=> failed # {}) /\ firstError \in BOOLEAN /\ result = "none"

FlushInv ==
  /\ rows \in Inputs
  /\ next \in Nat /\ next >= 1 /\ next <= Len(rows) + 1
  /\ Grouped(rows, groups, next, failed)
  /\ Asked(requests, groups)
  /\ failed \in SUBSET DOMAIN rows
  /\ Batched(rows, sends, InFlight(sends))
  /\ InFlight(sends) \subseteq Handled(rows, groups, group, offset)
  /\ Accounted(rows, groups, group, offset, failed, requests)
  /\ Phases

LEMMA NothingHandled ==
  ASSUME NEW s, NEW gs
  PROVE  Handled(s, gs, 1, 0) = {}
<1>1. SUFFICES ASSUME NEW g \in 1..Len(gs), NEW a \in 1..Len(gs[g].rows), Taken(1, 0, g, a)
               PROVE FALSE
  BY DEF Handled
<1>2. ~(g < 1) /\ ~(a <= 0)
  OBVIOUS
<1> QED  BY <1>1, <1>2 DEF Taken

LEMMA RowsAre ==
  ASSUME rows \in Inputs
  PROVE  /\ Len(rows) \in Nat \ {0} /\ DOMAIN rows = 1..Len(rows)
         /\ \A i \in 1..Len(rows) : rows[i].merge \in BOOLEAN
BY InputsAssumption

LEMMA NothingSent == InFlight(<<>>) = {}
<1>1. DOMAIN <<>> = {}
  BY EmptyArray DEF Array
<1> QED  BY <1>1 DEF InFlight

LEMMA FlushInit ==
  ASSUME Init
  PROVE  FlushInv
<1>1. /\ rows \in Inputs /\ phase = "prepare" /\ next = 1 /\ groups = <<>> /\ group = 1 /\ offset = 0
      /\ sends = <<>> /\ requests = {} /\ failed = {} /\ firstError = FALSE
      /\ result = "none"
  BY DEF Init
<1>2. Len(rows) \in Nat \ {0} /\ DOMAIN rows = 1..Len(rows)
  BY <1>1, RowsAre
<1>3. next \in Nat /\ next >= 1 /\ next <= Len(rows) + 1
  BY <1>1, <1>2
<1>4. Grouped(rows, groups, next, failed)
  <2>1. \A i \in DOMAIN rows : ~(i < 1)
    BY <1>2
  <2> QED  BY <2>1, <1>1, NothingGrouped
<1>5. InFlight(sends) = {} /\ Batched(rows, sends, InFlight(sends))
  BY <1>1, NothingSent, NothingBatched
<1>6. Handled(rows, groups, group, offset) = {}
  BY <1>1, NothingHandled
<1>7. Phases
  BY <1>1 DEF Phases, Preparing
<1>8. Asked(requests, groups) /\ Accounted(rows, groups, group, offset, failed, requests)
  BY <1>1, <1>6 DEF Asked, Accounted
<1> QED  BY <1>1, <1>3, <1>4, <1>5, <1>7, <1>8 DEF FlushInv

LEMMA BadUrlKeeps ==
  ASSUME FlushInv, BadUrl
  PROVE  FlushInv'
<1>1. /\ phase = "prepare" /\ next = 1 /\ failed' = DOMAIN rows /\ phase' = "done"
      /\ result' = IF Checked /\ TRUE THEN "err" ELSE "ok"
      /\ UNCHANGED <<rows, next, cache, groups, group, offset, sends, requests, delivery, firstError>>
  BY DEF BadUrl, Return
<1>2. Len(rows) \in Nat \ {0} /\ DOMAIN rows = 1..Len(rows)
  BY RowsAre DEF FlushInv
<1>3. DOMAIN rows # {}
  <2>1. 1 \in 1..Len(rows)
    BY <1>2
  <2> QED  BY <2>1, <1>2
<1>4. Preparing
  BY <1>1 DEF FlushInv, Phases
<1>5. Grouped(rows', groups', next', failed')
  BY <1>1 DEF FlushInv, Grouped
<1>6. Accounted(rows', groups', group', offset', failed', requests')
  <2>1. Accounted(rows, groups, group, offset, DOMAIN rows, requests)
    BY DEF Accounted, Handled
  <2> QED  BY <2>1, <1>1
<1>7. Over'
  <2>1. sends' = <<>>
    BY <1>1, <1>4 DEF Preparing
  <2>2. \A i \in DOMAIN rows' : i \in failed'
    BY <1>1
  <2>3. (result = "err")' <=> Checked /\ failed' # {}
    BY <1>1, <1>3
  <2> QED  BY <2>1, <2>2, <2>3 DEF Over
<1>8. Phases'
  BY <1>1, <1>7 DEF Phases
<1>9. /\ (rows \in Inputs)' /\ (next \in Nat /\ next >= 1 /\ next <= Len(rows) + 1)'
      /\ Asked(requests, groups)' /\ (failed \in SUBSET DOMAIN rows)'
      /\ Batched(rows, sends, InFlight(sends))'
      /\ (InFlight(sends) \subseteq Handled(rows, groups, group, offset))'
  BY <1>1 DEF FlushInv
<1> QED  BY <1>5, <1>6, <1>8, <1>9 DEF FlushInv

LEMMA PrepareKeeps ==
  ASSUME FlushInv, Prepare
  PROVE  FlushInv'
<1>1. /\ phase = "prepare" /\ next <= Len(rows) /\ next' = next + 1
      /\ UNCHANGED <<rows, phase, group, offset, sends, requests, delivery, result>>
      /\ \/ Enter(next) /\ UNCHANGED <<failed, firstError>>
         \/ failed' = failed \cup {next} /\ firstError' = TRUE /\ groups' = groups
  BY DEF Prepare
<1>2. Len(rows) \in Nat \ {0} /\ DOMAIN rows = 1..Len(rows)
  BY RowsAre DEF FlushInv
<1>3. next \in Nat /\ next \in 1..Len(rows)
  BY <1>1, <1>2 DEF FlushInv
<1>4. Preparing /\ (firstError <=> failed # {}) /\ firstError \in BOOLEAN /\ result = "none"
  BY <1>1 DEF FlushInv, Phases
<1>5. (next \in Nat /\ next >= 1 /\ next <= Len(rows) + 1)'
  BY <1>1, <1>2, <1>3
<1>6. Grouped(rows', groups', next', failed') /\ failed' \in SUBSET DOMAIN rows
  <2>1. CASE Enter(next) /\ UNCHANGED <<failed, firstError>>
    <3>1. Grouped(rows, groups, next, failed) /\ failed \in SUBSET DOMAIN rows
      BY DEF FlushInv
    <3>2. Grouped(rows, groups', next + 1, failed)
      BY <2>1, <3>1, <1>2, <1>3, RowEnters
    <3> QED  BY <3>1, <3>2, <2>1, <1>1
  <2>2. CASE failed' = failed \cup {next} /\ firstError' = TRUE /\ groups' = groups
    <3>1. Grouped(rows, groups, next, failed) /\ failed \in SUBSET DOMAIN rows
      BY DEF FlushInv
    <3>2. Grouped(rows, groups, next + 1, failed \cup {next})
      BY <3>1, <1>2, <1>3, RowLost
    <3> QED  BY <3>1, <3>2, <2>2, <1>1, <1>2, <1>3
  <2> QED  BY <2>1, <2>2, <1>1
<1>7. Handled(rows', groups', group', offset') = {}
  BY <1>1, <1>4, NothingHandled DEF Preparing
<1>8. Asked(requests', groups') /\ Accounted(rows', groups', group', offset', failed', requests')
  BY <1>1, <1>4, <1>7 DEF Asked, Accounted, Preparing
<1>9. InFlight(sends') = {} /\ Batched(rows', sends', InFlight(sends'))
  <2>1. sends' = <<>>
    BY <1>1, <1>4 DEF Preparing
  <2>2. Batched(rows, sends, InFlight(sends))
    BY DEF FlushInv
  <2> QED  BY <2>1, <2>2, <1>1, NothingSent
<1>10. Preparing'
  BY <1>1, <1>4 DEF Preparing
<1>11. (firstError <=> failed # {})' /\ firstError' \in BOOLEAN
  <2>1. CASE UNCHANGED <<failed, firstError>>
    BY <2>1, <1>4
  <2>2. CASE failed' = failed \cup {next} /\ firstError' = TRUE
    <3>1. failed' # {}
      BY <2>2
    <3> QED  BY <3>1, <2>2
  <2> QED  BY <2>1, <2>2, <1>1
<1>12. Phases'
  BY <1>1, <1>4, <1>10, <1>11 DEF Phases
<1>13. rows' \in Inputs
  BY <1>1 DEF FlushInv
<1> QED  BY <1>1, <1>5, <1>6, <1>7, <1>8, <1>9, <1>12, <1>13 DEF FlushInv

LEMMA PreparedKeeps ==
  ASSUME FlushInv, Prepared
  PROVE  FlushInv'
<1>1. /\ phase = "prepare" /\ next > Len(rows)
      /\ UNCHANGED <<rows, next, cache, groups, group, offset, sends, requests, delivery, failed, firstError>>
      /\ \/ groups = <<>> /\ phase' = "done" /\ result' = IF Checked /\ firstError THEN "err" ELSE "ok"
         \/ groups # <<>> /\ phase' = "chunk" /\ result' = result
  BY DEF Prepared, Return
<1>2. Len(rows) \in Nat \ {0} /\ DOMAIN rows = 1..Len(rows)
  BY RowsAre DEF FlushInv
<1>3. next = Len(rows) + 1
  BY <1>1, <1>2 DEF FlushInv
<1>4. Preparing /\ (firstError <=> failed # {}) /\ firstError \in BOOLEAN /\ result = "none"
  BY <1>1 DEF FlushInv, Phases
<1>5. Grouped(rows, groups, next, failed)
  BY DEF FlushInv
<1>6. Phases'
  <2>1. CASE groups = <<>> /\ phase' = "done" /\ result' = IF Checked /\ firstError THEN "err" ELSE "ok"
    <3>1. Len(groups) = 0
      BY <2>1, EmptyArray
    <3>2. ASSUME NEW i \in DOMAIN rows PROVE i \in failed
      <4>1. i < next
        BY <1>2, <1>3
      <4>2. ~ \E g \in 1..0 : InGroup(groups[g], i)
        OBVIOUS
      <4> QED  BY <4>1, <4>2, <3>1, <1>5 DEF Grouped
    <3>3. sends' = <<>> /\ (\A i \in DOMAIN rows' : i \in failed') /\ ((result = "err")' <=> Checked /\ failed' # {})
      BY <3>2, <2>1, <1>1, <1>4 DEF Preparing
    <3>4. Over'
      BY <3>3 DEF Over
    <3> QED  BY <3>4, <2>1 DEF Phases
  <2>2. CASE groups # <<>> /\ phase' = "chunk" /\ result' = result
    <3>1. Len(groups) \in Nat /\ Array(groups, Len(groups))
      BY <1>5 DEF Grouped
    <3>2. Len(groups) # 0
      <4>1. ASSUME Len(groups) = 0 PROVE FALSE
        <5>1. groups = [i \in 1..0 |-> groups[i]] /\ <<>> = [i \in 1..0 |-> (<<>>)[i]]
          BY <3>1, <4>1, EmptyArray DEF Array
        <5>2. \A i \in 1..0 : FALSE
          OBVIOUS
        <5>3. groups = <<>>
          BY <5>1, <5>2
        <5> QED  BY <5>3, <2>2
      <4> QED  BY <4>1
    <3>3. 1 \in 1..Len(groups)
      BY <3>1, <3>2
    <3>4. Len(groups[1].rows) \in Nat \ {0}
      BY <3>3, <1>5 DEF Grouped, GroupOk
    <3>5. group = 1 /\ offset = 0 /\ sends = <<>>
      BY <1>4 DEF Preparing
    <3>6. offset < Len(groups[group].rows) /\ offset \in Nat /\ offset <= Len(groups[group].rows)
      BY <3>4, <3>5
    <3>7. Going'
      BY <3>3, <3>5, <3>6, <1>1, <1>3 DEF Going
    <3> QED  BY <3>5, <3>6, <3>7, <2>2, <1>1, <1>4 DEF Phases
  <2> QED  BY <2>1, <2>2, <1>1
<1>7. /\ (rows \in Inputs)' /\ (next \in Nat /\ next >= 1 /\ next <= Len(rows) + 1)'
      /\ Grouped(rows, groups, next, failed)'
      /\ Asked(requests, groups)' /\ (failed \in SUBSET DOMAIN rows)'
      /\ Batched(rows, sends, InFlight(sends))'
      /\ (InFlight(sends) \subseteq Handled(rows, groups, group, offset))'
      /\ Accounted(rows, groups, group, offset, failed, requests)'
  BY <1>1 DEF FlushInv
<1> QED  BY <1>6, <1>7 DEF FlushInv

(* The rows of the next chunk. *)
LEMMA ChunkIs ==
  ASSUME FlushInv, phase = "chunk", NEW C, C = ToSet(Chunk)
  PROVE  /\ ChunkEnd \in Nat /\ offset < ChunkEnd /\ ChunkEnd <= Len(groups[group].rows)
         /\ MergedRows(rows, MergeChunk(Chunk), C)
         /\ C # {} /\ C \in SUBSET DOMAIN rows
         /\ \A i : i \in C <=> \E a \in 1..Len(groups[group].rows) :
                                 groups[group].rows[a] = i /\ offset < a /\ a <= ChunkEnd
         /\ Handled(rows, groups, group, ChunkEnd) = Handled(rows, groups, group, offset) \cup C
<1>1. PICK z : z = ChunkEnd
  OBVIOUS
<1>2. PICK r : r = groups[group].rows
  OBVIOUS
<1>3. PICK L : L = Len(r)
  OBVIOUS
<1>4. PICK n : n = Len(rows)
  OBVIOUS
<1>5. n \in Nat /\ DOMAIN rows = 1..n /\ \A i \in 1..n : rows[i].merge \in BOOLEAN
  BY <1>4, RowsAre DEF FlushInv
<1>6. /\ group \in 1..Len(groups) /\ offset \in Nat /\ offset < L
  BY <1>2, <1>3 DEF FlushInv, Phases, Going
<1>7. GroupOk(rows, groups[group], next)
  BY <1>6 DEF FlushInv, Grouped
<1>8. /\ r \in Seq(1..n) /\ L \in Nat
      /\ \A a \in 1..L : r[a] \in 1..n
      /\ \A a, b \in 1..L : a < b => r[a] < r[b]
  BY <1>2, <1>3, <1>5, <1>7 DEF GroupOk
<1>9. z \in Nat /\ offset < z /\ z <= L
  <2>1. z = IF offset + ChunkSize < L THEN offset + ChunkSize ELSE L
    BY <1>1, <1>2, <1>3 DEF ChunkEnd, Size
  <2> QED  BY <2>1, <1>6, <1>8, FlushPipelineAssumption
<1>10. PICK q : q = Chunk
  OBVIOUS
<1>11. PICK c : c = z - offset
  OBVIOUS
<1>12. c \in Nat \ {0} /\ z - (offset + 1) + 1 = c /\ offset + 1 <= z
  BY <1>6, <1>9, <1>11
<1>13. /\ q \in Seq(1..n) /\ Len(q) = c
       /\ \A a \in 1..c : q[a] = r[offset + 1 + a - 1]
  <2>1. q = SubSeq(r, offset + 1, z)
    BY <1>1, <1>2, <1>10 DEF Chunk
  <2>2. \A a \in (offset + 1)..z : r[a] \in 1..n
    BY <1>6, <1>8, <1>9
  <2>3. offset + 1 \in Int /\ z \in Int
    BY <1>6, <1>9
  <2> QED  BY <2>1, <2>2, <2>3, <1>12, SubSeqProperties
<1>14. DOMAIN q = 1..c
  BY <1>13, LenProperties
<1>15. ASSUME NEW a \in 1..c PROVE offset + a \in 1..L /\ q[a] = r[offset + a] /\ offset < offset + a /\ offset + a <= z
  <2>1. offset + 1 + a - 1 = offset + a /\ offset + a \in 1..L /\ offset < offset + a /\ offset + a <= z
    BY <1>6, <1>8, <1>9, <1>11
  <2> QED  BY <2>1, <1>13
<1>16. C = {q[a] : a \in 1..c}
  BY <1>10, <1>14 DEF ToSet
<1>17. ASSUME NEW i PROVE i \in C <=> \E a \in 1..L : r[a] = i /\ offset < a /\ a <= z
  <2>1. ASSUME i \in C PROVE \E a \in 1..L : r[a] = i /\ offset < a /\ a <= z
    <3>1. PICK a \in 1..c : i = q[a]
      BY <2>1, <1>16
    <3> QED  BY <3>1, <1>15
  <2>2. ASSUME NEW a \in 1..L, r[a] = i, offset < a, a <= z PROVE i \in C
    <3>1. PICK b : b = a - offset
      OBVIOUS
    <3>2. b \in 1..c /\ offset + b = a
      BY <3>1, <2>2, <1>6, <1>8, <1>9, <1>11
    <3>3. q[b] = i
      BY <3>2, <2>2, <1>15
    <3> QED  BY <3>2, <3>3, <1>16
  <2> QED  BY <2>1, <2>2
<1>18. C # {} /\ C \in SUBSET (1..n)
  <2>1. 1 \in 1..c
    BY <1>12
  <2> QED  BY <2>1, <1>8, <1>15, <1>16
<1>19. MergedRows(rows, MergeChunk(q), C)
  <2>1. \A a \in 1..c : q[a] \in 1..n
    BY <1>8, <1>15
  <2>2. ASSUME NEW a \in 1..c, NEW b \in 1..c, a < b PROVE q[a] < q[b]
    <3>1. offset + a < offset + b
      BY <2>2, <1>6, <1>12
    <3> QED  BY <3>1, <1>8, <1>15
  <2>3. MergedRows(rows, MergeChunk(q), {q[a] : a \in 1..c})
    BY <2>1, <2>2, <1>5, <1>12, <1>13, ChunkMerged
  <2> QED  BY <2>3, <1>16
<1>20. ASSUME NEW i \in DOMAIN rows
       PROVE  i \in Handled(rows, groups, group, z)
                <=> i \in Handled(rows, groups, group, offset) \/ i \in C
  <2>1. ASSUME NEW a \in 1..L PROVE a <= z <=> a <= offset \/ (offset < a /\ a <= z)
    BY <1>6, <1>8, <1>9
  <2>2. ~(group < group)
    BY <1>6
  <2>3. ASSUME i \in C PROVE i \in Handled(rows, groups, group, z)
    <3>1. PICK a \in 1..L : r[a] = i /\ offset < a /\ a <= z
      BY <2>3, <1>17
    <3>2. Taken(group, z, group, a)
      BY <3>1 DEF Taken
    <3> QED  BY <3>1, <3>2, <1>2, <1>3, <1>6 DEF Handled
  <2>4. ASSUME i \in Handled(rows, groups, group, offset) PROVE i \in Handled(rows, groups, group, z)
    <3>1. PICK g \in 1..Len(groups) : \E a \in 1..Len(groups[g].rows) :
            groups[g].rows[a] = i /\ Taken(group, offset, g, a)
      BY <2>4 DEF Handled
    <3>2. PICK a \in 1..Len(groups[g].rows) : groups[g].rows[a] = i /\ Taken(group, offset, g, a)
      BY <3>1
    <3>3. Taken(group, z, g, a)
      BY <3>2, <2>1, <1>2, <1>3 DEF Taken
    <3> QED  BY <3>2, <3>3 DEF Handled
  <2>5. ASSUME i \in Handled(rows, groups, group, z), i \notin C PROVE i \in Handled(rows, groups, group, offset)
    <3>1. PICK g \in 1..Len(groups) : \E a \in 1..Len(groups[g].rows) :
            groups[g].rows[a] = i /\ Taken(group, z, g, a)
      BY <2>5 DEF Handled
    <3>2. PICK a \in 1..Len(groups[g].rows) : groups[g].rows[a] = i /\ Taken(group, z, g, a)
      BY <3>1
    <3>3. Taken(group, offset, g, a)
      BY <3>2, <2>1, <2>5, <1>2, <1>3, <1>17 DEF Taken
    <3> QED  BY <3>2, <3>3 DEF Handled
  <2> QED  BY <2>3, <2>4, <2>5
<1>21. Handled(rows, groups, group, z) = Handled(rows, groups, group, offset) \cup C
  <2>1. /\ Handled(rows, groups, group, z) \subseteq DOMAIN rows
        /\ Handled(rows, groups, group, offset) \subseteq DOMAIN rows
    BY DEF Handled
  <2> QED  BY <2>1, <1>5, <1>18, <1>20
<1>22. MergedRows(rows, MergeChunk(Chunk), C)
  BY <1>10, <1>19
<1> QED  BY <1>1, <1>2, <1>3, <1>5, <1>9, <1>17, <1>18, <1>21, <1>22

(* What a chunk that is handed out leaves. *)
HandedOut(merged) ==
  \E ends \in Cuts(merged) :
    /\ sends' = [n \in DOMAIN ends |->
                   [rows |-> Batches(merged, ends)[n], answer |-> "none"]]
    /\ requests' = requests \cup
         {[token |-> groups[group].token, header |-> groups[group].header,
           rows |-> Batches(merged, ends)[n]] : n \in DOMAIN ends}

LEMMA ChunkHandedOut ==
  ASSUME FlushInv, StartChunk, NEW C, C = ToSet(Chunk)
  PROVE  /\ phase = "chunk" /\ phase' = "sending" /\ offset' = ChunkEnd
         /\ UNCHANGED <<rows, next, cache, groups, group, delivery, failed, firstError, result>>
         /\ Batched(rows, sends', C) /\ InFlight(sends') = C
         /\ \A n \in DOMAIN sends' : sends'[n].answer = "none"
         /\ requests \subseteq requests'
         /\ \A i \in C : \E q \in requests' : i \in Members(q.rows)
         /\ \A n \in DOMAIN sends' : \E q \in requests' : q.rows = sends'[n].rows
         /\ \A q \in requests' : \/ q \in requests
                                 \/ /\ q.token = groups[group].token /\ q.header = groups[group].header
                                    /\ Members(q.rows) \subseteq C
                                    /\ \E n \in DOMAIN sends' : q.rows = sends'[n].rows
<1>1. /\ phase = "chunk" /\ phase' = "sending" /\ offset' = ChunkEnd
      /\ UNCHANGED <<rows, next, cache, groups, group, delivery, failed, firstError, result>>
  BY DEF StartChunk
<1>2. PICK merged : merged = MergeChunk(Chunk)
  OBVIOUS
<1>3. PICK ends \in Cuts(merged) :
       /\ sends' = [n \in DOMAIN ends |->
                      [rows |-> Batches(merged, ends)[n], answer |-> "none"]]
       /\ requests' = requests \cup
            {[token |-> groups[group].token, header |-> groups[group].header,
              rows |-> Batches(merged, ends)[n]] : n \in DOMAIN ends}
  <2>1. HandedOut(MergeChunk(Chunk))
    BY Zenon DEF StartChunk, HandedOut
  <2>2. HandedOut(merged)
    BY <2>1, <1>2
  <2> QED  BY <2>2, Zenon DEF HandedOut
<1>4. PICK bs : bs = Batches(merged, ends)
  OBVIOUS
<1>5. PICK ss : ss = sends'
  OBVIOUS
<1>6. ss = [n \in DOMAIN ends |-> [rows |-> bs[n], answer |-> "none"]]
  BY <1>3, <1>4, <1>5
<1>7. MergedRows(rows, merged, C)
  BY <1>1, <1>2, ChunkIs
<1>8. /\ Batched(rows, ss, C) /\ DOMAIN ss = DOMAIN ends
      /\ \A n \in DOMAIN ss : ss[n].answer = "none" /\ ss[n].rows = bs[n]
  <2>1. IsMap(ss) /\ DOMAIN ss = DOMAIN ends
    BY <1>6 DEF IsMap
  <2>2. ASSUME NEW n \in DOMAIN ends
        PROVE  IsSend(ss[n]) /\ ss[n].rows = bs[n] /\ ss[n].answer = "none"
    BY <1>6 DEF IsSend
  <2>3. \A n \in DOMAIN ends :
          IsSend(ss[n]) /\ ss[n].rows = bs[n] /\ ss[n].answer = "none"
    BY <2>2
  <2>4. ToSend(ss, bs, DOMAIN ends)
    BY <2>1, <2>3 DEF ToSend
  <2>5. ends \in Cuts(merged) /\ bs = Batches(merged, ends) /\ MergedRows(rows, merged, C)
    BY <1>4, <1>7
  <2>6. Batched(rows, ss, C)
    BY <2>4, <2>5, ChunkBatched, Zenon
  <2>7. DOMAIN ss = DOMAIN ends /\ \A n \in DOMAIN ss : ss[n].answer = "none" /\ ss[n].rows = bs[n]
    BY <2>1, <2>3
  <2> QED  BY <2>6, <2>7
<1>9. InFlight(ss) = C
  BY <1>8, InFlightAre
<1>10. requests' = requests \cup {[token |-> groups[group].token, header |-> groups[group].header,
                                   rows |-> bs[n]] : n \in DOMAIN ends}
  BY <1>3, <1>4
<1>11. ASSUME NEW i \in C PROVE \E q \in requests' : i \in Members(q.rows)
  <2>1. PICK n \in DOMAIN ss : i \in Members(ss[n].rows)
    BY <1>9 DEF InFlight
  <2>2. PICK q : q = [token |-> groups[group].token, header |-> groups[group].header, rows |-> bs[n]]
    OBVIOUS
  <2>3. q.rows = bs[n] /\ q \in requests'
    BY <2>2, <1>8, <1>10
  <2> QED  BY <2>1, <2>3, <1>8
<1>12. ASSUME NEW q \in requests', q \notin requests
       PROVE  /\ q.token = groups[group].token /\ q.header = groups[group].header
              /\ Members(q.rows) \subseteq C
              /\ \E n \in DOMAIN ss : q.rows = ss[n].rows
  <2>1. PICK n \in DOMAIN ends :
          q = [token |-> groups[group].token, header |-> groups[group].header, rows |-> bs[n]]
    BY <1>10, <1>12
  <2>2. q.token = groups[group].token /\ q.header = groups[group].header /\ q.rows = bs[n]
    BY <2>1
  <2>3. Members(bs[n]) \subseteq InFlight(ss)
    BY <1>8 DEF InFlight
  <2>4. n \in DOMAIN ss /\ q.rows = ss[n].rows
    BY <2>2, <1>8
  <2> QED  BY <2>2, <2>3, <2>4, <1>9
<1>13. requests \subseteq requests'
  BY <1>10
<1>14. ASSUME NEW n \in DOMAIN ss PROVE \E q \in requests' : q.rows = ss[n].rows
  <2>1. PICK q : q = [token |-> groups[group].token, header |-> groups[group].header, rows |-> bs[n]]
    OBVIOUS
  <2>2. q.rows = bs[n] /\ q \in requests'
    BY <2>1, <1>8, <1>10
  <2> QED  BY <2>2, <1>8
<1> QED  BY <1>1, <1>5, <1>8, <1>9, <1>11, <1>12, <1>13, <1>14

LEMMA StartChunkKeeps ==
  ASSUME FlushInv, StartChunk
  PROVE  FlushInv'
<1>1. PICK C : C = ToSet(Chunk)
  OBVIOUS
<1>2. /\ phase = "chunk" /\ phase' = "sending" /\ offset' = ChunkEnd
      /\ UNCHANGED <<rows, next, cache, groups, group, delivery, failed, firstError, result>>
      /\ Batched(rows, sends', C) /\ InFlight(sends') = C
      /\ requests \subseteq requests'
      /\ \A i \in C : \E q \in requests' : i \in Members(q.rows)
      /\ \A q \in requests' : \/ q \in requests
                              \/ /\ q.token = groups[group].token /\ q.header = groups[group].header
                                 /\ Members(q.rows) \subseteq C
  BY <1>1, ChunkHandedOut
<1>3. /\ ChunkEnd \in Nat /\ offset < ChunkEnd /\ ChunkEnd <= Len(groups[group].rows)
      /\ C \in SUBSET DOMAIN rows
      /\ \A i : i \in C <=> \E a \in 1..Len(groups[group].rows) :
                              groups[group].rows[a] = i /\ offset < a /\ a <= ChunkEnd
      /\ Handled(rows, groups, group, ChunkEnd) = Handled(rows, groups, group, offset) \cup C
  BY <1>1, <1>2, ChunkIs
<1>4. Handled(rows', groups', group', offset') = Handled(rows, groups, group, offset) \cup C
  BY <1>2, <1>3
<1>5. Accounted(rows', groups', group', offset', failed', requests')
  <2>1. ASSUME NEW i \in Handled(rows, groups, group, offset) \cup C
        PROVE  i \in failed \/ \E q \in requests' : i \in Members(q.rows)
    <3>1. CASE i \in C
      BY <3>1, <1>2
    <3>2. CASE i \in Handled(rows, groups, group, offset)
      <4>1. i \in failed \/ \E q \in requests : i \in Members(q.rows)
        BY <3>2 DEF FlushInv, Accounted
      <4> QED  BY <4>1, <1>2
    <3> QED  BY <3>1, <3>2
  <2> QED  BY <2>1, <1>2, <1>4 DEF Accounted
<1>6. /\ next = Len(rows) + 1 /\ group \in 1..Len(groups) /\ (firstError <=> failed # {})
      /\ firstError \in BOOLEAN /\ result = "none"
  BY <1>2 DEF FlushInv, Phases, Going
<1>7. Asked(requests', groups')
  <2>1. ASSUME NEW q \in requests'
        PROVE  \E g \in 1..Len(groups) :
                 q.token = groups[g].token /\ q.header = groups[g].header /\ \A i \in Members(q.rows) : InGroup(groups[g], i)
    <3>1. CASE q \in requests
      BY <3>1 DEF FlushInv, Asked
    <3>2. CASE q.token = groups[group].token /\ q.header = groups[group].header /\ Members(q.rows) \subseteq C
      <4>1. \A i \in C : InGroup(groups[group], i)
        BY <1>3 DEF InGroup
      <4> QED  BY <4>1, <3>2, <1>6
    <3> QED  BY <3>1, <3>2, <1>2
  <2> QED  BY <2>1, <1>2 DEF Asked
<1>8. Batched(rows', sends', InFlight(sends')) /\ InFlight(sends') \subseteq Handled(rows', groups', group', offset')
  BY <1>2, <1>4
<1>9. Going'
  BY <1>2, <1>3, <1>6 DEF Going
<1>10. Phases'
  BY <1>2, <1>6, <1>9 DEF Phases
<1>11. /\ (rows \in Inputs)' /\ (next \in Nat /\ next >= 1 /\ next <= Len(rows) + 1)'
       /\ Grouped(rows, groups, next, failed)' /\ (failed \in SUBSET DOMAIN rows)'
  BY <1>2 DEF FlushInv
<1> QED  BY <1>5, <1>7, <1>8, <1>10, <1>11 DEF FlushInv

LEMMA ChunkFailsKeeps ==
  ASSUME FlushInv, ChunkFails
  PROVE  FlushInv'
<1>1. PICK C : C = ToSet(Chunk)
  OBVIOUS
<1>2. /\ phase = "chunk" /\ sends' = <<>> /\ offset' = ChunkEnd /\ phase' = "sending"
      /\ failed' = failed \cup C /\ firstError' = TRUE
      /\ UNCHANGED <<rows, next, cache, groups, group, requests, delivery, result>>
  BY <1>1 DEF ChunkFails
<1>3. /\ ChunkEnd \in Nat /\ offset < ChunkEnd /\ ChunkEnd <= Len(groups[group].rows)
      /\ C # {} /\ C \in SUBSET DOMAIN rows
      /\ Handled(rows, groups, group, ChunkEnd) = Handled(rows, groups, group, offset) \cup C
  BY <1>1, <1>2, ChunkIs
<1>4. Handled(rows', groups', group', offset') = Handled(rows, groups, group, offset) \cup C
  BY <1>2, <1>3
<1>5. Accounted(rows', groups', group', offset', failed', requests')
  <2>1. ASSUME NEW i \in Handled(rows, groups, group, offset) \cup C
        PROVE  i \in failed \cup C \/ \E q \in requests : i \in Members(q.rows)
    BY DEF FlushInv, Accounted
  <2> QED  BY <2>1, <1>2, <1>4 DEF Accounted
<1>6. next = Len(rows) + 1 /\ group \in 1..Len(groups) /\ result = "none"
  BY <1>2 DEF FlushInv, Phases, Going
<1>7. InFlight(sends') = {} /\ Batched(rows', sends', InFlight(sends'))
  BY <1>2, NothingSent, NothingBatched
<1>8. Going'
  BY <1>2, <1>3, <1>6 DEF Going
<1>9. failed' # {}
  BY <1>2, <1>3
<1>10. Phases'
  BY <1>2, <1>6, <1>8, <1>9 DEF Phases
<1>11. Grouped(rows', groups', next', failed')
  <2>1. Grouped(rows, groups, next, failed \cup C)
    BY DEF FlushInv, Grouped
  <2> QED  BY <2>1, <1>2
<1>12. /\ (rows \in Inputs)' /\ (next \in Nat /\ next >= 1 /\ next <= Len(rows) + 1)'
       /\ Asked(requests, groups)' /\ (failed \in SUBSET DOMAIN rows)'
  BY <1>2, <1>3 DEF FlushInv
<1> QED  BY <1>5, <1>7, <1>10, <1>11, <1>12 DEF FlushInv

(* Batch n is answered. *)
Changed(ss, zz, n) ==
  /\ n \in DOMAIN ss /\ IsMap(zz) /\ DOMAIN zz = DOMAIN ss
  /\ IsSend(zz[n]) /\ zz[n].rows = ss[n].rows
  /\ \A m \in DOMAIN ss : m # n => zz[m] = ss[m]

LEMMA SendChanges ==
  ASSUME NEW s, NEW C, NEW ss, Batched(s, ss, C), NEW n, NEW zz, Changed(ss, zz, n)
  PROVE  Batched(s, zz, C) /\ InFlight(zz) = InFlight(ss)
<1>1. DOMAIN ss = 1..Len(ss) /\ Len(ss) \in Nat
  BY DEF Batched, Array
<1>0. /\ n \in DOMAIN ss /\ IsMap(zz) /\ DOMAIN zz = DOMAIN ss /\ IsSend(zz[n])
      /\ zz[n].rows = ss[n].rows
      /\ \A m \in DOMAIN ss : m # n => zz[m] = ss[m]
  BY DEF Changed
<1>2. Len(zz) = Len(ss) /\ Array(zz, Len(ss))
  <2>1. PICK L : L = Len(ss)
    OBVIOUS
  <2>2. Array(zz, L) /\ L \in Nat
    BY <2>1, <1>0, <1>1 DEF Array, IsMap
  <2> QED  BY <2>1, <2>2, ArrayLength
<1>3. \A m \in 1..Len(ss) : zz[m].rows = ss[m].rows /\ IsSend(zz[m])
  BY <1>0, <1>1 DEF Batched
<1>4. PICK L : L = Len(ss)
  OBVIOUS
<1>5. ASSUME NEW m \in 1..L
      PROVE  /\ IsSend(zz[m])
             /\ Len(zz[m].rows) \in Nat \ {0} /\ DOMAIN zz[m].rows = 1..Len(zz[m].rows)
             /\ \A j \in 1..Len(zz[m].rows) :
                  /\ MergedRow(s, zz[m].rows[j])
                  /\ zz[m].rows[j].from = KeyRows(s, C, zz[m].rows[j].key)
  BY <1>3, <1>4 DEF Batched
<1>6. ASSUME NEW k \in 1..L, NEW m \in 1..L, NEW j \in 1..Len(zz[k].rows), NEW l \in 1..Len(zz[m].rows),
             zz[k].rows[j].key = zz[m].rows[l].key
      PROVE  k = m /\ j = l
  <2>1. zz[k].rows = ss[k].rows /\ zz[m].rows = ss[m].rows
    BY <1>3, <1>4
  <2>2. j \in 1..Len(ss[k].rows) /\ l \in 1..Len(ss[m].rows) /\ ss[k].rows[j].key = ss[m].rows[l].key
    BY <2>1, <1>6
  <2>3. \A a, b \in 1..L : \A c \in 1..Len(ss[a].rows), d \in 1..Len(ss[b].rows) :
          ss[a].rows[c].key = ss[b].rows[d].key => a = b /\ c = d
    BY <1>4 DEF Batched
  <2> QED  BY <2>2, <2>3
<1>7. \A i \in C : \E m \in 1..L : \E j \in 1..Len(zz[m].rows) : zz[m].rows[j].key = RowKey(s[i])
  BY <1>3, <1>4 DEF Batched
<1>8. InFlight(zz) = InFlight(ss)
  <2>1. \A m \in DOMAIN ss : Members(zz[m].rows) = Members(ss[m].rows)
    BY <1>0, <1>1, <1>3
  <2> QED  BY <2>1, <1>0 DEF InFlight
<1>9. Batched(s, zz, C)
  <2>1. Len(zz) \in Nat /\ Array(zz, Len(zz)) /\ Len(zz) = L
    BY <1>1, <1>2, <1>4
  <2>2. \A m \in 1..Len(zz) :
          /\ IsSend(zz[m])
          /\ Len(zz[m].rows) \in Nat \ {0} /\ DOMAIN zz[m].rows = 1..Len(zz[m].rows)
          /\ \A j \in 1..Len(zz[m].rows) :
               /\ MergedRow(s, zz[m].rows[j])
               /\ zz[m].rows[j].from = KeyRows(s, C, zz[m].rows[j].key)
    BY <2>1, <1>5
  <2>3. \A k, m \in 1..Len(zz) : \A j \in 1..Len(zz[k].rows), l \in 1..Len(zz[m].rows) :
          zz[k].rows[j].key = zz[m].rows[l].key => k = m /\ j = l
    BY <2>1, <1>6
  <2>4. \A i \in C : \E m \in 1..Len(zz) : \E j \in 1..Len(zz[m].rows) : zz[m].rows[j].key = RowKey(s[i])
    BY <2>1, <1>7
  <2> QED  BY <2>1, <2>2, <2>3, <2>4, Zenon DEF Batched
<1> QED  BY <1>8, <1>9

LEMMA AnswerKeepsSends ==
  ASSUME FlushInv, NEW n \in DOMAIN sends, Answer(n)
  PROVE  /\ phase = "sending"
         /\ UNCHANGED <<rows, phase, next, cache, groups, group, offset, requests, delivery, failed, firstError, result>>
         /\ DOMAIN sends' = DOMAIN sends
         /\ sends'[n].answer = "ok" => ToSet(sends[n].rows) \subseteq arrived
         /\ sends'[n].answer \in {"ok", "err"}
         /\ \A m \in DOMAIN sends : sends'[m].rows = sends[m].rows
         /\ \A m \in DOMAIN sends : m # n => sends'[m] = sends[m]
         /\ Batched(rows, sends', InFlight(sends)) /\ InFlight(sends') = InFlight(sends)
<1>1. PICK a : /\ sends' = [sends EXCEPT ![n].answer = a]
               /\ a = "ok" => ToSet(sends[n].rows) \subseteq arrived
               /\ a \in {"ok", "err"}
  <2>1. \/ /\ ToSet(sends[n].rows) \subseteq arrived
           /\ sends' = [sends EXCEPT ![n].answer = "ok"]
        \/ sends' = [sends EXCEPT ![n].answer = "err"]
    BY DEF Answer
  <2>2. CASE ToSet(sends[n].rows) \subseteq arrived /\ sends' = [sends EXCEPT ![n].answer = "ok"]
    BY <2>2
  <2>3. CASE sends' = [sends EXCEPT ![n].answer = "err"]
    <3>1. "err" = "ok" => ToSet(sends[n].rows) \subseteq arrived
      OBVIOUS
    <3> QED  BY <2>3, <3>1
  <2> QED  BY <2>1, <2>2, <2>3
<1>2. /\ phase = "sending"
      /\ UNCHANGED <<rows, phase, next, cache, groups, group, offset, requests, delivery, failed, firstError, result>>
  BY DEF Answer
<1>3. Batched(rows, sends, InFlight(sends))
  BY DEF FlushInv
<1>4. PICK zz : zz = sends'
  OBVIOUS
<1>5. PICK x : x = sends[n]
  OBVIOUS
<1>6. IsSend(x)
  BY <1>3, <1>5 DEF Batched, Array
<1>7. /\ IsMap(zz) /\ DOMAIN zz = DOMAIN sends /\ zz[n] = [x EXCEPT !.answer = a]
      /\ \A m \in DOMAIN sends : m # n => zz[m] = sends[m]
  BY <1>1, <1>4, <1>5 DEF IsMap
<1>8. PICK y : y = zz[n]
  OBVIOUS
<1>9. IsSend(y) /\ y.rows = x.rows /\ y.answer = a
  BY <1>6, <1>7, <1>8 DEF IsSend
<1>10. IsSend(zz[n]) /\ zz[n].rows = sends[n].rows
  BY <1>5, <1>8, <1>9
<1>11. Batched(rows, zz, InFlight(sends)) /\ InFlight(zz) = InFlight(sends)
  <2>1. Changed(sends, zz, n)
    BY <1>7, <1>10 DEF Changed
  <2> QED  BY <2>1, <1>3, SendChanges
<1>12. \A m \in DOMAIN sends : zz[m].rows = sends[m].rows
  BY <1>7, <1>10
<1>13. zz[n].answer = a
  BY <1>8, <1>9
<1> QED  BY <1>1, <1>2, <1>4, <1>7, <1>11, <1>12, <1>13

LEMMA DeliveryKeeps ==
  ASSUME FlushInv,
         (\E n \in DOMAIN sends : Answer(n)) \/ (\E m \in Handed : Arrive(m))
  PROVE  FlushInv'
<1>1. /\ UNCHANGED <<rows, phase, next, cache, groups, group, offset, requests, failed, firstError, result>>
      /\ Batched(rows, sends', InFlight(sends')) /\ InFlight(sends') = InFlight(sends)
      /\ sends' = sends \/ phase = "sending"
  <2>1. CASE \E n \in DOMAIN sends : Answer(n)
    BY <2>1, AnswerKeepsSends
  <2>2. CASE \E m \in Handed : Arrive(m)
    <3>1. /\ UNCHANGED <<rows, phase, next, cache, groups, group, offset, requests, failed, firstError, result>>
          /\ sends' = sends
      BY <2>2 DEF Arrive
    <3> QED  BY <3>1 DEF FlushInv
  <2> QED  BY <2>1, <2>2
<1>2. Phases'
  BY <1>1 DEF FlushInv, Phases, Preparing, Going, Over
<1>3. /\ (rows \in Inputs)' /\ (next \in Nat /\ next >= 1 /\ next <= Len(rows) + 1)'
      /\ Grouped(rows, groups, next, failed)'
      /\ Asked(requests, groups)' /\ (failed \in SUBSET DOMAIN rows)'
      /\ Batched(rows, sends, InFlight(sends))'
      /\ (InFlight(sends) \subseteq Handled(rows, groups, group, offset))'
      /\ Accounted(rows, groups, group, offset, failed, requests)'
  BY <1>1 DEF FlushInv
<1> QED  BY <1>2, <1>3 DEF FlushInv

(* A group is over. *)
LEMMA NextGroup ==
  ASSUME NEW s, NEW gs, NEW g \in Nat, NEW off, off = Len(gs[g].rows),
         \A h \in 1..Len(gs) : Len(gs[h].rows) \in Nat
  PROVE  Handled(s, gs, g + 1, 0) = Handled(s, gs, g, off)
<1>1. ASSUME NEW h \in 1..Len(gs), NEW a \in 1..Len(gs[h].rows)
      PROVE  Taken(g + 1, 0, h, a) <=> Taken(g, off, h, a)
  <2>1. h \in Nat /\ a \in Nat /\ a <= Len(gs[h].rows) /\ ~(a <= 0)
    OBVIOUS
  <2>2. h < g + 1 <=> h < g \/ h = g
    BY <2>1
  <2>3. h = g => a <= off
    BY <2>1
  <2> QED  BY <2>1, <2>2, <2>3 DEF Taken
<1> QED  BY <1>1 DEF Handled

LEMMA EndChunkIs ==
  ASSUME FlushInv, EndChunk
  PROVE  /\ phase = "sending" /\ sends' = <<>>
         /\ UNCHANGED <<rows, next, cache, groups, requests, delivery>>
         /\ \A n \in DOMAIN sends : sends[n].answer # "none"
         /\ failed' = failed \cup UNION {Members(sends[n].rows) : n \in FailedSends}
         /\ failed' \in SUBSET DOMAIN rows
         /\ firstError' \in BOOLEAN /\ (firstError' <=> failed' # {})
         /\ failed' = {} => failed = {} /\ FailedSends = {}
         /\ Handled(rows, groups, group', offset') = Handled(rows, groups, group, offset)
         /\ \/ /\ phase' = "chunk" /\ result' = "none" /\ Going' /\ offset' < Len(groups[group'].rows)
            \/ /\ phase' = "done" /\ group' = group /\ offset' = offset /\ group = Len(groups)
               /\ offset = Len(groups[group].rows) /\ result' = IF Checked /\ firstError' THEN "err" ELSE "ok"
<1>1. /\ phase = "sending" /\ sends' = <<>>
      /\ UNCHANGED <<rows, next, cache, groups, requests, delivery>>
      /\ \A n \in DOMAIN sends : sends[n].answer # "none"
      /\ failed' = failed \cup UNION {Members(sends[n].rows) : n \in FailedSends}
      /\ firstError' = (firstError \/ FailedSends # {})
      /\ Advance(firstError')
  BY DEF EndChunk, Unanswered
<1>2. /\ Going /\ (firstError <=> failed # {}) /\ firstError \in BOOLEAN /\ result = "none"
  BY <1>1 DEF FlushInv, Phases
<1>3. /\ next = Len(rows) + 1 /\ group \in 1..Len(groups) /\ offset \in Nat /\ offset <= Len(groups[group].rows)
  BY <1>2 DEF Going
<1>4. Batched(rows, sends, InFlight(sends)) /\ InFlight(sends) \subseteq DOMAIN rows
  BY DEF FlushInv, Handled
<1>5. \A n \in FailedSends : Members(sends[n].rows) # {} /\ Members(sends[n].rows) \subseteq InFlight(sends)
  BY <1>4, MembersAre DEF FailedSends, InFlight
<1>6. failed' \in SUBSET DOMAIN rows
  BY <1>1, <1>4, <1>5 DEF FlushInv
<1>7. firstError' \in BOOLEAN /\ (firstError' <=> failed' # {})
  <2>1. CASE FailedSends = {}
    <3>1. UNION {Members(sends[n].rows) : n \in FailedSends} = {}
      BY <2>1
    <3>2. failed' = failed
      BY <3>1, <1>1
    <3>3. firstError' = firstError
      BY <2>1, <1>1, <1>2
    <3> QED  BY <3>2, <3>3, <1>2
  <2>2. CASE FailedSends # {}
    <3>1. PICK n \in FailedSends : TRUE
      BY <2>2
    <3>2. failed' # {}
      BY <3>1, <1>1, <1>5
    <3>3. firstError' = TRUE
      BY <2>2, <1>1
    <3> QED  BY <3>2, <3>3
  <2> QED  BY <2>1, <2>2
<1>8. failed' = {} => failed = {} /\ FailedSends = {}
  BY <1>1, <1>5
<1>9. \A g \in 1..Len(groups) : Len(groups[g].rows) \in Nat \ {0}
  BY DEF FlushInv, Grouped, GroupOk
<1>10. Len(groups) \in Nat
  BY DEF FlushInv, Grouped
<1>11. CASE offset < Size(group)
  <2>1. phase' = "chunk" /\ group' = group /\ offset' = offset /\ result' = result
    BY <1>1, <1>11 DEF Advance
  <2>2. Going' /\ offset' < Len(groups[group'].rows)
    BY <2>1, <1>1, <1>3, <1>11 DEF Going, Size
  <2> QED  BY <2>1, <2>2, <1>1, <1>2, <1>6, <1>7, <1>8
<1>12. CASE ~(offset < Size(group))
  <2>1. offset = Len(groups[group].rows)
    <3>1. ~(offset < Len(groups[group].rows))
      BY <1>12 DEF Size
    <3> QED  BY <3>1, <1>3, <1>9
  <2>2. CASE group < Len(groups)
    <3>1. phase' = "chunk" /\ group' = group + 1 /\ offset' = 0 /\ result' = result
      BY <1>1, <1>12, <2>2 DEF Advance
    <3>2. group + 1 \in 1..Len(groups) /\ group \in Nat
      BY <2>2, <1>3, <1>10
    <3>3. Len(groups[group + 1].rows) \in Nat \ {0}
      BY <3>2, <1>9
    <3>4. 0 \in Nat /\ 0 < Len(groups[group + 1].rows) /\ 0 <= Len(groups[group + 1].rows)
      BY <3>3
    <3>5. Going' /\ offset' < Len(groups[group'].rows)
      BY <3>1, <3>2, <3>4, <1>1, <1>3 DEF Going
    <3>6. Handled(rows, groups, group + 1, 0) = Handled(rows, groups, group, offset)
      BY <3>2, <2>1, <1>9, NextGroup
    <3>7. Handled(rows, groups, group', offset') = Handled(rows, groups, group, offset)
      BY <3>1, <3>6
    <3> QED  BY <3>1, <3>5, <3>7, <1>1, <1>2, <1>6, <1>7, <1>8
  <2>3. CASE ~(group < Len(groups))
    <3>1. Return(firstError') /\ group' = group /\ offset' = offset
      BY <1>1, <1>12, <2>3 DEF Advance
    <3>2. phase' = "done" /\ result' = IF Checked /\ firstError' THEN "err" ELSE "ok"
      BY <3>1 DEF Return
    <3>3. group = Len(groups)
      BY <2>3, <1>3, <1>10
    <3> QED  BY <3>1, <3>2, <3>3, <2>1, <1>1, <1>6, <1>7, <1>8
  <2> QED  BY <2>2, <2>3
<1> QED  BY <1>11, <1>12

LEMMA EndChunkKeeps ==
  ASSUME FlushInv, EndChunk
  PROVE  FlushInv'
<1>1. /\ phase = "sending" /\ sends' = <<>>
      /\ UNCHANGED <<rows, next, cache, groups, requests, delivery>>
      /\ failed \subseteq failed' /\ failed' \in SUBSET DOMAIN rows
      /\ firstError' \in BOOLEAN /\ (firstError' <=> failed' # {})
      /\ Handled(rows, groups, group', offset') = Handled(rows, groups, group, offset)
      /\ \/ /\ phase' = "chunk" /\ result' = "none" /\ Going' /\ offset' < Len(groups[group'].rows)
         \/ /\ phase' = "done" /\ group' = group /\ offset' = offset /\ group = Len(groups)
            /\ offset = Len(groups[group].rows) /\ result' = IF Checked /\ firstError' THEN "err" ELSE "ok"
  BY EndChunkIs
<1>2. Going
  BY <1>1 DEF FlushInv, Phases
<1>3. InFlight(sends') = {} /\ Batched(rows', sends', InFlight(sends'))
  BY <1>1, NothingSent, NothingBatched
<1>4. Grouped(rows', groups', next', failed')
  <2>1. Grouped(rows, groups, next, failed')
    BY <1>1 DEF FlushInv, Grouped
  <2> QED  BY <2>1, <1>1
<1>5. Accounted(rows', groups', group', offset', failed', requests')
  <2>1. \A i \in Handled(rows, groups, group, offset) : i \in failed' \/ \E q \in requests : i \in Members(q.rows)
    BY <1>1 DEF FlushInv, Accounted
  <2> QED  BY <2>1, <1>1 DEF Accounted
<1>6. Phases'
  <2>1. CASE phase' = "chunk" /\ result' = "none" /\ Going' /\ offset' < Len(groups[group'].rows)
    BY <2>1, <1>1 DEF Phases
  <2>2. CASE /\ phase' = "done" /\ group' = group /\ offset' = offset /\ group = Len(groups)
             /\ offset = Len(groups[group].rows) /\ result' = IF Checked /\ firstError' THEN "err" ELSE "ok"
    <3>1. ASSUME NEW i \in DOMAIN rows PROVE i \in failed' \/ i \in Handled(rows, groups, group, offset)
      <4>1. Len(rows) \in Nat \ {0} /\ DOMAIN rows = 1..Len(rows)
        BY RowsAre DEF FlushInv
      <4>2. i < next
        BY <4>1, <1>2 DEF Going
      <4>3. i \in failed \/ \E g \in 1..Len(groups) : InGroup(groups[g], i)
        BY <4>2 DEF FlushInv, Grouped
      <4>4. CASE i \in failed
        BY <4>4, <1>1
      <4>5. CASE \E g \in 1..Len(groups) : InGroup(groups[g], i)
        <5>1. PICK g \in 1..Len(groups) : InGroup(groups[g], i)
          BY <4>5
        <5>2. PICK a \in 1..Len(groups[g].rows) : groups[g].rows[a] = i
          BY <5>1 DEF InGroup
        <5>3. Len(groups) \in Nat /\ Len(groups[g].rows) \in Nat
          BY DEF FlushInv, Grouped, GroupOk
        <5>4. g < group \/ g = group
          BY <5>3, <2>2
        <5>5. a <= Len(groups[g].rows)
          BY <5>3
        <5>6. Taken(group, offset, g, a)
          BY <5>4, <5>5, <2>2 DEF Taken
        <5> QED  BY <5>2, <5>6 DEF Handled
      <4> QED  BY <4>3, <4>4, <4>5
    <3>2. \A i \in DOMAIN rows' : i \in failed' \/ i \in Handled(rows', groups', group', offset')
      BY <3>1, <2>2, <1>1
    <3>3. (result = "err")' <=> Checked /\ failed' # {}
      <4>1. CASE Checked /\ firstError'
        BY <4>1, <2>2, <1>1
      <4>2. CASE ~(Checked /\ firstError')
        BY <4>2, <2>2, <1>1
      <4> QED  BY <4>1, <4>2
    <3>4. Over'
      BY <3>2, <3>3, <1>1 DEF Over
    <3> QED  BY <3>4, <2>2 DEF Phases
  <2> QED  BY <2>1, <2>2, <1>1
<1>7. /\ (rows \in Inputs)' /\ (next \in Nat /\ next >= 1 /\ next <= Len(rows) + 1)'
      /\ Asked(requests, groups)' /\ (failed \in SUBSET DOMAIN rows)'
  BY <1>1 DEF FlushInv
<1>8. (InFlight(sends) \subseteq Handled(rows, groups, group, offset))'
  BY <1>3
<1> QED  BY <1>3, <1>4, <1>5, <1>6, <1>7, <1>8 DEF FlushInv

LEMMA FlushStep ==
  ASSUME FlushInv, [Next]_vars
  PROVE  FlushInv'
<1>1. CASE UNCHANGED vars
  BY <1>1 DEF vars, FlushInv, Phases, Preparing, Going, Over
<1>2. CASE Next
  BY <1>2, BadUrlKeeps, PrepareKeeps, PreparedKeeps, StartChunkKeeps, ChunkFailsKeeps, EndChunkKeeps,
     DeliveryKeeps DEF Next
<1> QED  BY <1>1, <1>2

(* The rows drained are divided among groups, batches and failures, and    *)
(* the first error is set exactly when a row failed.                       *)
THEOREM FlushInvariant == Spec => []FlushInv
BY FlushInit, FlushStep, PTL DEF Spec

LEMMA InvErrorsReported ==
  ASSUME FlushInv
  PROVE  ErrorsReported
<1> SUFFICES ASSUME result # "none"
             PROVE  /\ result = "err" <=> Checked /\ failed # {}
                    /\ (UNION {Members(q.rows) : q \in requests}) \cup failed = DOMAIN rows
  BY DEF ErrorsReported
<1>1. Over
  BY DEF FlushInv, Phases
<1>2. \A i \in DOMAIN rows : i \in failed \/ \E q \in requests : i \in Members(q.rows)
  BY <1>1 DEF Over, FlushInv, Accounted
<1>3. ASSUME NEW q \in requests, NEW i \in Members(q.rows) PROVE i \in DOMAIN rows
  <2>1. PICK g \in 1..Len(groups) : InGroup(groups[g], i)
    BY DEF FlushInv, Asked
  <2>2. PICK a \in 1..Len(groups[g].rows) : groups[g].rows[a] = i
    BY <2>1 DEF InGroup
  <2>3. groups[g].rows[a] \in DOMAIN rows
    BY DEF FlushInv, Grouped, GroupOk
  <2> QED  BY <2>2, <2>3
<1>4. failed \subseteq DOMAIN rows
  BY DEF FlushInv
<1>5. (UNION {Members(q.rows) : q \in requests}) \cup failed = DOMAIN rows
  BY <1>2, <1>3, <1>4
<1> QED  BY <1>1, <1>5 DEF Over

(* With checked delivery flush_internal returns Err exactly when some row  *)
(* failed, and every row that did not was handed to a sender.              *)
THEOREM ErrorsAreReported == Spec => []ErrorsReported
BY FlushInvariant, InvErrorsReported, PTL

-----------------------------------------------------------------------------
(* Credentials.                                                            *)

(* A request is for rows of one group, whose header is that of its first.  *)
LEMMA InvOneCredential ==
  ASSUME HeadersAgree, FlushInv
  PROVE  OneCredential
<1> SUFFICES ASSUME NEW q \in requests, NEW i \in Members(q.rows), NEW j \in Members(q.rows)
             PROVE  /\ rows[i].token = q.token
                    /\ rows[i].org = rows[j].org
                    /\ q.header = IF rows[i].orgName # None THEN rows[i].orgName ELSE LoginOrgName
  BY DEF OneCredential
<1>1. PICK g \in 1..Len(groups) :
        q.token = groups[g].token /\ q.header = groups[g].header /\ \A k \in Members(q.rows) : InGroup(groups[g], k)
  BY DEF FlushInv, Asked
<1>2. PICK a \in 1..Len(groups[g].rows) : groups[g].rows[a] = i
  BY <1>1 DEF InGroup
<1>3. PICK b \in 1..Len(groups[g].rows) : groups[g].rows[b] = j
  BY <1>1 DEF InGroup
<1>4. GroupOk(rows, groups[g], next)
  BY DEF FlushInv, Grouped
<1>5. PICK f : f = groups[g].rows[1]
  OBVIOUS
<1>6. /\ i \in DOMAIN rows /\ rows[i].token = groups[g].token /\ rows[i].org = groups[g].org
      /\ rows[j].org = groups[g].org
  BY <1>2, <1>3, <1>4 DEF GroupOk
<1>7. f \in DOMAIN rows /\ rows[f].token = groups[g].token /\ rows[f].org = groups[g].org
      /\ groups[g].header = Header(rows[f])
  <2>1. 1 \in 1..Len(groups[g].rows)
    BY <1>4 DEF GroupOk
  <2> QED  BY <2>1, <1>4, <1>5 DEF GroupOk
<1>8. Header(rows[i]) = Header(rows[f])
  <2>1. rows \in Inputs
    BY DEF FlushInv
  <2> QED  BY <2>1, <1>6, <1>7 DEF HeadersAgree
<1> QED  BY <1>1, <1>6, <1>7, <1>8 DEF Header

(* The rows of a request share its token, their organisation, and the name *)
(* of it in the request's header.                                          *)
THEOREM RequestsHaveOneCredential ==
  ASSUME HeadersAgree
  PROVE  Spec => []OneCredential
<1>1. FlushInv => OneCredential
  BY InvOneCredential
<1> QED  BY <1>1, FlushInvariant, PTL

-----------------------------------------------------------------------------
(* What has been handed out and what has arrived.                          *)

Done == Handled(rows, groups, group, offset)

Before(x, y) == \A i \in x.from, j \in y.from : i < j

In(ss, x) == \E n \in DOMAIN ss : x \in ToSet(ss[n].rows)

(* The rows handed out under one key are in the order of their chunks, and *)
(* those of the chunk being sent are the last ones.                        *)
HandInv ==
  /\ \A x \in Handed : MergedRow(rows, x) /\ x.from \subseteq KeyRows(rows, Done, x.key)
  /\ \A x, y \in Handed : x.key = y.key => x = y \/ Before(x, y) \/ Before(y, x)
  /\ \A x \in Handed : In(sends, x) =>
       \A y \in Handed : x.key = y.key => x = y \/ Before(y, x)
  /\ \A n \in DOMAIN sends : /\ ToSet(sends[n].rows) \subseteq Handed
                             /\ sends[n].answer \in {"none", "ok", "err"}
  /\ \A n \in DOMAIN sends : sends[n].answer = "ok" => ToSet(sends[n].rows) \subseteq arrived
  /\ arrived \subseteq Handed
  /\ failed = {} => /\ \A x \in Handed : x \in arrived \/ In(sends, x)
                    /\ \A i \in Done : \E x \in Handed : i \in x.from

LEMMA HandledAre ==
  ASSUME FlushInv
  PROVE  \E n \in Nat : /\ n = Len(rows) /\ DOMAIN rows = 1..n /\ Done \in SUBSET (1..n)
                        /\ InFlight(sends) \subseteq Done
<1>1. Len(rows) \in Nat \ {0} /\ DOMAIN rows = 1..Len(rows)
  BY RowsAre DEF FlushInv
<1> QED  BY <1>1 DEF FlushInv, Done, Handled

LEMMA NothingHanded ==
  ASSUME requests = {}, sends = <<>>, Done = {}, arrived = {}
  PROVE  HandInv
<1>1. Handed = {}
  BY DEF Handed
<1>2. DOMAIN sends = {}
  BY EmptyArray DEF Array
<1> QED  BY <1>1, <1>2 DEF HandInv, In

LEMMA HandInit ==
  ASSUME Init
  PROVE  HandInv
<1>1. groups = <<>> /\ group = 1 /\ offset = 0 /\ sends = <<>> /\ requests = {} /\ arrived = {}
  BY DEF Init
<1>2. Done = {}
  BY <1>1, NothingHandled DEF Done
<1> QED  BY <1>1, <1>2, NothingHanded

LEMMA PreparingKeepsHand ==
  ASSUME FlushInv, HandInv, BadUrl \/ Prepare \/ Prepared
  PROVE  HandInv'
<1>1. phase = "prepare" /\ UNCHANGED <<group, offset, sends, requests, delivery>>
  BY DEF BadUrl, Prepare, Prepared
<1>2. group' = 1 /\ offset' = 0 /\ sends' = <<>> /\ requests' = {} /\ requests = {}
  BY <1>1 DEF FlushInv, Phases, Preparing
<1>3. Done' = {}
  BY <1>2, NothingHandled DEF Done
<1>4. Handed = {}
  BY <1>2 DEF Handed
<1>5. arrived' = {}
  BY <1>1, <1>4 DEF HandInv, delivery
<1>6. Handed' = {}
  BY <1>2 DEF Handed
<1>7. DOMAIN sends' = {}
  BY <1>2, EmptyArray DEF Array
<1> QED  BY <1>3, <1>5, <1>6, <1>7 DEF HandInv, In

(* The rows of a chunk come after the rows of their key that are handled.  *)
LEMMA ChunkIsLater ==
  ASSUME KeysApart, FlushInv, phase = "chunk", NEW C, C = ToSet(Chunk)
  PROVE  \A i \in Done, j \in C : RowKey(rows[i]) = RowKey(rows[j]) => i < j
<1>1. SUFFICES ASSUME NEW i \in Done, NEW j \in C, RowKey(rows[i]) = RowKey(rows[j])
               PROVE  i < j
  OBVIOUS
<1>2. \A l : l \in C <=> \E a \in 1..Len(groups[group].rows) :
                           groups[group].rows[a] = l /\ offset < a /\ a <= ChunkEnd
  BY ChunkIs
<1>3. PICK b \in 1..Len(groups[group].rows) : groups[group].rows[b] = j /\ offset < b
  BY <1>2
<1>4. PICK g \in 1..Len(groups) : \E a \in 1..Len(groups[g].rows) :
        groups[g].rows[a] = i /\ Taken(group, offset, g, a)
  BY DEF Done, Handled
<1>5. PICK a \in 1..Len(groups[g].rows) : groups[g].rows[a] = i /\ Taken(group, offset, g, a)
  BY <1>4
<1>6. group \in 1..Len(groups) /\ offset \in Nat
  BY DEF FlushInv, Phases, Going
<1>7. GroupOk(rows, groups[g], next) /\ GroupOk(rows, groups[group], next)
  BY <1>6 DEF FlushInv, Grouped
<1>8. /\ i \in DOMAIN rows /\ rows[i].token = groups[g].token /\ rows[i].org = groups[g].org
      /\ j \in DOMAIN rows /\ rows[j].token = groups[group].token /\ rows[j].org = groups[group].org
  BY <1>3, <1>5, <1>7 DEF GroupOk
<1>9. rows[i].org = rows[j].org /\ rows[i].token = rows[j].token
  <2>1. rows \in Inputs
    BY DEF FlushInv
  <2>2. rows[i].token = rows[j].token
    BY <2>1, <1>1, <1>8 DEF KeysApart
  <2>3. rows[i].org = rows[j].org
    BY <1>1 DEF RowKey
  <2> QED  BY <2>2, <2>3
<1>10. g = group
  BY <1>6, <1>8, <1>9 DEF FlushInv, Grouped
<1>11. a < b
  <2>1. Len(groups[group].rows) \in Nat
    BY <1>7 DEF GroupOk
  <2>2. a \in Nat /\ b \in Nat /\ ~(g < group)
    BY <2>1, <1>6, <1>10
  <2>3. a <= offset
    BY <2>2, <1>5 DEF Taken
  <2> QED  BY <2>2, <2>3, <1>3, <1>6
<1> QED  BY <1>3, <1>5, <1>7, <1>10, <1>11 DEF GroupOk

(* The rows of its batches, as they are handed out. *)
LEMMA NewlyHanded ==
  ASSUME FlushInv, HandInv, StartChunk, NEW C, C = ToSet(Chunk)
  PROVE  /\ Handed' = Handed \cup {x \in Handed' : In(sends', x)}
         /\ \A n \in DOMAIN sends' : ToSet(sends'[n].rows) \subseteq Handed'
         /\ \A x : In(sends', x) => MergedRow(rows, x) /\ x.from = KeyRows(rows, C, x.key)
         /\ \A x, y : In(sends', x) /\ In(sends', y) /\ x.key = y.key => x = y
         /\ \A i \in C : \E x : In(sends', x) /\ x.key = RowKey(rows[i])
<1>1. /\ Batched(rows, sends', C) /\ requests \subseteq requests'
      /\ \A n \in DOMAIN sends' : \E q \in requests' : q.rows = sends'[n].rows
      /\ \A q \in requests' : q \in requests \/ \E n \in DOMAIN sends' : q.rows = sends'[n].rows
  BY ChunkHandedOut
<1>2. PICK ss : ss = sends'
  OBVIOUS
<1>3. DOMAIN ss = 1..Len(ss)
  BY <1>1, <1>2 DEF Batched, Array
<1>4. ASSUME NEW x PROVE In(sends', x) <=> \E n \in 1..Len(ss) : \E j \in 1..Len(ss[n].rows) : x = ss[n].rows[j]
  <2>1. ASSUME NEW n \in 1..Len(ss)
        PROVE  x \in ToSet(ss[n].rows) <=> \E j \in 1..Len(ss[n].rows) : x = ss[n].rows[j]
    <3>1. DOMAIN ss[n].rows = 1..Len(ss[n].rows)
      BY <1>1, <1>2 DEF Batched
    <3> QED  BY <3>1 DEF ToSet
  <2>2. In(ss, x) <=> \E n \in 1..Len(ss) : x \in ToSet(ss[n].rows)
    BY <1>3 DEF In
  <2> QED  BY <2>1, <2>2, <1>2
<1>5. ASSUME NEW x, In(sends', x) PROVE MergedRow(rows, x) /\ x.from = KeyRows(rows, C, x.key)
  <2>1. PICK n \in 1..Len(ss) : \E j \in 1..Len(ss[n].rows) : x = ss[n].rows[j]
    BY <1>4, <1>5
  <2>2. PICK j \in 1..Len(ss[n].rows) : x = ss[n].rows[j]
    BY <2>1
  <2> QED  BY <2>2, <1>1, <1>2 DEF Batched
<1>6. ASSUME NEW x, NEW y, In(sends', x), In(sends', y), x.key = y.key PROVE x = y
  <2>1. PICK n \in 1..Len(ss) : \E j \in 1..Len(ss[n].rows) : x = ss[n].rows[j]
    BY <1>4, <1>6
  <2>2. PICK j \in 1..Len(ss[n].rows) : x = ss[n].rows[j]
    BY <2>1
  <2>3. PICK m \in 1..Len(ss) : \E l \in 1..Len(ss[m].rows) : y = ss[m].rows[l]
    BY <1>4, <1>6
  <2>4. PICK l \in 1..Len(ss[m].rows) : y = ss[m].rows[l]
    BY <2>3
  <2>5. n = m /\ j = l
    BY <2>2, <2>4, <1>1, <1>2, <1>6 DEF Batched
  <2> QED  BY <2>2, <2>4, <2>5
<1>7. ASSUME NEW i \in C PROVE \E x : In(sends', x) /\ x.key = RowKey(rows[i])
  <2>1. PICK n \in 1..Len(ss) : \E j \in 1..Len(ss[n].rows) : ss[n].rows[j].key = RowKey(rows[i])
    BY <1>1, <1>2 DEF Batched
  <2>2. PICK j \in 1..Len(ss[n].rows) : ss[n].rows[j].key = RowKey(rows[i])
    BY <2>1
  <2>3. PICK x : x = ss[n].rows[j]
    OBVIOUS
  <2>4. In(sends', x)
    BY <2>3, <1>4
  <2> QED  BY <2>2, <2>3, <2>4
<1>8. ASSUME NEW n \in DOMAIN sends' PROVE ToSet(sends'[n].rows) \subseteq Handed'
  <2>1. PICK q \in requests' : q.rows = sends'[n].rows
    BY <1>1
  <2> QED  BY <2>1 DEF Handed
<1>9. ASSUME NEW x PROVE x \in Handed' <=> x \in Handed \/ In(sends', x)
  <2>1. ASSUME x \in Handed' PROVE x \in Handed \/ In(sends', x)
    <3>1. PICK q \in requests' : x \in ToSet(q.rows)
      BY <2>1 DEF Handed
    <3>2. CASE q \in requests
      BY <3>1, <3>2 DEF Handed
    <3>3. CASE \E n \in DOMAIN sends' : q.rows = sends'[n].rows
      BY <3>1, <3>3 DEF In
    <3> QED  BY <3>2, <3>3, <1>1
  <2>2. ASSUME x \in Handed PROVE x \in Handed'
    BY <2>2, <1>1 DEF Handed
  <2>3. ASSUME In(sends', x) PROVE x \in Handed'
    BY <2>3, <1>8 DEF In
  <2> QED  BY <2>1, <2>2, <2>3
<1>10. Handed' = Handed \cup {x \in Handed' : In(sends', x)}
  BY <1>9
<1> QED  BY <1>5, <1>6, <1>7, <1>8, <1>10

LEMMA StartChunkKeepsHand ==
  ASSUME KeysApart, FlushInv, HandInv, StartChunk
  PROVE  HandInv'
<1>1. PICK C : C = ToSet(Chunk)
  OBVIOUS
<1>2. phase = "chunk" /\ UNCHANGED <<rows, groups, group, delivery, failed>> /\ offset' = ChunkEnd
      /\ \A n \in DOMAIN sends' : sends'[n].answer = "none"
  BY <1>1, ChunkHandedOut
<1>3. PICK H : H = Done
  OBVIOUS
<1>4. Done' = H \cup C
  BY <1>1, <1>2, <1>3, ChunkIs DEF Done
<1>5. \A i \in H, j \in C : RowKey(rows[i]) = RowKey(rows[j]) => i < j
  BY <1>1, <1>2, <1>3, ChunkIsLater
<1>6. PICK N : N = {x \in Handed' : In(sends', x)}
  OBVIOUS
<1>7. /\ Handed' = Handed \cup N
      /\ \A n \in DOMAIN sends' : ToSet(sends'[n].rows) \subseteq Handed'
      /\ \A x \in N : MergedRow(rows, x) /\ x.from = KeyRows(rows, C, x.key)
      /\ \A x, y \in N : x.key = y.key => x = y
      /\ \A i \in C : \E x \in N : x.key = RowKey(rows[i])
      /\ \A x : In(sends', x) => x \in N
  <2>1. \A x : In(sends', x) => x \in Handed'
    BY <1>1, NewlyHanded DEF In
  <2> QED  BY <1>1, <1>6, <2>1, NewlyHanded
<1>8. \A n \in DOMAIN sends : FALSE
  <2>1. sends = <<>>
    BY <1>2 DEF FlushInv, Phases
  <2> QED  BY <2>1, EmptyArray DEF Array
<1>9. \A x \in Handed : MergedRow(rows, x) /\ x.from \subseteq KeyRows(rows, H, x.key)
  BY <1>3 DEF HandInv
<1>10. ASSUME NEW x \in Handed, NEW y \in N, x.key = y.key PROVE Before(x, y)
  <2>1. \A i \in x.from : i \in H /\ RowKey(rows[i]) = x.key
    BY <1>9 DEF KeyRows
  <2>2. \A j \in y.from : j \in C /\ RowKey(rows[j]) = x.key
    BY <1>7, <1>10 DEF KeyRows
  <2> QED  BY <2>1, <2>2, <1>5 DEF Before
<1>11. ASSUME NEW x \in Handed'
       PROVE  MergedRow(rows, x) /\ x.from \subseteq KeyRows(rows, H \cup C, x.key)
  <2>1. /\ KeyRows(rows, H, x.key) \subseteq KeyRows(rows, H \cup C, x.key)
        /\ KeyRows(rows, C, x.key) \subseteq KeyRows(rows, H \cup C, x.key)
    BY DEF KeyRows
  <2> QED  BY <2>1, <1>7, <1>9
<1>12. ASSUME NEW x \in Handed', NEW y \in Handed', x.key = y.key
       PROVE  x = y \/ Before(x, y) \/ Before(y, x)
  BY <1>7, <1>10, <1>12 DEF HandInv
<1>13. ASSUME NEW x \in Handed', In(sends', x), NEW y \in Handed', x.key = y.key
       PROVE  x = y \/ Before(y, x)
  <2>1. x \in N
    BY <1>7, <1>13
  <2> QED  BY <2>1, <1>7, <1>10, <1>13
<1>14. ASSUME failed = {}
       PROVE  /\ \A x \in Handed' : x \in arrived \/ In(sends', x)
              /\ \A i \in H \cup C : \E x \in Handed' : i \in x.from
  <2>1. \A x \in Handed : x \in arrived
    BY <1>8, <1>14 DEF HandInv, In
  <2>2. \A x \in N : In(sends', x)
    BY <1>6
  <2>3. \A i \in H : \E x \in Handed : i \in x.from
    BY <1>3, <1>14 DEF HandInv
  <2>4. ASSUME NEW i \in C PROVE \E x \in N : i \in x.from
    <3>1. PICK x \in N : x.key = RowKey(rows[i])
      BY <1>7
    <3>2. i \in x.from
      BY <3>1, <1>7 DEF KeyRows
    <3> QED  BY <3>2
  <2> QED  BY <2>1, <2>2, <2>3, <2>4, <1>7
<1>15. \A n \in DOMAIN sends' : sends'[n].answer # "ok"
  BY <1>2
<1>16. arrived' = arrived /\ arrived \subseteq Handed /\ rows' = rows /\ failed' = failed
  BY <1>2 DEF delivery, HandInv
<1>17. \A x \in Handed' : MergedRow(rows', x) /\ x.from \subseteq KeyRows(rows', Done', x.key)
  BY <1>4, <1>11, <1>16
<1>18. \A n \in DOMAIN sends' : /\ ToSet(sends'[n].rows) \subseteq Handed'
                               /\ sends'[n].answer \in {"none", "ok", "err"}
  BY <1>2, <1>7
<1>19. \A n \in DOMAIN sends' : sends'[n].answer = "ok" => ToSet(sends'[n].rows) \subseteq arrived'
  BY <1>15
<1>20. failed' = {} => /\ \A x \in Handed' : x \in arrived' \/ In(sends', x)
                       /\ \A i \in Done' : \E x \in Handed' : i \in x.from
  BY <1>4, <1>14, <1>16
<1>21. arrived' \subseteq Handed'
  BY <1>7, <1>16
<1> QED  BY <1>12, <1>13, <1>17, <1>18, <1>19, <1>20, <1>21, Zenon DEF HandInv

LEMMA NothingSending == \A x : ~In(<<>>, x)
BY EmptyArray DEF Array, In

LEMMA ChunkFailsKeepsHand ==
  ASSUME FlushInv, HandInv, ChunkFails
  PROVE  HandInv'
<1>1. PICK C : C = ToSet(Chunk)
  OBVIOUS
<1>2. /\ phase = "chunk" /\ sends' = <<>> /\ offset' = ChunkEnd
      /\ failed' = failed \cup C
      /\ UNCHANGED <<rows, groups, group, requests, delivery>>
  BY <1>1 DEF ChunkFails
<1>3. Done' = Done \cup C /\ C # {}
  BY <1>1, <1>2, ChunkIs DEF Done
<1>4. failed' # {}
  BY <1>2, <1>3
<1>5. Handed' = Handed
  BY <1>2 DEF Handed
<1>6. \A x \in Handed : x.from \subseteq KeyRows(rows, Done \cup C, x.key)
  BY DEF HandInv, KeyRows
<1>7. /\ \A n \in DOMAIN sends' : FALSE
      /\ \A x : ~In(sends', x)
  BY <1>2, NothingSending, EmptyArray DEF Array
<1>8. arrived' = arrived /\ rows' = rows
  BY <1>2 DEF delivery
<1> QED  BY <1>3, <1>4, <1>5, <1>6, <1>7, <1>8 DEF HandInv

LEMMA EndChunkKeepsHand ==
  ASSUME FlushInv, HandInv, EndChunk
  PROVE  HandInv'
<1>1. /\ sends' = <<>> /\ UNCHANGED <<rows, groups, requests, delivery>>
      /\ \A n \in DOMAIN sends : sends[n].answer # "none"
      /\ failed' = {} => failed = {} /\ FailedSends = {}
      /\ Handled(rows, groups, group', offset') = Handled(rows, groups, group, offset)
  BY EndChunkIs
<1>2. Done' = Done
  BY <1>1 DEF Done
<1>3. Handed' = Handed /\ arrived' = arrived /\ rows' = rows
  BY <1>1 DEF Handed, delivery
<1>4. /\ \A n \in DOMAIN sends' : FALSE
      /\ \A x : ~In(sends', x)
  BY <1>1, NothingSending, EmptyArray DEF Array
<1>5. ASSUME failed' = {}, NEW x \in Handed PROVE x \in arrived
  <2>1. failed = {} /\ FailedSends = {}
    BY <1>1, <1>5
  <2>2. ASSUME NEW n \in DOMAIN sends, x \in ToSet(sends[n].rows) PROVE x \in arrived
    <3>1. sends[n].answer # "none" /\ sends[n].answer # "err"
      BY <2>1, <1>1 DEF FailedSends
    <3>2. sends[n].answer \in {"none", "ok", "err"}
      BY DEF HandInv
    <3> QED  BY <3>1, <3>2, <2>2 DEF HandInv
  <2> QED  BY <2>1, <2>2 DEF HandInv, In
<1> QED  BY <1>1, <1>2, <1>3, <1>4, <1>5 DEF HandInv

LEMMA AnswerKeepsHand ==
  ASSUME FlushInv, HandInv, NEW n \in DOMAIN sends, Answer(n)
  PROVE  HandInv'
<1>1. /\ UNCHANGED <<rows, groups, group, offset, requests, delivery, failed>>
      /\ DOMAIN sends' = DOMAIN sends
      /\ sends'[n].answer = "ok" => ToSet(sends[n].rows) \subseteq arrived
      /\ sends'[n].answer \in {"ok", "err"}
      /\ \A m \in DOMAIN sends : sends'[m].rows = sends[m].rows
      /\ \A m \in DOMAIN sends : m # n => sends'[m] = sends[m]
  BY AnswerKeepsSends
<1>2. Done' = Done
  BY <1>1 DEF Done
<1>3. Handed' = Handed /\ arrived' = arrived /\ rows' = rows /\ failed' = failed
  BY <1>1 DEF Handed, delivery
<1>4. \A x : In(sends', x) <=> In(sends, x)
  BY <1>1 DEF In
<1>5. \A m \in DOMAIN sends' : sends'[m].answer = "ok" => ToSet(sends'[m].rows) \subseteq arrived
  BY <1>1 DEF HandInv
<1>6. \A m \in DOMAIN sends' : ToSet(sends'[m].rows) \subseteq Handed
  BY <1>1 DEF HandInv
<1>7. \A m \in DOMAIN sends' : sends'[m].answer \in {"none", "ok", "err"}
  BY <1>1 DEF HandInv
<1> QED  BY <1>2, <1>3, <1>4, <1>5, <1>6, <1>7 DEF HandInv

LEMMA ArriveKeepsHand ==
  ASSUME FlushInv, HandInv, NEW m \in Handed, Arrive(m)
  PROVE  HandInv'
<1>1. arrived' = arrived \cup {m} /\ UNCHANGED <<rows, groups, group, offset, sends, requests, failed>>
  BY DEF Arrive
<1>2. Handed' = Handed /\ Done' = Done
  BY <1>1 DEF Handed, Done
<1> QED  BY <1>1, <1>2 DEF HandInv

LEMMA HandStep ==
  ASSUME KeysApart, FlushInv, HandInv, [Next]_vars
  PROVE  HandInv'
<1>1. CASE UNCHANGED vars
  BY <1>1 DEF vars, HandInv, Done, Handed, delivery
<1>2. CASE Next
  BY <1>2, PreparingKeepsHand, StartChunkKeepsHand, ChunkFailsKeepsHand, EndChunkKeepsHand,
     AnswerKeepsHand, ArriveKeepsHand DEF Next
<1> QED  BY <1>1, <1>2

(* What was handed out under one key is in the order of the chunks.        *)
THEOREM HandInvariant ==
  ASSUME KeysApart
  PROVE  Spec => []HandInv
<1>1. Init => HandInv
  BY HandInit
<1>2. FlushInv /\ HandInv /\ [Next]_vars => HandInv'
  BY HandStep
<1> QED  BY <1>1, <1>2, FlushInvariant, PTL DEF Spec

-----------------------------------------------------------------------------
(* What the server holds under a key of which no row was overtaken.        *)

Under(A, k) == {x \in A : x.key = k}

RowsOf(S) == UNION {x.from : x \in S}

(* A value comes from older rows, or from row x, the latest, as well. *)
OldValue(O, p, v) == IF United(p) THEN v # {} /\ v \subseteq O ELSE v \in O
NewValue(x, O, p, v) ==
  /\ p \in DOMAIN x.content
  /\ IF United(p) THEN x.content[p] \subseteq v /\ v \subseteq O \cup x.content[p]
     ELSE v = x.content[p]

Latest(S, x) == x \in S /\ \A y \in S : y = x \/ Before(y, x)

KnownAs(x, S, c) ==
  \A p \in DOMAIN c : LET O == RowsOf(S \ {x}) IN OldValue(O, p, c[p]) \/ NewValue(x, O, p, c[p])

Known(S, c) == \E x \in S : Latest(S, x) /\ KnownAs(x, S, c)

(* Rows F of key k have arrived, and no row of it after them.              *)
Reached(s, sv, k, F) ==
  /\ k \in DOMAIN sv <=> F # {}
  /\ \A i \in F : (\A j \in F : j <= i) => WrittenBy(sv[k], s[i].paths, i)
  /\ Stable(s) /\ F # {} => sv[k] = Expected(s, F)

ServerInv ==
  /\ IsMap(server)
  /\ \A k : k \in DOMAIN server <=> Under(arrived, k) # {}
  /\ \A k \in DOMAIN server : k \notin overtaken => Known(Under(arrived, k), server[k])
  /\ \A k : k \notin overtaken => Reached(rows, server, k, RowsOf(Under(arrived, k)))

(* A row with key x.key arrives, again or for the first time. *)
LEMMA ReachedOnArrival ==
  ASSUME NEW n \in Nat, DOMAIN rows = 1..n, NEW R \in SUBSET (1..n), NEW x, MergedRow(rows, x),
         \A i \in R, j \in x.from : i < j, NEW sv, NEW F, F = R \/ F = R \cup x.from,
         Reached(rows, sv, x.key, F), NEW t, x.key \in DOMAIN t, t[x.key] = Received(sv, x)
  PROVE  Reached(rows, t, x.key, R \cup x.from)
<1>1. PICK E : E = x.from
  OBVIOUS
<1>2. /\ E \in SUBSET (1..n) /\ E # {} /\ (x.merge <=> \A i \in E : rows[i].merge)
      /\ \A i \in E : (\A j \in E : j <= i) => WrittenBy(x.content, rows[i].paths, i)
      /\ Stable(rows) => x.content = Expected(rows, E)
  BY <1>1 DEF MergedRow
<1>3. PICK h : h = Held(sv, x.key)
  OBVIOUS
<1>4. PICK v : v = t[x.key]
  OBVIOUS
<1>5. v = IF x.merge THEN MergeRowInto(h, x.content) ELSE x.content
  BY <1>3, <1>4 DEF Received
<1>6. \A i \in R, j \in E : i < j /\ i \in Nat /\ j \in Nat
  BY <1>1, <1>2
<1>7. ASSUME NEW i \in R \cup E, \A j \in R \cup E : j <= i
      PROVE  WrittenBy(v, rows[i].paths, i)
  <2>1. i \in E
    <3>1. ASSUME i \in R PROVE FALSE
      <4>1. PICK j \in E : TRUE
        BY <1>2
      <4>2. i < j /\ i \in Nat /\ j \in Nat
        BY <3>1, <1>6
      <4>3. j <= i
        BY <1>7
      <4> QED  BY <4>2, <4>3
    <3> QED  BY <3>1
  <2>2. WrittenBy(x.content, rows[i].paths, i)
    BY <2>1, <1>2, <1>7
  <2>3. WrittenBy(MergeRowInto(h, x.content), rows[i].paths, i)
    BY <2>2, WrittenStays
  <2> QED  BY <2>2, <2>3, <1>5
<1>8. ASSUME Stable(rows) PROVE v = Expected(rows, R \cup E)
  <2>1. h = Expected(rows, F)
    <3>1. CASE F = {}
      BY <3>1, <1>3, ExpectedOfNone DEF Reached, Held
    <3>2. CASE F # {}
      BY <3>2, <1>3, <1>8 DEF Reached, Held
    <3> QED  BY <3>1, <3>2
  <2>2. x.content = Expected(rows, E)
    BY <1>2, <1>8
  <2>3. CASE x.merge
    <3>1. \A j \in E : rows[j].merge
      BY <2>3, <1>2
    <3>2. \A i \in R, j \in E : i < j
      BY <1>6
    <3>3. /\ MergeRowInto(Expected(rows, R), Expected(rows, E)) = Expected(rows, R \cup E)
          /\ MergeRowInto(Expected(rows, R \cup E), Expected(rows, E)) = Expected(rows, R \cup E)
      <4>1. MergingLater(rows, n, R, E)
        BY <1>2, <3>1, <3>2 DEF MergingLater
      <4>2. MergesInto(rows, R, E)
        BY ONLY <4>1, <1>8, MergedWithLater
      <4> QED  BY ONLY <4>2 DEF MergesInto
    <3> QED  BY <3>3, <2>1, <2>2, <2>3, <1>1, <1>5
  <2>4. CASE ~x.merge
    <3>1. \E j \in E : ~rows[j].merge
      BY <2>4, <1>2
    <3>2. \A i \in R, j \in E : i < j
      BY <1>6
    <3>3. R \in SUBSET Nat /\ E \in SUBSET Nat
      BY <1>2
    <3>4. Expected(rows, R \cup E) = Expected(rows, E)
      BY <3>1, <3>2, <3>3, ReplacedByLater
    <3> QED  BY <3>4, <2>2, <2>4, <1>5
  <2> QED  BY <2>3, <2>4
<1>9. R \cup E # {}
  BY <1>2
<1> QED  BY <1>1, <1>4, <1>7, <1>8, <1>9 DEF Reached

LEMMA NewMembersCome ==
  ASSUME NEW O \in SUBSET Nat, NEW c \in SUBSET Nat, c # {}, \A i \in O, j \in c : i < j,
         NEW v, (v # {} /\ v \subseteq O) \/ (c \subseteq v /\ v \subseteq O \cup c)
  PROVE  /\ \A i \in c : i >= Min(v)
         /\ \A i \in v : i >= Min(v)
         /\ c \subseteq v \cup c /\ v \cup c \subseteq O \cup c
<1>1. v \in SUBSET Nat /\ v # {}
  OBVIOUS
<1>2. PICK l : l = Min(v)
  OBVIOUS
<1>3. l \in v /\ l \in Nat /\ \A y \in v : l <= y
  BY <1>1, <1>2, LeastElement
<1>4. \A i \in v : i >= l
  BY <1>1, <1>3
<1>5. ASSUME NEW i \in c PROVE i >= l
  <2>1. i \in Nat
    OBVIOUS
  <2>2. CASE i \in v
    BY <2>2, <1>4
  <2>3. CASE l \in O
    <3>1. l < i
      BY <2>3
    <3> QED  BY <3>1, <2>1, <1>3
  <2>4. i \in v \/ l \in O
    BY <1>3
  <2> QED  BY <2>2, <2>3, <2>4
<1> QED  BY <1>2, <1>4, <1>5

(* What it leaves is known, and no older than what was there. *)
LEMMA KnownOnArrival ==
  ASSUME NEW n \in Nat, DOMAIN rows = 1..n, NEW O \in SUBSET (1..n), NEW x, MergedRow(rows, x),
         \A i \in O, j \in x.from : i < j, NEW h,
         \A p \in DOMAIN h : OldValue(O, p, h[p]) \/ NewValue(x, O, p, h[p]),
         NEW v, v = IF x.merge THEN MergeRowInto(h, x.content) ELSE x.content
  PROVE  /\ \A p \in DOMAIN v : OldValue(O, p, v[p]) \/ NewValue(x, O, p, v[p])
         /\ \A p \in DOMAIN h \cap DOMAIN v : NotOlder(p, v[p], h[p])
<1>1. PICK E : E = x.from
  OBVIOUS
<1>2. PICK c : c = x.content
  OBVIOUS
<1>3. /\ E \in SUBSET (1..n)
      /\ \A p \in DOMAIN c : IF United(p) THEN c[p] \subseteq E /\ c[p] # {} ELSE c[p] \in E
  BY <1>1, <1>2 DEF MergedRow
<1>4. E \in SUBSET Nat /\ O \in SUBSET Nat /\ \A i \in O, j \in E : i < j
  BY <1>1, <1>3
<1>5. ASSUME NEW p \in DOMAIN v
      PROVE  \/ p \in DOMAIN c /\ v[p] = IF x.merge /\ p \in DOMAIN h /\ United(p) THEN h[p] \cup c[p] ELSE c[p]
             \/ p \notin DOMAIN c /\ p \in DOMAIN h /\ v[p] = h[p]
  <2>1. CASE x.merge
    <3>1. v = MergeRowInto(h, c)
      BY <2>1, <1>2
    <3>2. p \in DOMAIN h \cup DOMAIN c /\ v[p] = MergedValue(h, c, p)
      BY <3>1, MergedIn
    <3>3. CASE p \in DOMAIN c
      BY <3>2, <3>3, <2>1 DEF MergedValue
    <3>4. CASE p \notin DOMAIN c
      BY <3>2, <3>4 DEF MergedValue
    <3> QED  BY <3>3, <3>4
  <2>2. CASE ~x.merge
    BY <2>2, <1>2
  <2> QED  BY <2>1, <2>2
<1>6. \A p \in DOMAIN h : OldValue(O, p, h[p]) \/ NewValue(x, O, p, h[p])
  OBVIOUS
<1>7. ASSUME NEW p \in DOMAIN c, United(p), NEW u, OldValue(O, p, u) \/ NewValue(x, O, p, u)
      PROVE  /\ \A i \in c[p] : i >= Min(u)
             /\ \A i \in u : i >= Min(u)
             /\ c[p] \subseteq u \cup c[p] /\ u \cup c[p] \subseteq O \cup c[p]
  <2>1. c[p] \in SUBSET Nat /\ c[p] # {} /\ \A i \in O, j \in c[p] : i < j
    BY <1>3, <1>4, <1>7
  <2>2. PICK d : d = c[p]
    OBVIOUS
  <2>3. (u # {} /\ u \subseteq O) \/ (d \subseteq u /\ u \subseteq O \cup d)
    BY <1>2, <1>7, <2>2 DEF OldValue, NewValue
  <2>4. d \in SUBSET Nat /\ d # {} /\ \A i \in O, j \in d : i < j
    BY <2>1, <2>2
  <2>5. /\ \A i \in d : i >= Min(u)
        /\ \A i \in u : i >= Min(u)
        /\ d \subseteq u \cup d /\ u \cup d \subseteq O \cup d
    BY <2>3, <2>4, <1>4, NewMembersCome
  <2> QED  BY <2>2, <2>5
<1>8. ASSUME NEW p \in DOMAIN v PROVE OldValue(O, p, v[p]) \/ NewValue(x, O, p, v[p])
  <2>1. CASE p \notin DOMAIN c
    BY <2>1, <1>5, <1>6
  <2>2. CASE p \in DOMAIN c /\ x.merge /\ p \in DOMAIN h /\ United(p)
    <3>1. v[p] = h[p] \cup c[p]
      BY <2>2, <1>5
    <3>2. c[p] \subseteq h[p] \cup c[p] /\ h[p] \cup c[p] \subseteq O \cup c[p]
      BY <2>2, <1>6, <1>7
    <3> QED  BY <3>1, <3>2, <2>2, <1>2 DEF NewValue
  <2>3. CASE p \in DOMAIN c /\ ~(x.merge /\ p \in DOMAIN h /\ United(p))
    <3>1. v[p] = c[p]
      BY <2>3, <1>5
    <3> QED  BY <3>1, <2>3, <1>2 DEF NewValue
  <2> QED  BY <2>1, <2>2, <2>3
<1>9. ASSUME NEW p \in DOMAIN h \cap DOMAIN v PROVE NotOlder(p, v[p], h[p])
  <2>1. OldValue(O, p, h[p]) \/ NewValue(x, O, p, h[p])
    BY <1>6
  <2>2. CASE United(p)
    <3>1. CASE p \in DOMAIN c
      <4>1. /\ \A i \in c[p] : i >= Min(h[p])
            /\ \A i \in h[p] : i >= Min(h[p])
        BY <3>1, <2>1, <2>2, <1>7
      <4>2. v[p] = h[p] \cup c[p] \/ v[p] = c[p]
        BY <3>1, <1>5
      <4> QED  BY <4>1, <4>2, <2>2 DEF NotOlder
    <3>2. CASE p \notin DOMAIN c
      <4>1. v[p] = h[p] /\ h[p] # {} /\ h[p] \in SUBSET Nat
        BY <3>2, <2>1, <2>2, <1>2, <1>4, <1>5 DEF OldValue, NewValue
      <4>2. PICK u : u = h[p]
        OBVIOUS
      <4>3. \A i \in u : Min(u) \in Nat /\ Min(u) <= i /\ i \in Nat
        BY <4>1, <4>2, LeastElement
      <4>4. \A i \in u : i >= Min(u)
        BY <4>3
      <4> QED  BY <4>1, <4>2, <4>4, <2>2 DEF NotOlder
    <3> QED  BY <3>1, <3>2
  <2>3. CASE ~United(p)
    <3>1. CASE p \in DOMAIN c
      <4>1. v[p] = c[p] /\ c[p] \in E
        BY <3>1, <2>3, <1>3, <1>5
      <4>2. h[p] \in O \/ h[p] = c[p]
        BY <2>1, <2>3, <1>2 DEF OldValue, NewValue
      <4>3. c[p] \in Nat
        BY <4>1, <1>4
      <4>4. CASE h[p] = c[p]
        BY <4>1, <4>3, <4>4, <2>3 DEF NotOlder
      <4>5. CASE h[p] \in O
        <5>1. h[p] < c[p] /\ h[p] \in Nat
          BY <4>1, <4>5, <1>4
        <5>2. c[p] >= h[p]
          BY <5>1, <4>3
        <5> QED  BY <5>2, <4>1, <2>3 DEF NotOlder
      <4> QED  BY <4>2, <4>4, <4>5
    <3>2. CASE p \notin DOMAIN c
      <4>1. v[p] = h[p] /\ h[p] \in Nat
        BY <3>2, <2>1, <2>3, <1>2, <1>4, <1>5 DEF OldValue, NewValue
      <4> QED  BY <4>1, <2>3 DEF NotOlder
    <3> QED  BY <3>1, <3>2
  <2> QED  BY <2>2, <2>3
<1> QED  BY <1>8, <1>9

LEMMA ServerInit ==
  ASSUME Init
  PROVE  ServerInv
<1>1. server = Empty /\ arrived = {}
  BY DEF Init
<1>2. DOMAIN Empty = {} /\ IsMap(Empty)
  BY DEF Empty, IsMap
<1>3. \A k : Under({}, k) = {} /\ RowsOf({}) = {}
  BY DEF Under, RowsOf
<1>4. \A k : Reached(rows, Empty, k, {})
  BY <1>2 DEF Reached
<1> QED  BY <1>1, <1>2, <1>3, <1>4 DEF ServerInv

(* Where no row is overtaken, the one that arrives is the latest.          *)
LEMMA ArrivesLatest ==
  ASSUME FlushInv, HandInv, NEW m \in Handed, Arrive(m), m.key \notin overtaken',
         NEW y \in arrived, y.key = m.key
  PROVE  y = m \/ Before(y, m)
<1> SUFFICES ASSUME y # m, ~Before(y, m) PROVE FALSE
  OBVIOUS
<1>1. y \in Handed /\ MergedRow(rows, m) /\ MergedRow(rows, y)
  BY DEF HandInv
<1>2. Before(m, y)
  BY <1>1 DEF HandInv
<1>3. CASE Late(m)
  <2>1. PICK E : E = m.from
    OBVIOUS
  <2>2. PICK F : F = y.from
    OBVIOUS
  <2>3. DOMAIN rows \in SUBSET Nat
    <3>1. PICK n \in Nat : DOMAIN rows = 1..n
      BY HandledAre
    <3> QED  BY <3>1
  <2>4. E \in SUBSET Nat /\ E # {} /\ F \in SUBSET Nat /\ F # {} /\ \A i \in E, j \in F : i < j
    BY <1>1, <1>2, <2>1, <2>2, <2>3 DEF MergedRow, Before
  <2>5. Min(E) \in E /\ Min(F) \in F
    BY <2>4, LeastElement
  <2>6. Overtakes(y, m)
    BY <2>1, <2>2, <2>4, <2>5 DEF Overtakes
  <2>7. y.key \in overtaken'
    BY <2>6, <1>3 DEF Arrive
  <2> QED  BY <2>7
<1>4. CASE ~Late(m)
  <2>1. In(sends, m)
    BY <1>4 DEF Late, In
  <2> QED  BY <2>1, <1>1 DEF HandInv
<1> QED  BY <1>3, <1>4

Fresh(t, sv, over) ==
  \A k \in DOMAIN sv \cap DOMAIN t : k \notin over =>
    \A p \in DOMAIN sv[k] \cap DOMAIN t[k] : NotOlder(p, t[k][p], sv[k][p])

LEMMA NotOlderThanItself ==
  ASSUME NEW O \in SUBSET Nat, NEW E \in SUBSET Nat, NEW p, NEW v,
         \/ OldValue(O, p, v)
         \/ \E c : /\ IF United(p) THEN c \subseteq E /\ c # {} ELSE c \in E
                   /\ IF United(p) THEN c \subseteq v /\ v \subseteq O \cup c ELSE v = c
  PROVE  NotOlder(p, v, v)
<1>1. CASE United(p)
  <2>1. v # {} /\ v \in SUBSET Nat
    BY <1>1 DEF OldValue
  <2>2. \A i \in v : Min(v) \in Nat /\ Min(v) <= i /\ i \in Nat
    BY <2>1, LeastElement
  <2>3. \A i \in v : i >= Min(v)
    BY <2>2
  <2> QED  BY <2>3, <1>1 DEF NotOlder
<1>2. CASE ~United(p)
  <2>1. v \in Nat
    BY <1>2 DEF OldValue
  <2> QED  BY <2>1, <1>2 DEF NotOlder
<1> QED  BY <1>1, <1>2

LEMMA KnownIsFresh ==
  ASSUME FlushInv, HandInv, ServerInv, NEW k \in DOMAIN server, k \notin overtaken,
         NEW p \in DOMAIN server[k]
  PROVE  NotOlder(p, server[k][p], server[k][p])
<1>1. PICK n \in Nat : DOMAIN rows = 1..n
  BY HandledAre
<1>2. PICK S : S = Under(arrived, k)
  OBVIOUS
<1>3. PICK x \in S : Latest(S, x) /\ KnownAs(x, S, server[k])
  BY <1>2 DEF ServerInv, Known
<1>4. \A y \in S : y.from \in SUBSET (1..n) /\ MergedRow(rows, y)
  BY <1>1, <1>2 DEF HandInv, Under, MergedRow
<1>5. PICK O : O = RowsOf(S \ {x})
  OBVIOUS
<1>6. PICK E : E = x.from
  OBVIOUS
<1>7. O \in SUBSET Nat /\ E \in SUBSET Nat
  <2>1. O \in SUBSET (1..n) /\ E \in SUBSET (1..n)
    BY <1>4, <1>5, <1>6 DEF RowsOf
  <2> QED  BY <2>1
<1>8. PICK v : v = server[k][p]
  OBVIOUS
<1>9. OldValue(O, p, v) \/ NewValue(x, O, p, v)
  BY <1>3, <1>5, <1>8 DEF KnownAs
<1>10. CASE NewValue(x, O, p, v)
  <2>1. PICK c : c = x.content[p]
    OBVIOUS
  <2>2. IF United(p) THEN c \subseteq v /\ v \subseteq O \cup c ELSE v = c
    BY <1>10, <2>1 DEF NewValue
  <2>3. IF United(p) THEN c \subseteq E /\ c # {} ELSE c \in E
    BY <1>4, <1>6, <1>10, <2>1 DEF NewValue, MergedRow
  <2>4. NotOlder(p, v, v)
    BY <2>2, <2>3, <1>7, NotOlderThanItself
  <2> QED  BY <2>4, <1>8
<1>11. CASE OldValue(O, p, v)
  <2>1. NotOlder(p, v, v)
    BY <1>7, <1>11, NotOlderThanItself
  <2> QED  BY <2>1, <1>8
<1> QED  BY <1>9, <1>10, <1>11

(* What was known before row m arrived is known with m as the latest.      *)
LEMMA KnownWithLater ==
  ASSUME NEW n \in Nat, DOMAIN rows = 1..n,
         NEW S, NEW c, Known(S, c), NEW m, \A y \in S : MergedRow(rows, y),
         \A y \in S : y = m \/ Before(y, m), NEW O, O = RowsOf(S \ {m}), NEW p \in DOMAIN c
  PROVE  OldValue(O, p, c[p]) \/ NewValue(m, O, p, c[p])
<1>1. PICK x \in S : Latest(S, x) /\ KnownAs(x, S, c)
  BY DEF Known
<1>2. PICK Q : Q = RowsOf(S \ {x})
  OBVIOUS
<1>3. OldValue(Q, p, c[p]) \/ NewValue(x, Q, p, c[p])
  BY <1>1, <1>2 DEF KnownAs
<1>4. CASE x = m
  BY <1>2, <1>3, <1>4
<1>5. CASE x # m
  <2>1. Before(x, m)
    BY <1>5
  <2>2. m \notin S
    <3>1. ASSUME m \in S PROVE FALSE
      <4>1. Before(m, x)
        BY <3>1, <1>1, <1>5 DEF Latest
      <4>2. MergedRow(rows, m) /\ MergedRow(rows, x)
        BY <3>1
      <4>3. PICK E : E = x.from
        OBVIOUS
      <4>4. PICK F : F = m.from
        OBVIOUS
      <4>5. E # {} /\ F # {} /\ \A i \in E, j \in F : i < j /\ j < i
        BY <2>1, <4>1, <4>2, <4>3, <4>4 DEF Before, MergedRow
      <4>6. E \in SUBSET DOMAIN rows /\ F \in SUBSET DOMAIN rows
        BY <4>2, <4>3, <4>4 DEF MergedRow
      <4>7. PICK i \in E, j \in F : i < j /\ j < i
        BY <4>5
      <4>8. i \in 1..n /\ j \in 1..n
        BY <4>6, <4>7
      <4> QED  BY <4>7, <4>8
    <3> QED  BY <3>1
  <2>3. Q \subseteq O /\ x.from \subseteq O
    BY <1>2, <1>5, <2>2 DEF RowsOf
  <2>4. CASE OldValue(Q, p, c[p])
    BY <2>3, <2>4 DEF OldValue
  <2>5. CASE NewValue(x, Q, p, c[p])
    <3>1. /\ p \in DOMAIN x.content
          /\ IF United(p) THEN x.content[p] \subseteq c[p] /\ c[p] \subseteq Q \cup x.content[p]
             ELSE c[p] = x.content[p]
      BY <2>5 DEF NewValue
    <3>2. IF United(p) THEN x.content[p] \subseteq x.from /\ x.content[p] # {} ELSE x.content[p] \in x.from
      BY <3>1 DEF MergedRow
    <3> QED  BY <3>1, <3>2, <2>3 DEF OldValue
  <2> QED  BY <2>4, <2>5, <1>3
<1> QED  BY <1>4, <1>5

LEMMA ArriveKeepsServer ==
  ASSUME FlushInv, HandInv, ServerInv, NEW m \in Handed, Arrive(m)
  PROVE  ServerInv' /\ Fresh(server', server, overtaken')
<1>1. /\ server' = Apply(server, m) /\ arrived' = arrived \cup {m} /\ rows' = rows
      /\ overtaken \subseteq overtaken'
  BY DEF Arrive
<1>2. PICK t : t = server'
  OBVIOUS
<1>3. PICK k : k = m.key
  OBVIOUS
<1>4. /\ IsMap(t) /\ DOMAIN t = DOMAIN server \cup {k} /\ t[k] = Received(server, m)
      /\ \A l \in DOMAIN server : l # k => t[l] = server[l]
  <2>1. IsMap(server)
    BY DEF ServerInv
  <2>2. PICK a : a = Apply(server, m)
    OBVIOUS
  <2>3. /\ IsMap(a) /\ DOMAIN a = DOMAIN server \cup {m.key} /\ a[m.key] = Received(server, m)
        /\ \A l \in DOMAIN server : l # m.key => a[l] = server[l]
    BY ONLY <2>1, <2>2, RowStored
  <2>4. a = t
    BY <1>1, <1>2, <2>2
  <2> QED  BY ONLY <1>3, <2>3, <2>4
<1>5. PICK S : S = Under(arrived, k)
  OBVIOUS
<1>6. Under(arrived', k) = S \cup {m} /\ \A l : l # k => Under(arrived', l) = Under(arrived, l)
  BY <1>1, <1>3, <1>5 DEF Under
<1>7. PICK n \in Nat : DOMAIN rows = 1..n
  BY HandledAre
<1>8. MergedRow(rows, m) /\ \A y \in S : MergedRow(rows, y) /\ y \in arrived /\ y.key = k
  BY <1>5 DEF HandInv, Under
<1>9. PICK O : O = RowsOf(S \ {m})
  OBVIOUS
<1>10. RowsOf(S \cup {m}) = O \cup m.from /\ (RowsOf(S) = O \/ RowsOf(S) = O \cup m.from)
  <2>1. RowsOf(S \cup {m}) = O \cup m.from
    BY <1>9 DEF RowsOf
  <2>2. CASE m \in S
    <3>1. S \cup {m} = S
      BY <2>2
    <3> QED  BY <2>1, <3>1
  <2>3. CASE m \notin S
    <3>1. S \ {m} = S
      BY <2>3
    <3> QED  BY <2>1, <3>1, <1>9
  <2> QED  BY <2>1, <2>2, <2>3
<1>11. O \in SUBSET (1..n)
  BY <1>7, <1>8, <1>9 DEF RowsOf, MergedRow
<1>12. ASSUME k \notin overtaken'
       PROVE  /\ \A y \in S : y = m \/ Before(y, m)
              /\ \A i \in O, j \in m.from : i < j
  <2>1. \A y \in S : y = m \/ Before(y, m)
    BY <1>3, <1>8, <1>12, ArrivesLatest
  <2> QED  BY <2>1, <1>9 DEF RowsOf, Before
<1>13. ASSUME k \notin overtaken'
       PROVE  /\ Known(S \cup {m}, t[k])
              /\ k \in DOMAIN server => \A p \in DOMAIN server[k] \cap DOMAIN t[k] :
                                          NotOlder(p, t[k][p], server[k][p])
  <2>1. PICK h : h = Held(server, k)
    OBVIOUS
  <2>2. PICK v : v = t[k]
    OBVIOUS
  <2>3. v = IF m.merge THEN MergeRowInto(h, m.content) ELSE m.content
    BY <2>1, <2>2, <1>3, <1>4 DEF Received
  <2>4. ASSUME NEW p \in DOMAIN h PROVE OldValue(O, p, h[p]) \/ NewValue(m, O, p, h[p])
    <3>1. k \in DOMAIN server /\ h = server[k]
      <4>1. CASE k \notin DOMAIN server
        <5>1. DOMAIN h = {}
          BY <4>1, <2>1 DEF Held, Empty
        <5> QED  BY <5>1
      <4> QED  BY <4>1, <2>1 DEF Held
    <3>2. Known(S, h)
      BY <3>1, <1>1, <1>5, <1>13 DEF ServerInv
    <3> QED  BY <3>2, <1>7, <1>8, <1>9, <1>12, <1>13, KnownWithLater
  <2>5. /\ \A p \in DOMAIN v : OldValue(O, p, v[p]) \/ NewValue(m, O, p, v[p])
        /\ \A p \in DOMAIN h \cap DOMAIN v : NotOlder(p, v[p], h[p])
    <3>1. \A p \in DOMAIN h : OldValue(O, p, h[p]) \/ NewValue(m, O, p, h[p])
      BY <2>4
    <3>2. \A i \in O, j \in m.from : i < j
      BY <1>12, <1>13
    <3> QED  BY <3>1, <3>2, <2>3, <1>7, <1>8, <1>11, KnownOnArrival
  <2>6. k \in DOMAIN server => h = server[k]
    BY <2>1 DEF Held
  <2>7. Known(S \cup {m}, v)
    <3>1. Latest(S \cup {m}, m)
      BY <1>12, <1>13 DEF Latest
    <3>2. RowsOf((S \cup {m}) \ {m}) = O
      <4>1. (S \cup {m}) \ {m} = S \ {m}
        OBVIOUS
      <4> QED  BY <4>1, <1>9
    <3>3. KnownAs(m, S \cup {m}, v)
      BY <3>2, <2>5 DEF KnownAs
    <3> QED  BY <3>1, <3>3 DEF Known
  <2> QED  BY <2>2, <2>5, <2>6, <2>7
<1>14. ASSUME k \notin overtaken' PROVE Reached(rows, t, k, O \cup m.from)
  <2>1. PICK F : F = RowsOf(S)
    OBVIOUS
  <2>2. Reached(rows, server, m.key, F)
    BY <2>1, <1>1, <1>3, <1>5, <1>14 DEF ServerInv
  <2>3. \A i \in O, j \in m.from : i < j
    BY <1>12, <1>14
  <2>4. F = O \/ F = O \cup m.from
    BY <2>1, <1>10
  <2>5. m.key \in DOMAIN t /\ t[m.key] = Received(server, m)
    BY <1>3, <1>4
  <2>6. Reached(rows, t, m.key, O \cup m.from)
    BY <2>2, <2>3, <2>4, <2>5, <1>7, <1>8, <1>11, ReachedOnArrival
  <2> QED  BY <2>6, <1>3
<1>15. ASSUME NEW l, l # k, l \notin overtaken'
       PROVE  Reached(rows, t, l, RowsOf(Under(arrived, l)))
  <2>1. PICK F : F = RowsOf(Under(arrived, l))
    OBVIOUS
  <2>2. Reached(rows, server, l, F)
    BY <2>1, <1>1, <1>15 DEF ServerInv
  <2>3. (l \in DOMAIN t <=> l \in DOMAIN server) /\ (l \in DOMAIN server => t[l] = server[l])
    BY <1>4, <1>15
  <2>4. l \in DOMAIN server <=> F # {}
    BY <2>2 DEF Reached
  <2>5. ASSUME NEW i \in F, \A j \in F : j <= i PROVE WrittenBy(t[l], rows[i].paths, i)
    BY <2>2, <2>3, <2>4, <2>5 DEF Reached
  <2>6. Stable(rows) /\ F # {} => t[l] = Expected(rows, F)
    BY <2>2, <2>3, <2>4 DEF Reached
  <2>7. Reached(rows, t, l, F)
    BY <2>3, <2>4, <2>5, <2>6 DEF Reached
  <2> QED  BY <2>1, <2>7
<1>16. ASSUME NEW l \in DOMAIN t, l \notin overtaken' PROVE Known(Under(arrived', l), t[l])
  <2>1. CASE l = k
    BY <2>1, <1>6, <1>13, <1>16
  <2>2. CASE l # k
    <3>1. l \in DOMAIN server /\ t[l] = server[l] /\ l \notin overtaken
      BY <2>2, <1>1, <1>4, <1>16
    <3>2. Known(Under(arrived, l), server[l])
      BY <3>1 DEF ServerInv
    <3> QED  BY <3>1, <3>2, <2>2, <1>6
  <2> QED  BY <2>1, <2>2
<1>17. ASSUME NEW l, l \notin overtaken' PROVE Reached(rows, t, l, RowsOf(Under(arrived', l)))
  <2>1. CASE l = k
    BY <2>1, <1>6, <1>10, <1>14, <1>17
  <2>2. CASE l # k
    BY <2>2, <1>6, <1>15, <1>17
  <2> QED  BY <2>1, <2>2
<1>18. ASSUME NEW l PROVE l \in DOMAIN t <=> Under(arrived', l) # {}
  <2>1. CASE l = k
    BY <2>1, <1>4, <1>6
  <2>2. CASE l # k
    BY <2>2, <1>4, <1>6 DEF ServerInv
  <2> QED  BY <2>1, <2>2
<1>19. ServerInv'
  <2>1. \A l : l \in DOMAIN server' <=> Under(arrived', l) # {}
    BY <1>2, <1>18
  <2>2. \A l \in DOMAIN server' : l \notin overtaken' => Known(Under(arrived', l), server'[l])
    BY <1>2, <1>16
  <2>3. \A l : l \notin overtaken' => Reached(rows', server', l, RowsOf(Under(arrived', l)))
    BY <1>1, <1>2, <1>17
  <2>4. IsMap(server')
    BY <1>2, <1>4
  <2> QED  BY <2>1, <2>2, <2>3, <2>4, Zenon DEF ServerInv
<1>20. ASSUME NEW l \in DOMAIN server \cap DOMAIN t, l \notin overtaken',
              NEW p \in DOMAIN server[l] \cap DOMAIN t[l]
       PROVE  NotOlder(p, t[l][p], server[l][p])
  <2>1. CASE l = k
    BY <2>1, <1>13, <1>20
  <2>2. CASE l # k
    <3>1. t[l] = server[l] /\ l \notin overtaken
      BY <2>2, <1>1, <1>4, <1>20
    <3> QED  BY <3>1, <1>20, KnownIsFresh
  <2> QED  BY <2>1, <2>2
<1>21. Fresh(server', server, overtaken')
  BY <1>2, <1>20 DEF Fresh
<1> QED  BY <1>19, <1>21

-----------------------------------------------------------------------------
(* The theorems about the server.                                          *)

LEMMA OthersKeepServer ==
  ASSUME [Next]_vars, ~ \E m \in Handed : Arrive(m)
  PROVE  UNCHANGED <<rows, server, arrived, overtaken>>
BY DEF Next, vars, delivery, BadUrl, Prepare, Prepared, StartChunk, ChunkFails, EndChunk, Answer

LEMMA ServerStep ==
  ASSUME FlushInv, HandInv, ServerInv, [Next]_vars
  PROVE  ServerInv' /\ Fresh(server', server, overtaken')
<1>1. CASE \E m \in Handed : Arrive(m)
  BY <1>1, ArriveKeepsServer
<1>2. CASE ~ \E m \in Handed : Arrive(m)
  <2>1. UNCHANGED <<rows, server, arrived, overtaken>>
    BY <1>2, OthersKeepServer
  <2>2. Fresh(server, server, overtaken)
    BY KnownIsFresh DEF Fresh
  <2> QED  BY <2>1, <2>2 DEF ServerInv
<1> QED  BY <1>1, <1>2

(* Where no row was overtaken, the server holds what the rows that have    *)
(* arrived leave.                                                          *)
THEOREM ServerInvariant ==
  ASSUME KeysApart
  PROVE  Spec => []ServerInv
<1>1. Init => ServerInv
  BY ServerInit
<1>2. FlushInv /\ HandInv /\ ServerInv /\ [Next]_vars => ServerInv'
  BY ServerStep
<1> QED  BY <1>1, <1>2, FlushInvariant, HandInvariant, PTL DEF Spec

(* However often and late rows arrive, and whichever sends fail, a field   *)
(* never goes back to the value of an earlier row, unless a row arrives    *)
(* that its sender had given up, or sent again, after a later row did.     *)
THEOREM FieldsStayFresh ==
  ASSUME KeysApart
  PROVE  Spec => NeverStale
<1>1. FlushInv /\ HandInv /\ ServerInv /\ [Next]_vars =>
        [\A k \in DOMAIN server \cap DOMAIN server' :
           k \notin overtaken' =>
             \A p \in DOMAIN server[k] \cap DOMAIN server'[k] :
               NotOlder(p, server'[k][p], server[k][p])]_vars
  BY ServerStep DEF Fresh
<1> QED  BY <1>1, FlushInvariant, HandInvariant, ServerInvariant, PTL DEF Spec, NeverStale

(* At the end every row has arrived, if none failed. *)
LEMMA AllArrived ==
  ASSUME FlushInv, HandInv, result # "none", failed = {}, NEW k
  PROVE  RowsOf(Under(arrived, k)) = KeyRows(rows, DOMAIN rows, k)
<1>1. sends = <<>> /\ \A i \in DOMAIN rows : i \in Done
  BY DEF FlushInv, Phases, Over, Done
<1>2. \A x \in Handed : x \in arrived /\ x.from \subseteq KeyRows(rows, Done, x.key)
  BY <1>1, NothingSending DEF HandInv
<1>3. arrived \subseteq Handed /\ \A i \in Done : \E x \in Handed : i \in x.from
  BY DEF HandInv
<1>4. Done \subseteq DOMAIN rows
  BY DEF Done, Handled
<1>5. ASSUME NEW i \in RowsOf(Under(arrived, k)) PROVE i \in KeyRows(rows, DOMAIN rows, k)
  <2>1. PICK x \in arrived : x.key = k /\ i \in x.from
    BY DEF RowsOf, Under
  <2>2. i \in KeyRows(rows, Done, k)
    BY <2>1, <1>2, <1>3
  <2> QED  BY <2>2, <1>4 DEF KeyRows
<1>6. ASSUME NEW i \in KeyRows(rows, DOMAIN rows, k) PROVE i \in RowsOf(Under(arrived, k))
  <2>1. i \in Done /\ RowKey(rows[i]) = k
    BY <1>1 DEF KeyRows
  <2>2. PICK x \in Handed : i \in x.from
    BY <2>1, <1>3
  <2>3. x \in arrived /\ i \in KeyRows(rows, Done, x.key)
    BY <2>2, <1>2
  <2>4. x.key = k
    BY <2>1, <2>3 DEF KeyRows
  <2> QED  BY <2>2, <2>3, <2>4 DEF RowsOf, Under
<1> QED  BY <1>5, <1>6

LEMMA InvLastRowHeld ==
  ASSUME FlushInv, HandInv, ServerInv
  PROVE  LastRowHeld
<1> SUFFICES ASSUME result # "none", failed = {}, NEW i \in DOMAIN rows,
                    RowKey(rows[i]) \notin overtaken,
                    \A j \in DOMAIN rows : RowKey(rows[j]) = RowKey(rows[i]) => j <= i,
                    NEW p \in rows[i].paths
             PROVE  /\ p \in DOMAIN server[RowKey(rows[i])]
                    /\ IF United(p) THEN i \in server[RowKey(rows[i])][p]
                       ELSE server[RowKey(rows[i])][p] = i
  BY DEF LastRowHeld
<1>1. PICK k : k = RowKey(rows[i])
  OBVIOUS
<1>2. Reached(rows, server, k, KeyRows(rows, DOMAIN rows, k))
  <2>1. Reached(rows, server, k, RowsOf(Under(arrived, k)))
    BY <1>1 DEF ServerInv
  <2>2. RowsOf(Under(arrived, k)) = KeyRows(rows, DOMAIN rows, k)
    BY AllArrived
  <2> QED  BY <2>1, <2>2
<1>3. i \in KeyRows(rows, DOMAIN rows, k) /\ \A j \in KeyRows(rows, DOMAIN rows, k) : j <= i
  BY <1>1 DEF KeyRows
<1>4. WrittenBy(server[k], rows[i].paths, i)
  BY <1>2, <1>3 DEF Reached
<1> QED  BY <1>1, <1>4 DEF WrittenBy

(* After a flush without failure what the last row of a key wrote is held, *)
(* where no row of the key was overtaken.                                  *)
THEOREM LastRowsAreHeld ==
  ASSUME KeysApart
  PROVE  Spec => []LastRowHeld
<1>1. FlushInv /\ HandInv /\ ServerInv => LastRowHeld
  BY InvLastRowHeld
<1> QED  BY <1>1, FlushInvariant, HandInvariant, ServerInvariant, PTL

LEMMA InvSameAsOneByOne ==
  ASSUME FlushInv, HandInv, ServerInv
  PROVE  SameAsOneByOne
<1> SUFFICES ASSUME result # "none", failed = {}, StableShape, NEW i \in DOMAIN rows,
                    RowKey(rows[i]) \notin overtaken
             PROVE  Held(server, RowKey(rows[i])) = Held(OneByOne(Len(rows)), RowKey(rows[i]))
  BY DEF SameAsOneByOne
<1>1. Stable(rows)
  BY DEF Stable, StableShape
<1>2. PICK n : n = Len(rows)
  OBVIOUS
<1>3. n \in Nat /\ DOMAIN rows = 1..n /\ \A j \in 1..n : rows[j].merge \in BOOLEAN
  BY <1>2, RowsAre DEF FlushInv
<1>4. Expecting(rows, OneByOne(n), 1..n)
  BY <1>1, <1>3, SentOneByOne
<1>5. PICK k : k = RowKey(rows[i])
  OBVIOUS
<1>6. PICK F : F = KeyRows(rows, 1..n, k)
  OBVIOUS
<1>7. i \in F
  BY <1>3, <1>5, <1>6 DEF KeyRows
<1>8. Held(OneByOne(n), k) = Expected(rows, F)
  BY <1>4, <1>6, HeldExpected
<1>9. Reached(rows, server, k, F)
  <2>1. Reached(rows, server, k, RowsOf(Under(arrived, k)))
    BY <1>5 DEF ServerInv
  <2>2. RowsOf(Under(arrived, k)) = KeyRows(rows, DOMAIN rows, k)
    BY AllArrived
  <2> QED  BY <2>1, <2>2, <1>3, <1>6
<1>10. Held(server, k) = Expected(rows, F)
  BY <1>1, <1>7, <1>9 DEF Reached, Held
<1> QED  BY <1>2, <1>5, <1>8, <1>10

(* After a flush without failure the server holds, under every key of      *)
(* which no row was overtaken, what sending the rows one by one, in the    *)
(* order of submission, would have left.                                   *)
THEOREM FlushIsInvisible ==
  ASSUME KeysApart
  PROVE  Spec => []SameAsOneByOne
<1>1. FlushInv /\ HandInv /\ ServerInv => SameAsOneByOne
  BY InvSameAsOneByOne
<1> QED  BY <1>1, FlushInvariant, HandInvariant, ServerInvariant, PTL
=============================================================================
