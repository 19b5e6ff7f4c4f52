--------------------------- MODULE Uploader_proof ---------------------------
(***************************************************************************)
(* For any number of rows of any lengths, any limits and any number of     *)
(* attempts: batches fit their limits and keep the rows in order, a row    *)
(* is stored once unless an answer was lost, and a call implements         *)
(* Transfer.  The recursive functions of Uploader are shown to exist, and  *)
(* to have the values their recursion says, by induction over sets of      *)
(* numbers.                                                                *)
(***************************************************************************)
EXTENDS Uploader, SequenceTheorems, WellFoundedInduction, NaturalsInduction, TLAPS

-----------------------------------------------------------------------------
(* Recursive functions.                                                    *)

(* A set of numbers with 0 and every successor is all of them. *)
LEMMA SetInduction ==
  ASSUME NEW T \in SUBSET Nat, 0 \in T, \A n \in T : n + 1 \in T
  PROVE  T = Nat
<1>1. SUFFICES ASSUME Nat \ T # {} PROVE FALSE
  OBVIOUS
<1>2. IsWellFoundedOn(OpToRel(<, Nat), Nat)
  BY NatLessThanWellFounded
<1>3. PICK x \in Nat \ T : \A y \in Nat \ T : <<y, x>> \notin OpToRel(<, Nat)
  BY <1>1, <1>2, WFMin
<1>4. x # 0 /\ x - 1 \in Nat /\ x - 1 < x /\ (x - 1) + 1 = x
  OBVIOUS
<1>5. <<x - 1, x>> \in OpToRel(<, Nat)
  BY <1>4 DEF OpToRel
<1>6. x - 1 \in T
  BY <1>3, <1>4, <1>5
<1> QED  BY <1>3, <1>4, <1>6

(* Bytes is the last of the sums that its recursion defines. *)
Sums(rows, m, f) == f = [n \in 0..m |-> IF n = 0 THEN 0 ELSE f[n - 1] + size[rows[n]]]

LEMMA BytesIsSum ==
  ASSUME NEW rows, Len(rows) \in Nat
  PROVE  \E f : Sums(rows, Len(rows), f) /\ Bytes(rows) = f[Len(rows)]
<1> DEFINE T == {m \in Nat : \E f : Sums(rows, m, f)}
<1>1. 0 \in T
  <2>1. Sums(rows, 0, [n \in 0..0 |-> 0])
    BY DEF Sums
  <2> QED  BY <2>1
<1>2. ASSUME NEW m \in T PROVE m + 1 \in T
  <2>1. PICK f : Sums(rows, m, f)
    BY <1>2
  <2>2. m \in Nat
    BY <1>2
  <2> DEFINE g == [n \in 0..(m + 1) |-> IF n = m + 1 THEN f[m] + size[rows[m + 1]] ELSE f[n]]
  <2>3. ASSUME NEW n \in 0..(m + 1)
        PROVE  g[n] = IF n = 0 THEN 0 ELSE g[n - 1] + size[rows[n]]
    <3>1. CASE n = m + 1
      BY <3>1, <2>2
    <3>2. CASE n # m + 1
      <4>1. n \in 0..m
        BY <3>2, <2>2
      <4>2. f[n] = IF n = 0 THEN 0 ELSE f[n - 1] + size[rows[n]]
        BY <2>1, <4>1 DEF Sums
      <4>3. g[n] = f[n] /\ (n # 0 => g[n - 1] = f[n - 1])
        BY <4>1, <2>2, <3>2
      <4> QED  BY <4>2, <4>3
    <3> QED  BY <3>1, <3>2
  <2>4. Sums(rows, m + 1, g)
    BY <2>3 DEF Sums
  <2>5. \E h : Sums(rows, m + 1, h)
    <3> HIDE DEF g
    <3> QED  BY <2>4
  <2> QED  BY <2>5, <2>2
<1>3. T = Nat
  <2>1. T \in SUBSET Nat
    OBVIOUS
  <2> HIDE DEF T
  <2> QED  BY <2>1, <1>1, <1>2, SetInduction
<1>4. PICK f : Sums(rows, Len(rows), f)
  BY <1>3
<1> QED  BY <1>4 DEF Bytes, Sums

(* The bytes of a row more. *)
LEMMA BytesOfNone == Bytes(<<>>) = 0
<1>1. Len(<<>>) = 0 /\ Len(<<>>) \in Nat
  OBVIOUS
<1>2. PICK f : Sums(<<>>, 0, f) /\ Bytes(<<>>) = f[0]
  BY <1>1, BytesIsSum
<1> QED  BY <1>2 DEF Sums

LEMMA BytesOfAppend ==
  ASSUME NEW rows \in Seq(Nat), NEW r \in Nat
  PROVE  Bytes(Append(rows, r)) = Bytes(rows) + size[r]
<1>1. PICK k \in Nat : k = Len(rows)
  BY LenProperties
<1>2. PICK more : more = Append(rows, r)
  OBVIOUS
<1>3. /\ Len(more) = k + 1
      /\ more[k + 1] = r
      /\ \A i \in 1..k : more[i] = rows[i]
  BY <1>1, <1>2, AppendProperties
<1>4. PICK f : Sums(rows, k, f) /\ Bytes(rows) = f[k]
  BY <1>1, BytesIsSum
<1>5. PICK g : Sums(more, k + 1, g) /\ Bytes(more) = g[k + 1]
  BY <1>3, BytesIsSum
<1> DEFINE T == {n \in Nat : n <= k => f[n] = g[n]}
<1>6. 0 \in T
  <2>1. f[0] = 0
    BY <1>4 DEF Sums
  <2>2. g[0] = 0
    BY <1>5 DEF Sums
  <2> QED  BY <2>1, <2>2
<1>7. ASSUME NEW n \in T PROVE n + 1 \in T
  <2>1. n \in Nat
    BY <1>7
  <2>2. SUFFICES ASSUME n + 1 <= k PROVE f[n + 1] = g[n + 1]
    BY <2>1
  <2>3. f[n] = g[n]
    BY <1>7, <2>1, <2>2
  <2>4. n + 1 \in 0..k /\ n + 1 \in 0..(k + 1) /\ n + 1 \in 1..k /\ n + 1 # 0 /\ (n + 1) - 1 = n
    BY <2>1, <2>2
  <2>5. f[n + 1] = f[n] + size[rows[n + 1]]
    BY <1>4, <2>4 DEF Sums
  <2>6. g[n + 1] = g[n] + size[more[n + 1]]
    BY <1>5, <2>4 DEF Sums
  <2> QED  BY <2>3, <2>4, <2>5, <2>6, <1>3
<1>8. T = Nat
  <2>1. T \in SUBSET Nat
    OBVIOUS
  <2> HIDE DEF T
  <2> QED  BY <2>1, <1>6, <1>7, SetInduction
<1>9. f[k] = g[k]
  BY <1>8
<1>10. g[k + 1] = g[k] + size[more[k + 1]]
  <2>1. k + 1 \in 0..(k + 1) /\ k + 1 # 0 /\ (k + 1) - 1 = k
    OBVIOUS
  <2> QED  BY <1>5, <2>1 DEF Sums
<1> QED  BY <1>2, <1>3, <1>4, <1>5, <1>9, <1>10

(* BatchItems is the last of the results that its recursion defines. *)
Placings(rows, max_bytes, m, f) ==
  f = [n \in 0..m |-> IF n = 0 THEN <<>> ELSE Place(f[n - 1], rows[n], max_bytes)]

LEMMA BatchItemsIsPlacing ==
  ASSUME NEW rows, Len(rows) \in Nat, NEW max_bytes
  PROVE  \E f : /\ Placings(rows, max_bytes, Len(rows), f)
                /\ BatchItems(rows, max_bytes) = f[Len(rows)]
<1> DEFINE T == {m \in Nat : \E f : Placings(rows, max_bytes, m, f)}
<1>1. 0 \in T
  <2>1. Placings(rows, max_bytes, 0, [n \in 0..0 |-> <<>>])
    BY DEF Placings
  <2> QED  BY <2>1
<1>2. ASSUME NEW m \in T PROVE m + 1 \in T
  <2>1. PICK f : Placings(rows, max_bytes, m, f)
    BY <1>2
  <2>2. m \in Nat
    BY <1>2
  <2> DEFINE g == [n \in 0..(m + 1) |-> IF n = m + 1 THEN Place(f[m], rows[m + 1], max_bytes)
                                        ELSE f[n]]
  <2>3. ASSUME NEW n \in 0..(m + 1)
        PROVE  g[n] = IF n = 0 THEN <<>> ELSE Place(g[n - 1], rows[n], max_bytes)
    <3>1. CASE n = m + 1
      <4>1. g[n] = Place(f[m], rows[n], max_bytes) /\ g[n - 1] = f[m] /\ n # 0
        BY <3>1, <2>2
      <4> QED  BY <4>1
    <3>2. CASE n # m + 1
      <4>1. n \in 0..m
        BY <3>2, <2>2
      <4>2. f[n] = IF n = 0 THEN <<>> ELSE Place(f[n - 1], rows[n], max_bytes)
        BY <2>1, <4>1 DEF Placings
      <4>3. g[n] = f[n] /\ (n # 0 => g[n - 1] = f[n - 1])
        BY <4>1, <2>2, <3>2
      <4> HIDE DEF g
      <4> QED  BY <4>2, <4>3
    <3> QED  BY <3>1, <3>2
  <2>4. Placings(rows, max_bytes, m + 1, g)
    BY <2>3 DEF Placings
  <2>5. \E h : Placings(rows, max_bytes, m + 1, h)
    <3> HIDE DEF g
    <3> QED  BY <2>4
  <2> QED  BY <2>5, <2>2
<1>3. T = Nat
  <2>1. T \in SUBSET Nat
    OBVIOUS
  <2> HIDE DEF T
  <2> QED  BY <2>1, <1>1, <1>2, SetInduction
<1>4. PICK f : Placings(rows, max_bytes, Len(rows), f)
  BY <1>3
<1> QED  BY <1>4 DEF BatchItems, Placings

-----------------------------------------------------------------------------
(* Runs of rows, and sequences of runs.                                    *)

(* The rows after s up to e. *)
Run(s, e) == [i \in 1..(e - s) |-> s + i]

LEMMA RunIsSequence ==
  ASSUME NEW s \in Nat, NEW e \in Nat, s <= e
  PROVE  /\ Run(s, e) \in Seq(Nat)
         /\ Len(Run(s, e)) = e - s
         /\ \A i \in 1..(e - s) : Run(s, e)[i] = s + i
         /\ ToSet(Run(s, e)) = (s + 1)..e
<1>1. PICK k \in Nat : k = e - s
  OBVIOUS
<1>2. PICK q : q = Run(s, e)
  OBVIOUS
<1>3. q \in [1..k -> Nat] /\ \A i \in 1..k : q[i] = s + i
  BY <1>1, <1>2 DEF Run
<1>4. q \in Seq(Nat)
  BY <1>3, SeqDef
<1>5. Len(q) = k /\ DOMAIN q = 1..k
  BY <1>3, <1>4, LenProperties
<1>6. ToSet(q) = (s + 1)..e
  <2>1. ASSUME NEW r \in (s + 1)..e PROVE r \in ToSet(q)
    <3>1. r - s \in 1..k /\ q[r - s] = r
      BY <1>1, <1>3
    <3> QED  BY <3>1, <1>5 DEF ToSet
  <2>2. ASSUME NEW r \in ToSet(q) PROVE r \in (s + 1)..e
    <3>1. PICK i \in 1..k : r = q[i]
      BY <1>5 DEF ToSet
    <3> QED  BY <3>1, <1>1, <1>3
  <2> QED  BY <2>1, <2>2
<1> QED  BY <1>1, <1>2, <1>3, <1>4, <1>5, <1>6

LEMMA NoRun ==
  ASSUME NEW s \in Nat
  PROVE  Run(s, s) = <<>>
<1>1. Run(s, s) \in Seq(Nat) /\ Len(Run(s, s)) = 0
  BY RunIsSequence
<1> QED  BY <1>1, EmptySeq

LEMMA LongerRun ==
  ASSUME NEW s \in Nat, NEW e \in Nat, s <= e
  PROVE  Append(Run(s, e), e + 1) = Run(s, e + 1)
<1>1. PICK q : q = Run(s, e)
  OBVIOUS
<1>2. q \in Seq(Nat) /\ Len(q) = e - s /\ \A i \in 1..(e - s) : q[i] = s + i
  BY <1>1, RunIsSequence
<1>3. PICK more : more = Append(q, e + 1)
  OBVIOUS
<1>4. /\ more \in Seq(Nat)
      /\ Len(more) = (e - s) + 1
      /\ \A i \in 1..(e - s) : more[i] = q[i]
      /\ more[(e - s) + 1] = e + 1
  BY <1>2, <1>3, AppendProperties
<1>5. PICK run : run = Run(s, e + 1)
  OBVIOUS
<1>6. /\ run \in Seq(Nat)
      /\ Len(run) = (e + 1) - s
      /\ \A i \in 1..((e + 1) - s) : run[i] = s + i
  <2>1. e + 1 \in Nat /\ s <= e + 1
    OBVIOUS
  <2> QED  BY <1>5, <2>1, RunIsSequence
<1>7. ASSUME NEW i \in 1..Len(more) PROVE more[i] = run[i]
  <2>1. i \in 1..((e + 1) - s) /\ run[i] = s + i
    BY <1>4, <1>6
  <2>2. CASE i = (e - s) + 1
    BY <2>1, <2>2, <1>4
  <2>3. CASE i # (e - s) + 1
    <3>1. i \in 1..(e - s)
      BY <2>1, <2>3
    <3> QED  BY <3>1, <2>1, <1>2, <1>4
  <2> QED  BY <2>2, <2>3
<1>8. more = run
  BY <1>4, <1>6, <1>7, SeqEqual
<1> QED  BY <1>1, <1>3, <1>5, <1>8

LEMMA OneRow ==
  ASSUME NEW e \in Nat
  PROVE  <<e + 1>> = Run(e, e + 1)
<1>1. Append(Run(e, e), e + 1) = Run(e, e + 1)
  BY LongerRun
<1>2. Append(<<>>, e + 1) = <<e + 1>>
  OBVIOUS
<1> QED  BY <1>1, <1>2, NoRun

(* A part of a run is a run. *)
PartIsRun(s, e, i, j) == SubSeq(Run(s, e), i, j) = Run(s + i - 1, s + j)

LEMMA PartOfRun ==
  ASSUME NEW s \in Nat, NEW e \in Nat, NEW i \in Nat \ {0}, NEW j \in Nat,
         i <= j + 1, s + j <= e
  PROVE  PartIsRun(s, e, i, j)
<1> SUFFICES SubSeq(Run(s, e), i, j) = Run(s + i - 1, s + j)
  BY DEF PartIsRun
<1>1. PICK q : q = Run(s, e)
  OBVIOUS
<1>2. \A k \in 1..(e - s) : q[k] = s + k
  <2>1. s <= e
    OBVIOUS
  <2> QED  BY <1>1, <2>1, RunIsSequence
<1>3. \A k \in i..j : q[k] \in Nat
  BY <1>2
<1>4. PICK part : part = SubSeq(q, i, j)
  OBVIOUS
<1>5. /\ part \in Seq(Nat)
      /\ Len(part) = IF i <= j THEN j - i + 1 ELSE 0
      /\ \A k \in 1..(j - i + 1) : part[k] = q[i + k - 1]
  BY <1>3, <1>4, SubSeqProperties
<1>6. PICK run : run = Run(s + i - 1, s + j)
  OBVIOUS
<1>7. /\ run \in Seq(Nat)
      /\ Len(run) = (s + j) - (s + i - 1)
      /\ \A k \in 1..((s + j) - (s + i - 1)) : run[k] = (s + i - 1) + k
  <2>1. s + i - 1 \in Nat /\ s + j \in Nat /\ s + i - 1 <= s + j
    OBVIOUS
  <2> QED  BY <1>6, <2>1, RunIsSequence
<1>8. Len(part) = Len(run) /\ Len(part) = j - i + 1
  <2>1. CASE i <= j
    BY <2>1, <1>5, <1>7
  <2>2. CASE i = j + 1
    BY <2>2, <1>5, <1>7
  <2> QED  BY <2>1, <2>2
<1>9. ASSUME NEW k \in 1..Len(part) PROVE part[k] = run[k]
  <2>1. k \in 1..(j - i + 1)
    BY <1>8
  <2>2. i + k - 1 \in 1..(e - s) /\ k \in 1..((s + j) - (s + i - 1))
    BY <2>1
  <2>3. part[k] = q[i + k - 1] /\ run[k] = (s + i - 1) + k
    BY <2>1, <2>2, <1>5, <1>7
  <2>4. q[i + k - 1] = s + (i + k - 1)
    BY <2>2, <1>2
  <2>5. s + (i + k - 1) = (s + i - 1) + k
    BY <2>1
  <2> QED  BY <2>3, <2>4, <2>5
<1>10. part = run
  BY <1>5, <1>7, <1>8, <1>9, SeqEqual
<1> QED  BY <1>1, <1>4, <1>6, <1>10

-----------------------------------------------------------------------------
(* S holds the rows after s up to e in runs, p being where they end; in a  *)
(* stack the next run is the last one.                                     *)
Ends(S, p, s, e) ==
  /\ p \in [0..Len(S) -> Nat] /\ p[0] = s /\ p[Len(S)] = e
  /\ \A i \in 1..Len(S) : p[i - 1] < p[i] /\ S[i] = Run(p[i - 1], p[i])

Chain(S, s, e) == S \in Seq(Seq(Nat)) /\ \E p : Ends(S, p, s, e)

Starts(S, p, s, e) ==
  /\ p \in [0..Len(S) -> Nat] /\ p[0] = e /\ p[Len(S)] = s
  /\ \A i \in 1..Len(S) : p[i] < p[i - 1] /\ S[i] = Run(p[i], p[i - 1])

Stack(S, s, e) == S \in Seq(Seq(Nat)) /\ \E p : Starts(S, p, s, e)

LEMMA NoChain ==
  ASSUME NEW s, NEW e
  PROVE  Chain(<<>>, s, e) <=> s \in Nat /\ s = e
<1>1. <<>> \in Seq(Seq(Nat)) /\ Len(<<>>) = 0
  OBVIOUS
<1>2. ASSUME s \in Nat, s = e PROVE Chain(<<>>, s, e)
  <2>1. Ends(<<>>, [i \in 0..0 |-> s], s, e)
    BY <1>1, <1>2 DEF Ends
  <2>2. \E p : Ends(<<>>, p, s, e)
    BY <2>1
  <2> QED  BY <1>1, <2>2 DEF Chain
<1>3. ASSUME Chain(<<>>, s, e) PROVE s \in Nat /\ s = e
  <2>1. PICK p : Ends(<<>>, p, s, e)
    BY <1>3 DEF Chain
  <2> QED  BY <1>1, <2>1 DEF Ends
<1> QED  BY <1>2, <1>3

LEMMA NoStack ==
  ASSUME NEW s, NEW e
  PROVE  Stack(<<>>, s, e) <=> s \in Nat /\ s = e
<1>1. <<>> \in Seq(Seq(Nat)) /\ Len(<<>>) = 0
  OBVIOUS
<1>2. ASSUME s \in Nat, s = e PROVE Stack(<<>>, s, e)
  <2>1. Starts(<<>>, [i \in 0..0 |-> s], s, e)
    BY <1>1, <1>2 DEF Starts
  <2>2. \E p : Starts(<<>>, p, s, e)
    BY <2>1
  <2> QED  BY <1>1, <2>2 DEF Stack
<1>3. ASSUME Stack(<<>>, s, e) PROVE s \in Nat /\ s = e
  <2>1. PICK p : Starts(<<>>, p, s, e)
    BY <1>3 DEF Stack
  <2> QED  BY <1>1, <2>1 DEF Starts
<1> QED  BY <1>2, <1>3

(* A chain does not go back, and neither does a stack. *)
LEMMA Increasing ==
  ASSUME NEW k \in Nat, NEW p \in [0..k -> Nat], \A i \in 1..k : p[i - 1] < p[i]
  PROVE  \A i \in 0..k : p[0] <= p[i]
<1> DEFINE T == {i \in Nat : i <= k => p[0] <= p[i]}
<1>1. 0 \in T
  OBVIOUS
<1>2. ASSUME NEW i \in T PROVE i + 1 \in T
  <2>1. SUFFICES ASSUME i + 1 <= k PROVE p[0] <= p[i + 1]
    OBVIOUS
  <2>2. i \in Nat /\ i + 1 \in 1..k /\ (i + 1) - 1 = i /\ i \in 0..k /\ i + 1 \in 0..k
    BY <2>1
  <2>3. p[i] < p[i + 1]
    BY <2>2
  <2>4. p[0] <= p[i]
    BY <2>2
  <2>5. p[0] \in Nat /\ p[i] \in Nat /\ p[i + 1] \in Nat
    BY <2>2
  <2> QED  BY <2>3, <2>4, <2>5
<1>3. T = Nat
  <2>1. T \in SUBSET Nat
    OBVIOUS
  <2> HIDE DEF T
  <2> QED  BY <2>1, <1>1, <1>2, SetInduction
<1>4. ASSUME NEW i \in 0..k PROVE p[0] <= p[i]
  <2>1. i \in Nat /\ i <= k
    OBVIOUS
  <2>2. i \in T
    <3> HIDE DEF T
    <3> QED  BY <1>3, <2>1
  <2> QED  BY <2>1, <2>2
<1> QED  BY <1>4

LEMMA ChainBounds ==
  ASSUME NEW S, NEW s, NEW e, Chain(S, s, e)
  PROVE  s \in Nat /\ e \in Nat /\ s <= e
<1>1. PICK p : Ends(S, p, s, e)
  BY DEF Chain
<1>2. PICK k \in Nat : k = Len(S)
  BY LenProperties DEF Chain
<1>3. p \in [0..k -> Nat] /\ p[0] = s /\ p[k] = e /\ \A i \in 1..k : p[i - 1] < p[i]
  BY <1>1, <1>2 DEF Ends
<1>4. \A i \in 0..k : p[0] <= p[i]
  BY <1>3, Increasing
<1> QED  BY <1>3, <1>4

LEMMA StackBounds ==
  ASSUME NEW S, NEW s, NEW e, Stack(S, s, e)
  PROVE  s \in Nat /\ e \in Nat /\ s <= e
<1>1. PICK p : Starts(S, p, s, e)
  BY DEF Stack
<1>2. PICK k \in Nat : k = Len(S)
  BY LenProperties DEF Stack
<1>3. p \in [0..k -> Nat] /\ p[0] = e /\ p[k] = s /\ \A i \in 1..k : p[i] < p[i - 1]
  BY <1>1, <1>2 DEF Starts
<1>4. PICK q : q = [i \in 0..k |-> p[k - i]]
  OBVIOUS
<1>5. q \in [0..k -> Nat] /\ q[0] = s /\ q[k] = e
  BY <1>3, <1>4
<1>6. ASSUME NEW i \in 1..k PROVE q[i - 1] < q[i]
  <2>1. k - i + 1 \in 1..k /\ (k - i + 1) - 1 = k - i /\ i - 1 \in 0..k /\ k - (i - 1) = k - i + 1
    OBVIOUS
  <2>2. p[k - i + 1] < p[k - i]
    BY <1>3, <2>1
  <2> QED  BY <1>4, <2>1, <2>2
<1>7. \A i \in 0..k : q[0] <= q[i]
  BY <1>5, <1>6, Increasing
<1> QED  BY <1>5, <1>7

(* The first run of a chain, and the others. *)
LEMMA ChainTail ==
  ASSUME NEW S, NEW s, NEW e, Chain(S, s, e), S # <<>>
  PROVE  \E m \in Nat : s < m /\ Head(S) = Run(s, m) /\ Chain(Tail(S), m, e)
<1>1. PICK p : Ends(S, p, s, e)
  BY DEF Chain
<1>2. PICK k \in Nat \ {0} : k = Len(S)
  BY EmptySeq DEF Chain
<1>3. PICK t : t = Tail(S)
  OBVIOUS
<1>4. t \in Seq(Seq(Nat)) /\ Len(t) = k - 1 /\ \A i \in 1..(k - 1) : t[i] = S[i + 1]
  BY <1>2, <1>3, HeadTailProperties DEF Chain
<1>5. Head(S) = S[1]
  OBVIOUS
<1>6. PICK q : q = [i \in 0..(k - 1) |-> p[i + 1]]
  OBVIOUS
<1>7. /\ p \in [0..k -> Nat] /\ p[0] = s /\ p[k] = e
      /\ \A i \in 1..k : p[i - 1] < p[i] /\ S[i] = Run(p[i - 1], p[i])
  BY <1>1, <1>2 DEF Ends
<1>8. q \in [0..(k - 1) -> Nat] /\ q[0] = p[1] /\ q[k - 1] = e
  BY <1>6, <1>7
<1>9. ASSUME NEW i \in 1..(k - 1) PROVE q[i - 1] < q[i] /\ t[i] = Run(q[i - 1], q[i])
  <2>1. i + 1 \in 1..k /\ (i + 1) - 1 = i /\ (i - 1) + 1 = i /\ i - 1 \in 0..(k - 1)
    OBVIOUS
  <2>2. p[i] < p[i + 1] /\ S[i + 1] = Run(p[i], p[i + 1])
    BY <1>7, <2>1
  <2>3. q[i - 1] = p[i] /\ q[i] = p[i + 1]
    BY <1>6, <2>1
  <2> QED  BY <1>4, <2>2, <2>3
<1>10. Ends(t, q, p[1], e)
  BY <1>4, <1>8, <1>9 DEF Ends
<1>11. Chain(t, p[1], e)
  BY <1>4, <1>10 DEF Chain
<1>12. p[1] \in Nat /\ s < p[1] /\ S[1] = Run(s, p[1])
  <2>1. 1 \in 1..k /\ 1 - 1 = 0 /\ 1 \in 0..k
    OBVIOUS
  <2> QED  BY <1>7, <2>1
<1> QED  BY <1>3, <1>5, <1>11, <1>12

(* The next run of a stack, and the others. *)
LEMMA StackFront ==
  ASSUME NEW S, NEW s, NEW e, Stack(S, s, e), S # <<>>
  PROVE  \E m \in Nat : s < m /\ Last(S) = Run(s, m) /\ Stack(Front(S), m, e)
<1>1. PICK p : Starts(S, p, s, e)
  BY DEF Stack
<1>2. PICK k \in Nat \ {0} : k = Len(S)
  BY EmptySeq DEF Stack
<1>3. PICK t : t = Front(S)
  OBVIOUS
<1>4. t \in Seq(Seq(Nat)) /\ Len(t) = k - 1 /\ \A i \in 1..(k - 1) : t[i] = S[i]
  <2>1. \A i \in 1..(k - 1) : S[i] \in Seq(Nat)
    BY <1>2, ElementOfSeq DEF Stack
  <2>2. t = SubSeq(S, 1, k - 1)
    BY <1>2, <1>3 DEF Front
  <2>3. /\ t \in Seq(Seq(Nat))
        /\ Len(t) = IF 1 <= k - 1 THEN (k - 1) - 1 + 1 ELSE 0
        /\ \A i \in 1..((k - 1) - 1 + 1) : t[i] = S[1 + i - 1]
    BY <2>1, <2>2, SubSeqProperties
  <2> QED  BY <2>3
<1>5. Last(S) = S[k]
  BY <1>2 DEF Last
<1>6. PICK q : q = [i \in 0..(k - 1) |-> p[i]]
  OBVIOUS
<1>7. /\ p \in [0..k -> Nat] /\ p[0] = e /\ p[k] = s
      /\ \A i \in 1..k : p[i] < p[i - 1] /\ S[i] = Run(p[i], p[i - 1])
  BY <1>1, <1>2 DEF Starts
<1>8. q \in [0..(k - 1) -> Nat] /\ q[0] = e /\ q[k - 1] = p[k - 1]
  BY <1>6, <1>7
<1>9. \A i \in 1..(k - 1) : q[i] < q[i - 1] /\ t[i] = Run(q[i], q[i - 1])
  BY <1>4, <1>6, <1>7
<1>10. Starts(t, q, p[k - 1], e)
  BY <1>4, <1>8, <1>9 DEF Starts
<1>11. Stack(t, p[k - 1], e)
  BY <1>4, <1>10 DEF Stack
<1>12. p[k - 1] \in Nat /\ s < p[k - 1] /\ S[k] = Run(s, p[k - 1])
  <2>1. k \in 1..k /\ k - 1 \in 0..k
    OBVIOUS
  <2>2. p[k] < p[k - 1] /\ S[k] = Run(p[k], p[k - 1])
    BY ONLY <1>7, <2>1
  <2>3. p[k - 1] \in Nat
    BY ONLY <1>7, <2>1
  <2> QED  BY <1>7, <2>2, <2>3
<1> QED  BY <1>3, <1>5, <1>11, <1>12

(* A run before the next one. *)
LEMMA StackPush ==
  ASSUME NEW S, NEW m, NEW e, Stack(S, m, e), NEW s \in Nat, s < m
  PROVE  Stack(Append(S, Run(s, m)), s, e)
<1>1. PICK p : Starts(S, p, m, e)
  BY DEF Stack
<1>2. PICK k \in Nat : k = Len(S)
  BY LenProperties DEF Stack
<1>3. PICK t : t = Append(S, Run(s, m))
  OBVIOUS
<1>4. m \in Nat
  BY StackBounds
<1>5. Run(s, m) \in Seq(Nat)
  BY <1>4, RunIsSequence
<1>6. /\ t \in Seq(Seq(Nat)) /\ Len(t) = k + 1
      /\ \A i \in 1..k : t[i] = S[i]
      /\ t[k + 1] = Run(s, m)
  <2>1. S \in Seq(Seq(Nat))
    BY DEF Stack
  <2> HIDE DEF Run
  <2> QED  BY <1>2, <1>3, <1>5, <2>1, AppendProperties
<1>7. PICK q : q = [i \in 0..(k + 1) |-> IF i = k + 1 THEN s ELSE p[i]]
  OBVIOUS
<1>8. /\ p \in [0..k -> Nat] /\ p[0] = e /\ p[k] = m
      /\ \A i \in 1..k : p[i] < p[i - 1] /\ S[i] = Run(p[i], p[i - 1])
  BY <1>1, <1>2 DEF Starts
<1>9. q \in [0..(k + 1) -> Nat] /\ q[0] = e /\ q[k + 1] = s
  BY <1>7, <1>8
<1>10. ASSUME NEW i \in 1..(k + 1) PROVE q[i] < q[i - 1] /\ t[i] = Run(q[i], q[i - 1])
  <2>1. CASE i = k + 1
    <3>1. q[i] = s /\ q[i - 1] = m
      BY <2>1, <1>7, <1>8
    <3> QED  BY <3>1, <2>1, <1>6
  <2>2. CASE i # k + 1
    <3>1. i \in 1..k /\ q[i] = p[i] /\ q[i - 1] = p[i - 1]
      BY <2>2, <1>7
    <3> QED  BY <3>1, <1>6, <1>8
  <2> QED  BY <2>1, <2>2
<1>11. Starts(t, q, s, e)
  BY <1>6, <1>9, <1>10 DEF Starts
<1> QED  BY <1>3, <1>6, <1>11 DEF Stack

-----------------------------------------------------------------------------
(* Batches.                                                                *)

Sizes == size \in Seq(Nat)

LEMMA RowsAreARun ==
  ASSUME Sizes
  PROVE  /\ Len(size) \in Nat /\ DOMAIN size = 1..Len(size)
         /\ \A r \in 1..Len(size) : size[r] \in Nat
         /\ Rows = Run(0, Len(size)) /\ Len(Rows) = Len(size)
         /\ \A r \in 1..Len(size) : Rows[r] = r
<1>1. PICK n \in Nat : n = Len(size)
  BY LenProperties DEF Sizes
<1>2. DOMAIN size = 1..n /\ \A r \in 1..n : size[r] \in Nat
  BY <1>1, LenProperties, ElementOfSeq DEF Sizes
<1>3. Rows = Run(0, n)
  BY <1>2 DEF Rows, Run
<1>4. Len(Run(0, n)) = n /\ \A r \in 1..n : Run(0, n)[r] = r
  <2>1. 0 \in Nat /\ 0 <= n /\ n - 0 = n /\ \A r \in 1..n : 0 + r = r
    OBVIOUS
  <2>2. Len(Run(0, n)) = n - 0 /\ \A r \in 1..(n - 0) : Run(0, n)[r] = 0 + r
    BY <2>1, RunIsSequence
  <2> QED  BY <2>1, <2>2
<1> QED  BY <1>1, <1>2, <1>3, <1>4

LEMMA BytesOfRun ==
  ASSUME Sizes, NEW s \in Nat, NEW e \in Nat, s <= e, e <= Len(size)
  PROVE  Bytes(Run(s, e)) \in Nat
<1>1. PICK n \in Nat : n = Len(size) /\ \A r \in 1..n : size[r] \in Nat
  BY RowsAreARun
<1> DEFINE T == {d \in Nat : s + d <= n => Bytes(Run(s, s + d)) \in Nat}
<1>2. 0 \in T
  <2>1. Bytes(Run(s, s)) = 0
    BY NoRun, BytesOfNone
  <2>2. s + 0 = s
    OBVIOUS
  <2> QED  BY <2>1, <2>2
<1>3. ASSUME NEW d \in T PROVE d + 1 \in T
  <2>1. d \in Nat
    OBVIOUS
  <2>2. SUFFICES ASSUME s + (d + 1) <= n PROVE Bytes(Run(s, s + (d + 1))) \in Nat
    BY <2>1
  <2>3. PICK k \in Nat : k = s + d
    BY <2>1
  <2>4. s <= k /\ k + 1 = s + (d + 1) /\ k + 1 \in 1..n /\ k <= n
    BY <2>1, <2>2, <2>3
  <2>5. Bytes(Run(s, k)) \in Nat
    BY <2>3, <2>4
  <2>6. Run(s, k) \in Seq(Nat)
    BY <2>4, RunIsSequence
  <2>7. Bytes(Append(Run(s, k), k + 1)) = Bytes(Run(s, k)) + size[k + 1]
    BY <2>6, BytesOfAppend
  <2>8. Append(Run(s, k), k + 1) = Run(s, k + 1)
    BY <2>4, LongerRun
  <2>9. size[k + 1] \in Nat
    BY <1>1, <2>4
  <2>10. Bytes(Run(s, k + 1)) \in Nat
    <3>1. Bytes(Run(s, k + 1)) = Bytes(Run(s, k)) + size[k + 1]
      BY <2>7, <2>8
    <3>2. \A x, y \in Nat : x + y \in Nat
      OBVIOUS
    <3> QED  BY <2>5, <2>9, <3>1, <3>2
  <2> QED  BY <2>4, <2>10
<1>4. T = Nat
  <2>1. T \in SUBSET Nat
    OBVIOUS
  <2> HIDE DEF T
  <2> QED  BY <2>1, <1>2, <1>3, SetInduction
<1>5. PICK d \in Nat : d = e - s
  OBVIOUS
<1>6. d \in T
  <2> HIDE DEF T
  <2> QED  BY <1>4
<1>7. s + d = e /\ e <= n
  BY <1>1, <1>5
<1> QED  BY <1>6, <1>7

(* What batch_items promises of the batches so far. *)
Fitting(out, max_bytes) ==
  /\ \A b \in 1..Len(out) :
       Len(out[b]) \in 1..MaxItems /\ (Len(out[b]) > 1 => Bytes(out[b]) < max_bytes)
  /\ \A b \in 2..Len(out) :
       \/ Len(out[b - 1]) = MaxItems
       \/ Bytes(out[b - 1]) + size[Head(out[b])] >= max_bytes

(* A row opens a batch. *)
LEMMA NewBatch ==
  ASSUME NEW out, NEW k, Chain(out, 0, k)
  PROVE  /\ Chain(Append(out, <<k + 1>>), 0, k + 1)
         /\ Append(out, <<k + 1>>) \in Seq(Seq(Nat))
         /\ Len(Append(out, <<k + 1>>)) = Len(out) + 1
         /\ Append(out, <<k + 1>>)[Len(out) + 1] = <<k + 1>>
         /\ \A b \in 1..Len(out) : Append(out, <<k + 1>>)[b] = out[b]
<1>1. PICK p : Ends(out, p, 0, k)
  BY DEF Chain
<1>2. out \in Seq(Seq(Nat))
  BY DEF Chain
<1>3. PICK m \in Nat : m = Len(out)
  BY <1>2, LenProperties
<1>4. k \in Nat
  BY ChainBounds
<1>5. PICK one : one = <<k + 1>>
  OBVIOUS
<1>6. one = Run(k, k + 1)
  BY <1>4, <1>5, OneRow
<1>7. one \in Seq(Nat)
  BY <1>4, <1>6, RunIsSequence
<1>8. PICK new : new = Append(out, one)
  OBVIOUS
<1>9. new \in Seq(Seq(Nat)) /\ Len(new) = m + 1 /\ new[m + 1] = one /\ \A b \in 1..m : new[b] = out[b]
  BY <1>2, <1>3, <1>7, <1>8, AppendProperties
<1>10. PICK q : q = [i \in 0..(m + 1) |-> IF i = m + 1 THEN k + 1 ELSE p[i]]
  OBVIOUS
<1>11. /\ p \in [0..m -> Nat] /\ p[0] = 0 /\ p[m] = k
       /\ \A i \in 1..m : p[i - 1] < p[i] /\ out[i] = Run(p[i - 1], p[i])
  BY <1>1, <1>3 DEF Ends
<1>12. q \in [0..(m + 1) -> Nat] /\ q[0] = 0 /\ q[m + 1] = k + 1
  BY <1>4, <1>10, <1>11
<1>13. ASSUME NEW i \in 1..(m + 1) PROVE q[i - 1] < q[i] /\ new[i] = Run(q[i - 1], q[i])
  <2>1. CASE i = m + 1
    <3>1. q[i] = k + 1 /\ q[i - 1] = k
      BY <2>1, <1>10, <1>11
    <3> QED  BY <3>1, <2>1, <1>4, <1>6, <1>9
  <2>2. CASE i # m + 1
    <3>1. i \in 1..m /\ q[i] = p[i] /\ q[i - 1] = p[i - 1]
      BY <2>2, <1>10
    <3> QED  BY <3>1, <1>9, <1>11
  <2> QED  BY <2>1, <2>2
<1>14. Ends(new, q, 0, k + 1)
  BY <1>9, <1>12, <1>13 DEF Ends
<1>15. Chain(new, 0, k + 1)
  BY <1>9, <1>14 DEF Chain
<1> QED  BY <1>3, <1>5, <1>8, <1>9, <1>15

(* A row joins the last batch. *)
Longer(out, r) == [out EXCEPT ![Len(out)] = Append(@, r)]

LEMMA LongerBatch ==
  ASSUME NEW out, NEW k, Chain(out, 0, k), out # <<>>
  PROVE  /\ Chain(Longer(out, k + 1), 0, k + 1)
         /\ Len(Longer(out, k + 1)) = Len(out) /\ Len(out) \in Nat \ {0}
         /\ Longer(out, k + 1)[Len(out)] = Append(out[Len(out)], k + 1)
         /\ \A b \in 1..(Len(out) - 1) : Longer(out, k + 1)[b] = out[b]
<1> DEFINE new == Longer(out, k + 1)
<1> HIDE DEF new
<1>1. PICK p : Ends(out, p, 0, k)
  BY DEF Chain
<1>2. out \in Seq(Seq(Nat))
  BY DEF Chain
<1>3. PICK m \in Nat \ {0} : m = Len(out)
  BY <1>2, EmptySeq
<1>4. k \in Nat
  BY ChainBounds
<1>5. out[m] \in Seq(Nat)
  BY <1>2, <1>3, ElementOfSeq
<1>6. PICK last : last = Append(out[m], k + 1)
  OBVIOUS
<1>7. last \in Seq(Nat)
  BY <1>4, <1>5, <1>6, AppendProperties
<1>8. new = [out EXCEPT ![m] = last]
  BY <1>3, <1>6 DEF Longer, new
<1>9. new \in Seq(Seq(Nat)) /\ Len(new) = m /\ \A b \in 1..m : new[b] = IF b = m THEN last ELSE out[b]
  <2>1. m \in 1..Len(out)
    BY <1>3
  <2>2. /\ [out EXCEPT ![m] = last] \in Seq(Seq(Nat))
        /\ Len([out EXCEPT ![m] = last]) = Len(out)
        /\ \A b \in 1..Len(out) : [out EXCEPT ![m] = last][b] = IF b = m THEN last ELSE out[b]
    BY <1>2, <1>7, <2>1, ExceptSeq
  <2> QED  BY <1>3, <1>8, <2>2
<1>10. PICK q : q = [p EXCEPT ![m] = k + 1]
  OBVIOUS
<1>11. /\ p \in [0..m -> Nat] /\ p[0] = 0 /\ p[m] = k
       /\ \A i \in 1..m : p[i - 1] < p[i] /\ out[i] = Run(p[i - 1], p[i])
  BY <1>1, <1>3 DEF Ends
<1>12. q \in [0..m -> Nat] /\ q[0] = 0 /\ q[m] = k + 1
  BY <1>4, <1>10, <1>11
<1>13. ASSUME NEW i \in 1..m PROVE q[i - 1] < q[i] /\ new[i] = Run(q[i - 1], q[i])
  <2>1. q[i - 1] = p[i - 1] /\ p[i - 1] \in Nat
    BY <1>10, <1>11
  <2>2. CASE i = m
    <3>1. p[m - 1] < k /\ out[m] = Run(p[m - 1], k)
      BY <1>11
    <3>2. Append(Run(p[m - 1], k), k + 1) = Run(p[m - 1], k + 1)
      <4>1. p[m - 1] \in Nat /\ p[m - 1] <= k
        BY <2>1, <2>2, <3>1, <1>4
      <4> QED  BY <4>1, <1>4, LongerRun
    <3>3. q[m] = k + 1 /\ new[m] = last /\ q[m - 1] = p[m - 1]
      BY <1>9, <1>12, <2>1, <2>2
    <3>4. k < k + 1 /\ p[m - 1] < k + 1
      BY <3>1, <2>1, <2>2, <1>4
    <3> QED  BY <3>1, <3>2, <3>3, <3>4, <2>2, <1>6
  <2>3. CASE i # m
    <3>1. q[i] = p[i]
      BY <2>3, <1>10, <1>11
    <3>2. new[i] = out[i]
      BY <2>3, <1>9
    <3>3. p[i - 1] < p[i] /\ out[i] = Run(p[i - 1], p[i])
      BY <1>11
    <3>4. q[i - 1] = p[i - 1]
      BY <2>1
    <3> HIDE DEF Run
    <3> QED  BY <3>1, <3>2, <3>3, <3>4
  <2> QED  BY <2>2, <2>3
<1>14. Ends(new, q, 0, k + 1)
  BY <1>9, <1>12, <1>13 DEF Ends
<1>15. Chain(new, 0, k + 1)
  BY <1>9, <1>14 DEF Chain
<1>16. Len(new) = Len(out) /\ new[Len(out)] = Append(out[Len(out)], k + 1)
  <2>1. m \in 1..m
    OBVIOUS
  <2>2. Len(new) = m /\ new[m] = last
    BY <1>9, <2>1
  <2> QED  BY <1>3, <1>6, <2>2
<1>17. \A b \in 1..(Len(out) - 1) : new[b] = out[b]
  <2>1. SUFFICES ASSUME NEW b \in 1..(m - 1) PROVE new[b] = out[b]
    BY <1>3
  <2>2. b \in 1..m /\ b # m
    OBVIOUS
  <2> QED  BY <1>9, <2>2
<1> QED  BY <1>3, <1>15, <1>16, <1>17 DEF new

(* A place for the next row. *)
LEMMA NextPlace ==
  ASSUME Sizes, NEW max_bytes \in Nat \ {0}, NEW out, NEW k,
         Chain(out, 0, k), k < Len(size), Fitting(out, max_bytes)
  PROVE  /\ Chain(Place(out, k + 1, max_bytes), 0, k + 1)
         /\ Fitting(Place(out, k + 1, max_bytes), max_bytes)
<1>1. PICK p : Ends(out, p, 0, k)
  BY DEF Chain
<1>2. out \in Seq(Seq(Nat)) /\ k \in Nat
  BY ChainBounds DEF Chain
<1>3. PICK m \in Nat : m = Len(out)
  BY <1>2, LenProperties
<1>4. PICK n \in Nat : n = Len(size) /\ \A r \in 1..n : size[r] \in Nat
  BY RowsAreARun
<1>5. k + 1 \in 1..n /\ size[k + 1] \in Nat /\ MaxItems \in Nat \ {0}
  BY <1>2, <1>4, UploaderAssumption
<1>6. \A b \in 1..m : out[b] \in Seq(Nat) /\ Len(out[b]) \in Nat \ {0} /\ Bytes(out[b]) \in Nat
  <2>1. SUFFICES ASSUME NEW b \in 1..m
                 PROVE  out[b] \in Seq(Nat) /\ Len(out[b]) \in Nat \ {0} /\ Bytes(out[b]) \in Nat
    OBVIOUS
  <2>2. p \in [0..m -> Nat] /\ p[b - 1] < p[b] /\ out[b] = Run(p[b - 1], p[b])
    BY <1>1, <1>3 DEF Ends
  <2>3. PICK s \in Nat, e \in Nat : s = p[b - 1] /\ e = p[b] /\ s < e
    BY <2>2
  <2>4. out[b] = Run(s, e) /\ s <= e /\ e - s \in Nat \ {0}
    BY <2>2, <2>3
  <2>5. e <= n
    <3>1. PICK q : q = [i \in 0..(m - b) |-> p[b + i]]
      OBVIOUS
    <3>2. /\ m - b \in Nat /\ q \in [0..(m - b) -> Nat] /\ q[0] = e /\ q[m - b] = k
      BY <3>1, <2>2, <2>3, <1>1, <1>3 DEF Ends
    <3>3. ASSUME NEW i \in 1..(m - b) PROVE q[i - 1] < q[i]
      <4>1. b + i \in 1..m /\ (b + i) - 1 = b + (i - 1) /\ i - 1 \in 0..(m - b)
        OBVIOUS
      <4>2. p[(b + i) - 1] < p[b + i]
        BY <4>1, <1>1, <1>3 DEF Ends
      <4> QED  BY <4>1, <4>2, <3>1
    <3>4. q[0] <= q[m - b]
      <4>1. \A i \in 0..(m - b) : q[0] <= q[i]
        BY <3>2, <3>3, Increasing
      <4> QED  BY <4>1, <3>2
    <3> QED  BY <3>2, <3>4, <1>2, <1>4
  <2>6. Run(s, e) \in Seq(Nat) /\ Len(Run(s, e)) = e - s
    BY <2>4, RunIsSequence
  <2>7. Bytes(Run(s, e)) \in Nat
    BY <2>4, <2>5, <1>4, BytesOfRun
  <2> QED  BY <2>4, <2>6, <2>7
<1>7. CASE ~(out # <<>> /\ Fits(Last(out), k + 1, max_bytes))
  <2>1. PICK new : new = Append(out, <<k + 1>>)
    OBVIOUS
  <2>2. Place(out, k + 1, max_bytes) = new
    BY <1>7, <2>1 DEF Place
  <2>3. /\ Chain(new, 0, k + 1) /\ Len(new) = m + 1 /\ new[m + 1] = <<k + 1>>
        /\ \A b \in 1..m : new[b] = out[b]
    BY <1>3, <2>1, NewBatch
  <2>4. Len(<<k + 1>>) = 1 /\ Head(<<k + 1>>) = k + 1
    BY <1>2
  <2>5. ASSUME NEW b \in 1..(m + 1)
        PROVE  Len(new[b]) \in 1..MaxItems /\ (Len(new[b]) > 1 => Bytes(new[b]) < max_bytes)
    <3>1. CASE b = m + 1
      BY <3>1, <2>3, <2>4, <1>5
    <3>2. CASE b # m + 1
      <4>1. b \in 1..m
        BY <3>2
      <4> QED  BY <4>1, <2>3, <1>3 DEF Fitting
    <3> QED  BY <3>1, <3>2
  <2>6. ASSUME NEW b \in 2..(m + 1)
        PROVE  \/ Len(new[b - 1]) = MaxItems
               \/ Bytes(new[b - 1]) + size[Head(new[b])] >= max_bytes
    <3>1. b - 1 \in 1..m /\ new[b - 1] = out[b - 1]
      BY <2>3
    <3>2. CASE b = m + 1
      <4>1. out # <<>> /\ Last(out) = out[m] /\ m \in 1..m /\ b - 1 = m
        BY <3>1, <3>2, <1>3 DEF Last
      <4>2. ~(Len(out[m]) < MaxItems /\ Bytes(out[m]) + size[k + 1] < max_bytes)
        BY <4>1, <1>7 DEF Fits
      <4>3. Len(out[m]) \in 1..MaxItems
        BY <4>1, <1>3 DEF Fitting
      <4>4. Len(out[m]) = MaxItems \/ ~(Bytes(out[m]) + size[k + 1] < max_bytes)
        BY <4>2, <4>3, <1>5
      <4>5. Bytes(out[m]) \in Nat
        BY <4>1, <1>6
      <4>6. \A x, y, z \in Nat : ~(x + y < z) => x + y >= z
        OBVIOUS
      <4>7. Len(out[m]) = MaxItems \/ Bytes(out[m]) + size[k + 1] >= max_bytes
        BY <4>4, <4>5, <4>6, <1>5
      <4>8. new[b] = <<k + 1>> /\ new[b - 1] = out[m]
        BY <3>1, <3>2, <4>1, <2>3
      <4> QED  BY <4>7, <4>8, <2>4
    <3>3. CASE b # m + 1
      <4>1. b \in 2..m /\ b \in 1..m
        BY <3>3
      <4>2. new[b] = out[b]
        BY <4>1, <2>3
      <4> QED  BY <4>1, <4>2, <3>1, <1>3 DEF Fitting
    <3> QED  BY <3>2, <3>3
  <2>7. Fitting(new, max_bytes)
    BY <2>3, <2>5, <2>6 DEF Fitting
  <2> QED  BY <2>2, <2>3, <2>7
<1>8. CASE out # <<>> /\ Fits(Last(out), k + 1, max_bytes)
  <2>1. PICK new : new = Longer(out, k + 1)
    OBVIOUS
  <2>2. Place(out, k + 1, max_bytes) = new
    BY <1>8, <2>1 DEF Place, Longer
  <2>3. /\ Chain(new, 0, k + 1) /\ Len(new) = m /\ m \in Nat \ {0}
        /\ new[m] = Append(out[m], k + 1)
        /\ \A b \in 1..(m - 1) : new[b] = out[b]
    BY <1>3, <1>8, <2>1, LongerBatch
  <2>4. PICK last : last = out[m]
    OBVIOUS
  <2>5. last \in Seq(Nat) /\ Len(last) \in Nat \ {0} /\ Bytes(last) \in Nat /\ last # <<>>
    <3>1. m \in 1..m
      BY <2>3
    <3>2. last \in Seq(Nat) /\ Len(last) \in Nat \ {0} /\ Bytes(last) \in Nat
      BY <3>1, <2>4, <1>6
    <3> QED  BY <3>2
  <2>6. Len(last) < MaxItems /\ Bytes(last) + size[k + 1] < max_bytes
    <3>1. Last(out) = last
      BY <2>4, <1>3 DEF Last
    <3> QED  BY <3>1, <1>8 DEF Fits
  <2>7. PICK longer : longer = Append(last, k + 1)
    OBVIOUS
  <2>8. Len(longer) = Len(last) + 1 /\ Bytes(longer) = Bytes(last) + size[k + 1]
    <3>1. k + 1 \in Nat
      BY <1>2
    <3>2. Len(Append(last, k + 1)) = Len(last) + 1
      BY <2>5, <3>1, AppendProperties
    <3>3. Bytes(Append(last, k + 1)) = Bytes(last) + size[k + 1]
      BY <2>5, <3>1, BytesOfAppend
    <3> QED  BY <2>7, <3>2, <3>3
  <2>9. Head(longer) = Head(last)
    <3>1. 1 \in 1..Len(last)
      BY <2>5
    <3>2. longer[1] = last[1]
      BY <3>1, <2>5, <2>7, <1>2, AppendProperties
    <3> QED  BY <3>2
  <2>10. ASSUME NEW b \in 1..m
         PROVE  Len(new[b]) \in 1..MaxItems /\ (Len(new[b]) > 1 => Bytes(new[b]) < max_bytes)
    <3>1. CASE b = m
      <4>1. new[b] = longer
        BY <3>1, <2>3, <2>4, <2>7
      <4>2. Len(longer) \in 1..MaxItems
        BY <2>5, <2>6, <2>8, <1>5
      <4>3. Bytes(longer) < max_bytes
        BY <2>6, <2>8
      <4> QED  BY <4>1, <4>2, <4>3
    <3>2. CASE b # m
      <4>1. b \in 1..(m - 1) /\ new[b] = out[b]
        BY <3>2, <2>3
      <4> QED  BY <4>1, <1>3 DEF Fitting
    <3> QED  BY <3>1, <3>2
  <2>11. ASSUME NEW b \in 2..m
         PROVE  \/ Len(new[b - 1]) = MaxItems
                \/ Bytes(new[b - 1]) + size[Head(new[b])] >= max_bytes
    <3>1. b - 1 \in 1..(m - 1) /\ new[b - 1] = out[b - 1]
      BY <2>3
    <3>2. Head(new[b]) = Head(out[b])
      <4>1. CASE b = m
        BY <4>1, <2>3, <2>4, <2>7, <2>9
      <4>2. CASE b # m
        <5>1. b \in 1..(m - 1)
          BY <4>2
        <5> QED  BY <5>1, <2>3
      <4> QED  BY <4>1, <4>2
    <3>3. \/ Len(out[b - 1]) = MaxItems
          \/ Bytes(out[b - 1]) + size[Head(out[b])] >= max_bytes
      BY <1>3 DEF Fitting
    <3> QED  BY <3>1, <3>2, <3>3
  <2>12. Fitting(new, max_bytes)
    BY <2>3, <2>10, <2>11 DEF Fitting
  <2> QED  BY <2>2, <2>3, <2>12
<1> QED  BY <1>7, <1>8

(* The rows of the call, batched. *)
LEMMA BatchesOfRows ==
  ASSUME Sizes, NEW max_bytes \in Nat \ {0}
  PROVE  /\ Chain(BatchItems(Rows, max_bytes), 0, Len(size))
         /\ Fitting(BatchItems(Rows, max_bytes), max_bytes)
<1>1. PICK n \in Nat : n = Len(size)
  BY RowsAreARun
<1>2. Len(Rows) = n /\ \A r \in 1..n : Rows[r] = r
  BY <1>1, RowsAreARun
<1>3. PICK f : Placings(Rows, max_bytes, n, f) /\ BatchItems(Rows, max_bytes) = f[n]
  <2>1. Len(Rows) \in Nat
    BY <1>2
  <2> QED  BY <1>2, <2>1, BatchItemsIsPlacing
<1> DEFINE T == {k \in Nat : k <= n => Chain(f[k], 0, k) /\ Fitting(f[k], max_bytes)}
<1>4. 0 \in T
  <2>1. f[0] = <<>>
    BY <1>3 DEF Placings
  <2>2. Chain(<<>>, 0, 0)
    BY NoChain
  <2>3. Fitting(<<>>, max_bytes)
    BY DEF Fitting
  <2> QED  BY <2>1, <2>2, <2>3
<1>5. ASSUME NEW k \in T PROVE k + 1 \in T
  <2>1. k \in Nat
    OBVIOUS
  <2>2. SUFFICES ASSUME k + 1 <= n
                 PROVE  Chain(f[k + 1], 0, k + 1) /\ Fitting(f[k + 1], max_bytes)
    BY <2>1
  <2>3. k + 1 \in 0..n /\ k + 1 # 0 /\ (k + 1) - 1 = k /\ k + 1 \in 1..n /\ k <= n
    BY <2>1, <2>2
  <2>4. f[k + 1] = Place(f[k], Rows[k + 1], max_bytes)
    BY <1>3, <2>3 DEF Placings
  <2>5. f[k + 1] = Place(f[k], k + 1, max_bytes)
    BY <2>4, <2>3, <1>2
  <2>6. Chain(f[k], 0, k) /\ Fitting(f[k], max_bytes)
    BY <2>3
  <2>7. k < Len(size)
    BY <2>1, <2>2, <1>1
  <2> QED  BY <2>5, <2>6, <2>7, NextPlace
<1>6. T = Nat
  <2>1. T \in SUBSET Nat
    OBVIOUS
  <2> HIDE DEF T
  <2> QED  BY <2>1, <1>4, <1>5, SetInduction
<1>7. Chain(f[n], 0, n) /\ Fitting(f[n], max_bytes)
  <2>1. n \in T
    <3> HIDE DEF T
    <3> QED  BY <1>6
  <2>2. n <= n
    OBVIOUS
  <2> QED  BY <2>1, <2>2
<1> QED  BY <1>1, <1>3, <1>7

-----------------------------------------------------------------------------
(* A chain laid end to end.                                                *)

LEMMA RunsJoin ==
  ASSUME NEW a \in Nat, NEW b \in Nat, NEW c \in Nat, a <= b, b <= c
  PROVE  Run(a, b) \o Run(b, c) = Run(a, c)
<1>1. PICK x : x = Run(a, b)
  OBVIOUS
<1>2. PICK y : y = Run(b, c)
  OBVIOUS
<1>3. PICK z : z = Run(a, c)
  OBVIOUS
<1>4. x \in Seq(Nat) /\ Len(x) = b - a /\ \A i \in 1..(b - a) : x[i] = a + i
  BY <1>1, RunIsSequence
<1>5. y \in Seq(Nat) /\ Len(y) = c - b /\ \A i \in 1..(c - b) : y[i] = b + i
  BY <1>2, RunIsSequence
<1>6. z \in Seq(Nat) /\ Len(z) = c - a /\ \A i \in 1..(c - a) : z[i] = a + i
  <2>1. a <= c
    OBVIOUS
  <2> QED  BY <1>3, <2>1, RunIsSequence
<1>7. PICK w : w = x \o y
  OBVIOUS
<1>8. /\ w \in Seq(Nat) /\ Len(w) = Len(x) + Len(y)
      /\ \A i \in 1..(Len(x) + Len(y)) : w[i] = IF i <= Len(x) THEN x[i] ELSE y[i - Len(x)]
  BY <1>4, <1>5, <1>7, ConcatProperties
<1>9. Len(w) = Len(z) /\ Len(w) = c - a
  BY <1>4, <1>5, <1>6, <1>8
<1>10. ASSUME NEW i \in 1..Len(w) PROVE w[i] = z[i]
  <2>1. i \in 1..(c - a) /\ z[i] = a + i
    BY <1>6, <1>9
  <2>2. CASE i <= b - a
    <3>1. i \in 1..(b - a)
      BY <2>1, <2>2
    <3>2. w[i] = x[i]
      BY <3>1, <1>4, <1>5, <1>8, <2>1
    <3> QED  BY <3>1, <3>2, <1>4, <2>1
  <2>3. CASE ~(i <= b - a)
    <3>1. i - (b - a) \in 1..(c - b) /\ b + (i - (b - a)) = a + i
      BY <2>1, <2>3
    <3>2. w[i] = y[i - (b - a)]
      BY <3>1, <1>4, <1>5, <1>8, <2>1, <2>3
    <3> QED  BY <3>1, <3>2, <1>5, <2>1
  <2> QED  BY <2>2, <2>3
<1>11. w = z
  BY <1>6, <1>8, <1>9, <1>10, SeqEqual
<1> QED  BY <1>1, <1>2, <1>3, <1>7, <1>11

(* FlattenSeq is the last of the joins that its recursion defines. *)
Joins(S, f) == f = [i \in 1..Len(S) |-> IF i = 1 THEN S[i] ELSE f[i - 1] \o S[i]]

LEMMA ChainFlattens ==
  ASSUME NEW S, NEW e, Chain(S, 0, e), e # 0
  PROVE  FlattenSeq(S) = Run(0, e)
<1>1. PICK p : Ends(S, p, 0, e)
  BY DEF Chain
<1>2. PICK k \in Nat : k = Len(S)
  BY LenProperties DEF Chain
<1>3. /\ p \in [0..k -> Nat] /\ p[0] = 0 /\ p[k] = e
      /\ \A i \in 1..k : p[i - 1] < p[i] /\ S[i] = Run(p[i - 1], p[i])
  BY <1>1, <1>2 DEF Ends
<1>4. k # 0
  BY <1>3
<1> DEFINE g == [i \in 1..k |-> Run(0, p[i])]
<1>5. ASSUME NEW i \in 1..k PROVE g[i] = IF i = 1 THEN S[i] ELSE g[i - 1] \o S[i]
  <2>1. CASE i = 1
    BY <2>1, <1>3
  <2>2. CASE i # 1
    <3>1. i - 1 \in 1..k /\ i - 1 \in 0..k /\ g[i - 1] = Run(0, p[i - 1]) /\ g[i] = Run(0, p[i])
      BY <2>2
    <3>2. p[i - 1] \in Nat /\ p[i] \in Nat /\ p[i - 1] <= p[i] /\ 0 <= p[i - 1]
      BY <3>1, <1>3
    <3>3. Run(0, p[i - 1]) \o Run(p[i - 1], p[i]) = Run(0, p[i])
      BY <3>2, RunsJoin
    <3> HIDE DEF g
    <3> QED  BY <3>1, <3>3, <2>2, <1>3
  <2> QED  BY <2>1, <2>2
<1>6. Joins(S, g)
  BY <1>2, <1>5 DEF Joins
<1>7. \E h : Joins(S, h)
  <2> HIDE DEF g
  <2> QED  BY <1>6
<1>8. PICK f : Joins(S, f) /\ FlattenSeq(S) = f[k]
  <2>1. FlattenSeq(S) = (CHOOSE f : Joins(S, f))[k]
    BY <1>2, <1>4 DEF FlattenSeq, Joins
  <2>2. Joins(S, CHOOSE f : Joins(S, f))
    BY <1>7
  <2> QED  BY <2>1, <2>2
<1> DEFINE T == {i \in Nat : i + 1 <= k => f[i + 1] = g[i + 1]}
<1>9. 0 \in T
  <2>1. 1 \in 1..k /\ 0 + 1 = 1
    BY <1>4
  <2>2. f[1] = S[1]
    BY <2>1, <1>2, <1>8 DEF Joins
  <2>3. g[1] = S[1]
    BY <2>1, <1>5
  <2> QED  BY <2>1, <2>2, <2>3
<1>10. ASSUME NEW i \in T PROVE i + 1 \in T
  <2>1. i \in Nat
    OBVIOUS
  <2>2. SUFFICES ASSUME (i + 1) + 1 <= k PROVE f[(i + 1) + 1] = g[(i + 1) + 1]
    BY <2>1
  <2>3. PICK j \in Nat : j = (i + 1) + 1
    BY <2>1
  <2>4. j \in 1..k /\ j # 1 /\ j - 1 = i + 1 /\ i + 1 <= k
    BY <2>1, <2>2, <2>3
  <2>5. f[i + 1] = g[i + 1]
    BY <2>4
  <2>6. f[j] = f[j - 1] \o S[j]
    BY <2>4, <1>2, <1>8 DEF Joins
  <2>7. g[j] = g[j - 1] \o S[j]
    BY <2>4, <1>5
  <2> HIDE DEF g
  <2> QED  BY <2>3, <2>4, <2>5, <2>6, <2>7
<1>11. T = Nat
  <2>1. T \in SUBSET Nat
    OBVIOUS
  <2> HIDE DEF T
  <2> QED  BY <2>1, <1>9, <1>10, SetInduction
<1>12. f[k] = g[k]
  <2>1. k - 1 \in Nat /\ (k - 1) + 1 = k /\ k <= k
    BY <1>4
  <2>2. k - 1 \in T
    <3> HIDE DEF T
    <3> QED  BY <1>11, <2>1
  <2> HIDE DEF g
  <2> QED  BY <2>1, <2>2
<1> QED  BY <1>3, <1>4, <1>8, <1>12

-----------------------------------------------------------------------------
(* What the variables look like.                                           *)

Phases == {"limits", "next", "ok", "err"} \cup Requests

Shapes ==
  /\ size \in Seq(RowSizes) /\ size # <<>>
  /\ phase \in Phases
  /\ late \in BOOLEAN /\ lost \in BOOLEAN
  /\ stored \in [1..Len(size) -> 0..2]

HeldTo(st, h) == \A r \in DOMAIN st : st[r] > 0 <=> r <= h
OnceTo(st, d) == \A r \in DOMAIN st : st[r] = IF r <= d THEN 1 ELSE 0

(* The rows of the chunk may still reach the server. *)
Open == phase \in Requests \/ (phase = "err" /\ late)

(* The call is done with rows 1 to d, and the server holds 1 to h: more    *)
(* where an answer got lost.  What is left are the chunk, the other chunks *)
(* of its batch, and the batches, in this order.                           *)
Ordered(d, h) ==
  /\ d \in 0..h /\ h \in 0..Len(size)
  /\ HeldTo(stored, h)
  /\ ~lost => OnceTo(stored, d)
  /\ phase = "limits" => d = 0 /\ pending = <<>>
  /\ phase = "next" => \E b : Stack(pending, d, b) /\ Chain(batches, b, Len(size))
  /\ Open =>
       \E c, b : /\ d < c /\ chunk = Run(d, c)
                 /\ Stack(pending, c, b) /\ Chain(batches, b, Len(size))
  /\ phase = "ok" => h = Len(size)

UploaderInv == Shapes /\ \E d, h : Ordered(d, h)

LEMMA ShapesFacts ==
  ASSUME Shapes
  PROVE  /\ Sizes /\ Len(size) \in Nat \ {0} /\ DOMAIN size = 1..Len(size)
         /\ DOMAIN stored = 1..Len(size) /\ \A r \in 1..Len(size) : stored[r] \in 0..2
<1>1. size \in Seq(RowSizes) /\ size # <<>> /\ stored \in [1..Len(size) -> 0..2]
  BY DEF Shapes
<1>2. size \in Seq(Nat)
  <2>1. RowSizes \subseteq Nat
    BY UploaderAssumption
  <2> QED  BY <1>1, <2>1, SeqMonotonic
<1>3. Len(size) \in Nat \ {0} /\ DOMAIN size = 1..Len(size)
  BY <1>1, LenProperties, EmptySeq
<1> QED  BY <1>1, <1>2, <1>3 DEF Sizes

LEMMA UploaderInvInit ==
  Init => UploaderInv
<1> SUFFICES ASSUME Init PROVE UploaderInv
  OBVIOUS
<1>1. PICK n \in 1..MaxRows : size \in [1..n -> RowSizes]
  BY DEF Init
<1>2. n \in Nat \ {0}
  BY UploaderAssumption
<1>3. size \in Seq(RowSizes)
  BY <1>1, <1>2, SeqDef
<1>4. Len(size) = n /\ DOMAIN size = 1..n
  BY <1>1, <1>2, <1>3, LenProperties
<1>5. size # <<>>
  <2>1. Len(<<>>) = 0
    OBVIOUS
  <2> QED  BY <1>2, <1>4, <2>1
<1>6. stored = [r \in 1..n |-> 0]
  BY <1>4 DEF Init
<1>7. phase = "limits" /\ pending = <<>> /\ lost = FALSE /\ late = FALSE
  BY DEF Init
<1>8. stored \in [1..Len(size) -> 0..2]
  BY <1>4, <1>6
<1>9. Shapes
  BY <1>3, <1>5, <1>7, <1>8 DEF Shapes, Phases
<1>10. HeldTo(stored, 0) /\ OnceTo(stored, 0)
  BY <1>2, <1>6 DEF HeldTo, OnceTo
<1>11. Ordered(0, 0)
  BY <1>2, <1>4, <1>7, <1>10 DEF Ordered, Open, Requests
<1> QED  BY <1>9, <1>11 DEF UploaderInv

(* The server takes the rows of the chunk, and holds no fewer than before. *)
LEMMA RowsTaken ==
  ASSUME Shapes, NEW d \in Nat, NEW c \in Nat, NEW h \in Nat, d < c, d <= h,
         c <= Len(size), h <= Len(size), chunk = Run(d, c),
         HeldTo(stored, h), NEW took \in BOOLEAN, Take(took)
  PROVE  /\ stored' \in [1..Len(size) -> 0..2]
         /\ ~took => stored' = stored
         /\ took => HeldTo(stored', IF c <= h THEN h ELSE c)
         /\ took /\ OnceTo(stored, d) => OnceTo(stored', c)
         /\ \A r \in 1..Len(size) : stored[r] <= stored'[r]
<1>1. PICK n \in Nat : n = Len(size)
  BY ShapesFacts
<1>2. DOMAIN stored = 1..n /\ \A r \in 1..n : stored[r] \in 0..2
  BY <1>1, ShapesFacts
<1>3. ToSet(chunk) = (d + 1)..c
  <2>1. d <= c
    OBVIOUS
  <2> QED  BY <2>1, RunIsSequence
<1>4. stored' = [r \in 1..n |-> IF took /\ r \in (d + 1)..c THEN Least(stored[r] + 1, 2) ELSE stored[r]]
  BY <1>2, <1>3 DEF Take
<1>5. \A x \in 0..2 : /\ Least(x + 1, 2) \in 0..2 /\ Least(x + 1, 2) > 0 /\ x <= Least(x + 1, 2)
                      /\ x = 0 => Least(x + 1, 2) = 1
  BY DEF Least
<1> HIDE DEF Least
<1>6. stored' \in [1..n -> 0..2] /\ DOMAIN stored' = 1..n
  BY <1>2, <1>4, <1>5
<1>7. ASSUME ~took PROVE stored' = stored
  <2>1. \A r \in 1..n : stored'[r] = stored[r]
    BY <1>4, <1>7
  <2>2. stored \in [1..n -> 0..2]
    BY <1>1 DEF Shapes
  <2> QED  BY <1>6, <2>1, <2>2
<1>8. ASSUME took PROVE HeldTo(stored', IF c <= h THEN h ELSE c)
  <2>1. PICK g \in Nat : g = IF c <= h THEN h ELSE c
    OBVIOUS
  <2>2. ASSUME NEW r \in 1..n PROVE stored'[r] > 0 <=> r <= g
    <3>1. stored[r] > 0 <=> r <= h
      BY <1>2 DEF HeldTo
    <3>2. CASE r \in (d + 1)..c
      <4>1. stored'[r] = Least(stored[r] + 1, 2) /\ stored[r] \in 0..2
        BY <1>2, <1>4, <1>8, <3>2
      <4>2. r <= g
        BY <2>1, <3>2
      <4> QED  BY <4>1, <4>2, <1>5
    <3>3. CASE r \notin (d + 1)..c
      <4>1. stored'[r] = stored[r]
        BY <1>4, <3>3
      <4>2. r <= h <=> r <= g
        BY <2>1, <3>3
      <4> QED  BY <4>1, <4>2, <3>1
    <3> QED  BY <3>2, <3>3
  <2> QED  BY <2>1, <2>2, <1>6 DEF HeldTo
<1>9. ASSUME took, OnceTo(stored, d) PROVE OnceTo(stored', c)
  <2>1. ASSUME NEW r \in 1..n PROVE stored'[r] = IF r <= c THEN 1 ELSE 0
    <3>1. stored[r] = IF r <= d THEN 1 ELSE 0
      BY <1>2, <1>9 DEF OnceTo
    <3>2. CASE r \in (d + 1)..c
      <4>1. stored'[r] = Least(stored[r] + 1, 2) /\ stored[r] = 0 /\ stored[r] \in 0..2
        BY <1>2, <1>4, <1>9, <3>1, <3>2
      <4> QED  BY <4>1, <3>2, <1>5
    <3>3. CASE r \notin (d + 1)..c
      <4>1. stored'[r] = stored[r]
        BY <1>4, <3>3
      <4> QED  BY <4>1, <3>1, <3>3
    <3> QED  BY <3>2, <3>3
  <2> QED  BY <2>1, <1>6 DEF OnceTo
<1>10. ASSUME NEW r \in 1..n PROVE stored[r] <= stored'[r]
  <2>1. stored[r] \in 0..2 /\ (stored'[r] = stored[r] \/ stored'[r] = Least(stored[r] + 1, 2))
    BY <1>2, <1>4
  <2> QED  BY <2>1, <1>5
<1> QED  BY <1>1, <1>6, <1>7, <1>8, <1>9, <1>10

-----------------------------------------------------------------------------
(* One lemma for each action.                                              *)

LEMMA GetPayloadLimitsKeeps ==
  ASSUME UploaderInv, GetPayloadLimits
  PROVE  UploaderInv'
<1>1. PICK d, h : Ordered(d, h)
  BY DEF UploaderInv
<1>2. Shapes
  BY DEF UploaderInv
<1>3. phase = "limits" /\ phase' = "next" /\ UNCHANGED <<size, pending, chunk, stored, late, lost>>
  BY DEF GetPayloadLimits
<1>4. PICK m : m = limits'.max_request_size
  OBVIOUS
<1>5. m \in Nat
  <2>1. PICK server \in Limits \cup {0}, override \in Limits \cup {0} :
          limits' = [max_request_size |->
                       IF override # 0 /\ server # 0 THEN Least(override, server)
                       ELSE IF override # 0 THEN override
                       ELSE IF server # 0 THEN server ELSE DefaultLimit,
                     can_use_overflow |-> server # 0]
    BY DEF GetPayloadLimits
  <2>2. m = IF override # 0 /\ server # 0 THEN Least(override, server)
            ELSE IF override # 0 THEN override
            ELSE IF server # 0 THEN server ELSE DefaultLimit
    BY <1>4, <2>1
  <2>3. server \in Nat /\ override \in Nat /\ DefaultLimit \in Nat
    BY UploaderAssumption
  <2> QED  BY <2>2, <2>3 DEF Least
<1>6. PICK max_bytes : max_bytes = AtLeastOne(m \div 2)
  OBVIOUS
<1>7. max_bytes \in Nat \ {0}
  <2>1. m \div 2 \in Nat
    BY <1>5
  <2> QED  BY <1>6, <2>1 DEF AtLeastOne
<1>8. batches' = BatchItems(Rows, max_bytes)
  BY <1>4, <1>6 DEF GetPayloadLimits
<1>9. Chain(batches', 0, Len(size))
  BY <1>2, <1>7, <1>8, BatchesOfRows, ShapesFacts
<1>10. d = 0 /\ pending' = <<>>
  BY <1>1, <1>3 DEF Ordered
<1>11. Stack(pending', d, 0)
  BY <1>10, NoStack
<1>12. Shapes'
  BY <1>2, <1>3 DEF Shapes, Phases
<1>13. Ordered(d, h)'
  BY <1>1, <1>3, <1>9, <1>11 DEF Ordered, Open, Requests
<1> QED  BY <1>12, <1>13 DEF UploaderInv

LEMMA NextBatchKeeps ==
  ASSUME UploaderInv, NextBatch
  PROVE  UploaderInv'
<1>1. PICK d, h : Ordered(d, h)
  BY DEF UploaderInv
<1>2. Shapes
  BY DEF UploaderInv
<1>3. phase = "next" /\ pending = <<>> /\ UNCHANGED <<size, chunk, stored, late, lost>>
  BY DEF NextBatch
<1>4. PICK b : Stack(pending, d, b) /\ Chain(batches, b, Len(size))
  BY <1>1, <1>3 DEF Ordered
<1>5. b = d /\ d \in Nat
  BY <1>3, <1>4, NoStack
<1>6. CASE batches = <<>>
  <2>1. phase' = "ok"
    BY <1>6 DEF NextBatch
  <2>2. d = Len(size)
    BY <1>4, <1>5, <1>6, NoChain
  <2>3. h = Len(size)
    BY <1>1, <2>2 DEF Ordered
  <2>4. Shapes'
    BY <1>2, <1>3, <2>1 DEF Shapes, Phases
  <2>5. Ordered(d, h)'
    BY <1>1, <1>3, <2>1, <2>3 DEF Ordered, Open, Requests
  <2> QED  BY <2>4, <2>5 DEF UploaderInv
<1>7. CASE batches # <<>>
  <2>1. pending' = <<Head(batches)>> /\ batches' = Tail(batches) /\ phase' = "next"
    BY <1>3, <1>7 DEF NextBatch
  <2>2. PICK m \in Nat : d < m /\ Head(batches) = Run(d, m) /\ Chain(batches', m, Len(size))
    BY <1>4, <1>5, <1>7, <2>1, ChainTail
  <2>3. Stack(<<>>, m, m)
    BY NoStack
  <2>4. Stack(Append(<<>>, Run(d, m)), d, m)
    BY <1>5, <2>2, <2>3, StackPush
  <2>5. Append(<<>>, Run(d, m)) = <<Run(d, m)>>
    <3> HIDE DEF Run
    <3> QED  OBVIOUS
  <2>6. Stack(pending', d, m)
    BY <2>1, <2>2, <2>4, <2>5
  <2>7. Shapes'
    BY <1>2, <1>3, <2>1 DEF Shapes, Phases
  <2>8. Ordered(d, h)'
    BY <1>1, <1>3, <2>1, <2>2, <2>6 DEF Ordered, Open, Requests
  <2> QED  BY <2>7, <2>8 DEF UploaderInv
<1> QED  BY <1>6, <1>7

LEMMA NextChunkKeeps ==
  ASSUME UploaderInv, NextChunk
  PROVE  UploaderInv'
<1>1. PICK d, h : Ordered(d, h)
  BY DEF UploaderInv
<1>2. Shapes
  BY DEF UploaderInv
<1>3. /\ phase = "next" /\ pending # <<>> /\ late' = FALSE /\ UNCHANGED <<size, batches, stored, lost>>
      /\ chunk' = Last(pending) /\ pending' = Front(pending)
  BY DEF NextChunk
<1>4. PICK b : Stack(pending, d, b) /\ Chain(batches, b, Len(size))
  BY <1>1, <1>3 DEF Ordered
<1>5. PICK m \in Nat : d < m /\ chunk' = Run(d, m) /\ Stack(pending', m, b)
  BY <1>3, <1>4, StackFront
<1>6. d \in Nat
  BY <1>4, StackBounds
<1>7. chunk' # <<>>
  <2>1. Len(Run(d, m)) = m - d
    <3>1. d <= m
      BY <1>5, <1>6
    <3> QED  BY <3>1, <1>6, RunIsSequence
  <2>2. Len(<<>>) = 0
    OBVIOUS
  <2> QED  BY <1>5, <1>6, <2>1, <2>2
<1>8. phase' = "url" \/ phase' = "post"
  BY <1>7 DEF NextChunk
<1>9. phase' \in Requests /\ phase' # "limits" /\ phase' # "next" /\ phase' # "ok"
  BY <1>8 DEF Requests
<1>10. Shapes'
  BY <1>2, <1>3, <1>9 DEF Shapes, Phases
<1>11. Ordered(d, h)'
  BY <1>1, <1>3, <1>4, <1>5, <1>9 DEF Ordered, Open
<1> QED  BY <1>10, <1>11 DEF UploaderInv

(* While rows of the chunk may arrive, it is what follows row d. *)
LEMMA AtRequest ==
  ASSUME Shapes, NEW d, NEW h, Ordered(d, h), Open
  PROVE  \E c, b : /\ c \in Nat /\ d \in Nat /\ h \in Nat /\ d < c /\ d <= h
                   /\ c <= Len(size) /\ h <= Len(size)
                   /\ chunk = Run(d, c) /\ HeldTo(stored, h)
                   /\ Stack(pending, c, b) /\ Chain(batches, b, Len(size))
<1>1. PICK c, b : /\ d < c /\ chunk = Run(d, c)
                  /\ Stack(pending, c, b) /\ Chain(batches, b, Len(size))
  BY DEF Ordered
<1>2. c \in Nat /\ b \in Nat /\ c <= b
  BY <1>1, StackBounds
<1>3. b <= Len(size) /\ Len(size) \in Nat
  BY <1>1, ChainBounds
<1>4. d \in 0..h /\ h \in 0..Len(size) /\ HeldTo(stored, h)
  BY DEF Ordered
<1> QED  BY <1>1, <1>2, <1>3, <1>4

LEMMA SucceedsKeeps ==
  ASSUME UploaderInv, Succeeds
  PROVE  UploaderInv'
<1>1. PICK d, h : Ordered(d, h)
  BY DEF UploaderInv
<1>2. Shapes
  BY DEF UploaderInv
<1>3. phase \in Requests /\ UNCHANGED <<size, pending, batches, chunk, late, lost>>
  BY DEF Succeeds, Attempt
<1>4. PICK c, b : /\ c \in Nat /\ d \in Nat /\ h \in Nat /\ d < c /\ d <= h
                  /\ c <= Len(size) /\ h <= Len(size)
                  /\ chunk = Run(d, c) /\ HeldTo(stored, h)
                  /\ Stack(pending, c, b) /\ Chain(batches, b, Len(size))
  BY <1>1, <1>2, <1>3, AtRequest DEF Open
<1>5. Len(size) \in Nat
  BY <1>2, ShapesFacts
<1>6. CASE phase \in Storing
  <2>1. phase' = "next" /\ Take(TRUE)
    <3>1. phase \in Storing <=> TRUE
      BY <1>6
    <3>2. Take(phase \in Storing)
      BY DEF Succeeds
    <3>3. phase' = "next"
      BY <1>6 DEF Succeeds, Attempt, Storing
    <3> QED  BY <3>1, <3>2, <3>3, <1>6 DEF Take
  <2>2. PICK g \in Nat : g = IF c <= h THEN h ELSE c
    BY <1>4
  <2>3. /\ stored' \in [1..Len(size) -> 0..2] /\ HeldTo(stored', g)
        /\ OnceTo(stored, d) => OnceTo(stored', c)
    BY <1>2, <1>4, <2>1, <2>2, RowsTaken
  <2>4. Shapes'
    BY <1>2, <1>3, <2>1, <2>3 DEF Shapes, Phases
  <2>5. c \in 0..g /\ g \in 0..Len(size)
    BY <1>4, <1>5, <2>2
  <2>6. Ordered(c, g)'
    <3>1. ~lost' => OnceTo(stored', c)
      BY <1>1, <1>3, <2>3 DEF Ordered
    <3> QED  BY <1>3, <1>4, <2>1, <2>3, <2>5, <3>1 DEF Ordered, Open, Requests
  <2> QED  BY <2>4, <2>6 DEF UploaderInv
<1>7. CASE phase \notin Storing
  <2>1. phase' \in {"put", "reference"}
    BY <1>3, <1>7 DEF Succeeds, Attempt, Requests, Storing
  <2>2. Take(FALSE)
    BY <1>7 DEF Succeeds, Take
  <2>3. stored' = stored
    BY <1>2, <1>4, <2>2, RowsTaken
  <2>4. Shapes'
    BY <1>2, <1>3, <2>1, <2>3 DEF Shapes, Phases, Requests
  <2>5. Ordered(d, h)'
    BY <1>1, <1>3, <1>4, <2>1, <2>3 DEF Ordered, Open, Requests
  <2> QED  BY <2>4, <2>5 DEF UploaderInv
<1> QED  BY <1>6, <1>7

(* An error, after which the call goes on with the same request or ends,   *)
(* and what lands after it.                                                *)
LEMMA ErrorKeeps ==
  ASSUME UploaderInv, Open, phase' \in {phase, "err"}, late' \in BOOLEAN,
         UNCHANGED <<size, pending, batches, chunk>>,
         NEW took \in BOOLEAN, Take(took), lost' = (lost \/ took)
  PROVE  UploaderInv'
<1>1. PICK d, h : Ordered(d, h)
  BY DEF UploaderInv
<1>2. Shapes
  BY DEF UploaderInv
<1>3. PICK c, b : /\ c \in Nat /\ d \in Nat /\ h \in Nat /\ d < c /\ d <= h
                  /\ c <= Len(size) /\ h <= Len(size)
                  /\ chunk = Run(d, c) /\ HeldTo(stored, h)
                  /\ Stack(pending, c, b) /\ Chain(batches, b, Len(size))
  BY <1>1, <1>2, AtRequest
<1>4. Len(size) \in Nat
  BY <1>2, ShapesFacts
<1>5. PICK g \in Nat : g = IF took /\ ~(c <= h) THEN c ELSE h
  BY <1>3
<1>6. stored' \in [1..Len(size) -> 0..2] /\ HeldTo(stored', g)
  <2>1. /\ stored' \in [1..Len(size) -> 0..2] /\ (~took => stored' = stored)
        /\ took => HeldTo(stored', IF c <= h THEN h ELSE c)
    BY <1>2, <1>3, RowsTaken
  <2>2. CASE took
    <3>1. g = IF c <= h THEN h ELSE c
      BY <1>5, <2>2
    <3> QED  BY <2>1, <2>2, <3>1
  <2>3. CASE ~took
    <3>1. g = h
      BY <1>5, <2>3
    <3> QED  BY <2>1, <2>3, <3>1, <1>3
  <2> QED  BY <2>2, <2>3
<1>7. ~lost' => OnceTo(stored', d)
  <2>1. SUFFICES ASSUME ~lost' PROVE OnceTo(stored', d)
    OBVIOUS
  <2>2. ~lost /\ ~took
    BY <2>1
  <2>3. stored' = stored
    BY <1>2, <1>3, <2>2, RowsTaken
  <2> QED  BY <1>1, <2>2, <2>3 DEF Ordered
<1>8. Shapes'
  <2>1. lost' \in BOOLEAN
    BY <1>2 DEF Shapes
  <2>2. phase' \in Phases
    BY <1>2 DEF Shapes, Phases
  <2> QED  BY <1>2, <1>6, <2>1, <2>2 DEF Shapes
<1>9. d \in 0..g /\ g \in 0..Len(size)
  BY <1>3, <1>4, <1>5
<1>10. Ordered(d, g)'
  BY <1>3, <1>6, <1>7, <1>9 DEF Ordered, Open, Requests
<1> QED  BY <1>8, <1>10 DEF UploaderInv

LEMMA FailsKeeps ==
  ASSUME UploaderInv, Fails \/ FailsForGood
  PROVE  UploaderInv'
<1>1. PICK took \in BOOLEAN : Take(took) /\ lost' = (lost \/ took)
  BY DEF Fails, FailsForGood
<1>2. phase \in Requests /\ phase' \in {phase, "err"} /\ Open
  BY DEF Fails, FailsForGood, Attempt, Open
<1>3. UNCHANGED <<size, pending, batches, chunk>>
  BY DEF Fails, FailsForGood
<1>4. late' \in BOOLEAN
  <2>1. late \in BOOLEAN
    BY DEF UploaderInv, Shapes
  <2>2. late' = (late \/ phase \in Storing)
    BY DEF Fails, FailsForGood
  <2> QED  BY <2>1, <2>2
<1> QED  BY <1>1, <1>2, <1>3, <1>4, ErrorKeeps

LEMMA LandsKeeps ==
  ASSUME UploaderInv, Lands
  PROVE  UploaderInv'
<1>1. Take(TRUE) /\ lost' = (lost \/ TRUE)
  BY DEF Lands
<1>2. Open /\ phase' \in {phase, "err"} /\ UNCHANGED <<size, pending, batches, chunk>>
  BY DEF Lands, Open
<1>3. late' \in BOOLEAN
  BY DEF Lands, UploaderInv, Shapes
<1> QED  BY <1>1, <1>2, <1>3, ErrorKeeps

(* Two elements at the end of a sequence, one after the other. *)
LEMMA TwoMore ==
  ASSUME NEW S, NEW q \in Seq(S), NEW a \in S, NEW b \in S
  PROVE  q \o <<a, b>> = Append(Append(q, a), b)
<1>1. PICK k \in Nat : k = Len(q)
  BY LenProperties
<1>2. PICK two : two = <<a, b>>
  OBVIOUS
<1>3. two \in Seq(S) /\ Len(two) = 2 /\ two[1] = a /\ two[2] = b
  BY <1>2
<1>4. PICK x : x = q \o two
  OBVIOUS
<1>5. /\ x \in Seq(S) /\ Len(x) = k + 2
      /\ \A i \in 1..(k + 2) : x[i] = IF i <= k THEN q[i] ELSE two[i - k]
  <2>1. /\ q \o two \in Seq(S)
        /\ Len(q \o two) = Len(q) + Len(two)
        /\ \A i \in 1..(Len(q) + Len(two)) : (q \o two)[i] = IF i <= Len(q) THEN q[i] ELSE two[i - Len(q)]
    BY ONLY <1>3, q \in Seq(S), ConcatProperties
  <2> QED  BY <1>1, <1>3, <1>4, <2>1
<1>6. PICK y : y = Append(q, a)
  OBVIOUS
<1>7. y \in Seq(S) /\ Len(y) = k + 1 /\ (\A i \in 1..k : y[i] = q[i]) /\ y[k + 1] = a
  BY <1>1, <1>6, AppendProperties
<1>8. PICK z : z = Append(y, b)
  OBVIOUS
<1>9. z \in Seq(S) /\ Len(z) = k + 2 /\ (\A i \in 1..(k + 1) : z[i] = y[i]) /\ z[k + 2] = b
  <2>1. /\ Append(y, b) \in Seq(S)
        /\ Len(Append(y, b)) = Len(y) + 1
        /\ \A i \in 1..Len(y) : Append(y, b)[i] = y[i]
        /\ Append(y, b)[Len(y) + 1] = b
    BY <1>7, AppendProperties
  <2> QED  BY <1>7, <1>8, <2>1
<1>10. ASSUME NEW i \in 1..(k + 2) PROVE x[i] = z[i]
  <2>1. CASE i <= k
    <3>1. i \in 1..k /\ i \in 1..(k + 1)
      BY <2>1
    <3> QED  BY <3>1, <2>1, <1>5, <1>7, <1>9
  <2>2. CASE i = k + 1
    <3>1. i \in 1..(k + 1) /\ ~(i <= k) /\ i - k = 1
      BY <2>2
    <3>2. x[i] = two[1] /\ z[i] = y[k + 1]
      BY <3>1, <2>2, <1>5, <1>9
    <3> QED  BY <3>2, <1>3, <1>7
  <2>3. CASE i = k + 2
    <3>1. ~(i <= k) /\ i - k = 2
      BY <2>3
    <3>2. x[i] = two[2] /\ z[i] = b
      BY <3>1, <2>3, <1>5, <1>9
    <3> QED  BY <3>2, <1>3
  <2>4. i <= k \/ i = k + 1 \/ i = k + 2
    OBVIOUS
  <2> QED  BY <2>1, <2>2, <2>3, <2>4
<1>11. x = z
  BY <1>5, <1>9, <1>10, SeqEqual
<1> QED  BY <1>2, <1>4, <1>6, <1>8, <1>11

(* The halves of a chunk on top of the stack. *)
LEMMA SplitKeepsOrder ==
  ASSUME NEW d \in Nat, NEW c \in Nat, NEW b, Stack(pending, c, b),
         chunk = Run(d, c), Len(chunk) > 1, Split
  PROVE  Stack(pending', d, b)
<1>1. d <= c
  <2>1. CASE c < d
    <3>1. c - d < 1
      BY <2>1
    <3>2. Run(d, c) = <<>>
      <4>1. 1..(c - d) = {}
        BY <2>1
      <4>2. Run(d, c) = Run(0, 0)
        BY <4>1 DEF Run
      <4> QED  BY <4>2, NoRun
    <3>3. Len(<<>>) = 0
      OBVIOUS
    <3> QED  BY <3>2, <3>3
  <2> QED  BY <2>1
<1>2. PICK k \in Nat : k = c - d /\ k = Len(chunk)
  <2>1. Len(Run(d, c)) = c - d
    BY <1>1, RunIsSequence
  <2> QED  BY <1>1, <2>1
<1>3. PICK x \in Nat : x = Half /\ x < k /\ 0 < x
  <2>1. k > 1
    BY <1>2
  <2>2. k \div 2 \in Nat /\ k \div 2 < k /\ 0 < k \div 2
    BY <2>1
  <2> QED  BY <1>2, <2>2 DEF Half
<1>4. SubSeq(chunk, 1, x) = Run(d, d + x)
  <2>1. PICK i \in Nat \ {0} : i = 1
    OBVIOUS
  <2>2. d \in Nat /\ c \in Nat /\ x \in Nat /\ i \in Nat \ {0} /\ i <= x + 1 /\ d + x <= c
    BY <1>2, <1>3, <2>1
  <2>3. PartIsRun(d, c, i, x)
    BY ONLY <2>2, PartOfRun
  <2>4. SubSeq(Run(d, c), i, x) = Run(d + i - 1, d + x)
    BY ONLY <2>3 DEF PartIsRun
  <2>5. d + i - 1 = d
    BY <2>1
  <2> QED  BY <2>1, <2>4, <2>5
<1>5. SubSeq(chunk, x + 1, k) = Run(d + x, c)
  <2>1. x + 1 \in Nat \ {0} /\ x + 1 <= k + 1 /\ d + k <= c /\ d + (x + 1) - 1 = d + x /\ d + k = c
    BY <1>1, <1>2, <1>3
  <2>2. PICK i \in Nat \ {0} : i = x + 1
    BY <2>1
  <2>3. d \in Nat /\ c \in Nat /\ k \in Nat /\ i \in Nat \ {0} /\ i <= k + 1 /\ d + k <= c
    BY <2>1, <2>2
  <2>4. PartIsRun(d, c, i, k)
    BY ONLY <2>3, PartOfRun
  <2>5. SubSeq(Run(d, c), i, k) = Run(d + i - 1, d + k)
    BY ONLY <2>4 DEF PartIsRun
  <2> QED  BY <2>1, <2>2, <2>5
<1>6. PICK m \in Nat : m = d + x /\ d < m /\ m < c
  BY <1>1, <1>2, <1>3
<1>7. PICK first : first = Run(d, m)
  OBVIOUS
<1>8. PICK second : second = Run(m, c)
  OBVIOUS
<1>9. pending' = pending \o <<second, first>>
  BY <1>2, <1>3, <1>4, <1>5, <1>6, <1>7, <1>8 DEF Split
<1>10. first \in Seq(Nat) /\ second \in Seq(Nat) /\ pending \in Seq(Seq(Nat))
  <2>1. d <= m /\ m <= c
    BY <1>6
  <2> QED  BY <1>7, <1>8, <2>1, RunIsSequence DEF Stack
<1>11. pending \o <<second, first>> = Append(Append(pending, second), first)
  <2> HIDE DEF Run
  <2> QED  BY <1>10, TwoMore
<1>12. Stack(Append(pending, second), m, b)
  BY <1>6, <1>8, StackPush
<1>13. Stack(Append(Append(pending, second), first), d, b)
  BY <1>6, <1>7, <1>12, StackPush
<1> QED  BY <1>9, <1>11, <1>13

LEMMA TooLargeKeeps ==
  ASSUME UploaderInv, TooLarge
  PROVE  UploaderInv'
<1>1. PICK d, h : Ordered(d, h)
  BY DEF UploaderInv
<1>2. Shapes
  BY DEF UploaderInv
<1>3. phase = "post" /\ phase \in Requests /\ late' = FALSE /\ UNCHANGED <<size, batches, chunk, stored, lost>>
  BY DEF TooLarge, Requests
<1>4. PICK c, b : /\ c \in Nat /\ d \in Nat /\ h \in Nat /\ d < c /\ d <= h
                  /\ c <= Len(size) /\ h <= Len(size)
                  /\ chunk = Run(d, c) /\ HeldTo(stored, h)
                  /\ Stack(pending, c, b) /\ Chain(batches, b, Len(size))
  BY <1>1, <1>2, <1>3, AtRequest DEF Open
<1>5. phase' \in {"url", "err"} \/ (phase' = "next" /\ Len(chunk) > 1)
  BY DEF TooLarge, Attempt
<1>6. Shapes'
  BY <1>2, <1>3, <1>5 DEF Shapes, Phases, Requests
<1>7. CASE phase' \in {"url", "err"}
  <2>1. pending' = pending
    BY <1>7 DEF TooLarge
  <2>2. Ordered(d, h)'
    BY <1>1, <1>3, <1>4, <1>7, <2>1 DEF Ordered, Open, Requests
  <2> QED  BY <1>6, <2>2 DEF UploaderInv
<1>8. CASE phase' = "next" /\ Len(chunk) > 1
  <2>1. Split
    BY <1>8 DEF TooLarge
  <2>2. Stack(pending', d, b)
    BY <1>4, <1>8, <2>1, SplitKeepsOrder
  <2>3. Ordered(d, h)'
    BY <1>1, <1>3, <1>4, <1>8, <2>2 DEF Ordered, Open, Requests
  <2> QED  BY <1>6, <2>3 DEF UploaderInv
<1> QED  BY <1>5, <1>7, <1>8

LEMMA UploaderInvStep ==
  UploaderInv /\ [Next]_vars => UploaderInv'
<1> SUFFICES ASSUME UploaderInv, [Next]_vars PROVE UploaderInv'
  OBVIOUS
<1>1. CASE GetPayloadLimits
  BY <1>1, GetPayloadLimitsKeeps
<1>2. CASE NextBatch
  BY <1>2, NextBatchKeeps
<1>3. CASE NextChunk
  BY <1>3, NextChunkKeeps
<1>4. CASE Succeeds
  BY <1>4, SucceedsKeeps
<1>5. CASE Fails \/ FailsForGood
  BY <1>5, FailsKeeps
<1>6. CASE TooLarge
  BY <1>6, TooLargeKeeps
<1>7. CASE Lands
  BY <1>7, LandsKeeps
<1>8. CASE UNCHANGED vars
  BY <1>8 DEF UploaderInv, Shapes, Ordered, Open, vars
<1> QED  BY <1>1, <1>2, <1>3, <1>4, <1>5, <1>6, <1>7, <1>8 DEF Next, Call

LEMMA UploaderInvariant ==
  Spec => []UploaderInv
BY UploaderInvInit, UploaderInvStep, PTL DEF Spec

-----------------------------------------------------------------------------
(* The results.                                                            *)

(* The batches of a call are its rows in order, each once; a batch of      *)
(* several rows is shorter than the limit, and no batch could take the     *)
(* first row of the next one: batch_items, for rows of any lengths.        *)
THEOREM RowsAreBatched ==
  Spec => []BatchesFit
<1>1. UploaderInv => BatchesFit
  <2> SUFFICES ASSUME UploaderInv, NEW max_bytes \in 1..Bytes(Rows)
               PROVE  LET out == BatchItems(Rows, max_bytes) IN
                      /\ FlattenSeq(out) = Rows
                      /\ \A b \in DOMAIN out :
                           /\ Len(out[b]) \in 1..MaxItems
                           /\ Len(out[b]) > 1 => Bytes(out[b]) < max_bytes
                      /\ \A b \in DOMAIN out \ {1} :
                           \/ Len(out[b - 1]) = MaxItems
                           \/ Bytes(out[b - 1]) + size[Head(out[b])] >= max_bytes
    BY DEF BatchesFit
  <2>1. Shapes
    BY DEF UploaderInv
  <2>2. Sizes /\ Len(size) \in Nat \ {0}
    BY <2>1, ShapesFacts
  <2>3. max_bytes \in Nat \ {0}
    <3>1. Bytes(Run(0, Len(size))) \in Nat
      <4>1. 0 \in Nat /\ Len(size) \in Nat /\ 0 <= Len(size) /\ Len(size) <= Len(size)
        BY <2>2
      <4> QED  BY <2>2, <4>1, BytesOfRun
    <3>2. Rows = Run(0, Len(size))
      BY <2>2, RowsAreARun
    <3> QED  BY <3>1, <3>2
  <2>4. PICK out : out = BatchItems(Rows, max_bytes)
    OBVIOUS
  <2>5. Chain(out, 0, Len(size)) /\ Fitting(out, max_bytes)
    BY <2>2, <2>3, <2>4, BatchesOfRows
  <2>6. FlattenSeq(out) = Rows
    BY <2>2, <2>5, ChainFlattens, RowsAreARun
  <2>7. DOMAIN out = 1..Len(out) /\ Len(out) \in Nat
    BY <2>5, LenProperties DEF Chain
  <2>8. DOMAIN out \ {1} = 2..Len(out)
    BY <2>7
  <2> QED  BY <2>4, <2>5, <2>6, <2>7, <2>8 DEF Fitting
<1> QED  BY <1>1, UploaderInvariant, PTL

(* The server gets a row twice only where an answer got lost, however      *)
(* often chunks are split, retried or sent by way of the object store.     *)
THEOREM RowsAreStoredOnce ==
  Spec => []StoredOnce
<1>1. UploaderInv => StoredOnce
  <2> SUFFICES ASSUME UploaderInv, ~lost, NEW r \in DOMAIN size PROVE stored[r] <= 1
    BY DEF StoredOnce
  <2>1. PICK d, h : Ordered(d, h)
    BY DEF UploaderInv
  <2>2. OnceTo(stored, d)
    BY <2>1 DEF Ordered
  <2>3. r \in DOMAIN stored
    BY ShapesFacts DEF UploaderInv
  <2> QED  BY <2>2, <2>3 DEF OnceTo
<1> QED  BY <1>1, UploaderInvariant, PTL

(* Any call implements Transfer: what the server holds are the first rows  *)
(* of the call, never fewer than before, and Ok means all of them.         *)
THEOREM UploadIsTransfer ==
  Spec => ImplementsTransfer
<1> DEFINE n == Len(size)
           held == {r \in DOMAIN size : stored[r] > 0}
           result == IF phase \in {"ok", "err"} THEN phase ELSE "none"
<1>1. Init => Caller!TransferInit
  <2> SUFFICES ASSUME Init PROVE Caller!TransferInit
    OBVIOUS
  <2>1. n \in Nat
    BY UploaderInvInit, ShapesFacts DEF UploaderInv
  <2>2. held = {}
    BY DEF Init
  <2>3. result = "none"
    BY DEF Init
  <2> QED  BY <2>1, <2>2, <2>3 DEF Caller!TransferInit
<1>2. ASSUME UploaderInv, UploaderInv', [Next]_vars
      PROVE  [Caller!TransferNext]_<<n, held, result>>
  <2>1. CASE UNCHANGED vars
    BY <2>1 DEF vars
  <2>2. CASE Next
    <3>1. size' = size
      BY <2>2 DEF Next, Call, GetPayloadLimits, NextBatch, NextChunk, Succeeds, Fails, FailsForGood,
                  TooLarge, Lands
    <3>2. n' = n
      BY <3>1
    <3>3. PICK g \in 0..n : held' = 1..g
      <4>1. PICK d, g : Ordered(d, g)'
        BY <1>2 DEF UploaderInv
      <4>2. g \in 0..n /\ HeldTo(stored', g)
        BY <3>1, <4>1 DEF Ordered
      <4>3. stored' \in [1..n -> 0..2]
        BY <1>2, <3>1 DEF UploaderInv, Shapes
      <4>4. DOMAIN size = 1..n /\ n \in Nat
        BY <1>2, ShapesFacts DEF UploaderInv
      <4>5. held' = 1..g
        BY <3>1, <4>2, <4>3, <4>4 DEF HeldTo
      <4> QED  BY <4>2, <4>5
    <3>4. \A r \in DOMAIN size : stored[r] > 0 => stored'[r] > 0
      <4>1. CASE stored' = stored
        BY <4>1
      <4>2. CASE stored' # stored
        <5>1. Succeeds \/ Fails \/ FailsForGood \/ Lands
          BY <4>2, <2>2 DEF Next, Call, GetPayloadLimits, NextBatch, NextChunk, TooLarge
        <5>2. Open /\ \E took \in BOOLEAN : Take(took)
          <6>1. Open
            BY <5>1 DEF Succeeds, Fails, FailsForGood, Lands, Attempt, Open
          <6>2. CASE Succeeds
            <7>1. Take(phase \in Storing)
              BY <6>2 DEF Succeeds
            <7>2. Take(TRUE) \/ Take(FALSE)
              <8>1. CASE phase \in Storing
                BY <7>1, <8>1 DEF Take
              <8>2. CASE phase \notin Storing
                BY <7>1, <8>2 DEF Take
              <8> QED  BY <8>1, <8>2
            <7> QED  BY <6>1, <7>2
          <6>3. CASE Fails \/ FailsForGood \/ Lands
            BY <6>1, <6>3 DEF Fails, FailsForGood, Lands
          <6> QED  BY <5>1, <6>2, <6>3
        <5>3. PICK took \in BOOLEAN : Take(took)
          BY <5>2
        <5>4. PICK d, h : Ordered(d, h)
          BY <1>2 DEF UploaderInv
        <5>5. Shapes
          BY <1>2 DEF UploaderInv
        <5>6. PICK c, b : /\ c \in Nat /\ d \in Nat /\ h \in Nat /\ d < c /\ d <= h
                          /\ c <= Len(size) /\ h <= Len(size)
                          /\ chunk = Run(d, c) /\ HeldTo(stored, h)
          BY <5>2, <5>4, <5>5, AtRequest
        <5>7. \A r \in 1..n : stored[r] <= stored'[r]
          BY <5>3, <5>5, <5>6, RowsTaken
        <5>8. DOMAIN size = 1..n /\ \A r \in 1..n : stored[r] \in 0..2
          BY <5>5, ShapesFacts
        <5>9. \A r \in 1..n : stored'[r] \in 0..2
          <6>1. Shapes'
            BY <1>2 DEF UploaderInv
          <6>2. stored' \in [1..n -> 0..2]
            BY <6>1, <3>1 DEF Shapes
          <6> QED  BY <6>2
        <5> QED  BY <5>7, <5>8, <5>9
      <4> QED  BY <4>1, <4>2
    <3>5. held \subseteq held'
      BY <3>1, <3>4
    <3>6. /\ result # "ok"
          /\ phase' = "ok" => result = "none"
          /\ result = "err" => phase' = "err"
      BY <2>2 DEF Next, Call, GetPayloadLimits, NextBatch, NextChunk, Succeeds, Fails, FailsForGood,
                  TooLarge, Lands, Attempt, Requests
    <3>7. CASE phase' = "ok"
      <4>1. stored' = stored
        BY <2>2, <3>7 DEF Next, Call, GetPayloadLimits, NextBatch, NextChunk, Succeeds, Fails,
                          FailsForGood, TooLarge, Lands, Attempt, Requests
      <4>2. held' = held
        BY <3>1, <4>1
      <4>3. held' = 1..n
        <5>1. PICK d, h : Ordered(d, h)'
          BY <1>2 DEF UploaderInv
        <5>2. h = n /\ HeldTo(stored', h)
          BY <3>1, <3>7, <5>1 DEF Ordered
        <5>3. Shapes'
          BY <1>2 DEF UploaderInv
        <5>4. DOMAIN stored = 1..n /\ DOMAIN size = 1..n /\ n \in Nat
          BY <1>2, ShapesFacts DEF UploaderInv
        <5> QED  BY <3>1, <4>1, <5>2, <5>4 DEF HeldTo
      <4>4. Caller!Complete
        BY <3>6, <3>7, <4>2, <4>3 DEF Caller!Complete
      <4> QED  BY <3>2, <4>4 DEF Caller!TransferNext
    <3>8. CASE phase' # "ok"
      <4>1. result' \in {result, "err"}
        BY <3>6, <3>8
      <4>2. Caller!Arrive
        BY <3>6, <3>3, <3>5, <3>6, <4>1 DEF Caller!Arrive
      <4> QED  BY <3>2, <4>2 DEF Caller!TransferNext
    <3> QED  BY <3>7, <3>8
  <2> QED  BY <1>2, <2>1, <2>2
<1>3. UploaderInv /\ UploaderInv' /\ [Next]_vars => [Caller!TransferNext]_<<n, held, result>>
  BY <1>2
<1> QED  BY <1>1, <1>3, UploaderInvariant, PTL DEF Spec, ImplementsTransfer, Caller!TransferSpec
=============================================================================
