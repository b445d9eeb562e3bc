----------------------------- MODULE Containers -----------------------------
(***************************************************************************)
(* FlatSet and FlatMap side by side, which share no state, and what is     *)
(* proved of them: that their vectors stay sorted, as long as modify()     *)
(* moves an item past one other at most, and that their operations do what *)
(* ItemBag and KeyedValues say.                                            *)
(***************************************************************************)
EXTENDS SequenceTheorems, FiniteSetTheorems, WellFoundedInduction, TLAPS

CONSTANTS
  Items, MaxPassed,               \* see FlatSet
  MapKeys, Values, Default, None, \* see FlatMap
  MaxSize, MaxList                \* see both

ASSUME ContainersAssumption ==
  /\ Items \subseteq Int /\ MapKeys \subseteq Int /\ MapKeys # {} /\ Default \in Values
  /\ MaxSize \in Nat /\ MaxList \in Nat /\ MaxPassed \in Nat

VARIABLES setUnique, items, setReturned, mapUnique, pairs, mapReturned

setVars == <<setUnique, items, setReturned>>
mapVars == <<mapUnique, pairs, mapReturned>>

Set == INSTANCE FlatSet WITH
         unique <- setUnique, elements <- items, returned <- setReturned
Map == INSTANCE FlatMap WITH
         Keys <- MapKeys, unique <- mapUnique, elements <- pairs, returned <- mapReturned

-----------------------------------------------------------------------------
(***************************************************************************)
(* FlatSet and FlatMap.  Numbers and counts first: a set of numbers has a  *)
(* least one; the elements of a finite set that is totally ordered have    *)
(* the ranks from 1 up.                                                    *)
(***************************************************************************)
LEMMA SetCardinality ==
  (\A S : Set!Cardinality(S) = Cardinality(S)) /\ (\A S : Map!Cardinality(S) = Cardinality(S))
BY DEF Set!Cardinality, Map!Cardinality, Cardinality

LEMMA LeastNumber ==
  ASSUME NEW S, S \subseteq Nat, S # {}
  PROVE  \E m \in S : \A n \in S : m <= n
<1>1. PICK m \in S : \A n \in S : <<n, m>> \notin OpToRel(<, Nat)
  BY WFMin, NatLessThanWellFounded
<1>2. \A n \in S : ~(n < m) BY <1>1 DEF OpToRel
<1> QED BY <1>2

Orders(R, S) ==
  /\ \A x, y \in S : <<x, y>> \in R \/ <<y, x>> \in R
  /\ \A x, y \in S : <<x, y>> \in R /\ <<y, x>> \in R => x = y
  /\ \A x, y, z \in S : <<x, y>> \in R /\ <<y, z>> \in R => <<x, z>> \in R
Precede(S, R, x) == {y \in S : <<y, x>> \in R}

LEMMA Ranks ==
  ASSUME NEW S, IsFiniteSet(S), NEW R, Orders(R, S), NEW n \in 1..Cardinality(S)
  PROVE  \E x \in S : Cardinality(Precede(S, R, x)) = n
<1> DEFINE upTo(x) == Precede(S, R, x)
           rank == [x \in S |-> Cardinality(upTo(x))]
           N == Cardinality(S)
<1> HIDE DEF upTo
<1>1. \A x \in S : upTo(x) \subseteq S /\ x \in upTo(x) BY DEF Orders, Precede, upTo
<1>2. \A x \in S : IsFiniteSet(upTo(x)) /\ Cardinality(upTo(x)) \in 1..N
  <2> SUFFICES ASSUME NEW x \in S PROVE IsFiniteSet(upTo(x)) /\ Cardinality(upTo(x)) \in 1..N
    OBVIOUS
  <2>1. IsFiniteSet(upTo(x)) /\ Cardinality(upTo(x)) <= N BY <1>1, FS_Subset
  <2>2. Cardinality(upTo(x)) # 0 BY <1>1, <2>1, FS_EmptySet
  <2> QED BY <2>1, <2>2, FS_CardinalityType
<1>3. ASSUME NEW x \in S, NEW y \in S, x # y PROVE rank[x] # rank[y]
  <2>1. ASSUME NEW a \in S, NEW b \in S, a # b, <<a, b>> \in R PROVE rank[a] # rank[b]
    <3>1. upTo(a) \subseteq upTo(b) BY <2>1 DEF Orders, Precede, upTo
    <3>2. b \notin upTo(a) BY <2>1 DEF Orders, Precede, upTo
    <3>3. upTo(a) # upTo(b) BY <1>1, <3>2
    <3>4. Cardinality(upTo(a)) # Cardinality(upTo(b)) BY <1>2, <3>1, <3>3, FS_Subset
    <3> QED BY <3>4
  <2>2. CASE <<x, y>> \in R BY <1>3, <2>1, <2>2
  <2>3. CASE <<y, x>> \in R
    <3>1. rank[y] # rank[x] BY <1>3, <2>1, <2>3
    <3> QED BY <3>1
  <2> QED BY <2>2, <2>3 DEF Orders
<1>4. rank \in Injection(S, 1..N)
  BY <1>2, <1>3 DEF Injection, IsInjective
<1>5. N \in Nat BY FS_CardinalityType
<1>6. IsFiniteSet(1..N) /\ Cardinality(1..N) = N BY <1>5, FS_Interval
<1>7. rank \in Surjection(S, 1..N) BY <1>4, <1>6, FS_Injection
<1>8. PICK x \in S : rank[x] = n BY <1>7 DEF Surjection
<1> QED BY <1>8 DEF Orders, Precede, upTo

(***************************************************************************)
(* Sequences of numbers, which items and keys are.                         *)
(***************************************************************************)
Gap(unique) == IF unique THEN 1 ELSE 0
Ordered(s, gap) == \A i, j \in 1 .. Len(s) : i < j => s[i] + gap <= s[j]

\* The first m are the ones that satisfy a condition, which is met by whatever
\* comes before one that meets it.
LEMMA Prefix ==
  ASSUME NEW n \in Nat, NEW S \in SUBSET (1..n),
         \A i, j \in 1..n : i < j /\ j \in S => i \in S
  PROVE  /\ Cardinality(S) \in 0..n
         /\ S = 1..Cardinality(S)
<1> DEFINE T == {i \in 1..n + 1 : i \notin S}
<1>1. T # {} /\ T \subseteq Nat
  <2>1. n + 1 \in T OBVIOUS
  <2> QED BY <2>1
<1>2. PICK m \in T : \A i \in T : m <= i BY <1>1, LeastNumber
<1>3. m \in 1..n + 1 /\ m \notin S OBVIOUS
<1>4. \A i \in 1..n : i < m => i \in S BY <1>2
<1>5. \A i \in S : i < m
  <2> SUFFICES ASSUME NEW i \in S, ~(i < m) PROVE FALSE OBVIOUS
  <2>1. i # m /\ i \in 1..n BY <1>3
  <2>2. m \in 1..n /\ m < i BY <1>3, <2>1
  <2> QED BY <1>3, <2>1, <2>2
<1>6. S = 1..m - 1
  <2>1. \A i \in 1..m - 1 : i \in S BY <1>3, <1>4
  <2>2. \A i \in S : i \in 1..m - 1 BY <1>3, <1>5
  <2> QED BY <2>1, <2>2
<1>7. Cardinality(S) = m - 1 BY <1>3, <1>6, FS_Interval
<1> QED BY <1>3, <1>6, <1>7

\* The elements below x stand before low, those up to x before high.
Splits(s, x, low, high) ==
  /\ low \in 1 .. Len(s) + 1 /\ high \in 1 .. Len(s) + 1 /\ low <= high
  /\ \A i \in 1 .. Len(s) : (s[i] < x <=> i < low) /\ (s[i] <= x <=> i < high)

LEMMA Bounds ==
  ASSUME NEW s \in Seq(Int), NEW gap \in 0..1, Ordered(s, gap), NEW x \in Int,
         NEW low, low = Cardinality({i \in 1 .. Len(s) : s[i] < x}) + 1,
         NEW high, high = Cardinality({i \in 1 .. Len(s) : s[i] <= x}) + 1
  PROVE  Splits(s, x, low, high)
<1> DEFINE A == {i \in 1 .. Len(s) : s[i] < x}
           B == {i \in 1 .. Len(s) : s[i] <= x}
<1>1. Len(s) \in Nat /\ \A i \in 1 .. Len(s) : s[i] \in Int OBVIOUS
<1>2. \A i, j \in 1 .. Len(s) : i < j => s[i] <= s[j]
  <2>1. \A i, j \in 1 .. Len(s) : i < j => s[i] + gap <= s[j] BY DEF Ordered
  <2> QED BY <1>1, <2>1
<1>3. /\ Cardinality(A) \in 0..Len(s) /\ A = 1..Cardinality(A)
  <2>1. \A i, j \in 1 .. Len(s) : i < j /\ j \in A => i \in A BY <1>1, <1>2
  <2> HIDE DEF A
  <2>2. A \in SUBSET (1 .. Len(s)) BY DEF A
  <2> QED BY <1>1, <2>1, <2>2, Prefix
<1>4. /\ Cardinality(B) \in 0..Len(s) /\ B = 1..Cardinality(B)
  <2>1. \A i, j \in 1 .. Len(s) : i < j /\ j \in B => i \in B BY <1>1, <1>2
  <2> HIDE DEF B
  <2>2. B \in SUBSET (1 .. Len(s)) BY DEF B
  <2> QED BY <1>1, <2>1, <2>2, Prefix
<1>5. low = Cardinality(A) + 1 /\ high = Cardinality(B) + 1 OBVIOUS
<1>6. \A i \in 1 .. Len(s) : (i \in A <=> s[i] < x) /\ (i \in B <=> s[i] <= x) OBVIOUS
<1>7. A \subseteq B BY <1>1
<1> HIDE DEF A, B
<1>8. \A i \in 1 .. Len(s) : (i \in A <=> i < low) /\ (i \in B <=> i < high)
  BY <1>3, <1>4, <1>5
<1>9. low <= high
  <2>1. CASE Cardinality(A) = 0 BY <1>3, <1>4, <1>5, <2>1
  <2>2. CASE Cardinality(A) # 0
    <3>1. Cardinality(A) \in B BY <1>3, <1>7, <2>2
    <3> QED BY <1>3, <1>4, <1>5, <3>1
  <2> QED BY <2>1, <2>2
<1>10. low \in 1 .. Len(s) + 1 /\ high \in 1 .. Len(s) + 1 BY <1>3, <1>4, <1>5
<1> QED BY <1>6, <1>8, <1>9, <1>10 DEF Splits

\* What is between two that were cut out goes away, and the rest stays in order.
CutOut(s, first, last) ==
  [i \in 1 .. Len(s) - (last - first) |-> s[IF i < first THEN i ELSE i + last - first]]

LEMMA CutFacts ==
  ASSUME NEW S, NEW s \in Seq(S), NEW first \in 1 .. Len(s) + 1,
         NEW last \in first .. Len(s) + 1
  PROVE  /\ CutOut(s, first, last) \in Seq(S)
         /\ Len(CutOut(s, first, last)) = Len(s) - (last - first)
         /\ \A i \in 1 .. Len(s) - (last - first) :
              CutOut(s, first, last)[i] = s[IF i < first THEN i ELSE i + last - first]
<1> DEFINE t == CutOut(s, first, last)
           n == Len(s) - (last - first)
<1>1. n \in Nat OBVIOUS
<1>2. \A i \in 1..n : (IF i < first THEN i ELSE i + last - first) \in 1 .. Len(s) OBVIOUS
<1>3. \A i \in 1..n : s[IF i < first THEN i ELSE i + last - first] \in S BY <1>2
<1>4. t = [i \in 1..n |-> s[IF i < first THEN i ELSE i + last - first]] BY DEF CutOut
<1> HIDE DEF t, n
<1>5. t \in [1..n -> S] BY <1>3, <1>4
<1>6. t \in Seq(S) /\ Len(t) = n BY <1>1, <1>5, SeqDef
<1>7. \A i \in 1..n : t[i] = s[IF i < first THEN i ELSE i + last - first] BY <1>4
<1> QED BY <1>6, <1>7 DEF t, n

LEMMA CutStaysOrdered ==
  ASSUME NEW s \in Seq(Int), NEW gap \in 0..1, Ordered(s, gap),
         NEW first \in 1 .. Len(s) + 1, NEW last \in first .. Len(s) + 1
  PROVE  Ordered(CutOut(s, first, last), gap)
<1> DEFINE t == CutOut(s, first, last)
           from(i) == IF i < first THEN i ELSE i + last - first
<1>1. /\ t \in Seq(Int) /\ Len(t) = Len(s) - (last - first)
      /\ \A i \in 1 .. Len(t) : t[i] = s[from(i)]
  <2>1. t \in Seq(Int) /\ Len(t) = Len(s) - (last - first) BY CutFacts
  <2>2. \A i \in 1 .. Len(s) - (last - first) : t[i] = s[from(i)] BY CutFacts
  <2> QED BY <2>1, <2>2
<1>2. \A i \in 1 .. Len(t) : from(i) \in 1 .. Len(s) BY <1>1
<1>3. \A i, j \in 1 .. Len(t) : i < j => from(i) < from(j) BY <1>1
<1> HIDE DEF t, from
<1>4. \A i, j \in 1 .. Len(s) : i < j => s[i] + gap <= s[j]
  BY DEF Ordered
<1>5. \A i, j \in 1 .. Len(t) : i < j => t[i] + gap <= t[j]
  BY <1>1, <1>2, <1>3, <1>4
<1> QED BY <1>5 DEF Ordered, t

Inserted(t, s, where, x) ==
  /\ Len(t) = Len(s) + 1
  /\ \A i \in 1 .. Len(s) + 1 :
       t[i] = IF i < where THEN s[i] ELSE IF i = where THEN x ELSE s[i - 1]

LEMMA InsertFacts ==
  ASSUME NEW S, NEW s \in Seq(S), NEW where \in 1 .. Len(s) + 1, NEW x \in S
  PROVE  /\ Set!InsertAt(s, where, x) \in Seq(S)
         /\ Inserted(Set!InsertAt(s, where, x), s, where, x)
         /\ Set!InsertAt(s, where, x) = Map!InsertAt(s, where, x)
<1> DEFINE a == SubSeq(s, 1, where - 1)
           b == SubSeq(s, where, Len(s))
           t == Set!InsertAt(s, where, x)
<1>1. a \in Seq(S) /\ Len(a) = where - 1 /\ \A i \in 1 .. where - 1 : a[i] = s[i]
  BY SubSeqProperties
<1>2. b \in Seq(S) /\ Len(b) = Len(s) + 1 - where
      /\ \A i \in 1 .. Len(s) + 1 - where : b[i] = s[where + i - 1]
  <2>1. CASE where = Len(s) + 1 BY <2>1, SubSeqProperties
  <2>2. CASE where # Len(s) + 1 BY <2>2, SubSeqProperties
  <2> QED BY <2>1, <2>2
<1>3. t = a \o <<x>> \o b BY DEF Set!InsertAt
<1>4. t = Map!InsertAt(s, where, x) BY DEF Set!InsertAt, Map!InsertAt
<1> HIDE DEF a, b, t
<1>5. a \o <<x>> \in Seq(S) /\ Len(a \o <<x>>) = where
      /\ \A i \in 1..where : (a \o <<x>>)[i] = IF i < where THEN s[i] ELSE x
  BY <1>1
<1>6. t \in Seq(S) /\ Len(t) = Len(s) + 1
  <2> DEFINE c == a \o <<x>>
  <2>1. t = c \o b BY <1>3
  <2> HIDE DEF c
  <2>2. c \in Seq(S) /\ Len(c) = where BY <1>5 DEF c
  <2>3. t \in Seq(S) /\ Len(t) = Len(c) + Len(b) BY <1>2, <2>1, <2>2, ConcatProperties
  <2> QED BY <1>2, <2>2, <2>3
<1>7. ASSUME NEW i \in 1 .. Len(s) + 1
      PROVE  t[i] = IF i < where THEN s[i] ELSE IF i = where THEN x ELSE s[i - 1]
  <2>1. CASE i <= where BY <1>2, <1>3, <1>5, <2>1
  <2>2. CASE i > where
    <3>1. t[i] = b[i - where] BY <1>2, <1>3, <1>5, <2>2
    <3>2. b[i - where] = s[where + (i - where) - 1] BY <1>2, <2>2
    <3> QED BY <2>2, <3>1, <3>2
  <2> QED BY <2>1, <2>2
<1> QED BY <1>4, <1>6, <1>7 DEF Inserted, t

Fits(s, gap, where, x) ==
  \A i \in 1 .. Len(s) : /\ i < where => s[i] + gap <= x
                         /\ i >= where => x + gap <= s[i]

LEMMA InsertStaysOrdered ==
  ASSUME NEW s \in Seq(Int), NEW gap \in 0..1, Ordered(s, gap),
         NEW where \in 1 .. Len(s) + 1, NEW x \in Int, Fits(s, gap, where, x)
  PROVE  Ordered(Set!InsertAt(s, where, x), gap)
<1> DEFINE t == Set!InsertAt(s, where, x)
<1>1. /\ t \in Seq(Int) /\ Len(t) = Len(s) + 1
      /\ \A i \in 1 .. Len(s) + 1 :
           t[i] = IF i < where THEN s[i] ELSE IF i = where THEN x ELSE s[i - 1]
  BY InsertFacts DEF Inserted
<1> HIDE DEF t
<1>2. ASSUME NEW i \in 1 .. Len(t), NEW j \in 1 .. Len(t), i < j
      PROVE  t[i] + gap <= t[j]
  <2> DEFINE from(k) == IF k < where THEN k ELSE k - 1
  <2>0. Len(s) \in Nat /\ where \in 1 .. Len(s) + 1 /\ Len(t) = Len(s) + 1 BY <1>1
  <2>1. ASSUME NEW k \in 1 .. Len(t), k # where
        PROVE  from(k) \in 1 .. Len(s) /\ t[k] = s[from(k)]
    <3>1. CASE k < where BY <1>1, <2>0, <3>1
    <3>2. CASE k > where
      <4>1. from(k) = k - 1 /\ k - 1 \in 1 .. Len(s) BY <2>0, <3>2
      <4>2. t[k] = s[k - 1] BY <1>1, <2>0, <3>2
      <4> QED BY <4>1, <4>2
    <3> QED BY <2>0, <2>1, <3>1, <3>2
  <2>2. CASE i # where /\ j # where
    <3>1. from(i) \in 1 .. Len(s) /\ from(j) \in 1 .. Len(s) /\ from(i) < from(j)
      BY <1>2, <2>0, <2>2
    <3>2. s[from(i)] + gap <= s[from(j)] BY <3>1 DEF Ordered
    <3>3. t[i] = s[from(i)] /\ t[j] = s[from(j)] BY <2>1, <2>2
    <3> QED BY <3>2, <3>3
  <2>3. CASE j = where
    <3>1. i \in 1 .. Len(s) /\ t[i] = s[i] /\ t[j] = x BY <1>1, <1>2, <2>3
    <3>2. s[i] + gap <= x BY <1>2, <2>3, <3>1 DEF Fits
    <3> QED BY <3>1, <3>2
  <2>4. CASE i = where
    <3>1. j - 1 \in 1 .. Len(s) /\ t[j] = s[j - 1] /\ t[i] = x /\ j - 1 >= where
      BY <1>1, <1>2, <2>4
    <3>2. x + gap <= s[j - 1] BY <3>1 DEF Fits
    <3> QED BY <3>1, <3>2
  <2> QED BY <2>2, <2>3, <2>4
<1> QED BY <1>2 DEF Ordered, t

(***************************************************************************)
(* A finite set of numbers from the least to the greatest.                 *)
(***************************************************************************)
Ranked(S) == [n \in 1 .. Cardinality(S) |->
                CHOOSE x \in S : Cardinality({y \in S : y <= x}) = n]

LEMMA RankedRises ==
  ASSUME NEW S \in SUBSET Int, IsFiniteSet(S)
  PROVE  /\ Cardinality(S) \in Nat
         /\ Ranked(S) \in [1 .. Cardinality(S) -> S]
         /\ \A m, n \in 1 .. Cardinality(S) : m < n => Ranked(S)[m] < Ranked(S)[n]
<1> DEFINE upTo(x) == {y \in S : y <= x}
           R == {r \in S \X S : r[1] <= r[2]}
           N == Cardinality(S)
           r == Ranked(S)
<1>1. N \in Nat BY FS_CardinalityType
<1>2. ASSUME NEW n \in 1..N PROVE \E x \in S : Cardinality(upTo(x)) = n
  <2>1. \A x, y \in S : <<x, y>> \in R <=> x <= y OBVIOUS
  <2>2. \A x \in S : upTo(x) = Precede(S, R, x) BY <2>1 DEF Precede
  <2> HIDE DEF R, upTo
  <2>3. Orders(R, S) BY <2>1 DEF Orders
  <2>4. PICK x \in S : Cardinality(Precede(S, R, x)) = n
    BY <2>3, Ranks
  <2> QED BY <2>2, <2>4
<1>3. r = [n \in 1..N |-> CHOOSE x \in S : Cardinality(upTo(x)) = n] BY DEF Ranked
<1> HIDE DEF r, upTo
<1>4. ASSUME NEW n \in 1..N PROVE r[n] \in S /\ Cardinality(upTo(r[n])) = n
  BY <1>2, <1>3
<1>5. r \in [1..N -> S] BY <1>3, <1>4
<1>6. ASSUME NEW m \in 1..N, NEW n \in 1..N, m < n PROVE r[m] < r[n]
  <2>0. r[m] \in Int /\ r[n] \in Int BY <1>4
  <2> SUFFICES ASSUME r[n] <= r[m] PROVE FALSE BY <2>0
  <2>1. upTo(r[n]) \subseteq upTo(r[m])
    <3>1. ASSUME NEW y \in S, y <= r[n] PROVE y <= r[m]
      <4>1. y \in Int OBVIOUS
      <4> QED BY <2>0, <3>1, <4>1
    <3> QED BY <3>1 DEF upTo
  <2>2. IsFiniteSet(upTo(r[m])) BY FS_Subset DEF upTo
  <2>3. Cardinality(upTo(r[n])) <= Cardinality(upTo(r[m])) BY <2>1, <2>2, FS_Subset
  <2> QED BY <1>4, <1>6, <2>3
<1> QED BY <1>1, <1>5, <1>6 DEF r

-----------------------------------------------------------------------------
(***************************************************************************)
(* FlatMap.                                                                *)
(***************************************************************************)
KeysOf(s) == [i \in 1 .. Len(s) |-> s[i].first]
MapIInv == Map!TypeOK /\ Ordered(KeysOf(pairs), Gap(mapUnique))

LEMMA PairFacts ==
  /\ \A pair \in Map!Pairs : pair.first \in MapKeys /\ pair.first \in Int /\ pair.second \in Values
  /\ \A k \in MapKeys, v \in Values :
       Map!Pair(k, v) \in Map!Pairs /\ Map!Pair(k, v).first = k /\ Map!Pair(k, v).second = v
BY ContainersAssumption DEF Map!Pairs, Map!Pair

LEMMA KeysFacts ==
  ASSUME NEW s \in Seq(Map!Pairs)
  PROVE  /\ KeysOf(s) \in Seq(Int) /\ Len(KeysOf(s)) = Len(s)
         /\ \A i \in 1 .. Len(s) : KeysOf(s)[i] = s[i].first /\ s[i] \in Map!Pairs
                                /\ s[i].first \in Int
<1>1. Len(s) \in Nat /\ \A i \in 1 .. Len(s) : s[i] \in Map!Pairs OBVIOUS
<1>2. \A i \in 1 .. Len(s) : s[i].first \in Int BY <1>1, PairFacts
<1>3. KeysOf(s) \in [1 .. Len(s) -> Int] BY <1>2 DEF KeysOf
<1>4. KeysOf(s) \in Seq(Int) /\ Len(KeysOf(s)) = Len(s) BY <1>1, <1>3, SeqDef
<1> QED BY <1>1, <1>2, <1>4 DEF KeysOf

LEMMA GapFacts == \A u \in BOOLEAN : Gap(u) \in 0..1
BY DEF Gap

LEMMA MapFacts ==
  ASSUME MapIInv
  PROVE  /\ mapUnique \in BOOLEAN /\ pairs \in Seq(Map!Pairs) /\ Map!size = Len(pairs)
         /\ Len(pairs) \in Nat
         /\ Ordered(KeysOf(pairs), Gap(mapUnique)) /\ Gap(mapUnique) \in 0..1
         /\ \A i \in 1 .. Len(pairs) : Map!key(i) = KeysOf(pairs)[i] /\ Map!key(i) \in Int
BY GapFacts, KeysFacts DEF MapIInv, Map!TypeOK, Map!size, Map!key

LEMMA MapBounds ==
  ASSUME MapIInv, NEW k \in MapKeys
  PROVE  /\ Map!LowerBound(k) \in 1 .. Len(pairs) + 1
         /\ Map!UpperBound(k) \in 1 .. Len(pairs) + 1
         /\ Map!LowerBound(k) <= Map!UpperBound(k)
         /\ \A i \in 1 .. Len(pairs) : /\ Map!key(i) < k <=> i < Map!LowerBound(k)
                                       /\ Map!key(i) <= k <=> i < Map!UpperBound(k)
<1> DEFINE s == KeysOf(pairs)
<1>1. s \in Seq(Int) /\ Len(s) = Len(pairs) /\ Ordered(s, Gap(mapUnique))
  BY MapFacts, KeysFacts
<1>2. \A i \in 1 .. Len(pairs) : Map!key(i) = s[i] BY MapFacts
<1>3. Map!LowerBound(k) = Cardinality({i \in 1 .. Len(s) : s[i] < k}) + 1
  <2>1. {i \in 1 .. Map!size : Map!key(i) < k} = {i \in 1 .. Len(s) : s[i] < k}
    BY <1>1, <1>2, MapFacts
  <2> QED BY <2>1, SetCardinality DEF Map!LowerBound
<1>4. Map!UpperBound(k) = Cardinality({i \in 1 .. Len(s) : s[i] <= k}) + 1
  <2>1. {i \in 1 .. Map!size : Map!key(i) <= k} = {i \in 1 .. Len(s) : s[i] <= k}
    BY <1>1, <1>2, MapFacts
  <2> QED BY <2>1, SetCardinality DEF Map!UpperBound
<1> HIDE DEF s
<1>5. k \in Int BY ContainersAssumption
<1>6. Gap(mapUnique) \in 0..1 BY MapFacts
<1>7. PICK low, high : low = Map!LowerBound(k) /\ high = Map!UpperBound(k) OBVIOUS
<1>8. Splits(s, k, low, high) BY <1>1, <1>3, <1>4, <1>5, <1>6, <1>7, Bounds
<1> QED BY <1>1, <1>2, <1>7, <1>8 DEF Splits

\* A pair that stands where its key belongs.
LEMMA PutKeeps ==
  ASSUME MapIInv, NEW where \in 1 .. Len(pairs) + 1, NEW pair \in Map!Pairs,
         Map!Put(where, pair), Fits(KeysOf(pairs), Gap(mapUnique), where, pair.first)
  PROVE  /\ mapUnique' = mapUnique /\ pairs' \in Seq(Map!Pairs)
         /\ Ordered(KeysOf(pairs'), Gap(mapUnique'))
<1> DEFINE s == KeysOf(pairs)
           t == Set!InsertAt(s, where, pair.first)
<1>0. /\ pairs \in Seq(Map!Pairs) /\ Len(pairs) \in Nat
      /\ Ordered(s, Gap(mapUnique)) /\ Gap(mapUnique) \in 0..1
  BY MapFacts
<1>1. s \in Seq(Int) /\ Len(s) = Len(pairs) /\ pair.first \in Int
      /\ \A i \in 1 .. Len(pairs) : s[i] = pairs[i].first
  BY <1>0, KeysFacts, PairFacts
<1>2. pairs' \in Seq(Map!Pairs) /\ Inserted(pairs', pairs, where, pair)
  BY <1>0, InsertFacts DEF Map!Put
<1> HIDE DEF s, t
<1>3. t \in Seq(Int) /\ Inserted(t, s, where, pair.first) BY <1>1, InsertFacts DEF t
<1>4. KeysOf(pairs') = t
  <2>1. KeysOf(pairs') \in Seq(Int) /\ Len(KeysOf(pairs')) = Len(pairs) + 1
    BY <1>2, KeysFacts DEF Inserted
  <2>2. ASSUME NEW i \in 1 .. Len(pairs) + 1 PROVE KeysOf(pairs')[i] = t[i]
    <3>1. KeysOf(pairs')[i] = pairs'[i].first BY <1>2 DEF KeysOf, Inserted
    <3>2. CASE i < where
      <4>1. i \in 1 .. Len(pairs) BY <1>0, <3>2
      <4>2. pairs'[i] = pairs[i] BY <1>2, <3>2 DEF Inserted
      <4>3. t[i] = s[i] BY <1>1, <1>3, <3>2 DEF Inserted
      <4> QED BY <1>1, <3>1, <4>1, <4>2, <4>3
    <3>3. CASE i = where BY <1>1, <1>2, <1>3, <3>1, <3>3 DEF Inserted
    <3>4. CASE i > where
      <4>1. i - 1 \in 1 .. Len(pairs) BY <1>0, <3>4
      <4>2. pairs'[i] = pairs[i - 1] BY <1>2, <3>4 DEF Inserted
      <4>3. t[i] = s[i - 1] BY <1>1, <1>3, <3>4 DEF Inserted
      <4> QED BY <1>1, <3>1, <4>1, <4>2, <4>3
    <3> QED BY <1>0, <3>2, <3>3, <3>4
  <2> QED BY <1>1, <1>3, <2>1, <2>2, SeqEqual DEF Inserted
<1>5. Ordered(t, Gap(mapUnique)) BY <1>0, <1>1, InsertStaysOrdered DEF s, t
<1>6. mapUnique' = mapUnique BY DEF Map!Put
<1> QED BY <1>2, <1>4, <1>5, <1>6

MapStays == /\ mapUnique' = mapUnique /\ pairs' \in Seq(Map!Pairs)
            /\ Ordered(KeysOf(pairs'), Gap(mapUnique'))

LEMMA MapCutKeeps ==
  ASSUME MapIInv, NEW first \in 1 .. Len(pairs) + 1, NEW last \in first .. Len(pairs) + 1,
         Map!Cut(first, last)
  PROVE  MapStays
<1> DEFINE s == KeysOf(pairs)
           t == CutOut(s, first, last)
           n == Len(pairs) - (last - first)
           from(i) == IF i < first THEN i ELSE i + last - first
<1>0. /\ pairs \in Seq(Map!Pairs) /\ Len(pairs) \in Nat /\ Map!size = Len(pairs)
      /\ Ordered(s, Gap(mapUnique)) /\ Gap(mapUnique) \in 0..1
  BY MapFacts
<1>1. s \in Seq(Int) /\ Len(s) = Len(pairs) /\ \A i \in 1 .. Len(pairs) : s[i] = pairs[i].first
  BY <1>0, KeysFacts
<1>2. pairs' = CutOut(pairs, first, last) BY <1>0 DEF Map!Cut, CutOut
<1>3. /\ pairs' \in Seq(Map!Pairs) /\ Len(pairs') = n
      /\ \A i \in 1..n : pairs'[i] = pairs[from(i)]
  BY <1>0, <1>2, CutFacts
<1> HIDE DEF s, t
<1>4. /\ t \in Seq(Int) /\ Len(t) = n
      /\ \A i \in 1..n : t[i] = s[from(i)]
  <2>0. s \in Seq(Int) /\ first \in 1 .. Len(s) + 1 /\ last \in first .. Len(s) + 1 BY <1>1
  <2>1. t \in Seq(Int) /\ Len(t) = Len(s) - (last - first) BY <2>0, CutFacts DEF t
  <2>2. \A i \in 1 .. Len(s) - (last - first) : t[i] = s[from(i)] BY <2>0, CutFacts DEF t
  <2> QED BY <1>1, <2>1, <2>2
<1>5. KeysOf(pairs') = t
  <2>1. KeysOf(pairs') \in Seq(Int) /\ Len(KeysOf(pairs')) = n BY <1>3, KeysFacts
  <2>2. ASSUME NEW i \in 1..n PROVE KeysOf(pairs')[i] = t[i]
    <3>1. KeysOf(pairs')[i] = pairs'[i].first BY <1>3 DEF KeysOf
    <3>2. from(i) \in 1 .. Len(pairs) BY <1>0
    <3> HIDE DEF from
    <3> QED BY <1>1, <1>3, <1>4, <3>1, <3>2
  <2> QED BY <1>4, <2>1, <2>2, SeqEqual
<1>6. Ordered(t, Gap(mapUnique)) BY <1>0, <1>1, CutStaysOrdered DEF t
<1>7. mapUnique' = mapUnique BY DEF Map!Cut
<1> QED BY <1>3, <1>5, <1>6, <1>7 DEF MapStays

\* Values may be assigned to, keys stay.
LEMMA SameKeysKeep ==
  ASSUME MapIInv, NEW i \in 1 .. Len(pairs), NEW pair \in Map!Pairs,
         pair.first = Map!key(i), pairs' = [pairs EXCEPT ![i] = pair], mapUnique' = mapUnique
  PROVE  MapStays
<1>0. /\ pairs \in Seq(Map!Pairs) /\ Ordered(KeysOf(pairs), Gap(mapUnique))
      /\ Map!key(i) = KeysOf(pairs)[i]
  BY MapFacts
<1>1. pairs' \in Seq(Map!Pairs) /\ Len(pairs') = Len(pairs) BY <1>0
<1>2. ASSUME NEW j \in 1 .. Len(pairs) PROVE pairs'[j].first = pairs[j].first
  <2>1. KeysOf(pairs)[j] = pairs[j].first BY <1>0, KeysFacts
  <2>2. CASE j = i
    <3>1. pairs'[j] = pair BY <1>0, <2>2
    <3> QED BY <1>0, <2>1, <2>2, <3>1
  <2>3. CASE j # i
    <3>1. pairs'[j] = pairs[j] BY <1>0, <2>3
    <3> QED BY <3>1
  <2> QED BY <2>2, <2>3
<1>3. KeysOf(pairs') = KeysOf(pairs) BY <1>1, <1>2 DEF KeysOf
<1> QED BY <1>0, <1>1, <1>3 DEF MapStays

LEMMA MapKeeps ==
  ASSUME MapIInv, Map!Keep PROVE MapStays
BY MapFacts DEF Map!Keep, MapStays

\* A key that is not new, or not missing, is the one at its lower bound.
LEMMA KeyIsThere ==
  ASSUME MapIInv, NEW k \in MapKeys,
         ~Map!Missing(k) \/ ~Map!IsNew(k)
  PROVE  Map!LowerBound(k) \in 1 .. Len(pairs) /\ Map!key(Map!LowerBound(k)) = k
<1>0. /\ Map!size = Len(pairs) /\ Len(pairs) \in Nat /\ k \in Int
      /\ \A i \in 1 .. Len(pairs) : Map!key(i) \in Int
  BY MapFacts, ContainersAssumption
<1>1. /\ Map!LowerBound(k) \in 1 .. Len(pairs) + 1
      /\ \A i \in 1 .. Len(pairs) : Map!key(i) < k <=> i < Map!LowerBound(k)
  BY MapBounds
<1>2. Len(pairs) # 0 /\ ~(Map!key(Len(pairs)) < k) /\ ~(k < Map!key(Map!LowerBound(k)))
  BY <1>0 DEF Map!Missing, Map!Outside, Map!IsNew, Map!AtEnd
<1>3. Map!LowerBound(k) \in 1 .. Len(pairs) BY <1>0, <1>1, <1>2
<1>4. ~(Map!key(Map!LowerBound(k)) < k) BY <1>1, <1>3
<1> QED BY <1>0, <1>2, <1>3, <1>4

LEMMA NewKeyFits ==
  ASSUME MapIInv, mapUnique, NEW k \in MapKeys, Map!IsNew(k)
  PROVE  /\ Map!Place(k) \in 1 .. Len(pairs) + 1
         /\ Fits(KeysOf(pairs), Gap(mapUnique), Map!Place(k), k)
<1> DEFINE s == KeysOf(pairs)
           gap == Gap(mapUnique)
<1>0. /\ Map!size = Len(pairs) /\ Len(pairs) \in Nat /\ k \in Int /\ gap = 1
      /\ Len(s) = Len(pairs) /\ \A i \in 1 .. Len(pairs) : Map!key(i) \in Int /\ Map!key(i) = s[i]
      /\ Ordered(s, 1)
  BY MapFacts, KeysFacts, ContainersAssumption DEF Gap, gap
<1>1. /\ Map!LowerBound(k) \in 1 .. Len(pairs) + 1
      /\ \A i \in 1 .. Len(pairs) : Map!key(i) < k <=> i < Map!LowerBound(k)
  BY MapBounds
<1> HIDE DEF s, gap
<1>2. \A i, j \in 1 .. Len(pairs) : i < j => s[i] + 1 <= s[j] BY <1>0 DEF Ordered
<1>3. CASE Map!AtEnd(k)
  <2>1. Map!Place(k) = Len(pairs) + 1 BY <1>0, <1>3 DEF Map!Place
  <2>2. \A i \in 1 .. Len(pairs) : s[i] < k
    <3>1. Len(pairs) = 0 \/ Map!key(Len(pairs)) < k BY <1>0, <1>3 DEF Map!AtEnd
    <3>2. CASE Len(pairs) # 0
      <4>1. Len(pairs) < Map!LowerBound(k) BY <1>0, <1>1, <3>1, <3>2
      <4> QED BY <1>0, <1>1, <4>1
    <3> QED BY <1>0, <3>2
  <2>3. \A i \in 1 .. Len(pairs) : s[i] + 1 <= k BY <1>0, <2>2
  <2>4. ASSUME NEW i \in 1 .. Len(s)
        PROVE  i < Map!Place(k) /\ s[i] + 1 <= k
    BY <1>0, <2>1, <2>3
  <2>5. Fits(s, gap, Map!Place(k), k) BY <1>0, <2>1, <2>4 DEF Fits
  <2>6. Map!Place(k) \in 1 .. Len(pairs) + 1 BY <1>0, <2>1
  <2> QED BY <2>5, <2>6, Zenon DEF s, gap
<1>4. CASE ~Map!AtEnd(k)
  <2>1. Map!Place(k) = Map!LowerBound(k) /\ k < Map!key(Map!LowerBound(k))
    BY <1>4 DEF Map!Place, Map!IsNew
  <2>2. Len(pairs) # 0 /\ ~(Map!key(Len(pairs)) < k) BY <1>0, <1>4 DEF Map!AtEnd
  <2>3. Map!LowerBound(k) \in 1 .. Len(pairs) BY <1>0, <1>1, <2>2
  <2>4. ASSUME NEW i \in 1 .. Len(pairs)
        PROVE  /\ i < Map!LowerBound(k) => s[i] + 1 <= k
               /\ i >= Map!LowerBound(k) => k + 1 <= s[i]
    <3>1. CASE i < Map!LowerBound(k) BY <1>0, <1>1, <3>1
    <3>2. CASE i >= Map!LowerBound(k)
      <4>1. k < s[Map!LowerBound(k)] /\ s[Map!LowerBound(k)] \in Int BY <1>0, <2>1, <2>3
      <4>2. s[Map!LowerBound(k)] <= s[i]
        <5>1. CASE i = Map!LowerBound(k) BY <4>1, <5>1
        <5>2. CASE i > Map!LowerBound(k) BY <1>0, <1>2, <2>3, <4>1, <5>2
        <5> QED BY <2>3, <3>2, <5>1, <5>2
      <4> QED BY <1>0, <2>3, <3>2, <4>1, <4>2
    <3> QED BY <2>3, <3>1, <3>2
  <2>5. Fits(s, gap, Map!Place(k), k) BY <1>0, <2>1, <2>4 DEF Fits
  <2>6. Map!Place(k) \in 1 .. Len(pairs) + 1 BY <1>0, <2>1, <2>3
  <2> QED BY <2>5, <2>6, Zenon DEF s, gap
<1> QED BY <1>3, <1>4

LEMMA MapInsertFits ==
  ASSUME MapIInv, ~mapUnique, NEW k \in MapKeys, NEW where,
         where = IF Map!size = 0 \/ Map!key(Map!size) <= k THEN Map!size + 1
                 ELSE Map!UpperBound(k)
  PROVE  where \in 1 .. Len(pairs) + 1 /\ Fits(KeysOf(pairs), Gap(mapUnique), where, k)
<1> DEFINE s == KeysOf(pairs)
           gap == Gap(mapUnique)
<1>0. /\ Map!size = Len(pairs) /\ Len(pairs) \in Nat /\ k \in Int /\ gap = 0
      /\ Len(s) = Len(pairs) /\ \A i \in 1 .. Len(pairs) : Map!key(i) \in Int /\ Map!key(i) = s[i]
  BY MapFacts, KeysFacts, ContainersAssumption DEF Gap
<1>1. /\ Map!UpperBound(k) \in 1 .. Len(pairs) + 1
      /\ \A i \in 1 .. Len(pairs) : Map!key(i) <= k <=> i < Map!UpperBound(k)
  BY MapBounds
<1> HIDE DEF s, gap
<1>2. CASE Map!size = 0 \/ Map!key(Map!size) <= k
  <2>1. where = Len(pairs) + 1 BY <1>0, <1>2
  <2>2. ASSUME NEW i \in 1 .. Len(pairs) PROVE s[i] <= k
    <3>1. Len(pairs) < Map!UpperBound(k) BY <1>0, <1>1, <1>2
    <3> QED BY <1>0, <1>1, <3>1
  <2>3. ASSUME NEW i \in 1 .. Len(s) PROVE i < where /\ s[i] + gap <= k
    BY <1>0, <2>1, <2>2
  <2>4. Fits(s, gap, where, k) BY <1>0, <2>1, <2>3 DEF Fits
  <2>5. where \in 1 .. Len(pairs) + 1 BY <1>0, <2>1
  <2> QED BY <2>4, <2>5, Zenon DEF s, gap
<1>3. CASE ~(Map!size = 0 \/ Map!key(Map!size) <= k)
  <2>1. where = Map!UpperBound(k) BY <1>3
  <2>2. ASSUME NEW i \in 1 .. Len(s)
        PROVE  /\ i < where => s[i] + gap <= k
               /\ i >= where => k + gap <= s[i]
    BY <1>0, <1>1, <2>1
  <2>3. Fits(s, gap, where, k) BY <2>2 DEF Fits
  <2>4. where \in 1 .. Len(pairs) + 1 BY <1>1, <2>1
  <2> QED BY <2>3, <2>4, Zenon DEF s, gap
<1> QED BY <1>2, <1>3

(***************************************************************************)
(* Each operation.                                                         *)
(***************************************************************************)
LEMMA MapInserts ==
  ASSUME MapIInv, NEW pair \in Map!Pairs, Map!insert(pair)
  PROVE  MapStays /\ mapReturned' = 1
<1> DEFINE where == IF Map!size = 0 \/ Map!key(Map!size) <= pair.first THEN Map!size + 1
                    ELSE Map!UpperBound(pair.first)
<1>1. ~mapUnique /\ Map!Put(where, pair) /\ mapReturned' = 1
  BY DEF Map!insert, Map!Result
<1>2. pair.first \in MapKeys BY PairFacts
<1> HIDE DEF where
<1>3. where = IF Map!size = 0 \/ Map!key(Map!size) <= pair.first THEN Map!size + 1
              ELSE Map!UpperBound(pair.first)
  BY DEF where
<1>4. where \in 1 .. Len(pairs) + 1 /\ Fits(KeysOf(pairs), Gap(mapUnique), where, pair.first)
  BY <1>1, <1>2, <1>3, MapInsertFits
<1> QED BY <1>1, <1>4, PutKeeps DEF MapStays

LEMMA PutsNewKey ==
  ASSUME MapIInv, mapUnique, NEW pair \in Map!Pairs, Map!IsNew(pair.first),
         Map!Put(Map!Place(pair.first), pair)
  PROVE  MapStays
<1>1. pair.first \in MapKeys BY PairFacts
<1> QED BY <1>1, NewKeyFits, PutKeeps DEF MapStays

LEMMA MapInsertsUnique ==
  ASSUME MapIInv, NEW pair \in Map!Pairs, Map!insertUnique(pair)
  PROVE  MapStays /\ mapReturned' \in 0..1
<1>1. CASE Map!IsNew(pair.first)
  BY <1>1, PutsNewKey DEF Map!insertUnique, Map!Result
<1>2. CASE ~Map!IsNew(pair.first)
  BY <1>2, MapKeeps DEF Map!insertUnique, Map!Result
<1> QED BY <1>1, <1>2

LEMMA MapAssigns ==
  ASSUME MapIInv, NEW pair \in Map!Pairs, Map!insert_or_assign(pair)
  PROVE  MapStays /\ mapReturned' \in 0..1
<1>1. CASE Map!IsNew(pair.first)
  BY <1>1, PutsNewKey DEF Map!insert_or_assign, Map!Result
<1>2. CASE ~Map!IsNew(pair.first)
  <2>1. /\ pairs' = [pairs EXCEPT ![Map!LowerBound(pair.first)] = pair]
        /\ mapUnique' = mapUnique /\ mapReturned' = 0
    BY <1>2 DEF Map!insert_or_assign, Map!Result
  <2>2. PICK at : at = Map!LowerBound(pair.first) OBVIOUS
  <2>3. at \in 1 .. Len(pairs) /\ Map!key(at) = pair.first
    BY <1>2, <2>2, PairFacts, KeyIsThere
  <2>4. pairs' = [pairs EXCEPT ![at] = pair] /\ mapUnique' = mapUnique BY <2>1, <2>2
  <2>5. MapStays BY <2>3, <2>4, SameKeysKeep
  <2> QED BY <2>1, <2>5
<1> QED BY <1>1, <1>2

LEMMA MapSubscripts ==
  ASSUME MapIInv, NEW k \in MapKeys, Map!subscript(k)
  PROVE  MapStays /\ mapReturned' \in Values
<1>1. CASE Map!IsNew(k)
  <2>1. Map!Pair(k, Default) \in Map!Pairs /\ Map!Pair(k, Default).first = k
    BY PairFacts, ContainersAssumption
  <2> QED BY <1>1, <2>1, PutsNewKey, ContainersAssumption DEF Map!subscript, Map!Result
<1>2. CASE ~Map!IsNew(k)
  <2>1. Map!LowerBound(k) \in 1 .. Len(pairs) BY <1>2, KeyIsThere
  <2>2. pairs[Map!LowerBound(k)].second \in Values BY <2>1, MapFacts, PairFacts
  <2> QED BY <1>2, <2>2, MapKeeps DEF Map!subscript, Map!Result
<1> QED BY <1>1, <1>2

LEMMA MapValueAssigned ==
  ASSUME MapIInv, NEW i \in 1 .. Map!size, NEW v \in Values, Map!Assign(i, v)
  PROVE  MapStays /\ mapReturned' = 0
<1> DEFINE pair == [pairs[i] EXCEPT !.second = v]
<1>1. i \in 1 .. Len(pairs) /\ pairs[i] \in Map!Pairs BY MapFacts
<1>2. pair \in Map!Pairs /\ pair.first = Map!key(i) BY <1>1 DEF Map!Pairs, Map!key
<1>3. pairs' = [pairs EXCEPT ![i] = pair] /\ mapUnique' = mapUnique /\ mapReturned' = 0
  BY DEF Map!Assign, Map!Result
<1> HIDE DEF pair
<1> QED BY <1>1, <1>2, <1>3, SameKeysKeep

LEMMA MapRemovesOne ==
  ASSUME MapIInv, NEW k \in MapKeys, Map!removeOne(k)
  PROVE  MapStays /\ mapReturned' \in 0..1
<1>1. CASE Map!Missing(k)
  BY <1>1, MapKeeps DEF Map!removeOne, Map!Result
<1>2. CASE ~Map!Missing(k)
  <2>1. Map!LowerBound(k) \in 1 .. Len(pairs) BY <1>2, KeyIsThere
  <2>2. Map!Cut(Map!LowerBound(k), Map!LowerBound(k) + 1) /\ mapReturned' = 1
    BY <1>2 DEF Map!removeOne, Map!Result
  <2> QED BY <2>1, <2>2, MapCutKeeps, MapFacts
<1> QED BY <1>1, <1>2

LEMMA MapRemovesAll ==
  ASSUME MapIInv, NEW k \in MapKeys, Map!removeAll(k)
  PROVE  MapStays /\ mapReturned' \in Nat
<1>1. CASE Map!Outside(k)
  BY <1>1, MapKeeps DEF Map!removeAll, Map!Result
<1>2. CASE ~Map!Outside(k)
  <2>1. Map!LowerBound(k) \in 1 .. Len(pairs) + 1
        /\ Map!UpperBound(k) \in Map!LowerBound(k) .. Len(pairs) + 1
    BY MapBounds, MapFacts
  <2>2. Map!Cut(Map!LowerBound(k), Map!UpperBound(k))
        /\ mapReturned' = Map!UpperBound(k) - Map!LowerBound(k)
    BY <1>2 DEF Map!removeAll, Map!Result
  <2> QED BY <2>1, <2>2, MapCutKeeps, MapFacts
<1> QED BY <1>1, <1>2

LEMMA MapRemoves ==
  ASSUME MapIInv, NEW k \in MapKeys, NEW v \in Values, Map!remove(k, v)
  PROVE  MapStays /\ mapReturned' \in 0..1
<1> DEFINE where == {i \in Map!LowerBound(k) .. Map!size : pairs[i] = Map!Pair(k, v)}
<1>1. CASE Map!Outside(k) \/ where = {}
  BY <1>1, MapKeeps DEF Map!remove, Map!Result
<1>2. CASE ~(Map!Outside(k) \/ where = {})
  <2>1. Map!Cut(Map!Min(where), Map!Min(where) + 1) /\ mapReturned' = 1
    BY <1>2 DEF Map!remove, Map!Result
  <2>6. where # {} BY <1>2
  <2>2. where \subseteq 1 .. Len(pairs) BY MapBounds, MapFacts
  <2> HIDE DEF where
  <2>3. \E x \in where : \A y \in where : x <= y
    <3>1. where \subseteq Nat /\ where # {} BY <2>6, <2>2
    <3> QED BY <3>1, LeastNumber
  <2>4. Map!Min(where) \in where BY <2>3 DEF Map!Min
  <2>5. Map!Min(where) \in 1 .. Len(pairs) BY <2>2, <2>4
  <2> QED BY <2>1, <2>5, MapCutKeeps, MapFacts
<1> QED BY <1>1, <1>2

LEMMA MapErases ==
  ASSUME MapIInv, NEW from \in 1 .. Map!size + 1, NEW till \in 1 .. Map!size + 1,
         Map!erase(from, till)
  PROVE  MapStays /\ mapReturned' \in Nat
<1>1. from \in 1 .. Len(pairs) + 1 /\ till \in from .. Len(pairs) + 1
  BY MapFacts DEF Map!erase
<1>2. Map!Cut(from, till) /\ mapReturned' = till - from
  BY DEF Map!erase, Map!Result
<1> QED BY <1>1, <1>2, MapCutKeeps, MapFacts

LEMMA MapTakes ==
  ASSUME MapIInv, NEW k \in MapKeys, Map!take(k)
  PROVE  MapStays /\ mapReturned' \in Values \union {None}
<1>1. CASE Map!Missing(k)
  BY <1>1, MapKeeps DEF Map!take, Map!Result
<1>2. CASE ~Map!Missing(k)
  <2>1. Map!LowerBound(k) \in 1 .. Len(pairs) BY <1>2, KeyIsThere
  <2>2. pairs[Map!LowerBound(k)].second \in Values BY <2>1, MapFacts, PairFacts
  <2>3. Map!Cut(Map!LowerBound(k), Map!LowerBound(k) + 1)
        /\ mapReturned' = pairs[Map!LowerBound(k)].second
    BY <1>2 DEF Map!take, Map!Result
  <2> QED BY <2>1, <2>2, <2>3, MapCutKeeps, MapFacts
<1> QED BY <1>1, <1>2

LEMMA MapFinds ==
  ASSUME MapIInv, NEW k \in MapKeys, Map!find(k) \/ Map!count(k)
  PROVE  MapStays /\ mapReturned' \in Nat \union Values \union {None}
<1>1. CASE Map!find(k)
  <2>1. ~Map!Missing(k) => pairs[Map!LowerBound(k)].second \in Values
    <3> SUFFICES ASSUME ~Map!Missing(k) PROVE pairs[Map!LowerBound(k)].second \in Values
      OBVIOUS
    <3>1. Map!LowerBound(k) \in 1 .. Len(pairs) BY KeyIsThere
    <3> QED BY <3>1, MapFacts, PairFacts
  <2> QED BY <1>1, <2>1, MapKeeps DEF Map!find, Map!Result
<1>2. CASE Map!count(k)
  <2>1. Map!UpperBound(k) - Map!LowerBound(k) \in Nat BY MapBounds
  <2> QED BY <1>2, <2>1, MapKeeps DEF Map!count, Map!Result
<1> QED BY <1>1, <1>2

LEMMA MapStep ==
  ASSUME MapIInv, Map!Next \/ UNCHANGED mapVars
  PROVE  MapIInv'
<1>1. CASE UNCHANGED mapVars
  BY <1>1 DEF MapIInv, mapVars, Map!TypeOK
<1>2. MapStays /\ mapReturned' \in Nat \union Values \union {None} => MapIInv'
  <2> SUFFICES ASSUME MapStays, mapReturned' \in Nat \union Values \union {None} PROVE MapIInv'
    OBVIOUS
  <2>1. Map!TypeOK' BY MapFacts DEF MapStays, Map!TypeOK
  <2> QED BY <2>1 DEF MapStays, MapIInv
<1>3. ASSUME NEW pair \in Map!Pairs,
             Map!insert(pair) \/ Map!insertUnique(pair) \/ Map!insert_or_assign(pair)
      PROVE  MapIInv'
  <2>1. MapStays /\ mapReturned' \in 0..1
    BY <1>3, MapInserts, MapInsertsUnique, MapAssigns
  <2> QED BY <1>2, <2>1
<1>4. ASSUME NEW k \in MapKeys,
             \/ Map!subscript(k) \/ Map!removeOne(k) \/ Map!removeAll(k) \/ Map!take(k)
             \/ Map!find(k) \/ Map!count(k) \/ \E v \in Values : Map!remove(k, v)
      PROVE  MapIInv'
  <2>1. MapStays /\ mapReturned' \in Nat \union Values \union {None}
    BY <1>4, MapSubscripts, MapRemovesOne, MapRemovesAll, MapTakes, MapFinds, MapRemoves
  <2> QED BY <1>2, <2>1
<1>5. ASSUME NEW i \in 1 .. Map!size, NEW v \in Values, Map!Assign(i, v) PROVE MapIInv'
  BY <1>2, <1>5, MapValueAssigned
<1>6. ASSUME NEW from \in 1 .. Map!size + 1, NEW till \in 1 .. Map!size + 1,
             Map!erase(from, till)
      PROVE  MapIInv'
  BY <1>2, <1>6, MapErases
<1> QED BY <1>1, <1>3, <1>4, <1>5, <1>6 DEF Map!Next

LEMMA MapStart == Map!Init => MapIInv
<1> SUFFICES ASSUME Map!Init PROVE MapIInv OBVIOUS
<1>1. PICK list \in Map!BoundedSeq(Map!Pairs, MaxList) : Map!Construct(list) BY DEF Map!Init
<1>2. list \in Seq(Map!Pairs)
  <2>1. PICK n \in 0 .. MaxList : list \in [1..n -> Map!Pairs]
    BY DEF Map!BoundedSeq, Map!SeqOf
  <2> QED BY <2>1, ContainersAssumption, SeqDef
<1>3. PICK p \in Map!Bijection(DOMAIN list, DOMAIN list) :
        /\ Map!SortedBy(list, p)
        /\ pairs = Map!finalize([i \in DOMAIN list |-> list[p[i]]])
  BY <1>1 DEF Map!Construct
<1> DEFINE n == Len(list)
           s == [i \in DOMAIN list |-> list[p[i]]]
<1>4. n \in Nat /\ DOMAIN list = 1..n /\ \A i \in 1..n : list[i] \in Map!Pairs BY <1>2
<1>5. p \in [1..n -> 1..n]
  BY <1>3, <1>4 DEF Map!Bijection, Map!Injection, Map!IsInjective
<1>6. s \in [1..n -> Map!Pairs] BY <1>4, <1>5
<1>7. \A i, j \in 1..n : i < j => s[i].first <= s[j].first BY <1>3, <1>4 DEF Map!SortedBy
<1>8. pairs = Map!finalize(s) BY <1>3
<1> HIDE DEF s, n
<1>9. s \in Seq(Map!Pairs) /\ Len(s) = n BY <1>4, <1>6, SeqDef
<1>10. \A i \in 1..n : s[i].first \in Int BY <1>6, PairFacts
<1>11. CASE ~mapUnique
  <2>1. pairs = s BY <1>8, <1>11 DEF Map!finalize
  <2>2. Ordered(KeysOf(pairs), Gap(mapUnique))
    BY <1>7, <1>9, <1>10, <1>11, <2>1 DEF Ordered, KeysOf, Gap
  <2> QED BY <1>9, <2>1, <2>2 DEF MapIInv, Map!TypeOK, Map!Init
<1>12. CASE mapUnique
  <2> DEFINE F == {i \in DOMAIN s : i = 1 \/ s[i - 1].first < s[i].first}
             N == Cardinality(F)
             r == Ranked(F)
  <2>1. pairs = [m \in 1..N |-> s[r[m]]]
    <3>1. pairs = [m \in 1 .. Map!Cardinality(F) |->
                     s[CHOOSE i \in F : Map!Cardinality({j \in F : j <= i}) = m]]
      BY <1>8, <1>12 DEF Map!finalize
    <3> HIDE DEF F
    <3> DEFINE at(m) == CHOOSE i \in F : Cardinality({j \in F : j <= i}) = m
    <3>2. pairs = [m \in 1..N |-> s[at(m)]] BY <3>1 DEF Map!Cardinality, Cardinality
    <3>3. r = [m \in 1..N |-> at(m)] BY DEF Ranked
    <3> HIDE DEF r, N, at
    <3>4. \A m \in 1..N : r[m] = at(m) BY <3>3
    <3> QED BY <3>2, <3>4
  <2>2. F \in SUBSET Int /\ F \subseteq 1..n /\ IsFiniteSet(F)
    <3>1. F \subseteq 1..n BY <1>6
    <3> HIDE DEF F
    <3>2. IsFiniteSet(1..n) BY <1>4, FS_Interval
    <3>3. IsFiniteSet(F) BY <3>1, <3>2, FS_Subset
    <3> QED BY <3>1, <3>3
  <2>3. \A i \in F : i = 1 \/ s[i - 1].first < s[i].first OBVIOUS
  <2> HIDE DEF F, r
  <2>4. N \in Nat /\ r \in [1..N -> F] /\ \A i, j \in 1..N : i < j => r[i] < r[j]
    BY <2>2, RankedRises DEF r
  <2> HIDE DEF N
  <2>5. \A i \in 1..N : r[i] \in F /\ r[i] \in 1..n BY <2>2, <2>4
  <2>6. pairs \in [1..N -> Map!Pairs] BY <1>6, <2>1, <2>5
  <2>7. pairs \in Seq(Map!Pairs) /\ Len(pairs) = N BY <2>4, <2>6, SeqDef
  <2>8. ASSUME NEW i \in 1..N, NEW j \in 1..N, i < j
        PROVE  KeysOf(pairs)[i] + Gap(mapUnique) <= KeysOf(pairs)[j]
    <3>1. KeysOf(pairs)[i] = s[r[i]].first /\ KeysOf(pairs)[j] = s[r[j]].first
      BY <2>1, <2>7 DEF KeysOf
    <3>2. PICK a \in 1..n : a = r[i] BY <2>5
    <3>3. PICK b \in 1..n : b = r[j] /\ b \in F BY <2>5
    <3>4. a < b BY <2>4, <2>8, <3>2, <3>3
    <3>5. b - 1 \in 1..n /\ b # 1 BY <1>4, <3>4
    <3>6. s[b - 1].first < s[b].first BY <2>3, <3>3, <3>5
    <3>7. s[a].first <= s[b - 1].first
      <4>1. CASE a = b - 1 BY <1>10, <3>5, <4>1
      <4>2. CASE a < b - 1 BY <1>7, <3>5, <4>2
      <4> QED BY <3>4, <4>1, <4>2
    <3>8. s[a].first + 1 <= s[b].first BY <1>10, <3>5, <3>6, <3>7
    <3> QED BY <1>12, <3>1, <3>2, <3>3, <3>8 DEF Gap
  <2>9. Len(KeysOf(pairs)) = N BY <2>7, KeysFacts
  <2>10. Ordered(KeysOf(pairs), Gap(mapUnique)) BY <2>8, <2>9 DEF Ordered
  <2> QED BY <2>7, <2>10 DEF MapIInv, Map!TypeOK, Map!Init
<1> QED BY <1>11, <1>12

LEMMA MapServes == MapIInv => Map!TypeOK /\ Map!Sorted
<1> SUFFICES ASSUME MapIInv PROVE Map!TypeOK /\ Map!Sorted OBVIOUS
<1>1. /\ Map!size = Len(pairs) /\ Len(pairs) \in Nat /\ mapUnique \in BOOLEAN
      /\ Len(KeysOf(pairs)) = Len(pairs) /\ Ordered(KeysOf(pairs), Gap(mapUnique))
      /\ \A i \in 1 .. Len(pairs) : Map!key(i) = KeysOf(pairs)[i] /\ Map!key(i) \in Int
  BY MapFacts, KeysFacts
<1>2. ASSUME NEW i \in 1 .. Map!size - 1
      PROVE  IF mapUnique THEN Map!key(i) < Map!key(i + 1) ELSE Map!key(i) <= Map!key(i + 1)
  <2>1. i \in 1 .. Len(pairs) /\ i + 1 \in 1 .. Len(pairs) BY <1>1
  <2>2. Map!key(i) + Gap(mapUnique) <= Map!key(i + 1) BY <1>1, <2>1 DEF Ordered
  <2>3. CASE mapUnique BY <1>1, <2>1, <2>2, <2>3 DEF Gap
  <2>4. CASE ~mapUnique BY <1>1, <2>1, <2>2, <2>4 DEF Gap
  <2> QED BY <2>3, <2>4
<1> QED BY <1>2 DEF Map!Sorted, MapIInv

-----------------------------------------------------------------------------
(***************************************************************************)
(* FlatSet.  Sorting first: the item at n has less than n items below it   *)
(* and no less than n up to it, and there is one.                          *)
(***************************************************************************)
SetIInv == Set!TypeOK /\ Ordered(items, Gap(setUnique))

LEMMA SeqFacts ==
  ASSUME NEW s \in Seq(Items)
  PROVE  /\ s \in Seq(Int) /\ Len(s) \in Nat /\ DOMAIN s = 1 .. Len(s)
         /\ \A i \in 1 .. Len(s) : s[i] \in Items /\ s[i] \in Int
<1>1. Len(s) \in Nat /\ DOMAIN s = 1 .. Len(s) /\ \A i \in 1 .. Len(s) : s[i] \in Items OBVIOUS
<1>2. \A i \in 1 .. Len(s) : s[i] \in Int BY <1>1, ContainersAssumption
<1>3. s \in [1 .. Len(s) -> Int] BY <1>1, <1>2
<1>4. s \in Seq(Int) BY <1>1, <1>3, SeqDef
<1> QED BY <1>1, <1>2, <1>4

LEMMA BelowUpTo ==
  ASSUME NEW s \in Seq(Items), NEW x \in Int
  PROVE  /\ Set!Below(s, x) = Cardinality({i \in 1 .. Len(s) : s[i] < x})
         /\ Set!UpTo(s, x) = Cardinality({i \in 1 .. Len(s) : s[i] <= x})
         /\ IsFiniteSet({i \in 1 .. Len(s) : s[i] < x})
         /\ IsFiniteSet({i \in 1 .. Len(s) : s[i] <= x})
         /\ Set!Below(s, x) \in Nat /\ Set!UpTo(s, x) \in Nat
<1> DEFINE A == {i \in 1 .. Len(s) : s[i] < x}
           B == {i \in 1 .. Len(s) : s[i] <= x}
<1>1. DOMAIN s = 1 .. Len(s) /\ Len(s) \in Nat BY SeqFacts
<1>2. Set!Below(s, x) = Cardinality(A) /\ Set!UpTo(s, x) = Cardinality(B)
  BY <1>1, SetCardinality DEF Set!Below, Set!UpTo
<1>3. IsFiniteSet(1 .. Len(s)) BY <1>1, FS_Interval
<1>4. A \subseteq 1 .. Len(s) /\ B \subseteq 1 .. Len(s) OBVIOUS
<1> HIDE DEF A, B
<1>5. IsFiniteSet(A) /\ IsFiniteSet(B) BY <1>3, <1>4, FS_Subset
<1> QED BY <1>2, <1>5, FS_CardinalityType DEF A, B

LEMMA SomeItemIsNth ==
  ASSUME NEW s \in Seq(Items), NEW n \in 1 .. Len(s)
  PROVE  \E x \in Set!ToSet(s) : Set!Below(s, x) < n /\ n <= Set!UpTo(s, x)
<1> DEFINE D == 1 .. Len(s)
           R == {r \in D \X D : s[r[1]] < s[r[2]] \/ (s[r[1]] = s[r[2]] /\ r[1] <= r[2])}
<1>1. Len(s) \in Nat /\ DOMAIN s = D /\ \A i \in D : s[i] \in Items /\ s[i] \in Int
  BY SeqFacts
<1>2. IsFiniteSet(D) /\ Cardinality(D) = Len(s)
  <2>1. 1 \in Int /\ Len(s) \in Int /\ ~(1 > Len(s)) BY <1>1
  <2> QED BY <1>1, <2>1, FS_Interval
<1>3. \A i, j \in D : <<i, j>> \in R <=> s[i] < s[j] \/ (s[i] = s[j] /\ i <= j) OBVIOUS
<1>4. \A i \in D : i \in Int OBVIOUS
<1> HIDE DEF D, R
<1>5. ASSUME NEW i \in D, NEW j \in D PROVE <<i, j>> \in R \/ <<j, i>> \in R
  <2>1. s[i] \in Int /\ s[j] \in Int /\ i \in Int /\ j \in Int BY <1>1, <1>4
  <2>2. s[i] < s[j] \/ (s[i] = s[j] /\ i <= j) \/ s[j] < s[i] \/ (s[j] = s[i] /\ j <= i)
    BY <2>1
  <2> QED BY <1>3, <2>2
<1>6. ASSUME NEW i \in D, NEW j \in D, <<i, j>> \in R, <<j, i>> \in R PROVE i = j
  <2>1. s[i] \in Int /\ s[j] \in Int /\ i \in Int /\ j \in Int BY <1>1, <1>4
  <2>2. /\ s[i] < s[j] \/ (s[i] = s[j] /\ i <= j)
        /\ s[j] < s[i] \/ (s[j] = s[i] /\ j <= i)
    BY <1>3, <1>6
  <2> QED BY <2>1, <2>2
<1>7. \A i, j, k \in D : <<i, j>> \in R /\ <<j, k>> \in R => <<i, k>> \in R
  BY <1>1, <1>3, <1>4
<1>8. n \in 1 .. Cardinality(D) BY <1>2
<1>9. Orders(R, D) BY <1>5, <1>6, <1>7 DEF Orders
<1>10. PICK i \in D : Cardinality(Precede(D, R, i)) = n BY <1>2, <1>8, <1>9, Ranks
<1> DEFINE x == s[i]
           P == Precede(D, R, i)
           A == {j \in 1 .. Len(s) : s[j] < x}
           B == {j \in 1 .. Len(s) : s[j] <= x}
<1>11. x \in Set!ToSet(s) /\ x \in Int BY <1>1 DEF Set!ToSet
<1>12. Set!Below(s, x) = Cardinality(A) /\ Set!UpTo(s, x) = Cardinality(B)
       /\ IsFiniteSet(B) /\ Cardinality(A) \in Nat /\ Cardinality(B) \in Nat
  BY <1>11, BelowUpTo
<1>13. A \subseteq P /\ P \subseteq B /\ i \in P /\ i \notin A
  <2>1. \A j \in D : j \in P <=> s[j] < s[i] \/ (s[j] = s[i] /\ j <= i)
    BY <1>3 DEF Precede
  <2>2. \A j \in P : j \in D BY DEF Precede
  <2> HIDE DEF P
  <2> QED BY <1>1, <1>4, <2>1, <2>2 DEF D
<1> HIDE DEF A, B, P, x
<1>14. IsFiniteSet(P) /\ Cardinality(P) <= Cardinality(B) BY <1>12, <1>13, FS_Subset
<1>15. Cardinality(A) <= Cardinality(P) /\ Cardinality(A) # Cardinality(P)
  BY <1>13, <1>14, FS_Subset
<1>16. Cardinality(P) = n BY <1>10 DEF P
<1> QED BY <1>11, <1>12, <1>14, <1>15, <1>16

LEMMA SortIsOrdered ==
  ASSUME NEW s \in Seq(Items)
  PROVE  /\ Set!Sort(s) \in Seq(Items) /\ Len(Set!Sort(s)) = Len(s)
         /\ Ordered(Set!Sort(s), 0)
<1> DEFINE t == Set!Sort(s)
           D == 1 .. Len(s)
<1>1. Len(s) \in Nat /\ DOMAIN s = D /\ \A i \in D : s[i] \in Items /\ s[i] \in Int
  BY SeqFacts
<1>2. t = [n \in D |-> CHOOSE x \in Set!ToSet(s) : Set!Below(s, x) < n /\ n <= Set!UpTo(s, x)]
  BY <1>1 DEF Set!Sort
<1> HIDE DEF t
<1>3. ASSUME NEW n \in D
      PROVE  t[n] \in Set!ToSet(s) /\ Set!Below(s, t[n]) < n /\ n <= Set!UpTo(s, t[n])
  BY <1>2, SomeItemIsNth
<1>4. Set!ToSet(s) \subseteq Items BY <1>1 DEF Set!ToSet
<1>5. t \in [D -> Items] BY <1>2, <1>3, <1>4
<1>6. t \in Seq(Items) /\ Len(t) = Len(s) BY <1>1, <1>5, SeqDef
<1>7. \A n \in D : t[n] \in Int BY <1>5, ContainersAssumption
<1>8. ASSUME NEW m \in D, NEW n \in D, m < n PROVE t[m] <= t[n]
  <2> SUFFICES ASSUME t[n] < t[m] PROVE FALSE BY <1>7
  <2> DEFINE A == {j \in 1 .. Len(s) : s[j] < t[m]}
             B == {j \in 1 .. Len(s) : s[j] <= t[n]}
  <2>1. Set!Below(s, t[m]) = Cardinality(A) /\ Set!UpTo(s, t[n]) = Cardinality(B)
        /\ IsFiniteSet(A) /\ Cardinality(A) \in Nat /\ Cardinality(B) \in Nat
    BY <1>7, BelowUpTo
  <2>2. B \subseteq A
    <3> SUFFICES ASSUME NEW j \in 1 .. Len(s), s[j] <= t[n] PROVE s[j] < t[m] OBVIOUS
    <3>1. s[j] \in Int /\ t[n] \in Int /\ t[m] \in Int BY <1>1, <1>7
    <3> QED BY <3>1
  <2> HIDE DEF A, B
  <2>3. Cardinality(B) <= Cardinality(A) BY <2>1, <2>2, FS_Subset
  <2>4. n <= Cardinality(B) /\ Cardinality(A) < m BY <1>3, <2>1
  <2> QED BY <1>8, <2>1, <2>3, <2>4
<1>9. \A i, j \in 1 .. Len(t) : i < j => t[i] + 0 <= t[j] BY <1>6, <1>7, <1>8
<1> QED BY <1>6, <1>9 DEF Ordered, t

LEMMA FinalizeIsOrdered ==
  ASSUME NEW s \in Seq(Items), Ordered(s, 0), setUnique \in BOOLEAN
  PROVE  /\ Set!finalize(s) \in Seq(Items) /\ Ordered(Set!finalize(s), Gap(setUnique))
<1>1. CASE ~setUnique BY <1>1 DEF Set!finalize, Gap
<1>2. CASE setUnique
  <2> DEFINE S == Set!ToSet(s)
             N == Cardinality(S)
             r == Ranked(S)
  <2>1. Len(s) \in Nat /\ DOMAIN s = 1 .. Len(s)
        /\ \A i \in 1 .. Len(s) : s[i] \in Items /\ s[i] \in Int
    BY SeqFacts
  <2>2. S \in SUBSET Int /\ S \subseteq Items BY <2>1 DEF Set!ToSet
  <2>3. IsFiniteSet(S)
    <3> DEFINE f == [i \in 1 .. Len(s) |-> s[i]]
    <3>1. f \in Surjection(1 .. Len(s), S) BY <2>1 DEF Set!ToSet, Surjection
    <3>2. IsFiniteSet(1 .. Len(s)) BY <2>1, FS_Interval
    <3> HIDE DEF f, S
    <3> QED BY <3>1, <3>2, FS_Surjection
  <2>4. Set!finalize(s) = Set!Unique(S) BY <1>2 DEF Set!finalize
  <2> HIDE DEF S
  <2>5. Set!Unique(S) = Ranked(S) BY DEF Set!Unique, Ranked, Set!Cardinality, Cardinality
  <2>6. N \in Nat /\ r \in [1..N -> S] /\ \A m, n \in 1..N : m < n => r[m] < r[n]
    BY <2>2, <2>3, RankedRises
  <2>7. Set!finalize(s) = r BY <2>4, <2>5
  <2> HIDE DEF N, r
  <2>8. r \in [1..N -> Items] /\ \A i \in 1..N : r[i] \in Int BY <2>2, <2>6
  <2>9. r \in Seq(Items) /\ Len(r) = N BY <2>6, <2>8, SeqDef
  <2>10. ASSUME NEW i \in 1..N, NEW j \in 1..N, i < j PROVE r[i] + 1 <= r[j]
    <3>1. r[i] < r[j] /\ r[i] \in Int /\ r[j] \in Int BY <2>6, <2>8, <2>10
    <3> QED BY <3>1
  <2>11. Ordered(r, Gap(setUnique)) BY <1>2, <2>9, <2>10 DEF Ordered, Gap
  <2> QED BY <2>7, <2>9, <2>11
<1> QED BY <1>1, <1>2

-----------------------------------------------------------------------------
LEMMA SetFacts ==
  ASSUME SetIInv
  PROVE  /\ setUnique \in BOOLEAN /\ items \in Seq(Items) /\ items \in Seq(Int)
         /\ Len(items) \in Nat /\ Set!size = Len(items)
         /\ \A i \in 1 .. Len(items) : items[i] \in Items /\ items[i] \in Int
         /\ Ordered(items, Gap(setUnique)) /\ Gap(setUnique) \in 0..1
BY SeqFacts, GapFacts DEF SetIInv, Set!TypeOK, Set!size

LEMMA SetBounds ==
  ASSUME SetIInv, NEW x \in Items
  PROVE  /\ Set!LowerBound(x) \in 1 .. Len(items) + 1
         /\ Set!UpperBound(x) \in 1 .. Len(items) + 1
         /\ Set!LowerBound(x) <= Set!UpperBound(x)
         /\ \A i \in 1 .. Len(items) : /\ items[i] < x <=> i < Set!LowerBound(x)
                                       /\ items[i] <= x <=> i < Set!UpperBound(x)
<1>1. x \in Int BY ContainersAssumption
<1>2. /\ Set!LowerBound(x) = Cardinality({i \in 1 .. Len(items) : items[i] < x}) + 1
      /\ Set!UpperBound(x) = Cardinality({i \in 1 .. Len(items) : items[i] <= x}) + 1
  BY <1>1, SetFacts, BelowUpTo DEF Set!LowerBound, Set!UpperBound
<1>3. /\ items \in Seq(Int) /\ Ordered(items, Gap(setUnique)) /\ Gap(setUnique) \in 0..1
  BY SetFacts
<1>4. PICK low, high : low = Set!LowerBound(x) /\ high = Set!UpperBound(x) OBVIOUS
<1>5. Splits(items, x, low, high) BY <1>1, <1>2, <1>3, <1>4, Bounds
<1> QED BY <1>4, <1>5 DEF Splits

SetStays == /\ setUnique' = setUnique /\ items' \in Seq(Items)
            /\ Ordered(items', Gap(setUnique'))

LEMMA SetPutKeeps ==
  ASSUME SetIInv, NEW where \in 1 .. Len(items) + 1, NEW x \in Items,
         Set!Put(where, x), Fits(items, Gap(setUnique), where, x)
  PROVE  SetStays /\ setReturned' = 1
<1>1. /\ items \in Seq(Items) /\ items \in Seq(Int) /\ Ordered(items, Gap(setUnique))
      /\ Gap(setUnique) \in 0..1 /\ x \in Int
  BY SetFacts, ContainersAssumption
<1>2. items' = Set!InsertAt(items, where, x) /\ setUnique' = setUnique /\ setReturned' = 1
  BY DEF Set!Put
<1>3. items' \in Seq(Items) BY <1>1, <1>2, InsertFacts
<1>4. Ordered(items', Gap(setUnique)) BY <1>1, <1>2, InsertStaysOrdered
<1> QED BY <1>2, <1>3, <1>4 DEF SetStays

LEMMA SetCutKeeps ==
  ASSUME SetIInv, NEW first \in 1 .. Len(items) + 1, NEW last \in first .. Len(items) + 1,
         Set!Cut(first, last)
  PROVE  SetStays /\ setReturned' \in Nat
<1>1. /\ items \in Seq(Items) /\ items \in Seq(Int) /\ Ordered(items, Gap(setUnique))
      /\ Gap(setUnique) \in 0..1 /\ Set!size = Len(items) /\ Len(items) \in Nat
  BY SetFacts
<1>2. items' = CutOut(items, first, last) /\ setUnique' = setUnique
      /\ setReturned' = last - first
  BY <1>1 DEF Set!Cut, CutOut
<1>3. items' \in Seq(Items) BY <1>1, <1>2, CutFacts
<1>4. Ordered(items', Gap(setUnique)) BY <1>1, <1>2, CutStaysOrdered
<1> QED BY <1>2, <1>3, <1>4 DEF SetStays

LEMMA SetKeeps ==
  ASSUME SetIInv, NEW n \in Nat, Set!Found(n) PROVE SetStays /\ setReturned' \in Nat
BY SetFacts DEF Set!Found, SetStays

\* A place is right for x if its neighbours are.
LEMMA FitsBetween ==
  ASSUME NEW s \in Seq(Int), NEW gap \in 0..1, Ordered(s, gap), NEW x \in Int,
         NEW where \in 1 .. Len(s) + 1,
         where > 1 => s[where - 1] + gap <= x,
         where <= Len(s) => x + gap <= s[where]
  PROVE  Fits(s, gap, where, x)
<1>1. Len(s) \in Nat /\ \A i \in 1 .. Len(s) : s[i] \in Int OBVIOUS
<1>2. \A i, j \in 1 .. Len(s) : i < j => s[i] + gap <= s[j] BY DEF Ordered
<1>3. ASSUME NEW i \in 1 .. Len(s), i < where PROVE s[i] + gap <= x
  <2>1. where - 1 \in 1 .. Len(s) BY <1>1, <1>3
  <2>2. s[where - 1] + gap <= x BY <1>3
  <2>3. CASE i = where - 1 BY <2>2, <2>3
  <2>4. CASE i < where - 1
    <3>1. s[i] + gap <= s[where - 1] BY <1>2, <2>1, <2>4
    <3>2. s[i] \in Int /\ s[where - 1] \in Int BY <1>1, <2>1
    <3>3. PICK a \in Int, b \in Int : a = s[i] /\ b = s[where - 1] BY <3>2
    <3>4. a + gap <= b /\ b + gap <= x BY <2>2, <3>1, <3>3
    <3>5. a + gap <= x BY <3>4
    <3> QED BY <3>3, <3>5
  <2> QED BY <1>3, <2>3, <2>4
<1>4. ASSUME NEW i \in 1 .. Len(s), i >= where PROVE x + gap <= s[i]
  <2>1. where \in 1 .. Len(s) BY <1>1, <1>4
  <2>2. x + gap <= s[where] BY <2>1
  <2>3. CASE i = where BY <2>2, <2>3
  <2>4. CASE i > where
    <3>1. s[where] + gap <= s[i] BY <1>2, <2>1, <2>4
    <3>2. s[i] \in Int /\ s[where] \in Int BY <1>1, <2>1
    <3>3. PICK a \in Int, b \in Int : a = s[where] /\ b = s[i] BY <3>2
    <3>4. x + gap <= a /\ a + gap <= b BY <2>2, <3>1, <3>3
    <3>5. x + gap <= b BY <3>4
    <3> QED BY <3>3, <3>5
  <2> QED BY <1>4, <2>3, <2>4
<1> QED BY <1>3, <1>4 DEF Fits

LEMMA SetInserts ==
  ASSUME SetIInv, NEW x \in Items, Set!insert(x) \/ Set!insertUnique(x)
  PROVE  SetStays /\ setReturned' \in Nat
<1> DEFINE n == Len(items)
           gap == Gap(setUnique)
<1>1. /\ items \in Seq(Int) /\ n \in Nat /\ Set!size = n /\ x \in Int
      /\ \A i \in 1..n : items[i] \in Int
      /\ Ordered(items, gap) /\ gap \in 0..1 /\ (gap = 1 <=> setUnique)
  BY SetFacts, ContainersAssumption DEF Gap
<1>2. /\ Set!LowerBound(x) \in 1 .. n + 1 /\ Set!UpperBound(x) \in 1 .. n + 1
      /\ \A i \in 1..n : /\ items[i] < x <=> i < Set!LowerBound(x)
                         /\ items[i] <= x <=> i < Set!UpperBound(x)
  BY SetBounds
<1> HIDE DEF n, gap
<1>3. ASSUME NEW where \in 1 .. n + 1, Set!Put(where, x), Fits(items, gap, where, x)
      PROVE  SetStays /\ setReturned' \in Nat
  BY <1>3, SetPutKeeps DEF n, gap
<1>4. ASSUME n = 0 \/ items[n] + gap <= x PROVE Fits(items, gap, n + 1, x)
  <2>1. n > 0 => items[n + 1 - 1] + gap <= x BY <1>1, <1>4
  <2>2. n = Len(items) /\ n + 1 \in 1 .. Len(items) + 1 BY <1>1 DEF n
  <2>3. n + 1 > 1 => items[n + 1 - 1] + gap <= x BY <1>1, <2>1
  <2>4. ~(n + 1 <= Len(items)) BY <1>1, <2>2
  <2> QED BY <1>1, <2>2, <2>3, <2>4, FitsBetween
<1>5. CASE Set!insert(x)
  <2>1. ~setUnique /\ gap = 0 BY <1>1, <1>5 DEF Set!insert
  <2>2. CASE n = 0 \/ items[n] <= x
    <3>1. Set!Put(n + 1, x) BY <1>1, <1>5, <2>2 DEF Set!insert
    <3>2. n = 0 \/ items[n] + gap <= x BY <1>1, <2>1, <2>2
    <3> QED BY <1>1, <1>3, <1>4, <3>1, <3>2
  <2>3. CASE ~(n = 0 \/ items[n] <= x)
    <3>1. PICK where \in 1 .. n + 1 : where = Set!UpperBound(x) BY <1>2
    <3>2. Set!Put(where, x) BY <1>1, <1>5, <2>3, <3>1 DEF Set!insert
    <3>3. where > 1 => items[where - 1] + gap <= x BY <1>1, <1>2, <2>1, <3>1
    <3>4. where <= n => x + gap <= items[where] BY <1>1, <1>2, <2>1, <3>1
    <3>5. Fits(items, gap, where, x) BY <1>1, <3>3, <3>4, FitsBetween DEF n
    <3> QED BY <1>3, <3>2, <3>5
  <2> QED BY <2>2, <2>3
<1>6. CASE Set!insertUnique(x)
  <2>1. setUnique /\ gap = 1 BY <1>1, <1>6 DEF Set!insertUnique
  <2>2. CASE n = 0 \/ items[n] < x
    <3>1. Set!Put(n + 1, x) BY <1>1, <1>6, <2>2 DEF Set!insertUnique
    <3>2. n = 0 \/ items[n] + gap <= x
      <4>1. n # 0 => items[n] \in Int BY <1>1
      <4> QED BY <1>1, <2>1, <2>2, <4>1
    <3> QED BY <1>1, <1>3, <1>4, <3>1, <3>2
  <2>3. CASE ~(n = 0 \/ items[n] < x) /\ x < items[Set!LowerBound(x)]
    <3>1. PICK where \in 1 .. n + 1 : where = Set!LowerBound(x) BY <1>2
    <3>2. Set!Put(where, x) BY <1>1, <1>6, <2>3, <3>1 DEF Set!insertUnique
    <3>3. where > 1 => items[where - 1] + gap <= x
      <4> SUFFICES ASSUME where > 1 PROVE items[where - 1] + gap <= x OBVIOUS
      <4>1. where - 1 \in 1..n BY <1>1, <3>1
      <4>2. items[where - 1] < x /\ items[where - 1] \in Int BY <1>1, <1>2, <3>1, <4>1
      <4> QED BY <1>1, <2>1, <4>2
    <3>4. where <= n => x + gap <= items[where]
      <4> SUFFICES ASSUME where <= n PROVE x + gap <= items[where] OBVIOUS
      <4>1. x < items[where] /\ items[where] \in Int BY <1>1, <2>3, <3>1
      <4> QED BY <1>1, <2>1, <4>1
    <3>5. Fits(items, gap, where, x) BY <1>1, <3>3, <3>4, FitsBetween DEF n
    <3> QED BY <1>3, <3>2, <3>5
  <2>4. CASE ~(n = 0 \/ items[n] < x) /\ ~(x < items[Set!LowerBound(x)])
    <3>1. Set!Found(0) BY <1>1, <1>6, <2>4 DEF Set!insertUnique
    <3> QED BY <3>1, SetKeeps
  <2> QED BY <2>2, <2>3, <2>4
<1> QED BY <1>5, <1>6

LEMMA SetRemoves ==
  ASSUME SetIInv, NEW x \in Items, Set!removeOne(x) \/ Set!removeAll(x)
  PROVE  SetStays /\ setReturned' \in Nat
<1>1. /\ Set!size = Len(items) /\ Len(items) \in Nat /\ x \in Int
      /\ \A i \in 1 .. Len(items) : items[i] \in Int
  BY SetFacts, ContainersAssumption
<1>2. /\ Set!LowerBound(x) \in 1 .. Len(items) + 1
      /\ Set!UpperBound(x) \in Set!LowerBound(x) .. Len(items) + 1
      /\ \A i \in 1 .. Len(items) : items[i] < x <=> i < Set!LowerBound(x)
  BY SetBounds, SetFacts
<1>3. CASE Set!removeOne(x)
  <2>1. CASE Set!Outside(x) \/ x < items[Set!LowerBound(x)]
    BY <1>3, <2>1, SetKeeps DEF Set!removeOne
  <2>2. CASE ~(Set!Outside(x) \/ x < items[Set!LowerBound(x)])
    <3>1. Set!Cut(Set!LowerBound(x), Set!LowerBound(x) + 1) BY <1>3, <2>2 DEF Set!removeOne
    <3>2. Set!LowerBound(x) \in 1 .. Len(items) BY <1>1, <1>2, <2>2 DEF Set!Outside
    <3> QED BY <1>1, <3>1, <3>2, SetCutKeeps
  <2> QED BY <2>1, <2>2
<1>4. CASE Set!removeAll(x)
  <2>1. CASE Set!Outside(x) BY <1>4, <2>1, SetKeeps DEF Set!removeAll
  <2>2. CASE ~Set!Outside(x)
    <3>1. Set!Cut(Set!LowerBound(x), Set!UpperBound(x)) BY <1>4, <2>2 DEF Set!removeAll
    <3> QED BY <1>2, <3>1, SetCutKeeps
  <2> QED BY <2>1, <2>2
<1> QED BY <1>3, <1>4

LEMMA SetFinds ==
  ASSUME SetIInv, NEW x \in Items, Set!contains(x) \/ Set!count(x)
  PROVE  SetStays /\ setReturned' \in Nat
<1>1. Set!UpperBound(x) - Set!LowerBound(x) \in Nat BY SetBounds
<1>2. CASE Set!contains(x)
  <2>1. \A b \in BOOLEAN : Set!Bool(b) \in Nat BY DEF Set!Bool
  <2>2. PICK found \in BOOLEAN : found = ~(Set!Outside(x) \/ x < items[Set!LowerBound(x)])
    OBVIOUS
  <2>3. Set!Found(Set!Bool(found)) BY <1>2, <2>2 DEF Set!contains
  <2> QED BY <2>1, <2>3, SetKeeps
<1>3. CASE Set!count(x) BY <1>1, <1>3, SetKeeps DEF Set!count
<1> QED BY <1>2, <1>3

LEMMA SetErases ==
  ASSUME SetIInv, NEW from \in 1 .. Set!size + 1, NEW till \in 1 .. Set!size + 1,
         Set!erase(from, till)
  PROVE  SetStays /\ setReturned' \in Nat
<1>1. from \in 1 .. Len(items) + 1 /\ till \in from .. Len(items) + 1
  BY SetFacts DEF Set!erase
<1>2. Set!Cut(from, till) BY DEF Set!erase
<1> QED BY <1>1, <1>2, SetCutKeeps

LEMMA ListFacts ==
  ASSUME NEW list \in Set!BoundedSeq(Items, MaxList) PROVE list \in Seq(Items)
<1>1. PICK n \in 0 .. MaxList : list \in [1..n -> Items]
  BY DEF Set!BoundedSeq, Set!SeqOf
<1> QED BY <1>1, ContainersAssumption, SeqDef

LEMMA SetMerges ==
  ASSUME SetIInv, NEW list \in Set!BoundedSeq(Items, MaxList), Set!merge(list)
  PROVE  SetStays /\ setReturned' \in Nat
<1>1. items \in Seq(Items) /\ list \in Seq(Items) /\ setUnique \in BOOLEAN
  BY SetFacts, ListFacts
<1>2. items \o list \in Seq(Items) BY <1>1, ConcatProperties
<1>3. PICK s \in Seq(Items) : s = Set!Sort(items \o list) /\ Ordered(s, 0)
  BY <1>2, SortIsOrdered
<1>4. Set!finalize(s) \in Seq(Items) /\ Ordered(Set!finalize(s), Gap(setUnique))
  BY <1>1, <1>3, FinalizeIsOrdered
<1>5. items' = Set!finalize(s) /\ setReturned' = Len(items') /\ setUnique' = setUnique
  BY <1>3 DEF Set!merge
<1> QED BY <1>4, <1>5 DEF SetStays

LEMMA SetStart == Set!Init => SetIInv
<1> SUFFICES ASSUME Set!Init PROVE SetIInv OBVIOUS
<1>1. setUnique \in BOOLEAN /\ setReturned = 0 BY DEF Set!Init
<1>2. PICK list \in Set!BoundedSeq(Items, MaxList) : items = Set!finalize(Set!Sort(list))
  BY DEF Set!Init, Set!Construct
<1>3. list \in Seq(Items) BY ListFacts
<1>4. PICK s \in Seq(Items) : s = Set!Sort(list) /\ Ordered(s, 0) BY <1>3, SortIsOrdered
<1>5. Set!finalize(s) \in Seq(Items) /\ Ordered(Set!finalize(s), Gap(setUnique))
  BY <1>1, <1>4, FinalizeIsOrdered
<1> QED BY <1>1, <1>2, <1>4, <1>5 DEF SetIInv, Set!TypeOK

LEMMA SetServes == SetIInv => Set!TypeOK /\ Set!Sorted
<1> SUFFICES ASSUME SetIInv PROVE Set!TypeOK /\ Set!Sorted OBVIOUS
<1>1. /\ Set!size = Len(items) /\ Len(items) \in Nat /\ setUnique \in BOOLEAN
      /\ Ordered(items, Gap(setUnique)) /\ \A i \in 1 .. Len(items) : items[i] \in Int
  BY SetFacts
<1>2. ASSUME NEW i \in 1 .. Set!size - 1
      PROVE  IF setUnique THEN items[i] < items[i + 1] ELSE items[i] <= items[i + 1]
  <2>1. i \in 1 .. Len(items) /\ i + 1 \in 1 .. Len(items) BY <1>1
  <2>2. items[i] + Gap(setUnique) <= items[i + 1] BY <1>1, <2>1 DEF Ordered
  <2>3. CASE setUnique BY <1>1, <2>1, <2>2, <2>3 DEF Gap
  <2>4. CASE ~setUnique BY <1>1, <2>1, <2>2, <2>4 DEF Gap
  <2> QED BY <2>3, <2>4
<1> QED BY <1>2 DEF Set!Sorted, SetIInv

-----------------------------------------------------------------------------
(***************************************************************************)
(* modify().  A loop's turns, each of which is made from what the one      *)
(* before left, until one of them ends the loop.                           *)
(***************************************************************************)
IsRun(f, n, at, which, way) ==
  f = [k \in 0..n |-> IF k = 0 THEN at ELSE Set!Turn(f[k - 1], which, way[k])]

LEMMA RunExists ==
  ASSUME NEW at, NEW which, NEW way, NEW n \in Nat
  PROVE  \E f : IsRun(f, n, at, which, way)
<1> DEFINE S == {m \in Nat : ~\E f : IsRun(f, m, at, which, way)}
<1> SUFFICES ASSUME S # {} PROVE FALSE OBVIOUS
<1>1. PICK m \in S : \A k \in S : m <= k
  <2>1. S \subseteq Nat OBVIOUS
  <2> HIDE DEF S
  <2> QED BY <2>1, LeastNumber
<1>2. m \in Nat /\ ~\E f : IsRun(f, m, at, which, way) OBVIOUS
<1>3. m # 0
  <2> SUFFICES ASSUME m = 0 PROVE FALSE OBVIOUS
  <2> DEFINE g == [k \in 0..0 |-> at]
  <2>1. IsRun(g, 0, at, which, way) BY DEF IsRun
  <2> QED BY <1>2, <2>1
<1>4. m - 1 \in Nat /\ m - 1 \notin S BY <1>1, <1>2, <1>3
<1>5. PICK f : IsRun(f, m - 1, at, which, way) BY <1>4
<1> DEFINE g == [k \in 0..m |-> IF k < m THEN f[k] ELSE Set!Turn(f[m - 1], which, way[m])]
           h == [k \in 0..m |-> IF k = 0 THEN at ELSE Set!Turn(g[k - 1], which, way[k])]
<1>6. ASSUME NEW k \in 0..m PROVE g[k] = h[k]
  <2>1. CASE k = 0
    <3>1. f[0] = at BY <1>4, <1>5 DEF IsRun
    <3> QED BY <1>2, <1>3, <2>1, <3>1
  <2>2. CASE k # 0 /\ k < m
    <3>1. f[k] = Set!Turn(f[k - 1], which, way[k]) BY <1>2, <1>5, <2>2 DEF IsRun
    <3>2. g[k - 1] = f[k - 1] BY <1>2, <2>2
    <3> QED BY <1>2, <2>2, <3>1, <3>2
  <2>3. CASE k = m
    <3>1. g[m - 1] = f[m - 1] BY <1>2, <1>3
    <3> QED BY <1>2, <1>3, <2>3, <3>1
  <2> QED BY <1>2, <2>1, <2>2, <2>3
<1>7. g = h
  <2>1. g = [k \in 0..m |-> g[k]] /\ h = [k \in 0..m |-> h[k]] OBVIOUS
  <2> HIDE DEF g, h
  <2> QED BY <1>6, <2>1
<1>8. IsRun(g, m, at, which, way) BY <1>7 DEF IsRun
<1> QED BY <1>2, <1>8

\* f has what the loop holds after each of its turns.
LoopIs(f, at, which, way) ==
  /\ f[0] = at
  /\ \A k \in 1 .. Len(way) : f[k] = Set!Turn(f[k - 1], which, way[k])
  /\ Set!Loop(at, which, way) = f[Len(way)]

LEMMA LoopRuns ==
  ASSUME NEW at, NEW which, NEW way, Len(way) \in Nat
  PROVE  \E f : LoopIs(f, at, which, way)
<1> DEFINE n == Len(way)
           f == CHOOSE f : IsRun(f, n, at, which, way)
<1>1. IsRun(f, n, at, which, way) BY RunExists
<1>2. Set!Loop(at, which, way) = f[n] BY DEF Set!Loop, IsRun
<1> HIDE DEF f, n
<1>3. n \in Nat BY DEF n
<1>4. f[0] = at /\ \A k \in 1..n : f[k] = Set!Turn(f[k - 1], which, way[k])
  BY <1>1, <1>3 DEF IsRun
<1> QED BY <1>2, <1>4 DEF n, LoopIs

LEMMA LoopEnds ==
  ASSUME NEW at, NEW which, NEW way, Len(way) \in Nat,
         NEW one, one = Set!Turn(at, which, way[1]),
         NEW two, two = Set!Turn(one, which, way[2])
  PROVE  /\ Len(way) = 0 => Set!Loop(at, which, way) = at
         /\ Len(way) > 0 /\ (Len(way) = 1 \/ one.ended) => Set!Loop(at, which, way) = one
         /\ Len(way) > 1 /\ two.ended => Set!Loop(at, which, way) = two
<1>0. PICK f : LoopIs(f, at, which, way) BY LoopRuns
<1> DEFINE n == Len(way)
<1>1. /\ f[0] = at
      /\ \A k \in 1..n : f[k] = Set!Turn(f[k - 1], which, way[k])
      /\ Set!Loop(at, which, way) = f[n]
  BY <1>0 DEF LoopIs
<1>2. n \in Nat OBVIOUS
<1>3. \A a, i : a.ended => Set!Turn(a, which, i) = a BY DEF Set!Turn
<1> HIDE DEF n
<1>4. ASSUME NEW m \in 0..n, f[m].ended PROVE f[n] = f[m]
  <2> DEFINE S == {k \in m..n : f[k] # f[m]}
  <2> SUFFICES ASSUME S # {} PROVE FALSE BY <1>2
  <2>1. PICK k \in S : \A j \in S : k <= j
    <3>1. S \subseteq Nat BY <1>2
    <3> HIDE DEF S
    <3> QED BY <3>1, LeastNumber
  <2>2. k \in m..n /\ k # m BY <2>1
  <2>3. k - 1 \in m..n /\ k - 1 \notin S BY <1>2, <2>1, <2>2
  <2>4. f[k - 1] = f[m] BY <2>3
  <2>5. k \in 1..n BY <1>2, <2>2
  <2>6. f[k] = Set!Turn(f[m], which, way[k]) BY <1>1, <2>4, <2>5
  <2>7. f[k] = f[m] BY <1>3, <1>4, <2>6
  <2> QED BY <2>1, <2>7
<1>5. n > 0 => f[1] = one
  <2> SUFFICES ASSUME n > 0 PROVE f[1] = one OBVIOUS
  <2>1. f[1] = Set!Turn(f[1 - 1], which, way[1]) BY <1>1, <1>2
  <2> QED BY <1>1, <2>1
<1>6. n > 1 => f[2] = two
  <2> SUFFICES ASSUME n > 1 PROVE f[2] = two OBVIOUS
  <2>1. f[2] = Set!Turn(f[2 - 1], which, way[2]) BY <1>1, <1>2
  <2> QED BY <1>2, <1>5, <2>1
<1>7. n = 0 => Set!Loop(at, which, way) = at BY <1>1
<1>8. n > 0 /\ (n = 1 \/ one.ended) => Set!Loop(at, which, way) = one
  BY <1>1, <1>2, <1>4, <1>5
<1>9. n > 1 /\ two.ended => Set!Loop(at, which, way) = two
  BY <1>1, <1>2, <1>4, <1>6
<1> QED BY <1>7, <1>8, <1>9 DEF n

\* What a turn at i makes of items s, the one at w among them.
Swap(s, i, w) == [k \in DOMAIN s |-> IF k = i THEN s[w] ELSE IF k = w THEN s[i] ELSE s[k]]

LEMMA TurnGoes ==
  ASSUME NEW n \in Nat, NEW s \in [1..n -> Int], NEW w \in 1..n, NEW i \in 1..n, i # w
  PROVE  Set!Turn(Set!Going(s), w, i) =
           IF s[IF i < w THEN w ELSE i] < s[IF i < w THEN i ELSE w]
           THEN Set!Going(Swap(s, i, w))
           ELSE Set!Ended(s, setUnique /\ s[i] = s[w])
<1> DEFINE at == Set!Going(s)
<1>1. at.items = s /\ ~at.ended BY DEF Set!Going
<1>2. [s EXCEPT ![i] = s[w], ![w] = s[i]] = Swap(s, i, w) BY DEF Swap
<1> HIDE DEF at
<1> QED BY <1>1, <1>2 DEF Set!Turn, at

LEMMA NeighboursOrdered ==
  ASSUME NEW s \in Seq(Int), NEW gap \in 0..1,
         \A i \in 1 .. Len(s) : i + 1 <= Len(s) => s[i] + gap <= s[i + 1]
  PROVE  Ordered(s, gap)
<1>1. Len(s) \in Nat /\ \A i \in 1 .. Len(s) : s[i] \in Int OBVIOUS
<1>2. ASSUME NEW i \in 1 .. Len(s), NEW j \in 1 .. Len(s), i < j PROVE s[i] + gap <= s[j]
  <2> DEFINE S == {k \in i + 1 .. Len(s) : ~(s[i] + gap <= s[k])}
  <2> SUFFICES ASSUME S # {} PROVE FALSE BY <1>1, <1>2
  <2>1. PICK k \in S : \A m \in S : k <= m
    <3>1. S \subseteq Nat BY <1>1
    <3> HIDE DEF S
    <3> QED BY <3>1, LeastNumber
  <2>2. k \in i + 1 .. Len(s) /\ ~(s[i] + gap <= s[k]) BY <2>1
  <2>3. k # i + 1 BY <1>1, <2>2
  <2>4. k - 1 \in i + 1 .. Len(s) /\ k - 1 \notin S BY <1>1, <2>1, <2>2, <2>3
  <2>5. s[i] + gap <= s[k - 1] BY <2>4
  <2>6. PICK m \in 1 .. Len(s) : m = k - 1 /\ k = m + 1 BY <1>1, <2>2, <2>4
  <2>7. s[m] + gap <= s[k] BY <1>1, <2>2, <2>6
  <2>8. s[k] \in Int /\ s[m] \in Int /\ s[i] \in Int BY <1>1, <2>2, <2>6
  <2>9. s[i] + gap <= s[m] BY <2>5, <2>6
  <2>10. gap \in Int /\ gap >= 0 OBVIOUS
  <2>11. \A a, b, c, g \in Int : g >= 0 /\ a + g <= b /\ b + g <= c => a + g <= c
    OBVIOUS
  <2>12. s[i] + gap <= s[k] BY ONLY <2>7, <2>8, <2>9, <2>10, <2>11
  <2> QED BY <2>2, <2>12
<1> QED BY <1>2 DEF Ordered

LEMMA TwoPassed ==
  ASSUME SetIInv, MaxPassed <= 1, NEW which \in 1 .. Len(items), NEW x \in Items,
         Cardinality(Set!Passed(which, x)) <= MaxPassed,
         NEW i \in Set!Passed(which, x), NEW j \in Set!Passed(which, x)
  PROVE  i = j
<1> DEFINE P == Set!Passed(which, x)
<1>1. P \subseteq 1 .. Len(items) BY SetFacts DEF Set!Passed
<1>2. IsFiniteSet(P)
  <2>1. IsFiniteSet(1 .. Len(items)) BY SetFacts, FS_Interval
  <2> HIDE DEF P
  <2> QED BY <1>1, <2>1, FS_Subset
<1>3. Cardinality(P) \in Nat /\ Cardinality(P) <= 1
  BY <1>2, FS_CardinalityType, ContainersAssumption
<1>4. i \in P /\ j \in P OBVIOUS
<1> HIDE DEF P
<1>5. Cardinality(P \ {i}) = Cardinality(P) - 1 BY <1>2, <1>4, FS_RemoveElement
<1>6. IsFiniteSet(P \ {i}) BY <1>2, FS_RemoveElement
<1>7. Cardinality(P \ {i}) = 0 BY <1>3, <1>5, <1>6, FS_CardinalityType
<1>8. P \ {i} = {} BY <1>6, <1>7, FS_EmptySet
<1> QED BY <1>4, <1>8
\* The loops of modify() that move the item at w one place at most.
LEMMA ForwardGoes ==
  ASSUME NEW n \in Nat, NEW s \in [1..n -> Int], NEW w \in 1..n, Set!size = n,
         NEW end, end = Set!Forward(Set!Going(s), w)
  PROVE  /\ w = n => end = Set!Going(s)
         /\ w < n /\ ~(s[w + 1] < s[w])
              => end = Set!Ended(s, setUnique /\ s[w + 1] = s[w])
         /\ w < n /\ s[w + 1] < s[w] /\ w + 1 = n => end = Set!Going(Swap(s, w + 1, w))
         /\ w < n /\ s[w + 1] < s[w] /\ w + 1 < n /\ ~(s[w + 2] < s[w + 1])
              => end = Set!Ended(Swap(s, w + 1, w), setUnique /\ s[w + 2] = s[w + 1])
<1> DEFINE way == [k \in 1 .. n - w |-> w + k]
           start == Set!Going(s)
           one == Set!Turn(start, w, w + 1)
           two == Set!Turn(one, w, w + 2)
<1>1. Len(way) = n - w /\ Len(way) \in Nat
  <2>1. n - w \in Nat OBVIOUS
  <2> QED BY <2>1
<1>2. end = Set!Loop(start, w, way) BY DEF Set!Forward
<1>3. /\ w = n => end = start
      /\ w < n /\ (n = w + 1 \/ one.ended) => end = one
      /\ w + 1 < n /\ two.ended => end = two
  <2> DEFINE a == Set!Turn(start, w, way[1])
             b == Set!Turn(a, w, way[2])
  <2>1. /\ Len(way) = 0 => end = start
        /\ Len(way) > 0 /\ (Len(way) = 1 \/ a.ended) => end = a
        /\ Len(way) > 1 /\ b.ended => end = b
    <3> HIDE DEF way, start
    <3> QED BY <1>1, <1>2, LoopEnds
  <2>2. w < n => a = one OBVIOUS
  <2>3. w + 1 < n => b = two BY <2>2
  <2> HIDE DEF a, b, one, two, way, start
  <2> QED BY <1>1, <2>1, <2>2, <2>3
<1>4. \A r, erased : /\ Set!Ended(r, erased).ended
                     /\ Set!Ended(r, erased).items = r /\ Set!Going(r).items = r
  BY DEF Set!Ended, Set!Going
<1>5. w < n => one = IF s[w + 1] < s[w] THEN Set!Going(Swap(s, w + 1, w))
                     ELSE Set!Ended(s, setUnique /\ s[w + 1] = s[w])
  <2> SUFFICES ASSUME w < n PROVE one = IF s[w + 1] < s[w] THEN Set!Going(Swap(s, w + 1, w))
                     ELSE Set!Ended(s, setUnique /\ s[w + 1] = s[w])
    OBVIOUS
  <2>1. w + 1 \in 1..n /\ ~(w + 1 < w) /\ w + 1 # w OBVIOUS
  <2> QED BY <2>1, TurnGoes
<1>6. ASSUME w + 1 < n, s[w + 1] < s[w], ~(s[w + 2] < s[w + 1])
      PROVE  two = Set!Ended(Swap(s, w + 1, w), setUnique /\ s[w + 2] = s[w + 1])
  <2> DEFINE t == Swap(s, w + 1, w)
  <2>0. w + 1 \in 1..n /\ w + 1 # w /\ w + 2 \in 1..n /\ w + 2 # w /\ w + 2 # w + 1
    BY <1>6
  <2>1. t \in [1..n -> Int] /\ t[w + 2] = s[w + 2] /\ t[w] = s[w + 1]
    <3>1. t = [k \in 1..n |-> IF k = w + 1 THEN s[w] ELSE IF k = w THEN s[w + 1] ELSE s[k]]
      BY DEF Swap
    <3> HIDE DEF t
    <3> QED BY <2>0, <3>1
  <2>2. w + 2 \in 1..n /\ ~(w + 2 < w) /\ w + 2 # w BY <1>6
  <2>3. one = Set!Going(t) BY <1>5, <1>6
  <2> HIDE DEF t, one
  <2>4. two = IF t[w + 2] < t[w] THEN Set!Going(Swap(t, w + 2, w))
              ELSE Set!Ended(t, setUnique /\ t[w + 2] = t[w])
    BY <2>1, <2>2, <2>3, TurnGoes
  <2> QED BY <1>6, <2>1, <2>4 DEF t
<1> HIDE DEF one, two, start
<1> QED BY <1>3, <1>4, <1>5, <1>6 DEF start

BackwardEnds(end, s, w) ==
  /\ w = 1 => end = Set!Going(s)
  /\ w > 1 /\ ~(s[w] < s[w - 1]) => end = Set!Ended(s, setUnique /\ s[w - 1] = s[w])
  /\ w = 2 /\ s[w] < s[w - 1] => end = Set!Going(Swap(s, w - 1, w))
  /\ w > 2 /\ s[w] < s[w - 1] /\ ~(s[w - 1] < s[w - 2])
       => end = Set!Ended(Swap(s, w - 1, w), setUnique /\ s[w - 2] = s[w - 1])

LEMMA BackwardGoes ==
  ASSUME NEW n \in Nat, NEW s \in [1..n -> Int], NEW w \in 1..n, Set!size = n,
         NEW at, at.items = s, ~at.erased, NEW end, end = Set!Backward(at, w)
  PROVE  BackwardEnds(end, s, w)
<1> DEFINE way == [k \in 1 .. w - 1 |-> w - k]
           start == Set!Going(s)
           one == Set!Turn(start, w, w - 1)
           two == Set!Turn(one, w, w - 2)
<1>1. Len(way) = w - 1 /\ Len(way) \in Nat
  <2>1. w - 1 \in Nat OBVIOUS
  <2> QED BY <2>1
<1>2. end = Set!Loop(start, w, way) BY DEF Set!Backward
<1>3. /\ w = 1 => end = start
      /\ w > 1 /\ (w = 2 \/ one.ended) => end = one
      /\ w > 2 /\ two.ended => end = two
  <2> DEFINE a == Set!Turn(start, w, way[1])
             b == Set!Turn(a, w, way[2])
  <2>1. /\ Len(way) = 0 => end = start
        /\ Len(way) > 0 /\ (Len(way) = 1 \/ a.ended) => end = a
        /\ Len(way) > 1 /\ b.ended => end = b
    <3> HIDE DEF way, start
    <3> QED BY <1>1, <1>2, LoopEnds
  <2>2. w > 1 => a = one OBVIOUS
  <2>3. w > 2 => b = two BY <2>2
  <2> HIDE DEF a, b, one, two, way, start
  <2> QED BY <1>1, <2>1, <2>2, <2>3
<1>4. \A r, erased : /\ Set!Ended(r, erased).ended
                     /\ Set!Ended(r, erased).items = r /\ Set!Going(r).items = r
  BY DEF Set!Ended, Set!Going
<1>5. w > 1 => one = IF s[w] < s[w - 1] THEN Set!Going(Swap(s, w - 1, w))
                     ELSE Set!Ended(s, setUnique /\ s[w - 1] = s[w])
  <2> SUFFICES ASSUME w > 1 PROVE one = IF s[w] < s[w - 1] THEN Set!Going(Swap(s, w - 1, w))
                     ELSE Set!Ended(s, setUnique /\ s[w - 1] = s[w])
    OBVIOUS
  <2>1. w - 1 \in 1..n /\ w - 1 < w /\ w - 1 # w OBVIOUS
  <2> QED BY <2>1, TurnGoes
<1>6. ASSUME w > 2, s[w] < s[w - 1], ~(s[w - 1] < s[w - 2])
      PROVE  two = Set!Ended(Swap(s, w - 1, w), setUnique /\ s[w - 2] = s[w - 1])
  <2> DEFINE t == Swap(s, w - 1, w)
  <2>0. w - 1 \in 1..n /\ w - 1 # w /\ w - 2 \in 1..n /\ w - 2 # w /\ w - 2 # w - 1
    BY <1>6
  <2>1. t \in [1..n -> Int] /\ t[w - 2] = s[w - 2] /\ t[w] = s[w - 1]
    <3>1. t = [k \in 1..n |-> IF k = w - 1 THEN s[w] ELSE IF k = w THEN s[w - 1] ELSE s[k]]
      BY DEF Swap
    <3> HIDE DEF t
    <3> QED BY <2>0, <3>1
  <2>2. w - 2 \in 1..n /\ w - 2 < w /\ w - 2 # w BY <1>6
  <2>3. one = Set!Going(t) BY <1>5, <1>6
  <2> HIDE DEF t, one
  <2>4. two = IF t[w] < t[w - 2] THEN Set!Going(Swap(t, w - 2, w))
              ELSE Set!Ended(t, setUnique /\ t[w - 2] = t[w])
    BY <2>1, <2>2, <2>3, TurnGoes
  <2> QED BY <1>6, <2>1, <2>4 DEF t
<1> HIDE DEF one, two, start
<1> QED BY <1>3, <1>4, <1>5, <1>6 DEF start, BackwardEnds
\* What modify() makes of the items: x stays where the item was, or changes
\* places with a neighbour, or goes as it equals one.
Moved(t, s, w, place, x) ==
  /\ t \in [1 .. Len(s) -> Int] /\ place \in 1 .. Len(s)
  /\ \A k \in 1 .. Len(s) :
       t[k] = IF k = place THEN x ELSE IF k = w THEN s[place] ELSE s[k]

Goes(s, gap, w, place, x) ==
  /\ place \in {w - 1, w, w + 1}
  /\ place > 1 /\ place # w + 1 => s[place - 1] + gap <= x
  /\ place < Len(s) /\ place # w - 1 => x + gap <= s[place + 1]
  /\ place = w + 1 => s[place] + gap <= x
  /\ place = w - 1 => x + gap <= s[place]

LEMMA MovedStaysOrdered ==
  ASSUME NEW s \in Seq(Int), NEW gap \in 0..1, Ordered(s, gap), NEW w \in 1 .. Len(s),
         NEW place, NEW x \in Int, NEW t, Moved(t, s, w, place, x), Goes(s, gap, w, place, x)
  PROVE  t \in Seq(Int) /\ Len(t) = Len(s) /\ Ordered(t, gap)
<1>1. Len(s) \in Nat /\ \A i \in 1 .. Len(s) : s[i] \in Int OBVIOUS
<1>2. t \in Seq(Int) /\ Len(t) = Len(s)
  <2>1. t \in [1 .. Len(s) -> Int] BY DEF Moved
  <2>2. DOMAIN t = 1 .. Len(s) BY <2>1
  <2>3. t \in Seq(Int) BY <1>1, <2>1, SeqDef
  <2> QED BY <1>1, <2>2, <2>3
<1>3. \A i, j \in 1 .. Len(s) : i < j => s[i] + gap <= s[j] BY DEF Ordered
<1>4. place \in 1 .. Len(s) /\ \A k \in 1 .. Len(s) :
        t[k] = IF k = place THEN x ELSE IF k = w THEN s[place] ELSE s[k]
  BY DEF Moved
<1> USE DEF Goes
<1>5. ASSUME NEW i \in 1 .. Len(s), NEW j \in 1 .. Len(s), j = i + 1
      PROVE  t[i] + gap <= t[j]
  <2>0. /\ t[i] = IF i = place THEN x ELSE IF i = w THEN s[place] ELSE s[i]
        /\ t[j] = IF j = place THEN x ELSE IF j = w THEN s[place] ELSE s[j]
    BY <1>4
  <2>1. i < j /\ s[i] + gap <= s[j] BY <1>3, <1>5
  <2>2. CASE i = place /\ j = w BY <1>4, <1>5, <2>0, <2>2
  <2>3. CASE j = place /\ i = w BY <1>4, <1>5, <2>0, <2>3
  <2>4. CASE i = place /\ j # w BY <1>4, <1>5, <2>0, <2>4
  <2>5. CASE j = place /\ i # w BY <1>4, <1>5, <2>0, <2>5
  <2>6. CASE i # place /\ j # place /\ i = w
    <3>1. place < j BY <1>5, <2>6
    <3>2. t[i] = s[place] /\ t[j] = s[j] BY <1>5, <2>0, <2>6
    <3>3. s[place] + gap <= s[j] BY <1>3, <1>4, <3>1
    <3> QED BY <3>2, <3>3
  <2>7. CASE i # place /\ j # place /\ j = w
    <3>1. i < place BY <1>5, <2>7
    <3>2. t[i] = s[i] /\ t[j] = s[place] BY <1>5, <2>0, <2>7
    <3>3. s[i] + gap <= s[place] BY <1>3, <1>4, <3>1
    <3> QED BY <3>2, <3>3
  <2>8. CASE i # place /\ j # place /\ i # w /\ j # w BY <1>4, <2>1, <2>8
  <2> QED BY <2>2, <2>3, <2>4, <2>5, <2>6, <2>7, <2>8
<1>6. \A i \in 1 .. Len(t) : i + 1 <= Len(t) => t[i] + gap <= t[i + 1] BY <1>1, <1>2, <1>5
<1> QED BY <1>2, <1>6, NeighboursOrdered
LEMMA RemovedIsCutOut ==
  ASSUME NEW s \in Seq(Int), NEW w \in 1 .. Len(s), NEW x \in Int
  PROVE  Set!RemoveAt([s EXCEPT ![w] = x], w) = CutOut(s, w, w + 1)
<1> DEFINE f == [s EXCEPT ![w] = x]
           a == SubSeq(f, 1, w - 1)
           b == SubSeq(f, w + 1, Len(f))
           r == Set!RemoveAt(f, w)
           c == CutOut(s, w, w + 1)
<1>1. f \in Seq(Int) /\ Len(f) = Len(s) /\ \A i \in 1 .. Len(s) : i # w => f[i] = s[i]
  OBVIOUS
<1>2. Len(s) \in Nat OBVIOUS
<1>3. r = a \o b BY DEF Set!RemoveAt
<1>4. c \in Seq(Int) /\ Len(c) = Len(s) - 1
      /\ \A i \in 1 .. Len(s) - 1 : c[i] = s[IF i < w THEN i ELSE i + 1]
  <2>1. PICK last : last = w + 1 OBVIOUS
  <2>2. w \in 1 .. Len(s) + 1 /\ last \in w .. Len(s) + 1 BY <1>2, <2>1
  <2>3. /\ c \in Seq(Int) /\ Len(c) = Len(s) - (last - w)
        /\ \A i \in 1 .. Len(s) - (last - w) : c[i] = s[IF i < w THEN i ELSE i + last - w]
    <3>1. c = CutOut(s, w, last) BY <2>1
    <3> HIDE DEF c
    <3> QED BY <2>2, <3>1, CutFacts
  <2>4. Len(s) - (last - w) = Len(s) - 1 BY <1>2, <2>1
  <2>5. \A i \in 1 .. Len(s) - 1 : i + last - w = i + 1 BY <1>2, <2>1
  <2> HIDE DEF c
  <2> QED BY <2>3, <2>4, <2>5
<1> HIDE DEF f
<1>5. a \in Seq(Int) /\ Len(a) = w - 1 /\ \A i \in 1 .. w - 1 : a[i] = f[i]
  BY <1>1, <1>2, SubSeqProperties
<1>6. b \in Seq(Int) /\ Len(b) = Len(s) - w /\ \A i \in 1 .. Len(s) - w : b[i] = f[w + i]
  <2>1. CASE w = Len(s) BY <1>1, <2>1, SubSeqProperties
  <2>2. CASE w # Len(s) BY <1>1, <1>2, <2>2, SubSeqProperties
  <2> QED BY <2>1, <2>2
<1> HIDE DEF a, b, r, c
<1>7. /\ r \in Seq(Int) /\ Len(r) = Len(s) - 1
      /\ \A i \in 1 .. Len(s) - 1 : r[i] = IF i <= w - 1 THEN a[i] ELSE b[i - (w - 1)]
  <2>1. a \in Seq(Int) /\ b \in Seq(Int) BY <1>5, <1>6
  <2>2. /\ r \in Seq(Int) /\ Len(r) = Len(a) + Len(b)
        /\ \A i \in 1 .. Len(a) + Len(b) : r[i] = IF i <= Len(a) THEN a[i] ELSE b[i - Len(a)]
    BY <1>3, <2>1, ConcatProperties
  <2>3. Len(a) = w - 1 /\ Len(a) + Len(b) = Len(s) - 1 BY <1>2, <1>5, <1>6
  <2> QED BY <2>2, <2>3
<1>8. ASSUME NEW i \in 1 .. Len(s) - 1 PROVE r[i] = c[i]
  <2>1. CASE i < w
    <3>1. r[i] = a[i] BY <1>2, <1>7, <2>1
    <3>2. i \in 1 .. w - 1 /\ i \in 1 .. Len(s) /\ i # w BY <1>2, <2>1
    <3>3. r[i] = s[i] BY <1>1, <1>5, <3>1, <3>2
    <3>4. c[i] = s[i] BY <1>4, <2>1
    <3> QED BY <3>3, <3>4
  <2>2. CASE ~(i < w)
    <3>0. ~(i <= w - 1) BY <1>2, <2>2
    <3>1. r[i] = b[i - (w - 1)]
      <4>1. r[i] = IF i <= w - 1 THEN a[i] ELSE b[i - (w - 1)] BY <1>7
      <4> QED BY <3>0, <4>1
    <3>2. PICK k \in 1 .. Len(s) - w : k = i - (w - 1) BY <1>2, <2>2
    <3>3. r[i] = f[w + k] BY <1>6, <3>1, <3>2
    <3>4. w + k = i + 1 /\ i + 1 \in 1 .. Len(s) /\ i + 1 # w BY <1>2, <2>2, <3>2
    <3> QED BY <1>1, <1>4, <2>2, <3>3, <3>4
  <2> QED BY <2>1, <2>2
<1>9. r = c
  <2>1. Len(r) = Len(c) /\ \A i \in 1 .. Len(r) : r[i] = c[i] BY <1>4, <1>7, <1>8
  <2> QED BY <1>4, <1>7, <2>1, SeqEqual
<1> QED BY <1>9 DEF r, c, f

\* The item at w is gone, because another one is x; or it became x, and moved.
Modified(w, x) ==
  \/ /\ setUnique /\ (\E k \in 1 .. Len(items) : k # w /\ items[k] = x)
     /\ items' = CutOut(items, w, w + 1)
  \/ \E place : Moved(items', items, w, place, x)

LEMMA SetModifies ==
  ASSUME SetIInv, MaxPassed <= 1, NEW w \in 1 .. Set!size, NEW x \in Items, Set!modify(w, x)
  PROVE  SetStays /\ setReturned' = 1 /\ Modified(w, x)
<1> DEFINE n == Len(items)
           gap == Gap(setUnique)
           f == [items EXCEPT ![w] = x]
           mid == Set!Forward(Set!Going(f), w)
           end == Set!Backward(mid, w)
<1>1. /\ items \in Seq(Items) /\ items \in Seq(Int) /\ n \in Nat /\ Set!size = n
      /\ \A i \in 1..n : items[i] \in Items /\ items[i] \in Int
      /\ setUnique \in BOOLEAN /\ Ordered(items, gap) /\ gap \in 0..1
      /\ (gap = 1 <=> setUnique) /\ x \in Int
  BY SetFacts, ContainersAssumption DEF Gap
<1>2. /\ w \in 1..n /\ f \in [1..n -> Int] /\ f[w] = x
      /\ \A i \in 1..n : i # w => f[i] = items[i]
  <2>1. w \in 1..n BY <1>1
  <2>2. DOMAIN items = 1..n BY <1>1
  <2>3. f = [i \in 1..n |-> IF i = w THEN x ELSE items[i]] BY <2>2
  <2> HIDE DEF f, n
  <2> QED BY <1>1, <2>1, <2>3
<1>3. /\ items' = IF end.erased THEN Set!RemoveAt(end.items, w) ELSE end.items
      /\ setReturned' = 1 /\ setUnique' = setUnique
  BY DEF Set!modify
<1>4. /\ \A s : ~Set!Going(s).erased /\ Set!Going(s).items = s
      /\ \A s, b : (Set!Ended(s, b).erased <=> b) /\ Set!Ended(s, b).items = s
  BY DEF Set!Going, Set!Ended
<1>5. \A i, j \in 1..n : i < j => items[i] + gap <= items[j] /\ items[i] <= items[j]
  <2>1. \A i, j \in 1..n : i < j => items[i] + gap <= items[j] BY <1>1 DEF Ordered
  <2> HIDE DEF n, gap
  <2> QED BY <1>1, <2>1
<1>6. Cardinality(Set!Passed(w, x)) <= MaxPassed
  BY SetCardinality DEF Set!modify
<1> HIDE DEF n, gap, f, mid, end
<1>7. ASSUME end.erased, end.items = f, setUnique,
             \E k \in 1..n : k # w /\ items[k] = x
      PROVE  SetStays /\ Modified(w, x)
  <2>0. w \in 1 .. Len(items) /\ f = [items EXCEPT ![w] = x] BY <1>2 DEF n, f
  <2>1. items' = CutOut(items, w, w + 1)
    <3>1. items' = Set!RemoveAt(f, w) BY <1>3, <1>7
    <3>2. items \in Seq(Int) /\ x \in Int BY <1>1
    <3>3. Set!RemoveAt([items EXCEPT ![w] = x], w) = CutOut(items, w, w + 1)
      BY <2>0, <3>2, RemovedIsCutOut
    <3> QED BY <2>0, <3>1, <3>3
  <2>2. w \in 1 .. Len(items) + 1 /\ w + 1 \in w .. Len(items) + 1 BY <1>1, <2>0
  <2>3. items' \in Seq(Items) BY <1>1, <2>1, <2>2, CutFacts
  <2>4. Ordered(items', gap) BY <1>1, <2>1, <2>2, CutStaysOrdered
  <2>5. Modified(w, x) BY <1>7, <2>1 DEF Modified, n
  <2> QED BY <1>3, <2>3, <2>4, <2>5 DEF SetStays, gap
<1>8. ASSUME ~end.erased, NEW place, Moved(end.items, items, w, place, x),
             Goes(items, gap, w, place, x)
      PROVE  SetStays /\ Modified(w, x)
  <2>1. items' = end.items BY <1>3, <1>8
  <2>2. items' \in Seq(Int) /\ Len(items') = n /\ Ordered(items', gap)
    <3>1. \A t : t = end.items => t \in Seq(Int) /\ Len(t) = n /\ Ordered(t, gap)
      BY <1>1, <1>2, <1>8, MovedStaysOrdered DEF n
    <3> QED BY <2>1, <3>1
  <2>3. \A k \in 1..n : items'[k] \in Items BY <1>1, <1>8, <2>1 DEF Moved, n
  <2>4. items' \in [1..n -> Items] BY <2>2, <2>3
  <2>5. items' \in Seq(Items) BY <1>1, <2>4, SeqDef
  <2>6. Modified(w, x) BY <1>8, <2>1 DEF Modified
  <2> QED BY <1>3, <2>2, <2>5, <2>6 DEF SetStays, gap
\* Two that are in the way are one too many.
<1>9. ASSUME w + 1 < n, items[w + 1] < x PROVE x < items[w + 2]
  <2> SUFFICES ASSUME ~(x < items[w + 2]) PROVE FALSE OBVIOUS
  <2>1. w + 1 \in 1..n /\ w + 2 \in 1..n BY <1>1, <1>2, <1>9
  <2>2. items[w] <= items[w + 1] /\ items[w] <= items[w + 2] BY <1>1, <1>2, <1>5, <2>1
  <2>3. w + 1 \in Set!Passed(w, x) /\ w + 2 \in Set!Passed(w, x)
    <3>0. Set!size = n BY <1>1
    <3>1. \A i \in 1..n : i # w /\ items[w] <= items[i] /\ items[i] <= x => i \in Set!Passed(w, x)
      BY <3>0 DEF Set!Passed
    <3>2. items[w + 1] \in Int /\ items[w + 2] \in Int /\ x \in Int BY <1>1, <1>2, <2>1
    <3>3. items[w + 1] <= x /\ items[w + 2] <= x BY <1>9, <3>2
    <3>4. w + 1 # w /\ w + 2 # w BY <1>2
    <3> QED BY <2>1, <2>2, <3>1, <3>3, <3>4
  <2>4. w + 1 = w + 2 BY <1>2, <1>6, <2>3, TwoPassed DEF n
  <2> QED BY <1>2, <2>4
<1>10. ASSUME w > 2, x < items[w - 1] PROVE items[w - 2] < x
  <2> SUFFICES ASSUME ~(items[w - 2] < x) PROVE FALSE OBVIOUS
  <2>1. w - 1 \in 1..n /\ w - 2 \in 1..n BY <1>1, <1>2, <1>10
  <2>2. items[w - 1] <= items[w] /\ items[w - 2] <= items[w] BY <1>1, <1>2, <1>5, <2>1
  <2>3. w - 1 \in Set!Passed(w, x) /\ w - 2 \in Set!Passed(w, x)
    BY <1>1, <1>2, <1>10, <2>1, <2>2 DEF Set!Passed
  <2>4. w - 1 = w - 2 BY <1>2, <1>6, <2>3, TwoPassed DEF n
  <2> QED BY <1>2, <2>4
<1>11. ASSUME NEW s \in [1..n -> Int], mid.items = s, ~mid.erased
       PROVE  BackwardEnds(end, s, w)
  <2>1. end = Set!Backward(mid, w) BY DEF end
  <2> QED BY <1>1, <1>2, <1>11, <2>1, BackwardGoes
<1>12. CASE w < n /\ items[w + 1] < x
  <2> DEFINE g == Swap(f, w + 1, w)
  <2>0. w + 1 \in 1..n /\ w + 1 # w BY <1>1, <1>2, <1>12
  <2>1. g = [k \in 1..n |-> IF k = w + 1 THEN x ELSE IF k = w THEN items[w + 1] ELSE items[k]]
    <3>1. g = [k \in 1..n |-> IF k = w + 1 THEN f[w] ELSE IF k = w THEN f[w + 1] ELSE f[k]]
      BY <1>2 DEF Swap
    <3> QED BY <1>2, <2>0, <3>1
  <2>2. f[w + 1] = items[w + 1] /\ f[w + 1] < f[w] BY <1>2, <1>12, <2>0
  <2> HIDE DEF g
  <2>3. g \in [1..n -> Int] BY <1>1, <2>0, <2>1
  <2>4. Moved(g, items, w, w + 1, x) BY <2>0, <2>1, <2>3 DEF Moved, n
  <2>5. mid.items = g /\ ~mid.erased
    <3>1. CASE w + 1 = n
      <4>1. mid = Set!Going(g) BY <1>1, <1>2, <1>12, <2>2, <3>1, ForwardGoes DEF mid, g
      <4> QED BY <1>4, <4>1
    <3>2. CASE w + 1 < n
      <4>1. w + 2 \in 1..n /\ w + 2 # w /\ w + 1 < w + 2 BY <1>1, <1>2, <3>2
      <4>2. f[w + 2] = items[w + 2] /\ items[w + 1] + gap <= items[w + 2]
        BY <1>2, <1>5, <2>0, <4>1
      <4>3. items[w + 1] \in Int /\ items[w + 2] \in Int BY <1>1, <2>0, <4>1
      <4>4. ~(f[w + 2] < f[w + 1]) BY <1>1, <2>2, <4>2, <4>3
      <4>5. mid = Set!Ended(g, setUnique /\ f[w + 2] = f[w + 1])
        BY <1>1, <1>2, <1>12, <2>2, <3>2, <4>4, ForwardGoes DEF mid, g
      <4>6. ~(setUnique /\ f[w + 2] = f[w + 1]) BY <1>1, <2>2, <4>2, <4>3
      <4> QED BY <1>4, <4>5, <4>6
    <3> QED BY <1>1, <1>12, <2>0, <3>1, <3>2
  <2>6. end.items = g /\ ~end.erased
    <3>1. CASE w = 1
      <4>1. end = Set!Going(g) BY <1>11, <2>3, <2>5, <3>1 DEF BackwardEnds
      <4> QED BY <1>4, <4>1
    <3>2. CASE w > 1
      <4>1. w - 1 \in 1..n /\ w - 1 # w /\ w - 1 # w + 1 /\ w - 1 < w + 1 BY <1>1, <1>2, <3>2
      <4>2. g[w] = items[w + 1] /\ g[w - 1] = items[w - 1] BY <1>2, <2>0, <2>1, <4>1
      <4>3. items[w - 1] + gap <= items[w + 1] BY <1>5, <2>0, <4>1
      <4>4. items[w - 1] \in Int /\ items[w + 1] \in Int BY <1>1, <2>0, <4>1
      <4>5. ~(g[w] < g[w - 1]) BY <1>1, <4>2, <4>3, <4>4
      <4>6. end = Set!Ended(g, setUnique /\ g[w - 1] = g[w])
        BY <1>11, <2>3, <2>5, <3>2, <4>5 DEF BackwardEnds
      <4>7. ~(setUnique /\ g[w - 1] = g[w]) BY <1>1, <4>2, <4>3, <4>4
      <4> QED BY <1>4, <4>6, <4>7
    <3> QED BY <1>2, <3>1, <3>2
  <2> DEFINE place == w + 1
  <2>7. place < n => x + gap <= items[place + 1]
    <3> SUFFICES ASSUME place < n PROVE x + gap <= items[place + 1] OBVIOUS
    <3>1. x < items[w + 2] /\ w + 2 \in 1..n BY <1>1, <1>2, <1>9, <1>12
    <3>2. items[w + 2] \in Int /\ place + 1 = w + 2 BY <1>1, <1>2, <3>1
    <3> QED BY <1>1, <3>1, <3>2
  <2>8. items[place] + gap <= x BY <1>1, <1>12, <2>0
  <2>9. place \in {w - 1, w, w + 1} /\ place # w - 1 BY <1>2
  <2>10. Moved(end.items, items, w, place, x) BY <2>4, <2>6
  <2> HIDE DEF place
  <2>11. place = w + 1 BY DEF place
  <2>12. Goes(items, gap, w, place, x) BY <2>7, <2>8, <2>9, <2>11 DEF Goes, n
  <2>13. SetStays /\ Modified(w, x) BY <1>8, <2>6, <2>10, <2>12
  <2> QED BY <1>3, <2>13
<1>13. CASE ~(w < n /\ items[w + 1] < x)
  <2>1. w < n => w + 1 \in 1..n /\ f[w + 1] = items[w + 1] /\ items[w + 1] \in Int
    BY <1>1, <1>2
  <2>2. mid.items = f /\ (mid.erased <=> w < n /\ setUnique /\ items[w + 1] = x)
    <3>1. CASE w = n
      <4>1. mid = Set!Going(f) BY <1>1, <1>2, <3>1, ForwardGoes DEF mid
      <4> QED BY <1>1, <1>2, <1>4, <3>1, <4>1
    <3>2. CASE w < n
      <4>1. mid = Set!Ended(f, setUnique /\ f[w + 1] = f[w])
        BY <1>1, <1>2, <1>13, <2>1, <3>2, ForwardGoes DEF mid
      <4>2. mid.items = f /\ (mid.erased <=> setUnique /\ f[w + 1] = f[w]) BY <1>4, <4>1
      <4> QED BY <1>2, <2>1, <3>2, <4>2
    <3> QED BY <1>1, <1>2, <3>1, <3>2
  <2>3. CASE mid.erased
    <3>1. end = mid BY <2>3 DEF end, Set!Backward
    <3>2. setUnique /\ w + 1 \in 1..n /\ w + 1 # w /\ items[w + 1] = x
      BY <1>2, <2>1, <2>2, <2>3
    <3>3. \E k \in 1..n : k # w /\ items[k] = x BY <3>2
    <3> QED BY <1>3, <1>7, <2>2, <2>3, <3>1, <3>2, <3>3
  <2>4. CASE ~mid.erased
    <3>1. w < n => x + gap <= items[w + 1] BY <1>1, <1>13, <2>1, <2>2, <2>4
    <3>2. Moved(f, items, w, w, x)
      <4>1. w \in 1 .. Len(items) /\ f \in [1 .. Len(items) -> Int]
            /\ \A k \in 1 .. Len(items) : f[k] = IF k = w THEN x ELSE items[k]
        BY <1>2 DEF n
      <4> QED BY <4>1 DEF Moved
    <3>3. ASSUME end.items = f, ~end.erased, w > 1 => items[w - 1] + gap <= x
          PROVE  SetStays /\ Modified(w, x)
      <4> DEFINE place == w
      <4>1. /\ place \in {w - 1, w, w + 1} /\ place # w + 1 /\ place # w - 1
            /\ place > 1 => items[place - 1] + gap <= x
            /\ place < n => x + gap <= items[place + 1]
        BY <1>2, <3>1, <3>3
      <4>2. Moved(end.items, items, w, place, x) BY <3>2, <3>3
      <4> HIDE DEF place
      <4>3. place = w BY DEF place
      <4>4. Goes(items, gap, w, place, x) BY <4>1, <4>3 DEF Goes, n
      <4> QED BY <1>8, <3>3, <4>2, <4>4
    <3>4. CASE w = 1
      <4>1. end = Set!Going(f) BY <1>2, <1>11, <2>2, <2>4, <3>4 DEF BackwardEnds
      <4> QED BY <1>3, <1>4, <3>3, <3>4, <4>1
    <3>5. w > 1 => w - 1 \in 1..n /\ w - 1 # w /\ f[w - 1] = items[w - 1] /\ items[w - 1] \in Int
      BY <1>1, <1>2
    <3>6. CASE w > 1 /\ ~(x < items[w - 1])
      <4>1. end = Set!Ended(f, setUnique /\ f[w - 1] = f[w])
        BY <1>2, <1>11, <2>2, <2>4, <3>5, <3>6 DEF BackwardEnds
      <4>2. end.items = f /\ (end.erased <=> setUnique /\ items[w - 1] = x)
        BY <1>2, <1>4, <3>5, <3>6, <4>1
      <4>3. CASE end.erased
        <5>1. \E k \in 1..n : k # w /\ items[k] = x BY <3>5, <3>6, <4>2, <4>3
        <5> QED BY <1>3, <1>7, <4>2, <4>3, <5>1
      <4>4. CASE ~end.erased
        <5>1. items[w - 1] + gap <= x BY <1>1, <3>5, <3>6, <4>2, <4>4
        <5> QED BY <1>3, <3>3, <4>2, <4>4, <5>1
      <4> QED BY <4>3, <4>4
    <3>7. CASE w > 1 /\ x < items[w - 1]
      <4> DEFINE b == Swap(f, w - 1, w)
      <4>1. b = [k \in 1..n |-> IF k = w - 1 THEN x ELSE IF k = w THEN items[w - 1] ELSE items[k]]
        <5>1. b = [k \in 1..n |-> IF k = w - 1 THEN f[w] ELSE IF k = w THEN f[w - 1] ELSE f[k]]
          BY <1>2 DEF Swap
        <5> QED BY <1>2, <3>5, <3>7, <5>1
      <4> HIDE DEF b
      <4>2. b \in [1..n -> Int] BY <1>1, <3>5, <3>7, <4>1
      <4>3. Moved(b, items, w, w - 1, x) BY <3>5, <3>7, <4>1, <4>2 DEF Moved, n
      <4>4. end.items = b /\ ~end.erased
        <5>1. CASE w = 2
          <6>1. end = Set!Going(b)
            BY <1>2, <1>11, <2>2, <2>4, <3>5, <3>7, <5>1 DEF b, BackwardEnds
          <6> QED BY <1>4, <6>1
        <5>2. CASE w > 2
          <6>1. w - 2 \in 1..n /\ w - 2 # w /\ w - 2 < w - 1 BY <1>1, <1>2, <5>2
          <6>2. f[w - 2] = items[w - 2] /\ items[w - 2] + gap <= items[w - 1]
            BY <1>2, <1>5, <3>5, <3>7, <6>1
          <6>3. items[w - 2] \in Int BY <1>1, <6>1
          <6>4. ~(f[w - 1] < f[w - 2]) BY <1>1, <3>5, <3>7, <6>2, <6>3
          <6>5. end = Set!Ended(b, setUnique /\ f[w - 2] = f[w - 1])
            BY <1>2, <1>11, <2>2, <2>4, <3>5, <3>7, <5>2, <6>4 DEF b, BackwardEnds
          <6>6. ~(setUnique /\ f[w - 2] = f[w - 1]) BY <1>1, <3>5, <3>7, <6>2, <6>3
          <6> QED BY <1>4, <6>5, <6>6
        <5> QED BY <1>2, <3>7, <5>1, <5>2
      <4> DEFINE place == w - 1
      <4>5. place > 1 => items[place - 1] + gap <= x
        <5> SUFFICES ASSUME place > 1 PROVE items[place - 1] + gap <= x OBVIOUS
        <5>1. items[w - 2] < x /\ w - 2 \in 1..n BY <1>1, <1>2, <1>10, <3>7
        <5>2. items[w - 2] \in Int /\ place - 1 = w - 2 BY <1>1, <1>2, <5>1
        <5> QED BY <1>1, <5>1, <5>2
      <4>6. x + gap <= items[place] BY <1>1, <3>5, <3>7
      <4>7. place \in {w - 1, w, w + 1} /\ place # w + 1 BY <1>2
      <4>8. Moved(end.items, items, w, place, x) BY <4>3, <4>4
      <4> HIDE DEF place
      <4>9. place = w - 1 BY DEF place
      <4>10. Goes(items, gap, w, place, x) BY <4>5, <4>6, <4>7, <4>9 DEF Goes, n
      <4>11. SetStays /\ Modified(w, x) BY <1>8, <4>4, <4>8, <4>10
      <4> QED BY <1>3, <4>11
    <3> QED BY <1>2, <3>4, <3>6, <3>7
  <2> QED BY <2>3, <2>4
<1> QED BY <1>12, <1>13
LEMMA SetStep ==
  ASSUME MaxPassed <= 1, SetIInv, Set!Next \/ UNCHANGED setVars
  PROVE  SetIInv'
<1>1. CASE UNCHANGED setVars
  BY <1>1 DEF SetIInv, setVars, Set!TypeOK
<1>2. SetStays /\ setReturned' \in Nat => SetIInv'
  <2> SUFFICES ASSUME SetStays, setReturned' \in Nat PROVE SetIInv' OBVIOUS
  <2>1. Set!TypeOK' BY SetFacts DEF SetStays, Set!TypeOK
  <2> QED BY <2>1 DEF SetStays, SetIInv
<1>3. ASSUME NEW x \in Items,
             \/ Set!insert(x) \/ Set!insertUnique(x) \/ Set!removeOne(x) \/ Set!removeAll(x)
             \/ Set!contains(x) \/ Set!count(x)
      PROVE  SetIInv'
  BY <1>2, <1>3, SetInserts, SetRemoves, SetFinds
<1>4. ASSUME NEW x \in Items, NEW which \in 1 .. Set!size, Set!modify(which, x) PROVE SetIInv'
  <2>1. SetStays /\ setReturned' = 1 BY <1>4, SetModifies
  <2> QED BY <1>2, <2>1
<1>5. ASSUME NEW from \in 1 .. Set!size + 1, NEW till \in 1 .. Set!size + 1,
             Set!erase(from, till)
      PROVE  SetIInv'
  BY <1>2, <1>5, SetErases
<1>6. ASSUME NEW list \in Set!BoundedSeq(Items, MaxList), Set!merge(list) PROVE SetIInv'
  BY <1>2, <1>6, SetMerges
<1> QED BY <1>1, <1>3, <1>4, <1>5, <1>6 DEF Set!Next


(***************************************************************************)
(* FlatSet implements ItemBag.  How often an item occurs in a sequence,    *)
(* and what inserting, cutting out, replacing and appending make of that.  *)
(***************************************************************************)
At(s, x) == {i \in 1 .. Len(s) : s[i] = x}
Occurs(s, x) == Cardinality(At(s, x))
One(a, b) == IF a = b THEN 1 ELSE 0

LEMMA Renumbered ==
  ASSUME NEW S, IsFiniteSet(S), NEW T, NEW f \in [S -> T],
         \A a, b \in S : f[a] = f[b] => a = b,
         \A b \in T : \E a \in S : f[a] = b
  PROVE  IsFiniteSet(T) /\ Cardinality(T) = Cardinality(S)
<1>1. f \in Bijection(S, T)
  BY DEF Bijection, Injection, IsInjective, Surjection
<1> QED BY <1>1, FS_Bijection DEF ExistsBijection

LEMMA Counted == \A n \in Nat : IsFiniteSet(1..n) /\ Cardinality(1..n) = n
<1> SUFFICES ASSUME NEW n \in Nat PROVE IsFiniteSet(1..n) /\ Cardinality(1..n) = n OBVIOUS
<1> QED BY FS_Interval

LEMMA OccursFacts ==
  ASSUME NEW S, NEW s \in Seq(S), NEW x
  PROVE  /\ At(s, x) \subseteq 1 .. Len(s) /\ IsFiniteSet(At(s, x))
         /\ Occurs(s, x) \in 0 .. Len(s)
<1>1. At(s, x) \subseteq 1 .. Len(s) /\ Len(s) \in Nat BY DEF At
<1>2. IsFiniteSet(1 .. Len(s)) /\ Cardinality(1 .. Len(s)) = Len(s)
  BY <1>1, Counted
<1>3. IsFiniteSet(At(s, x)) /\ Cardinality(At(s, x)) <= Len(s) BY <1>1, <1>2, FS_Subset
<1>4. Cardinality(At(s, x)) \in Nat BY <1>3, FS_CardinalityType
<1> QED BY <1>1, <1>3, <1>4 DEF Occurs

LEMMA InsertOccurs ==
  ASSUME NEW S, NEW s \in Seq(S), NEW t \in Seq(S), NEW where \in 1 .. Len(s) + 1,
         NEW x, Inserted(t, s, where, x), NEW y
  PROVE  Occurs(t, y) = Occurs(s, y) + One(x, y)
<1> DEFINE A == At(s, y)
           T == At(t, y) \ {where}
           f == [i \in A |-> IF i < where THEN i ELSE i + 1]
<1>1. /\ Len(s) \in Nat /\ Len(t) = Len(s) + 1
      /\ \A i \in 1 .. Len(t) : t[i] = IF i < where THEN s[i] ELSE IF i = where THEN x ELSE s[i - 1]
  BY DEF Inserted
<1>2. \A i \in A : i \in 1 .. Len(s) /\ s[i] = y BY DEF At
<1>3. ASSUME NEW i \in A PROVE f[i] \in T
  <2>1. f[i] \in 1 .. Len(t) /\ f[i] # where BY <1>1, <1>2
  <2>2. t[f[i]] = y
    <3>1. CASE i < where BY <1>1, <1>2, <2>1, <3>1
    <3>2. CASE ~(i < where)
      <4>1. f[i] = i + 1 /\ i + 1 > where BY <1>2, <3>2
      <4> QED BY <1>1, <1>2, <2>1, <4>1
    <3> QED BY <3>1, <3>2
  <2> QED BY <2>1, <2>2 DEF At
<1>4. \A i, j \in A : f[i] = f[j] => i = j BY <1>2
<1>5. ASSUME NEW j \in T PROVE \E i \in A : f[i] = j
  <2>1. j \in 1 .. Len(t) /\ t[j] = y /\ j # where BY DEF At
  <2>2. CASE j < where
    <3>1. j \in 1 .. Len(s) /\ s[j] = y BY <1>1, <2>1, <2>2
    <3>2. j \in A BY <3>1 DEF At
    <3> QED BY <2>2, <3>2
  <2>3. CASE j > where
    <3>1. j - 1 \in 1 .. Len(s) /\ s[j - 1] = y /\ ~(j - 1 < where) BY <1>1, <2>1, <2>3
    <3>2. j - 1 \in A BY <3>1 DEF At
    <3> QED BY <2>1, <3>1, <3>2
  <2> QED BY <2>1, <2>2, <2>3
<1>6. IsFiniteSet(A) BY OccursFacts
<1>7. f \in [A -> T] BY <1>3
<1> HIDE DEF f, A, T
<1>8. Cardinality(T) = Cardinality(A) BY <1>4, <1>5, <1>6, <1>7, Renumbered
<1>9. IsFiniteSet(At(t, y)) /\ Cardinality(At(t, y)) \in Nat
  BY OccursFacts, FS_CardinalityType
<1>10. Cardinality(T) = IF where \in At(t, y) THEN Cardinality(At(t, y)) - 1
                        ELSE Cardinality(At(t, y))
  BY <1>9, FS_RemoveElement DEF T
<1>11. where \in At(t, y) <=> x = y
  <2>1. where \in 1 .. Len(t) /\ t[where] = x BY <1>1
  <2> QED BY <2>1 DEF At
<1> QED BY <1>8, <1>9, <1>10, <1>11 DEF Occurs, One, A

\* What is left are the ones that were not cut out.
IsCut(t, S, s, first, last) ==
  /\ s \in Seq(S) /\ first \in 1 .. Len(s) + 1 /\ last \in first .. Len(s) + 1
  /\ t = CutOut(s, first, last)

LEMMA CutCounts ==
  ASSUME NEW t, NEW S, NEW s, NEW first, NEW last, IsCut(t, S, s, first, last), NEW y
  PROVE  /\ Occurs(t, y) = Cardinality(At(s, y) \ (first .. last - 1))
         /\ Occurs(t, y) <= Occurs(s, y)
<1> DEFINE A == At(t, y)
           T == At(s, y) \ (first .. last - 1)
           f == [i \in A |-> IF i < first THEN i ELSE i + last - first]
<1>0. /\ s \in Seq(S) /\ first \in 1 .. Len(s) + 1 /\ last \in first .. Len(s) + 1
      /\ t = CutOut(s, first, last)
  BY DEF IsCut
<1>1. /\ t \in Seq(S) /\ Len(t) = Len(s) - (last - first) /\ Len(s) \in Nat
      /\ \A i \in 1 .. Len(s) - (last - first) :
           t[i] = s[IF i < first THEN i ELSE i + last - first]
  <2>1. Len(s) \in Nat BY <1>0
  <2> QED BY <1>0, <2>1, CutFacts
<1>2. \A i \in A : i \in 1 .. Len(t) /\ t[i] = y BY DEF At
<1>3. ASSUME NEW i \in A PROVE f[i] \in T
  <2>1. f[i] \in 1 .. Len(s) /\ f[i] \notin first .. last - 1 BY <1>0, <1>1, <1>2
  <2>2. s[f[i]] = y BY <1>0, <1>1, <1>2
  <2> QED BY <2>1, <2>2 DEF At
<1>4. \A i, j \in A : f[i] = f[j] => i = j BY <1>0, <1>1, <1>2
<1>5. ASSUME NEW j \in T PROVE \E i \in A : f[i] = j
  <2>1. j \in 1 .. Len(s) /\ s[j] = y /\ j \notin first .. last - 1 BY DEF At
  <2>2. CASE j < first
    <3>1. j \in 1 .. Len(t) /\ t[j] = y BY <1>0, <1>1, <2>1, <2>2
    <3>2. j \in A BY <3>1 DEF At
    <3> QED BY <2>2, <3>2
  <2>3. CASE j >= last
    <3> DEFINE i == j - (last - first)
    <3>1. i \in 1 .. Len(t) /\ ~(i < first) /\ i + last - first = j
      BY <1>0, <1>1, <2>1, <2>3
    <3>2. t[i] = y BY <1>0, <1>1, <2>1, <3>1
    <3>3. i \in A BY <3>1, <3>2 DEF At
    <3> QED BY <3>1, <3>3
  <2> QED BY <1>0, <2>1, <2>2, <2>3
<1>6. IsFiniteSet(A) BY <1>1, OccursFacts
<1>7. f \in [A -> T] BY <1>3
<1>8. T \subseteq At(s, y) OBVIOUS
<1> HIDE DEF f, A, T
<1>9. IsFiniteSet(T) /\ Cardinality(T) = Cardinality(A) BY <1>4, <1>5, <1>6, <1>7, Renumbered
<1>10. Cardinality(T) <= Cardinality(At(s, y)) BY <1>0, <1>8, OccursFacts, FS_Subset
<1> QED BY <1>9, <1>10 DEF Occurs, A, T

LEMMA CutOccurs ==
  ASSUME NEW S, NEW s \in Seq(S), NEW first \in 1 .. Len(s) + 1,
         NEW last \in first .. Len(s) + 1, NEW y
  PROVE  /\ Occurs(CutOut(s, first, last), y) = Cardinality(At(s, y) \ (first .. last - 1))
         /\ Occurs(CutOut(s, first, last), y) <= Occurs(s, y)
<1>1. IsCut(CutOut(s, first, last), S, s, first, last) BY DEF IsCut
<1> QED BY <1>1, CutCounts

LEMMA ExceptOccurs ==
  ASSUME NEW n \in Nat, NEW s \in [1..n -> Int], NEW w \in 1..n, NEW t \in [1..n -> Int],
         \A i \in 1..n : i # w => t[i] = s[i], NEW y
  PROVE  Occurs(t, y) + One(s[w], y) = Occurs(s, y) + One(t[w], y)
<1>1. s \in Seq(Int) /\ t \in Seq(Int) /\ Len(s) = n /\ Len(t) = n BY SeqDef
<1>2. At(s, y) \ {w} = At(t, y) \ {w} BY <1>1 DEF At
<1>3. (w \in At(s, y) <=> s[w] = y) /\ (w \in At(t, y) <=> t[w] = y) BY <1>1 DEF At
<1>4. /\ IsFiniteSet(At(s, y)) /\ Cardinality(At(s, y)) \in Nat
      /\ IsFiniteSet(At(t, y)) /\ Cardinality(At(t, y)) \in Nat
  BY <1>1, OccursFacts, FS_CardinalityType
<1>5. /\ Cardinality(At(s, y) \ {w})
           = IF s[w] = y THEN Cardinality(At(s, y)) - 1 ELSE Cardinality(At(s, y))
      /\ Cardinality(At(t, y) \ {w})
           = IF t[w] = y THEN Cardinality(At(t, y)) - 1 ELSE Cardinality(At(t, y))
  <2>1. ASSUME NEW A, IsFiniteSet(A)
        PROVE  Cardinality(A \ {w}) = IF w \in A THEN Cardinality(A) - 1 ELSE Cardinality(A)
    BY <2>1, FS_RemoveElement
  <2> QED BY <1>3, <1>4, <2>1
<1>6. \A a, b, c \in Nat :
        c = (IF s[w] = y THEN a - 1 ELSE a) /\ c = (IF t[w] = y THEN b - 1 ELSE b)
                          => b + One(s[w], y) = a + One(t[w], y)
  BY DEF One
<1>7. Cardinality(At(s, y) \ {w}) \in Nat
  <2>1. IsFiniteSet(At(s, y) \ {w}) BY <1>4, FS_RemoveElement
  <2> QED BY <2>1, FS_CardinalityType
<1> DEFINE a == Cardinality(At(s, y))
           b == Cardinality(At(t, y))
           c == Cardinality(At(s, y) \ {w})
<1>8. /\ a \in Nat /\ b \in Nat /\ c \in Nat
      /\ c = (IF s[w] = y THEN a - 1 ELSE a) /\ c = (IF t[w] = y THEN b - 1 ELSE b)
  BY <1>2, <1>4, <1>5, <1>7
<1> HIDE DEF a, b, c
<1>9. b + One(s[w], y) = a + One(t[w], y) BY <1>6, <1>8
<1> QED BY <1>9 DEF Occurs, a, b

LEMMA ConcatOccurs ==
  ASSUME NEW S, NEW s \in Seq(S), NEW t \in Seq(S), NEW y
  PROVE  Occurs(s \o t, y) = Occurs(s, y) + Occurs(t, y)
<1> DEFINE r == s \o t
           B == At(r, y) \ At(s, y)
           f == [i \in At(t, y) |-> i + Len(s)]
<1>1. /\ r \in Seq(S) /\ Len(r) = Len(s) + Len(t) /\ Len(s) \in Nat /\ Len(t) \in Nat
      /\ \A i \in 1 .. Len(s) + Len(t) : r[i] = IF i <= Len(s) THEN s[i] ELSE t[i - Len(s)]
  BY ConcatProperties
<1> HIDE DEF r
<1>2. At(s, y) \subseteq At(r, y) BY <1>1 DEF At
<1>3. ASSUME NEW i \in At(t, y) PROVE f[i] \in B
  <2>1. i \in 1 .. Len(t) /\ t[i] = y BY DEF At
  <2>2. i + Len(s) \in 1 .. Len(r) /\ ~(i + Len(s) <= Len(s)) /\ (i + Len(s)) - Len(s) = i
    BY <1>1, <2>1
  <2>3. r[i + Len(s)] = y BY <1>1, <2>1, <2>2
  <2> QED BY <2>2, <2>3 DEF At
<1>4. \A i, j \in At(t, y) : f[i] = f[j] => i = j BY <1>1 DEF At
<1>5. ASSUME NEW j \in B PROVE \E i \in At(t, y) : f[i] = j
  <2>1. j \in 1 .. Len(r) /\ r[j] = y /\ ~(j \in 1 .. Len(s) /\ s[j] = y) BY DEF At
  <2>2. ~(j <= Len(s)) BY <1>1, <2>1
  <2>3. j - Len(s) \in 1 .. Len(t) /\ t[j - Len(s)] = y BY <1>1, <2>1, <2>2
  <2>4. j - Len(s) \in At(t, y) BY <2>3 DEF At
  <2> QED BY <1>1, <2>1, <2>4
<1>6. f \in [At(t, y) -> B] BY <1>3
<1>7. /\ IsFiniteSet(At(r, y)) /\ IsFiniteSet(At(s, y)) /\ IsFiniteSet(At(t, y))
      /\ Cardinality(At(r, y)) \in Nat /\ Cardinality(At(s, y)) \in Nat
      /\ Cardinality(At(t, y)) \in Nat
  BY <1>1, OccursFacts, FS_CardinalityType
<1> HIDE DEF f
<1>8. Cardinality(B) = Cardinality(At(t, y)) BY <1>4, <1>5, <1>6, <1>7, Renumbered
<1>9. Cardinality(B) = Cardinality(At(r, y)) - Cardinality(At(s, y))
  <2>1. At(r, y) \cap At(s, y) = At(s, y) BY <1>2
  <2> QED BY <1>7, <2>1, FS_Difference
<1> QED BY <1>7, <1>8, <1>9 DEF Occurs, r

(***************************************************************************)
(* Sequences in order: the n places of one item are one after another, so  *)
(* that the items of the bag, one by one, are as many as the places.       *)
(***************************************************************************)
LEMMA StrictOccurs ==
  ASSUME NEW s \in Seq(Int), Ordered(s, 1), NEW y PROVE Occurs(s, y) <= 1
<1>1. \A i, j \in At(s, y) : i = j
  <2> SUFFICES ASSUME NEW i \in At(s, y), NEW j \in At(s, y), i < j PROVE FALSE
    BY DEF At
  <2>1. i \in 1 .. Len(s) /\ j \in 1 .. Len(s) /\ s[i] = y /\ s[j] = y BY DEF At
  <2>2. s[i] + 1 <= s[j] /\ s[i] \in Int /\ s[j] \in Int BY <2>1 DEF Ordered
  <2> QED BY <2>1, <2>2
<1>2. CASE At(s, y) = {} BY <1>2, FS_EmptySet DEF Occurs
<1>3. CASE At(s, y) # {}
  <2>1. PICK i : At(s, y) = {i} BY <1>1, <1>3
  <2>2. Occurs(s, y) = 1 BY <2>1, FS_Singleton DEF Occurs
  <2> QED BY <2>2
<1> QED BY <1>2, <1>3

\* The occurrences of y stand together, from the first place not below it.
HasRange(s, y) ==
  \E low \in 1 .. Len(s) + 1, high \in 1 .. Len(s) + 1 :
    /\ low <= high
    /\ \A i \in 1 .. Len(s) : (s[i] < y <=> i < low) /\ (s[i] <= y <=> i < high)
    /\ At(s, y) = low .. high - 1 /\ Occurs(s, y) = high - low
    /\ low = Cardinality({i \in 1 .. Len(s) : s[i] < y}) + 1

LEMMA OrderedOccurs ==
  ASSUME NEW s \in Seq(Int), NEW gap \in 0..1, Ordered(s, gap), NEW y \in Int
  PROVE  HasRange(s, y)
<1> DEFINE low == Cardinality({i \in 1 .. Len(s) : s[i] < y}) + 1
           high == Cardinality({i \in 1 .. Len(s) : s[i] <= y}) + 1
<1>3. /\ low \in 1 .. Len(s) + 1 /\ high \in 1 .. Len(s) + 1 /\ low <= high
      /\ \A i \in 1 .. Len(s) : (s[i] < y <=> i < low) /\ (s[i] <= y <=> i < high)
  <2>1. Splits(s, y, low, high) BY Bounds
  <2> HIDE DEF low, high
  <2> QED BY <2>1 DEF Splits
<1>1. low = Cardinality({i \in 1 .. Len(s) : s[i] < y}) + 1 OBVIOUS
<1> HIDE DEF low, high
<1>4. \A i \in 1 .. Len(s) : s[i] \in Int /\ i \in Int OBVIOUS
<1>5. Len(s) \in Nat OBVIOUS
<1>6. At(s, y) = low .. high - 1
  <2>1. \A i \in 1 .. Len(s) : s[i] = y <=> ~(i < low) /\ i < high BY <1>3, <1>4
  <2>2. \A i \in low .. high - 1 : i \in 1 .. Len(s) BY <1>3, <1>5
  <2>3. \A i \in 1 .. Len(s) : s[i] = y <=> i \in low .. high - 1 BY <1>3, <1>4, <2>1
  <2> QED BY <2>2, <2>3 DEF At
<1>7. Occurs(s, y) = high - low
  <2>1. low \in Int /\ high - 1 \in Int BY <1>3
  <2>2. Cardinality(low .. high - 1) = IF low > high - 1 THEN 0 ELSE (high - 1) - low + 1
    BY <2>1, FS_Interval
  <2> QED BY <1>3, <1>6, <2>2 DEF Occurs
<1> QED BY <1>1, <1>3, <1>6, <1>7 DEF HasRange

BagOf(K, s) == [x \in K |-> Occurs(s, x)]
Copies(K, b) == UNION {{x} \X (1 .. b[x]) : x \in K}

LEMMA AsManyCopies ==
  ASSUME NEW K \in SUBSET Int, NEW s \in Seq(K), NEW gap \in 0..1, Ordered(s, gap)
  PROVE  Cardinality(Copies(K, BagOf(K, s))) = Len(s)
<1> DEFINE D == 1 .. Len(s)
           low(x) == Cardinality({i \in 1 .. Len(s) : s[i] < x}) + 1
           T == Copies(K, BagOf(K, s))
           f == [i \in D |-> <<s[i], i + 1 - low(s[i])>>]
<1>1. s \in Seq(Int) /\ Len(s) \in Nat /\ \A i \in D : s[i] \in K /\ s[i] \in Int
  <2>1. Len(s) \in Nat /\ \A i \in D : s[i] \in K OBVIOUS
  <2>2. \A x \in K : x \in Int OBVIOUS
  <2>3. s \in Seq(Int) BY SeqMonotonic
  <2> QED BY <2>1, <2>2, <2>3
<1>2. IsFiniteSet(D) /\ Cardinality(D) = Len(s) BY <1>1, Counted
<1>3. ASSUME NEW x \in K
      PROVE  /\ low(x) \in 1 .. Len(s) + 1 /\ Occurs(s, x) \in Nat
             /\ At(s, x) = low(x) .. low(x) + Occurs(s, x) - 1
  <2>1. x \in Int OBVIOUS
  <2>2. PICK a \in 1 .. Len(s) + 1, b \in 1 .. Len(s) + 1 :
          a <= b /\ At(s, x) = a .. b - 1 /\ Occurs(s, x) = b - a /\ a = low(x)
    <3>1. HasRange(s, x) BY <1>1, <2>1, OrderedOccurs
    <3> QED BY <3>1 DEF HasRange
  <2> QED BY <2>2
<1> HIDE DEF low
<1>4. \A c : c \in T <=> \E x \in K : \E n \in 1 .. Occurs(s, x) : c = <<x, n>>
  BY DEF Copies, BagOf
<1>5. \A i \in D : i \in At(s, s[i]) BY DEF At
<1>6. ASSUME NEW i \in D PROVE f[i] \in T
  <2>0. PICK x \in K : x = s[i] BY <1>1
  <2>1. i + 1 - low(x) \in 1 .. Occurs(s, x)
    <3>1. i \in low(x) .. low(x) + Occurs(s, x) - 1 BY <1>3, <1>5, <2>0
    <3>2. low(x) \in Int /\ Occurs(s, x) \in Int BY <1>3
    <3>3. \A a, b, c \in Int : c \in a .. a + b - 1 => c + 1 - a \in 1..b OBVIOUS
    <3> QED BY <3>1, <3>2, <3>3
  <2> QED BY <1>4, <2>0, <2>1
<1>7. ASSUME NEW i \in D, NEW j \in D, f[i] = f[j] PROVE i = j
  <2>1. s[i] = s[j] /\ i + 1 - low(s[i]) = j + 1 - low(s[j]) BY <1>7
  <2>2. PICK x \in K : x = s[i] BY <1>1
  <2>3. i + 1 - low(x) = j + 1 - low(x) BY <2>1, <2>2
  <2>4. i \in Int /\ j \in Int /\ low(x) \in Int
    <3>1. low(x) \in Int BY <1>3
    <3> QED BY <3>1
  <2> QED BY <2>3, <2>4
<1>8. ASSUME NEW c \in T PROVE \E i \in D : f[i] = c
  <2>0. PICK x \in K : \E n \in 1 .. Occurs(s, x) : c = <<x, n>> BY <1>4
  <2>1. PICK n \in 1 .. Occurs(s, x) : c = <<x, n>> BY <2>0
  <2>2. low(x) + n - 1 \in At(s, x) BY <1>3
  <2>3. low(x) + n - 1 \in D /\ s[low(x) + n - 1] = x BY <2>2 DEF At
  <2>4. (low(x) + n - 1) + 1 - low(x) = n BY <1>3
  <2> QED BY <2>1, <2>3, <2>4
<1>9. f \in [D -> T] BY <1>6
<1> HIDE DEF f, D, T
<1> QED BY <1>2, <1>7, <1>8, <1>9, Renumbered DEF T

(***************************************************************************)
(* Sorting keeps what there is, finalize() one of each.                    *)
(***************************************************************************)
LEMMA SortOccurs ==
  ASSUME NEW s \in Seq(Items), NEW y \in Items
  PROVE  Occurs(Set!Sort(s), y) = Occurs(s, y)
<1> DEFINE t == Set!Sort(s)
           D == 1 .. Len(s)
           A == {i \in 1 .. Len(s) : s[i] < y}
           B == {i \in 1 .. Len(s) : s[i] <= y}
<1>0. y \in Int BY ContainersAssumption
<1>1. Len(s) \in Nat /\ DOMAIN s = D /\ \A i \in D : s[i] \in Items /\ s[i] \in Int
  BY SeqFacts
<1>2. t \in Seq(Items) /\ Len(t) = Len(s) BY SortIsOrdered
<1>3. ASSUME NEW n \in D PROVE Set!Below(s, t[n]) < n /\ n <= Set!UpTo(s, t[n])
  <2>1. t[n] = CHOOSE x \in Set!ToSet(s) : Set!Below(s, x) < n /\ n <= Set!UpTo(s, x)
    BY <1>1 DEF Set!Sort
  <2> HIDE DEF t
  <2> QED BY <2>1, SomeItemIsNth
<1>4. /\ Set!Below(s, y) = Cardinality(A) /\ Set!UpTo(s, y) = Cardinality(B)
      /\ IsFiniteSet(A) /\ IsFiniteSet(B) /\ Cardinality(A) \in Nat /\ Cardinality(B) \in Nat
  BY <1>0, BelowUpTo
<1>5. B \ A = At(s, y) /\ B \cap A = A BY <1>0, <1>1 DEF At
<1> HIDE DEF t, A, B
<1>6. Cardinality(B \ A) = Cardinality(B) - Cardinality(A)
  <2>1. Cardinality(B \ A) = Cardinality(B) - Cardinality(B \cap A) BY <1>4, FS_Difference
  <2> QED BY <1>5, <2>1
<1>7. Cardinality(A) <= Cardinality(B) /\ Cardinality(B) <= Len(s)
  <2>1. B \subseteq 1 .. Len(s) /\ A \subseteq B BY <1>0, <1>1 DEF A, B
  <2>2. IsFiniteSet(1 .. Len(s)) /\ Cardinality(1 .. Len(s)) = Len(s) BY <1>1, Counted
  <2> QED BY <1>4, <2>1, <2>2, FS_Subset
<1>8. ASSUME NEW n \in D PROVE t[n] = y <=> n \in Cardinality(A) + 1 .. Cardinality(B)
  <2>1. ASSUME t[n] = y PROVE n \in Cardinality(A) + 1 .. Cardinality(B)
    BY <1>1, <1>3, <1>4, <2>1
  <2>2. ASSUME n \in Cardinality(A) + 1 .. Cardinality(B) PROVE t[n] = y
    <3> SUFFICES ASSUME t[n] # y PROVE FALSE OBVIOUS
    <3> DEFINE x == t[n]
               A1 == {i \in 1 .. Len(s) : s[i] < x}
               B1 == {i \in 1 .. Len(s) : s[i] <= x}
    <3>1. x \in Items /\ x \in Int
      <4>1. n \in 1 .. Len(t) BY <1>2
      <4>2. t[n] \in Items BY <1>2, <4>1
      <4> QED BY <4>2, ContainersAssumption
    <3>2. /\ Set!Below(s, x) = Cardinality(A1) /\ Set!UpTo(s, x) = Cardinality(B1)
          /\ IsFiniteSet(A1) /\ IsFiniteSet(B1) /\ Cardinality(A1) \in Nat
          /\ Cardinality(B1) \in Nat
      BY <3>1, BelowUpTo
    <3>3. Cardinality(A1) < n /\ n <= Cardinality(B1) BY <1>3, <3>2
    <3>4. CASE x < y
      <4>1. B1 \subseteq A BY <1>0, <1>1, <3>1, <3>4 DEF A
      <4> HIDE DEF A1, B1
      <4>2. Cardinality(B1) <= Cardinality(A) BY <1>4, <4>1, FS_Subset
      <4> QED BY <1>4, <2>2, <3>2, <3>3, <4>2
    <3>5. CASE y < x
      <4>1. B \subseteq A1 BY <1>0, <1>1, <3>1, <3>5 DEF B
      <4> HIDE DEF A1, B1
      <4>2. Cardinality(B) <= Cardinality(A1) BY <3>2, <4>1, FS_Subset
      <4> QED BY <1>4, <2>2, <3>2, <3>3, <4>2
    <3> QED BY <1>0, <3>1, <3>4, <3>5
  <2> QED BY <2>1, <2>2
<1>9. At(t, y) = Cardinality(A) + 1 .. Cardinality(B)
  <2>1. \A n \in Cardinality(A) + 1 .. Cardinality(B) : n \in D BY <1>1, <1>4, <1>7
  <2> QED BY <1>2, <1>8, <2>1 DEF At
<1>10. Cardinality(At(t, y)) = Cardinality(B) - Cardinality(A)
  <2>1. PICK a, b \in Nat : a = Cardinality(A) /\ b = Cardinality(B) BY <1>4
  <2>2. Cardinality(a + 1 .. b) = IF a + 1 > b THEN 0 ELSE b - (a + 1) + 1
    BY FS_Interval
  <2> QED BY <1>7, <1>9, <2>1, <2>2
<1> QED BY <1>5, <1>6, <1>10 DEF Occurs, t

LEMMA FinalizeOccurs ==
  ASSUME NEW s \in Seq(Items), Ordered(s, 0), setUnique \in BOOLEAN, NEW y \in Items
  PROVE  Occurs(Set!finalize(s), y) =
           IF setUnique /\ Occurs(s, y) > 1 THEN 1 ELSE Occurs(s, y)
<1>1. CASE ~setUnique BY <1>1 DEF Set!finalize
<1>2. CASE setUnique
  <2> DEFINE S == Set!ToSet(s)
             N == Cardinality(S)
             r == Set!finalize(s)
  <2>1. Len(s) \in Nat /\ DOMAIN s = 1 .. Len(s)
        /\ \A i \in 1 .. Len(s) : s[i] \in Items /\ s[i] \in Int
    BY SeqFacts
  <2>2. S \in SUBSET Int /\ S \subseteq Items /\ \A x : x \in S <=> At(s, x) # {}
    BY <2>1 DEF Set!ToSet, At
  <2>3. IsFiniteSet(S)
    <3> DEFINE f == [i \in 1 .. Len(s) |-> s[i]]
    <3>1. f \in Surjection(1 .. Len(s), S) BY <2>1 DEF Set!ToSet, Surjection
    <3>2. IsFiniteSet(1 .. Len(s)) BY <2>1, FS_Interval
    <3> HIDE DEF f, S
    <3> QED BY <3>1, <3>2, FS_Surjection
  <2>4. r = Set!Unique(S) BY <1>2 DEF Set!finalize
  <2> HIDE DEF S
  <2>5. r = Ranked(S) BY <2>4 DEF Set!Unique, Ranked, Set!Cardinality, Cardinality
  <2> HIDE DEF r
  <2>6. /\ N \in Nat /\ r \in [1..N -> S]
        /\ \A m, n \in 1..N : m < n => r[m] < r[n]
    BY <2>2, <2>3, <2>5, RankedRises
  <2> HIDE DEF N
  <2>7. r \in Seq(Int) /\ Len(r) = N
    <3>1. r \in [1..N -> Int] BY <2>2, <2>6
    <3> QED BY <2>6, <3>1, SeqDef
  <2>8. Ordered(r, 1)
    <3>1. ASSUME NEW i \in 1..N, NEW j \in 1..N, i < j PROVE r[i] + 1 <= r[j]
      <4>1. r[i] < r[j] /\ r[i] \in Int /\ r[j] \in Int BY <2>2, <2>6, <3>1
      <4> QED BY <4>1
    <3> QED BY <2>7, <3>1 DEF Ordered
  \* Every one is there: there are as many places as there are of them.
  <2>9. \A x \in S : At(r, x) # {}
    <3>1. r \in Injection(1..N, S)
      <4>1. ASSUME NEW i \in 1..N, NEW j \in 1..N, r[i] = r[j] PROVE i = j
        <5>0. PICK a \in Int : a = r[i] BY <2>2, <2>6
        <5>1. ~(r[i] < r[j]) /\ ~(r[j] < r[i]) BY <4>1, <5>0
        <5>2. i \in Int /\ j \in Int OBVIOUS
        <5> QED BY <2>6, <5>1, <5>2
      <4> QED BY <2>6, <4>1 DEF Injection, IsInjective
    <3>2. IsFiniteSet(1..N) /\ Cardinality(1..N) = N BY <2>6, Counted
    <3>3. r \in Surjection(1..N, S) BY <2>3, <3>1, <3>2, FS_Injection DEF N
    <3> QED BY <2>7, <3>3 DEF Surjection, At
  <2>10. \A x : At(r, x) # {} => x \in S BY <2>6, <2>7 DEF At
  <2>11. \A A : IsFiniteSet(A) => (Cardinality(A) = 0 <=> A = {}) BY FS_EmptySet
  <2>12. /\ IsFiniteSet(At(r, y)) /\ Occurs(r, y) \in Nat
         /\ IsFiniteSet(At(s, y)) /\ Occurs(s, y) \in Nat
    BY <2>7, OccursFacts
  <2>13. Occurs(r, y) <= 1 BY <2>7, <2>8, StrictOccurs
  <2>14. Occurs(r, y) = 0 <=> Occurs(s, y) = 0
    BY <2>2, <2>9, <2>10, <2>11, <2>12 DEF Occurs
  <2> QED BY <1>2, <2>12, <2>13, <2>14 DEF r
<1> QED BY <1>1, <1>2

(***************************************************************************)
(* The operations of FlatSet, each as the one of ItemBag.                  *)
(***************************************************************************)
LEMMA SetBag == Set!bag = BagOf(Items, items) /\ Set!bag' = BagOf(Items, items)'
<1>1. \A s, x : Set!Occurrences(s, x) = Occurs(s, x)
  BY SetCardinality DEF Set!Occurrences, Occurs, At
<1> QED BY <1>1 DEF Set!bag, BagOf

LEMMA BagTotal == \A b : Set!Abstract!Total(b) = Cardinality(Copies(Items, b))
<1>1. \A S : Set!Abstract!Cardinality(S) = Cardinality(S)
  BY DEF Set!Abstract!Cardinality, Cardinality
<1> QED BY <1>1 DEF Set!Abstract!Total, Copies

LEMMA BagFacts ==
  ASSUME SetIInv, items' \in Seq(Items)
  PROVE  /\ Set!bag \in [Items -> Nat] /\ Set!bag' \in [Items -> Nat]
         /\ \A y \in Items : Set!bag[y] = Occurs(items, y) /\ Set!bag'[y] = Occurs(items', y)
         /\ \A y \in Items : Occurs(items, y) \in Nat /\ Occurs(items', y) \in Nat
<1>1. \A y \in Items : Occurs(items, y) \in Nat /\ Occurs(items', y) \in Nat
  BY SetFacts, OccursFacts
<1>2. /\ Set!bag = [y \in Items |-> Occurs(items, y)]
      /\ Set!bag' = [y \in Items |-> Occurs(items', y)]
  BY SetBag DEF BagOf
<1> QED BY <1>1, <1>2

\* A container of unique items has one of each at most.
LEMMA UniqueOccurs ==
  ASSUME SetIInv, setUnique, NEW y \in Items
  PROVE  Occurs(items, y) <= 1
<1>1. items \in Seq(Int) /\ Ordered(items, 1) BY SetFacts DEF Gap
<1> QED BY <1>1, StrictOccurs

LEMMA UniqueOccursNext ==
  ASSUME SetIInv, SetStays, setUnique, NEW y \in Items
  PROVE  Occurs(items', y) <= 1
<1>1. items' \in Seq(Items) /\ Ordered(items', 1) BY DEF SetStays, Gap
<1>2. items' \in Seq(Int) BY <1>1, SeqFacts
<1> QED BY <1>1, <1>2, StrictOccurs

\* The items after a step, by their numbers.
LEMMA BagBecomes ==
  ASSUME SetIInv, items' \in Seq(Items), setUnique' = setUnique,
         NEW b, b = [y \in Items |-> b[y]],
         \A y \in Items : Occurs(items', y) = b[y],
         NEW n, setReturned' = n
  PROVE  Set!Abstract!Becomes(b, n)
<1>1. Set!bag' = [y \in Items |-> Occurs(items', y)] BY SetBag DEF BagOf
<1>2. Set!bag' = b BY <1>1
<1> QED BY <1>2 DEF Set!Abstract!Becomes

LEMMA SetUnchanged ==
  ASSUME SetIInv, NEW n \in Nat, Set!Found(n)
  PROVE  Set!Abstract!Becomes(Set!bag, n)
<1>1. items' = items /\ setUnique' = setUnique /\ setReturned' = n BY DEF Set!Found
<1>2. Set!bag' = Set!bag BY <1>1, SetBag DEF BagOf
<1> QED BY <1>1, <1>2 DEF Set!Abstract!Becomes

\* The places of x, and what the searches say of them.
LEMMA SetAt ==
  ASSUME SetIInv, NEW x \in Items
  PROVE  /\ At(items, x) = Set!LowerBound(x) .. Set!UpperBound(x) - 1
         /\ Occurs(items, x) = Set!UpperBound(x) - Set!LowerBound(x)
         /\ Occurs(items, x) \in Nat
         /\ Set!Outside(x) => Occurs(items, x) = 0
         /\ ~Set!Outside(x) => Set!LowerBound(x) \in 1 .. Len(items)
         /\ ~Set!Outside(x) => (x < items[Set!LowerBound(x)] <=> Occurs(items, x) = 0)
<1> DEFINE n == Len(items)
           low == Set!LowerBound(x)
           high == Set!UpperBound(x)
<1>1. /\ low \in 1 .. n + 1 /\ high \in 1 .. n + 1 /\ low <= high /\ n \in Nat
      /\ \A i \in 1..n : (items[i] < x <=> i < low) /\ (items[i] <= x <=> i < high)
  BY SetBounds, SetFacts
<1>2. x \in Int /\ Set!size = n /\ \A i \in 1..n : items[i] \in Int /\ i \in Int
  BY SetFacts, ContainersAssumption
<1> HIDE DEF low, high
<1>3. At(items, x) = low .. high - 1
  <2>1. \A i \in 1..n : items[i] = x <=> ~(i < low) /\ i < high BY <1>1, <1>2
  <2>2. \A i \in low .. high - 1 : i \in 1..n BY <1>1
  <2>3. \A i \in 1..n : items[i] = x <=> i \in low .. high - 1 BY <1>1, <1>2, <2>1
  <2> QED BY <2>2, <2>3 DEF At
<1>4. Occurs(items, x) = high - low
  <2>1. low \in Int /\ high - 1 \in Int BY <1>1
  <2>2. Cardinality(low .. high - 1) = IF low > high - 1 THEN 0 ELSE (high - 1) - low + 1
    BY <2>1, FS_Interval
  <2> QED BY <1>1, <1>3, <2>2 DEF Occurs
<1>5. n = 0 => low = high BY <1>1
<1>6. ASSUME n # 0, x < items[1] PROVE low = high
  <2>1. 1 \in 1..n BY <1>1, <1>6
  <2>2. ~(items[1] <= x) BY <1>2, <1>6, <2>1
  <2>3. ~(1 < high) BY <1>1, <2>1, <2>2
  <2> QED BY <1>1, <2>3
<1>7. ASSUME n # 0, items[n] < x PROVE low = high
  <2>1. n \in 1..n BY <1>1, <1>7
  <2>2. n < low BY <1>1, <1>7, <2>1
  <2> QED BY <1>1, <2>2
<1>8. Set!Outside(x) => low = high BY <1>2, <1>5, <1>6, <1>7 DEF Set!Outside
<1>9. ASSUME ~Set!Outside(x) PROVE low \in 1..n
  <2>1. n # 0 /\ ~(items[n] < x) BY <1>2, <1>9 DEF Set!Outside
  <2>2. n \in 1..n BY <1>1, <2>1
  <2>3. ~(n < low) BY <1>1, <2>1, <2>2
  <2> QED BY <1>1, <2>3
<1>10. ASSUME ~Set!Outside(x) PROVE x < items[low] <=> low = high
  <2>1. low \in 1..n /\ items[low] \in Int BY <1>2, <1>9, <1>10
  <2>2. items[low] <= x <=> low < high BY <1>1, <2>1
  <2> QED BY <1>1, <1>2, <2>1, <2>2
<1> QED BY <1>1, <1>3, <1>4, <1>8, <1>9, <1>10 DEF low, high

LEMMA PutOccurs ==
  ASSUME SetIInv, NEW where \in 1 .. Len(items) + 1, NEW x \in Items, Set!Put(where, x)
  PROVE  /\ items' \in Seq(Items) /\ setUnique' = setUnique /\ setReturned' = 1
         /\ \A y \in Items : Occurs(items', y) = Occurs(items, y) + One(x, y)
<1>1. items' = Set!InsertAt(items, where, x) /\ setUnique' = setUnique /\ setReturned' = 1
  BY DEF Set!Put
<1>2. items \in Seq(Items) BY SetFacts
<1>3. items' \in Seq(Items) /\ Inserted(items', items, where, x) BY <1>1, <1>2, InsertFacts
<1> QED BY <1>1, <1>2, <1>3, InsertOccurs

LEMMA InsertIsAbstract ==
  ASSUME SetIInv, NEW x \in Items, Set!insert(x) \/ Set!insertUnique(x)
  PROVE  Set!Abstract!insert(x)
<1>1. SetStays BY SetInserts
<1>2. items' \in Seq(Items) /\ setUnique' = setUnique /\ setUnique \in BOOLEAN
  BY <1>1, SetFacts DEF SetStays
<1>3. /\ Set!bag \in [Items -> Nat] /\ Occurs(items, x) \in Nat
      /\ \A y \in Items : Set!bag[y] = Occurs(items, y)
  BY <1>2, BagFacts
<1>4. Set!size = Len(items) /\ Len(items) \in Nat /\ x \in Int
      /\ \A i \in 1 .. Len(items) : items[i] \in Int
  BY SetFacts, ContainersAssumption
<1>5. /\ Set!LowerBound(x) \in 1 .. Len(items) + 1
      /\ Set!UpperBound(x) \in 1 .. Len(items) + 1
  BY SetBounds
<1> DEFINE n == Set!Abstract!kept(Set!bag[x] + 1)
           b == [Set!bag EXCEPT ![x] = n]
<1>6. Set!Abstract!insert(x) <=> Set!Abstract!Becomes(b, n - Set!bag[x])
  BY DEF Set!Abstract!insert
<1>7. n = IF setUnique /\ Occurs(items, x) + 1 > 1 THEN 1 ELSE Occurs(items, x) + 1
  BY <1>3 DEF Set!Abstract!kept
<1> HIDE DEF n
<1>8. b = [y \in Items |-> IF y = x THEN n ELSE Occurs(items, y)] BY <1>3
<1>9. ASSUME NEW where \in 1 .. Len(items) + 1, Set!Put(where, x)
      PROVE  Set!Abstract!Becomes(b, n - Set!bag[x])
  <2>1. /\ setReturned' = 1
        /\ \A y \in Items : Occurs(items', y) = Occurs(items, y) + One(x, y)
    BY <1>9, PutOccurs
  <2>2. setUnique => Occurs(items', x) <= 1 BY <1>1, UniqueOccursNext
  <2>3. n = Occurs(items, x) + 1
    <3>1. Occurs(items', x) = Occurs(items, x) + 1 BY <2>1 DEF One
    <3> QED BY <1>3, <1>7, <2>2, <3>1
  <2>4. setReturned' = n - Set!bag[x] BY <1>3, <2>1, <2>3
  <2>5. \A y \in Items : Occurs(items', y) = b[y]
    <3> SUFFICES ASSUME NEW y \in Items PROVE Occurs(items', y) = b[y] OBVIOUS
    <3>1. Occurs(items', y) = Occurs(items, y) + One(x, y) BY <2>1
    <3>2. Occurs(items, y) \in Nat BY <1>2, BagFacts
    <3> QED BY <1>8, <2>3, <3>1, <3>2 DEF One
  <2>6. b = [y \in Items |-> b[y]] BY <1>8
  <2> HIDE DEF b
  <2> QED BY <1>2, <2>4, <2>5, <2>6, BagBecomes
<1>10. ASSUME setUnique, Set!Found(0), Occurs(items, x) # 0
       PROVE  Set!Abstract!Becomes(b, n - Set!bag[x])
  <2>1. Occurs(items, x) = 1 BY <1>3, <1>10, UniqueOccurs
  <2>2. n = 1 /\ Set!bag[x] = 1 BY <1>3, <1>7, <1>10, <2>1
  <2>3. b = Set!bag BY <1>3, <2>2
  <2> QED BY <1>10, <2>2, <2>3, SetUnchanged
<1>11. CASE Set!insert(x)
  <2>1. \E where \in 1 .. Len(items) + 1 : Set!Put(where, x)
    BY <1>4, <1>5, <1>11 DEF Set!insert
  <2> QED BY <1>6, <1>9, <2>1
<1>12. CASE Set!insertUnique(x)
  <2>1. CASE Len(items) = 0 \/ items[Len(items)] < x
    <3>1. Set!Put(Len(items) + 1, x) BY <1>4, <1>12, <2>1 DEF Set!insertUnique
    <3>2. Len(items) + 1 \in 1 .. Len(items) + 1 BY <1>4
    <3> QED BY <1>6, <1>9, <3>1, <3>2
  <2>2. CASE ~(Len(items) = 0 \/ items[Len(items)] < x) /\ x < items[Set!LowerBound(x)]
    <3>1. Set!Put(Set!LowerBound(x), x) BY <1>4, <1>12, <2>2 DEF Set!insertUnique
    <3> QED BY <1>5, <1>6, <1>9, <3>1
  <2>3. CASE ~(Len(items) = 0 \/ items[Len(items)] < x) /\ ~(x < items[Set!LowerBound(x)])
    <3>1. setUnique /\ Set!Found(0) BY <1>4, <1>12, <2>3 DEF Set!insertUnique
    <3>2. Occurs(items, x) # 0
      <4>1. CASE Set!Outside(x)
        <5>1. x < items[1] BY <1>4, <2>3, <4>1 DEF Set!Outside
        <5>2. /\ \A i \in 1 .. Len(items) : items[i] < x <=> i < Set!LowerBound(x)
              /\ 1 \in 1 .. Len(items)
          BY <1>4, <2>3, SetBounds
        <5>3. items[1] \in Int BY <1>4, <5>2
        <5>4. ~(1 < Set!LowerBound(x)) BY <1>4, <5>1, <5>2, <5>3
        <5>5. Set!LowerBound(x) = 1 BY <1>5, <5>4
        <5> QED BY <2>3, <5>1, <5>5
      <4>2. CASE ~Set!Outside(x) BY <2>3, <4>2, SetAt
      <4> QED BY <4>1, <4>2
    <3> QED BY <1>6, <1>10, <3>1, <3>2
  <2> QED BY <2>1, <2>2, <2>3
<1> QED BY <1>11, <1>12

\* Cutting out places of x takes as many of x away.
LEMMA CutRemoves ==
  ASSUME SetIInv, NEW x \in Items,
         NEW last \in Set!LowerBound(x) .. Set!UpperBound(x), Set!Cut(Set!LowerBound(x), last)
  PROVE  /\ items' \in Seq(Items) /\ setUnique' = setUnique
         /\ setReturned' = last - Set!LowerBound(x)
         /\ \A y \in Items :
              Occurs(items', y) = Occurs(items, y) - (IF y = x THEN setReturned' ELSE 0)
<1>1. PICK low \in 1 .. Len(items) + 1, high \in 1 .. Len(items) + 1 :
        low = Set!LowerBound(x) /\ high = Set!UpperBound(x) /\ low <= high
  BY SetBounds
<1>2. last \in low .. high /\ low \in Int /\ high \in Int /\ last \in low .. Len(items) + 1
  BY <1>1
<1>3. /\ items' = CutOut(items, low, last) /\ setUnique' = setUnique
      /\ setReturned' = last - low
  BY <1>1, SetFacts DEF Set!Cut, CutOut
<1>4. items \in Seq(Items) /\ items' \in Seq(Items) BY <1>2, <1>3, SetFacts, CutFacts
<1>5. ASSUME NEW y \in Items
      PROVE  Occurs(items', y) = Occurs(items, y) - (IF y = x THEN last - low ELSE 0)
  <2>1. Occurs(items', y) = Cardinality(At(items, y) \ (low .. last - 1))
    BY <1>2, <1>3, <1>4, CutOccurs
  <2>2. At(items, x) = low .. high - 1 /\ Occurs(items, x) = high - low BY <1>1, SetAt
  <2>3. CASE y = x
    <3>1. At(items, y) \ (low .. last - 1) = last .. high - 1 BY <1>2, <2>2, <2>3
    <3>2. Cardinality(last .. high - 1) = IF last > high - 1 THEN 0 ELSE (high - 1) - last + 1
      BY <1>2, FS_Interval
    <3>3. (IF last > high - 1 THEN 0 ELSE (high - 1) - last + 1) = high - last BY <1>2
    <3>4. Occurs(items', y) = high - last BY <2>1, <3>1, <3>2, <3>3
    <3> QED BY <1>2, <2>2, <2>3, <3>4
  <2>4. CASE y # x
    <3>1. \A i \in low .. last - 1 : i \in At(items, x) BY <1>2, <2>2
    <3>2. At(items, y) \ (low .. last - 1) = At(items, y) BY <2>4, <3>1 DEF At
    <3>3. Occurs(items, y) \in Nat BY <1>4, OccursFacts
    <3>4. Occurs(items', y) = Occurs(items, y) BY <2>1, <3>2 DEF Occurs
    <3> QED BY <2>4, <3>3, <3>4
  <2> QED BY <2>3, <2>4
<1> QED BY <1>1, <1>3, <1>4, <1>5

LEMMA RemovalIsAbstract ==
  ASSUME SetIInv, NEW x \in Items, NEW most \in Nat,
         NEW n \in Nat, n = IF most < Occurs(items, x) THEN most ELSE Occurs(items, x),
         \/ n = 0 /\ Set!Found(0)
         \/ Set!Cut(Set!LowerBound(x), Set!LowerBound(x) + n)
  PROVE  Set!Abstract!remove(x, most)
<1>1. /\ Set!bag = BagOf(Items, items) /\ Set!bag[x] = Occurs(items, x)
  BY SetBag DEF BagOf
<1>2. /\ \A y \in Items : Occurs(items, y) \in Nat
      /\ Set!bag = [y \in Items |-> Occurs(items, y)]
  <2>1. \A y \in Items : Occurs(items, y) \in Nat BY SetFacts, OccursFacts
  <2> QED BY <1>1, <2>1 DEF BagOf
<1> DEFINE b == [Set!bag EXCEPT ![x] = @ - n]
<1>3. Set!Abstract!remove(x, most) <=> Set!Abstract!Becomes(b, n)
  BY <1>1 DEF Set!Abstract!remove
<1>4. b = [y \in Items |-> Occurs(items, y) - (IF y = x THEN n ELSE 0)] BY <1>2
<1>5. CASE n = 0 /\ Set!Found(0)
  <2>1. b = Set!bag BY <1>2, <1>5
  <2> QED BY <1>3, <1>5, <2>1, SetUnchanged
<1>6. CASE Set!Cut(Set!LowerBound(x), Set!LowerBound(x) + n)
  <2>1. Set!LowerBound(x) + n \in Set!LowerBound(x) .. Set!UpperBound(x)
    <3>1. n <= Occurs(items, x) /\ Occurs(items, x) \in Nat BY <1>2
    <3>2. Occurs(items, x) = Set!UpperBound(x) - Set!LowerBound(x) BY SetAt
    <3>3. Set!LowerBound(x) \in Int /\ Set!UpperBound(x) \in Int BY SetBounds
    <3> QED BY <3>1, <3>2, <3>3
  <2>2. /\ items' \in Seq(Items) /\ setUnique' = setUnique
        /\ setReturned' = (Set!LowerBound(x) + n) - Set!LowerBound(x)
        /\ \A y \in Items :
             Occurs(items', y) = Occurs(items, y) - (IF y = x THEN setReturned' ELSE 0)
    BY <1>6, <2>1, CutRemoves
  <2>3. setReturned' = n
    <3>1. Set!LowerBound(x) \in Int BY SetBounds
    <3> QED BY <2>2, <3>1
  <2>4. \A y \in Items : Occurs(items', y) = b[y] BY <1>4, <2>2, <2>3
  <2>5. b = [y \in Items |-> b[y]] BY <1>4
  <2> HIDE DEF b
  <2> QED BY <1>3, <2>2, <2>3, <2>4, <2>5, BagBecomes
<1> QED BY <1>5, <1>6

LEMMA RemovesAreAbstract ==
  ASSUME SetIInv, NEW x \in Items
  PROVE  /\ Set!removeOne(x) => Set!Abstract!remove(x, 1)
         /\ Set!removeAll(x) => Set!Abstract!remove(x, Set!bag[x])
<1> DEFINE k == Occurs(items, x)
<1>1. /\ k = Set!UpperBound(x) - Set!LowerBound(x) /\ k \in Nat
      /\ Set!Outside(x) => k = 0
      /\ ~Set!Outside(x) => (x < items[Set!LowerBound(x)] <=> k = 0)
      /\ Set!LowerBound(x) \in Int /\ Set!UpperBound(x) \in Int
  BY SetAt, SetBounds
<1>2. Set!bag[x] = k BY SetBag DEF BagOf
<1>3. ASSUME Set!removeOne(x) PROVE Set!Abstract!remove(x, 1)
  <2>1. CASE k = 0
    <3>1. Set!Found(0) BY <1>1, <1>3, <2>1 DEF Set!removeOne
    <3> QED BY <2>1, <3>1, RemovalIsAbstract
  <2>2. CASE k # 0
    <3>1. Set!Cut(Set!LowerBound(x), Set!LowerBound(x) + 1)
      BY <1>1, <1>3, <2>2 DEF Set!removeOne
    <3>2. 1 = IF 1 < k THEN 1 ELSE k BY <1>1, <2>2
    <3> HIDE DEF k
    <3> QED BY <3>1, <3>2, RemovalIsAbstract DEF k
  <2> QED BY <2>1, <2>2
<1>4. ASSUME Set!removeAll(x) PROVE Set!Abstract!remove(x, Set!bag[x])
  <2>1. k = IF k < k THEN k ELSE k OBVIOUS
  <2>2. \/ k = 0 /\ Set!Found(0)
        \/ Set!Cut(Set!LowerBound(x), Set!LowerBound(x) + k)
    <3>1. CASE Set!Outside(x) BY <1>1, <1>4, <3>1 DEF Set!removeAll
    <3>2. CASE ~Set!Outside(x)
      <4>1. Set!Cut(Set!LowerBound(x), Set!UpperBound(x)) BY <1>4, <3>2 DEF Set!removeAll
      <4>2. Set!UpperBound(x) = Set!LowerBound(x) + k BY <1>1
      <4> QED BY <4>1, <4>2
    <3> QED BY <3>1, <3>2
  <2> HIDE DEF k
  <2>3. Set!Abstract!remove(x, k) BY <1>1, <2>1, <2>2, RemovalIsAbstract DEF k
  <2> QED BY <1>2, <2>3
<1> QED BY <1>3, <1>4

LEMMA FindsAreAbstract ==
  ASSUME SetIInv, NEW x \in Items
  PROVE  /\ Set!contains(x) => Set!Abstract!contains(x)
         /\ Set!count(x)    => Set!Abstract!count(x)
<1> DEFINE k == Occurs(items, x)
<1>1. /\ k = Set!UpperBound(x) - Set!LowerBound(x) /\ k \in Nat
      /\ Set!Outside(x) => k = 0
      /\ ~Set!Outside(x) => (x < items[Set!LowerBound(x)] <=> k = 0)
  BY SetAt
<1>2. Set!bag[x] = k BY SetBag DEF BagOf
<1> HIDE DEF k
<1>3. ASSUME Set!contains(x) PROVE Set!Abstract!contains(x)
  <2>1. Set!Found(IF k > 0 THEN 1 ELSE 0)
    <3>1. ~(Set!Outside(x) \/ x < items[Set!LowerBound(x)]) <=> k > 0 BY <1>1
    <3> QED BY <1>3, <3>1 DEF Set!contains, Set!Bool
  <2>2. (IF k > 0 THEN 1 ELSE 0) \in Nat OBVIOUS
  <2>3. Set!Abstract!Becomes(Set!bag, IF k > 0 THEN 1 ELSE 0) BY <2>1, <2>2, SetUnchanged
  <2> QED BY <1>2, <2>3 DEF Set!Abstract!contains
<1>4. ASSUME Set!count(x) PROVE Set!Abstract!count(x)
  <2>1. Set!Found(k) BY <1>1, <1>4 DEF Set!count
  <2>2. Set!Abstract!Becomes(Set!bag, k) BY <1>1, <2>1, SetUnchanged
  <2> QED BY <1>2, <2>2 DEF Set!Abstract!count
<1> QED BY <1>3, <1>4

LEMMA EraseIsAbstract ==
  ASSUME SetIInv, NEW from \in 1 .. Set!size + 1, NEW till \in 1 .. Set!size + 1,
         Set!erase(from, till)
  PROVE  Set!Abstract!erase
<1>1. /\ from \in 1 .. Len(items) + 1 /\ till \in from .. Len(items) + 1
      /\ items \in Seq(Items) /\ Len(items) \in Nat
      /\ Ordered(items, Gap(setUnique)) /\ Gap(setUnique) \in 0..1
  BY SetFacts DEF Set!erase
<1>2. /\ items' = CutOut(items, from, till) /\ setUnique' = setUnique
      /\ setReturned' = till - from
  BY SetFacts DEF Set!erase, Set!Cut, CutOut
<1>3. SetStays BY SetErases
<1>4. /\ items' \in Seq(Items) /\ Ordered(items', Gap(setUnique))
  BY <1>2, <1>3 DEF SetStays
<1>5. \A y \in Items : Occurs(items', y) <= Occurs(items, y) BY <1>1, <1>2, CutOccurs
<1>6. Len(items') = Len(items) - (till - from) BY <1>1, <1>2, CutFacts
<1>7. /\ Set!Abstract!Total(Set!bag) = Len(items)
      /\ Set!Abstract!Total(Set!bag') = Len(items')
  <2>1. Cardinality(Copies(Items, BagOf(Items, items))) = Len(items)
    BY <1>1, ContainersAssumption, AsManyCopies
  <2>2. Cardinality(Copies(Items, BagOf(Items, items'))) = Len(items')
    BY <1>1, <1>4, ContainersAssumption, AsManyCopies
  <2>3. Set!bag = BagOf(Items, items) /\ Set!bag' = BagOf(Items, items') BY SetBag
  <2>4. /\ Set!Abstract!Total(BagOf(Items, items)) = Len(items)
        /\ Set!Abstract!Total(BagOf(Items, items')) = Len(items')
    BY <2>1, <2>2, BagTotal
  <2> QED BY <2>3, <2>4
<1>8. setReturned' = Set!Abstract!Total(Set!bag) - Set!Abstract!Total(Set!bag')
  BY <1>1, <1>2, <1>6, <1>7
<1>9. Set!bag' \in [Items -> Nat] /\ \A y \in Items : Set!bag'[y] <= Set!bag[y]
  BY <1>4, <1>5, BagFacts
<1> QED BY <1>2, <1>8, <1>9 DEF Set!Abstract!erase

LEMMA MergeIsAbstract ==
  ASSUME SetIInv, NEW list \in Set!BoundedSeq(Items, MaxList), Set!merge(list)
  PROVE  Set!Abstract!merge([y \in Items |-> Set!Occurrences(list, y)])
<1>1. items \in Seq(Items) /\ list \in Seq(Items) /\ setUnique \in BOOLEAN
      /\ Gap(setUnique) \in 0..1
  BY SetFacts, ListFacts
<1>2. PICK c \in Seq(Items) : c = items \o list BY <1>1, ConcatProperties
<1>3. PICK s \in Seq(Items) : s = Set!Sort(c) /\ Ordered(s, 0)
  BY <1>2, SortIsOrdered
<1>4. items' = Set!finalize(s) /\ setReturned' = Len(items') /\ setUnique' = setUnique
  BY <1>2, <1>3 DEF Set!merge
<1>5. SetStays BY SetMerges
<1>6. items' \in Seq(Items) /\ Ordered(items', Gap(setUnique)) BY <1>4, <1>5 DEF SetStays
<1> DEFINE new == [y \in Items |-> Set!Occurrences(list, y)]
           b == [y \in Items |-> Set!Abstract!kept(Set!bag[y] + new[y])]
<1>7. Set!Abstract!merge(new) <=> Set!Abstract!Becomes(b, Set!Abstract!Total(b))
  BY DEF Set!Abstract!merge
<1>8. ASSUME NEW y \in Items PROVE Occurs(items', y) = b[y]
  <2>1. Set!bag[y] = Occurs(items, y) BY SetBag DEF BagOf
  <2>2. new[y] = Occurs(list, y)
    <3>1. new[y] = Set!Occurrences(list, y) OBVIOUS
    <3>2. DOMAIN list = 1 .. Len(list) BY <1>1
    <3> QED BY <3>1, <3>2, SetCardinality DEF Set!Occurrences, Occurs, At
  <2>3. b[y] = Set!Abstract!kept(Occurs(items, y) + Occurs(list, y)) BY <2>1, <2>2
  <2> HIDE DEF b, new
  <2>4. Occurs(c, y) = Occurs(items, y) + Occurs(list, y) BY <1>1, <1>2, ConcatOccurs
  <2>5. Occurs(s, y) = Occurs(c, y) BY <1>2, <1>3, SortOccurs
  <2>6. Occurs(items', y) = IF setUnique /\ Occurs(s, y) > 1 THEN 1 ELSE Occurs(s, y)
    BY <1>1, <1>3, <1>4, FinalizeOccurs
  <2> QED BY <2>3, <2>4, <2>5, <2>6 DEF Set!Abstract!kept
<1>9. b = [y \in Items |-> b[y]] OBVIOUS
<1> HIDE DEF b, new
<1>10. Set!Abstract!Total(b) = Len(items')
  <2>1. BagOf(Items, items') = b BY <1>8, <1>9 DEF BagOf
  <2>2. Cardinality(Copies(Items, BagOf(Items, items'))) = Len(items')
    BY <1>1, <1>6, ContainersAssumption, AsManyCopies
  <2> QED BY <2>1, <2>2, BagTotal
<1>11. Set!Abstract!Becomes(b, Set!Abstract!Total(b))
  BY <1>4, <1>6, <1>8, <1>9, <1>10, BagBecomes
<1> QED BY <1>7, <1>11 DEF new

\* An item changed to x and moved: one of what it was less, one of x more.
LEMMA MovedOccurs ==
  ASSUME NEW s \in Seq(Int), NEW w \in 1 .. Len(s), NEW place, NEW x \in Int, NEW t,
         Moved(t, s, w, place, x), NEW y
  PROVE  Occurs(t, y) + One(s[w], y) = Occurs(s, y) + One(x, y)
<1> DEFINE n == Len(s)
           g == [s EXCEPT ![w] = s[place]]
<1>1. /\ n \in Nat /\ s \in [1..n -> Int] /\ t \in [1..n -> Int] /\ place \in 1..n /\ w \in 1..n
      /\ \A k \in 1..n : t[k] = IF k = place THEN x ELSE IF k = w THEN s[place] ELSE s[k]
  BY DEF Moved
<1> HIDE DEF n
<1>2. g \in [1..n -> Int] /\ g[w] = s[place] /\ \A k \in 1..n : k # w => g[k] = s[k]
  BY <1>1
<1> HIDE DEF g
<1>11. ASSUME NEW p \in [1..n -> Int], NEW q \in [1..n -> Int], NEW i \in 1..n,
              \A k \in 1..n : k # i => q[k] = p[k]
       PROVE  Occurs(q, y) + One(p[i], y) = Occurs(p, y) + One(q[i], y)
  <2>1. n \in Nat BY <1>1
  <2>2. q \in [1..n -> Int] /\ p \in [1..n -> Int] /\ i \in 1..n OBVIOUS
  <2>3. \A k \in 1..n : k # i => q[k] = p[k] BY <1>11
  <2> QED BY <2>1, <2>2, <2>3, ExceptOccurs
<1>3. Occurs(g, y) + One(s[w], y) = Occurs(s, y) + One(g[w], y)
  BY <1>1, <1>2, <1>11
<1>4. t[place] = x /\ g[place] = s[place] /\ \A k \in 1..n : k # place => t[k] = g[k]
  BY <1>1, <1>2
<1>5. Occurs(t, y) + One(g[place], y) = Occurs(g, y) + One(t[place], y)
  BY <1>1, <1>2, <1>4, <1>11
<1>6. Occurs(s, y) \in Nat /\ Occurs(t, y) \in Nat /\ Occurs(g, y) \in Nat
  <2>1. s \in Seq(Int) /\ t \in Seq(Int) /\ g \in Seq(Int) BY <1>1, <1>2, SeqDef
  <2> QED BY <2>1, OccursFacts
<1>7. \A p, q : One(p, q) \in Nat BY DEF One
<1>8. One(g[w], y) = One(s[place], y) /\ One(g[place], y) = One(s[place], y)
      /\ One(t[place], y) = One(x, y)
  BY <1>2, <1>4
<1>9. \A a, b, c, d, e, f \in Nat : a + d = b + e /\ c + e = a + f => c + d = b + f OBVIOUS
<1>10. /\ Occurs(g, y) + One(s[w], y) = Occurs(s, y) + One(s[place], y)
       /\ Occurs(t, y) + One(s[place], y) = Occurs(g, y) + One(x, y)
  BY <1>3, <1>5, <1>8
<1>12. PICK a, b, c, d, e, f \in Nat :
         /\ a = Occurs(g, y) /\ b = Occurs(s, y) /\ c = Occurs(t, y)
         /\ d = One(s[w], y) /\ e = One(s[place], y) /\ f = One(x, y)
  BY <1>6, <1>7
<1>13. a + d = b + e /\ c + e = a + f BY <1>10, <1>12
<1>14. c + d = b + f BY <1>9, <1>13
<1> QED BY <1>12, <1>14

\* One that is gone for another.
LEMMA GoneOccurs ==
  ASSUME NEW S, NEW s \in Seq(S), NEW w \in 1 .. Len(s), NEW y
  PROVE  Occurs(CutOut(s, w, w + 1), y) + One(s[w], y) = Occurs(s, y)
<1>1. Occurs(CutOut(s, w, w + 1), y) = Cardinality(At(s, y) \ (w .. (w + 1) - 1))
  <2>1. w \in 1 .. Len(s) + 1 /\ w + 1 \in w .. Len(s) + 1 OBVIOUS
  <2>2. IsCut(CutOut(s, w, w + 1), S, s, w, w + 1) BY <2>1 DEF IsCut
  <2> QED BY <2>2, CutCounts
<1>2. w .. (w + 1) - 1 = {w} OBVIOUS
<1>3. IsFiniteSet(At(s, y)) /\ Cardinality(At(s, y)) \in Nat BY OccursFacts, FS_CardinalityType
<1>4. Cardinality(At(s, y) \ {w}) = IF w \in At(s, y) THEN Cardinality(At(s, y)) - 1
                                    ELSE Cardinality(At(s, y))
  BY <1>3, FS_RemoveElement
<1>5. w \in At(s, y) <=> s[w] = y BY DEF At
<1>6. Occurs(CutOut(s, w, w + 1), y) = IF s[w] = y THEN Occurs(s, y) - 1 ELSE Occurs(s, y)
  BY <1>1, <1>2, <1>4, <1>5 DEF Occurs
<1>7. Occurs(s, y) \in Nat BY <1>3 DEF Occurs
<1> QED BY <1>6, <1>7 DEF One

LEMMA ModifyIsAbstract ==
  ASSUME SetIInv, MaxPassed <= 1, NEW w \in 1 .. Set!size, NEW x \in Items, Set!modify(w, x)
  PROVE  Set!Abstract!modify(items[w], x)
<1>1. SetStays /\ setReturned' = 1 /\ Modified(w, x) BY SetModifies
<1>2. /\ items \in Seq(Items) /\ items \in Seq(Int) /\ Len(items) \in Nat
      /\ w \in 1 .. Len(items) /\ items[w] \in Items /\ x \in Int
      /\ items' \in Seq(Items) /\ setUnique' = setUnique /\ setUnique \in BOOLEAN
  BY <1>1, SetFacts, ContainersAssumption DEF SetStays
<1>3. PICK old \in Items : old = items[w] BY <1>2
<1>4. /\ Set!bag = [y \in Items |-> Occurs(items, y)]
      /\ \A y \in Items : Occurs(items, y) \in Nat /\ Occurs(items', y) \in Nat
  BY <1>2, SetBag, BagFacts DEF BagOf
<1>5. Occurs(items, old) > 0
  <2>1. w \in At(items, old) BY <1>2, <1>3 DEF At
  <2>2. IsFiniteSet(At(items, old)) BY <1>2, OccursFacts
  <2>3. Cardinality(At(items, old)) # 0 BY <2>1, <2>2, FS_EmptySet
  <2> QED BY <1>4, <2>3 DEF Occurs
<1> DEFINE less == [Set!bag EXCEPT ![old] = @ - 1]
           b == [less EXCEPT ![x] = Set!Abstract!kept(@ + 1)]
<1>6. Set!Abstract!modify(items[w], x) <=>
        Set!bag[old] > 0 /\ Set!Abstract!Becomes(b, 1)
  BY <1>3 DEF Set!Abstract!modify
<1>7. less = [y \in Items |-> Occurs(items, y) - One(old, y)] BY <1>4 DEF One
<1> HIDE DEF less
<1>8. b = [y \in Items |-> IF y = x THEN Set!Abstract!kept(less[x] + 1) ELSE less[y]]
  BY <1>7
<1>9. ASSUME NEW y \in Items PROVE Occurs(items', y) = b[y]
  <2> DEFINE k == Occurs(items, y) - One(old, y)
  <2>1. b[y] = IF y = x THEN (IF setUnique /\ k + 1 > 1 THEN 1 ELSE k + 1) ELSE k
    BY <1>7, <1>8 DEF Set!Abstract!kept
  <2>2. One(old, y) \in {0, 1} /\ One(x, y) = (IF y = x THEN 1 ELSE 0) BY DEF One
  <2>3. Occurs(items', y) \in Nat /\ Occurs(items, y) \in Nat BY <1>4
  <2>4. CASE \E place : Moved(items', items, w, place, x)
    <3>1. Occurs(items', y) + One(old, y) = Occurs(items, y) + One(x, y)
      BY <1>2, <1>3, <2>4, MovedOccurs
    <3>2. Occurs(items', y) = k + (IF y = x THEN 1 ELSE 0) BY <2>2, <2>3, <3>1
    <3>3. setUnique => Occurs(items', y) <= 1 BY <1>1, UniqueOccursNext
    <3>4. k \in Int BY <2>2, <2>3
    <3> HIDE DEF b, k
    <3> QED BY <2>1, <2>3, <3>2, <3>3, <3>4
  <2>5. CASE /\ setUnique /\ (\E i \in 1 .. Len(items) : i # w /\ items[i] = x)
             /\ items' = CutOut(items, w, w + 1)
    <3>1. Occurs(items', y) + One(old, y) = Occurs(items, y)
      BY <1>2, <1>3, <2>5, GoneOccurs
    <3>2. Occurs(items', y) = k BY <2>2, <2>3, <3>1
    <3>3. y = x => k = 1
      <4>0. SUFFICES ASSUME y = x PROVE k = 1 OBVIOUS
      <4>1. PICK i \in 1 .. Len(items) : i # w /\ items[i] = x BY <2>5
      <4>2. old # x
        <5>1. \A a, c \in 1 .. Len(items) : a < c => items[a] + 1 <= items[c]
          BY <2>5, SetFacts DEF Ordered, Gap
        <5>2. i < w \/ w < i BY <4>1
        <5>3. items[i] # items[w] BY <1>2, <4>1, <5>1, <5>2
        <5> QED BY <1>3, <4>1, <5>3
      <4>3. i \in At(items, y) /\ IsFiniteSet(At(items, y)) BY <1>2, <4>0, <4>1, OccursFacts DEF At
      <4>4. Occurs(items, y) # 0 BY <4>3, FS_EmptySet DEF Occurs
      <4>5. Occurs(items, y) <= 1 BY <2>5, UniqueOccurs
      <4>6. One(old, y) = 0 BY <4>0, <4>2 DEF One
      <4> QED BY <2>3, <4>4, <4>5, <4>6
    <3> HIDE DEF b, k
    <3>4. CASE y = x BY <2>1, <2>5, <3>2, <3>3, <3>4
    <3>5. CASE y # x BY <2>1, <3>2, <3>5
    <3> QED BY <3>4, <3>5
  <2> QED BY <1>1, <2>4, <2>5 DEF Modified
<1>10. b = [y \in Items |-> b[y]] BY <1>8
<1> HIDE DEF b
<1>11. Set!Abstract!Becomes(b, 1) BY <1>1, <1>2, <1>9, <1>10, BagBecomes
<1> QED BY <1>3, <1>4, <1>5, <1>6, <1>11

LEMMA SetImplements == SetIInv /\ MaxPassed <= 1 => Set!Implements
<1> SUFFICES ASSUME SetIInv, MaxPassed <= 1 PROVE Set!Implements OBVIOUS
<1>1. ASSUME NEW x \in Items
      PROVE  /\ Set!insert(x) \/ Set!insertUnique(x) => Set!Abstract!insert(x)
             /\ Set!removeOne(x) => Set!Abstract!remove(x, 1)
             /\ Set!removeAll(x) => Set!Abstract!remove(x, Set!bag[x])
             /\ Set!contains(x)  => Set!Abstract!contains(x)
             /\ Set!count(x)     => Set!Abstract!count(x)
             /\ \A i \in 1 .. Set!size : Set!modify(i, x) => Set!Abstract!modify(items[i], x)
  BY InsertIsAbstract, RemovesAreAbstract, FindsAreAbstract, ModifyIsAbstract
<1>2. \A from, till \in 1 .. Set!size + 1 : Set!erase(from, till) => Set!Abstract!erase
  BY EraseIsAbstract
<1>3. \A list \in Set!BoundedSeq(Items, MaxList) :
        Set!merge(list) => Set!Abstract!merge([y \in Items |-> Set!Occurrences(list, y)])
  BY MergeIsAbstract
<1> QED BY <1>1, <1>2, <1>3 DEF Set!Implements

(***************************************************************************)
(* FlatMap implements KeyedValues.  The values of a key are those of the   *)
(* pairs between its bounds.                                               *)
(***************************************************************************)
\* The pairs of key k are those from low to before high.
Bounded(s, k, low, high) ==
  /\ low \in 1 .. Len(s) + 1 /\ high \in low .. Len(s) + 1
  /\ \A i \in 1 .. Len(s) : (s[i].first < k <=> i < low) /\ (s[i].first <= k <=> i < high)
Between(s, low, high) == [n \in 1 .. high - low |-> s[low - 1 + n].second]

LEMMA BetweenFacts ==
  ASSUME NEW s \in Seq(Map!Pairs), NEW low \in 1 .. Len(s) + 1, NEW high \in low .. Len(s) + 1
  PROVE  /\ Between(s, low, high) \in Seq(Values) /\ Len(Between(s, low, high)) = high - low
         /\ \A n \in 1 .. high - low : Between(s, low, high)[n] = s[low - 1 + n].second
<1>1. high - low \in Nat /\ Len(s) \in Nat OBVIOUS
<1>2. \A n \in 1 .. high - low : low - 1 + n \in 1 .. Len(s) BY <1>1
<1>3. \A i \in 1 .. Len(s) : s[i].second \in Values
  <2>1. \A i \in 1 .. Len(s) : s[i] \in Map!Pairs OBVIOUS
  <2> QED BY <2>1, PairFacts
<1>4. Between(s, low, high) \in [1 .. high - low -> Values] BY <1>2, <1>3 DEF Between
<1>5. \A n \in 1 .. high - low : Between(s, low, high)[n] = s[low - 1 + n].second
  BY DEF Between
<1>6. \A r, m : m \in Nat /\ r \in [1..m -> Values] => r \in Seq(Values) /\ Len(r) = m
  BY SeqDef
<1> QED BY <1>1, <1>4, <1>5, <1>6

LEMMA BoundsAre ==
  ASSUME NEW s \in Seq(Map!Pairs), NEW k \in MapKeys, NEW low, NEW high, Bounded(s, k, low, high)
  PROVE  /\ Cardinality({i \in 1 .. Len(s) : s[i].first < k}) + 1 = low
         /\ Cardinality({i \in 1 .. Len(s) : s[i].first <= k}) + 1 = high
<1>1. Len(s) \in Nat /\ low \in 1 .. Len(s) + 1 /\ high \in low .. Len(s) + 1
  BY DEF Bounded
<1>2. {i \in 1 .. Len(s) : s[i].first < k} = 1 .. low - 1
  <2>1. \A i \in 1 .. Len(s) : s[i].first < k <=> i < low BY DEF Bounded
  <2> QED BY <1>1, <2>1
<1>3. {i \in 1 .. Len(s) : s[i].first <= k} = 1 .. high - 1
  <2>1. \A i \in 1 .. Len(s) : s[i].first <= k <=> i < high BY DEF Bounded
  <2> QED BY <1>1, <2>1
<1>4. Cardinality(1 .. low - 1) = low - 1
  <2>1. low - 1 \in Nat BY <1>1
  <2> QED BY <2>1, Counted
<1>5. Cardinality(1 .. high - 1) = high - 1
  <2>1. high - 1 \in Nat BY <1>1
  <2> QED BY <2>1, Counted
<1>6. low - 1 + 1 = low /\ high - 1 + 1 = high BY <1>1
<1> QED BY <1>2, <1>3, <1>4, <1>5, <1>6

ValuesIn(s, k) ==
  LET low == Cardinality({i \in 1 .. Len(s) : s[i].first < k}) + 1
      high == Cardinality({i \in 1 .. Len(s) : s[i].first <= k}) + 1
  IN  Between(s, low, high)

LEMMA StoreIs ==
  /\ Map!store = [k \in MapKeys |-> ValuesIn(pairs, k)]
  /\ Map!store' = [k \in MapKeys |-> ValuesIn(pairs', k)]
<1>1. \A k : Map!ValuesOf(k) = ValuesIn(pairs, k)
  BY SetCardinality DEF Map!ValuesOf, Map!LowerBound, Map!UpperBound, Map!size, Map!key,
     ValuesIn, Between
<1>2. \A k : Map!ValuesOf(k)' = ValuesIn(pairs', k)
  BY SetCardinality DEF Map!ValuesOf, Map!LowerBound, Map!UpperBound, Map!size, Map!key,
     ValuesIn, Between
<1> QED BY <1>1, <1>2 DEF Map!store

LEMMA StoreAt ==
  ASSUME MapIInv, NEW k \in MapKeys
  PROVE  /\ Bounded(pairs, k, Map!LowerBound(k), Map!UpperBound(k))
         /\ Map!store[k] = Between(pairs, Map!LowerBound(k), Map!UpperBound(k))
         /\ Map!store[k] \in Seq(Values)
         /\ Len(Map!store[k]) = Map!UpperBound(k) - Map!LowerBound(k)
<1>1. Bounded(pairs, k, Map!LowerBound(k), Map!UpperBound(k))
  <2>1. \A i \in 1 .. Len(pairs) : Map!key(i) = pairs[i].first BY DEF Map!key
  <2> QED BY <2>1, MapBounds, MapFacts DEF Bounded
<1>2. pairs \in Seq(Map!Pairs) BY MapFacts
<1>3. Map!store[k] = Between(pairs, Map!LowerBound(k), Map!UpperBound(k))
  BY <1>1, <1>2, StoreIs, BoundsAre DEF ValuesIn
<1>4. Map!LowerBound(k) \in 1 .. Len(pairs) + 1
      /\ Map!UpperBound(k) \in Map!LowerBound(k) .. Len(pairs) + 1
  BY <1>1 DEF Bounded
<1> QED BY <1>1, <1>2, <1>3, <1>4, BetweenFacts

LEMMA StoreNext ==
  ASSUME pairs' \in Seq(Map!Pairs), NEW k \in MapKeys, NEW low, NEW high,
         Bounded(pairs', k, low, high)
  PROVE  /\ Map!store'[k] = Between(pairs', low, high)
         /\ low \in 1 .. Len(pairs') + 1 /\ high \in low .. Len(pairs') + 1
<1>1. low \in 1 .. Len(pairs') + 1 /\ high \in low .. Len(pairs') + 1 BY DEF Bounded
<1> QED BY <1>1, StoreIs, BoundsAre DEF ValuesIn

LEMMA StoreBecomes ==
  ASSUME mapUnique' = mapUnique, NEW k \in MapKeys, NEW s, NEW r,
         Map!store'[k] = s, \A y \in MapKeys : y # k => Map!store'[y] = Map!store[y],
         mapReturned' = r
  PROVE  Map!Abstract!Becomes(k, s, r)
<1>1. /\ Map!store = [y \in MapKeys |-> Map!store[y]]
      /\ Map!store' = [y \in MapKeys |-> Map!store'[y]]
  BY StoreIs
<1>2. \A y \in MapKeys : Map!store'[y] = IF y = k THEN s ELSE Map!store[y] OBVIOUS
<1>3. Map!store' = [Map!store EXCEPT ![k] = s] BY <1>1, <1>2
<1> QED BY <1>3 DEF Map!Abstract!Becomes

LEMMA StoreKept ==
  ASSUME Map!Keep, NEW r, mapReturned' = r
  PROVE  Map!Abstract!Returns(r)
<1>1. pairs' = pairs /\ mapUnique' = mapUnique BY DEF Map!Keep
<1>2. Map!store' = Map!store BY <1>1, StoreIs
<1> QED BY <1>1, <1>2 DEF Map!Abstract!Returns

\* A pair put before the first of a greater key is the last of its own.
LEMMA PutAppends ==
  ASSUME MapIInv, NEW k \in MapKeys, NEW v \in Values, NEW where \in 1 .. Len(pairs) + 1,
         Map!Put(where, Map!Pair(k, v)),
         \A i \in 1 .. Len(pairs) : /\ i < where => Map!key(i) <= k
                                    /\ i >= where => k < Map!key(i)
  PROVE  /\ mapUnique' = mapUnique
         /\ Map!store'[k] = Append(Map!store[k], v)
         /\ \A y \in MapKeys : y # k => Map!store'[y] = Map!store[y]
<1> DEFINE n == Len(pairs)
           pair == Map!Pair(k, v)
<1>1. /\ pairs \in Seq(Map!Pairs) /\ n \in Nat /\ where \in Int
      /\ \A i \in 1..n : Map!key(i) = pairs[i].first /\ pairs[i].first \in Int
  BY MapFacts DEF Map!key
<1>2. pair \in Map!Pairs /\ pair.first = k /\ pair.second = v /\ k \in Int
  BY PairFacts, ContainersAssumption
<1> HIDE DEF pair
<1>3. pairs' \in Seq(Map!Pairs) /\ Inserted(pairs', pairs, where, pair)
  BY <1>1, <1>2, InsertFacts DEF Map!Put, pair
<1>4. /\ Len(pairs') = n + 1
      /\ \A i \in 1 .. n + 1 :
           pairs'[i] = IF i < where THEN pairs[i] ELSE IF i = where THEN pair ELSE pairs[i - 1]
  BY <1>3 DEF Inserted
<1>5. ASSUME NEW y \in MapKeys, NEW c, NEW d, Bounded(pairs, y, c, d)
      PROVE  /\ y < k => d <= where /\ Bounded(pairs', y, c, d)
             /\ y > k => where <= c /\ Bounded(pairs', y, c + 1, d + 1)
             /\ y = k => where = d /\ Bounded(pairs', y, c, d + 1)
  <2>0. y \in Int BY ContainersAssumption
  <2>1. /\ c \in 1 .. n + 1 /\ d \in c .. n + 1
        /\ \A i \in 1..n : (pairs[i].first < y <=> i < c) /\ (pairs[i].first <= y <=> i < d)
    BY <1>5 DEF Bounded
  <2>2. \A i \in 1..n : /\ i < where => pairs[i].first <= k
                        /\ i >= where => k < pairs[i].first
    BY <1>1
  <2>3. \A i \in 1 .. n + 1 :
          pairs'[i].first = IF i < where THEN pairs[i].first
                            ELSE IF i = where THEN k ELSE pairs[i - 1].first
    BY <1>2, <1>4
  <2>4. \A i \in 1 .. n + 1 : /\ i < where => i \in 1..n
                              /\ i > where => i - 1 \in 1..n /\ i - 1 >= where
    BY <1>1
  <2>5. ASSUME y < k PROVE d <= where /\ Bounded(pairs', y, c, d)
    <3>1. d <= where
      <4> SUFFICES ASSUME where < d PROVE FALSE BY <1>1, <2>1
      <4>1. where \in 1..n BY <1>1, <2>1
      <4> QED BY <1>1, <1>2, <2>0, <2>1, <2>2, <2>5, <4>1
    <3>2. ASSUME NEW i \in 1 .. n + 1
          PROVE  (pairs'[i].first < y <=> i < c) /\ (pairs'[i].first <= y <=> i < d)
      <4>1. CASE i < where BY <2>1, <2>3, <2>4, <4>1
      <4>2. CASE i = where BY <1>2, <2>0, <2>1, <2>3, <2>5, <3>1, <4>2
      <4>3. CASE i > where
        <5>1. k < pairs[i - 1].first /\ pairs[i - 1].first \in Int BY <1>1, <2>2, <2>4, <4>3
        <5>2. pairs'[i].first = pairs[i - 1].first BY <1>1, <2>3, <4>3
        <5> QED BY <1>2, <2>0, <2>1, <2>5, <3>1, <4>3, <5>1, <5>2
      <4> QED BY <1>1, <4>1, <4>2, <4>3
    <3>3. c \in 1 .. (n + 1) + 1 /\ d \in c .. (n + 1) + 1 BY <1>1, <2>1
    <3> QED BY <1>4, <3>1, <3>2, <3>3 DEF Bounded
  <2>6. ASSUME y > k PROVE where <= c /\ Bounded(pairs', y, c + 1, d + 1)
    <3>1. where <= c
      <4> SUFFICES ASSUME c < where PROVE FALSE BY <1>1, <2>1
      <4>1. c \in 1..n BY <1>1, <2>1
      <4> QED BY <1>1, <1>2, <2>0, <2>1, <2>2, <2>6, <4>1
    <3>2. ASSUME NEW i \in 1 .. n + 1
          PROVE  (pairs'[i].first < y <=> i < c + 1) /\ (pairs'[i].first <= y <=> i < d + 1)
      <4>1. CASE i < where
        <5>1. i \in 1..n /\ pairs[i].first <= k /\ pairs[i].first \in Int
          BY <1>1, <2>2, <2>4, <4>1
        <5> QED BY <1>2, <2>0, <2>1, <2>3, <2>6, <3>1, <4>1, <5>1
      <4>2. CASE i = where BY <1>2, <2>0, <2>1, <2>3, <2>6, <3>1, <4>2
      <4>3. CASE i > where
        <5>1. i - 1 \in 1..n /\ pairs'[i].first = pairs[i - 1].first
          BY <1>1, <2>3, <2>4, <4>3
        <5>2. /\ pairs[i - 1].first < y <=> i - 1 < c
              /\ pairs[i - 1].first <= y <=> i - 1 < d
          BY <2>1, <5>1
        <5> QED BY <2>1, <5>1, <5>2
      <4> QED BY <1>1, <4>1, <4>2, <4>3
    <3>3. c + 1 \in 1 .. (n + 1) + 1 /\ d + 1 \in c + 1 .. (n + 1) + 1 BY <1>1, <2>1
    <3> QED BY <1>4, <3>1, <3>2, <3>3 DEF Bounded
  <2>7. ASSUME y = k PROVE where = d /\ Bounded(pairs', y, c, d + 1)
    <3>1. where = d
      <4>1. ASSUME where < d PROVE FALSE
        <5>1. where \in 1..n BY <1>1, <2>1, <4>1
        <5> QED BY <1>1, <1>2, <2>1, <2>2, <2>7, <4>1, <5>1
      <4>2. ASSUME d < where PROVE FALSE
        <5>1. d \in 1..n BY <1>1, <2>1, <4>2
        <5> QED BY <1>1, <1>2, <2>1, <2>2, <2>7, <4>2, <5>1
      <4> QED BY <1>1, <2>1, <4>1, <4>2
    <3>2. ASSUME NEW i \in 1 .. n + 1
          PROVE  (pairs'[i].first < y <=> i < c) /\ (pairs'[i].first <= y <=> i < d + 1)
      <4>1. CASE i < where BY <2>1, <2>3, <2>4, <3>1, <4>1
      <4>2. CASE i = where BY <1>2, <2>0, <2>1, <2>3, <2>7, <3>1, <4>2
      <4>3. CASE i > where
        <5>1. k < pairs[i - 1].first /\ pairs[i - 1].first \in Int BY <1>1, <2>2, <2>4, <4>3
        <5>2. pairs'[i].first = pairs[i - 1].first BY <1>1, <2>3, <4>3
        <5> QED BY <1>2, <2>0, <2>1, <2>7, <3>1, <4>3, <5>1, <5>2
      <4> QED BY <1>1, <4>1, <4>2, <4>3
    <3>3. c \in 1 .. (n + 1) + 1 /\ d + 1 \in c .. (n + 1) + 1 BY <1>1, <2>1
    <3> QED BY <1>4, <3>1, <3>2, <3>3 DEF Bounded
  <2> QED BY <2>5, <2>6, <2>7
<1>6. ASSUME NEW y \in MapKeys, y # k PROVE Map!store'[y] = Map!store[y]
  <2>1. PICK c, d : Bounded(pairs, y, c, d) /\ Map!store[y] = Between(pairs, c, d)
    BY StoreAt
  <2>2. c \in 1 .. n + 1 /\ d \in c .. n + 1 BY <2>1 DEF Bounded
  <2>3. y \in Int BY ContainersAssumption
  <2>4. CASE y < k
    <3>1. d <= where /\ Bounded(pairs', y, c, d) BY <1>5, <2>1, <2>4
    <3>2. \A m \in 1 .. d - c : pairs'[c - 1 + m] = pairs[c - 1 + m]
      BY <1>1, <1>4, <2>2, <3>1
    <3> QED BY <1>3, <2>1, <3>1, <3>2, StoreNext DEF Between
  <2>5. CASE y > k
    <3>1. where <= c /\ Bounded(pairs', y, c + 1, d + 1) BY <1>5, <2>1, <2>5
    <3>2. (d + 1) - (c + 1) = d - c BY <2>2
    <3>3. \A m \in 1 .. d - c : pairs'[(c + 1) - 1 + m] = pairs[c - 1 + m]
      <4> SUFFICES ASSUME NEW m \in 1 .. d - c
                   PROVE  pairs'[(c + 1) - 1 + m] = pairs[c - 1 + m]
        OBVIOUS
      <4>1. /\ (c + 1) - 1 + m = c + m /\ c + m \in 1 .. n + 1 /\ c + m > where
            /\ (c + m) - 1 = c - 1 + m
        BY <1>1, <2>2, <3>1
      <4> QED BY <1>1, <1>4, <4>1
    <3>4. Map!store'[y] = Between(pairs', c + 1, d + 1) BY <1>3, <3>1, StoreNext
    <3>5. Between(pairs', c + 1, d + 1) = Between(pairs, c, d) BY <3>2, <3>3 DEF Between
    <3> QED BY <2>1, <3>4, <3>5
  <2> QED BY <1>2, <1>6, <2>3, <2>4, <2>5
<1>7. Map!store'[k] = Append(Map!store[k], v)
  <2>1. PICK c, d : Bounded(pairs, k, c, d) /\ Map!store[k] = Between(pairs, c, d)
    BY StoreAt
  <2>2. c \in 1 .. n + 1 /\ d \in c .. n + 1 BY <2>1 DEF Bounded
  <2>3. where = d /\ Bounded(pairs', k, c, d + 1) BY <1>5, <2>1
  <2>4. Map!store'[k] = Between(pairs', c, d + 1) BY <1>3, <2>3, StoreNext
  <2> DEFINE s == Between(pairs, c, d)
             t == Between(pairs', c, d + 1)
  <2>5. s \in Seq(Values) /\ Len(s) = d - c
        /\ \A m \in 1 .. d - c : s[m] = pairs[c - 1 + m].second
    BY <1>1, <2>2, BetweenFacts
  <2>6. t \in Seq(Values) /\ Len(t) = (d + 1) - c
        /\ \A m \in 1 .. (d + 1) - c : t[m] = pairs'[c - 1 + m].second
    <3>1. c \in 1 .. Len(pairs') + 1 /\ d + 1 \in c .. Len(pairs') + 1
      BY <1>1, <1>4, <2>2
    <3> HIDE DEF t
    <3>2. PICK e \in c .. Len(pairs') + 1 : e = d + 1 BY <3>1
    <3> QED BY <1>3, <3>1, <3>2, BetweenFacts DEF t
  <2> HIDE DEF s, t
  <2>7. ASSUME NEW m \in 1 .. (d + 1) - c PROVE t[m] = IF m <= d - c THEN s[m] ELSE v
    <3>1. c - 1 + m \in 1 .. n + 1 BY <1>1, <2>2
    <3>2. CASE m <= d - c
      <4>1. c - 1 + m < where /\ m \in 1 .. d - c BY <2>2, <2>3, <3>2
      <4> QED BY <1>4, <2>5, <2>6, <3>1, <3>2, <4>1
    <3>3. CASE ~(m <= d - c)
      <4>1. c - 1 + m = where BY <2>2, <2>3, <3>3
      <4>2. ~(where < where) BY <1>1
      <4> QED BY <1>2, <1>4, <2>6, <3>1, <3>3, <4>1, <4>2
    <3> QED BY <3>2, <3>3
  <2>8. Append(s, v) \in Seq(Values) /\ Len(Append(s, v)) = (d - c) + 1
        /\ \A m \in 1 .. (d - c) + 1 : Append(s, v)[m] = IF m <= d - c THEN s[m] ELSE v
    <3>1. PICK l \in Nat : l = d - c BY <2>2
    <3> QED BY <2>5, <3>1
  <2>9. (d + 1) - c = (d - c) + 1 BY <2>2
  <2>10. t = Append(s, v)
    <3>1. Len(t) = Len(Append(s, v)) /\ \A m \in 1 .. Len(t) : t[m] = Append(s, v)[m]
      BY <2>6, <2>7, <2>8, <2>9
    <3> QED BY <2>6, <2>8, <3>1, SeqEqual
  <2> QED BY <2>1, <2>4, <2>10 DEF s, t
<1> QED BY <1>6, <1>7 DEF Map!Put

\* Where a place of the vector, and a place within bounds, is after a cut.
Stay(i, first, last) ==
  IF i <= first THEN i ELSE IF i <= last THEN first ELSE i - (last - first)
Within(i, low, high) == IF i < low THEN low ELSE IF i > high THEN high ELSE i

LEMMA CutBounds ==
  ASSUME NEW s \in Seq(Map!Pairs), NEW first \in 1 .. Len(s) + 1, NEW last \in first .. Len(s) + 1,
         NEW k \in MapKeys, NEW c, NEW d, Bounded(s, k, c, d)
  PROVE  Bounded(CutOut(s, first, last), k, Stay(c, first, last), Stay(d, first, last))
<1> DEFINE t == CutOut(s, first, last)
           n == Len(s) - (last - first)
           from(i) == IF i < first THEN i ELSE i + last - first
<1>1. /\ c \in 1 .. Len(s) + 1 /\ d \in c .. Len(s) + 1 /\ Len(s) \in Nat
      /\ \A i \in 1 .. Len(s) : (s[i].first < k <=> i < c) /\ (s[i].first <= k <=> i < d)
  BY DEF Bounded
<1>2. Len(t) = n /\ \A i \in 1..n : t[i] = s[from(i)] BY CutFacts
<1>3. \A i \in 1..n : from(i) \in 1 .. Len(s) BY <1>1
<1>4. \A i \in 1..n : \A e \in 1 .. Len(s) + 1 : from(i) < e <=> i < Stay(e, first, last)
  BY <1>1 DEF Stay
<1>5. /\ Stay(c, first, last) \in 1 .. n + 1
      /\ Stay(d, first, last) \in Stay(c, first, last) .. n + 1
  BY <1>1 DEF Stay
<1>6. d \in 1 .. Len(s) + 1 BY <1>1
<1> HIDE DEF t, from
<1>7. ASSUME NEW i \in 1..n
      PROVE  /\ t[i].first < k <=> i < Stay(c, first, last)
             /\ t[i].first <= k <=> i < Stay(d, first, last)
  <2>1. PICK j \in 1 .. Len(s) : j = from(i) BY <1>3
  <2>2. (s[j].first < k <=> j < c) /\ (s[j].first <= k <=> j < d) BY <1>1
  <2> QED BY <1>1, <1>2, <1>4, <1>6, <2>1, <2>2
<1> QED BY <1>2, <1>5, <1>7 DEF Bounded, t

\* How many values are left at the front of the ones between low and high when the
\* pairs from first to before last are cut out, and from which on the others are.
Front(first, low, high) == Within(first, low, high) - low
Back(last, low, high) == Within(last, low, high) - low + 1

Places(first, last, c, d, p, q) ==
  /\ p \in 0 .. d - c /\ q \in p + 1 .. d - c + 1
  /\ Stay(d, first, last) - Stay(c, first, last) = p + (d - c + 1 - q)
  /\ \A n \in 1 .. p + (d - c + 1 - q) :
       LET i == Stay(c, first, last) - 1 + n
       IN  (IF i < first THEN i ELSE i + last - first)
             = IF n <= p THEN c - 1 + n ELSE c - 1 + (q + (n - p) - 1)

LEMMA PlacesAfterCut ==
  ASSUME NEW first \in Nat, NEW last \in Nat, NEW c \in Nat, NEW d \in Nat,
         first <= last, c <= d
  PROVE  Places(first, last, c, d, Front(first, c, d), Back(last, c, d))
BY DEF Places, Front, Back, Stay, Within

\* What is left of a sequence: the first ones up to p, and those from q on.
Part(s, p, q) == SubSeq(s, 1, p) \o SubSeq(s, q, Len(s))

LEMMA Glued ==
  ASSUME NEW S, NEW s \in Seq(S), NEW p \in 0 .. Len(s)
  PROVE  Part(s, p, p + 1) = s
<1>1. 1 \in 1 .. Len(s) + 1 /\ p \in 1 - 1 .. Len(s) /\ Len(s) \in p .. Len(s) OBVIOUS
<1>2. SubSeq(s, 1, p) \o SubSeq(s, p + 1, Len(s)) = SubSeq(s, 1, Len(s))
  BY <1>1, ConcatAdjacentSubSeq
<1> QED BY <1>2, SubSeqFull DEF Part

\* Its elements, one by one.
IsPart(r, S, s, p, q) ==
  /\ r \in Seq(S) /\ Len(r) = p + (Len(s) + 1 - q)
  /\ \A n \in 1 .. p + (Len(s) + 1 - q) : r[n] = IF n <= p THEN s[n] ELSE s[q + (n - p) - 1]

LEMMA GluedFacts ==
  ASSUME NEW S, NEW s \in Seq(S), NEW p \in 0 .. Len(s), NEW q \in p + 1 .. Len(s) + 1
  PROVE  IsPart(Part(s, p, q), S, s, p, q)
<1> DEFINE a == SubSeq(s, 1, p)
           b == SubSeq(s, q, Len(s))
<1>1. a \in Seq(S) /\ Len(a) = p /\ \A i \in 1..p : a[i] = s[i]
  <2>1. \A i \in 1..p : s[i] \in S OBVIOUS
  <2>2. /\ a \in Seq(S) /\ Len(a) = IF 1 <= p THEN p - 1 + 1 ELSE 0
        /\ \A i \in 1 .. p - 1 + 1 : a[i] = s[1 + i - 1]
    BY <2>1, SubSeqProperties
  <2> HIDE DEF a
  <2>3. p - 1 + 1 = p /\ \A i \in 1..p : 1 + i - 1 = i OBVIOUS
  <2> QED BY <2>2, <2>3
<1>2. b \in Seq(S) /\ Len(b) = Len(s) + 1 - q
      /\ \A i \in 1 .. Len(s) + 1 - q : b[i] = s[q + i - 1]
  <2>1. q \in Int /\ Len(s) \in Int /\ \A i \in q .. Len(s) : s[i] \in S OBVIOUS
  <2>2. /\ b \in Seq(S) /\ Len(b) = IF q <= Len(s) THEN Len(s) - q + 1 ELSE 0
        /\ \A i \in 1 .. Len(s) - q + 1 : b[i] = s[q + i - 1]
    BY <2>1, SubSeqProperties
  <2> HIDE DEF b
  <2>3. Len(s) - q + 1 = Len(s) + 1 - q /\ (q > Len(s) => Len(s) + 1 - q = 0) OBVIOUS
  <2> QED BY <2>1, <2>2, <2>3
<1> DEFINE r == a \o b
<1> HIDE DEF a, b
<1>3. /\ r \in Seq(S) /\ Len(r) = Len(a) + Len(b)
      /\ \A n \in 1 .. Len(a) + Len(b) : r[n] = IF n <= Len(a) THEN a[n] ELSE b[n - Len(a)]
  BY <1>1, <1>2, ConcatProperties
<1> HIDE DEF r
<1>4. ASSUME NEW n \in 1 .. p + (Len(s) + 1 - q)
      PROVE  r[n] = IF n <= p THEN s[n] ELSE s[q + (n - p) - 1]
  <2>1. r[n] = IF n <= p THEN a[n] ELSE b[n - p] BY <1>1, <1>2, <1>3
  <2>2. CASE n <= p BY <1>1, <2>1, <2>2
  <2>3. CASE ~(n <= p)
    <3>1. PICK i \in 1 .. Len(s) + 1 - q : i = n - p BY <2>3
    <3> QED BY <1>2, <2>1, <2>3, <3>1
  <2> QED BY <2>2, <2>3
<1>5. r = Part(s, p, q) BY DEF r, a, b, Part
<1>6. Len(r) = p + (Len(s) + 1 - q) BY <1>1, <1>2, <1>3
<1> QED BY <1>3, <1>4, <1>5, <1>6 DEF IsPart

\* A place behind what is cut out.
LEMMA AfterGap ==
  ASSUME NEW l \in Int, NEW p \in Int, NEW q \in Int, NEW n \in Int,
         p + 1 <= q, n <= p + (l + 1 - q), 0 <= p, ~(n <= p)
  PROVE  q + (n - p) - 1 \in 1..l
OBVIOUS

\* What a cut leaves of the values of each key: some first ones, some last ones.
LEMMA CutValues ==
  ASSUME MapIInv, NEW first \in 1 .. Len(pairs) + 1, NEW last \in first .. Len(pairs) + 1,
         Map!Cut(first, last), NEW k \in MapKeys,
         NEW p, p = Front(first, Map!LowerBound(k), Map!UpperBound(k)),
         NEW q, q = Back(last, Map!LowerBound(k), Map!UpperBound(k))
  PROVE  /\ p \in 0 .. Len(Map!store[k]) /\ q \in p + 1 .. Len(Map!store[k]) + 1
         /\ Map!store'[k] = Part(Map!store[k], p, q)
<1>1. PICK c, d : c = Map!LowerBound(k) /\ d = Map!UpperBound(k) OBVIOUS
<1>2. PICK s : s = Map!store[k] OBVIOUS
<1>3. /\ Bounded(pairs, k, c, d) /\ s = Between(pairs, c, d)
      /\ s \in Seq(Values) /\ Len(s) = d - c
  BY <1>1, <1>2, StoreAt
<1>4. /\ pairs \in Seq(Map!Pairs) /\ Len(pairs) \in Nat /\ Map!size = Len(pairs)
      /\ c \in 1 .. Len(pairs) + 1 /\ d \in c .. Len(pairs) + 1
  BY <1>3, MapFacts DEF Bounded
<1> DEFINE low == Stay(c, first, last)
           high == Stay(d, first, last)
           from(i) == IF i < first THEN i ELSE i + last - first
           t == Between(pairs', low, high)
           r == Part(s, p, q)
<1>5. pairs' = CutOut(pairs, first, last) BY <1>4 DEF Map!Cut, CutOut
<1>6. /\ pairs' \in Seq(Map!Pairs) /\ Len(pairs') = Len(pairs) - (last - first)
      /\ \A i \in 1 .. Len(pairs) - (last - first) : pairs'[i] = pairs[from(i)]
  BY <1>4, <1>5, CutFacts
<1>7. Bounded(pairs', k, low, high) BY <1>3, <1>4, <1>5, CutBounds
<1>8. /\ Map!store'[k] = t
      /\ low \in 1 .. Len(pairs') + 1 /\ high \in low .. Len(pairs') + 1
  BY <1>6, <1>7, StoreNext
<1>9. /\ p \in 0 .. d - c /\ q \in p + 1 .. d - c + 1
      /\ high - low = p + (d - c + 1 - q)
      /\ \A n \in 1 .. p + (d - c + 1 - q) :
           from(low - 1 + n) = IF n <= p THEN c - 1 + n ELSE c - 1 + (q + (n - p) - 1)
  <2>1. /\ first \in Nat /\ last \in Nat /\ c \in Nat /\ d \in Nat /\ first <= last /\ c <= d
    BY <1>4
  <2>2. p = Front(first, c, d) /\ q = Back(last, c, d) BY <1>1
  <2>3. Places(first, last, c, d, p, q) BY <2>1, <2>2, PlacesAfterCut
  <2> QED BY <2>3 DEF Places
<1> HIDE DEF low, high, from
<1>10. t \in Seq(Values) /\ Len(t) = high - low
       /\ \A n \in 1 .. high - low : t[n] = pairs'[low - 1 + n].second
  BY <1>6, <1>8, BetweenFacts
<1>11. /\ r \in Seq(Values) /\ Len(r) = p + (Len(s) + 1 - q)
       /\ \A n \in 1 .. p + (Len(s) + 1 - q) :
            r[n] = IF n <= p THEN s[n] ELSE s[q + (n - p) - 1]
  <2>1. p \in 0 .. Len(s) /\ q \in p + 1 .. Len(s) + 1 BY <1>3, <1>9
  <2>2. IsPart(r, Values, s, p, q) BY <1>3, <2>1, GluedFacts
  <2> QED BY <2>2 DEF IsPart
<1> HIDE DEF t, r
<1>12. ASSUME NEW n \in 1 .. high - low PROVE t[n] = r[n]
  <2>1. /\ n \in 1 .. p + (d - c + 1 - q) /\ p \in Nat /\ q \in Nat
    BY <1>4, <1>9
  <2>2. /\ low - 1 + n \in 1 .. Len(pairs')
        /\ pairs'[low - 1 + n] = pairs[from(low - 1 + n)]
    <3>1. low - 1 + n \in 1 .. Len(pairs') BY <1>6, <1>8
    <3> QED BY <1>6, <3>1
  <2>3. t[n] = pairs[IF n <= p THEN c - 1 + n ELSE c - 1 + (q + (n - p) - 1)].second
    <3>1. t[n] = pairs[from(low - 1 + n)].second BY <1>10, <2>2
    <3>2. from(low - 1 + n) = IF n <= p THEN c - 1 + n ELSE c - 1 + (q + (n - p) - 1)
      BY <1>9, <2>1
    <3> QED BY <3>1, <3>2
  <2>4. PICK m \in 1 .. d - c : m = IF n <= p THEN n ELSE q + (n - p) - 1
    <3>1. PICK l \in Nat : l = d - c BY <1>4
    <3>2. p \in 0..l /\ q \in p + 1 .. l + 1 /\ n \in 1 .. p + (l + 1 - q)
      BY <1>9, <2>1, <3>1
    <3>3. n <= p => n \in 1..l BY <3>1, <3>2
    <3>4. /\ l \in Int /\ p \in Int /\ q \in Int /\ n \in Int
          /\ p + 1 <= q /\ n <= p + (l + 1 - q) /\ 0 <= p
      BY <3>1, <3>2
    <3>5. ~(n <= p) => q + (n - p) - 1 \in 1..l BY <3>4, AfterGap
    <3> QED BY <3>1, <3>3, <3>5
  <2>5. t[n] = pairs[c - 1 + m].second BY <2>3, <2>4
  <2>6. s[m] = pairs[c - 1 + m].second BY <1>3, <1>4, BetweenFacts
  <2>7. r[n] = s[m]
    <3>1. n \in 1 .. p + (Len(s) + 1 - q) BY <1>3, <2>1
    <3> QED BY <1>11, <2>4, <3>1
  <2> QED BY <2>5, <2>6, <2>7
<1>13. t = r
  <2>1. Len(t) = Len(r) BY <1>3, <1>9, <1>10, <1>11
  <2> QED BY <1>10, <1>11, <1>12, <2>1, SeqEqual
<1> QED BY <1>2, <1>3, <1>8, <1>9, <1>13 DEF r

LEMMA BoundsRise ==
  ASSUME MapIInv, NEW y \in MapKeys, NEW k \in MapKeys, y < k
  PROVE  Map!UpperBound(y) <= Map!LowerBound(k)
<1>1. /\ Map!UpperBound(y) \in 1 .. Len(pairs) + 1 /\ Map!LowerBound(k) \in 1 .. Len(pairs) + 1
      /\ \A i \in 1 .. Len(pairs) : /\ Map!key(i) <= y <=> i < Map!UpperBound(y)
                                    /\ Map!key(i) < k <=> i < Map!LowerBound(k)
  BY MapBounds
<1>2. Len(pairs) \in Nat /\ \A i \in 1 .. Len(pairs) : Map!key(i) \in Int BY MapFacts
<1>3. y \in Int /\ k \in Int BY ContainersAssumption
<1> SUFFICES ASSUME Map!LowerBound(k) < Map!UpperBound(y) PROVE FALSE BY <1>1
<1>4. PICK i \in 1 .. Len(pairs) : i = Map!LowerBound(k) BY <1>1, <1>2
<1> QED BY <1>1, <1>2, <1>3, <1>4

\* A cut within the bounds of one key.
LEMMA CutOfOne ==
  ASSUME MapIInv, NEW k \in MapKeys, NEW first \in Map!LowerBound(k) .. Map!UpperBound(k),
         NEW last \in first .. Map!UpperBound(k), Map!Cut(first, last),
         NEW p, p = first - Map!LowerBound(k), NEW q, q = last - Map!LowerBound(k) + 1
  PROVE  /\ mapUnique' = mapUnique
         /\ Map!store'[k] = Part(Map!store[k], p, q)
         /\ \A y \in MapKeys : y # k => Map!store'[y] = Map!store[y]
<1>1. /\ Map!LowerBound(k) \in 1 .. Len(pairs) + 1 /\ Map!UpperBound(k) \in 1 .. Len(pairs) + 1
      /\ Len(pairs) \in Nat
  BY MapBounds, MapFacts
<1>2. first \in 1 .. Len(pairs) + 1 /\ last \in first .. Len(pairs) + 1 BY <1>1
<1>3. /\ p = Front(first, Map!LowerBound(k), Map!UpperBound(k))
      /\ q = Back(last, Map!LowerBound(k), Map!UpperBound(k))
  BY <1>1 DEF Within, Front, Back
<1>4. ASSUME NEW y \in MapKeys, y # k PROVE Map!store'[y] = Map!store[y]
  <2>1. PICK c, d : c = Map!LowerBound(y) /\ d = Map!UpperBound(y) OBVIOUS
  <2>2. c \in 1 .. Len(pairs) + 1 /\ d \in 1 .. Len(pairs) + 1 /\ c <= d
    BY <2>1, MapBounds
  <2>3. d <= first \/ last <= c
    <3>1. y < k \/ k < y BY <1>4, ContainersAssumption
    <3> QED BY <1>1, <2>1, <2>2, <3>1, BoundsRise
  <2>4. PICK m \in Int : m = Front(first, c, d) /\ m + 1 = Back(last, c, d)
    BY <1>1, <1>2, <2>2, <2>3 DEF Within, Front, Back
  <2>5. m \in 0 .. Len(Map!store[y]) /\ Map!store'[y] = Part(Map!store[y], m, m + 1)
    BY <1>2, <2>1, <2>4, CutValues
  <2>6. Map!store[y] \in Seq(Values) BY StoreAt
  <2> QED BY <2>5, <2>6, Glued
<1>5. Map!store'[k] = Part(Map!store[k], p, q) BY <1>2, <1>3, CutValues
<1> QED BY <1>4, <1>5 DEF Map!Cut

\* What the searches say of a key is whether it has values.
LEMMA KeyFound ==
  ASSUME MapIInv, NEW k \in MapKeys
  PROVE  /\ Map!LowerBound(k) \in 1 .. Len(pairs) + 1
         /\ Map!UpperBound(k) \in Map!LowerBound(k) .. Len(pairs) + 1
         /\ Map!store[k] \in Seq(Values)
         /\ Len(Map!store[k]) = Map!UpperBound(k) - Map!LowerBound(k)
         /\ Map!Abstract!has(k) <=> Map!LowerBound(k) < Map!UpperBound(k)
         /\ Map!Missing(k) <=> ~Map!Abstract!has(k)
         /\ Map!Outside(k) => ~Map!Abstract!has(k)
         /\ Map!Abstract!has(k) => Map!store[k][1] = pairs[Map!LowerBound(k)].second
<1> DEFINE n == Len(pairs)
<1>1. PICK low, high : low = Map!LowerBound(k) /\ high = Map!UpperBound(k) OBVIOUS
<1>2. /\ low \in 1 .. n + 1 /\ high \in low .. n + 1 /\ n \in Nat /\ Map!size = n
      /\ \A i \in 1..n : /\ Map!key(i) \in Int
                         /\ (Map!key(i) < k <=> i < low) /\ (Map!key(i) <= k <=> i < high)
  BY <1>1, MapBounds, MapFacts
<1>3. k \in Int BY ContainersAssumption
<1>4. /\ Map!store[k] \in Seq(Values) /\ Len(Map!store[k]) = high - low
      /\ Map!store[k] = Between(pairs, low, high)
  BY <1>1, StoreAt
<1>5. Map!Abstract!has(k) <=> low < high
  <2>1. Map!store[k] # <<>> <=> Len(Map!store[k]) # 0 BY <1>4, EmptySeq
  <2> QED BY <1>2, <1>4, <2>1 DEF Map!Abstract!has
<1>6. Map!Outside(k) => low = high
  <2>1. ASSUME n # 0, k < Map!key(1) PROVE low = high
    <3>1. 1 \in 1..n BY <1>2, <2>1
    <3>2. ~(Map!key(1) <= k) BY <1>2, <1>3, <2>1, <3>1
    <3> QED BY <1>2, <3>1, <3>2
  <2>2. ASSUME n # 0, Map!key(n) < k PROVE low = high
    <3>1. n \in 1..n /\ n < low BY <1>2, <2>2
    <3> QED BY <1>2, <3>1
  <2> QED BY <1>2, <2>1, <2>2 DEF Map!Outside
<1>7. Map!Missing(k) <=> ~(low < high)
  <2>1. CASE Map!Outside(k) BY <1>2, <1>6, <2>1 DEF Map!Missing
  <2>2. CASE ~Map!Outside(k)
    <3>1. n # 0 /\ ~(Map!key(n) < k) /\ n \in 1..n BY <1>2, <2>2 DEF Map!Outside
    <3>2. low \in 1..n BY <1>2, <3>1
    <3>3. k < Map!key(low) <=> ~(low < high) BY <1>2, <1>3, <3>2
    <3> QED BY <1>1, <2>2, <3>3 DEF Map!Missing
  <2> QED BY <2>1, <2>2
<1>8. low < high => Map!store[k][1] = pairs[low].second
  <2>1. pairs \in Seq(Map!Pairs) BY MapFacts
  <2>2. \A i \in 1 .. high - low : Map!store[k][i] = pairs[low - 1 + i].second
    BY <1>2, <1>4, <2>1, BetweenFacts
  <2> SUFFICES ASSUME low < high PROVE Map!store[k][1] = pairs[low].second OBVIOUS
  <2>3. 1 \in 1 .. high - low /\ low - 1 + 1 = low BY <1>2
  <2> QED BY <2>2, <2>3
<1> QED BY <1>1, <1>2, <1>4, <1>5, <1>6, <1>7, <1>8

LEMMA NewKey ==
  ASSUME MapIInv, mapUnique, NEW k \in MapKeys
  PROVE  /\ Map!UpperBound(k) <= Map!LowerBound(k) + 1
         /\ Map!IsNew(k) <=> ~Map!Abstract!has(k)
         /\ Map!IsNew(k) =>
              /\ Map!Place(k) \in 1 .. Len(pairs) + 1
              /\ \A i \in 1 .. Len(pairs) : /\ i < Map!Place(k) => Map!key(i) <= k
                                            /\ i >= Map!Place(k) => k < Map!key(i)
<1> DEFINE n == Len(pairs)
<1>1. PICK low, high : low = Map!LowerBound(k) /\ high = Map!UpperBound(k) OBVIOUS
<1>2. /\ low \in 1 .. n + 1 /\ high \in low .. n + 1 /\ n \in Nat
      /\ \A i \in 1..n : /\ Map!key(i) \in Int
                         /\ (Map!key(i) < k <=> i < low) /\ (Map!key(i) <= k <=> i < high)
      /\ Map!Abstract!has(k) <=> low < high
  BY <1>1, MapBounds, MapFacts, KeyFound
<1>3. k \in Int BY ContainersAssumption
<1>4. \A i, j \in 1..n : i < j => Map!key(i) + 1 <= Map!key(j)
  <2>1. Gap(mapUnique) = 1 BY DEF Gap
  <2>2. \A i, j \in 1..n : i < j => KeysOf(pairs)[i] + 1 <= KeysOf(pairs)[j]
    <3>1. Ordered(KeysOf(pairs), 1) BY <2>1, MapFacts
    <3>2. Len(KeysOf(pairs)) = n BY MapFacts, KeysFacts
    <3> QED BY <3>1, <3>2 DEF Ordered
  <2>3. \A i \in 1..n : Map!key(i) = KeysOf(pairs)[i] BY MapFacts
  <2> QED BY <2>2, <2>3
<1>5. high <= low + 1
  <2> SUFFICES ASSUME low + 1 < high PROVE FALSE BY <1>2
  <2>1. low \in 1..n /\ low + 1 \in 1..n BY <1>2
  <2>2. Map!key(low) + 1 <= Map!key(low + 1) BY <1>2, <1>4, <2>1
  <2>3. Map!key(low + 1) <= k /\ ~(Map!key(low) < k) BY <1>2, <2>1
  <2> QED BY <1>2, <1>3, <2>1, <2>2, <2>3
<1>6. ASSUME Map!IsNew(k)
      PROVE  /\ Map!Place(k) \in 1..n + 1 /\ ~(low < high)
             /\ \A i \in 1..n : /\ i < Map!Place(k) => Map!key(i) <= k
                                /\ i >= Map!Place(k) => k < Map!key(i)
  <2>1. /\ Map!Place(k) \in 1..n + 1
        /\ \A i \in 1..n : /\ i < Map!Place(k) => Map!key(i) + 1 <= k
                           /\ i >= Map!Place(k) => k + 1 <= Map!key(i)
    <3>1. Map!Place(k) \in 1..n + 1 /\ Fits(KeysOf(pairs), 1, Map!Place(k), k)
      BY <1>6, NewKeyFits DEF Gap
    <3> QED BY <3>1, MapFacts, KeysFacts DEF Fits
  <2>2. ~(low < high)
    <3> SUFFICES ASSUME low < high PROVE FALSE OBVIOUS
    <3>1. low \in 1..n BY <1>2
    <3> QED BY <1>2, <1>3, <2>1, <3>1
  <2> QED BY <1>2, <1>3, <2>1, <2>2
<1>7. ASSUME ~Map!IsNew(k) PROVE low < high
  <2>1. low \in 1..n /\ Map!key(low) = k BY <1>1, <1>7, KeyIsThere
  <2> QED BY <1>2, <1>3, <2>1
<1> QED BY <1>1, <1>2, <1>5, <1>6, <1>7

\* A pair in place of another one of its key.
Replace(i, pair) == pairs' = [pairs EXCEPT ![i] = pair]

LEMMA Replaced ==
  ASSUME MapIInv, NEW k \in MapKeys, NEW v \in Values,
         NEW i \in 1 .. Len(pairs), Map!key(i) = k,
         Replace(i, Map!Pair(k, v)),
         NEW at, at = i + 1 - Map!LowerBound(k)
  PROVE  /\ at \in 1 .. Len(Map!store[k])
         /\ Map!store'[k] = [Map!store[k] EXCEPT ![at] = v]
         /\ \A y \in MapKeys : y # k => Map!store'[y] = Map!store[y]
<1> DEFINE n == Len(pairs)
<1>1. /\ pairs \in Seq(Map!Pairs) /\ n \in Nat
      /\ \A j \in 1..n : Map!key(j) = pairs[j].first /\ pairs[j].first \in Int
  BY MapFacts DEF Map!key
<1>2. /\ Map!Pair(k, v) \in Map!Pairs /\ Map!Pair(k, v).first = k /\ Map!Pair(k, v).second = v
  BY PairFacts
<1>3. /\ pairs' \in Seq(Map!Pairs) /\ Len(pairs') = n
      /\ \A j \in 1..n : pairs'[j] = IF j = i THEN Map!Pair(k, v) ELSE pairs[j]
  BY <1>1, <1>2 DEF Replace
<1>4. \A j \in 1..n : pairs'[j].first = pairs[j].first BY <1>1, <1>2, <1>3
<1>5. ASSUME NEW y \in MapKeys, NEW c, NEW d, Bounded(pairs, y, c, d)
      PROVE  /\ Map!store'[y] = Between(pairs', c, d)
             /\ c \in 1 .. n + 1 /\ d \in c .. n + 1
  <2>1. Bounded(pairs', y, c, d) BY <1>3, <1>4, <1>5 DEF Bounded
  <2> QED BY <1>3, <2>1, StoreNext
<1>6. ASSUME NEW y \in MapKeys, y # k PROVE Map!store'[y] = Map!store[y]
  <2>1. PICK c, d : Bounded(pairs, y, c, d) /\ Map!store[y] = Between(pairs, c, d)
    BY StoreAt
  <2>2. Map!store'[y] = Between(pairs', c, d) /\ c \in 1 .. n + 1 /\ d \in c .. n + 1
    BY <1>5, <2>1
  <2>3. \A m \in 1 .. d - c : pairs'[c - 1 + m] = pairs[c - 1 + m]
    <3> SUFFICES ASSUME NEW m \in 1 .. d - c PROVE pairs'[c - 1 + m] = pairs[c - 1 + m]
      OBVIOUS
    <3>1. PICK j \in 1..n : j = c - 1 + m /\ ~(j < c) /\ j < d BY <1>1, <2>2
    <3>2. pairs[j].first = y
      <4>1. y \in Int BY ContainersAssumption
      <4> QED BY <1>1, <2>1, <3>1, <4>1 DEF Bounded
    <3>3. j # i BY <1>1, <1>6, <3>2
    <3> QED BY <1>3, <3>1, <3>3
  <2> QED BY <2>1, <2>2, <2>3 DEF Between
<1>7. PICK c, d : c = Map!LowerBound(k) /\ d = Map!UpperBound(k) OBVIOUS
<1>8. /\ Bounded(pairs, k, c, d) /\ Map!store[k] = Between(pairs, c, d)
      /\ Map!store'[k] = Between(pairs', c, d)
      /\ c \in 1 .. n + 1 /\ d \in c .. n + 1
  BY <1>5, <1>7, StoreAt
<1>9. i \in c .. d - 1
  <2>1. k \in Int BY ContainersAssumption
  <2>2. ~(pairs[i].first < k) /\ pairs[i].first <= k BY <1>1, <2>1
  <2>3. ~(i < c) /\ i < d BY <1>8, <2>2 DEF Bounded
  <2> QED BY <1>8, <2>3
<1>10. at \in 1 .. d - c /\ c - 1 + at = i
  <2>1. at = i + 1 - c BY <1>7
  <2>2. c \in Int /\ d \in Int BY <1>8
  <2> QED BY <1>9, <2>1, <2>2
<1>11. Between(pairs', c, d) = [Between(pairs, c, d) EXCEPT ![at] = v]
  <2>1. ASSUME NEW m \in 1 .. d - c
        PROVE  pairs'[c - 1 + m].second = IF m = at THEN v ELSE pairs[c - 1 + m].second
    <3>1. PICK j \in 1..n : j = c - 1 + m BY <1>1, <1>8
    <3>2. j = i <=> m = at BY <1>8, <1>10, <3>1
    <3> QED BY <1>2, <1>3, <3>1, <3>2
  <2> QED BY <2>1 DEF Between
<1>12. at \in 1 .. Len(Map!store[k])
  <2>1. Len(Map!store[k]) = d - c BY <1>7, KeyFound
  <2> QED BY <1>10, <2>1
<1> QED BY <1>6, <1>8, <1>11, <1>12

(***************************************************************************)
(* The operations of FlatMap, each as the one of KeyedValues.              *)
(***************************************************************************)
LEMMA PutIsAbstract ==
  ASSUME MapIInv, NEW k \in MapKeys, NEW v \in Values, mapUnique, Map!IsNew(k),
         Map!Put(Map!Place(k), Map!Pair(k, v)), NEW r, mapReturned' = r
  PROVE  /\ Map!Abstract!Becomes(k, Append(Map!store[k], v), r)
         /\ Append(Map!store[k], v) = <<v>> /\ ~Map!Abstract!has(k)
<1>1. /\ Map!Place(k) \in 1 .. Len(pairs) + 1
      /\ \A i \in 1 .. Len(pairs) : /\ i < Map!Place(k) => Map!key(i) <= k
                                    /\ i >= Map!Place(k) => k < Map!key(i)
      /\ ~Map!Abstract!has(k)
  BY NewKey
<1>2. PICK where \in 1 .. Len(pairs) + 1 : where = Map!Place(k) BY <1>1
<1>3. /\ mapUnique' = mapUnique /\ Map!store'[k] = Append(Map!store[k], v)
      /\ \A y \in MapKeys : y # k => Map!store'[y] = Map!store[y]
  BY <1>1, <1>2, PutAppends
<1>4. Map!Abstract!Becomes(k, Append(Map!store[k], v), r) BY <1>3, StoreBecomes
<1>5. Append(Map!store[k], v) = <<v>>
  <2>1. Map!store[k] = <<>> BY <1>1 DEF Map!Abstract!has
  <2> QED BY <2>1
<1> QED BY <1>1, <1>4, <1>5

LEMMA InsertsAreAbstract ==
  ASSUME MapIInv, NEW k \in MapKeys, NEW v \in Values
  PROVE  /\ Map!insert(Map!Pair(k, v)) => Map!Abstract!insert(k, v)
         /\ Map!insertUnique(Map!Pair(k, v)) => Map!Abstract!insert(k, v)
         /\ Map!insert_or_assign(Map!Pair(k, v)) => Map!Abstract!insert_or_assign(k, v)
<1> DEFINE n == Len(pairs)
<1>1. Map!Pair(k, v).first = k BY PairFacts
<1>2. ASSUME Map!insert(Map!Pair(k, v)) PROVE Map!Abstract!insert(k, v)
  <2>1. /\ n \in Nat /\ Map!size = n /\ k \in Int
        /\ Map!UpperBound(k) \in 1 .. n + 1
        /\ \A i \in 1..n : /\ Map!key(i) \in Int
                           /\ Map!key(i) <= k <=> i < Map!UpperBound(k)
    BY MapFacts, MapBounds, ContainersAssumption
  <2>2. PICK where : where = IF n = 0 \/ Map!key(n) <= k THEN n + 1 ELSE Map!UpperBound(k)
    OBVIOUS
  <2>3. Map!Put(where, Map!Pair(k, v)) /\ ~mapUnique /\ mapReturned' = 1
    BY <1>1, <1>2, <2>1, <2>2 DEF Map!insert, Map!Result
  <2>4. where = Map!UpperBound(k)
    <3>1. CASE n = 0 BY <2>1, <2>2, <3>1
    <3>2. CASE n # 0 /\ Map!key(n) <= k
      <4>1. n \in 1..n BY <2>1, <3>2
      <4>2. n < Map!UpperBound(k) BY <2>1, <3>2, <4>1
      <4> QED BY <2>1, <2>2, <3>2, <4>2
    <3>3. CASE n # 0 /\ ~(Map!key(n) <= k) BY <2>2, <3>3
    <3> QED BY <3>1, <3>2, <3>3
  <2>5. /\ where \in 1 .. n + 1
        /\ \A i \in 1..n : /\ i < where => Map!key(i) <= k
                           /\ i >= where => k < Map!key(i)
    BY <2>1, <2>4
  <2>6. /\ mapUnique' = mapUnique /\ Map!store'[k] = Append(Map!store[k], v)
        /\ \A y \in MapKeys : y # k => Map!store'[y] = Map!store[y]
    BY <2>3, <2>5, PutAppends
  <2>7. Map!Abstract!Becomes(k, Append(Map!store[k], v), 1) BY <2>3, <2>6, StoreBecomes
  <2> QED BY <2>3, <2>7 DEF Map!Abstract!insert
<1>3. ASSUME Map!insertUnique(Map!Pair(k, v)) PROVE Map!Abstract!insert(k, v)
  <2>1. mapUnique BY <1>3 DEF Map!insertUnique
  <2>2. CASE Map!IsNew(k)
    <3>1. Map!Put(Map!Place(k), Map!Pair(k, v)) /\ mapReturned' = 1
      BY <1>1, <1>3, <2>2 DEF Map!insertUnique, Map!Result
    <3>2. Map!Abstract!Becomes(k, Append(Map!store[k], v), 1) /\ ~Map!Abstract!has(k)
      BY <2>1, <2>2, <3>1, PutIsAbstract
    <3> QED BY <3>2 DEF Map!Abstract!insert
  <2>3. CASE ~Map!IsNew(k)
    <3>1. Map!Keep /\ mapReturned' = 0 BY <1>1, <1>3, <2>3 DEF Map!insertUnique, Map!Result
    <3>2. Map!Abstract!has(k) BY <2>1, <2>3, NewKey
    <3>3. Map!Abstract!Returns(0) BY <3>1, StoreKept
    <3> QED BY <2>1, <3>2, <3>3 DEF Map!Abstract!insert
  <2> QED BY <2>2, <2>3
<1>4. ASSUME Map!insert_or_assign(Map!Pair(k, v)) PROVE Map!Abstract!insert_or_assign(k, v)
  <2>1. mapUnique BY <1>4 DEF Map!insert_or_assign
  <2>2. CASE Map!IsNew(k)
    <3>1. Map!Put(Map!Place(k), Map!Pair(k, v)) /\ mapReturned' = 1
      BY <1>1, <1>4, <2>2 DEF Map!insert_or_assign, Map!Result
    <3>2. Map!Abstract!Becomes(k, <<v>>, 1) /\ ~Map!Abstract!has(k)
      BY <2>1, <2>2, <3>1, PutIsAbstract
    <3> QED BY <2>1, <3>2 DEF Map!Abstract!insert_or_assign
  <2>3. CASE ~Map!IsNew(k)
    <3>1. PICK i : i = Map!LowerBound(k) OBVIOUS
    <3>2. /\ Replace(i, Map!Pair(k, v))
          /\ mapUnique' = mapUnique /\ mapReturned' = 0
      BY <1>1, <1>4, <2>3, <3>1 DEF Map!insert_or_assign, Map!Result, Replace
    <3>3. i \in 1..n /\ Map!key(i) = k BY <2>3, <3>1, KeyIsThere
    <3>4. PICK at : at = i + 1 - Map!LowerBound(k) OBVIOUS
    <3>5. /\ Map!store'[k] = [Map!store[k] EXCEPT ![at] = v]
          /\ \A y \in MapKeys : y # k => Map!store'[y] = Map!store[y]
      BY <3>2, <3>3, <3>4, Replaced
    <3>10. at = 1 BY <3>1, <3>3, <3>4
    <3>6. Map!Abstract!has(k) BY <2>1, <2>3, NewKey
    <3>7. Map!store[k] \in Seq(Values) /\ Len(Map!store[k]) = 1
      <4>1. PICK low, high : low = Map!LowerBound(k) /\ high = Map!UpperBound(k) OBVIOUS
      <4>2. high <= low + 1 BY <2>1, <4>1, NewKey
      <4>3. /\ low \in 1 .. n + 1 /\ high \in low .. n + 1 /\ low < high
            /\ Map!store[k] \in Seq(Values) /\ Len(Map!store[k]) = high - low
        BY <3>6, <4>1, KeyFound
      <4>4. high - low = 1 BY <4>2, <4>3
      <4> QED BY <4>3, <4>4
    <3>8. [Map!store[k] EXCEPT ![1] = v] = <<v>> BY <3>7
    <3>9. Map!Abstract!Becomes(k, <<v>>, 0) BY <3>2, <3>5, <3>8, <3>10, StoreBecomes
    <3> QED BY <2>1, <3>6, <3>9 DEF Map!Abstract!insert_or_assign
  <2> QED BY <2>2, <2>3
<1> QED BY <1>2, <1>3, <1>4

LEMMA SubscriptIsAbstract ==
  ASSUME MapIInv, NEW k \in MapKeys, Map!subscript(k)
  PROVE  Map!Abstract!subscript(k)
<1>1. mapUnique BY DEF Map!subscript
<1>2. CASE Map!IsNew(k)
  <2>1. Map!Put(Map!Place(k), Map!Pair(k, Default)) /\ mapReturned' = Default
    BY <1>2 DEF Map!subscript, Map!Result
  <2>2. Map!Abstract!Becomes(k, <<Default>>, Default) /\ ~Map!Abstract!has(k)
    BY <1>1, <1>2, <2>1, PutIsAbstract, ContainersAssumption
  <2> QED BY <1>1, <2>2 DEF Map!Abstract!subscript
<1>3. CASE ~Map!IsNew(k)
  <2>1. Map!Keep /\ mapReturned' = pairs[Map!LowerBound(k)].second
    BY <1>3 DEF Map!subscript, Map!Result
  <2>2. Map!Abstract!has(k) BY <1>1, <1>3, NewKey
  <2>3. Map!store[k][1] = pairs[Map!LowerBound(k)].second BY <2>2, KeyFound
  <2>4. Map!Abstract!Returns(Map!store[k][1]) BY <2>1, <2>3, StoreKept
  <2> QED BY <1>1, <2>2, <2>4 DEF Map!Abstract!subscript
<1> QED BY <1>2, <1>3

LEMMA AssignIsAbstract ==
  ASSUME MapIInv, NEW k \in MapKeys, NEW v \in Values, NEW i \in 1 .. Map!size,
         Map!key(i) = k, Map!Assign(i, v)
  PROVE  Map!Abstract!Assign(k, i + 1 - Map!LowerBound(k), v)
<1>1. i \in 1 .. Len(pairs) /\ pairs \in Seq(Map!Pairs) BY MapFacts
<1>2. [pairs[i] EXCEPT !.second = v] = Map!Pair(k, v)
  <2>1. pairs[i] \in Map!Pairs /\ pairs[i].first = k BY <1>1 DEF Map!key
  <2> QED BY <2>1 DEF Map!Pairs, Map!Pair
<1>3. Replace(i, Map!Pair(k, v)) /\ mapUnique' = mapUnique /\ mapReturned' = 0
  BY <1>2 DEF Map!Assign, Map!Result, Replace
<1>4. PICK at : at = i + 1 - Map!LowerBound(k) OBVIOUS
<1>5. /\ Map!store'[k] = [Map!store[k] EXCEPT ![at] = v]
      /\ \A y \in MapKeys : y # k => Map!store'[y] = Map!store[y]
  BY <1>1, <1>3, <1>4, Replaced
<1>6. Map!Abstract!Becomes(k, [Map!store[k] EXCEPT ![at] = v], 0)
  BY <1>3, <1>5, StoreBecomes
<1> QED BY <1>4, <1>6 DEF Map!Abstract!Assign

\* What is left when the first value goes, when one goes, when all go.
LEMMA PartFacts ==
  ASSUME NEW S, NEW s \in Seq(S)
  PROVE  /\ Part(s, 0, Len(s) + 1) = <<>>
         /\ s # <<>> => Part(s, 0, 2) = Tail(s)
         /\ \A i \in 1 .. Len(s) : Part(s, i - 1, i + 1) = Map!Abstract!RemoveAt(s, i)
<1>1. SubSeq(s, 1, 0) = <<>> BY SubSeqEmpty
<1>2. Len(s) \in Nat OBVIOUS
<1>3. SubSeq(s, Len(s) + 1, Len(s)) = <<>>
  <2>1. Len(s) + 1 \in Int /\ Len(s) \in Int /\ Len(s) < Len(s) + 1 BY <1>2
  <2> QED BY <2>1, SubSeqEmpty
<1>4. Part(s, 0, Len(s) + 1) = <<>> BY <1>1, <1>3 DEF Part
<1>5. ASSUME s # <<>> PROVE Part(s, 0, 2) = Tail(s)
  <2>1. Tail(s) = SubSeq(s, 2, Len(s)) /\ Tail(s) \in Seq(S)
    BY <1>5, TailIsSubSeq, HeadTailProperties
  <2>2. <<>> \o Tail(s) = Tail(s) BY <2>1, ConcatEmptySeq
  <2> QED BY <1>1, <2>1, <2>2 DEF Part
<1>6. \A i \in 1 .. Len(s) : Part(s, i - 1, i + 1) = Map!Abstract!RemoveAt(s, i)
  BY DEF Part, Map!Abstract!RemoveAt
<1> QED BY <1>4, <1>5, <1>6

LEMMA FirstGoes ==
  ASSUME MapIInv, NEW k \in MapKeys, Map!Abstract!has(k),
         Map!Cut(Map!LowerBound(k), Map!LowerBound(k) + 1), NEW r, mapReturned' = r
  PROVE  Map!Abstract!Becomes(k, Tail(Map!store[k]), r)
<1>1. PICK low, high : low = Map!LowerBound(k) /\ high = Map!UpperBound(k) OBVIOUS
<1>2. low \in 1 .. Len(pairs) + 1 /\ high \in low .. Len(pairs) + 1 /\ low < high
      /\ Map!store[k] \in Seq(Values) /\ Map!store[k] # <<>> /\ Len(pairs) \in Nat
  BY <1>1, KeyFound, MapFacts DEF Map!Abstract!has
<1>3. /\ low \in low .. high /\ low + 1 \in low .. high
      /\ 0 = low - low /\ 2 = (low + 1) - low + 1
  BY <1>2
<1>4. /\ mapUnique' = mapUnique /\ Map!store'[k] = Part(Map!store[k], 0, 2)
      /\ \A y \in MapKeys : y # k => Map!store'[y] = Map!store[y]
  BY <1>1, <1>3, CutOfOne
<1>5. Part(Map!store[k], 0, 2) = Tail(Map!store[k]) BY <1>2, PartFacts
<1> QED BY <1>4, <1>5, StoreBecomes

LEMMA MapRemovesAreAbstract ==
  ASSUME MapIInv, NEW k \in MapKeys
  PROVE  /\ Map!removeOne(k) => Map!Abstract!removeOne(k)
         /\ Map!removeAll(k) => Map!Abstract!removeAll(k)
         /\ Map!take(k)      => Map!Abstract!take(k)
<1>1. PICK low, high : low = Map!LowerBound(k) /\ high = Map!UpperBound(k) OBVIOUS
<1>2. /\ low \in 1 .. Len(pairs) + 1 /\ high \in low .. Len(pairs) + 1 /\ Len(pairs) \in Nat
      /\ Map!store[k] \in Seq(Values) /\ Len(Map!store[k]) = high - low
      /\ Map!Abstract!has(k) <=> low < high
      /\ Map!Missing(k) <=> ~Map!Abstract!has(k)
      /\ Map!Outside(k) => ~Map!Abstract!has(k)
      /\ Map!Abstract!has(k) => Map!store[k][1] = pairs[low].second
  BY <1>1, KeyFound, MapFacts
<1>3. ASSUME Map!removeOne(k) PROVE Map!Abstract!removeOne(k)
  <2>1. CASE Map!Missing(k)
    <3>1. Map!Keep /\ mapReturned' = 0 BY <1>3, <2>1 DEF Map!removeOne, Map!Result
    <3> QED BY <1>2, <2>1, <3>1, StoreKept DEF Map!Abstract!removeOne
  <2>2. CASE ~Map!Missing(k)
    <3>1. Map!Cut(Map!LowerBound(k), Map!LowerBound(k) + 1) /\ mapReturned' = 1
      BY <1>3, <2>2 DEF Map!removeOne, Map!Result
    <3> QED BY <1>2, <2>2, <3>1, FirstGoes DEF Map!Abstract!removeOne
  <2> QED BY <2>1, <2>2
<1>4. ASSUME Map!take(k) PROVE Map!Abstract!take(k)
  <2>0. mapUnique BY <1>4 DEF Map!take
  <2>1. CASE Map!Missing(k)
    <3>1. Map!Keep /\ mapReturned' = None BY <1>4, <2>1 DEF Map!take, Map!Result
    <3> QED BY <1>2, <2>0, <2>1, <3>1, StoreKept DEF Map!Abstract!take
  <2>2. CASE ~Map!Missing(k)
    <3>1. Map!Cut(Map!LowerBound(k), Map!LowerBound(k) + 1)
          /\ mapReturned' = Map!store[k][1]
      BY <1>1, <1>2, <1>4, <2>2 DEF Map!take, Map!Result
    <3>2. Map!Abstract!Becomes(k, Tail(Map!store[k]), Map!store[k][1])
      BY <1>2, <2>2, <3>1, FirstGoes
    <3> QED BY <1>2, <2>0, <2>2, <3>2 DEF Map!Abstract!take
  <2> QED BY <2>1, <2>2
<1>5. ASSUME Map!removeAll(k) PROVE Map!Abstract!removeAll(k)
  <2>1. CASE Map!Outside(k)
    <3>1. Map!Keep /\ mapReturned' = 0 BY <1>5, <2>1 DEF Map!removeAll, Map!Result
    <3>2. Map!store' = Map!store /\ mapUnique' = mapUnique
      BY <3>1, StoreIs DEF Map!Keep
    <3>3. Map!store[k] = <<>> BY <1>2, <2>1 DEF Map!Abstract!has
    <3>4. Len(Map!store[k]) = 0 BY <3>3, EmptySeq
    <3>5. Map!Abstract!Becomes(k, <<>>, Len(Map!store[k]))
      <4>1. Map!store'[k] = <<>> /\ \A y \in MapKeys : Map!store'[y] = Map!store[y]
        BY <3>2, <3>3
      <4> QED BY <3>1, <3>2, <3>4, <4>1, StoreBecomes
    <3> QED BY <3>5 DEF Map!Abstract!removeAll
  <2>2. CASE ~Map!Outside(k)
    <3>1. Map!Cut(low, high) /\ mapReturned' = Len(Map!store[k])
      BY <1>1, <1>2, <1>5, <2>2 DEF Map!removeAll, Map!Result
    <3>2. /\ low \in low .. high /\ high \in low .. high
          /\ 0 = low - low /\ Len(Map!store[k]) + 1 = high - low + 1
      BY <1>2
    <3>3. PICK q : q = Len(Map!store[k]) + 1 /\ q = high - low + 1 BY <3>2
    <3>4. /\ mapUnique' = mapUnique /\ Map!store'[k] = Part(Map!store[k], 0, q)
          /\ \A y \in MapKeys : y # k => Map!store'[y] = Map!store[y]
      BY <1>1, <3>1, <3>2, <3>3, CutOfOne
    <3>5. Part(Map!store[k], 0, q) = <<>> BY <1>2, <3>3, PartFacts
    <3>6. Map!Abstract!Becomes(k, <<>>, Len(Map!store[k])) BY <3>1, <3>4, <3>5, StoreBecomes
    <3> QED BY <3>6 DEF Map!Abstract!removeAll
  <2> QED BY <2>1, <2>2
<1> QED BY <1>3, <1>4, <1>5

LEMMA MapFindsAreAbstract ==
  ASSUME MapIInv, NEW k \in MapKeys
  PROVE  /\ Map!find(k)  => Map!Abstract!find(k)
         /\ Map!count(k) => Map!Abstract!count(k)
<1>1. PICK low, high : low = Map!LowerBound(k) /\ high = Map!UpperBound(k) OBVIOUS
<1>2. /\ low \in 1 .. Len(pairs) + 1 /\ high \in low .. Len(pairs) + 1 /\ Len(pairs) \in Nat
      /\ Len(Map!store[k]) = high - low
      /\ Map!Abstract!has(k) <=> low < high
      /\ Map!Missing(k) <=> ~Map!Abstract!has(k)
      /\ Map!Outside(k) => ~Map!Abstract!has(k)
      /\ Map!Abstract!has(k) => Map!store[k][1] = pairs[low].second
  BY <1>1, KeyFound, MapFacts
<1>3. ASSUME Map!find(k) PROVE Map!Abstract!find(k)
  <2>1. Map!Keep /\ mapReturned' = IF Map!Abstract!has(k) THEN Map!store[k][1] ELSE None
    BY <1>1, <1>2, <1>3 DEF Map!find, Map!Result
  <2> QED BY <2>1, StoreKept DEF Map!Abstract!find
<1>4. ASSUME Map!count(k) PROVE Map!Abstract!count(k)
  <2>1. (IF Map!Outside(k) THEN 0 ELSE high - low) = high - low BY <1>2
  <2>2. Map!Keep /\ mapReturned' = Len(Map!store[k])
    BY <1>1, <1>2, <1>4, <2>1 DEF Map!count, Map!Result
  <2> QED BY <2>2, StoreKept DEF Map!Abstract!count
<1> QED BY <1>3, <1>4

\* The first of the values that are v is the one which goes.
LEMMA MapRemoveIsAbstract ==
  ASSUME MapIInv, NEW k \in MapKeys, NEW v \in Values, Map!remove(k, v)
  PROVE  Map!Abstract!remove(k, v)
<1> DEFINE n == Len(pairs)
           where == {i \in Map!LowerBound(k) .. Map!size : pairs[i] = Map!Pair(k, v)}
           of == {j \in 1 .. Len(Map!store[k]) : Map!store[k][j] = v}
<1>1. PICK low, high : low = Map!LowerBound(k) /\ high = Map!UpperBound(k) OBVIOUS
<1>2. /\ low \in 1 .. n + 1 /\ high \in low .. n + 1 /\ n \in Nat /\ Map!size = n
      /\ pairs \in Seq(Map!Pairs)
      /\ Map!store[k] \in Seq(Values) /\ Len(Map!store[k]) = high - low
      /\ Map!Abstract!has(k) <=> low < high
      /\ Map!Outside(k) => ~Map!Abstract!has(k)
  BY <1>1, KeyFound, MapFacts
<1>3. \A i \in 1..n : pairs[i] = Map!Pair(k, v) <=> i >= low /\ i < high /\ pairs[i].second = v
  <2> SUFFICES ASSUME NEW i \in 1..n
               PROVE  pairs[i] = Map!Pair(k, v)
                        <=> i >= low /\ i < high /\ pairs[i].second = v
    OBVIOUS
  <2>1. /\ (pairs[i].first < k <=> i < low) /\ (pairs[i].first <= k <=> i < high)
        /\ pairs[i].first \in Int /\ k \in Int
    BY <1>1, <1>2, MapBounds, MapFacts, ContainersAssumption DEF Map!key
  <2>2. pairs[i].first = k <=> i >= low /\ i < high BY <1>2, <2>1
  <2>3. pairs[i] \in Map!Pairs BY <1>2
  <2>4. pairs[i] = Map!Pair(k, v) <=> pairs[i].first = k /\ pairs[i].second = v
    BY <2>3 DEF Map!Pairs, Map!Pair
  <2> QED BY <2>2, <2>4
<1>4. \A j \in 1 .. high - low : Map!store[k][j] = pairs[low - 1 + j].second
  <2>1. Map!store[k] = Between(pairs, low, high) BY <1>1, StoreAt
  <2> QED BY <1>2, <2>1, BetweenFacts
<1>5. /\ where \subseteq low .. high - 1
      /\ \A i \in low .. high - 1 : i \in where <=> i + 1 - low \in of
  <2>1. \A i \in where : i \in 1..n /\ pairs[i] = Map!Pair(k, v) BY <1>1, <1>2
  <2>2. where \subseteq low .. high - 1 BY <1>2, <1>3, <2>1
  <2>3. ASSUME NEW i \in low .. high - 1 PROVE i \in where <=> i + 1 - low \in of
    <3>1. i \in 1..n /\ i \in low .. n /\ i + 1 - low \in 1 .. high - low
          /\ low - 1 + (i + 1 - low) = i
      BY <1>2
    <3>2. i \in where <=> pairs[i].second = v
      <4>1. i \in where <=> pairs[i] = Map!Pair(k, v)
        <5>1. Map!LowerBound(k) .. Map!size = low .. n BY <1>1, <1>2
        <5> QED BY <3>1, <5>1
      <4>2. i >= low /\ i < high BY <1>2
      <4> QED BY <1>3, <3>1, <4>1, <4>2
    <3>3. i + 1 - low \in of <=> pairs[i].second = v BY <1>2, <1>4, <3>1
    <3> QED BY <3>2, <3>3
  <2> QED BY <2>2, <2>3
<1>6. Map!Abstract!Contains(Map!store[k], v) <=> of # {}
  BY DEF Map!Abstract!Contains
<1>7. \A j \in of : low - 1 + j \in where
  <2> SUFFICES ASSUME NEW j \in of PROVE low - 1 + j \in where OBVIOUS
  <2>1. j \in 1 .. high - low BY <1>2
  <2>2. low - 1 + j \in low .. high - 1 /\ (low - 1 + j) + 1 - low = j BY <1>2, <2>1
  <2> QED BY <1>5, <2>2
<1>8. ~mapUnique BY DEF Map!remove
<1>9. CASE Map!Outside(k) \/ where = {}
  <2>1. of = {}
    <3>1. CASE where = {} BY <1>7, <3>1
    <3>2. CASE Map!Outside(k)
      <4>1. Len(Map!store[k]) = 0 BY <1>2, <3>2
      <4> QED BY <4>1
    <3> QED BY <1>9, <3>1, <3>2
  <2>2. Map!Keep /\ mapReturned' = 0 BY <1>9 DEF Map!remove, Map!Result
  <2>3. Map!Abstract!Returns(0) BY <2>2, StoreKept
  <2> QED BY <1>6, <2>1, <2>3 DEF Map!Abstract!remove
<1>10. CASE ~(Map!Outside(k) \/ where = {})
  <2>1. PICK i : i = Map!Min(where) OBVIOUS
  <2>2. Map!Cut(i, i + 1) /\ mapReturned' = 1 BY <1>10, <2>1 DEF Map!remove, Map!Result
  <2> HIDE DEF where, of
  <2>3. i \in where /\ \A j \in where : i <= j
    <3>1. where \subseteq Nat /\ where # {} BY <1>2, <1>5, <1>10
    <3>2. \E x \in where : \A y \in where : x <= y BY <3>1, LeastNumber
    <3> QED BY <2>1, <3>2 DEF Map!Min
  <2>4. i \in low .. high - 1 BY <1>5, <2>3
  <2>5. PICK at \in 1 .. high - low : at = i + 1 - low BY <1>2, <2>4
  <2>6. at \in of /\ \A j \in of : at <= j
    <3>1. at \in of BY <1>5, <2>3, <2>4, <2>5
    <3>2. ASSUME NEW j \in of PROVE at <= j
      <4>1. i <= low - 1 + j BY <1>7, <2>3
      <4>2. j \in Int BY <1>2 DEF of
      <4> QED BY <1>2, <2>4, <2>5, <4>1, <4>2
    <3> QED BY <3>1, <3>2
  <2>7. at = Map!Abstract!Min(of)
    <3>1. \A x \in of : (\A y \in of : x <= y) => x = at
      <4>1. \A x \in of : x \in Int BY <1>2 DEF of
      <4> QED BY <2>6, <4>1
    <3> QED BY <2>6, <3>1 DEF Map!Abstract!Min
  <2>8. /\ i \in low .. high /\ i + 1 \in i .. high
        /\ at - 1 = i - low /\ at + 1 = (i + 1) - low + 1
    BY <1>2, <2>4, <2>5
  <2>9. PICK p, q : p = at - 1 /\ p = i - low /\ q = at + 1 /\ q = (i + 1) - low + 1
    BY <2>8
  <2>10. /\ mapUnique' = mapUnique /\ Map!store'[k] = Part(Map!store[k], p, q)
         /\ \A y \in MapKeys : y # k => Map!store'[y] = Map!store[y]
    BY <1>1, <2>2, <2>8, <2>9, CutOfOne
  <2>11. Part(Map!store[k], p, q) = Map!Abstract!RemoveAt(Map!store[k], at)
    <3>1. at \in 1 .. Len(Map!store[k]) BY <1>2
    <3>2. Part(Map!store[k], at - 1, at + 1) = Map!Abstract!RemoveAt(Map!store[k], at)
      BY <1>2, <3>1, PartFacts
    <3> QED BY <2>9, <3>2
  <2>12. Map!Abstract!RemoveFirst(Map!store[k], v) = Map!Abstract!RemoveAt(Map!store[k], at)
    <3>1. of # {} BY <2>6
    <3>2. \E j \in 1 .. Len(Map!store[k]) : Map!store[k][j] = v BY <3>1 DEF of
    <3>3. Map!Abstract!SelectInSeq(Map!store[k], LAMBDA x : x = v) = at
      BY <2>7, <3>1 DEF Map!Abstract!SelectInSeq, of
    <3> QED BY <3>2, <3>3 DEF Map!Abstract!RemoveFirst
  <2>13. Map!Abstract!Becomes(k, Map!Abstract!RemoveFirst(Map!store[k], v), 1)
    BY <2>2, <2>10, <2>11, <2>12, StoreBecomes
  <2>14. of # {} BY <2>6
  <2> QED BY <1>6, <2>13, <2>14 DEF Map!Abstract!remove
<1> QED BY <1>9, <1>10

\* The values of all keys are as many as the pairs.
LEMMA StoreTotal ==
  ASSUME NEW s \in Seq(Map!Pairs), NEW gap \in 0..1, Ordered(KeysOf(s), gap),
         NEW f, f = [k \in MapKeys |-> ValuesIn(s, k)]
  PROVE  Map!Abstract!Total(f) = Len(s)
<1> DEFINE keys == KeysOf(s)
<1>1. /\ keys \in Seq(Int) /\ Len(keys) = Len(s) /\ Len(s) \in Nat
      /\ \A i \in 1 .. Len(s) : keys[i] = s[i].first /\ s[i].first \in MapKeys
  BY KeysFacts, PairFacts
<1>2. keys \in Seq(MapKeys)
  <2>1. \A i \in 1 .. Len(s) : s[i].first \in MapKeys BY <1>1
  <2>2. keys \in [1 .. Len(s) -> MapKeys] BY <2>1 DEF KeysOf
  <2> HIDE DEF keys
  <2> QED BY <1>1, <2>2, SeqDef
<1>9. Ordered(keys, gap) /\ gap \in 0..1 OBVIOUS
<1> HIDE DEF keys
<1>3. ASSUME NEW k \in MapKeys PROVE DOMAIN f[k] = 1 .. Occurs(keys, k)
  <2>1. k \in Int BY ContainersAssumption
  <2>2. PICK low \in 1 .. Len(keys) + 1, high \in 1 .. Len(keys) + 1 :
          /\ low <= high
          /\ \A i \in 1 .. Len(keys) : (keys[i] < k <=> i < low) /\ (keys[i] <= k <=> i < high)
          /\ At(keys, k) = low .. high - 1 /\ Occurs(keys, k) = high - low
          /\ low = Cardinality({i \in 1 .. Len(keys) : keys[i] < k}) + 1
    <3>1. HasRange(keys, k) BY <1>1, <1>9, <2>1, OrderedOccurs
    <3> QED BY <3>1 DEF HasRange
  <2>3. Bounded(s, k, low, high)
    <3>1. \A i \in 1 .. Len(s) : s[i].first = keys[i] BY <1>1
    <3>2. \A i \in 1 .. Len(s) : (s[i].first < k <=> i < low) /\ (s[i].first <= k <=> i < high)
      BY <1>1, <2>2, <3>1
    <3>3. low \in 1 .. Len(s) + 1 /\ high \in low .. Len(s) + 1 BY <1>1, <2>2
    <3> QED BY <3>2, <3>3 DEF Bounded
  <2>4. ValuesIn(s, k) = Between(s, low, high) BY <2>3, BoundsAre DEF ValuesIn
  <2>5. DOMAIN Between(s, low, high) = 1 .. high - low BY DEF Between
  <2> QED BY <2>2, <2>4, <2>5
<1>4. UNION {{k} \X DOMAIN f[k] : k \in MapKeys} = Copies(MapKeys, BagOf(MapKeys, keys))
  <2>1. \A k \in MapKeys : BagOf(MapKeys, keys)[k] = Occurs(keys, k) BY DEF BagOf
  <2>2. \A k \in MapKeys : {k} \X DOMAIN f[k] = {k} \X (1 .. BagOf(MapKeys, keys)[k])
    BY <1>3, <2>1
  <2>3. {{k} \X DOMAIN f[k] : k \in MapKeys}
          = {{k} \X (1 .. BagOf(MapKeys, keys)[k]) : k \in MapKeys}
    BY <2>2, Zenon
  <2> QED BY <2>3 DEF Copies
<1>5. Cardinality(Copies(MapKeys, BagOf(MapKeys, keys))) = Len(keys)
  BY <1>2, ContainersAssumption, AsManyCopies DEF keys
<1>6. \A S : Map!Abstract!Cardinality(S) = Cardinality(S)
  BY DEF Map!Abstract!Cardinality, Cardinality
<1> QED BY <1>1, <1>4, <1>5, <1>6 DEF Map!Abstract!Total

LEMMA CutOfNone ==
  ASSUME MapIInv, NEW first \in 1 .. Len(pairs) + 1, NEW last \in first .. Len(pairs) + 1,
         Map!Cut(first, last), NEW k \in MapKeys,
         first = last \/ Map!UpperBound(k) <= first \/ last <= Map!LowerBound(k)
  PROVE  Map!store'[k] = Map!store[k]
<1>1. PICK low, high : low = Map!LowerBound(k) /\ high = Map!UpperBound(k) OBVIOUS
<1>2. /\ low \in 1 .. Len(pairs) + 1 /\ high \in low .. Len(pairs) + 1
      /\ Map!store[k] \in Seq(Values)
  BY <1>1, KeyFound
<1>3. PICK m \in Int : m = Front(first, low, high) /\ m + 1 = Back(last, low, high)
  BY <1>1, <1>2 DEF Front, Back, Within
<1>4. m \in 0 .. Len(Map!store[k]) /\ Map!store'[k] = Part(Map!store[k], m, m + 1)
  BY <1>1, <1>3, CutValues
<1> QED BY <1>2, <1>4, Glued

\* The range is of the pairs from one of the key low to one of the key high.
EraseOf(low, high, kept, till) ==
  /\ low <= high /\ (low = high => kept < till)
  /\ Map!store' = [k \in MapKeys |->
       IF k < low \/ high < k THEN Map!store[k]
       ELSE (IF k = low THEN SubSeq(Map!store[k], 1, kept) ELSE <<>>)
            \o (IF k = high THEN SubSeq(Map!store[k], till, Len(Map!store[k])) ELSE <<>>)]

LEMMA ErasesNone ==
  ASSUME MapIInv, NEW from \in 1 .. Len(pairs) + 1, Map!Cut(from, from)
  PROVE  \E low, high \in MapKeys :
           \E kept \in 0 .. Len(Map!store[low]), till \in 1 .. Len(Map!store[high]) + 1 :
             EraseOf(low, high, kept, till)
<1>1. PICK k \in MapKeys : TRUE BY ContainersAssumption
<1>2. k \in Int BY ContainersAssumption
<1>3. PICK s : s = Map!store[k] OBVIOUS
<1>4. s \in Seq(Values) BY <1>3, KeyFound
<1>5. PICK n \in Nat : n = Len(s) BY <1>4
<1>6. \A y \in MapKeys : Map!store'[y] = Map!store[y]
  <2>1. from \in from .. Len(pairs) + 1 OBVIOUS
  <2> QED BY <2>1, CutOfNone
<1>7. SubSeq(s, 1, n) \o SubSeq(s, n + 1, n) = s
  <2>1. n \in 0 .. Len(s) BY <1>5
  <2>2. Part(s, n, n + 1) = s BY <1>4, <2>1, Glued
  <2> QED BY <1>5, <2>2 DEF Part
<1>8. Map!store' = [y \in MapKeys |-> Map!store'[y]] BY StoreIs
<1>9. \A y \in MapKeys : y \in Int /\ (~(y < k \/ k < y) => y = k)
  BY <1>2, ContainersAssumption
<1>10. EraseOf(k, k, n, n + 1)
  <2>1. ASSUME NEW y \in MapKeys
        PROVE  Map!store'[y] =
                 IF y < k \/ k < y THEN Map!store[y]
                 ELSE (IF y = k THEN SubSeq(Map!store[y], 1, n) ELSE <<>>)
                      \o (IF y = k THEN SubSeq(Map!store[y], n + 1, Len(Map!store[y])) ELSE <<>>)
    BY <1>3, <1>5, <1>6, <1>7, <1>9
  <2>2. Map!store' =
          [y \in MapKeys |->
             IF y < k \/ k < y THEN Map!store[y]
             ELSE (IF y = k THEN SubSeq(Map!store[y], 1, n) ELSE <<>>)
                  \o (IF y = k THEN SubSeq(Map!store[y], n + 1, Len(Map!store[y])) ELSE <<>>)]
    BY <1>8, <2>1, Zenon
  <2>3. k <= k /\ n < n + 1 BY <1>2
  <2> QED BY <2>2, <2>3, Zenon DEF EraseOf
<1>11. n \in 0 .. Len(Map!store[k]) /\ n + 1 \in 1 .. Len(Map!store[k]) + 1 BY <1>3, <1>5
<1> QED BY <1>10, <1>11

LEMMA ErasesSome ==
  ASSUME MapIInv, NEW from \in 1 .. Len(pairs), NEW last \in from .. Len(pairs),
         Map!Cut(from, last + 1)
  PROVE  \E low, high \in MapKeys :
           \E kept \in 0 .. Len(Map!store[low]), till \in 1 .. Len(Map!store[high]) + 1 :
             EraseOf(low, high, kept, till)
<1> DEFINE n == Len(pairs)
<1>1. /\ n \in Nat /\ pairs \in Seq(Map!Pairs)
      /\ \A i \in 1..n : Map!key(i) \in Int /\ Map!key(i) \in MapKeys
  <2>1. \A i \in 1..n : pairs[i] \in Map!Pairs BY MapFacts
  <2> QED BY <2>1, MapFacts, PairFacts DEF Map!key
<1>2. PICK low, high \in MapKeys : low = Map!key(from) /\ high = Map!key(last)
  BY <1>1
<1>3. low \in Int /\ high \in Int BY ContainersAssumption
<1>4. \A y \in MapKeys :
        /\ y \in Int
        /\ Map!LowerBound(y) \in 1 .. n + 1 /\ Map!UpperBound(y) \in Map!LowerBound(y) .. n + 1
        /\ low < y <=> from < Map!LowerBound(y)
        /\ low <= y <=> from < Map!UpperBound(y)
        /\ high < y <=> last < Map!LowerBound(y)
        /\ high <= y <=> last < Map!UpperBound(y)
  <2> SUFFICES ASSUME NEW y \in MapKeys
      PROVE  /\ y \in Int
             /\ Map!LowerBound(y) \in 1 .. n + 1
             /\ Map!UpperBound(y) \in Map!LowerBound(y) .. n + 1
             /\ low < y <=> from < Map!LowerBound(y)
             /\ low <= y <=> from < Map!UpperBound(y)
             /\ high < y <=> last < Map!LowerBound(y)
             /\ high <= y <=> last < Map!UpperBound(y)
    OBVIOUS
  <2>1. from \in 1..n /\ last \in 1..n OBVIOUS
  <2> QED BY <1>2, <2>1, KeyFound, MapBounds, ContainersAssumption
<1>5. low <= high
  <2>3. from < Map!UpperBound(high)
    <3>1. last < Map!UpperBound(high) BY <1>3, <1>4
    <3>2. Map!UpperBound(high) \in Int BY <1>4
    <3> QED BY <3>1, <3>2
  <2> QED BY <1>4, <2>3
<1>6. PICK kept : kept = from - Map!LowerBound(low) OBVIOUS
<1>7. PICK till : till = last + 1 - Map!LowerBound(high) + 1 OBVIOUS
<1>8. /\ kept \in 0 .. Len(Map!store[low]) /\ till \in 1 .. Len(Map!store[high]) + 1
      /\ low = high => kept < till
  <2>1. PICK a, b : a = Map!LowerBound(low) /\ b = Map!UpperBound(low) OBVIOUS
  <2>2. PICK c, d : c = Map!LowerBound(high) /\ d = Map!UpperBound(high) OBVIOUS
  <2>3. /\ a \in 1 .. n + 1 /\ b \in a .. n + 1 /\ a <= from /\ from < b
        /\ c \in 1 .. n + 1 /\ d \in c .. n + 1 /\ c <= last /\ last < d
    <3>1. a \in 1 .. n + 1 /\ b \in a .. n + 1 /\ ~(from < a) /\ from < b
      BY <1>3, <1>4, <2>1
    <3>2. c \in 1 .. n + 1 /\ d \in c .. n + 1 /\ ~(last < c) /\ last < d
      BY <1>3, <1>4, <2>2
    <3> QED BY <3>1, <3>2
  <2>4. Len(Map!store[low]) = b - a /\ Len(Map!store[high]) = d - c BY <2>1, <2>2, KeyFound
  <2>7. from \in Int /\ last \in Int /\ from <= last BY <1>1
  <2>8. kept = from - a /\ till = last + 1 - c + 1 BY <1>6, <1>7, <2>1, <2>2
  <2>9. a \in Int /\ b \in Int /\ a <= from /\ from < b BY <1>1, <2>3
  <2>10. c \in Int /\ d \in Int /\ c <= last /\ last < d BY <1>1, <2>3
  <2>5. kept \in 0 .. b - a /\ till \in 1 .. (d - c) + 1
    <3>1. kept \in 0 .. b - a BY <2>7, <2>8, <2>9
    <3>2. till \in 1 .. (d - c) + 1 BY <2>7, <2>8, <2>10
    <3> QED BY <3>1, <3>2
  <2>6. low = high => kept < till
    <3>1. low = high => a = c BY <2>1, <2>2
    <3> QED BY <2>7, <2>8, <2>9, <3>1
  <2> QED BY <2>4, <2>5, <2>6
<1>9. ASSUME NEW y \in MapKeys
      PROVE  Map!store'[y] =
               IF y < low \/ high < y THEN Map!store[y]
               ELSE (IF y = low THEN SubSeq(Map!store[y], 1, kept) ELSE <<>>)
                    \o (IF y = high THEN SubSeq(Map!store[y], till, Len(Map!store[y])) ELSE <<>>)
  <2>1. PICK c, d : c = Map!LowerBound(y) /\ d = Map!UpperBound(y) OBVIOUS
  <2>2. /\ c \in 1 .. n + 1 /\ d \in c .. n + 1 /\ y \in Int
        /\ (low < y <=> from < c) /\ (low <= y <=> from < d)
        /\ (high < y <=> last < c) /\ (high <= y <=> last < d)
    BY <1>4, <2>1
  <2>3. PICK s : s = Map!store[y] OBVIOUS
  <2>4. s \in Seq(Values) /\ Len(s) = d - c BY <2>1, <2>3, KeyFound
  <2>5. from \in 1 .. Len(pairs) + 1 /\ last + 1 \in from .. Len(pairs) + 1 BY <1>1
  <2>6. CASE y < low \/ high < y
    <3>1. d <= from \/ last + 1 <= c BY <1>3, <2>2, <2>6
    <3> QED BY <2>1, <2>5, <2>6, <3>1, CutOfNone
  <2>7. CASE ~(y < low \/ high < y)
    <3>1. PICK p : p = Front(from, c, d) OBVIOUS
    <3>2. PICK q : q = Back(last + 1, c, d) OBVIOUS
    <3>3. Map!store'[y] = Part(s, p, q) BY <2>1, <2>3, <2>5, <3>1, <3>2, CutValues
    <3>4. SubSeq(s, 1, p) = IF y = low THEN SubSeq(s, 1, kept) ELSE <<>>
      <4>1. CASE y = low
        <5>1. ~(from < c) /\ from < d BY <1>3, <2>2, <4>1
        <5>2. kept = from - c BY <1>6, <2>1, <4>1
        <5>3. p = kept BY <2>2, <3>1, <5>1, <5>2 DEF Front, Within
        <5> QED BY <4>1, <5>3
      <4>2. CASE y # low
        <5>1. from < c BY <1>3, <2>2, <2>7, <4>2
        <5>2. p = 0 BY <2>2, <3>1, <5>1 DEF Front, Within
        <5> QED BY <4>2, <5>2, SubSeqEmpty
      <4> QED BY <4>1, <4>2
    <3>5. SubSeq(s, q, Len(s)) = IF y = high THEN SubSeq(s, till, Len(s)) ELSE <<>>
      <4>1. CASE y = high
        <5>1. ~(last < c) /\ last < d BY <1>3, <2>2, <4>1
        <5>2. till = last + 1 - c + 1 BY <1>7, <2>1, <4>1
        <5>3. q = till BY <2>2, <3>2, <5>1, <5>2 DEF Back, Within
        <5> QED BY <4>1, <5>3
      <4>2. CASE y # high
        <5>1. ~(last < d) BY <1>3, <2>2, <2>7, <4>2
        <5>2. q = (d - c) + 1 BY <2>2, <3>2, <5>1 DEF Back, Within
        <5>3. q \in Int /\ Len(s) \in Int /\ Len(s) < q BY <2>2, <2>4, <5>2
        <5> QED BY <4>2, <5>3, SubSeqEmpty
      <4> QED BY <4>1, <4>2
    <3> QED BY <2>3, <2>7, <3>3, <3>4, <3>5 DEF Part
  <2> QED BY <2>6, <2>7
<1>10. Map!store' = [y \in MapKeys |-> Map!store'[y]] BY StoreIs
<1>11. EraseOf(low, high, kept, till) BY <1>5, <1>8, <1>9, <1>10 DEF EraseOf
<1> QED BY <1>8, <1>11

LEMMA MapEraseIsAbstract ==
  ASSUME MapIInv, NEW from \in 1 .. Map!size + 1, NEW till \in 1 .. Map!size + 1,
         Map!erase(from, till)
  PROVE  Map!Abstract!erase
<1>1. /\ from \in 1 .. Len(pairs) + 1 /\ till \in from .. Len(pairs) + 1 /\ Len(pairs) \in Nat
      /\ Map!Cut(from, till) /\ mapReturned' = till - from
  BY MapFacts DEF Map!erase, Map!Result
<1>2. \E low, high \in MapKeys :
        \E kept \in 0 .. Len(Map!store[low]), upTo \in 1 .. Len(Map!store[high]) + 1 :
          EraseOf(low, high, kept, upTo)
  <2>1. CASE from = till BY <1>1, <2>1, ErasesNone
  <2>2. CASE from # till
    <3>1. PICK last \in from .. Len(pairs) : till = last + 1
      <4>1. till - 1 \in from .. Len(pairs) /\ till = (till - 1) + 1 BY <1>1, <2>2
      <4> QED BY <4>1
    <3>2. from \in 1 .. Len(pairs) BY <1>1, <3>1
    <3> QED BY <1>1, <3>1, <3>2, ErasesSome
  <2> QED BY <2>1, <2>2
<1>3. mapReturned' = Map!Abstract!Total(Map!store) - Map!Abstract!Total(Map!store')
  <2>1. Map!Abstract!Total(Map!store) = Len(pairs) BY MapFacts, StoreIs, StoreTotal
  <2>2. pairs' \in Seq(Map!Pairs) /\ Ordered(KeysOf(pairs'), Gap(mapUnique'))
        /\ Gap(mapUnique') \in 0..1
    BY MapErases, MapFacts DEF MapStays
  <2>3. Map!Abstract!Total(Map!store') = Len(pairs')
    BY <2>2, StoreIs, StoreTotal
  <2>4. Len(pairs') = Len(pairs) - (till - from)
    <3>1. pairs' = CutOut(pairs, from, till) BY <1>1, MapFacts DEF Map!Cut, CutOut
    <3>2. pairs \in Seq(Map!Pairs) BY MapFacts
    <3> QED BY <1>1, <3>1, <3>2, CutFacts
  <2> QED BY <1>1, <2>1, <2>3, <2>4
<1>4. mapUnique' = mapUnique BY <1>1 DEF Map!Cut
<1> QED BY <1>2, <1>3, <1>4 DEF Map!Abstract!erase, EraseOf

LEMMA MapImplements == MapIInv => Map!Implements
<1> SUFFICES ASSUME MapIInv PROVE Map!Implements OBVIOUS
<1>1. ASSUME NEW k \in MapKeys, NEW v \in Values
      PROVE  /\ Map!insert(Map!Pair(k, v)) \/ Map!insertUnique(Map!Pair(k, v))
                  => Map!Abstract!insert(k, v)
             /\ Map!insert_or_assign(Map!Pair(k, v)) => Map!Abstract!insert_or_assign(k, v)
             /\ Map!remove(k, v) => Map!Abstract!remove(k, v)
             /\ \A i \in 1 .. Map!size : Map!key(i) = k /\ Map!Assign(i, v)
                  => Map!Abstract!Assign(k, i + 1 - Map!LowerBound(k), v)
  BY InsertsAreAbstract, MapRemoveIsAbstract, AssignIsAbstract
<1>2. ASSUME NEW k \in MapKeys
      PROVE  /\ Map!subscript(k) => Map!Abstract!subscript(k)
             /\ Map!removeOne(k) => Map!Abstract!removeOne(k)
             /\ Map!removeAll(k) => Map!Abstract!removeAll(k)
             /\ Map!take(k)      => Map!Abstract!take(k)
             /\ Map!find(k)      => Map!Abstract!find(k)
             /\ Map!count(k)     => Map!Abstract!count(k)
  BY SubscriptIsAbstract, MapRemovesAreAbstract, MapFindsAreAbstract
<1>3. \A from, till \in 1 .. Map!size + 1 : Map!erase(from, till) => Map!Abstract!erase
  BY MapEraseIsAbstract
<1> QED BY <1>1, <1>2, <1>3 DEF Map!Implements
=============================================================================
