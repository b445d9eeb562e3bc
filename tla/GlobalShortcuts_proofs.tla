----------------------- MODULE GlobalShortcuts_proofs -----------------------
(***************************************************************************)
(* For any keys, shortcuts and limits: what process() asserts holds in     *)
(* whatever order keys, callbacks and the application's calls come, and    *)
(* with the callers' care the pressed shortcuts are those told so and are  *)
(* held down.  The X11 hook that feeds it tells of keys what is so, and    *)
(* the connection to the X server serves all that share it.                *)
(***************************************************************************)
EXTENDS MCGlobalShortcuts, SequenceTheorems, FiniteSetTheorems, TLAPS

-----------------------------------------------------------------------------
(* Lists: _watchlist, _pressed and _recordingDown *)

\* Distinct() says that no element is at two places.
LEMMA DistinctPlaces ==
  ASSUME NEW S, NEW q \in Seq(S)
  PROVE  /\ IsFiniteSet(ToSet(q)) /\ Cardinality(ToSet(q)) \in Nat
         /\ Cardinality(ToSet(q)) <= Len(q)
         /\ Distinct(q) <=> \A i, j \in 1 .. Len(q) : q[i] = q[j] => i = j
<1>1. Len(q) \in Nat /\ DOMAIN q = 1 .. Len(q) BY LenProperties
<1>2. q \in Surjection(1 .. Len(q), ToSet(q)) BY <1>1 DEF Surjection, ToSet
<1>3. IsFiniteSet(1 .. Len(q)) /\ Cardinality(1 .. Len(q)) = Len(q)
  BY <1>1, FS_Interval
<1>4. /\ IsFiniteSet(ToSet(q)) /\ Cardinality(ToSet(q)) <= Len(q)
      /\ Cardinality(ToSet(q)) = Len(q) <=> q \in Injection(1 .. Len(q), ToSet(q))
  BY <1>2, <1>3, FS_Surjection
<1>5. q \in Injection(1 .. Len(q), ToSet(q))
        <=> \A i, j \in 1 .. Len(q) : q[i] = q[j] => i = j
  BY <1>2 DEF Injection, Surjection, IsInjective
<1> QED BY <1>4, <1>5, FS_CardinalityType DEF Distinct

\* Each place of a set of places has a rank of its own, and all ranks are taken.
LEMMA Ranks ==
  ASSUME NEW m \in Nat, NEW P, P \subseteq 1 .. m
  PROVE  LET rank(i) == Cardinality({j \in P : j <= i})
         IN  /\ IsFiniteSet(P) /\ Cardinality(P) \in 0 .. m
             /\ \A i \in P : rank(i) \in 1 .. Cardinality(P)
             /\ \A i, k \in P : rank(i) = rank(k) => i = k
             /\ \A n \in 1 .. Cardinality(P) : \E i \in P : rank(i) = n
<1> DEFINE Upto(i) == {j \in P : j <= i}
           rank == [i \in P |-> Cardinality(Upto(i))]
<1>0. IsFiniteSet(1 .. m) /\ Cardinality(1 .. m) = m BY FS_Interval
<1>1. /\ IsFiniteSet(P) /\ Cardinality(P) \in Nat /\ Cardinality(P) <= m
  <2>1. IsFiniteSet(P) /\ Cardinality(P) <= m BY <1>0, FS_Subset
  <2> QED BY <2>1, FS_CardinalityType
<1>2. \A i : Upto(i) \subseteq P OBVIOUS
<1>3. \A i : /\ IsFiniteSet(Upto(i)) /\ Cardinality(Upto(i)) \in Nat
             /\ Cardinality(Upto(i)) <= Cardinality(P)
  <2> SUFFICES ASSUME NEW i PROVE /\ IsFiniteSet(Upto(i)) /\ Cardinality(Upto(i)) \in Nat
                                  /\ Cardinality(Upto(i)) <= Cardinality(P)
    OBVIOUS
  <2> HIDE DEF Upto
  <2> QED BY <1>1, <1>2, FS_Subset, FS_CardinalityType
<1>4. ASSUME NEW i \in P, NEW k \in P, i < k
      PROVE  Cardinality(Upto(i)) # Cardinality(Upto(k))
  <2>0. \A j \in P : j \in Int OBVIOUS
  <2>1. Upto(i) \subseteq Upto(k)
    <3>1. \A j \in P : j <= i => j <= k BY <1>4, <2>0
    <3> QED BY <3>1
  <2>2. k \in Upto(k) BY <2>0
  <2>3. k \notin Upto(i) BY <1>4, <2>0
  <2> HIDE DEF Upto
  <2> QED BY <2>1, <2>2, <2>3, <1>3, FS_Subset
<1>5. ASSUME NEW i \in P PROVE Cardinality(Upto(i)) # 0
  <2>1. i \in Upto(i) OBVIOUS
  <2> HIDE DEF Upto
  <2> QED BY <2>1, <1>3, FS_EmptySet
<1>6. rank \in [P -> 1 .. Cardinality(P)]
  <2> HIDE DEF Upto
  <2> QED BY <1>1, <1>3, <1>5
<1>7. \A i, k \in P : rank[i] = rank[k] => i = k
  <2> HIDE DEF Upto
  <2> QED BY <1>4
<1>8. rank \in Surjection(P, 1 .. Cardinality(P))
  <2>1. IsFiniteSet(1 .. Cardinality(P)) /\ Cardinality(1 .. Cardinality(P)) = Cardinality(P)
    BY <1>1, FS_Interval
  <2>2. rank \in Injection(P, 1 .. Cardinality(P))
    BY <1>6, <1>7 DEF Injection, IsInjective
  <2> HIDE DEF rank
  <2> QED BY <2>1, <2>2, FS_Injection
<1>9. \A n \in 1 .. Cardinality(P) : \E i \in P : rank[i] = n BY <1>8 DEF Surjection
<1>10. \A i \in P : rank[i] = Cardinality({j \in P : j <= i}) OBVIOUS
<1> HIDE DEF rank
<1> QED BY <1>1, <1>6, <1>7, <1>9, <1>10

\* Only() keeps the chosen elements, each as often as it was there.
LEMMA OnlyThose ==
  ASSUME NEW T, NEW q \in Seq(T), NEW S
  PROVE  /\ Only(q, S) \in Seq(T)
         /\ ToSet(Only(q, S)) = ToSet(q) \cap S
         /\ Len(Only(q, S)) <= Len(q) /\ Len(Only(q, S)) \in Nat
         /\ Distinct(q) => Distinct(Only(q, S))
<1> DEFINE P == {i \in DOMAIN q : q[i] \in S}
           c == Cardinality(P)
           rank(i) == Cardinality({j \in P : j <= i})
           nth(n) == CHOOSE i \in P : rank(i) = n
<1>1. Len(q) \in Nat /\ DOMAIN q = 1 .. Len(q) BY LenProperties
<1>2. /\ IsFiniteSet(P) /\ c \in 0 .. Len(q)
      /\ \A i \in P : rank(i) \in 1 .. c
      /\ \A i, k \in P : rank(i) = rank(k) => i = k
      /\ \A n \in 1 .. c : \E i \in P : rank(i) = n
  <2>1. P \subseteq 1 .. Len(q) BY <1>1
  <2> HIDE DEF P
  <2> QED BY <1>1, <2>1, Ranks
<1>3. Only(q, S) = [n \in 1 .. c |-> q[nth(n)]] BY DEF Only
<1>p. \A i : i \in P <=> i \in 1 .. Len(q) /\ q[i] \in S BY <1>1
<1> HIDE DEF P, c, rank
<1>4. \A n \in 1 .. c : nth(n) \in P /\ rank(nth(n)) = n BY <1>2
<1>5. \A i \in P : rank(i) \in 1 .. c /\ nth(rank(i)) = i BY <1>2, <1>4
<1> HIDE DEF nth
<1>6. \A i \in 1 .. Len(q) : q[i] \in T BY ElementOfSeq
<1>7. Only(q, S) \in Seq(T) /\ Len(Only(q, S)) = c
  <2>1. \A n \in 1 .. c : q[nth(n)] \in T BY <1>4, <1>p, <1>6
  <2> QED BY <2>1, <1>2, <1>3
<1>8. ToSet(Only(q, S)) = {q[nth(n)] : n \in 1 .. c} BY <1>3 DEF ToSet
<1>9. ToSet(Only(q, S)) = ToSet(q) \cap S
  <2>1. ASSUME NEW x \in ToSet(Only(q, S)) PROVE x \in ToSet(q) \cap S
    BY <1>8, <1>4, <1>p, <1>1 DEF ToSet
  <2>2. ASSUME NEW x \in ToSet(q) \cap S PROVE x \in ToSet(Only(q, S))
    <3>1. PICK i \in 1 .. Len(q) : x = q[i] BY <1>1 DEF ToSet
    <3> QED BY <3>1, <1>p, <1>5, <1>8
  <2> QED BY <2>1, <2>2
<1>10. Distinct(q) => Distinct(Only(q, S))
  <2> SUFFICES ASSUME Distinct(q) PROVE Distinct(Only(q, S)) OBVIOUS
  <2>1. \A i, j \in 1 .. Len(q) : q[i] = q[j] => i = j BY DistinctPlaces
  <2>2. \A n, k \in 1 .. c : q[nth(n)] = q[nth(k)] => n = k
    BY <2>1, <1>4, <1>p
  <2>3. \A n, k \in 1 .. c : Only(q, S)[n] = Only(q, S)[k] => n = k
    BY <2>2, <1>3
  <2> QED BY <2>3, <1>7, DistinctPlaces
<1> QED BY <1>2, <1>7, <1>9, <1>10

\* Elements put behind others.
LEMMA Joined ==
  ASSUME NEW T, NEW p \in Seq(T), NEW q \in Seq(T)
  PROVE  /\ p \o q \in Seq(T) /\ ToSet(p \o q) = ToSet(p) \cup ToSet(q)
         /\ Distinct(p) /\ Distinct(q) /\ ToSet(p) \cap ToSet(q) = {} => Distinct(p \o q)
<1>1. /\ p \o q \in Seq(T) /\ Len(p \o q) = Len(p) + Len(q)
      /\ Len(p) \in Nat /\ Len(q) \in Nat
      /\ \A i \in 1 .. Len(p) : (p \o q)[i] = p[i]
      /\ \A i \in 1 .. Len(q) : (p \o q)[Len(p) + i] = q[i]
      /\ DOMAIN p = 1 .. Len(p) /\ DOMAIN q = 1 .. Len(q)
      /\ DOMAIN (p \o q) = 1 .. Len(p) + Len(q)
  BY ConcatProperties, LenProperties
<1> DEFINE r == p \o q
<1> HIDE DEF r
<1>2. ASSUME NEW i \in 1 .. Len(p) + Len(q)
      PROVE  \/ i \in 1 .. Len(p) /\ r[i] = p[i]
             \/ i - Len(p) \in 1 .. Len(q) /\ r[i] = q[i - Len(p)]
  <2>1. CASE i <= Len(p) BY <1>1, <2>1 DEF r
  <2>2. CASE i > Len(p)
    <3>1. i - Len(p) \in 1 .. Len(q) /\ i = Len(p) + (i - Len(p)) BY <1>1, <2>2
    <3> QED BY <3>1, <1>1 DEF r
  <2> QED BY <1>1, <2>1, <2>2
<1>3. \A i \in 1 .. Len(p) : i \in 1 .. Len(p) + Len(q) /\ r[i] = p[i] BY <1>1 DEF r
<1>4. \A i \in 1 .. Len(q) : Len(p) + i \in 1 .. Len(p) + Len(q) /\ r[Len(p) + i] = q[i]
  BY <1>1 DEF r
<1>5. ToSet(r) = ToSet(p) \cup ToSet(q)
  <2>1. ASSUME NEW x \in ToSet(r) PROVE x \in ToSet(p) \cup ToSet(q)
    <3>1. PICK i \in 1 .. Len(p) + Len(q) : x = r[i] BY <1>1 DEF ToSet, r
    <3>2. CASE i \in 1 .. Len(p) /\ r[i] = p[i]
      BY <3>1, <3>2, <1>1 DEF ToSet
    <3>3. CASE i - Len(p) \in 1 .. Len(q) /\ r[i] = q[i - Len(p)]
      <4>1. PICK k \in DOMAIN q : x = q[k] BY <3>1, <3>3, <1>1
      <4> QED BY <4>1 DEF ToSet
    <3> QED BY <1>2, <3>2, <3>3
  <2>0. DOMAIN r = 1 .. Len(p) + Len(q) BY <1>1 DEF r
  <2>2. ToSet(p) \subseteq ToSet(r) BY <1>1, <1>3, <2>0 DEF ToSet
  <2>3. ASSUME NEW x \in ToSet(q) PROVE x \in ToSet(r)
    <3>1. PICK k \in 1 .. Len(q) : x = q[k] BY <1>1 DEF ToSet
    <3>2. Len(p) + k \in DOMAIN r /\ r[Len(p) + k] = x BY <1>4, <2>0, <3>1
    <3> QED BY <3>2 DEF ToSet
  <2> QED BY <2>1, <2>2, <2>3
<1>6. ASSUME Distinct(p), Distinct(q), ToSet(p) \cap ToSet(q) = {} PROVE Distinct(r)
  <2>1. /\ \A i, j \in 1 .. Len(p) : p[i] = p[j] => i = j
        /\ \A i, j \in 1 .. Len(q) : q[i] = q[j] => i = j
    BY <1>6, DistinctPlaces
  <2>2. \A i \in 1 .. Len(p), j \in 1 .. Len(q) : p[i] # q[j]
    BY <1>6, <1>1 DEF ToSet
  <2>3. ASSUME NEW i \in 1 .. Len(p) + Len(q), NEW j \in 1 .. Len(p) + Len(q), r[i] = r[j]
        PROVE  i = j
    <3> DEFINE First(k) == k \in 1 .. Len(p) /\ r[k] = p[k]
               Second(k) == k - Len(p) \in 1 .. Len(q) /\ r[k] = q[k - Len(p)]
    <3>1. \A k \in 1 .. Len(p) + Len(q) : First(k) \/ Second(k)
      BY <1>2
    <3>2. CASE First(i) /\ First(j)
      BY <2>1, <2>3, <3>2
    <3>3. CASE Second(i) /\ Second(j)
      <4>1. i - Len(p) = j - Len(p) BY <2>1, <2>3, <3>3
      <4> QED BY <4>1, <1>1
    <3>4. ~(First(i) /\ Second(j)) /\ ~(Second(i) /\ First(j))
      BY <2>2, <2>3
    <3> QED BY <3>1, <3>2, <3>3, <3>4
  <2> QED BY <2>3, <1>1, DistinctPlaces DEF r
<1> QED BY <1>1, <1>5, <1>6 DEF r

\* One element put behind others.
LEMMA Added ==
  ASSUME NEW T, NEW p \in Seq(T), NEW x \in T
  PROVE  /\ Append(p, x) \in Seq(T) /\ ToSet(Append(p, x)) = ToSet(p) \cup {x}
         /\ Len(Append(p, x)) = Len(p) + 1
         /\ Distinct(p) /\ x \notin ToSet(p) => Distinct(Append(p, x))
<1>1. /\ <<x>> \in Seq(T) /\ Append(p, x) = p \o <<x>> /\ Len(Append(p, x)) = Len(p) + 1
  BY AppendIsConcat, AppendProperties
<1>2. ToSet(<<x>>) = {x} BY DEF ToSet
<1>3. Distinct(<<x>>) BY <1>2, FS_Singleton DEF Distinct
<1>4. x \notin ToSet(p) => ToSet(p) \cap ToSet(<<x>>) = {} BY <1>2
<1>5. /\ p \o <<x>> \in Seq(T) /\ ToSet(p \o <<x>>) = ToSet(p) \cup ToSet(<<x>>)
      /\ Distinct(p) /\ Distinct(<<x>>) /\ ToSet(p) \cap ToSet(<<x>>) = {}
           => Distinct(p \o <<x>>)
  BY <1>1, Joined
<1> QED BY <1>1, <1>2, <1>3, <1>4, <1>5

\* erase(find(_pressed, shortcut), end(_pressed)) leaves what was before it.
LEMMA LeftBefore ==
  ASSUME NEW T, NEW q \in Seq(T), Distinct(q), NEW s
  PROVE  /\ BeforeIn(s, q) \in Seq(T) /\ Distinct(BeforeIn(s, q))
         /\ ToSet(BeforeIn(s, q)) \subseteq ToSet(q) \ {s}
         /\ s \notin ToSet(q) \/ s = Last(q) => ToSet(BeforeIn(s, q)) = ToSet(q) \ {s}
<1>1. /\ Len(q) \in Nat /\ DOMAIN q = 1 .. Len(q)
      /\ \A i, j \in 1 .. Len(q) : q[i] = q[j] => i = j
      /\ \A i \in 1 .. Len(q) : q[i] \in T
  BY LenProperties, ElementOfSeq, DistinctPlaces
<1>2. CASE s \notin ToSet(q) BY <1>2 DEF BeforeIn
<1>3. CASE s \in ToSet(q)
  <2> DEFINE k == CHOOSE i \in DOMAIN q : q[i] = s
             r == SubSeq(q, 1, k - 1)
  <2>1. k \in 1 .. Len(q) /\ q[k] = s BY <1>1, <1>3 DEF ToSet
  <2>2. BeforeIn(s, q) = r BY <1>3 DEF BeforeIn
  <2> HIDE DEF k
  <2>3. /\ Len(r) = k - 1 /\ \A i \in 1 .. k - 1 : r[i] = q[i]
        /\ DOMAIN r = 1 .. k - 1 /\ r \in Seq(T)
    BY <1>1, <2>1
  <2> HIDE DEF r
  <2>4. \A i \in 1 .. k - 1 : i \in 1 .. Len(q) /\ i # k BY <1>1, <2>1
  <2>5. Distinct(r) BY <1>1, <2>3, <2>4, DistinctPlaces
  <2>6. ToSet(r) \subseteq ToSet(q) \ {s} BY <1>1, <2>1, <2>3, <2>4 DEF ToSet
  <2>7. ASSUME s = Last(q) PROVE ToSet(q) \ {s} \subseteq ToSet(r)
    <3>1. k = Len(q)
      <4>1. Len(q) \in 1 .. Len(q) /\ q[Len(q)] = s BY <2>1, <2>7, <1>1 DEF Last
      <4> QED BY <4>1, <2>1, <1>1
    <3>2. ASSUME NEW i \in 1 .. Len(q), q[i] # s PROVE i \in 1 .. k - 1
      <4>1. i # k BY <3>2, <2>1
      <4> QED BY <4>1, <3>1, <1>1
    <3>3. ASSUME NEW x \in ToSet(q) \ {s} PROVE x \in ToSet(r)
      <4>1. PICK i \in 1 .. Len(q) : x = q[i] BY <1>1 DEF ToSet
      <4>2. i \in 1 .. k - 1 BY <3>2, <3>3, <4>1
      <4>3. r[i] = x /\ i \in DOMAIN r BY <2>3, <4>1, <4>2
      <4> QED BY <4>3 DEF ToSet
    <3> QED BY <3>3
  <2> QED BY <1>3, <2>2, <2>3, <2>5, <2>6, <2>7
<1> QED BY <1>2, <1>3

\* An empty list has no elements, and only it.
LEMMA NoElements ==
  ASSUME NEW T, NEW q \in Seq(T)
  PROVE  ToSet(q) = {} <=> q = <<>>
<1>1. Len(q) \in Nat /\ DOMAIN q = 1 .. Len(q) BY LenProperties
<1>2. ASSUME ToSet(q) = {} PROVE q = <<>>
  <2> SUFFICES ASSUME q # <<>> PROVE FALSE OBVIOUS
  <2>1. Len(q) \in Nat \ {0} BY EmptySeq
  <2>2. q[1] \in ToSet(q) BY <1>1, <2>1 DEF ToSet
  <2> QED BY <1>2, <2>2
<1>3. ToSet(<<>>) = {} BY DEF ToSet
<1> QED BY <1>2, <1>3

-----------------------------------------------------------------------------
(* The inductive invariant *)

\* The shortcuts that the scheduled callbacks will still be told v of.
Pending(v) == {calls[i].shortcut : i \in {j \in DOMAIN calls : calls[j].down = v}}

\* One event schedules callbacks of one kind.
OneKind == Pending(TRUE) = {} \/ Pending(FALSE) = {}

\* With the callers' care, and the callbacks that are still to run: the pressed
\* shortcuts are those told so, their keys are down, and none is pressed while
\* a shortcut is recorded.
ToldIsPressed ==
  careful => ToSet(pressed) = (told \cup Pending(TRUE)) \ Pending(FALSE)
AllDown == careful => \A s \in ToSet(pressed) : ToSet(KeysOf[s]) \subseteq down
RecordsAlone == careful /\ recording => pressed = <<>> /\ calls = <<>>

\* What is recorded and has not come up is down.
RecordedDown == ToSet(recordingDown) \ recordingUp \subseteq seen

IInv ==
  /\ TypeOK /\ PressedAreWatched /\ RecordingSound /\ OneKind /\ ToldIsPressed
  /\ AllDown /\ RecordsAlone /\ RecordedDown

\* The parts of the invariant that look at the callbacks.
LEMMA NoCalls ==
  ASSUME calls = <<>>
  PROVE  \A v : Pending(v) = {}
BY DEF Pending

\* The callbacks scheduled for a list of shortcuts.
LEMMA Scheduled ==
  ASSUME NEW q \in Seq(Shortcuts), NEW v \in BOOLEAN, calls' = Calls(q, v)
  PROVE  /\ calls' \in Seq([shortcut : Shortcuts, down : BOOLEAN])
         /\ Pending(v)' = ToSet(q) /\ Pending(~v)' = {}
<1>1. Len(q) \in Nat /\ DOMAIN q = 1 .. Len(q) /\ \A i \in 1 .. Len(q) : q[i] \in Shortcuts
  BY LenProperties, ElementOfSeq
<1>2. /\ DOMAIN calls' = 1 .. Len(q)
      /\ \A i \in 1 .. Len(q) : calls'[i] = [shortcut |-> q[i], down |-> v]
  BY <1>1 DEF Calls
<1>3. calls' = [i \in 1 .. Len(q) |-> [shortcut |-> q[i], down |-> v]] BY <1>1 DEF Calls
<1>4. calls' \in Seq([shortcut : Shortcuts, down : BOOLEAN]) BY <1>1, <1>3
<1>5. Pending(v)' = {q[i] : i \in 1 .. Len(q)} BY <1>2 DEF Pending
<1>6. Pending(~v)' = {} BY <1>2 DEF Pending
<1> QED BY <1>1, <1>4, <1>5, <1>6 DEF ToSet

\* The callback that is run next is one of the pending, the others stay.
LEMMA OneCallLess ==
  ASSUME calls \in Seq([shortcut : Shortcuts, down : BOOLEAN]), calls # <<>>,
         calls' = Tail(calls)
  PROVE  /\ calls' \in Seq([shortcut : Shortcuts, down : BOOLEAN])
         /\ Head(calls) \in [shortcut : Shortcuts, down : BOOLEAN]
         /\ \A v : Pending(v) =
                     IF Head(calls).down = v THEN Pending(v)' \cup {Head(calls).shortcut}
                                             ELSE Pending(v)'
<1> DEFINE n == Len(calls)
           C == [shortcut : Shortcuts, down : BOOLEAN]
<1>0. calls \in Seq(C) OBVIOUS
<1> HIDE DEF C
<1>1. n \in Nat /\ n > 0 /\ DOMAIN calls = 1 .. n
  <2>1. Len(calls) \in Nat \ {0} BY <1>0, EmptySeq
  <2>2. DOMAIN calls = 1 .. Len(calls) BY <1>0, LenProperties
  <2> QED BY <2>1, <2>2
<1>2. /\ calls' \in Seq(C) /\ Len(calls') = n - 1
      /\ Head(calls) = calls[1] /\ Head(calls) \in C /\ DOMAIN calls' = 1 .. n - 1
      /\ \A i \in 1 .. n - 1 : calls'[i] = calls[i + 1]
  <2>1. /\ Head(calls) \in C /\ Tail(calls) \in Seq(C) /\ Len(Tail(calls)) = n - 1
        /\ \A i \in 1 .. Len(Tail(calls)) : Tail(calls)[i] = calls[i + 1]
    BY <1>0, HeadTailProperties
  <2>2. DOMAIN Tail(calls) = 1 .. n - 1 BY <2>1, LenProperties
  <2>3. Head(calls) = calls[1] BY <1>0
  <2> QED BY <2>1, <2>2, <2>3
<1> HIDE DEF n
<1>3. ASSUME NEW v, NEW s
      PROVE  s \in Pending(v) <=> \/ s \in Pending(v)'
                                  \/ Head(calls).down = v /\ Head(calls).shortcut = s
  <2>1. s \in Pending(v) <=> \E i \in 1 .. n : calls[i].down = v /\ calls[i].shortcut = s
    BY <1>1 DEF Pending
  <2>2. s \in Pending(v)'
          <=> \E i \in 1 .. n - 1 : calls[i + 1].down = v /\ calls[i + 1].shortcut = s
    <3>1. s \in Pending(v)'
            <=> \E i \in DOMAIN calls' : calls'[i].down = v /\ calls'[i].shortcut = s
      BY DEF Pending
    <3> QED BY <3>1, <1>2
  <2>3. \A i \in 1 .. n : i = 1 \/ (i - 1 \in 1 .. n - 1 /\ (i - 1) + 1 = i) BY <1>1
  <2>4. 1 \in 1 .. n /\ \A i \in 1 .. n - 1 : i + 1 \in 1 .. n BY <1>1
  <2> QED BY <2>1, <2>2, <2>3, <2>4, <1>2
<1>4. \A v : Pending(v) = IF Head(calls).down = v
                            THEN Pending(v)' \cup {Head(calls).shortcut} ELSE Pending(v)'
  <2> TAKE v
  <2>1. \A s : s \in Pending(v) <=> \/ s \in Pending(v)'
                                    \/ Head(calls).down = v /\ Head(calls).shortcut = s
    BY <1>3
  <2> QED BY <2>1
<1> USE DEF C
<1>5. /\ calls' \in Seq([shortcut : Shortcuts, down : BOOLEAN])
      /\ Head(calls) \in [shortcut : Shortcuts, down : BOOLEAN]
  BY <1>2
<1> QED BY <1>4, <1>5

-----------------------------------------------------------------------------
(* The initial state and the steps *)

LEMMA InitIInv ==
  ASSUME Init PROVE IInv
<1> USE DEF Init
<1>1. Distinct(<<>>)
  <2>1. ToSet(<<>>) = {} /\ Len(<<>>) = 0 BY DEF ToSet
  <2> QED BY <2>1, FS_EmptySet DEF Distinct
<1>2. TypeOK
  <2>1. /\ queue \in Seq([key : Keys, down : BOOLEAN])
        /\ calls \in Seq([shortcut : Shortcuts, down : BOOLEAN])
        /\ watchlist \in Seq(Shortcuts) /\ pressed \in Seq(Shortcuts)
        /\ recordingDown \in Seq(Keys)
    BY EmptySeq
  <2>2. events \in 0..MaxEvents BY ConstantsAssumption
  <2>3. /\ held \subseteq Keys /\ down \subseteq Keys /\ seen \subseteq Keys
        /\ chord \subseteq Keys /\ told \subseteq Shortcuts /\ recordingUp \subseteq Keys
        /\ recording \in BOOLEAN /\ careful \in BOOLEAN
    OBVIOUS
  <2>4. Distinct(watchlist) /\ Distinct(pressed) BY <1>1
  <2> QED BY <2>1, <2>2, <2>3, <2>4 DEF TypeOK
<1>3. ToSet(pressed) = {} /\ ToSet(recordingDown) = {} BY DEF ToSet
<1>4. \A v : Pending(v) = {} BY NoCalls
<1>5. RecordingSound
  <2>1. Len(recordingDown) < ShortcutLimit
    <3>1. Len(recordingDown) = 0 OBVIOUS
    <3> QED BY <3>1, ConstantsAssumption
  <2> QED BY <1>1, <1>3, <2>1 DEF RecordingSound
<1> QED BY <1>2, <1>3, <1>4, <1>5
  DEF IInv, PressedAreWatched, OneKind, ToldIsPressed, AllDown, RecordsAlone, RecordedDown

\* What the next event says, and what taking it leaves alone.
LEMMA TakeKeepsTypes ==
  ASSUME TypeOK, NEW k \in Keys, NEW v \in BOOLEAN, Take(k, v)
  PROVE  /\ queue' \in Seq([key : Keys, down : BOOLEAN]) /\ seen' \subseteq Keys
         /\ UNCHANGED <<held, watchlist, events, told>>
<1> DEFINE E == [key : Keys, down : BOOLEAN]
<1>1. queue \in Seq(E) /\ queue # <<>> /\ queue' = Tail(queue) BY DEF TypeOK, Take
<1>2. queue' \in Seq(E)
  <2> HIDE DEF E
  <2> QED BY <1>1, HeadTailProperties
<1> QED BY <1>2 DEF TypeOK, Take

\* The user's keys reach only the queue.
LEMMA KeysKeepIInv ==
  ASSUME IInv, NEW k \in Keys, KeyDown(k) \/ KeyUp(k)
  PROVE  IInv'
<1> DEFINE E == [key : Keys, down : BOOLEAN]
<1>1. queue \in Seq(E) BY DEF IInv, TypeOK
<1>2. \A v \in BOOLEAN : Append(queue, [key |-> k, down |-> v]) \in Seq(E)
  <2> TAKE v \in BOOLEAN
  <2>1. [key |-> k, down |-> v] \in E OBVIOUS
  <2> HIDE DEF E
  <2> QED BY <1>1, <2>1, AppendProperties
<1>3. UNCHANGED <<managerVars, calls, told, seen, chord, careful>> BY DEF KeyDown, KeyUp
<1>4. queue' \in Seq(E)
  <2> HIDE DEF E
  <2> QED BY <1>2 DEF KeyDown, KeyUp
<1>5. held' \subseteq Keys /\ events' \in 0..MaxEvents
  <2>1. held \subseteq Keys /\ events \in 0..MaxEvents BY DEF IInv, TypeOK
  <2> QED BY <2>1, ConstantsAssumption DEF KeyDown, KeyUp
<1>6. TypeOK' BY <1>3, <1>4, <1>5 DEF IInv, TypeOK, managerVars
<1>7. Pending(TRUE)' = Pending(TRUE) /\ Pending(FALSE)' = Pending(FALSE)
  BY <1>3 DEF Pending
<1> QED BY <1>3, <1>6, <1>7
  DEF IInv, PressedAreWatched, RecordingSound, OneKind, ToldIsPressed, AllDown,
      RecordsAlone, RecordedDown, managerVars

\* A press: what it newly presses is watched, was not pressed, and is down.
LEMMA ProcessPressKeepsIInv ==
  ASSUME IInv, NEW k \in Keys, ProcessPress(k)
  PROVE  IInv'
<1> DEFINE new == NewlyPressed(down')
<1>1. /\ new \in Seq(Shortcuts) /\ Distinct(new)
      /\ ToSet(new) = ToSet(watchlist)
                        \cap {s \in Shortcuts : ~IsPressed(s) /\ Matches(s, down')}
  BY OnlyThose DEF NewlyPressed, IInv, TypeOK
<1>2. /\ calls = <<>> /\ ~recording /\ down' = down \cup {k}
      /\ pressed' = pressed \o new /\ calls' = Calls(new, TRUE)
      /\ UNCHANGED <<recording, recordingDown, recordingUp, chord, careful>>
  BY DEF ProcessPress, Take
<1>3. /\ queue' \in Seq([key : Keys, down : BOOLEAN]) /\ seen' \subseteq Keys
      /\ UNCHANGED <<held, watchlist, events, told>>
  BY TakeKeepsTypes DEF ProcessPress, IInv
<1> HIDE DEF new
<1>4. /\ calls' \in Seq([shortcut : Shortcuts, down : BOOLEAN])
      /\ Pending(TRUE)' = ToSet(new) /\ Pending(FALSE)' = {}
  BY <1>1, <1>2, Scheduled
<1>5. /\ pressed' \in Seq(Shortcuts) /\ ToSet(pressed') = ToSet(pressed) \cup ToSet(new)
      /\ Distinct(pressed')
  <2>1. ToSet(pressed) \cap ToSet(new) = {} BY <1>1 DEF IsPressed
  <2>2. pressed \in Seq(Shortcuts) /\ Distinct(pressed) BY DEF IInv, TypeOK
  <2>3. /\ pressed \o new \in Seq(Shortcuts)
        /\ ToSet(pressed \o new) = ToSet(pressed) \cup ToSet(new)
        /\ Distinct(pressed \o new)
    BY <1>1, <2>1, <2>2, Joined
  <2> QED BY <1>2, <2>3
<1>6. TypeOK' BY <1>2, <1>3, <1>4, <1>5 DEF IInv, TypeOK
<1>7. PressedAreWatched' BY <1>1, <1>3, <1>5 DEF IInv, PressedAreWatched
<1>8. RecordingSound' BY <1>2 DEF IInv, RecordingSound
<1>9. ToldIsPressed'
  <2>1. Pending(TRUE) = {} /\ Pending(FALSE) = {} BY <1>2, NoCalls
  <2> QED BY <1>2, <1>3, <1>4, <1>5, <2>1 DEF IInv, ToldIsPressed
<1>10. AllDown'
  <2>1. \A s \in ToSet(new) : ToSet(KeysOf[s]) \subseteq down' BY <1>1 DEF Matches
  <2> QED BY <1>2, <1>5, <2>1 DEF IInv, AllDown
<1>11. RecordsAlone' BY <1>2 DEF RecordsAlone
<1>12. RecordedDown'
  <2>1. ToSet(recordingDown) = {} BY <1>2 DEF IInv, RecordingSound, ToSet
  <2> QED BY <1>2, <2>1 DEF RecordedDown
<1> QED BY <1>4, <1>6, <1>7, <1>8, <1>9, <1>10, <1>11, <1>12 DEF IInv, OneKind

\* A release: the shortcuts with the key, all of them and no other, are told so.
LEMMA ProcessReleaseKeepsIInv ==
  ASSUME IInv, NEW k \in Keys, ProcessRelease(k)
  PROVE  IInv'
<1> DEFINE released == ReleasedBy(k)
<1>1. /\ released \in Seq(Shortcuts)
      /\ ToSet(released) = ToSet(pressed) \cap {s \in Shortcuts : k \in ToSet(KeysOf[s])}
  BY OnlyThose DEF ReleasedBy, IInv, TypeOK
<1>2. /\ calls = <<>> /\ ~recording /\ down' = down \ {k}
      /\ pressed' = Only(pressed, Shortcuts \ ToSet(released))
      /\ calls' = Calls(released, FALSE)
      /\ UNCHANGED <<recording, recordingDown, recordingUp, chord, careful>>
  BY DEF ProcessRelease, Take
<1>3. /\ queue' \in Seq([key : Keys, down : BOOLEAN]) /\ seen' \subseteq Keys
      /\ UNCHANGED <<held, watchlist, events, told>>
  BY TakeKeepsTypes DEF ProcessRelease, IInv
<1> HIDE DEF released
<1>4. /\ calls' \in Seq([shortcut : Shortcuts, down : BOOLEAN])
      /\ Pending(FALSE)' = ToSet(released) /\ Pending(TRUE)' = {}
  <2>1. Pending(~FALSE)' = {} /\ Pending(FALSE)' = ToSet(released)
        /\ calls' \in Seq([shortcut : Shortcuts, down : BOOLEAN])
    BY <1>1, <1>2, Scheduled
  <2> QED BY <2>1
<1>5. /\ pressed' \in Seq(Shortcuts) /\ Distinct(pressed')
      /\ ToSet(pressed') = ToSet(pressed) \cap (Shortcuts \ ToSet(released))
  BY <1>2, OnlyThose DEF IInv, TypeOK
<1>6. ToSet(pressed) \subseteq Shortcuts
  <2>1. pressed \in Seq(Shortcuts) BY DEF IInv, TypeOK
  <2> QED BY <2>1, LenProperties, ElementOfSeq DEF ToSet
<1>7. TypeOK' BY <1>2, <1>3, <1>4, <1>5 DEF IInv, TypeOK
<1>8. PressedAreWatched' BY <1>3, <1>5 DEF IInv, PressedAreWatched
<1>9. RecordingSound' BY <1>2 DEF IInv, RecordingSound
<1>10. ToldIsPressed'
  <2>1. Pending(TRUE) = {} /\ Pending(FALSE) = {} BY <1>2, NoCalls
  <2> QED BY <1>2, <1>3, <1>4, <1>5, <1>6, <2>1 DEF IInv, ToldIsPressed
<1>11. AllDown'
  <2>1. \A s \in ToSet(pressed') : k \notin ToSet(KeysOf[s]) BY <1>1, <1>5
  <2> QED BY <1>2, <1>5, <2>1 DEF IInv, AllDown
<1>12. RecordsAlone' BY <1>2 DEF RecordsAlone
<1>13. RecordedDown'
  <2>1. ToSet(recordingDown) = {} BY <1>2 DEF IInv, RecordingSound, ToSet
  <2> QED BY <1>2, <2>1 DEF RecordedDown
<1> QED BY <1>4, <1>7, <1>8, <1>9, <1>10, <1>11, <1>12, <1>13 DEF IInv, OneKind

\* A callback runs: what it is told is no longer pending.
LEMMA RunCallbackKeepsIInv ==
  ASSUME IInv, RunCallback
  PROVE  IInv'
<1>1. /\ calls # <<>> /\ calls' = Tail(calls)
      /\ told' = IF Head(calls).down THEN told \cup {Head(calls).shortcut}
                                     ELSE told \ {Head(calls).shortcut}
      /\ UNCHANGED <<held, queue, managerVars, events, seen, chord, careful>>
  BY DEF RunCallback
<1>2. /\ calls' \in Seq([shortcut : Shortcuts, down : BOOLEAN])
      /\ Head(calls).shortcut \in Shortcuts /\ Head(calls).down \in BOOLEAN
      /\ \A v : Pending(v) =
                  IF Head(calls).down = v THEN Pending(v)' \cup {Head(calls).shortcut}
                                          ELSE Pending(v)'
  BY <1>1, OneCallLess DEF IInv, TypeOK
<1>3. TypeOK' BY <1>1, <1>2 DEF IInv, TypeOK, managerVars
<1>4. /\ Head(calls).down =>
            /\ Pending(TRUE) = Pending(TRUE)' \cup {Head(calls).shortcut}
            /\ Pending(FALSE) = Pending(FALSE)'
      /\ ~Head(calls).down =>
            /\ Pending(FALSE) = Pending(FALSE)' \cup {Head(calls).shortcut}
            /\ Pending(TRUE) = Pending(TRUE)'
  BY <1>2
<1>5. OneKind' BY <1>2, <1>4 DEF IInv, OneKind
<1>6. ToldIsPressed'
  BY <1>1, <1>2, <1>4 DEF IInv, OneKind, ToldIsPressed, managerVars
<1>7. RecordsAlone' BY <1>1 DEF IInv, RecordsAlone, managerVars
<1> QED BY <1>1, <1>3, <1>5, <1>6, <1>7
  DEF IInv, PressedAreWatched, RecordingSound, AllDown, RecordedDown, managerVars

\* A press recorded: the keys that have come up are dropped, the key is added
\* when it is not there, and at kShortcutLimit keys the recording is finished.
LEMMA RecordPressKeepsIInv ==
  ASSUME IInv, NEW k \in Keys, RecordPress(k)
  PROVE  IInv'
<1> DEFINE still == StillDown(k)
           keys == IF k \in ToSet(still) THEN still ELSE Append(still, k)
<1>1. /\ recordingDown \in Seq(Keys) /\ Distinct(recordingDown)
      /\ Len(recordingDown) < ShortcutLimit /\ Len(recordingDown) \in Nat
      /\ ToSet(recordingDown) \ recordingUp \subseteq seen
  BY LenProperties DEF IInv, TypeOK, RecordingSound, RecordedDown
<1>2. /\ still \in Seq(Keys) /\ Distinct(still)
      /\ ToSet(still) = ToSet(recordingDown) \cap (Keys \ (recordingUp \ {k}))
      /\ Len(still) <= Len(recordingDown) /\ Len(still) \in Nat
  BY <1>1, OnlyThose DEF StillDown
<1>3. /\ recording /\ chord' = seen' /\ seen' = seen \cup {k}
      /\ \/ ResetRecording
         \/ /\ keys = recordingDown \/ Len(keys) # ShortcutLimit
            /\ recordingDown' = keys /\ recordingUp' = {} /\ recording' = recording
      /\ UNCHANGED <<down, pressed, calls, careful>>
  BY DEF RecordPress, Take
<1>4. /\ queue' \in Seq([key : Keys, down : BOOLEAN]) /\ seen' \subseteq Keys
      /\ UNCHANGED <<held, watchlist, events, told>>
  BY TakeKeepsTypes DEF RecordPress, IInv
<1> HIDE DEF still
<1>5. /\ keys \in Seq(Keys) /\ Distinct(keys) /\ ToSet(keys) = ToSet(still) \cup {k}
      /\ Len(keys) <= Len(still) + 1 /\ Len(keys) \in Nat
  <2>1. CASE k \in ToSet(still) BY <1>2, <2>1
  <2>2. CASE k \notin ToSet(still)
    <3>1. /\ Append(still, k) \in Seq(Keys) /\ Distinct(Append(still, k))
          /\ ToSet(Append(still, k)) = ToSet(still) \cup {k}
          /\ Len(Append(still, k)) = Len(still) + 1
      BY <1>2, <2>2, Added
    <3> QED BY <1>2, <2>2, <3>1
  <2> QED BY <2>1, <2>2
<1> HIDE DEF keys
<1>6. /\ recordingDown' \in Seq(Keys) /\ recordingUp' = {} /\ recording' \in BOOLEAN
      /\ Distinct(recordingDown') /\ Len(recordingDown') < ShortcutLimit
      /\ ToSet(recordingDown') \subseteq seen'
      /\ recordingDown' # <<>> => recording' /\ ToSet(recordingDown') # {}
  <2>1. CASE ResetRecording
    <3>1. /\ recordingDown' = <<>> /\ <<>> \in Seq(Keys) /\ Len(<<>>) = 0 /\ ToSet(<<>>) = {}
          /\ recordingUp' = {} /\ recording' = FALSE
      BY <2>1 DEF ResetRecording, ToSet
    <3>2. Distinct(<<>>) BY <3>1, FS_EmptySet DEF Distinct
    <3>3. 0 < ShortcutLimit BY ConstantsAssumption
    <3> QED BY <3>1, <3>2, <3>3
  <2>2. CASE /\ keys = recordingDown \/ Len(keys) # ShortcutLimit
             /\ recordingDown' = keys /\ recordingUp' = {} /\ recording' = recording
    <3>1. Len(keys) < ShortcutLimit BY <1>1, <1>2, <1>5, <2>2, ConstantsAssumption
    <3>2. ToSet(keys) \subseteq seen' BY <1>1, <1>2, <1>3, <1>5
    <3>3. recording' BY <1>3, <2>2
    <3> QED BY <1>3, <1>5, <2>2, <3>1, <3>2, <3>3
  <2> QED BY <1>3, <2>1, <2>2
<1>7. TypeOK' BY <1>3, <1>4, <1>6 DEF IInv, TypeOK
<1>8. PressedAreWatched' BY <1>3, <1>4 DEF IInv, PressedAreWatched
<1>9. RecordingSound' BY <1>3, <1>6 DEF RecordingSound
<1>10. Pending(TRUE)' = Pending(TRUE) /\ Pending(FALSE)' = Pending(FALSE)
  BY <1>3 DEF Pending
<1>11. OneKind' BY <1>10 DEF IInv, OneKind
<1>12. ToldIsPressed' BY <1>3, <1>4, <1>10 DEF IInv, ToldIsPressed
<1>13. AllDown' BY <1>3 DEF IInv, AllDown
<1>14. RecordsAlone' BY <1>3 DEF IInv, RecordsAlone
<1>15. RecordedDown' BY <1>6 DEF RecordedDown
<1> QED BY <1>7, <1>8, <1>9, <1>11, <1>12, <1>13, <1>14, <1>15 DEF IInv

\* A release recorded: when all keys have come up the recording is finished.
LEMMA RecordReleaseKeepsIInv ==
  ASSUME IInv, NEW k \in Keys, RecordRelease(k)
  PROVE  IInv'
<1> DEFINE up == recordingUp \cup {k}
<1>1. /\ recordingDown \in Seq(Keys) /\ Distinct(recordingDown)
      /\ recordingUp \subseteq ToSet(recordingDown) /\ recordingUp \subseteq Keys
      /\ Len(recordingDown) < ShortcutLimit /\ ToSet(recordingDown) \subseteq chord
      /\ recordingDown # <<>> => recordingUp # ToSet(recordingDown)
      /\ ToSet(recordingDown) \ recordingUp \subseteq seen
  BY DEF IInv, TypeOK, RecordingSound, RecordedDown
<1>2. /\ recording /\ seen' = seen \ {k} /\ down' = down \ {k}
      /\ \/ ResetRecording
         \/ /\ k \in ToSet(recordingDown) /\ Cardinality(up) # Len(recordingDown)
            /\ recordingUp' = up /\ UNCHANGED <<recording, recordingDown>>
         \/ /\ k \notin ToSet(recordingDown)
            /\ UNCHANGED <<recording, recordingDown, recordingUp>>
      /\ UNCHANGED <<pressed, calls, chord, careful>>
  BY DEF RecordRelease, Take
<1>3. /\ queue' \in Seq([key : Keys, down : BOOLEAN]) /\ seen' \subseteq Keys
      /\ UNCHANGED <<held, watchlist, events, told>>
  BY TakeKeepsTypes DEF RecordRelease, IInv
<1>4. /\ recordingDown' \in Seq(Keys) /\ recordingUp' \subseteq Keys /\ recording' \in BOOLEAN
      /\ recording' => recording
      /\ RecordingSound' /\ RecordedDown'
  <2>1. CASE ResetRecording
    <3>1. /\ recordingDown' = <<>> /\ <<>> \in Seq(Keys) /\ Len(<<>>) = 0 /\ ToSet(<<>>) = {}
          /\ recordingUp' = {} /\ recording' = FALSE
      BY <2>1 DEF ResetRecording, ToSet
    <3>2. Distinct(<<>>) BY <3>1, FS_EmptySet DEF Distinct
    <3>3. 0 < ShortcutLimit BY ConstantsAssumption
    <3> QED BY <3>1, <3>2, <3>3 DEF RecordingSound, RecordedDown
  <2>2. CASE /\ k \in ToSet(recordingDown) /\ Cardinality(up) # Len(recordingDown)
             /\ recordingUp' = up /\ UNCHANGED <<recording, recordingDown>>
    <3>1. up # ToSet(recordingDown) BY <1>1, <2>2 DEF Distinct
    <3>2. RecordingSound' BY <1>1, <1>2, <2>2, <3>1 DEF RecordingSound
    <3>3. RecordedDown' BY <1>1, <1>2, <2>2 DEF RecordedDown
    <3> QED BY <1>1, <1>2, <2>2, <3>2, <3>3
  <2>3. CASE /\ k \notin ToSet(recordingDown)
             /\ UNCHANGED <<recording, recordingDown, recordingUp>>
    <3>1. RecordingSound' BY <1>1, <1>2, <2>3 DEF RecordingSound
    <3>2. RecordedDown' BY <1>1, <1>2, <2>3 DEF RecordedDown
    <3> QED BY <1>1, <1>2, <2>3, <3>1, <3>2
  <2> QED BY <1>2, <2>1, <2>2, <2>3
<1>5. TypeOK' BY <1>2, <1>3, <1>4 DEF IInv, TypeOK
<1>6. PressedAreWatched' BY <1>2, <1>3 DEF IInv, PressedAreWatched
<1>7. Pending(TRUE)' = Pending(TRUE) /\ Pending(FALSE)' = Pending(FALSE)
  BY <1>2 DEF Pending
<1>8. OneKind' BY <1>7 DEF IInv, OneKind
<1>9. ToldIsPressed' BY <1>2, <1>3, <1>7 DEF IInv, ToldIsPressed
<1>10. AllDown'
  <2>1. ASSUME careful PROVE ToSet(pressed) = {}
    BY <1>2, <2>1 DEF IInv, RecordsAlone, ToSet
  <2> QED BY <1>2, <2>1 DEF AllDown
<1>11. RecordsAlone' BY <1>2, <1>4 DEF IInv, RecordsAlone
<1> QED BY <1>4, <1>5, <1>6, <1>8, <1>9, <1>10, <1>11 DEF IInv

\* startRecording() and stopRecording().
LEMMA SwitchRecordingKeepsIInv ==
  ASSUME IInv, StartRecording \/ StopRecording
  PROVE  IInv'
<1>1. /\ recordingDown' = <<>> /\ recordingUp' = {} /\ recording' \in BOOLEAN
      /\ UNCHANGED <<held, queue, down, watchlist, pressed, calls, events, told, seen, chord>>
      /\ careful' \in BOOLEAN /\ (careful' => careful)
      /\ careful' /\ recording' => pressed = <<>> /\ calls = <<>>
  <2>1. CASE StartRecording BY <2>1 DEF StartRecording, CarefulRecord, IInv, TypeOK
  <2>2. CASE StopRecording BY <2>2 DEF StopRecording, ResetRecording, IInv, TypeOK
  <2> QED BY <2>1, <2>2
<1>2. <<>> \in Seq(Keys) /\ Len(<<>>) = 0 /\ ToSet(<<>>) = {} BY DEF ToSet
<1>3. Distinct(<<>>) /\ 0 < ShortcutLimit
  BY <1>2, FS_EmptySet, ConstantsAssumption DEF Distinct
<1>4. TypeOK' BY <1>1, <1>2 DEF IInv, TypeOK
<1>5. RecordingSound' BY <1>1, <1>2, <1>3 DEF RecordingSound
<1>6. Pending(TRUE)' = Pending(TRUE) /\ Pending(FALSE)' = Pending(FALSE)
  BY <1>1 DEF Pending
<1>7. OneKind' BY <1>6 DEF IInv, OneKind
<1>8. ToldIsPressed' BY <1>1, <1>6 DEF IInv, ToldIsPressed
<1>9. AllDown' BY <1>1 DEF IInv, AllDown
<1>10. RecordsAlone' BY <1>1 DEF RecordsAlone
<1>11. RecordedDown' BY <1>1, <1>2 DEF RecordedDown
<1> QED BY <1>1, <1>4, <1>5, <1>7, <1>8, <1>9, <1>10, <1>11 DEF IInv, PressedAreWatched

\* A shortcut is put behind those watched.
LEMMA StartWatchingKeepsIInv ==
  ASSUME IInv, NEW s \in Shortcuts, StartWatching(s)
  PROVE  IInv'
<1>1. /\ s \notin ToSet(watchlist) /\ watchlist' = Append(watchlist, s)
      /\ UNCHANGED <<held, queue, down, pressed, recording, recordingDown,
                     recordingUp, calls, events, told, seen, chord, careful>>
  BY DEF StartWatching
<1>2. /\ watchlist' \in Seq(Shortcuts) /\ Distinct(watchlist')
      /\ ToSet(watchlist') = ToSet(watchlist) \cup {s}
  <2>1. watchlist \in Seq(Shortcuts) /\ Distinct(watchlist) BY DEF IInv, TypeOK
  <2>2. /\ Append(watchlist, s) \in Seq(Shortcuts) /\ Distinct(Append(watchlist, s))
        /\ ToSet(Append(watchlist, s)) = ToSet(watchlist) \cup {s}
    BY <1>1, <2>1, Added
  <2> QED BY <1>1, <2>2
<1>3. TypeOK' BY <1>1, <1>2 DEF IInv, TypeOK
<1>4. PressedAreWatched' BY <1>1, <1>2 DEF IInv, PressedAreWatched
<1>5. Pending(TRUE)' = Pending(TRUE) /\ Pending(FALSE)' = Pending(FALSE)
  BY <1>1 DEF Pending
<1> QED BY <1>1, <1>3, <1>4, <1>5
  DEF IInv, RecordingSound, OneKind, ToldIsPressed, AllDown, RecordsAlone, RecordedDown

\* The shortcut and all pressed after it are erased: with care it is the last.
LEMMA StopWatchingKeepsIInv ==
  ASSUME IInv, NEW s \in Shortcuts, StopWatching(s)
  PROVE  IInv'
<1>1. /\ careful' = (careful /\ CarefulStop(s))
      /\ watchlist' = Only(watchlist, Shortcuts \ {s})
      /\ pressed' = BeforeIn(s, pressed) /\ told' = told \ {s}
      /\ UNCHANGED <<held, queue, down, recording, recordingDown, recordingUp,
                     calls, events, seen, chord>>
  BY DEF StopWatching
<1>2. /\ watchlist' \in Seq(Shortcuts) /\ Distinct(watchlist')
      /\ ToSet(watchlist') = ToSet(watchlist) \cap (Shortcuts \ {s})
  BY <1>1, OnlyThose DEF IInv, TypeOK
<1>3. pressed \in Seq(Shortcuts) /\ Distinct(pressed) BY DEF IInv, TypeOK
<1>4. /\ pressed' \in Seq(Shortcuts) /\ Distinct(pressed')
      /\ ToSet(pressed') \subseteq ToSet(pressed) \ {s}
      /\ s \notin ToSet(pressed) \/ s = Last(pressed) => ToSet(pressed') = ToSet(pressed) \ {s}
  BY <1>1, <1>3, LeftBefore
<1>5. ToSet(pressed) \subseteq Shortcuts
  BY <1>3, LenProperties, ElementOfSeq DEF ToSet
<1>6. TypeOK'
  <2>1. careful' \in BOOLEAN /\ told' \subseteq Shortcuts BY <1>1 DEF IInv, TypeOK
  <2> QED BY <1>1, <1>2, <1>4, <2>1 DEF IInv, TypeOK
<1>7. PressedAreWatched' BY <1>2, <1>4, <1>5 DEF IInv, PressedAreWatched
<1>8. RecordingSound' BY <1>1 DEF IInv, RecordingSound
<1>9. Pending(TRUE)' = Pending(TRUE) /\ Pending(FALSE)' = Pending(FALSE)
  BY <1>1 DEF Pending
<1>10. OneKind' BY <1>9 DEF IInv, OneKind
<1>11. ToldIsPressed'
  <2> SUFFICES ASSUME careful'
               PROVE  ToSet(pressed') = (told' \cup Pending(TRUE)') \ Pending(FALSE)'
    BY DEF ToldIsPressed
  <2>1. careful /\ calls = <<>> /\ (s \in ToSet(pressed) => s = Last(pressed))
    BY <1>1 DEF CarefulStop, IsPressed
  <2>2. Pending(TRUE) = {} /\ Pending(FALSE) = {} BY <2>1, NoCalls
  <2> QED BY <1>1, <1>4, <1>9, <2>1, <2>2 DEF IInv, ToldIsPressed
<1>12. AllDown' BY <1>1, <1>4 DEF IInv, AllDown
<1>13. RecordsAlone'
  <2>1. ToSet(<<>>) = {} BY DEF ToSet
  <2>2. pressed = <<>> => pressed' = <<>> BY <1>1, <2>1 DEF BeforeIn
  <2> QED BY <1>1, <2>2 DEF IInv, RecordsAlone
<1>14. RecordedDown' BY <1>1 DEF IInv, RecordedDown
<1> QED BY <1>6, <1>7, <1>8, <1>10, <1>11, <1>12, <1>13, <1>14 DEF IInv

LEMMA StepKeepsIInv ==
  ASSUME IInv, [Next]_vars
  PROVE  IInv'
<1>1. ASSUME NEW k \in Keys, KeyDown(k) \/ KeyUp(k) PROVE IInv' BY <1>1, KeysKeepIInv
<1>2. CASE RunCallback BY <1>2, RunCallbackKeepsIInv
<1>3. ASSUME NEW k \in Keys, ProcessPress(k) PROVE IInv' BY <1>3, ProcessPressKeepsIInv
<1>4. ASSUME NEW k \in Keys, ProcessRelease(k) PROVE IInv' BY <1>4, ProcessReleaseKeepsIInv
<1>5. ASSUME NEW k \in Keys, RecordPress(k) PROVE IInv' BY <1>5, RecordPressKeepsIInv
<1>6. ASSUME NEW k \in Keys, RecordRelease(k) PROVE IInv' BY <1>6, RecordReleaseKeepsIInv
<1>7. CASE StartRecording \/ StopRecording BY <1>7, SwitchRecordingKeepsIInv
<1>8. ASSUME NEW s \in Shortcuts, StartWatching(s) PROVE IInv' BY <1>8, StartWatchingKeepsIInv
<1>9. ASSUME NEW s \in Shortcuts, StopWatching(s) PROVE IInv' BY <1>9, StopWatchingKeepsIInv
<1>10. CASE UNCHANGED vars
  <2>1. Pending(TRUE)' = Pending(TRUE) /\ Pending(FALSE)' = Pending(FALSE)
    BY <1>10 DEF Pending, vars
  <2> QED BY <1>10, <2>1
    DEF IInv, TypeOK, PressedAreWatched, RecordingSound, OneKind, ToldIsPressed, AllDown,
        RecordsAlone, RecordedDown, vars, managerVars
<1> QED BY <1>1, <1>2, <1>3, <1>4, <1>5, <1>6, <1>7, <1>8, <1>9, <1>10
  DEF Next, ManagerStep, Application

LEMMA SpecIInv == Spec => []IInv
<1>1. Init => IInv BY InitIInv
<1>2. IInv /\ [Next]_vars => IInv' BY StepKeepsIInv
<1> QED BY <1>1, <1>2, PTL DEF Spec

-----------------------------------------------------------------------------
(* The manager's theorems *)

\* The manager's members have their types: no shortcut is watched twice, and
\* none is in _pressed twice, whatever keys repeat and callbacks are replaced.
THEOREM ManagerTypes == Spec => []TypeOK
<1>1. IInv => TypeOK BY DEF IInv
<1> QED BY <1>1, SpecIInv, PTL

\* What process() asserts holds for any shortcuts and any limit: a pressed
\* shortcut is watched until it is released or stopped, and what is recorded
\* is a chord, not yet all up and below kShortcutLimit.
THEOREM ProcessAssertsHold == Spec => []AssertsHold
<1>1. IInv => AssertsHold BY DEF IInv, AssertsHold
<1> QED BY <1>1, SpecIInv, PTL

\* Once the callbacks of an event have run, the shortcuts told to be pressed
\* are those in _pressed, and all their keys are down.
THEOREM PressedShortcutsAreHeld == Spec => []PressedAreHeld
<1>1. ASSUME IInv PROVE PressedAreHeld
  <2> SUFFICES ASSUME careful, calls = <<>>
               PROVE  /\ ToSet(pressed) = told
                      /\ \A s \in told : ToSet(KeysOf[s]) \subseteq down
    BY DEF PressedAreHeld
  <2>1. Pending(TRUE) = {} /\ Pending(FALSE) = {} BY NoCalls
  <2>2. ToSet(pressed) = told BY <1>1, <2>1 DEF IInv, ToldIsPressed
  <2> QED BY <1>1, <2>2 DEF IInv, AllDown
<1>2. IInv => PressedAreHeld BY <1>1
<1> QED BY <1>2, SpecIInv, PTL

-----------------------------------------------------------------------------
(* The hook on X11 *)

Replies == Seq(Seq(X11!Event))
EventsOf(k, q, i, j) == i \in DOMAIN q /\ j \in DOMAIN q[i] /\ q[i][j].key = k
After(i, j, m, n) == i < m \/ (i = m /\ j < n)
LastOf(k, q, i, j) ==
  /\ EventsOf(k, q, i, j)
  /\ \A m, n : EventsOf(k, q, m, n) => ~After(i, j, m, n)

\* The replies r are q with the event e after all others, at the place m, n.
AddedAt(e, q, r, m, n) ==
  /\ EventsOf(e.key, r, m, n) /\ r[m][n] = e
  /\ \A k, i, j :
       /\ EventsOf(k, q, i, j) =>
            EventsOf(k, r, i, j) /\ After(i, j, m, n) /\ r[i][j] = q[i][j]
       /\ EventsOf(k, r, i, j) => (i = m /\ j = n) \/ EventsOf(k, q, i, j)

\* The last event of a key that is still to be read says whether it is down; and
\* of a key without one the hook has told it, unless that was not seen.
RepliesTrue ==
  recorder = "recording" => \A k \in HookKeys :
    /\ \A i, j : LastOf(k, replies, i, j) => replies[i][j].down = (k \in keysDown)
    /\ x11Callback /\ (\A i, j : ~EventsOf(k, replies, i, j)) /\ k \notin unseen =>
         (k \in x11Told <=> k \in keysDown)

X11IInv ==
  /\ X11!TypeOK /\ replies \in Replies
  /\ x11Callback => recorder # "none"
  /\ recorder # "recording" => replies = <<>>
  /\ ~x11Callback => x11Told = {}
  /\ RepliesTrue

\* A set of places that is not empty has a greatest one.
LEMMA GreatestPlace ==
  ASSUME NEW m \in Nat, NEW P, P \subseteq 1 .. m, P # {}
  PROVE  \E i \in P : \A j \in P : j <= i
<1> DEFINE Upto(i) == {j \in P : j <= i}
<1>1. /\ IsFiniteSet(P) /\ Cardinality(P) \in 0 .. m
      /\ \A n \in 1 .. Cardinality(P) : \E i \in P : Cardinality(Upto(i)) = n
  BY Ranks
<1>2. Cardinality(P) \in 1 .. Cardinality(P)
  <2>1. Cardinality(P) # 0 BY <1>1, FS_EmptySet
  <2> QED BY <1>1, <2>1
<1>3. PICK i \in P : Cardinality(Upto(i)) = Cardinality(P) BY <1>1, <1>2
<1>4. Upto(i) = P
  <2>1. Upto(i) \subseteq P OBVIOUS
  <2> QED BY <1>1, <1>3, <2>1, FS_Subset
<1> QED BY <1>4

LEMMA InitX11 == X11!Init => X11IInv
<1> SUFFICES ASSUME X11!Init PROVE X11IInv
  OBVIOUS
<1>1. replies = <<>> /\ replies \in Replies /\ Len(replies) = 0 /\ DOMAIN replies = {}
  BY EmptySeq DEF X11!Init, Replies
<1>2. X11!TypeOK
  <2>1. Len(replies) <= MaxReplies BY <1>1, HooksAssumption
  <2> QED BY <1>1, <2>1 DEF X11!Init, X11!TypeOK
<1>3. RepliesTrue
  BY <1>1 DEF X11!Init, RepliesTrue, LastOf, EventsOf
<1> QED BY <1>1, <1>2, <1>3 DEF X11!Init, X11IInv

\* A recorded event comes after all that were, and they stay.
LEMMA RecordedLast ==
  ASSUME NEW e \in X11!Event, recorder = "recording", replies \in Replies, X11!Record(e)
  PROVE  /\ replies' \in Replies
         /\ \E m, n : AddedAt(e, replies, replies', m, n)
<1>1. /\ Len(replies) \in Nat /\ DOMAIN replies = 1 .. Len(replies)
      /\ \A i \in DOMAIN replies :
           /\ replies[i] \in Seq(X11!Event) /\ Len(replies[i]) \in Nat
           /\ DOMAIN replies[i] = 1 .. Len(replies[i])
  BY LenProperties, ElementOfSeq DEF Replies
<1>2. CASE replies # <<>> /\ replies' = Append(X11!Front(replies), Append(X11!Last(replies), e))
  <2> DEFINE m == Len(replies)
             n == Len(replies[m]) + 1
  <2>1. m \in DOMAIN replies /\ m \in Nat \ {0} BY <1>1, <1>2, EmptySeq DEF Replies
  <2>2. X11!Last(replies) = replies[m] BY DEF X11!Last
  <2>3. /\ Append(replies[m], e) \in Seq(X11!Event)
        /\ Len(Append(replies[m], e)) = n
        /\ \A j \in 1 .. Len(replies[m]) : Append(replies[m], e)[j] = replies[m][j]
        /\ Append(replies[m], e)[n] = e
    BY <1>1, <2>1, AppendProperties
  <2>4. /\ X11!Front(replies) \in Replies /\ Len(X11!Front(replies)) = m - 1
        /\ \A i \in 1 .. m - 1 : X11!Front(replies)[i] = replies[i]
    <3>1. 1 \in Int /\ m - 1 \in Int /\ \A i \in 1 .. m - 1 : i \in 1 .. m BY <1>1
    <3> QED BY <1>1, <2>1, <3>1, SubSeqProperties DEF X11!Front, Replies
  <2>5. /\ replies' \in Replies /\ Len(replies') = m
        /\ \A i \in 1 .. m - 1 : replies'[i] = replies[i]
        /\ replies'[m] = Append(replies[m], e)
    <3>1. /\ replies' \in Replies /\ Len(replies') = (m - 1) + 1
          /\ \A i \in 1 .. m - 1 : replies'[i] = X11!Front(replies)[i]
          /\ replies'[(m - 1) + 1] = Append(replies[m], e)
      BY <1>2, <2>2, <2>3, <2>4, AppendProperties DEF Replies
    <3> QED BY <2>1, <2>4, <3>1
  <2>6. DOMAIN replies' = 1 .. m /\ DOMAIN replies'[m] = 1 .. n
    BY <2>3, <2>5, LenProperties DEF Replies
  <2> HIDE DEF n
  <2>7. n \in Nat /\ n = Len(replies[m]) + 1 /\ n \in 1 .. n BY <1>1, <2>1 DEF n
  <2>8. EventsOf(e.key, replies', m, n) /\ replies'[m][n] = e
    BY <2>1, <2>3, <2>5, <2>6, <2>7 DEF EventsOf
  <2>9. ASSUME NEW k, NEW i, NEW j, EventsOf(k, replies, i, j)
        PROVE  /\ EventsOf(k, replies', i, j) /\ After(i, j, m, n)
               /\ replies'[i][j] = replies[i][j]
    <3>1. CASE i = m
      BY <3>1, <1>1, <2>1, <2>3, <2>5, <2>6, <2>7, <2>9 DEF EventsOf, After
    <3>2. CASE i # m
      <4>1. i \in 1 .. m - 1 BY <3>2, <1>1, <2>1, <2>9 DEF EventsOf
      <4> QED BY <4>1, <1>1, <2>1, <2>5, <2>6, <2>9 DEF EventsOf, After
    <3> QED BY <3>1, <3>2
  <2>10. ASSUME NEW k, NEW i, NEW j, EventsOf(k, replies', i, j), ~(i = m /\ j = n)
         PROVE  EventsOf(k, replies, i, j)
    <3>1. CASE i = m
      <4>1. j \in 1 .. Len(replies[m])
        BY <3>1, <1>1, <2>1, <2>6, <2>7, <2>10 DEF EventsOf
      <4> QED BY <3>1, <4>1, <1>1, <2>1, <2>3, <2>5, <2>10 DEF EventsOf
    <3>2. CASE i # m
      <4>1. i \in 1 .. m - 1 BY <3>2, <1>1, <2>1, <2>6, <2>10 DEF EventsOf
      <4> QED BY <4>1, <1>1, <2>1, <2>5, <2>10 DEF EventsOf
    <3> QED BY <3>1, <3>2
  <2>11. AddedAt(e, replies, replies', m, n)
    BY <2>8, <2>9, <2>10 DEF AddedAt
  <2> QED BY <2>5, <2>11
<1>3. CASE replies' = Append(replies, <<e>>)
  <2> DEFINE m == Len(replies) + 1
  <2>1. <<e>> \in Seq(X11!Event) /\ DOMAIN <<e>> = 1 .. 1 /\ <<e>>[1] = e
    OBVIOUS
  <2>2. /\ replies' \in Replies /\ Len(replies') = m
        /\ \A i \in 1 .. Len(replies) : replies'[i] = replies[i]
        /\ replies'[m] = <<e>>
    BY <1>3, <2>1, AppendProperties DEF Replies
  <2>3. DOMAIN replies' = 1 .. m BY <2>2, LenProperties DEF Replies
  <2>4. EventsOf(e.key, replies', m, 1) /\ replies'[m][1] = e
    BY <1>1, <2>1, <2>2, <2>3 DEF EventsOf
  <2>5. ASSUME NEW k, NEW i, NEW j, EventsOf(k, replies, i, j)
        PROVE  /\ EventsOf(k, replies', i, j) /\ After(i, j, m, 1)
               /\ replies'[i][j] = replies[i][j]
    BY <1>1, <2>2, <2>3, <2>5 DEF EventsOf, After
  <2>6. ASSUME NEW k, NEW i, NEW j, EventsOf(k, replies', i, j), ~(i = m /\ j = 1)
        PROVE  EventsOf(k, replies, i, j)
    <3>1. i \in 1 .. Len(replies) BY <1>1, <2>1, <2>2, <2>3, <2>6 DEF EventsOf
    <3> QED BY <3>1, <1>1, <2>2, <2>6 DEF EventsOf
  <2>7. AddedAt(e, replies, replies', m, 1)
    BY <2>4, <2>5, <2>6 DEF AddedAt
  <2> QED BY <2>2, <2>7
<1> QED BY <1>2, <1>3 DEF X11!Record

\* Whatever is recorded, a reply is as long and they are as many as they may be.
LEMMA RecordTyped ==
  ASSUME NEW e \in X11!Event, X11IInv, X11!Record(e), keysDown' \subseteq HookKeys
  PROVE  X11!TypeOK'
<1>1. /\ Len(replies) \in Nat /\ DOMAIN replies = 1 .. Len(replies)
      /\ \A i \in DOMAIN replies :
           replies[i] \in Seq(X11!Event) /\ Len(replies[i]) \in 1 .. MaxInReply
  BY LenProperties, ElementOfSeq DEF Replies, X11IInv, X11!TypeOK
<1>2. Len(replies') <= MaxReplies
      /\ \A i \in DOMAIN replies' :
           replies'[i] \in Seq(X11!Event) /\ Len(replies'[i]) \in 1 .. MaxInReply
  <2>1. CASE UNCHANGED replies BY <2>1 DEF X11IInv, X11!TypeOK
  <2>2. CASE /\ replies # <<>> /\ Len(X11!Last(replies)) < MaxInReply
             /\ replies' = Append(X11!Front(replies), Append(X11!Last(replies), e))
    <3> DEFINE m == Len(replies)
    <3>1. m \in DOMAIN replies /\ m \in Nat \ {0}
      BY <1>1, <2>2, EmptySeq DEF X11IInv, Replies
    <3>2. /\ Append(replies[m], e) \in Seq(X11!Event)
          /\ Len(Append(replies[m], e)) = Len(replies[m]) + 1
      BY <1>1, <3>1, AppendProperties
    <3>3. /\ X11!Front(replies) \in Replies /\ Len(X11!Front(replies)) = m - 1
          /\ \A i \in 1 .. m - 1 : X11!Front(replies)[i] = replies[i]
      <4>1. 1 \in Int /\ m - 1 \in Int /\ \A i \in 1 .. m - 1 : i \in 1 .. m BY <1>1
      <4> QED BY <1>1, <3>1, <4>1, SubSeqProperties DEF X11IInv, X11!Front, Replies
    <3>4. /\ replies' \in Replies /\ Len(replies') = (m - 1) + 1
          /\ \A i \in 1 .. m - 1 : replies'[i] = X11!Front(replies)[i]
          /\ replies'[(m - 1) + 1] = Append(replies[m], e)
      BY <2>2, <3>2, <3>3, AppendProperties DEF Replies, X11!Last
    <3>5. Len(replies') = m /\ DOMAIN replies' = 1 .. m
      BY <3>1, <3>4, LenProperties DEF Replies
    <3>6. Len(replies[m]) + 1 \in 1 .. MaxInReply
      BY <1>1, <2>2, <3>1, HooksAssumption DEF X11!Last
    <3>7. \A i \in 1 .. m : i \in 1 .. m - 1 \/ i = (m - 1) + 1 BY <3>1
    <3> QED BY <1>1, <3>2, <3>3, <3>4, <3>5, <3>6, <3>7 DEF X11IInv, X11!TypeOK
  <2>3. CASE Len(replies) < MaxReplies /\ replies' = Append(replies, <<e>>)
    <3>1. <<e>> \in Seq(X11!Event) /\ Len(<<e>>) = 1 OBVIOUS
    <3>2. /\ replies' \in Replies /\ Len(replies') = Len(replies) + 1
          /\ \A i \in 1 .. Len(replies) : replies'[i] = replies[i]
          /\ replies'[Len(replies) + 1] = <<e>>
      BY <2>3, <3>1, AppendProperties DEF X11IInv, Replies
    <3>3. DOMAIN replies' = 1 .. (Len(replies) + 1) BY <3>2, LenProperties DEF Replies
    <3>4. 1 \in 1 .. MaxInReply BY HooksAssumption
    <3>5. \A i \in DOMAIN replies' : i \in 1 .. Len(replies) \/ i = Len(replies) + 1
      BY <1>1, <3>3
    <3>6. Len(replies') <= MaxReplies BY <1>1, <2>3, <3>2, HooksAssumption
    <3> QED BY <1>1, <3>1, <3>2, <3>4, <3>5, <3>6
  <2> QED BY <2>1, <2>2, <2>3 DEF X11!Record
<1> QED BY <1>2 DEF X11IInv, X11!TypeOK, X11!Record

\* The key of the recorded event is as it says, the others are as they were.
LEMMA RecordX11 ==
  ASSUME NEW e \in X11!Event, X11IInv, X11!Record(e), keysDown' \subseteq HookKeys,
         e.key \in HookKeys => e.down = (e.key \in keysDown'),
         \A k \in HookKeys \ {e.key} : k \in keysDown' <=> k \in keysDown
  PROVE  X11IInv'
<1>1. X11!TypeOK' BY RecordTyped
<1>2. UNCHANGED <<recorder, x11Callback, x11Told, unseen>> BY DEF X11!Record
<1>3. CASE recorder # "recording"
  <2>1. UNCHANGED replies BY <1>3 DEF X11!Record
  <2> QED BY <1>1, <1>2, <1>3, <2>1 DEF X11IInv, RepliesTrue
<1>4. CASE recorder = "recording"
  <2>1. replies \in Replies BY DEF X11IInv
  <2>2. /\ replies' \in Replies
        /\ \E m, n : AddedAt(e, replies, replies', m, n)
    BY <1>4, <2>1, RecordedLast
  <2>3. PICK m, n : AddedAt(e, replies, replies', m, n) BY <2>2
  <2>4. ASSUME NEW k \in HookKeys, NEW i, NEW j, LastOf(k, replies', i, j)
        PROVE  replies'[i][j].down = (k \in keysDown')
    <3>1. EventsOf(k, replies', i, j) BY <2>4 DEF LastOf
    <3>2. CASE i = m /\ j = n
      <4>1. k = e.key BY <2>3, <3>1, <3>2 DEF AddedAt, EventsOf
      <4> QED BY <2>3, <3>2, <4>1 DEF AddedAt
    <3>3. CASE ~(i = m /\ j = n)
      <4>1. EventsOf(k, replies, i, j) /\ After(i, j, m, n) /\ replies'[i][j] = replies[i][j]
        BY <2>3, <3>1, <3>3 DEF AddedAt
      <4>2. k # e.key BY <2>3, <2>4, <4>1 DEF AddedAt, LastOf
      <4>3. LastOf(k, replies, i, j) BY <2>3, <2>4, <4>1 DEF AddedAt, LastOf
      <4>4. replies[i][j].down = (k \in keysDown)
        BY <1>4, <4>3 DEF X11IInv, RepliesTrue
      <4> QED BY <4>1, <4>2, <4>4
    <3> QED BY <3>2, <3>3
  <2>5. ASSUME NEW k \in HookKeys, x11Callback', \A i, j : ~EventsOf(k, replies', i, j),
               k \notin unseen'
        PROVE  k \in x11Told' <=> k \in keysDown'
    <3>1. k # e.key BY <2>3, <2>5 DEF AddedAt
    <3>2. \A i, j : ~EventsOf(k, replies, i, j) BY <2>3, <2>5 DEF AddedAt
    <3>3. k \in x11Told <=> k \in keysDown
      BY <1>2, <1>4, <2>5, <3>2 DEF X11IInv, RepliesTrue
    <3> QED BY <1>2, <3>1, <3>3
  <2>6. RepliesTrue' BY <2>4, <2>5 DEF RepliesTrue
  <2> QED BY <1>1, <1>2, <1>4, <2>2, <2>6 DEF X11IInv
<1> QED BY <1>3, <1>4

LEMMA ActivatedX11 == X11IInv /\ X11!Activated => X11IInv'
<1> SUFFICES ASSUME X11IInv, X11!Activated PROVE X11IInv'
  OBVIOUS
<1> DEFINE reply == Head(replies)
<1>1. /\ recorder = "recording" /\ replies # <<>> /\ replies' = Tail(replies)
      /\ UNCHANGED <<recorder, x11Callback, keysDown>>
  BY DEF X11!Activated
<1>2. /\ Len(replies) \in Nat /\ DOMAIN replies = 1 .. Len(replies)
      /\ \A i \in DOMAIN replies :
           /\ replies[i] \in Seq(X11!Event) /\ Len(replies[i]) \in Nat
           /\ DOMAIN replies[i] = 1 .. Len(replies[i])
  BY LenProperties, ElementOfSeq DEF X11IInv, Replies
<1>3. /\ replies' \in Replies /\ Len(replies) # 0 /\ Len(replies') = Len(replies) - 1
      /\ reply = replies[1]
      /\ \A i \in 1 .. Len(replies') : replies'[i] = replies[i + 1]
  BY <1>1, <1>2, HeadTailProperties, EmptySeq DEF X11IInv, Replies
<1>4. /\ DOMAIN replies' = 1 .. Len(replies') /\ 1 \in DOMAIN replies
      /\ reply \in Seq(X11!Event) /\ Len(reply) \in Nat /\ DOMAIN reply = 1 .. Len(reply)
  BY <1>2, <1>3, LenProperties DEF Replies
<1> HIDE DEF reply
<1>5. \A k, i, j : EventsOf(k, replies', i, j) =>
        EventsOf(k, replies, i + 1, j) /\ replies'[i][j] = replies[i + 1][j]
  BY <1>2, <1>3, <1>4 DEF EventsOf
<1>6. \A k, i, j : EventsOf(k, replies, i, j) =>
        \/ i = 1 /\ j \in DOMAIN reply /\ reply[j].key = k
        \/ i \in 2 .. Len(replies) /\ EventsOf(k, replies', i - 1, j)
  <2> SUFFICES ASSUME NEW k, NEW i, NEW j, EventsOf(k, replies, i, j), i # 1
               PROVE  i \in 2 .. Len(replies) /\ EventsOf(k, replies', i - 1, j)
    BY <1>3 DEF EventsOf
  <2>1. i \in 2 .. Len(replies) BY <1>2 DEF EventsOf
  <2>2. i - 1 \in 1 .. Len(replies') /\ (i - 1) + 1 = i BY <1>2, <1>3, <2>1
  <2>3. replies'[i - 1] = replies[i] BY <1>3, <2>2
  <2> QED BY <1>4, <2>1, <2>2, <2>3 DEF EventsOf
<1>7. X11!Processed(reply) \subseteq DOMAIN reply BY DEF X11!Processed
<1>8. X11!TypeOK'
  <2>1. Len(replies') <= MaxReplies
    BY <1>2, <1>3, HooksAssumption DEF X11IInv, X11!TypeOK
  <2>2. \A i \in DOMAIN replies' : i + 1 \in DOMAIN replies /\ replies'[i] = replies[i + 1]
    BY <1>2, <1>3, <1>4
  <2>3. x11Told' \subseteq HookKeys /\ unseen' \subseteq HookKeys
    BY DEF X11IInv, X11!TypeOK, X11!Activated, X11!ToldAfter, X11!KeysAt
  <2> QED BY <1>1, <2>1, <2>2, <2>3 DEF X11IInv, X11!TypeOK
<1>9. ASSUME NEW k \in HookKeys, NEW i, NEW j, LastOf(k, replies', i, j)
      PROVE  replies'[i][j].down = (k \in keysDown')
  <2>1. EventsOf(k, replies, i + 1, j) /\ replies'[i][j] = replies[i + 1][j]
    BY <1>5, <1>9 DEF LastOf
  <2>2. i \in 1 .. Len(replies') BY <1>4, <1>9 DEF LastOf, EventsOf
  <2>3. ASSUME NEW m, NEW n, EventsOf(k, replies, m, n) PROVE ~After(i + 1, j, m, n)
    <3>1. CASE m = 1 BY <1>2, <1>3, <2>2, <3>1 DEF After
    <3>2. CASE m # 1
      <4>1. m \in 2 .. Len(replies) /\ EventsOf(k, replies', m - 1, n)
        BY <1>6, <2>3, <3>2
      <4>2. ~After(i, j, m - 1, n) BY <1>9, <4>1 DEF LastOf
      <4> QED BY <1>2, <2>2, <4>1, <4>2 DEF After
    <3> QED BY <3>1, <3>2
  <2>4. LastOf(k, replies, i + 1, j) BY <2>1, <2>3 DEF LastOf
  <2>5. replies[i + 1][j].down = (k \in keysDown)
    BY <1>1, <2>4 DEF X11IInv, RepliesTrue
  <2> QED BY <1>1, <2>1, <2>5
<1>10. ASSUME NEW k \in HookKeys, x11Callback', \A i, j : ~EventsOf(k, replies', i, j),
              k \notin unseen'
       PROVE  k \in x11Told' <=> k \in keysDown'
  <2> DEFINE places == {j \in X11!Processed(reply) : reply[j].key = k}
  <2>1. \A i, j : EventsOf(k, replies, i, j) => i = 1 /\ j \in DOMAIN reply /\ reply[j].key = k
    BY <1>6, <1>10
  <2>2. /\ x11Told' = X11!ToldAfter(reply)
        /\ unseen' = (unseen \ X11!KeysAt(reply, X11!Processed(reply)))
                       \union X11!KeysAt(reply, X11!Dropped(reply))
    BY <1>1, <1>10 DEF X11!Activated, reply
  <2>3. ASSUME NEW j \in DOMAIN reply, reply[j].key = k PROVE j \in places
    <3>1. j \notin X11!Dropped(reply)
      BY <1>10, <2>2, <2>3 DEF X11!KeysAt
    <3> QED BY <2>3, <3>1 DEF X11!Dropped
  <2>4. CASE places = {}
    <3>1. k \in x11Told' <=> k \in x11Told BY <2>2, <2>4 DEF X11!ToldAfter
    <3>2. \A i, j : ~EventsOf(k, replies, i, j) BY <2>1, <2>3, <2>4
    <3>3. k \notin unseen BY <1>10, <2>2, <2>4 DEF X11!KeysAt
    <3> QED BY <1>1, <1>10, <3>1, <3>2, <3>3 DEF X11IInv, RepliesTrue
  <2>5. CASE places # {}
    <3>1. places \subseteq 1 .. Len(reply) BY <1>4, <1>7
    <3>2. PICK j \in places : \A n \in places : n <= j BY <1>4, <2>5, <3>1, GreatestPlace
    <3>3. EventsOf(k, replies, 1, j)
      BY <1>3, <1>4, <1>7, <3>2 DEF EventsOf
    <3>4. LastOf(k, replies, 1, j)
      BY <1>4, <2>1, <2>3, <3>1, <3>2, <3>3 DEF LastOf, After
    <3>5. reply[j].down = (k \in keysDown)
      BY <1>1, <1>3, <3>4 DEF X11IInv, RepliesTrue
    <3>6. k \in x11Told' <=> \E i \in places : reply[i].down /\ \A n \in places : n <= i
      BY <2>2, <2>5 DEF X11!ToldAfter
    <3>7. \A i \in places : (\A n \in places : n <= i) => i = j BY <3>1, <3>2
    <3>8. k \in x11Told' <=> reply[j].down BY <3>2, <3>6, <3>7
    <3> QED BY <1>1, <3>5, <3>8
  <2> QED BY <2>4, <2>5
<1>11. RepliesTrue' BY <1>9, <1>10 DEF RepliesTrue
<1>12. x11Callback' = x11Callback /\ (~x11Callback => x11Told' = {})
  BY <1>1 DEF X11IInv, X11!Activated
<1> QED BY <1>1, <1>3, <1>8, <1>11, <1>12 DEF X11IInv

LEMMA NextX11 == X11IInv /\ [X11!Next]_x11Vars => X11IInv'
<1> SUFFICES ASSUME X11IInv, [X11!Next]_x11Vars PROVE X11IInv'
  OBVIOUS
<1>1. CASE X11!Activated BY <1>1, ActivatedX11
<1>2. \A k \in HookKeys, d \in BOOLEAN : [key |-> k, down |-> d] \in X11!Event
  BY DEF X11!Event
<1>3. X11!LeftButton \in X11!Event BY DEF X11!Event, X11!LeftButton
<1>4. keysDown \subseteq HookKeys BY DEF X11IInv, X11!TypeOK
<1>5. ASSUME NEW k \in HookKeys, X11!Press(k) PROVE X11IInv'
  <2> DEFINE e == [key |-> k, down |-> TRUE]
  <2>1. e \in X11!Event /\ e.key = k /\ e.down = TRUE BY <1>2
  <2> HIDE DEF e
  <2>2. X11!Record(e) /\ keysDown' = keysDown \union {k} BY <1>5 DEF X11!Press, e
  <2>3. e.down = (e.key \in keysDown') BY <2>1, <2>2
  <2> QED BY <1>4, <2>1, <2>2, <2>3, RecordX11
<1>6. ASSUME NEW k \in HookKeys, X11!Release(k) PROVE X11IInv'
  <2> DEFINE e == [key |-> k, down |-> FALSE]
  <2>1. e \in X11!Event /\ e.key = k /\ e.down = FALSE BY <1>2
  <2> HIDE DEF e
  <2>2. X11!Record(e) /\ keysDown' = keysDown \ {k} BY <1>6 DEF X11!Release, e
  <2>3. k \notin keysDown' BY <2>2
  <2>4. e.down = (e.key \in keysDown')
    <3>1. (k \in keysDown') = FALSE BY <2>3
    <3> QED BY <2>1, <3>1
  <2> QED BY <1>4, <2>1, <2>2, <2>4, RecordX11
<1>7. CASE X11!Click
  <2> DEFINE e == X11!LeftButton
  <2>1. X11!Record(e) /\ keysDown' = keysDown BY <1>7 DEF X11!Click
  <2>2. e \in X11!Event /\ e.key \notin HookKeys
    BY <1>3, HooksAssumption DEF X11!LeftButton
  <2> HIDE DEF e
  <2>3. keysDown' \subseteq HookKeys
        /\ \A k \in HookKeys \ {e.key} : k \in keysDown' <=> k \in keysDown
    BY <1>4, <2>1
  <2> QED BY <2>1, <2>2, <2>3, RecordX11
<1>8. <<>> \in Replies /\ Len(<<>>) = 0 /\ DOMAIN <<>> = {} BY EmptySeq DEF Replies
<1>9. CASE X11!Available
  <2>1. recorder = "none" /\ recorder' \in {"broken", "recording"}
        /\ UNCHANGED <<x11Callback, replies, keysDown, x11Told, unseen>>
    BY <1>9 DEF X11!Available, X11!Ensure
  <2>2. replies = <<>> /\ ~x11Callback BY <2>1 DEF X11IInv
  <2>3. RepliesTrue' BY <1>8, <2>1, <2>2 DEF RepliesTrue, LastOf, EventsOf
  <2>4. X11!TypeOK' BY <2>1 DEF X11IInv, X11!TypeOK
  <2> QED BY <2>1, <2>2, <2>3, <2>4 DEF X11IInv
<1>10. CASE X11!Start
  <2>1. /\ ~x11Callback /\ x11Callback' = TRUE /\ unseen' = keysDown
        /\ UNCHANGED <<replies, keysDown, x11Told>>
        /\ recorder' = recorder \/ (recorder = "none" /\ recorder' \in {"broken", "recording"})
        /\ recorder' # "none"
    BY <1>10 DEF X11!Start, X11!Ensure
  <2>2. x11Told = {} BY <2>1 DEF X11IInv
  <2>3. RepliesTrue'
    <3>1. CASE recorder = "recording"
      BY <2>1, <2>2, <3>1 DEF X11IInv, RepliesTrue
    <3>2. CASE recorder # "recording"
      <4>1. replies = <<>> BY <3>2 DEF X11IInv
      <4> QED BY <1>8, <2>1, <2>2, <4>1 DEF RepliesTrue, LastOf, EventsOf
    <3> QED BY <3>1, <3>2
  <2>4. X11!TypeOK' BY <2>1 DEF X11IInv, X11!TypeOK
  <2>5. recorder' # "recording" => replies' = <<>> BY <2>1 DEF X11IInv
  <2> QED BY <2>1, <2>3, <2>4, <2>5 DEF X11IInv
<1>11. CASE X11!Stop \/ X11!ConnectionFails
  <2>1. /\ recorder' \in {"none", "broken"} /\ replies' = <<>> /\ keysDown' = keysDown
        /\ \/ x11Callback' = FALSE /\ x11Told' = {} /\ unseen' = {}
           \/ recorder' = "broken" /\ UNCHANGED <<x11Callback, x11Told, unseen>>
    BY <1>11 DEF X11!Stop, X11!ConnectionFails
  <2>2. Len(replies') <= MaxReplies BY <1>8, <2>1, HooksAssumption
  <2>3. X11!TypeOK' BY <1>8, <2>1, <2>2 DEF X11IInv, X11!TypeOK
  <2>4. RepliesTrue' BY <2>1 DEF RepliesTrue
  <2> QED BY <1>8, <2>1, <2>3, <2>4 DEF X11IInv
<1>12. CASE UNCHANGED x11Vars
  BY <1>12 DEF x11Vars, X11IInv, X11!TypeOK, RepliesTrue, LastOf, EventsOf
<1> QED BY <1>1, <1>5, <1>6, <1>7, <1>9, <1>10, <1>11, <1>12 DEF X11!Next

LEMMA X11Tells == X11IInv => X11!ToldIsTrue
<1> SUFFICES ASSUME X11IInv, recorder = "recording", x11Callback, replies = <<>>
             PROVE  x11Told \ unseen = keysDown \ unseen
  BY DEF X11!ToldIsTrue
<1>1. \A k, i, j : ~EventsOf(k, replies, i, j) BY EmptySeq DEF EventsOf
<1>2. \A k \in HookKeys : k \notin unseen => (k \in x11Told <=> k \in keysDown)
  BY <1>1 DEF X11IInv, RepliesTrue
<1>3. x11Told \subseteq HookKeys /\ keysDown \subseteq HookKeys
  BY DEF X11IInv, X11!TypeOK
<1> QED BY <1>2, <1>3

-----------------------------------------------------------------------------
(* The shared connection *)

Lifetimes == [user : Xcb!Handles, added : SUBSET Bits, old : SUBSET Bits, reverts : BOOLEAN]
Loops == [user : XcbUsers, quit : BOOLEAN]
Handlers == {handlers[i] : i \in DOMAIN handlers}
MaskUsers == {masks[i].user : i \in DOMAIN masks}
LoopUsers == {loops[i].user : i \in DOMAIN loops}

HandlersIInv ==
  /\ handlers \in Seq(Xcb!Handles)
  /\ \A i, j \in DOMAIN handlers : handlers[i] = handlers[j] => i = j
  /\ notifier \in {"none", "on", "null"} /\ (notifier = "none" <=> handlers = <<>>)
  /\ toldFailed \subseteq Xcb!Handles
  /\ notifier = "null" => Handlers \subseteq toldFailed

\* What a lifetime added is also in what a later one found, and may put back.
MasksIInv ==
  /\ mask \subseteq Bits /\ dropped \subseteq Xcb!Handles
  /\ masks \in Seq(Lifetimes)
  /\ \A i, j \in DOMAIN masks : masks[i].user = masks[j].user => i = j
  /\ \A i, j \in DOMAIN masks : i < j =>
       masks[i].user \in dropped \/ masks[i].added \subseteq masks[j].old
  /\ Xcb!MaskHasAdded

LoopsIInv ==
  /\ loops \in Seq(Loops)
  /\ \A i, j \in DOMAIN loops : loops[i].user = loops[j].user => i = j

WireIInv ==
  /\ connection \in {"none", "up", "failed"} /\ holders \subseteq XcbUsers
  /\ wire \in Seq({"other", "stamp"}) /\ Len(wire) <= MaxWire

\* Who has a handler or a mask holds the connection, and a nested loop has both.
SharedIInv ==
  /\ \A u \in XcbUsers : /\ u \in LoopUsers <=> <<u, "stamp">> \in Handlers
                         /\ u \in LoopUsers <=> <<u, "stamp">> \in MaskUsers
  /\ \A h \in Handlers \union MaskUsers : h[1] \in holders
  /\ holders = {} <=> connection = "none"
  /\ notifier = "null" => connection = "failed"

XcbIInv == WireIInv /\ HandlersIInv /\ MasksIInv /\ LoopsIInv /\ SharedIInv

\* Where the element at j was before the one at i was taken away.
Shift(i, j) == IF j < i THEN j ELSE j + 1

TakenFrom(q, i, r) ==
  /\ Len(r) = Len(q) - 1
  /\ \A j \in DOMAIN r : /\ Shift(i, j) \in DOMAIN q /\ Shift(i, j) # i
                         /\ r[j] = q[Shift(i, j)]
  /\ \A j, n \in DOMAIN r : Shift(i, j) < Shift(i, n) <=> j < n
  /\ \A n \in DOMAIN q : n # i => \E j \in DOMAIN r : Shift(i, j) = n

LEMMA Removal ==
  ASSUME NEW S, NEW q \in Seq(S), NEW i \in DOMAIN q
  PROVE  Xcb!RemoveAt(q, i) \in Seq(S) /\ TakenFrom(q, i, Xcb!RemoveAt(q, i))
<1> DEFINE left == SubSeq(q, 1, i - 1)
           right == SubSeq(q, i + 1, Len(q))
           r == left \o right
<1>1. Len(q) \in Nat /\ DOMAIN q = 1 .. Len(q) /\ i \in 1 .. Len(q) /\ i \in Nat
  BY LenProperties
<1>2. /\ left \in Seq(S) /\ Len(left) = i - 1
      /\ \A j \in 1 .. i - 1 : left[j] = q[j]
  <2>1. 1 \in Int /\ i - 1 \in Int /\ \A j \in 1 .. i - 1 : j \in 1 .. Len(q) BY <1>1
  <2>2. left \in Seq(S) /\ Len(left) = (IF 1 <= i - 1 THEN (i - 1) - 1 + 1 ELSE 0)
        /\ \A j \in 1 .. ((i - 1) - 1 + 1) : left[j] = q[1 + j - 1]
    BY <2>1, SubSeqProperties
  <2> QED BY <1>1, <2>2
<1>3. /\ right \in Seq(S) /\ Len(right) = Len(q) - i
      /\ \A j \in 1 .. Len(q) - i : right[j] = q[i + j]
  <2>1. i + 1 \in Int /\ Len(q) \in Int /\ \A j \in i + 1 .. Len(q) : j \in 1 .. Len(q)
    BY <1>1
  <2>2. right \in Seq(S)
        /\ Len(right) = (IF i + 1 <= Len(q) THEN Len(q) - (i + 1) + 1 ELSE 0)
        /\ \A j \in 1 .. (Len(q) - (i + 1) + 1) : right[j] = q[(i + 1) + j - 1]
    BY <2>1, SubSeqProperties
  <2>3. /\ (IF i + 1 <= Len(q) THEN Len(q) - (i + 1) + 1 ELSE 0) = Len(q) - i
        /\ \A j \in 1 .. Len(q) - i : /\ j \in 1 .. (Len(q) - (i + 1) + 1)
                                      /\ (i + 1) + j - 1 = i + j
    BY <1>1
  <2> HIDE DEF right
  <2>4. \A j \in 1 .. Len(q) - i : right[j] = q[i + j] BY <2>2, <2>3 DEF right
  <2> QED BY <2>2, <2>3, <2>4 DEF right
<1> HIDE DEF left, right
<1>4. /\ r \in Seq(S) /\ Len(r) = Len(left) + Len(right)
      /\ \A j \in 1 .. Len(left) + Len(right) :
           r[j] = IF j <= Len(left) THEN left[j] ELSE right[j - Len(left)]
  BY <1>2, <1>3, ConcatProperties
<1> HIDE DEF r
<1>5. Len(r) = Len(q) - 1 /\ DOMAIN r = 1 .. Len(q) - 1
  BY <1>1, <1>2, <1>3, <1>4, LenProperties
<1>6. \A j \in DOMAIN r : /\ Shift(i, j) \in DOMAIN q /\ Shift(i, j) # i
                          /\ r[j] = q[Shift(i, j)]
  <2> SUFFICES ASSUME NEW j \in 1 .. Len(q) - 1
               PROVE  /\ Shift(i, j) \in 1 .. Len(q) /\ Shift(i, j) # i
                      /\ r[j] = q[Shift(i, j)]
    BY <1>1, <1>5
  <2>1. CASE j < i
    <3>1. j <= Len(left) /\ j \in 1 .. i - 1 /\ j \in 1 .. Len(left) + Len(right)
      BY <1>1, <1>2, <1>3, <2>1
    <3>2. r[j] = q[j] BY <1>2, <1>4, <3>1
    <3> QED BY <1>1, <2>1, <3>2 DEF Shift
  <2>2. CASE ~(j < i)
    <3>1. /\ ~(j <= Len(left)) /\ j - Len(left) \in 1 .. Len(q) - i
          /\ j \in 1 .. Len(left) + Len(right) /\ i + (j - Len(left)) = j + 1
      BY <1>1, <1>2, <1>3, <2>2
    <3>2. r[j] = q[j + 1] BY <1>3, <1>4, <3>1
    <3> QED BY <1>1, <2>2, <3>2 DEF Shift
  <2> QED BY <2>1, <2>2
<1>7. \A j, n \in DOMAIN r : Shift(i, j) < Shift(i, n) <=> j < n
  BY <1>1, <1>5 DEF Shift
<1>8. ASSUME NEW n \in DOMAIN q, n # i PROVE \E j \in DOMAIN r : Shift(i, j) = n
  <2>1. CASE n < i BY <1>1, <1>5, <2>1 DEF Shift
  <2>2. CASE ~(n < i)
    <3>1. n - 1 \in DOMAIN r /\ ~(n - 1 < i) /\ (n - 1) + 1 = n
      BY <1>1, <1>5, <1>8, <2>2
    <3> QED BY <3>1 DEF Shift
  <2> QED BY <2>1, <2>2
<1>9. Xcb!RemoveAt(q, i) = r BY DEF Xcb!RemoveAt, left, right, r
<1>10. TakenFrom(q, i, r) BY <1>5, <1>6, <1>7, <1>8 DEF TakenFrom
<1> QED BY <1>4, <1>9, <1>10

LEMMA NamesOfHandlers ==
  ASSUME handlers \in Seq(Xcb!Handles)
  PROVE  /\ \A h : /\ Xcb!Contains(handlers, h) <=> h \in Handlers
                  /\ Xcb!HasMask(h) <=> h \in MaskUsers
         /\ \A u : Xcb!InLoop(u) <=> u \in LoopUsers
         /\ Xcb!ToSet(handlers) = Handlers
         /\ \A u \in XcbUsers : /\ <<u, "own">> \in Xcb!Handles
                                /\ <<u, "stamp">> \in Xcb!Handles
BY LenProperties
   DEF Xcb!Contains, Xcb!HasMask, Xcb!InLoop, Xcb!ToSet, Handlers, MaskUsers, LoopUsers,
       Xcb!Handles

-----------------------------------------------------------------------------
LEMMA InstallHandler ==
  ASSUME HandlersIInv, NEW h \in Xcb!Handles, h \notin Handlers, notifier # "null",
         Xcb!Installed(h), toldFailed' = toldFailed
  PROVE  HandlersIInv' /\ Handlers' = Handlers \union {h} /\ notifier' # "null"
<1>1. /\ handlers' \in Seq(Xcb!Handles) /\ Len(handlers') = Len(handlers) + 1
      /\ \A i \in 1 .. Len(handlers) : handlers'[i] = handlers[i]
      /\ handlers'[Len(handlers) + 1] = h
  BY AppendProperties DEF HandlersIInv, Xcb!Installed
<1>2. /\ Len(handlers) \in Nat /\ DOMAIN handlers = 1 .. Len(handlers)
      /\ DOMAIN handlers' = 1 .. (Len(handlers) + 1)
  BY <1>1, LenProperties DEF HandlersIInv
<1>3. \A i \in DOMAIN handlers' : i \in DOMAIN handlers \/ i = Len(handlers) + 1
  BY <1>2
<1>4. Handlers' = Handlers \union {h} BY <1>1, <1>2, <1>3 DEF Handlers
<1>5. \A i \in DOMAIN handlers : handlers[i] # h BY DEF Handlers
<1>6. \A i, j \in DOMAIN handlers' : handlers'[i] = handlers'[j] => i = j
  BY <1>1, <1>2, <1>3, <1>5 DEF HandlersIInv
<1>7. handlers' # <<>> BY <1>1, <1>2, EmptySeq
<1>8. notifier' \in {"on"} BY DEF HandlersIInv, Xcb!Installed
<1> QED BY <1>1, <1>4, <1>6, <1>7, <1>8 DEF HandlersIInv

LEMMA RemoveHandler ==
  ASSUME HandlersIInv, NEW h \in Handlers, Xcb!Removed(h)
  PROVE  /\ HandlersIInv' /\ Handlers' = Handlers \ {h}
         /\ notifier' = "null" => notifier = "null"
<1>1. PICK i \in DOMAIN handlers :
        handlers[i] = h /\ handlers' = Xcb!RemoveAt(handlers, i)
  BY DEF Handlers, Xcb!Removed
<1>2. /\ handlers' \in Seq(Xcb!Handles)
      /\ \A j \in DOMAIN handlers' : /\ Shift(i, j) \in DOMAIN handlers /\ Shift(i, j) # i
                                     /\ handlers'[j] = handlers[Shift(i, j)]
      /\ \A j, n \in DOMAIN handlers' : Shift(i, j) < Shift(i, n) <=> j < n
      /\ \A n \in DOMAIN handlers : n # i => \E j \in DOMAIN handlers' : Shift(i, j) = n
  <2>1. handlers \in Seq(Xcb!Handles) BY DEF HandlersIInv
  <2>2. handlers' \in Seq(Xcb!Handles) /\ TakenFrom(handlers, i, handlers')
    BY <1>1, <2>1, Removal
  <2> QED BY <2>2 DEF TakenFrom
<1>3. Handlers' = Handlers \ {h} BY <1>1, <1>2 DEF HandlersIInv, Handlers
<1>4. \A j, n \in DOMAIN handlers' : j \in Int /\ n \in Int BY <1>2, LenProperties
<1>5. ASSUME NEW j \in DOMAIN handlers', NEW n \in DOMAIN handlers',
             handlers'[j] = handlers'[n]
      PROVE  j = n
  <2>1. Shift(i, j) = Shift(i, n) BY <1>2, <1>5 DEF HandlersIInv
  <2>2. ~(j < n) /\ ~(n < j)
    <3>1. ~(Shift(i, j) < Shift(i, n)) /\ ~(Shift(i, n) < Shift(i, j))
      <4>1. Shift(i, j) \in Int
        BY <1>2, LenProperties DEF HandlersIInv
      <4> QED BY <2>1, <4>1
    <3> QED BY <1>2, <3>1
  <2> QED BY <1>4, <2>2
<1>6. notifier # "none" BY <1>1, EmptySeq DEF HandlersIInv
<1> QED BY <1>2, <1>3, <1>5, <1>6 DEF HandlersIInv, Xcb!Removed

LEMMA InstallMask ==
  ASSUME MasksIInv, NEW h \in Xcb!Handles, h \notin MaskUsers, connection = "up",
         connection' = connection, NEW bits \in SUBSET Bits,
         NEW mode \in {"Add", "Remove", "Replace"}, Xcb!ChangeMask(h, bits, mode)
  PROVE  MasksIInv' /\ MaskUsers' = MaskUsers \union {h}
<1> DEFINE same == Xcb!Unneeded(bits, mode) \/ mask = bits
           added == IF mode = "Remove" THEN {} ELSE bits
           l == [user |-> h, added |-> added, old |-> mask, reverts |-> ~same]
           n == Len(masks) + 1
<1>1. /\ mask' = IF same THEN mask ELSE Xcb!Changed(bits, mode)
      /\ masks' = Append(masks, l)
      /\ dropped' = (dropped \ {h})
                    \union (IF mode = "Add" /\ ~same THEN {} ELSE Xcb!Losers(masks', mask'))
  BY DEF Xcb!ChangeMask
<1>2. l \in Lifetimes BY DEF Lifetimes, MasksIInv
<1>3. l.user = h /\ l.added = added /\ l.old = mask OBVIOUS
<1> HIDE DEF l
<1>4. /\ masks' \in Seq(Lifetimes) /\ Len(masks') = n
      /\ \A i \in 1 .. Len(masks) : masks'[i] = masks[i]
      /\ masks'[n] = l
  BY <1>1, <1>2, AppendProperties DEF MasksIInv
<1>5. Len(masks) \in Nat /\ DOMAIN masks = 1 .. Len(masks) /\ DOMAIN masks' = 1 .. n
  BY <1>4, LenProperties DEF MasksIInv
<1>6. \A i \in DOMAIN masks' : (i \in DOMAIN masks /\ masks'[i] = masks[i] /\ i < n) \/ i = n
  BY <1>4, <1>5
<1>7. n \in DOMAIN masks' /\ \A i \in DOMAIN masks : i \in DOMAIN masks' /\ ~(n < i)
  BY <1>5
<1> HIDE DEF n
<1>8. \A i \in DOMAIN masks : masks[i].user # h BY DEF MaskUsers
<1>9. MaskUsers' = MaskUsers \union {h} BY <1>3, <1>4, <1>6, <1>7 DEF MaskUsers
<1>10. \A i, j \in DOMAIN masks' : masks'[i].user = masks'[j].user => i = j
  BY <1>3, <1>4, <1>6, <1>8 DEF MasksIInv
<1>11. mask' \subseteq Bits BY <1>1 DEF Xcb!Changed, MasksIInv
<1>12. Xcb!Losers(masks', mask') \subseteq Xcb!Handles
  <2>1. \A i \in DOMAIN masks' : masks'[i] \in Lifetimes
    BY <1>4, ElementOfSeq, LenProperties
  <2> QED BY <2>1 DEF Xcb!Losers, Lifetimes
<1>13. dropped' \subseteq Xcb!Handles BY <1>1, <1>12 DEF MasksIInv
<1>14. \A i \in DOMAIN masks : masks[i].user \in dropped \/ masks[i].added \subseteq mask
  BY DEF MasksIInv, Xcb!MaskHasAdded, Xcb!HasError
<1>15. \A i \in DOMAIN masks : masks[i].user \in dropped => masks[i].user \in dropped'
  BY <1>1, <1>8
<1>16. ASSUME NEW i \in DOMAIN masks', NEW j \in DOMAIN masks', i < j
       PROVE  masks'[i].user \in dropped' \/ masks'[i].added \subseteq masks'[j].old
  <2>1. i \in DOMAIN masks /\ masks'[i] = masks[i]
    <3>1. i # n BY <1>5, <1>6, <1>16 DEF n
    <3> QED BY <1>6, <3>1
  <2>2. CASE j = n BY <1>3, <1>4, <1>14, <1>15, <2>1, <2>2
  <2>3. CASE j # n
    BY <1>6, <1>15, <1>16, <2>1, <2>3 DEF MasksIInv
  <2> QED BY <2>2, <2>3
<1>17. \A i \in DOMAIN masks' :
         masks'[i].user \in dropped' \/ masks'[i].added \subseteq mask'
  <2>1. CASE mode = "Add" /\ ~same
    <3>1. mask' = mask \union bits /\ added = bits BY <1>1, <2>1 DEF Xcb!Changed
    <3> QED BY <1>3, <1>4, <1>6, <1>14, <1>15, <3>1
  <2>2. CASE ~(mode = "Add" /\ ~same)
    <3>1. Xcb!Losers(masks', mask') \subseteq dropped' BY <1>1, <2>2
    <3> QED BY <3>1 DEF Xcb!Losers
  <2> QED BY <2>1, <2>2
<1> QED BY <1>4, <1>9, <1>10, <1>11, <1>13, <1>16, <1>17 DEF MasksIInv, Xcb!MaskHasAdded

LEMMA TakeMask ==
  ASSUME MasksIInv, NEW h \in MaskUsers, connection' = connection, Xcb!RevertMask(h)
  PROVE  MasksIInv' /\ MaskUsers' = MaskUsers \ {h}
<1> DEFINE at == CHOOSE i \in DOMAIN masks : masks[i].user = h
<1>1. at \in DOMAIN masks /\ masks[at].user = h BY DEF MaskUsers
<1>2. /\ masks' = Xcb!RemoveAt(masks, at)
      /\ mask' = IF masks[at].reverts /\ ~Xcb!HasError THEN masks[at].old ELSE mask
      /\ dropped' = (dropped \ {h})
                    \union (IF at = Len(masks) THEN {} ELSE Xcb!Losers(masks', mask'))
  BY DEF Xcb!RevertMask
<1> HIDE DEF at
<1>3. /\ masks' \in Seq(Lifetimes)
      /\ \A j \in DOMAIN masks' : /\ Shift(at, j) \in DOMAIN masks /\ Shift(at, j) # at
                                  /\ masks'[j] = masks[Shift(at, j)]
      /\ \A j, n \in DOMAIN masks' : Shift(at, j) < Shift(at, n) <=> j < n
      /\ \A n \in DOMAIN masks : n # at => \E j \in DOMAIN masks' : Shift(at, j) = n
  <2>1. masks \in Seq(Lifetimes) BY DEF MasksIInv
  <2>2. masks' \in Seq(Lifetimes) /\ TakenFrom(masks, at, masks')
    BY <1>1, <1>2, <2>1, Removal
  <2> QED BY <2>2 DEF TakenFrom
<1>4. /\ Len(masks) \in Nat /\ DOMAIN masks = 1 .. Len(masks)
      /\ \A j \in DOMAIN masks' : j \in Int
  BY <1>3, LenProperties DEF MasksIInv
<1>5. \A i \in DOMAIN masks : masks[i] \in Lifetimes BY ElementOfSeq DEF MasksIInv
<1>6. \A j \in DOMAIN masks : masks[j].user = h => j = at BY <1>1 DEF MasksIInv
<1>7. MaskUsers' = MaskUsers \ {h} BY <1>1, <1>3, <1>6 DEF MaskUsers
<1>8. ASSUME NEW j \in DOMAIN masks', NEW n \in DOMAIN masks',
             masks'[j].user = masks'[n].user
      PROVE  j = n
  <2>1. Shift(at, j) = Shift(at, n) BY <1>3, <1>8 DEF MasksIInv
  <2>2. Shift(at, j) \in Int BY <1>3, <1>4
  <2>3. ~(j < n) /\ ~(n < j) BY <1>3, <2>1, <2>2
  <2> QED BY <1>4, <2>3
<1>9. mask' \subseteq Bits BY <1>1, <1>2, <1>5 DEF MasksIInv, Lifetimes
<1>10. Xcb!Losers(masks', mask') \subseteq Xcb!Handles
  <2>1. \A i \in DOMAIN masks' : masks'[i] \in Lifetimes
    BY <1>3, ElementOfSeq, LenProperties
  <2> QED BY <2>1 DEF Xcb!Losers, Lifetimes
<1>11. dropped' \subseteq Xcb!Handles BY <1>2, <1>10 DEF MasksIInv
<1>12. \A j \in DOMAIN masks' : masks'[j].user \in dropped => masks'[j].user \in dropped'
  BY <1>2, <1>3, <1>6
<1>13. ASSUME NEW i \in DOMAIN masks', NEW j \in DOMAIN masks', i < j
       PROVE  masks'[i].user \in dropped' \/ masks'[i].added \subseteq masks'[j].old
  BY <1>3, <1>12, <1>13 DEF MasksIInv
<1>14. Xcb!MaskHasAdded'
  <2> SUFFICES ASSUME ~Xcb!HasError, NEW j \in DOMAIN masks'
               PROVE  masks'[j].user \in dropped' \/ masks'[j].added \subseteq mask'
    BY DEF Xcb!MaskHasAdded, Xcb!HasError
  <2>1. CASE at # Len(masks) BY <1>2, <2>1 DEF Xcb!Losers
  <2>2. CASE at = Len(masks)
    <3>1. Shift(at, j) < at BY <1>3, <1>4, <2>2
    <3>2. masks'[j].user \in dropped \/ masks'[j].added \subseteq masks[at].old
      BY <1>1, <1>3, <3>1 DEF MasksIInv
    <3>3. masks'[j].user \in dropped \/ masks'[j].added \subseteq mask
      BY <1>3 DEF MasksIInv, Xcb!MaskHasAdded
    <3> QED BY <1>2, <1>12, <3>2, <3>3
  <2> QED BY <2>1, <2>2
<1> QED BY <1>3, <1>7, <1>8, <1>9, <1>11, <1>13, <1>14 DEF MasksIInv

-----------------------------------------------------------------------------
LEMMA PushLoop ==
  ASSUME LoopsIInv, NEW u \in XcbUsers, u \notin LoopUsers,
         loops' = Append(loops, [user |-> u, quit |-> FALSE])
  PROVE  LoopsIInv' /\ LoopUsers' = LoopUsers \union {u}
<1> DEFINE l == [user |-> u, quit |-> FALSE]
<1>1. l \in Loops /\ l.user = u BY DEF Loops
<1> HIDE DEF l
<1>2. /\ loops' \in Seq(Loops)
      /\ Len(loops') = Len(loops) + 1
      /\ \A i \in 1 .. Len(loops) : loops'[i] = loops[i]
      /\ loops'[Len(loops) + 1] = l
  BY <1>1, AppendProperties DEF LoopsIInv, l
<1>3. /\ Len(loops) \in Nat /\ DOMAIN loops = 1 .. Len(loops)
      /\ DOMAIN loops' = 1 .. (Len(loops) + 1)
  BY <1>2, LenProperties DEF LoopsIInv
<1>4. \A i \in DOMAIN loops' : i \in DOMAIN loops \/ i = Len(loops) + 1
  BY <1>3
<1>5. \A i \in DOMAIN loops : loops[i].user # u BY DEF LoopUsers
<1>6. LoopUsers' = LoopUsers \union {u} BY <1>1, <1>2, <1>3, <1>4 DEF LoopUsers
<1>7. \A i, j \in DOMAIN loops' : loops'[i].user = loops'[j].user => i = j
  BY <1>1, <1>2, <1>3, <1>4, <1>5 DEF LoopsIInv
<1> QED BY <1>2, <1>6, <1>7 DEF LoopsIInv

LEMMA PopLoop ==
  ASSUME LoopsIInv, loops # <<>>, loops' = Xcb!Front(loops)
  PROVE  /\ LoopsIInv' /\ Xcb!Last(loops).user \in LoopUsers \intersect XcbUsers
         /\ LoopUsers' = LoopUsers \ {Xcb!Last(loops).user}
<1> DEFINE n == Len(loops)
<1>1. n \in Nat /\ DOMAIN loops = 1 .. n /\ n # 0
  BY LenProperties, EmptySeq DEF LoopsIInv
<1>2. /\ loops' \in Seq(Loops) /\ Len(loops') = n - 1
      /\ \A i \in 1 .. n - 1 : loops'[i] = loops[i]
  <2>1. 1 \in Int /\ n - 1 \in Int /\ \A i \in 1 .. n - 1 : i \in 1 .. n BY <1>1
  <2>2. \A i \in 1 .. n - 1 : loops[i] \in Loops
    BY <1>1, <2>1, ElementOfSeq DEF LoopsIInv
  <2> DEFINE front == SubSeq(loops, 1, n - 1)
  <2>3. /\ front \in Seq(Loops) /\ Len(front) = IF 1 <= n - 1 THEN (n - 1) - 1 + 1 ELSE 0
        /\ \A i \in 1 .. (n - 1) - 1 + 1 : front[i] = loops[1 + i - 1]
    BY <2>1, <2>2, SubSeqProperties
  <2>4. loops' = front BY DEF Xcb!Front
  <2> HIDE DEF front, n
  <2>5. Len(front) = n - 1 BY <1>1, <2>3
  <2>6. \A i \in 1 .. n - 1 : i \in 1 .. (n - 1) - 1 + 1 /\ 1 + i - 1 = i BY <1>1
  <2>7. \A i \in 1 .. n - 1 : front[i] = loops[i] BY <2>3, <2>6
  <2> QED BY <2>3, <2>4, <2>5, <2>7
<1>3. DOMAIN loops' = 1 .. n - 1 BY <1>2, LenProperties
<1>4. \A i \in DOMAIN loops : loops[i].user \in XcbUsers
  <2>1. \A i \in DOMAIN loops : loops[i] \in Loops
    BY <1>1, ElementOfSeq DEF LoopsIInv
  <2> QED BY <2>1 DEF Loops
<1>5. Xcb!Last(loops) = loops[n] /\ n \in DOMAIN loops BY <1>1 DEF Xcb!Last
<1>6. \A i \in DOMAIN loops : i = n \/ i \in DOMAIN loops' BY <1>1, <1>3
<1>7. \A i \in DOMAIN loops' : i \in DOMAIN loops /\ i # n /\ loops'[i] = loops[i]
  BY <1>1, <1>2, <1>3
<1> HIDE DEF n
<1>8. LoopUsers' = LoopUsers \ {loops[n].user}
  BY <1>5, <1>6, <1>7 DEF LoopUsers, LoopsIInv
<1>9. LoopsIInv' BY <1>2, <1>7 DEF LoopsIInv
<1> QED BY <1>4, <1>5, <1>8, <1>9 DEF LoopUsers

LEMMA QuitLoops ==
  ASSUME LoopsIInv, NEW hs, loops' = Xcb!Quit(hs)
  PROVE  LoopsIInv' /\ LoopUsers' = LoopUsers
<1>1. Len(loops) \in Nat /\ DOMAIN loops = 1 .. Len(loops)
  BY LenProperties DEF LoopsIInv
<1>2. \A i \in DOMAIN loops : loops[i] \in Loops
  BY <1>1, ElementOfSeq DEF LoopsIInv
<1>3. /\ DOMAIN loops' = DOMAIN loops
      /\ \A i \in DOMAIN loops : /\ loops'[i] \in Loops
                                 /\ loops'[i].user = loops[i].user
  BY <1>2 DEF Xcb!Quit, Loops
<1>4. loops' \in Seq(Loops)
  <2>1. loops' \in [1 .. Len(loops) -> Loops] BY <1>1, <1>3 DEF Xcb!Quit
  <2> QED BY <1>1, <2>1, SeqDef
<1>5. LoopUsers' = LoopUsers BY <1>3 DEF LoopUsers
<1> QED BY <1>3, <1>4, <1>5 DEF LoopsIInv

-----------------------------------------------------------------------------
LEMMA InitXcb == Xcb!Init => XcbIInv
<1> SUFFICES ASSUME Xcb!Init PROVE XcbIInv
  OBVIOUS
<1>1. <<>> \in Seq(Xcb!Handles) /\ <<>> \in Seq(Lifetimes) /\ <<>> \in Seq({"other", "stamp"})
      /\ <<>> \in Seq(Loops)
      /\ Len(<<>>) = 0 /\ DOMAIN <<>> = {}
  BY EmptySeq
<1>2. WireIInv BY <1>1, HooksAssumption DEF Xcb!Init, WireIInv
<1>3. HandlersIInv BY <1>1 DEF Xcb!Init, HandlersIInv
<1>4. MasksIInv BY <1>1 DEF Xcb!Init, MasksIInv, Xcb!MaskHasAdded
<1>5. LoopsIInv BY <1>1 DEF Xcb!Init, LoopsIInv
<1>6. SharedIInv
  BY <1>1 DEF Xcb!Init, SharedIInv, LoopUsers, Handlers, MaskUsers
<1> QED BY <1>2, <1>3, <1>4, <1>5, <1>6 DEF XcbIInv

\* Connections come and go when nobody uses them, or they fail.
LEMMA ConnectionStep ==
  ASSUME XcbIInv,
         (\E u \in XcbUsers : Xcb!Connect(u) \/ Xcb!Disconnect(u)) \/ Xcb!ConnectionFails
  PROVE  XcbIInv'
<1>1. UNCHANGED <<handlers, notifier, masks, loops, toldFailed, dropped>>
  BY DEF Xcb!Connect, Xcb!Disconnect, Xcb!ConnectionFails
<1>2. Handlers' = Handlers /\ MaskUsers' = MaskUsers /\ LoopUsers' = LoopUsers
  BY <1>1 DEF Handlers, MaskUsers, LoopUsers
<1>3. HandlersIInv' BY <1>1, <1>2 DEF XcbIInv, HandlersIInv
<1>4. LoopsIInv' BY <1>1 DEF XcbIInv, LoopsIInv
<1>5. <<>> \in Seq({"other", "stamp"}) /\ Len(<<>>) = 0 BY EmptySeq
<1>6. ASSUME NEW u \in XcbUsers, Xcb!Connect(u) PROVE XcbIInv'
  <2>1. /\ u \notin holders /\ holders' = holders \union {u} /\ wire' = wire /\ mask' = mask
        /\ connection = "none" => connection' \in {"up", "failed"}
        /\ connection # "none" => connection' = connection
    BY <1>6 DEF Xcb!Connect
  <2>2. WireIInv' BY <2>1 DEF XcbIInv, WireIInv
  <2>3. SharedIInv' BY <1>1, <1>2, <2>1 DEF XcbIInv, SharedIInv
  <2>4. connection = "none" => DOMAIN masks = {}
    BY DEF XcbIInv, SharedIInv, MaskUsers
  <2>5. Xcb!MaskHasAdded'
    BY <1>1, <2>1, <2>4 DEF XcbIInv, MasksIInv, Xcb!MaskHasAdded, Xcb!HasError
  <2>6. MasksIInv' BY <1>1, <2>1, <2>5 DEF XcbIInv, MasksIInv
  <2> QED BY <1>3, <1>4, <2>2, <2>3, <2>6 DEF XcbIInv
<1>7. ASSUME NEW u \in XcbUsers, Xcb!Disconnect(u) PROVE XcbIInv'
  <2>1. /\ ~Xcb!Uses(u) /\ holders' = holders \ {u}
        /\ holders' = {} => connection' = "none" /\ wire' = <<>> /\ mask' = {}
        /\ holders' # {} => UNCHANGED <<connection, wire, mask>>
    BY <1>7 DEF Xcb!Disconnect
  <2>2. u \notin LoopUsers /\ <<u, "own">> \notin Handlers \union MaskUsers
    <3>1. handlers \in Seq(Xcb!Handles) BY DEF XcbIInv, HandlersIInv
    <3>2. /\ Xcb!Contains(handlers, <<u, "own">>) <=> <<u, "own">> \in Handlers
          /\ Xcb!HasMask(<<u, "own">>) <=> <<u, "own">> \in MaskUsers
          /\ Xcb!InLoop(u) <=> u \in LoopUsers
      BY <3>1, LenProperties
         DEF Xcb!Contains, Xcb!HasMask, Xcb!InLoop, Handlers, MaskUsers, LoopUsers
    <3> QED BY <2>1, <3>2 DEF Xcb!Uses
  <2>3. <<u, "stamp">> \notin Handlers \union MaskUsers
    BY <2>2 DEF XcbIInv, SharedIInv
  <2>4. Handlers \subseteq Xcb!Handles
    <3>1. \A i \in DOMAIN handlers : handlers[i] \in Xcb!Handles
      BY ElementOfSeq, LenProperties DEF XcbIInv, HandlersIInv
    <3> QED BY <3>1 DEF Handlers
  <2>5. MaskUsers \subseteq Xcb!Handles
    <3>1. \A i \in DOMAIN masks : masks[i] \in Lifetimes
      BY ElementOfSeq, LenProperties DEF XcbIInv, MasksIInv
    <3> QED BY <3>1 DEF MaskUsers, Lifetimes
  <2>6. \A h \in Handlers \union MaskUsers : h[1] # u
    BY <2>2, <2>3, <2>4, <2>5 DEF Xcb!Handles
  <2>7. WireIInv'
    <3>1. CASE holders' = {}
      <4>1. connection' = "none" /\ wire' = <<>> BY <2>1, <3>1
      <4>2. wire' \in Seq({"other", "stamp"}) /\ Len(wire') <= MaxWire
        BY <1>5, <4>1, HooksAssumption
      <4> QED BY <3>1, <4>1, <4>2 DEF WireIInv
    <3>2. CASE holders' # {}
      BY <2>1, <3>2 DEF XcbIInv, WireIInv
    <3> QED BY <3>1, <3>2
  <2>8. holders' = {} => notifier = "none"
    <3>1. holders' = {} => Handlers = {} BY <2>1, <2>6 DEF XcbIInv, SharedIInv
    <3>2. Handlers = {} => handlers = <<>>
      <4> SUFFICES ASSUME Handlers = {} PROVE handlers = <<>>
        OBVIOUS
      <4>1. DOMAIN handlers = {} BY DEF Handlers
      <4> QED BY <4>1, EmptySeq, LenProperties DEF XcbIInv, HandlersIInv
    <3> QED BY <3>1, <3>2 DEF XcbIInv, HandlersIInv
  <2>9. SharedIInv'
    BY <1>1, <1>2, <2>1, <2>6, <2>8 DEF XcbIInv, SharedIInv
  <2>10. Xcb!MaskHasAdded'
    BY <1>1, <2>1 DEF XcbIInv, MasksIInv, Xcb!MaskHasAdded, Xcb!HasError
  <2>11. MasksIInv' BY <1>1, <2>1, <2>10 DEF XcbIInv, MasksIInv
  <2> QED BY <1>3, <1>4, <2>7, <2>9, <2>11 DEF XcbIInv
<1>8. CASE Xcb!ConnectionFails
  <2>1. /\ connection = "up" /\ connection' = "failed" /\ wire' = <<>>
        /\ UNCHANGED <<holders, mask>>
    BY <1>8 DEF Xcb!ConnectionFails
  <2>2. WireIInv' BY <1>5, <2>1, HooksAssumption DEF XcbIInv, WireIInv
  <2>3. SharedIInv' BY <1>1, <1>2, <2>1 DEF XcbIInv, SharedIInv
  <2>4. Xcb!MaskHasAdded' BY <2>1 DEF Xcb!MaskHasAdded, Xcb!HasError
  <2>5. MasksIInv' BY <1>1, <2>1, <2>4 DEF XcbIInv, MasksIInv
  <2> QED BY <1>3, <1>4, <2>2, <2>3, <2>5 DEF XcbIInv
<1> QED BY <1>6, <1>7, <1>8

LEMMA MasksStay ==
  ASSUME MasksIInv, UNCHANGED <<mask, masks, dropped, connection>>
  PROVE  MasksIInv' /\ MaskUsers' = MaskUsers
BY DEF MasksIInv, MaskUsers, Xcb!MaskHasAdded, Xcb!HasError
LEMMA HandlersStay ==
  ASSUME HandlersIInv, UNCHANGED <<handlers, notifier, toldFailed>>
  PROVE  HandlersIInv' /\ Handlers' = Handlers
BY DEF HandlersIInv, Handlers
LEMMA LoopsStay ==
  ASSUME LoopsIInv, UNCHANGED loops PROVE LoopsIInv' /\ LoopUsers' = LoopUsers
BY DEF LoopsIInv, LoopUsers
LEMMA WireStays ==
  ASSUME WireIInv, UNCHANGED <<connection, holders, wire>> PROVE WireIInv'
BY DEF WireIInv

\* The handlers and masks of a user, other than those of GetTimestamp().
LEMMA OwnStep ==
  ASSUME XcbIInv, NEW u \in XcbUsers,
         \/ Xcb!InstallEventHandler(u) \/ Xcb!RemoveEventHandler(u)
         \/ Xcb!ChangeWindowEventMask(u) \/ Xcb!RevertWindowEventMask(u)
  PROVE  XcbIInv'
<1> DEFINE h == <<u, "own">>
<1>0. WireIInv /\ HandlersIInv /\ MasksIInv /\ LoopsIInv /\ SharedIInv BY DEF XcbIInv
<1>1. /\ h \in Xcb!Handles /\ h[1] = u /\ \A v : h # <<v, "stamp">>
      /\ Xcb!Contains(handlers, h) <=> h \in Handlers
      /\ Xcb!HasMask(h) <=> h \in MaskUsers
  <2>1. handlers \in Seq(Xcb!Handles) BY <1>0 DEF HandlersIInv
  <2>2. \A g : /\ Xcb!Contains(handlers, g) <=> g \in Handlers
               /\ Xcb!HasMask(g) <=> g \in MaskUsers
    BY <2>1, LenProperties DEF Xcb!Contains, Xcb!HasMask, Handlers, MaskUsers
  <2>3. h \in Xcb!Handles BY <2>1, NamesOfHandlers
  <2> QED BY <2>2, <2>3
<1>2. UNCHANGED <<connection, holders, wire, loops>>
  BY DEF Xcb!InstallEventHandler, Xcb!RemoveEventHandler, Xcb!ChangeWindowEventMask,
         Xcb!RevertWindowEventMask
<1>3. WireIInv' /\ LoopsIInv' /\ LoopUsers' = LoopUsers
  BY <1>0, <1>2, WireStays, LoopsStay
<1>4. CASE Xcb!InstallEventHandler(u)
  <2>1. /\ u \in holders /\ connection = "up" /\ h \notin Handlers /\ Xcb!Installed(h)
        /\ UNCHANGED <<mask, masks, toldFailed, dropped>>
    BY <1>1, <1>4 DEF Xcb!InstallEventHandler, Xcb!HasError
  <2>2. notifier # "null" BY <1>0, <2>1 DEF SharedIInv
  <2> HIDE DEF h
  <2>3. HandlersIInv' /\ Handlers' = Handlers \union {h} /\ notifier' # "null"
    BY <1>0, <1>1, <2>1, <2>2, InstallHandler
  <2>4. MasksIInv' /\ MaskUsers' = MaskUsers BY <1>0, <1>2, <2>1, MasksStay
  <2>5. SharedIInv' BY <1>0, <1>1, <1>2, <1>3, <2>1, <2>3, <2>4 DEF SharedIInv
  <2> QED BY <1>3, <2>3, <2>4, <2>5 DEF XcbIInv
<1>5. CASE Xcb!RemoveEventHandler(u)
  <2>1. h \in Handlers /\ Xcb!Removed(h) /\ UNCHANGED <<mask, masks, dropped>>
    BY <1>1, <1>5 DEF Xcb!RemoveEventHandler
  <2> HIDE DEF h
  <2>2. /\ HandlersIInv' /\ Handlers' = Handlers \ {h}
        /\ notifier' = "null" => notifier = "null"
    BY <1>0, <2>1, RemoveHandler
  <2>3. MasksIInv' /\ MaskUsers' = MaskUsers BY <1>0, <1>2, <2>1, MasksStay
  <2>4. SharedIInv' BY <1>0, <1>1, <1>2, <1>3, <2>1, <2>2, <2>3 DEF SharedIInv
  <2> QED BY <1>3, <2>2, <2>3, <2>4 DEF XcbIInv
<1>6. CASE Xcb!ChangeWindowEventMask(u)
  <2>1. /\ u \in holders /\ connection = "up" /\ h \notin MaskUsers
        /\ UNCHANGED <<handlers, notifier, toldFailed>>
    BY <1>1, <1>6 DEF Xcb!ChangeWindowEventMask, Xcb!HasError
  <2>2. PICK bits \in SUBSET Bits, mode \in {"Add", "Remove", "Replace"} :
          Xcb!ChangeMask(h, bits, mode)
    BY <1>6 DEF Xcb!ChangeWindowEventMask
  <2> HIDE DEF h
  <2>3. MasksIInv' /\ MaskUsers' = MaskUsers \union {h}
    BY <1>0, <1>1, <1>2, <2>1, <2>2, InstallMask
  <2>4. HandlersIInv' /\ Handlers' = Handlers BY <1>0, <2>1, HandlersStay
  <2>5. SharedIInv' BY <1>0, <1>1, <1>2, <1>3, <2>1, <2>3, <2>4 DEF SharedIInv
  <2> QED BY <1>3, <2>3, <2>4, <2>5 DEF XcbIInv
<1>7. CASE Xcb!RevertWindowEventMask(u)
  <2>1. /\ h \in MaskUsers /\ Xcb!RevertMask(h)
        /\ UNCHANGED <<handlers, notifier, toldFailed>>
    BY <1>1, <1>7 DEF Xcb!RevertWindowEventMask
  <2> HIDE DEF h
  <2>2. MasksIInv' /\ MaskUsers' = MaskUsers \ {h} BY <1>0, <1>2, <2>1, TakeMask
  <2>3. HandlersIInv' /\ Handlers' = Handlers BY <1>0, <2>1, HandlersStay
  <2>4. SharedIInv' BY <1>0, <1>1, <1>2, <1>3, <2>1, <2>2, <2>3 DEF SharedIInv
  <2> QED BY <1>3, <2>2, <2>3, <2>4 DEF XcbIInv
<1> QED BY <1>4, <1>5, <1>6, <1>7

\* What the server sends is read while there is room.
LEMMA WireAppended ==
  ASSUME WireIInv, NEW e \in {"other", "stamp"}, Len(wire) < MaxWire,
         wire' = Append(wire, e), UNCHANGED <<connection, holders>>
  PROVE  WireIInv'
<1>1. wire' \in Seq({"other", "stamp"}) /\ Len(wire') = Len(wire) + 1
  BY AppendProperties DEF WireIInv
<1>2. Len(wire) \in Nat BY LenProperties DEF WireIInv
<1> QED BY <1>1, <1>2, HooksAssumption DEF WireIInv

\* GetTimestamp() comes with a handler and a mask, and goes with them.
LEMMA StampStep ==
  ASSUME XcbIInv, (\E u \in XcbUsers : Xcb!GetTimestamp(u)) \/ Xcb!GotTimestamp
  PROVE  XcbIInv'
<1>0. WireIInv /\ HandlersIInv /\ MasksIInv /\ LoopsIInv /\ SharedIInv BY DEF XcbIInv
<1>1. ASSUME NEW u \in XcbUsers, Xcb!GetTimestamp(u) PROVE XcbIInv'
  <2> DEFINE h == <<u, "stamp">>
  <2>1. /\ u \in holders /\ connection = "up" /\ u \notin LoopUsers
        /\ Xcb!ChangeMask(h, {PropertyChange}, "Add") /\ Xcb!Installed(h)
        /\ loops' = Append(loops, [user |-> u, quit |-> FALSE])
        /\ UNCHANGED <<connection, holders, toldFailed>>
    BY <1>0, <1>1, NamesOfHandlers DEF HandlersIInv, Xcb!GetTimestamp, Xcb!HasError
  <2>2. WireIInv'
    <3>1. Len(wire) < MaxWire /\ (wire' = wire \/ wire' = Append(wire, "stamp"))
      BY <1>1 DEF Xcb!GetTimestamp
    <3>2. "stamp" \in {"other", "stamp"} OBVIOUS
    <3> QED BY <1>0, <2>1, <3>1, <3>2, WireStays, WireAppended
  <2>3. h \in Xcb!Handles /\ h[1] = u /\ h \notin Handlers /\ h \notin MaskUsers
    BY <1>0, <2>1, NamesOfHandlers DEF HandlersIInv, SharedIInv
  <2>4. notifier # "null" BY <1>0, <2>1 DEF SharedIInv
  <2>5. \A v : h = <<v, "stamp">> <=> v = u OBVIOUS
  <2> HIDE DEF h
  <2>6. HandlersIInv' /\ Handlers' = Handlers \union {h} /\ notifier' # "null"
    BY <1>0, <2>1, <2>3, <2>4, InstallHandler
  <2>7. MasksIInv' /\ MaskUsers' = MaskUsers \union {h}
    <3>1. {PropertyChange} \in SUBSET Bits /\ "Add" \in {"Add", "Remove", "Replace"}
      BY HooksAssumption
    <3> QED BY <1>0, <2>1, <2>3, <3>1, InstallMask
  <2>8. LoopsIInv' /\ LoopUsers' = LoopUsers \union {u} BY <1>0, <2>1, PushLoop
  <2>9. SharedIInv'
    BY <1>0, <2>1, <2>3, <2>5, <2>6, <2>7, <2>8 DEF SharedIInv
  <2> QED BY <2>2, <2>6, <2>7, <2>8, <2>9 DEF XcbIInv
<1>2. CASE Xcb!GotTimestamp
  <2> DEFINE u == Xcb!Last(loops).user
             h == <<u, "stamp">>
  <2>1. /\ loops # <<>> /\ loops' = Xcb!Front(loops)
        /\ Xcb!Removed(h) /\ Xcb!RevertMask(h)
        /\ UNCHANGED <<connection, holders, wire>>
    BY <1>2 DEF Xcb!GotTimestamp
  <2>2. LoopsIInv' /\ u \in LoopUsers /\ u \in XcbUsers /\ LoopUsers' = LoopUsers \ {u}
    BY <1>0, <2>1, PopLoop
  <2>3. h \in Handlers /\ h \in MaskUsers BY <1>0, <2>2 DEF SharedIInv
  <2>4. \A v : h = <<v, "stamp">> <=> v = u OBVIOUS
  <2> HIDE DEF u, h
  <2>5. /\ HandlersIInv' /\ Handlers' = Handlers \ {h}
        /\ notifier' = "null" => notifier = "null"
    BY <1>0, <2>1, <2>3, RemoveHandler
  <2>6. MasksIInv' /\ MaskUsers' = MaskUsers \ {h} BY <1>0, <2>1, <2>3, TakeMask
  <2>7. WireIInv' BY <1>0, <2>1, WireStays
  <2>8. SharedIInv'
    BY <1>0, <2>1, <2>2, <2>4, <2>5, <2>6 DEF SharedIInv
  <2> QED BY <2>2, <2>5, <2>6, <2>7, <2>8 DEF XcbIInv
<1> QED BY <1>1, <1>2

LEMMA EventStep ==
  ASSUME XcbIInv, Xcb!Dispatch \/ Xcb!ServerEvent PROVE XcbIInv'
<1>0. WireIInv /\ HandlersIInv /\ MasksIInv /\ LoopsIInv /\ SharedIInv BY DEF XcbIInv
<1>1. UNCHANGED <<connection, holders, handlers, mask, masks, dropped>>
  BY DEF Xcb!Dispatch, Xcb!DispatchEvent, Xcb!DispatchError, Xcb!ServerEvent
<1>2. MasksIInv' /\ MaskUsers' = MaskUsers BY <1>0, <1>1, MasksStay
<1>3. LoopsIInv' /\ LoopUsers' = LoopUsers
  <2>1. loops' = loops \/ loops' = Xcb!Quit(Xcb!ToSet(handlers))
    BY DEF Xcb!Dispatch, Xcb!DispatchEvent, Xcb!DispatchError, Xcb!ServerEvent
  <2> QED BY <1>0, <2>1, LoopsStay, QuitLoops
<1>4. CASE Xcb!DispatchEvent \/ Xcb!ServerEvent
  <2>1. UNCHANGED <<notifier, toldFailed>>
    BY <1>4 DEF Xcb!DispatchEvent, Xcb!ServerEvent
  <2>2. HandlersIInv' /\ Handlers' = Handlers BY <1>0, <1>1, <2>1, HandlersStay
  <2>3. WireIInv'
    <3>1. CASE wire # <<>> /\ wire' = Tail(wire)
      <4>1. /\ wire' \in Seq({"other", "stamp"}) /\ Len(wire') = Len(wire) - 1
        BY <1>0, <3>1, HeadTailProperties DEF WireIInv
      <4>2. Len(wire) \in Nat BY <1>0, LenProperties DEF WireIInv
      <4> QED BY <1>0, <1>1, <4>1, <4>2, HooksAssumption DEF WireIInv
    <3>2. CASE Len(wire) < MaxWire /\ wire' = Append(wire, "other")
      <4>1. "other" \in {"other", "stamp"} OBVIOUS
      <4> QED BY <1>0, <1>1, <3>2, <4>1, WireAppended
    <3> QED BY <1>4, <3>1, <3>2 DEF Xcb!DispatchEvent, Xcb!ServerEvent
  <2>4. SharedIInv' BY <1>0, <1>1, <1>2, <1>3, <2>1, <2>2 DEF SharedIInv
  <2> QED BY <1>2, <1>3, <2>2, <2>3, <2>4 DEF XcbIInv
<1>5. CASE Xcb!DispatchError
  <2>1. /\ notifier = "on" /\ connection # "up" /\ notifier' = "null" /\ wire' = wire
        /\ toldFailed' = toldFailed \union Handlers
    BY <1>0, <1>5, NamesOfHandlers DEF HandlersIInv, Xcb!DispatchError, Xcb!HasError
  <2>2. WireIInv' BY <1>0, <1>1, <2>1, WireStays
  <2>3. Handlers' = Handlers BY <1>1 DEF Handlers
  <2>4. Handlers \subseteq Xcb!Handles
    <3>1. \A i \in DOMAIN handlers : handlers[i] \in Xcb!Handles
      BY <1>0, ElementOfSeq, LenProperties DEF HandlersIInv
    <3> QED BY <3>1 DEF Handlers
  <2>5. HandlersIInv' BY <1>0, <1>1, <2>1, <2>3, <2>4 DEF HandlersIInv
  <2>6. connection = "failed"
    <3>1. Handlers # {}
      <4>1. handlers # <<>> BY <1>0, <2>1 DEF HandlersIInv
      <4>2. Len(handlers) \in Nat \ {0} /\ DOMAIN handlers = 1 .. Len(handlers)
        BY <1>0, <4>1, LenProperties, EmptySeq DEF HandlersIInv
      <4>3. 1 \in DOMAIN handlers BY <4>2
      <4> QED BY <4>3 DEF Handlers
    <3>2. holders # {} BY <1>0, <3>1 DEF SharedIInv
    <3> QED BY <1>0, <2>1, <3>2 DEF SharedIInv, WireIInv
  <2>7. SharedIInv' BY <1>0, <1>1, <1>2, <1>3, <2>3, <2>6 DEF SharedIInv
  <2> QED BY <1>2, <1>3, <2>2, <2>5, <2>7 DEF XcbIInv
<1> QED BY <1>4, <1>5 DEF Xcb!Dispatch

LEMMA NextXcb == XcbIInv /\ [Xcb!Next]_xcbVars => XcbIInv'
<1> SUFFICES ASSUME XcbIInv, [Xcb!Next]_xcbVars PROVE XcbIInv'
  OBVIOUS
<1>1. CASE UNCHANGED xcbVars
  BY <1>1, MasksStay, HandlersStay, LoopsStay, WireStays
     DEF xcbVars, XcbIInv, SharedIInv
<1>2. CASE Xcb!Next
  BY <1>2, ConnectionStep, OwnStep, StampStep, EventStep DEF Xcb!Next
<1> QED BY <1>1, <1>2

LEMMA XcbServes ==
  XcbIInv => Xcb!TypeOK /\ Xcb!HandlersAreServed /\ Xcb!MaskHasAdded
<1> SUFFICES ASSUME XcbIInv
             PROVE  Xcb!TypeOK /\ Xcb!HandlersAreServed /\ Xcb!MaskHasAdded
  OBVIOUS
<1>0. WireIInv /\ HandlersIInv /\ MasksIInv /\ LoopsIInv /\ SharedIInv BY DEF XcbIInv
<1>1. Xcb!TypeOK
  <2>1. Xcb!IsInjective(handlers) BY <1>0 DEF HandlersIInv, Xcb!IsInjective
  <2> QED BY <1>0, <2>1 DEF Xcb!TypeOK, WireIInv, HandlersIInv, MasksIInv, LoopsIInv, Lifetimes, Loops
<1>2. Xcb!HandlersAreServed
  <2>1. (notifier = "none") = (handlers = <<>>) BY <1>0 DEF HandlersIInv
  <2>2. connection = "none" => handlers = <<>>
    <3> SUFFICES ASSUME connection = "none" PROVE handlers = <<>>
      OBVIOUS
    <3>1. Handlers = {} BY <1>0 DEF SharedIInv
    <3>2. DOMAIN handlers = {} BY <3>1 DEF Handlers
    <3> QED BY <1>0, <3>2, EmptySeq, LenProperties DEF HandlersIInv
  <2>3. Xcb!ToSet(handlers) = Handlers BY <1>0, NamesOfHandlers DEF HandlersIInv
  <2> QED BY <1>0, <2>1, <2>2, <2>3
          DEF Xcb!HandlersAreServed, HandlersIInv, SharedIInv, Xcb!HasError
<1> QED BY <1>0, <1>1, <1>2 DEF MasksIInv

-----------------------------------------------------------------------------
(* All parts *)

LEMMA MCSteps ==
  MCSpec => /\ Init /\ X11!Init /\ Xcb!Init
            /\ [][[Next]_vars /\ [X11!Next]_x11Vars /\ [Xcb!Next]_xcbVars]_MCVars
<1>1. [MCNext]_MCVars => [[Next]_vars /\ [X11!Next]_x11Vars /\ [Xcb!Next]_xcbVars]_MCVars
  BY DEF MCNext, MCVars
<1>2. MCInit => Init /\ X11!Init /\ Xcb!Init BY DEF MCInit
<1> QED BY <1>1, <1>2, PTL DEF MCSpec

HooksIInv == IInv /\ X11IInv /\ XcbIInv

LEMMA SpecHooks == MCSpec => []HooksIInv
<1>1. Init /\ X11!Init /\ Xcb!Init => HooksIInv
  BY InitIInv, InitX11, InitXcb DEF HooksIInv
<1>2. HooksIInv /\ [[Next]_vars /\ [X11!Next]_x11Vars /\ [Xcb!Next]_xcbVars]_MCVars
        => HooksIInv'
  <2> SUFFICES ASSUME HooksIInv,
                      [[Next]_vars /\ [X11!Next]_x11Vars /\ [Xcb!Next]_xcbVars]_MCVars
               PROVE  HooksIInv'
    OBVIOUS
  <2>1. [Next]_vars /\ [X11!Next]_x11Vars /\ [Xcb!Next]_xcbVars BY DEF MCVars
  <2> QED BY <2>1, StepKeepsIInv, NextX11, NextXcb DEF HooksIInv
<1> QED BY <1>1, <1>2, MCSteps, PTL

\* Whatever is watched and recorded, read from the X server or changed on its root
\* window, the manager, the hook and the connection keep their members' types.
THEOREM HooksTypes == MCSpec => []TypesOK
<1>1. HooksIInv => TypesOK
  BY XcbServes DEF HooksIInv, IInv, X11IInv, TypesOK
<1> QED BY <1>1, SpecHooks, PTL

\* For any keys and users and replies of any length: what the X11 hook told is
\* down is down, except a key whose last event it could not see; a handler of X11
\* events is served as long as it lives; and the root window's mask has what each
\* lifetime added, in whatever order lifetimes that no other dropped end.
THEOREM UsersGetTheirEvents == MCSpec => []EventsReachUsers
<1>1. HooksIInv => EventsReachUsers
  BY X11Tells, XcbServes DEF HooksIInv, EventsReachUsers
<1> QED BY <1>1, SpecHooks, PTL
=============================================================================
