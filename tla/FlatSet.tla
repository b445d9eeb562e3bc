------------------------------ MODULE FlatSet ------------------------------
(***************************************************************************)
(* base::flat_multi_set and base::flat_set (flat_set.h): a vector that is  *)
(* kept sorted and searched by bisection.  A flat_set holds no item twice. *)
(* Items are compared by value.  ItemBag says what both promise.           *)
(***************************************************************************)
EXTENDS Integers, FiniteSets, SequencesExt

CONSTANTS
  Items,       \* integers
  MaxSize,     \* bound: the size from which nothing is inserted
  MaxList,     \* bound: items constructed from, or merged, at once
  MaxPassed    \* bound: items that modify() moves an item past

VARIABLES
  unique,      \* a flat_set, which is a flat_multi_set that ...
  elements,    \* impl()
  returned     \* by the last operation: how many items it found, put or removed

vars == <<unique, elements, returned>>

size == Len(elements)
Bool(b) == IF b THEN 1 ELSE 0

\* std::lower_bound, std::upper_bound and std::equal_range of a sorted vector.
Below(s, x) == Cardinality({i \in DOMAIN s : s[i] < x})
UpTo(s, x)  == Cardinality({i \in DOMAIN s : s[i] <= x})
LowerBound(x) == Below(elements, x) + 1
UpperBound(x) == UpTo(elements, x) + 1

Put(where, x) ==
  /\ elements' = InsertAt(elements, where, x) /\ returned' = 1 /\ UNCHANGED unique

Cut(first, last) ==
  /\ elements' = [i \in 1 .. size - (last - first) |->
                    elements[IF i < first THEN i ELSE i + last - first]]
  /\ returned' = last - first /\ UNCHANGED unique

Found(n) == returned' = n /\ UNCHANGED <<unique, elements>>

\* Nothing that equals x can be in the vector, by its ends.
Outside(x) == size = 0 \/ x < elements[1] \/ elements[size] < x

-----------------------------------------------------------------------------
\* insert() and emplace() of flat_multi_set ...
insert(x) ==
  /\ ~unique /\ size < MaxSize
  /\ Put(IF size = 0 \/ elements[size] <= x THEN size + 1 ELSE UpperBound(x), x)

\* ... and of flat_set.
insertUnique(x) ==
  /\ unique /\ size < MaxSize
  /\ IF size = 0 \/ elements[size] < x THEN Put(size + 1, x)
     ELSE IF x < elements[LowerBound(x)] THEN Put(LowerBound(x), x)
     ELSE Found(0)

\* removeOne(), remove()
removeOne(x) ==
  IF Outside(x) \/ x < elements[LowerBound(x)] THEN Found(0)
  ELSE Cut(LowerBound(x), LowerBound(x) + 1)

\* removeAll(), and erase() of a value
removeAll(x) ==
  IF Outside(x) THEN Found(0) ELSE Cut(LowerBound(x), UpperBound(x))

\* erase() of iterators, and clear()
erase(from, till) == from <= till /\ Cut(from, till)

\* contains(), findFirst() and find(); count()
contains(x) == Found(Bool(~(Outside(x) \/ x < elements[LowerBound(x)])))
count(x) == Found(IF Outside(x) THEN 0 ELSE UpperBound(x) - LowerBound(x))

-----------------------------------------------------------------------------
\* std::sort, and flat_set's finalize(), which leaves one of the items that are
\* equal: at n is the item that has n items, with itself, up to it.
Sort(s) == [n \in DOMAIN s |-> CHOOSE x \in ToSet(s) : Below(s, x) < n /\ n <= UpTo(s, x)]

Unique(S) == [n \in 1 .. Cardinality(S) |->
                CHOOSE x \in S : Cardinality({y \in S : y <= x}) = n]
finalize(s) == IF unique THEN Unique(ToSet(s)) ELSE s

\* The constructors.
Construct(list) == elements = finalize(Sort(list))

merge(list) ==
  /\ size + Len(list) <= MaxSize
  /\ elements' = finalize(Sort(elements \o list))
  /\ returned' = Len(elements') /\ UNCHANGED unique

-----------------------------------------------------------------------------
\* Where a loop of modify() has got to: whether it goes on, and what it found.
Going(s)         == [items |-> s, ended |-> FALSE, erased |-> FALSE]
Ended(s, erased) == [items |-> s, ended |-> TRUE, erased |-> erased]

\* One turn: the item at i changes places with the one at which if the two are
\* out of order, or else the loop ends.  The iterator which stays where it is.
Turn(at, which, i) ==
  LET low == IF i < which THEN i ELSE which
      high == IF i < which THEN which ELSE i
      s == at.items
  IN  IF at.ended THEN at
      ELSE IF s[high] < s[low] THEN Going([s EXCEPT ![i] = s[which], ![which] = s[i]])
      ELSE Ended(s, unique /\ s[i] = s[which])

Loop(at, which, way) ==
  LET after[n \in 0 .. Len(way)] ==
        IF n = 0 THEN at ELSE Turn(after[n - 1], which, way[n])
  IN  after[Len(way)]

Forward(at, which) == Loop(at, which, [n \in 1 .. size - which |-> which + n])

Backward(at, which) ==
  IF at.erased THEN at
  ELSE Loop(Going(at.items), which, [n \in 1 .. which - 1 |-> which - n])

\* The items that an item at which has to pass, or to meet, on its way to x.
Passed(which, x) == {i \in 1 .. size \ {which} :
                       \/ elements[which] <= elements[i] /\ elements[i] <= x
                       \/ x <= elements[i] /\ elements[i] <= elements[which]}

\* modify(), with an action that makes the item x.
modifyMutant(which, x) ==
  /\ Cardinality(Passed(which, x)) <= MaxPassed
  /\ elements' = Forward(Going([elements EXCEPT ![which] = x]), which).items
  /\ returned' = 1 /\ UNCHANGED unique

modify(which, x) ==
  /\ Cardinality(Passed(which, x)) <= MaxPassed
  /\ LET end == Backward(Forward(Going([elements EXCEPT ![which] = x]), which), which)
     IN  elements' = IF end.erased THEN RemoveAt(end.items, which) ELSE end.items
  /\ returned' = 1 /\ UNCHANGED unique

-----------------------------------------------------------------------------
Init == /\ unique \in BOOLEAN /\ returned = 0
        /\ \E list \in BoundedSeq(Items, MaxList) : Construct(list)

Next == \/ \E x \in Items :
             \/ insert(x) \/ insertUnique(x) \/ removeOne(x) \/ removeAll(x)
             \/ contains(x) \/ count(x)
             \/ \E which \in 1 .. size : modify(which, x)
        \/ \E from, till \in 1 .. size + 1 : erase(from, till)
        \/ \E list \in BoundedSeq(Items, MaxList) : merge(list)

Spec == Init /\ [][Next]_vars

-----------------------------------------------------------------------------
\* The type invariant.
TypeOK == unique \in BOOLEAN /\ elements \in Seq(Items) /\ returned \in Nat

\* Items are sorted, as every search relies on, and those of a flat_set are
\* strictly so: no item is there twice.
Sorted ==
  \A i \in 1 .. size - 1 : IF unique THEN elements[i] < elements[i + 1]
                                     ELSE elements[i] <= elements[i + 1]

\* "flat_sets should keep items sorted" (flat_set_tests.cpp:30).
FlatSetSorted == unique => Sorted

Occurrences(s, x) == Cardinality({i \in DOMAIN s : s[i] = x})
bag == [x \in Items |-> Occurrences(elements, x)]
Abstract == INSTANCE ItemBag

\* Every operation does what ItemBag says of it, and returns that: nothing is
\* lost, kept or found that should not be, in either container.
Implements ==
  /\ \A x \in Items :
       /\ insert(x) \/ insertUnique(x) => Abstract!insert(x)
       /\ removeOne(x) => Abstract!remove(x, 1)
       /\ removeAll(x) => Abstract!remove(x, bag[x])
       /\ contains(x)  => Abstract!contains(x)
       /\ count(x)     => Abstract!count(x)
       /\ \A i \in 1 .. size : modify(i, x) => Abstract!modify(elements[i], x)
  /\ \A from, till \in 1 .. size + 1 : erase(from, till) => Abstract!erase
  /\ \A list \in BoundedSeq(Items, MaxList) :
       merge(list) => Abstract!merge([x \in Items |-> Occurrences(list, x)])
=============================================================================
