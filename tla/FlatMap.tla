------------------------------ MODULE FlatMap ------------------------------
(***************************************************************************)
(* base::flat_multi_map and base::flat_map (flat_map.h): a vector of pairs *)
(* that is kept sorted by key and searched by bisection.  A flat_map holds *)
(* no key twice.  KeyedValues says what both promise.                      *)
(***************************************************************************)
EXTENDS Integers, FiniteSets, SequencesExt

CONSTANTS
  Keys,        \* integers
  Values,
  Default,     \* Type(), one of Values
  None,        \* no value
  MaxSize,     \* bound: the size from which nothing is inserted
  MaxList      \* bound: pairs constructed from

VARIABLES
  unique,      \* a flat_map, which is a flat_multi_map that ...
  elements,    \* impl()
  returned     \* by the last operation: how many pairs it put or removed, or
               \* the value it found, or None

vars == <<unique, elements, returned>>

Pairs == [first : Keys, second : Values]
Pair(k, v) == [first |-> k, second |-> v]
key(i) == elements[i].first
size == Len(elements)

\* std::lower_bound, std::upper_bound and std::equal_range of a sorted vector.
LowerBound(k) == Cardinality({i \in 1 .. size : key(i) < k}) + 1
UpperBound(k) == Cardinality({i \in 1 .. size : key(i) <= k}) + 1

Put(where, pair) == elements' = InsertAt(elements, where, pair) /\ UNCHANGED unique

Cut(first, last) ==
  /\ elements' = [i \in 1 .. size - (last - first) |->
                    elements[IF i < first THEN i ELSE i + last - first]]
  /\ UNCHANGED unique

Result(r) == returned' = r
Keep == UNCHANGED <<unique, elements>>

\* The key can be nowhere in the vector, by its ends; or it is not.
Outside(k) == size = 0 \/ k < key(1) \/ key(size) < k
Missing(k) == Outside(k) \/ k < key(LowerBound(k))

\* In flat_map: the key goes to the end; or before another one; or is there.
AtEnd(k) == size = 0 \/ key(size) < k
IsNew(k) == AtEnd(k) \/ k < key(LowerBound(k))
Place(k) == IF AtEnd(k) THEN size + 1 ELSE LowerBound(k)

-----------------------------------------------------------------------------
\* insert() and emplace() of flat_multi_map ...
insert(pair) ==
  /\ ~unique /\ size < MaxSize
  /\ Put(IF size = 0 \/ key(size) <= pair.first THEN size + 1
         ELSE UpperBound(pair.first), pair)
  /\ Result(1)

\* ... and of flat_map, and try_emplace().
insertUnique(pair) ==
  /\ unique /\ size < MaxSize
  /\ IF IsNew(pair.first) THEN Put(Place(pair.first), pair) /\ Result(1)
     ELSE Keep /\ Result(0)

\* insert_or_assign() and emplace_or_assign()
insert_or_assign(pair) ==
  /\ unique /\ size < MaxSize
  /\ IF IsNew(pair.first) THEN Put(Place(pair.first), pair) /\ Result(1)
     ELSE /\ elements' = [elements EXCEPT ![LowerBound(pair.first)] = pair]
          /\ UNCHANGED unique /\ Result(0)

\* operator[]
subscript(k) ==
  /\ unique /\ size < MaxSize
  /\ IF IsNew(k) THEN Put(Place(k), Pair(k, Default)) /\ Result(Default)
     ELSE Keep /\ Result(elements[LowerBound(k)].second)

\* A caller assigns to the value that an iterator or operator[] refers to.
Assign(i, v) ==
  /\ elements' = [elements EXCEPT ![i].second = v] /\ UNCHANGED unique /\ Result(0)

\* removeOne(), and flat_map's remove()
removeOne(k) ==
  IF Missing(k) THEN Keep /\ Result(0)
  ELSE Cut(LowerBound(k), LowerBound(k) + 1) /\ Result(1)

\* removeAll(), and erase() of a key
removeAll(k) ==
  IF Outside(k) THEN Keep /\ Result(0)
  ELSE Cut(LowerBound(k), UpperBound(k)) /\ Result(UpperBound(k) - LowerBound(k))

\* remove() of a key and a value, which flat_map hides
removeMutant(k, v) ==
  /\ ~unique
  /\ LET where == {i \in LowerBound(k) .. size : elements[i].second = v}
     IN  IF Outside(k) \/ where = {} THEN Keep /\ Result(0)
         ELSE Cut(Min(where), Min(where) + 1) /\ Result(1)

remove(k, v) ==
  /\ ~unique
  /\ LET where == {i \in LowerBound(k) .. size : elements[i] = Pair(k, v)}
     IN  IF Outside(k) \/ where = {} THEN Keep /\ Result(0)
         ELSE Cut(Min(where), Min(where) + 1) /\ Result(1)

\* erase() of iterators, and clear()
erase(from, till) == from <= till /\ Cut(from, till) /\ Result(till - from)

\* take()
take(k) ==
  /\ unique
  /\ IF Missing(k) THEN Keep /\ Result(None)
     ELSE /\ Result(elements[LowerBound(k)].second)
          /\ Cut(LowerBound(k), LowerBound(k) + 1)

\* contains(), findFirst() and find(), and the value found; count()
find(k) ==
  /\ Keep
  /\ Result(IF Missing(k) THEN None ELSE elements[LowerBound(k)].second)

count(k) ==
  /\ Keep /\ Result(IF Outside(k) THEN 0 ELSE UpperBound(k) - LowerBound(k))

-----------------------------------------------------------------------------
\* The constructors: std::sort, which leaves the order of pairs with one key to
\* chance, and flat_map's finalize(), which leaves the first of them.
SortedBy(list, p) ==
  \A i, j \in DOMAIN list : i < j => list[p[i]].first <= list[p[j]].first

finalize(s) ==
  LET firsts == {i \in DOMAIN s : i = 1 \/ s[i - 1].first < s[i].first}
  IN  IF unique THEN [n \in 1 .. Cardinality(firsts) |->
                        s[CHOOSE i \in firsts : Cardinality({j \in firsts : j <= i}) = n]]
      ELSE s

Construct(list) ==
  \E p \in Bijection(DOMAIN list, DOMAIN list) :
    SortedBy(list, p) /\ elements = finalize([i \in DOMAIN list |-> list[p[i]]])

-----------------------------------------------------------------------------
Init == /\ unique \in BOOLEAN /\ returned = 0
        /\ \E list \in BoundedSeq(Pairs, MaxList) : Construct(list)

Next == \/ \E pair \in Pairs : insert(pair) \/ insertUnique(pair) \/ insert_or_assign(pair)
        \/ \E k \in Keys : \/ subscript(k) \/ removeOne(k) \/ removeAll(k) \/ take(k)
                           \/ find(k) \/ count(k)
                           \/ \E v \in Values : remove(k, v)
        \/ \E i \in 1 .. size : \E v \in Values : Assign(i, v)
        \/ \E from, till \in 1 .. size + 1 : erase(from, till)

Spec == Init /\ [][Next]_vars

-----------------------------------------------------------------------------
\* The type invariant.
TypeOK ==
  /\ unique \in BOOLEAN /\ elements \in Seq(Pairs)
  /\ returned \in Nat \cup Values \cup {None}

\* Pairs are sorted by key, as every search relies on, and those of a flat_map
\* strictly so: no key is there twice.
Sorted ==
  \A i \in 1 .. size - 1 : IF unique THEN key(i) < key(i + 1) ELSE key(i) <= key(i + 1)

ValuesOf(k) == [n \in 1 .. UpperBound(k) - LowerBound(k) |->
                  elements[LowerBound(k) - 1 + n].second]

store == [k \in Keys |-> ValuesOf(k)]
Abstract == INSTANCE KeyedValues

\* Every operation does what KeyedValues says of it, and returns that: a key's
\* values are found, replaced and removed as they were put, and never another
\* key's, in either container.
Implements ==
  /\ \A k \in Keys, v \in Values :
       /\ insert(Pair(k, v)) \/ insertUnique(Pair(k, v)) => Abstract!insert(k, v)
       /\ insert_or_assign(Pair(k, v)) => Abstract!insert_or_assign(k, v)
       /\ remove(k, v) => Abstract!remove(k, v)
       /\ \A i \in 1 .. size : key(i) = k /\ Assign(i, v)
                               => Abstract!Assign(k, i + 1 - LowerBound(k), v)
  /\ \A k \in Keys :
       /\ subscript(k) => Abstract!subscript(k)
       /\ removeOne(k) => Abstract!removeOne(k)
       /\ removeAll(k) => Abstract!removeAll(k)
       /\ take(k)      => Abstract!take(k)
       /\ find(k)      => Abstract!find(k)
       /\ count(k)     => Abstract!count(k)
  /\ \A from, till \in 1 .. size + 1 : erase(from, till) => Abstract!erase
=============================================================================
