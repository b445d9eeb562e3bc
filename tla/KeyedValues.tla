---------------------------- MODULE KeyedValues ----------------------------
(***************************************************************************)
(* What the containers of flat_map.h promise their users: the values of    *)
(* every key in the order they were put, one at most if unique; what each  *)
(* operation, called with a key and a value, makes of them, and its result.*)
(***************************************************************************)
EXTENDS Integers, SequencesExt

CONSTANTS Keys, Values, Default, None

VARIABLES unique, store, returned

has(k) == store[k] # <<>>
Becomes(k, s, r) == /\ store' = [store EXCEPT ![k] = s] /\ returned' = r
                    /\ UNCHANGED unique
Returns(r) == returned' = r /\ UNCHANGED <<unique, store>>

\* Also try_emplace() and emplace().
insert(k, v) == IF unique /\ has(k) THEN Returns(0)
                ELSE Becomes(k, Append(store[k], v), 1)

insert_or_assign(k, v) == unique /\ Becomes(k, <<v>>, IF has(k) THEN 0 ELSE 1)

subscript(k) == /\ unique
                /\ IF has(k) THEN Returns(store[k][1])
                   ELSE Becomes(k, <<Default>>, Default)

Assign(k, i, v) == Becomes(k, [store[k] EXCEPT ![i] = v], 0)

removeOne(k) == IF has(k) THEN Becomes(k, Tail(store[k]), 1) ELSE Returns(0)
removeAll(k) == Becomes(k, <<>>, Len(store[k]))
remove(k, v) == IF Contains(store[k], v) THEN Becomes(k, RemoveFirst(store[k], v), 1)
                ELSE Returns(0)
take(k) == /\ unique
           /\ IF has(k) THEN Becomes(k, Tail(store[k]), store[k][1]) ELSE Returns(None)

find(k)  == Returns(IF has(k) THEN store[k][1] ELSE None)
count(k) == Returns(Len(store[k]))

Total(s) == Cardinality(UNION {{k} \X DOMAIN s[k] : k \in Keys})

\* erase() of a range: of the first key the values from some place on, of the
\* last key those before some place, of those between all.
erase ==
  /\ \E low, high \in Keys :
       \E kept \in 0 .. Len(store[low]), till \in 1 .. Len(store[high]) + 1 :
         /\ low <= high /\ (low = high => kept < till)
         /\ store' = [k \in Keys |->
              IF k < low \/ high < k THEN store[k]
              ELSE (IF k = low THEN SubSeq(store[k], 1, kept) ELSE <<>>)
                   \o (IF k = high THEN SubSeq(store[k], till, Len(store[k])) ELSE <<>>)]
  /\ returned' = Total(store) - Total(store') /\ UNCHANGED unique
=============================================================================
