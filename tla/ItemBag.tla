------------------------------ MODULE ItemBag ------------------------------
(***************************************************************************)
(* What the containers of flat_set.h promise their users: a bag of items,  *)
(* or a set of them if unique, what each operation makes of it, and its    *)
(* result.                                                                 *)
(***************************************************************************)
EXTENDS Integers, FiniteSets

CONSTANTS Items

VARIABLES unique, bag, returned

Total(b) == Cardinality(UNION {{x} \X (1 .. b[x]) : x \in Items})

\* As many of x as a container of n of them keeps.
kept(n) == IF unique /\ n > 1 THEN 1 ELSE n

Becomes(b, n) == bag' = b /\ returned' = n /\ UNCHANGED unique

insert(x) ==
  LET n == kept(bag[x] + 1) IN Becomes([bag EXCEPT ![x] = n], n - bag[x])

\* removeOne() and removeAll()
remove(x, most) ==
  LET n == IF most < bag[x] THEN most ELSE bag[x]
  IN  Becomes([bag EXCEPT ![x] = @ - n], n)

\* erase() of a range, which need not be one of equal items.
erase == /\ bag' \in [Items -> Nat] /\ \A x \in Items : bag'[x] <= bag[x]
         /\ returned' = Total(bag) - Total(bag') /\ UNCHANGED unique

contains(x) == Becomes(bag, IF bag[x] > 0 THEN 1 ELSE 0)
count(x)    == Becomes(bag, bag[x])

merge(b) ==
  LET sum == [x \in Items |-> kept(bag[x] + b[x])] IN Becomes(sum, Total(sum))

modify(x, y) ==
  /\ bag[x] > 0
  /\ LET b == [bag EXCEPT ![x] = @ - 1]
     IN  Becomes([b EXCEPT ![y] = kept(@ + 1)], 1)
=============================================================================
