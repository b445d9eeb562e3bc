------------------------------- MODULE BigNum -------------------------------
(***************************************************************************)
(* openssl::BigNum: an integer of OpenSSL that is made when it is needed,  *)
(* and whether what it was set to has failed.  What is computed of numbers *)
(* that failed fails, and a number is set anew by the next operation on    *)
(* it.  Any operation of OpenSSL may fail for want of memory and leaves    *)
(* what it was to set as it pleases.                                       *)
(***************************************************************************)
EXTENDS Integers, FiniteSets

CONSTANTS Numbers,     \* objects
          Words,       \* what they are set to
          MaxAbs       \* bound: nothing beyond is computed

VARIABLES
  data,      \* [Numbers -> _data, or Nothing for null]
  _failed,   \* [Numbers -> BOOLEAN]
  meant,     \* what a number was set to, or Nothing if that is not defined
  lost       \* copies that could not be made, and what was computed of them

vars == <<data, _failed, meant, lost>>

Nothing == MaxAbs + 1
Values == -MaxAbs..MaxAbs

Init ==
  /\ data = [n \in Numbers |-> Nothing] /\ _failed = [n \in Numbers |-> FALSE]
  /\ meant = [n \in Numbers |-> 0] /\ lost = {}

\* raw() makes a zero of null.
raw(n) == IF data[n] = Nothing THEN 0 ELSE data[n]
isZero(n) == ~_failed[n] /\ raw(n) = 0
isNegative(n) == ~_failed[n] /\ data[n] # Nothing /\ data[n] < 0

-----------------------------------------------------------------------------
\* The operations of OpenSSL: what they return, or Nothing if they fail.
Mod(a, m) == IF m = 0 THEN Nothing ELSE a % (IF m < 0 THEN -m ELSE m)
Inverse(a, m) ==
  LET inverses == {i \in 0..m - 1 : m > 1 /\ (a * i) % m = 1}
  IN IF inverses = {} THEN Nothing ELSE CHOOSE i \in inverses : TRUE
Abs(a) == IF a < 0 THEN -a ELSE a
Gcd(a, b) ==
  LET common == {d \in 1..MaxAbs : a % d = 0 /\ b % d = 0}
  IN IF a = 0 /\ b = 0 THEN 0 ELSE CHOOSE d \in common : \A e \in common : e <= d
Quotient(a, b) ==
  IF b = 0 THEN Nothing
  ELSE LET q == Abs(a) \div Abs(b) IN IF (a < 0) = (b < 0) THEN q ELSE -q
Remainder(a, b) == IF b = 0 THEN Nothing ELSE a - b * Quotient(a, b)

Op(op, a, b, m) ==
  CASE op = "add"    -> a + b
    [] op = "sub"    -> a - b
    [] op = "mul"    -> a * b
    [] op = "mod add" -> Mod(a + b, m)
    [] op = "mod sub" -> Mod(a - b, m)
    [] op = "mod mul" -> Mod(a * b, m)
    [] op = "mod exp" -> IF b < 0 THEN Nothing ELSE Mod(IF b = 0 THEN 1 ELSE a ^ b, m)
    [] op = "mod inverse" -> Inverse(a, m)
    [] op = "gcd"    -> Gcd(a, b)
Signed == {"add", "sub", "mul"}
Modular == {"mod add", "mod sub", "mod mul", "mod exp", "mod inverse"}

\* What the value of an expression is for a reader of it: undefined as soon as a
\* part of it is.
Meaning(op, a, b, m) ==
  IF \/ Nothing \in {meant[a], meant[b]} \/ (op \in Modular /\ meant[m] = Nothing)
     \/ op \notin Signed /\ (meant[a] < 0 \/ meant[b] < 0)
     \/ op \in Modular /\ meant[m] < 0
  THEN Nothing ELSE Op(op, meant[a], meant[b], meant[m])

-----------------------------------------------------------------------------
Becomes(n, value, failed, means, of) ==
  /\ data' = [data EXCEPT ![n] = value]
  /\ _failed' = [_failed EXCEPT ![n] = failed]
  /\ meant' = [meant EXCEPT ![n] = means]
  /\ lost' = IF of \intersect lost = {} THEN lost \ {n} ELSE lost \union {n}

\* setWord() and setBytes(): a zero needs no memory.
SetWord(n, w) ==
  \/ Becomes(n, IF w = 0 THEN Nothing ELSE w, FALSE, w, {})
  \/ w # 0 /\ Becomes(n, raw(n), TRUE, Nothing, {})

\* setAdd() and the others of a and b, for the moduli of m.  The target may be
\* one of them; it is 0, or what it was, when OpenSSL fails.
Of(op, a, b, m) == {a, b} \union (IF op \in Modular THEN {m} ELSE {})
SetOp(n, op, a, b, m) ==
  LET parts   == Of(op, a, b, m)
      refused == \/ \E p \in parts : _failed[p]
                 \/ op \notin Signed /\ \E p \in parts : isNegative(p)
      result  == Op(op, raw(a), raw(b), raw(m))
  IN IF refused THEN Becomes(n, data[n], TRUE, Nothing, parts)
     ELSE \/ /\ result \in Values
             /\ Becomes(n, result, op \notin Signed /\ result < 0, Meaning(op, a, b, m), parts)
          \/ \E value \in {raw(n), 0} : Becomes(n, value, TRUE, Nothing, parts)

\* subWord() and divWord() of a number that failed change nothing.
SubWord(n, w) ==
  /\ ~_failed[n]
  /\ \/ /\ raw(n) - w \in Values
        /\ Becomes(n, raw(n) - w, FALSE, IF meant[n] = Nothing THEN Nothing ELSE meant[n] - w, {n})
     \/ Becomes(n, raw(n), TRUE, Nothing, {n})
DivWord(n, w) ==
  /\ ~_failed[n] /\ w # 0
  /\ \/ Becomes(n, Quotient(raw(n), w), FALSE,
                IF meant[n] = Nothing THEN Nothing ELSE Quotient(meant[n], w), {n})
     \/ Becomes(n, raw(n), TRUE, Nothing, {n})

\* Div(): the quotient and the remainder are set, or fail, together.
DivPair(q, r, a, b) ==
  /\ q # r
  /\ LET refused == _failed[a] \/ _failed[b] \/ raw(b) = 0
         of == {a, b}
         Two(x, y, failed, mx, my) ==
           /\ data' = [data EXCEPT ![q] = x, ![r] = y]
           /\ _failed' = [_failed EXCEPT ![q] = failed, ![r] = failed]
           /\ meant' = [meant EXCEPT ![q] = mx, ![r] = my]
           /\ lost' = IF of \intersect lost = {} THEN lost \ {q, r} ELSE lost \union {q, r}
     IN \/ /\ ~refused
           /\ IF Nothing \in {meant[a], meant[b]} THEN
                Two(Quotient(raw(a), raw(b)), Remainder(raw(a), raw(b)), FALSE, Nothing, Nothing)
              ELSE Two(Quotient(raw(a), raw(b)), Remainder(raw(a), raw(b)), FALSE,
                       Quotient(meant[a], meant[b]), Remainder(meant[a], meant[b]))
        \/ Two(data[q], data[r], TRUE, Nothing, Nothing)

\* operator=() of another number: memory for a copy that cannot be had is a
\* failure when there is data to copy to, and is not noticed when there is none.
Assign(n, from) ==
  /\ n # from
  /\ CASE _failed[from] -> Becomes(n, data[n], TRUE, meant[from], {from})
       [] isZero(from)  -> Becomes(n, Nothing, FALSE, meant[from], {from})
       [] OTHER ->
            \/ Becomes(n, data[from], FALSE, meant[from], {from})
            \/ data[n] # Nothing /\ Becomes(n, data[n], TRUE, Nothing, {from})
            \/ /\ data[n] = Nothing
               /\ _failed' = [_failed EXCEPT ![n] = FALSE] /\ lost' = lost \union {n}
               /\ meant' = [meant EXCEPT ![n] = Nothing] /\ UNCHANGED data

\* The assignment of a temporary exchanges the two.
Exchange(n, m) ==
  /\ n # m
  /\ LET Swap(f) == [f EXCEPT ![n] = f[m], ![m] = f[n]] IN
       data' = Swap(data) /\ _failed' = Swap(_failed) /\ meant' = Swap(meant)
  /\ lost' = (lost \ {n, m}) \union (IF n \in lost THEN {m} ELSE {})
                              \union (IF m \in lost THEN {n} ELSE {})

\* takeRaw() leaves a zero, or null to who takes of a failure.
TakeRaw(n) ==
  /\ ~_failed[n]
  /\ Becomes(n, Nothing, FALSE, 0, {})

\* isPrime() is const and may fail.
IsPrime(n) ==
  /\ ~_failed[n] /\ data[n] # Nothing
  /\ Becomes(n, data[n], TRUE, Nothing, {n})

Next ==
  \E n \in Numbers :
    \/ \E w \in Words : SetWord(n, w) \/ SubWord(n, w) \/ DivWord(n, w)
    \/ \E a, b, m \in Numbers, op \in Signed \union Modular \union {"gcd"} : SetOp(n, op, a, b, m)
    \/ \E r, a, b \in Numbers : DivPair(n, r, a, b)
    \/ \E m \in Numbers : Assign(n, m) \/ Exchange(n, m)
    \/ TakeRaw(n) \/ IsPrime(n)

Spec == Init /\ [][Next]_vars

-----------------------------------------------------------------------------
TypeOK ==
  /\ data \in [Numbers -> Values \union {Nothing}]
  /\ _failed \in [Numbers -> BOOLEAN]
  /\ meant \in [Numbers -> Values \union {Nothing}]
  /\ lost \subseteq Numbers

\* A number that has not failed is what the expression it was set to means,
\* whatever failed on the way and whichever of its parts it was itself, except
\* where it comes of a copy for which there was no memory.
ValueIsMeant ==
  \A n \in Numbers \ lost : ~_failed[n] => raw(n) = meant[n]
=============================================================================
