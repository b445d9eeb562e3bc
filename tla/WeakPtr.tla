------------------------------ MODULE WeakPtr ------------------------------
(***************************************************************************)
(* base::weak_ptr and has_weak_ptr (weak_ptr.h): the object and its        *)
(* weak_ptrs share a counted alive_tracker, made with the first weak_ptr.  *)
(* weak_ptrs are copied, dropped and tested on any thread, at any time;    *)
(* making one from the object is a const operation, which threads may do   *)
(* together, but not while the object is destroyed or its weak_ptrs are    *)
(* invalidated.  A deleted tracker's memory may be allocated again.        *)
(***************************************************************************)
EXTENDS Integers, FiniteSets

CONSTANTS Slots,      \* weak_ptrs, each used by one thread at a time
          Trackers,   \* addresses of alive_trackers
          None

ASSUME ConstantsAssumption == None \notin Trackers /\ IsFiniteSet(Slots)

VARIABLES
  live,        \* the object exists
  _alive,      \* has_weak_ptr::_alive
  allocated,   \* trackers that exist
  counter,     \* alive_tracker::counter, one less than the references
  value,       \* whether alive_tracker::value is still the object
  slot,        \* weak_ptr::_alive
  making,      \* weak_ptrs in incrementAliveTracker(), and how far
  current,     \* the tracker each of those allocated or loaded
  retiring     \* the tracker being let go of by the object, or None

vars == <<live, _alive, allocated, counter, value, slot, making, current, retiring>>

idle(s) == making[s] = "idle"

\* Operations that the caller keeps apart from all others on the object.
Exclusive == live /\ retiring = None /\ \A s \in Slots : idle(s)

-----------------------------------------------------------------------------
\* incrementAliveTracker() loads _alive, and allocates if it is null ...
Load(s) ==
  /\ live /\ retiring = None /\ idle(s) /\ slot[s] = None
  /\ \/ /\ _alive # None
        /\ making' = [making EXCEPT ![s] = "increment"]
        /\ current' = [current EXCEPT ![s] = _alive]
        /\ UNCHANGED <<allocated, counter, value>>
     \/ /\ _alive = None
        /\ \E a \in Trackers \ allocated :
             /\ making' = [making EXCEPT ![s] = "exchange"]
             /\ current' = [current EXCEPT ![s] = a]
             /\ allocated' = allocated \cup {a}
             /\ counter' = [counter EXCEPT ![a] = 1]
             /\ value' = [value EXCEPT ![a] = TRUE]
  /\ UNCHANGED <<live, _alive, slot, retiring>>

Done(s) == making' = [making EXCEPT ![s] = "idle"] /\ current' = [current EXCEPT ![s] = None]

\* ... publishes the new tracker, unless another thread did ...
ExchangeMutant(s) ==
  /\ making[s] = "exchange"
  /\ slot' = [slot EXCEPT ![s] = current[s]] /\ Done(s)
  /\ _alive' = IF _alive = None THEN current[s] ELSE _alive
  /\ UNCHANGED <<live, allocated, counter, value, retiring>>

Exchange(s) ==
  /\ making[s] = "exchange"
  /\ \/ /\ _alive = None
        /\ _alive' = current[s]
        /\ slot' = [slot EXCEPT ![s] = current[s]] /\ Done(s)
        /\ UNCHANGED allocated
     \/ /\ _alive # None
        /\ allocated' = allocated \ {current[s]}
        /\ making' = [making EXCEPT ![s] = "increment"]
        /\ current' = [current EXCEPT ![s] = _alive]
        /\ UNCHANGED <<_alive, slot>>
  /\ UNCHANGED <<live, counter, value, retiring>>

\* ... or takes one more reference.
IncrementMutant(s) ==
  /\ making[s] = "increment"
  /\ slot' = [slot EXCEPT ![s] = current[s]] /\ Done(s)
  /\ UNCHANGED <<live, _alive, allocated, counter, value, retiring>>

Increment(s) ==
  /\ making[s] = "increment"
  /\ counter' = [counter EXCEPT ![current[s]] = @ + 1]
  /\ slot' = [slot EXCEPT ![s] = current[s]] /\ Done(s)
  /\ UNCHANGED <<live, _alive, allocated, value, retiring>>

\* The copy constructor, from a weak_ptr of the same thread.
Copy(r, s) ==
  /\ idle(r) /\ idle(s) /\ slot[r] # None /\ slot[s] = None
  /\ counter' = [counter EXCEPT ![slot[r]] = @ + 1]
  /\ slot' = [slot EXCEPT ![s] = slot[r]]
  /\ UNCHANGED <<live, _alive, allocated, value, making, current, retiring>>

\* The move constructor, and an assignment once it has destroyed the old value.
Move(r, s) ==
  /\ idle(r) /\ idle(s) /\ slot[r] # None /\ slot[s] = None
  /\ slot' = [slot EXCEPT ![s] = slot[r], ![r] = None]
  /\ UNCHANGED <<live, _alive, allocated, counter, value, making, current, retiring>>

\* decrement(): the subtraction, and the deletion, which nobody can see.
decrement(a) ==
  /\ counter' = [counter EXCEPT ![a] = @ - 1]
  /\ allocated' = IF counter[a] = 0 THEN allocated \ {a} ELSE allocated

\* The destructor, reset() and the first half of an assignment.
destroy(s) ==
  /\ idle(s) /\ slot[s] # None
  /\ decrement(slot[s]) /\ slot' = [slot EXCEPT ![s] = None]
  /\ UNCHANGED <<live, _alive, value, making, current, retiring>>

-----------------------------------------------------------------------------
\* ~has_weak_ptr(), and invalidate_weak_ptrs(), take the object's tracker ...
Retire(stays) ==
  /\ Exclusive /\ live' = stays
  /\ retiring' = _alive /\ _alive' = None
  /\ UNCHANGED <<allocated, counter, value, slot, making, current>>

\* ... null its value ...
StoreNull ==
  /\ retiring # None /\ value[retiring]
  /\ value' = [value EXCEPT ![retiring] = FALSE]
  /\ UNCHANGED <<live, _alive, allocated, counter, slot, making, current, retiring>>

\* ... and give up the object's reference.
Release ==
  /\ retiring # None /\ ~value[retiring]
  /\ decrement(retiring) /\ retiring' = None
  /\ UNCHANGED <<live, _alive, value, slot, making, current>>

\* Another object, in the same memory or elsewhere.
Construct ==
  /\ ~live /\ retiring = None /\ live' = TRUE
  /\ UNCHANGED <<_alive, allocated, counter, value, slot, making, current, retiring>>

-----------------------------------------------------------------------------
Init == /\ live = TRUE /\ _alive = None /\ allocated = {} /\ retiring = None
        /\ counter = [a \in Trackers |-> 0] /\ value = [a \in Trackers |-> FALSE]
        /\ slot = [s \in Slots |-> None] /\ current = [s \in Slots |-> None]
        /\ making = [s \in Slots |-> "idle"]

Next == \/ \E s \in Slots : Load(s) \/ Exchange(s) \/ Increment(s) \/ destroy(s)
        \/ \E r, s \in Slots : Copy(r, s) \/ Move(r, s)
        \/ Retire(TRUE) \/ Retire(FALSE) \/ StoreNull \/ Release \/ Construct

Spec == Init /\ [][Next]_vars

-----------------------------------------------------------------------------
\* The type invariant: a tracker's counter is never negative while it exists.
TypeOK ==
  /\ live \in BOOLEAN /\ allocated \subseteq Trackers
  /\ _alive \in Trackers \cup {None} /\ retiring \in Trackers \cup {None}
  /\ counter \in [Trackers -> Int] /\ value \in [Trackers -> BOOLEAN]
  /\ slot \in [Slots -> Trackers \cup {None}]
  /\ current \in [Slots -> Trackers \cup {None}]
  /\ making \in [Slots -> {"idle", "exchange", "increment"}]
  /\ \A a \in allocated : counter[a] \in Nat
  /\ \A s \in Slots : idle(s) <=> current[s] = None
  /\ \A s \in Slots : ~idle(s) => slot[s] = None

Holders(a) == {s \in Slots : slot[s] = a}
byObject(a) == a = _alive \/ a = retiring
unpublished(a) == \E s \in Slots : making[s] = "exchange" /\ current[s] = a

\* A tracker is deleted with its last reference, not before it and not after:
\* one that exists, and is not still private to the thread that allocated it,
\* has as many weak_ptrs as its counter says, the object's reference being
\* the one that is not counted.
RefsCounted ==
  \A a \in allocated : ~unpublished(a) =>
    /\ counter[a] + 1 = Cardinality(Holders(a)) + (IF byObject(a) THEN 1 ELSE 0)
    /\ Holders(a) # {} \/ byObject(a)

\* Nobody holds, or is about to touch, a tracker that was deleted.
NoneDangles ==
  /\ \A s \in Slots : slot[s] # None => slot[s] \in allocated
  /\ \A s \in Slots : ~idle(s) => current[s] \in allocated
  /\ _alive # None => _alive \in allocated
  /\ retiring # None => retiring \in allocated

\* Trackers live exactly as long as somebody refers to them.
TrackersSafe == RefsCounted /\ NoneDangles

\* A weak_ptr has an object exactly if it was made since the object's
\* weak_ptrs were last invalidated, and none outlives its object.
ValidIffCurrent ==
  retiring = None => \A s \in Slots : slot[s] # None => (value[slot[s]] <=> slot[s] = _alive)
=============================================================================
