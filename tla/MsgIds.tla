------------------------------- MODULE MsgIds -------------------------------
(***************************************************************************)
(* MsgIdManager of unixtime.cpp: next() makes a message id of a counter of *)
(* nanoseconds, read before the lock is taken, of the start that update()  *)
(* sets under the lock, and of _incrementedPart, added to after it.  An    *)
(* update() may come between any two of its steps, and moves the start     *)
(* back when the clock it follows was set back.                            *)
(***************************************************************************)
EXTENDS Integers, FiniteSets

CONSTANTS
  Threads,
  On, Back,     \* how far update() moves ids on or back from where they had grown to
  MaxCounter,   \* bound: nanoseconds
  MaxIds,       \* bound: ids
  MinStartId, MaxStartId   \* bound: the starts from which update() still moves it

VARIABLES
  counter,                  \* what GetCounter() returns
  _startCounter, _startId, _incrementedPart,
  pc,                       \* of each thread: "idle", "counted" or "started"
  read,                     \* the counter its next() has read
  start,                    \* the startCounter and startId it has read
  last,                     \* the last id it was given, or -1
  issued, count,            \* the ids given to anyone, and how many
  movedBack,                \* history: how far update() has moved the start back
  lastBack                  \* of each thread, when its last id's start was read

starts == <<_startCounter, _startId, movedBack>>
given  == <<last, issued, count, lastBack>>
vars   == <<counter, starts, _incrementedPart, pc, read, start, given>>

\* delta * _multiplier, about 4.29 per nanosecond, and & ~0x03.
Grown(delta) == (delta * 429) \div 100
Masked(x) == 4 * (x \div 4)

Tick == /\ counter < MaxCounter /\ counter' = counter + 1
        /\ UNCHANGED <<starts, _incrementedPart, pc, read, start, given>>

-----------------------------------------------------------------------------
\* next() reads the counter ...
Count(t) ==
  /\ pc[t] = "idle" /\ count < MaxIds
  /\ read' = [read EXCEPT ![t] = counter] /\ pc' = [pc EXCEPT ![t] = "counted"]
  /\ UNCHANGED <<counter, starts, _incrementedPart, start, given>>

\* ... the start, under the lock ...
LoadStart(t) ==
  /\ pc[t] = "counted" /\ pc' = [pc EXCEPT ![t] = "started"]
  /\ start' = [start EXCEPT ![t] = [counter |-> _startCounter, id |-> _startId,
                                    back |-> movedBack]]
  /\ UNCHANGED <<counter, starts, _incrementedPart, read, given>>

\* ... and adds 4 to _incrementedPart, which makes up its result.
\* What the conversion of a float64 beyond uint64, which is undefined, adds to an
\* id: 0 on x86-64, and on ARM the largest uint64, -1.
OutOfRange == {-1, 0}

\* When update() came after line 109, delta wraps around and its product is
\* out of the range of uint64.
delta(t) == read[t] - start[t].counter
Added(t) == IF delta(t) >= 0 THEN {Grown(delta(t))} ELSE OutOfRange

NextIdMutant(t) ==
  /\ pc[t] = "started" /\ pc' = [pc EXCEPT ![t] = "idle"]
  /\ _incrementedPart' = _incrementedPart + 4
  /\ \E added \in Added(t) :
       LET id == Masked(start[t].id + added)
       IN  /\ last' = [last EXCEPT ![t] = id] /\ issued' = issued \cup {id}
  /\ lastBack' = [lastBack EXCEPT ![t] = start[t].back] /\ count' = count + 1
  /\ UNCHANGED <<counter, starts, read, start>>

NextId(t) ==
  /\ pc[t] = "started" /\ pc' = [pc EXCEPT ![t] = "idle"]
  /\ _incrementedPart' = _incrementedPart + 4
  /\ \E added \in Added(t) :
       LET id == Masked(start[t].id + added) + _incrementedPart'
       IN  /\ last' = [last EXCEPT ![t] = id] /\ issued' = issued \cup {id}
  /\ lastBack' = [lastBack EXCEPT ![t] = start[t].back] /\ count' = count + 1
  /\ UNCHANGED <<counter, starts, read, start>>

\* update(): initialize() under the lock, with a time that may have moved.
Moves == On \cup {-b : b \in Back}

update ==
  /\ _startId \in MinStartId .. MaxStartId
  /\ \E move \in Moves :
       /\ _startId' = _startId + Grown(counter - _startCounter) + move
       /\ movedBack' = IF move < 0 THEN movedBack - move ELSE movedBack
  /\ _startCounter' = counter
  /\ UNCHANGED <<counter, _incrementedPart, pc, read, start, given>>

-----------------------------------------------------------------------------
Init == /\ counter = 0 /\ _startCounter = 0 /\ _startId = 20 /\ _incrementedPart = 0
        /\ pc = [t \in Threads |-> "idle"] /\ read = [t \in Threads |-> 0]
        /\ start = [t \in Threads |-> [counter |-> 0, id |-> 20, back |-> 0]]
        /\ last = [t \in Threads |-> -1] /\ issued = {} /\ count = 0
        /\ movedBack = 0 /\ lastBack = [t \in Threads |-> 0]

Next == \/ Tick \/ update
        \/ \E t \in Threads : Count(t) \/ LoadStart(t) \/ NextId(t)

Spec == Init /\ [][Next]_vars

-----------------------------------------------------------------------------
\* The type invariant: an id's two low bits, by which the server tells who made
\* it, are 0.
TypeOK ==
  /\ counter \in Nat /\ _startCounter \in Nat /\ _startId \in Int
  /\ _incrementedPart = 4 * count
  /\ pc \in [Threads -> {"idle", "counted", "started"}]
  /\ read \in [Threads -> Nat] /\ last \in [Threads -> Int]
  /\ start \in [Threads -> [counter : Nat, id : Int, back : Nat]]
  /\ movedBack \in Nat /\ lastBack \in [Threads -> Nat]
  /\ \A i \in issued : i % 4 = 0

\* Every call gives a thread a larger id than its last, whatever the other threads
\* are given meanwhile and wherever the start moved, or one that is behind it by
\* less than update() had moved the start back from one call's read of it to the
\* other's.  When the call had an update() between its read of the counter and
\* that of the start, the conversion may cost one more.
Grows ==
  \A t \in Threads : count' # count /\ pc'[t] # pc[t] =>
    LET behind == last[t] - last'[t]
        back   == start[t].back - lastBack[t]
    IN  IF delta(t) >= 0 THEN behind < back ELSE behind <= back

\* No id is given twice.
UniqueIds == Cardinality(issued) = count
=============================================================================
