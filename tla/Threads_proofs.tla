--------------------------- MODULE Threads_proofs ---------------------------
(***************************************************************************)
(* What is proved of MCThreads, in a section for each part: WeakPtr,       *)
(* Unixtime, Reachability, MsgIds, RuntimeComposer and CrashReport.  A     *)
(* section has the part's inductive invariant, that its initial states     *)
(* have it and its steps keep it, and what follows from it; the theorems   *)
(* about all parts are in the last one.                                    *)
(***************************************************************************)
EXTENDS MCThreads, SequenceTheorems, FiniteSetTheorems, TLAPS

-----------------------------------------------------------------------------
(* WeakPtr.  That trackers are counted and deleted right, and that         *)
(* weak_ptrs tell whether their object exists, for any number of           *)
(* weak_ptrs.  The invariant adds to the three properties what is true of  *)
(* trackers that are being made, of the one the object has and of the one  *)
(* it gives up.                                                            *)

\* A tracker that is not published yet belongs to the thread that made it.
AllocatedAlone ==
  \A s \in Slots, c \in Trackers : making[s] = "exchange" /\ current[s] = c =>
    /\ counter[c] = 1 /\ value[c] /\ Holders(c) = {} /\ ~byObject(c)
    /\ \A r \in Slots : current[r] = c => r = s

\* A tracker that was loaded cannot be retired before it is counted.
LoadedCurrent == \A s \in Slots : making[s] = "increment" => current[s] = _alive
MakingLive == (\E s \in Slots : ~idle(s)) => live /\ retiring = None
Retired == ~live \/ retiring # None => _alive = None

\* ValidIffCurrent, also while the object gives up a tracker.
Values ==
  /\ _alive # None => value[_alive]
  /\ \A s \in Slots : slot[s] # None /\ slot[s] # retiring =>
       (value[slot[s]] <=> slot[s] = _alive)

WeakInv1 == AllocatedAlone /\ LoadedCurrent /\ MakingLive /\ Retired
WeakIInv == TypeOK /\ WeakInv1 /\ Values /\ RefsCounted /\ NoneDangles

-----------------------------------------------------------------------------
\* Holders() of a slot that takes a tracker.
LEMMA HoldersTake ==
  ASSUME NEW s \in Slots, NEW a, NEW b \in Trackers,
         slot \in [Slots -> Trackers \cup {None}],
         slot[s] = None, slot' = [slot EXCEPT ![s] = a]
  PROVE  /\ Holders(b)' = IF b = a THEN Holders(b) \cup {s} ELSE Holders(b)
         /\ Cardinality(Holders(b)') = Cardinality(Holders(b)) + (IF b = a THEN 1 ELSE 0)
         /\ Cardinality(Holders(b)) \in Nat
<1>1. Holders(b)' = IF b = a THEN Holders(b) \cup {s} ELSE Holders(b)
  BY ConstantsAssumption DEF Holders
<1>2. s \notin Holders(b) /\ Holders(b) \subseteq Slots BY ConstantsAssumption DEF Holders
<1>3. IsFiniteSet(Holders(b)) BY <1>2, ConstantsAssumption, FS_Subset
<1>4. /\ Cardinality(Holders(b)) \in Nat
      /\ Cardinality(Holders(b) \cup {s}) = Cardinality(Holders(b)) + 1
  BY <1>2, <1>3, FS_CardinalityType, FS_AddElement
<1> QED BY <1>1, <1>4

\* Holders() of a slot that gives its tracker up.
LEMMA HoldersGive ==
  ASSUME NEW s \in Slots, NEW b \in Trackers,
         slot \in [Slots -> Trackers \cup {None}],
         slot[s] # None, slot' = [slot EXCEPT ![s] = None]
  PROVE  /\ Holders(b)' = Holders(b) \ {s}
         /\ Cardinality(Holders(b)') =
              Cardinality(Holders(b)) - (IF b = slot[s] THEN 1 ELSE 0)
         /\ Cardinality(Holders(b)) \in Nat
<1>1. Holders(b)' = Holders(b) \ {s} BY ConstantsAssumption DEF Holders
<1>2. s \in Holders(b) <=> b = slot[s] BY DEF Holders
<1>3. IsFiniteSet(Holders(b))
  BY ConstantsAssumption, FS_Subset DEF Holders
<1> QED BY <1>1, <1>2, <1>3, FS_CardinalityType, FS_RemoveElement

\* A tracker has no holders exactly if it has none to count.
LEMMA HoldersCount ==
  ASSUME NEW b
  PROVE  /\ Cardinality(Holders(b)) \in Nat
         /\ Cardinality(Holders(b)) = 0 <=> Holders(b) = {}
<1>1. IsFiniteSet(Holders(b)) BY ConstantsAssumption, FS_Subset DEF Holders
<1> QED BY <1>1, FS_CardinalityType, FS_EmptySet

\* The same of the holders after a step.
LEMMA HoldersCountPrime ==
  ASSUME NEW b
  PROVE  /\ Cardinality(Holders(b)') \in Nat
         /\ Cardinality(Holders(b)') = 0 <=> Holders(b)' = {}
<1>1. IsFiniteSet(Holders(b)') BY ConstantsAssumption, FS_Subset DEF Holders
<1> QED BY <1>1, FS_CardinalityType, FS_EmptySet

-----------------------------------------------------------------------------
\* The object has no tracker when it is constructed.
LEMMA InitWeak == Init => WeakIInv
BY ConstantsAssumption, FS_EmptySet DEF Init, WeakIInv, TypeOK, WeakInv1, AllocatedAlone,
   LoadedCurrent, MakingLive, Retired, Values, RefsCounted, NoneDangles, idle

\* incrementAliveTracker() finds a tracker, or makes one.
LEMMA LoadIInv == ASSUME WeakIInv, NEW s \in Slots, Load(s) PROVE WeakIInv'
<1> USE ConstantsAssumption
<1>u. UNCHANGED <<live, _alive, slot, retiring>> /\ live /\ retiring = None
      /\ idle(s) /\ slot[s] = None
  BY DEF Load
<1>1. CASE _alive # None
  <2>u. UNCHANGED <<allocated, counter, value>>
        /\ making' = [making EXCEPT ![s] = "increment"]
        /\ current' = [current EXCEPT ![s] = _alive]
    BY <1>1 DEF Load
  <2>1. TypeOK' BY <1>u, <2>u, <1>1 DEF WeakIInv, TypeOK, idle
  <2>2. AllocatedAlone'
    BY <1>u, <2>u DEF WeakIInv, WeakInv1, TypeOK, AllocatedAlone, Holders, byObject
  <2>3. LoadedCurrent' /\ MakingLive' /\ Retired'
    BY <1>u, <2>u DEF WeakIInv, WeakInv1, TypeOK, LoadedCurrent, MakingLive, Retired, idle
  <2>4. Values' BY <1>u, <2>u DEF WeakIInv, Values
  <2>h. \A b : Holders(b)' = Holders(b) /\ (byObject(b)' <=> byObject(b))
    BY <1>u DEF Holders, byObject
  <2>p. \A b : unpublished(b)' <=> unpublished(b)
    BY <1>u, <2>u DEF WeakIInv, TypeOK, unpublished, idle
  <2>5. RefsCounted'
    BY <2>u, <2>h, <2>p DEF WeakIInv, RefsCounted
  <2>6. NoneDangles' BY <1>u, <2>u, <1>1 DEF WeakIInv, NoneDangles, TypeOK, idle
  <2> QED BY <2>1, <2>2, <2>3, <2>4, <2>5, <2>6 DEF WeakIInv, WeakInv1
<1>2. CASE _alive = None
  <2> PICK a \in Trackers \ allocated :
         /\ making' = [making EXCEPT ![s] = "exchange"]
         /\ current' = [current EXCEPT ![s] = a]
         /\ allocated' = allocated \cup {a}
         /\ counter' = [counter EXCEPT ![a] = 1]
         /\ value' = [value EXCEPT ![a] = TRUE]
    BY <1>2 DEF Load
  <2>a. /\ \A r \in Slots : slot[r] # a /\ current[r] # a
        /\ a # _alive /\ a # retiring
    BY <1>u, <1>2 DEF WeakIInv, NoneDangles, TypeOK, idle
  <2>1. TypeOK' BY <1>u DEF WeakIInv, TypeOK, idle
  <2>2. AllocatedAlone'
    BY <1>u, <2>a DEF WeakIInv, WeakInv1, TypeOK, AllocatedAlone, Holders, byObject
  <2>3. LoadedCurrent' /\ MakingLive' /\ Retired'
    BY <1>u DEF WeakIInv, WeakInv1, TypeOK, LoadedCurrent, MakingLive, Retired, idle
  <2>4. Values' BY <1>u, <2>a, <1>2 DEF WeakIInv, Values, TypeOK
  <2>5. RefsCounted'
    <3> SUFFICES ASSUME NEW b \in allocated', ~unpublished(b)'
                 PROVE  /\ counter'[b] + 1 = Cardinality(Holders(b)') + (IF byObject(b)' THEN 1 ELSE 0)
                        /\ Holders(b)' # {} \/ byObject(b)'
      BY DEF RefsCounted
    <3>1. b # a BY DEF WeakIInv, TypeOK, unpublished
    <3>2. b \in allocated /\ ~unpublished(b) /\ counter'[b] = counter[b]
      BY <3>1, <1>u DEF WeakIInv, TypeOK, unpublished, idle
    <3>3. Holders(b)' = Holders(b) /\ (byObject(b)' <=> byObject(b))
      BY <1>u DEF Holders, byObject
    <3> QED BY <3>2, <3>3 DEF WeakIInv, RefsCounted
  <2>6. NoneDangles' BY <1>u DEF WeakIInv, NoneDangles, TypeOK, idle
  <2> QED BY <2>1, <2>2, <2>3, <2>4, <2>5, <2>6 DEF WeakIInv, WeakInv1
<1> QED BY <1>1, <1>2

\* It publishes the tracker it made, or deletes it for another's.
LEMMA ExchangeIInv ==
  ASSUME WeakIInv, NEW s \in Slots, NEW a, a = current[s], Exchange(s)
  PROVE  WeakIInv'
<1> USE ConstantsAssumption
<1>u. UNCHANGED <<live, counter, value, retiring>> /\ making[s] = "exchange"
  BY DEF Exchange
<1>a. /\ a \in allocated /\ a \in Trackers /\ live /\ retiring = None
      /\ slot[s] = None /\ counter[a] = 1 /\ value[a] /\ Holders(a) = {}
      /\ ~byObject(a) /\ \A r \in Slots : current[r] = a => r = s
  BY <1>u DEF WeakIInv, NoneDangles, TypeOK, WeakInv1, AllocatedAlone, MakingLive, idle
<1>h. \A r \in Slots : slot[r] # a BY <1>a DEF Holders
<1>1. CASE _alive = None
  <2>u. /\ _alive' = a /\ slot' = [slot EXCEPT ![s] = a] /\ allocated' = allocated
        /\ making' = [making EXCEPT ![s] = "idle"]
        /\ current' = [current EXCEPT ![s] = None]
    BY <1>1 DEF Exchange, Done
  <2>i. \A r \in Slots : making[r] # "increment"
    BY <1>1 DEF WeakIInv, TypeOK, WeakInv1, LoadedCurrent, idle
  <2>h. \A b \in Trackers :
          /\ Holders(b)' = IF b = a THEN Holders(b) \cup {s} ELSE Holders(b)
          /\ Cardinality(Holders(b)') = Cardinality(Holders(b)) + (IF b = a THEN 1 ELSE 0)
          /\ Cardinality(Holders(b)) \in Nat
    <3>1. slot \in [Slots -> Trackers \cup {None}] BY DEF WeakIInv, TypeOK
    <3> TAKE b \in Trackers
    <3>2. slot' = [slot EXCEPT ![s] = a] /\ slot[s] = None BY <1>a, <2>u
    <3> QED BY ONLY <3>1, <3>2, HoldersTake, Zenon
  <2>b. \A b \in Trackers : b # a => (byObject(b)' <=> byObject(b))
    BY <1>1, <1>u, <2>u DEF byObject
  <2>1. TypeOK' BY <1>u, <1>a, <2>u DEF WeakIInv, TypeOK, idle
  <2>2. AllocatedAlone'
    <3> SUFFICES ASSUME NEW r \in Slots, NEW c \in Trackers, current'[r] = c, making'[r] = "exchange"
                 PROVE  /\ counter'[c] = 1 /\ value'[c] /\ Holders(c)' = {}
                        /\ ~byObject(c)' /\ \A q \in Slots : current'[q] = c => q = r
      BY DEF AllocatedAlone
    <3>1. r # s /\ making[r] = "exchange" /\ c = current[r] /\ c # a
      BY <1>a, <2>u DEF WeakIInv, TypeOK, idle
    <3>2. Holders(c)' = Holders(c) /\ (byObject(c)' <=> byObject(c))
      BY <3>1, <2>h, <2>b
    <3> QED BY <3>1, <3>2, <1>u, <2>u DEF WeakIInv, TypeOK, WeakInv1, AllocatedAlone
  <2>3. LoadedCurrent' /\ MakingLive' /\ Retired'
    BY <1>u, <1>a, <2>u, <2>i DEF WeakIInv, WeakInv1, TypeOK, LoadedCurrent, MakingLive, Retired, idle
  <2>4. Values' BY <1>1, <1>u, <1>a, <1>h, <2>u DEF WeakIInv, Values, TypeOK
  <2>5. RefsCounted'
    <3> SUFFICES ASSUME NEW b \in allocated, ~unpublished(b)'
                 PROVE  /\ counter'[b] + 1 = Cardinality(Holders(b)') + (IF byObject(b)' THEN 1 ELSE 0)
                        /\ Holders(b)' # {} \/ byObject(b)'
      BY <2>u DEF RefsCounted
    <3>1. b \in Trackers /\ counter'[b] = counter[b] BY <1>u DEF WeakIInv, TypeOK
    <3>2. CASE b = a
      <4>1. Cardinality(Holders(a)) = 0 BY <1>a, FS_EmptySet
      <4>2. Cardinality(Holders(a)') = 1 /\ Holders(a)' # {}
        <5>1. /\ Holders(a)' = Holders(a) \cup {s}
              /\ Cardinality(Holders(a)') = Cardinality(Holders(a)) + 1
          BY <1>a, <2>h
        <5> QED BY <4>1, <5>1
      <4>3. byObject(a)' BY <2>u DEF byObject
      <4> QED BY <4>2, <4>3, <3>1, <3>2, <1>a
    <3>3. CASE b # a
      <4>1. ~unpublished(b) BY <3>3, <2>u DEF WeakIInv, TypeOK, unpublished
      <4> QED BY <4>1, <3>1, <3>3, <2>h, <2>b DEF WeakIInv, RefsCounted
    <3> QED BY <3>2, <3>3
  <2>6. NoneDangles' BY <1>u, <1>a, <2>u DEF WeakIInv, NoneDangles, TypeOK, idle
  <2> QED BY <2>1, <2>2, <2>3, <2>4, <2>5, <2>6 DEF WeakIInv, WeakInv1
<1>2. CASE _alive # None
  <2>u. /\ _alive' = _alive /\ slot' = slot /\ allocated' = allocated \ {a}
        /\ making' = [making EXCEPT ![s] = "increment"]
        /\ current' = [current EXCEPT ![s] = _alive]
    BY <1>2 DEF Exchange
  <2>b. _alive # a /\ retiring # a BY <1>a DEF byObject
  <2>1. TypeOK' BY <1>u, <1>a, <2>u, <1>2 DEF WeakIInv, TypeOK, idle
  <2>2. AllocatedAlone'
    BY <1>u, <2>u DEF WeakIInv, WeakInv1, TypeOK, AllocatedAlone, Holders, byObject
  <2>3. LoadedCurrent' /\ MakingLive' /\ Retired'
    BY <1>u, <1>a, <2>u DEF WeakIInv, WeakInv1, TypeOK, LoadedCurrent, MakingLive, Retired, idle
  <2>4. Values' BY <1>u, <2>u DEF WeakIInv, Values
  <2>5. RefsCounted'
    <3> SUFFICES ASSUME NEW b \in allocated, b # a, ~unpublished(b)'
                 PROVE  /\ counter'[b] + 1 = Cardinality(Holders(b)') + (IF byObject(b)' THEN 1 ELSE 0)
                        /\ Holders(b)' # {} \/ byObject(b)'
      BY <2>u DEF RefsCounted
    <3>1. ~unpublished(b) BY <2>u DEF WeakIInv, TypeOK, unpublished
    <3>2. Holders(b)' = Holders(b) /\ (byObject(b)' <=> byObject(b))
      BY <1>u, <2>u DEF Holders, byObject
    <3> QED BY <1>u, <3>1, <3>2 DEF WeakIInv, RefsCounted
  <2>6. NoneDangles' BY <1>u, <1>a, <1>h, <1>2, <2>b, <2>u DEF WeakIInv, NoneDangles, TypeOK, idle
  <2> QED BY <2>1, <2>2, <2>3, <2>4, <2>5, <2>6 DEF WeakIInv, WeakInv1
<1> QED BY <1>1, <1>2

\* A weak_ptr becomes a counted holder of tracker a: from the object in
\* Increment, from another weak_ptr in Copy.
LEMMA TakeIInv ==
  ASSUME WeakIInv, NEW s \in Slots, NEW a \in allocated, slot[s] = None,
         a = _alive \/ Holders(a) # {}, making[s] # "exchange",
         UNCHANGED <<live, _alive, allocated, value, retiring>>,
         counter' = [counter EXCEPT ![a] = @ + 1],
         slot' = [slot EXCEPT ![s] = a],
         making' = [making EXCEPT ![s] = "idle"],
         current' = [current EXCEPT ![s] = None],
         a # retiring => (value[a] <=> a = _alive)
  PROVE  WeakIInv'
<1> USE ConstantsAssumption
<1>a. a \in Trackers /\ counter[a] \in Nat BY DEF WeakIInv, TypeOK
<1>n. \A r \in Slots : making[r] = "exchange" => current[r] # a
  BY <1>a DEF WeakIInv, WeakInv1, AllocatedAlone, byObject
<1>h. \A b \in Trackers :
        /\ Holders(b)' = IF b = a THEN Holders(b) \cup {s} ELSE Holders(b)
        /\ Cardinality(Holders(b)') = Cardinality(Holders(b)) + (IF b = a THEN 1 ELSE 0)
        /\ Cardinality(Holders(b)) \in Nat
  BY <1>a, HoldersTake DEF WeakIInv, TypeOK
<1>b. \A b \in Trackers : byObject(b)' <=> byObject(b) BY DEF byObject
<1>1. TypeOK' BY <1>a DEF WeakIInv, TypeOK, idle
<1>2. AllocatedAlone'
  <2> SUFFICES ASSUME NEW r \in Slots, NEW c \in Trackers, current'[r] = c, making'[r] = "exchange"
               PROVE  /\ counter'[c] = 1 /\ value'[c] /\ Holders(c)' = {}
                      /\ ~byObject(c)' /\ \A q \in Slots : current'[q] = c => q = r
    BY DEF AllocatedAlone
  <2>1. r # s /\ making[r] = "exchange" /\ c = current[r] /\ c # a
    BY <1>n DEF WeakIInv, TypeOK, idle
  <2>2. Holders(c)' = Holders(c) /\ (byObject(c)' <=> byObject(c))
    BY <2>1, <1>h, <1>b
  <2> QED BY <2>1, <2>2 DEF WeakIInv, TypeOK, WeakInv1, AllocatedAlone
<1>3. LoadedCurrent' /\ MakingLive' /\ Retired'
  BY DEF WeakIInv, WeakInv1, TypeOK, LoadedCurrent, MakingLive, Retired, idle
<1>4. Values' BY DEF WeakIInv, Values, TypeOK
<1>5. RefsCounted'
  <2> SUFFICES ASSUME NEW b \in allocated, ~unpublished(b)'
               PROVE  /\ counter'[b] + 1 = Cardinality(Holders(b)') + (IF byObject(b)' THEN 1 ELSE 0)
                      /\ Holders(b)' # {} \/ byObject(b)'
    BY DEF RefsCounted
  <2>1. b \in Trackers /\ ~unpublished(b)
        /\ counter'[b] = counter[b] + (IF b = a THEN 1 ELSE 0) /\ counter[b] \in Nat
    BY DEF WeakIInv, TypeOK, unpublished
  <2>2. counter[b] + 1 = Cardinality(Holders(b)) + (IF byObject(b) THEN 1 ELSE 0)
        /\ (Holders(b) # {} \/ byObject(b))
    BY <2>1 DEF WeakIInv, RefsCounted
  <2> QED BY <2>1, <2>2, <1>h, <1>b
<1>6. NoneDangles' BY DEF WeakIInv, NoneDangles, TypeOK, idle
<1> QED BY <1>1, <1>2, <1>3, <1>4, <1>5, <1>6 DEF WeakIInv, WeakInv1

\* incrementAliveTracker() counts the tracker it loaded.
LEMMA IncrementIInv == ASSUME WeakIInv, NEW s \in Slots, Increment(s) PROVE WeakIInv'
<1>1. /\ current[s] = _alive /\ current[s] \in allocated /\ slot[s] = None
      /\ value[_alive]
  BY ConstantsAssumption
  DEF Increment, WeakIInv, WeakInv1, LoadedCurrent, NoneDangles, TypeOK, idle, Values
<1> QED BY <1>1, TakeIInv DEF Increment, Done

\* The copy constructor counts the tracker of the weak_ptr it copies.
LEMMA CopyIInv == ASSUME WeakIInv, NEW r \in Slots, NEW s \in Slots, Copy(r, s) PROVE WeakIInv'
<1>1. /\ slot[r] \in allocated /\ r \in Holders(slot[r])
      /\ slot[r] # retiring => (value[slot[r]] <=> slot[r] = _alive)
  BY DEF Copy, WeakIInv, NoneDangles, Holders, Values
<1>2. /\ making' = [making EXCEPT ![s] = "idle"]
      /\ current' = [current EXCEPT ![s] = None]
  BY DEF Copy, WeakIInv, TypeOK, idle
<1> QED BY <1>1, <1>2, TakeIInv DEF Copy, idle

-----------------------------------------------------------------------------
\* A moved weak_ptr is one holder less and one more.
LEMMA MoveIInv == ASSUME WeakIInv, NEW r \in Slots, NEW s \in Slots, Move(r, s) PROVE WeakIInv'
<1> USE ConstantsAssumption
<1>u. /\ UNCHANGED <<live, _alive, allocated, counter, value, making, current, retiring>>
      /\ idle(r) /\ idle(s) /\ slot[r] # None /\ slot[s] = None /\ r # s
      /\ slot' = [slot EXCEPT ![s] = slot[r], ![r] = None]
  BY DEF Move
<1>h. ASSUME NEW b \in Trackers
      PROVE  /\ Cardinality(Holders(b)') = Cardinality(Holders(b))
             /\ Holders(b)' = {} <=> Holders(b) = {}
  <2>1. CASE b = slot[r]
    <3>1. Holders(b)' = (Holders(b) \ {r}) \cup {s} /\ r \in Holders(b) /\ s \notin Holders(b)
      BY <1>u, <2>1 DEF Holders, WeakIInv, TypeOK
    <3>2. IsFiniteSet(Holders(b)) BY FS_Subset DEF Holders
    <3>3. /\ Cardinality(Holders(b)) \in Nat
          /\ Cardinality(Holders(b) \ {r}) = Cardinality(Holders(b)) - 1
          /\ IsFiniteSet(Holders(b) \ {r})
      BY <3>1, <3>2, FS_CardinalityType, FS_RemoveElement
    <3>4. Cardinality(Holders(b)') = Cardinality(Holders(b) \ {r}) + 1
      BY <3>1, <3>3, FS_AddElement
    <3> QED BY <3>1, <3>3, <3>4
  <2>2. CASE b # slot[r]
    BY <1>u, <2>2 DEF Holders, WeakIInv, TypeOK
  <2> QED BY <2>1, <2>2
<1>1. TypeOK' BY <1>u DEF WeakIInv, TypeOK, idle
<1>2. AllocatedAlone'
  <2> SUFFICES ASSUME NEW q \in Slots, NEW c \in Trackers, current[q] = c, making[q] = "exchange"
               PROVE  /\ counter[c] = 1 /\ value[c] /\ Holders(c)' = {}
                      /\ ~byObject(c) /\ \A p \in Slots : current[p] = c => p = q
    BY <1>u DEF AllocatedAlone, byObject
  <2> QED BY <1>h DEF WeakIInv, WeakInv1, AllocatedAlone
<1>3. LoadedCurrent' /\ MakingLive' /\ Retired'
  BY <1>u DEF WeakIInv, WeakInv1, LoadedCurrent, MakingLive, Retired, idle
<1>4. Values' BY <1>u DEF WeakIInv, Values, TypeOK
<1>5. RefsCounted'
  <2> SUFFICES ASSUME NEW b \in allocated, ~unpublished(b)'
               PROVE  /\ counter'[b] + 1 = Cardinality(Holders(b)') + (IF byObject(b)' THEN 1 ELSE 0)
                      /\ Holders(b)' # {} \/ byObject(b)'
    BY <1>u DEF RefsCounted
  <2>1. b \in Trackers /\ ~unpublished(b) /\ (byObject(b)' <=> byObject(b))
    BY <1>u DEF WeakIInv, TypeOK, unpublished, byObject
  <2> QED BY <2>1, <1>h, <1>u DEF WeakIInv, RefsCounted
<1>6. NoneDangles' BY <1>u DEF WeakIInv, NoneDangles, TypeOK, idle
<1> QED BY <1>1, <1>2, <1>3, <1>4, <1>5, <1>6 DEF WeakIInv, WeakInv1

\* destroy() and Release(): tracker a loses a reference, the slot's or the
\* object's, and is deleted if that was the last.
LEMMA GiveRefsCounted ==
  ASSUME WeakIInv, NEW a \in allocated, decrement(a), ~unpublished(a),
         UNCHANGED <<making, current>>,
         \A b \in allocated : b # a =>
           /\ Cardinality(Holders(b)') = Cardinality(Holders(b))
           /\ Holders(b)' = {} <=> Holders(b) = {}
           /\ byObject(b)' <=> byObject(b),
         Cardinality(Holders(a)') + (IF byObject(a)' THEN 1 ELSE 0)
           = Cardinality(Holders(a)) + (IF byObject(a) THEN 1 ELSE 0) - 1
  PROVE  /\ RefsCounted'
         /\ \A b \in allocated' : counter'[b] \in Nat
         /\ a \notin allocated' => Holders(a)' = {} /\ ~byObject(a)'
<1>1. /\ counter[a] \in Nat /\ a \in Trackers /\ counter \in [Trackers -> Int]
      /\ allocated \subseteq Trackers
      /\ \A b \in allocated : counter[b] \in Nat
  BY DEF WeakIInv, TypeOK
<1>2. counter[a] + 1 = Cardinality(Holders(a)) + (IF byObject(a) THEN 1 ELSE 0)
  BY DEF WeakIInv, RefsCounted
<1>3. /\ counter' = [counter EXCEPT ![a] = @ - 1]
      /\ allocated' = IF counter[a] = 0 THEN allocated \ {a} ELSE allocated
  BY DEF decrement
<1>4. /\ Cardinality(Holders(a)') \in Nat
      /\ Cardinality(Holders(a)') = 0 <=> Holders(a)' = {}
  BY HoldersCountPrime
<1>5. counter[a] = Cardinality(Holders(a)') + (IF byObject(a)' THEN 1 ELSE 0)
  BY <1>1, <1>2, HoldersCount
<1>6. a \notin allocated' => Holders(a)' = {} /\ ~byObject(a)'
  BY <1>3, <1>4, <1>5
<1>7. \A b \in allocated' : counter'[b] \in Nat
  BY <1>1, <1>3
<1>8. ASSUME NEW b \in allocated', ~unpublished(b)'
      PROVE  /\ counter'[b] + 1 = Cardinality(Holders(b)') + (IF byObject(b)' THEN 1 ELSE 0)
             /\ Holders(b)' # {} \/ byObject(b)'
  <2>1. b \in allocated /\ ~unpublished(b) BY <1>3, <1>8 DEF unpublished
  <2>2. CASE b # a
    <3>1. counter'[b] = counter[b] BY <1>1, <1>3, <2>1, <2>2
    <3> QED BY <3>1, <2>1, <2>2 DEF WeakIInv, RefsCounted
  <2>3. CASE b = a
    <3>1. counter[a] # 0 /\ counter'[a] = counter[a] - 1 BY <1>1, <1>3, <1>8, <2>3
    <3> QED BY <3>1, <1>1, <1>4, <1>5, <2>3
  <2> QED BY <2>2, <2>3
<1> QED BY <1>6, <1>7, <1>8 DEF RefsCounted

\* A weak_ptr lets go of its tracker.
LEMMA DestroyIInv == ASSUME WeakIInv, NEW s \in Slots, NEW a, a = slot[s], destroy(s) PROVE WeakIInv'
<1> USE ConstantsAssumption
<1>t. /\ slot \in [Slots -> Trackers \cup {None}] /\ allocated \subseteq Trackers
      /\ slot[s] \in allocated
  BY DEF destroy, WeakIInv, TypeOK, NoneDangles
<1>u. /\ UNCHANGED <<live, _alive, value, making, current, retiring>>
      /\ idle(s) /\ decrement(a) /\ slot' = [slot EXCEPT ![s] = None] /\ a # None
      /\ a \in allocated /\ s \in Holders(a)
  BY <1>t DEF destroy, Holders
<1>h. \A b \in Trackers :
        /\ Holders(b)' = Holders(b) \ {s}
        /\ Cardinality(Holders(b)') = Cardinality(Holders(b)) - (IF b = a THEN 1 ELSE 0)
        /\ Cardinality(Holders(b)) \in Nat
  BY <1>t, <1>u, HoldersGive
<1>b. \A b : byObject(b)' <=> byObject(b) BY <1>u DEF byObject
<1>n. /\ \A r \in Slots : making[r] = "exchange" => current[r] # a
      /\ ~unpublished(a)
  BY <1>t, <1>u DEF WeakIInv, WeakInv1, AllocatedAlone, unpublished
<1>o. \A b \in allocated : b # a => s \notin Holders(b)
  BY DEF Holders
<1>g. /\ RefsCounted' /\ \A b \in allocated' : counter'[b] \in Nat
      /\ a \notin allocated' => Holders(a)' = {} /\ ~byObject(a)'
  <2>1. \A b \in allocated : b # a =>
           /\ Cardinality(Holders(b)') = Cardinality(Holders(b))
           /\ Holders(b)' = {} <=> Holders(b) = {}
           /\ byObject(b)' <=> byObject(b)
    BY <1>h, <1>b, <1>t, <1>o
  <2>2. Cardinality(Holders(a)') + (IF byObject(a)' THEN 1 ELSE 0)
           = Cardinality(Holders(a)) + (IF byObject(a) THEN 1 ELSE 0) - 1
    BY <1>h, <1>b, <1>t, <1>u
  <2> QED BY <1>u, <1>n, <2>1, <2>2, GiveRefsCounted
<1>d. /\ allocated' \in {allocated, allocated \ {a}}
      /\ counter' = [counter EXCEPT ![a] = @ - 1]
  BY <1>u DEF decrement
<1>1. TypeOK'
  <2>1. counter' \in [Trackers -> Int] /\ allocated' \subseteq Trackers
    BY <1>d, <1>t DEF WeakIInv, TypeOK
  <2>2. slot' \in [Slots -> Trackers \cup {None}] BY <1>u, <1>t
  <2> QED BY <2>1, <2>2, <1>u, <1>g DEF WeakIInv, TypeOK, idle
<1>2. AllocatedAlone'
  <2> SUFFICES ASSUME NEW r \in Slots, NEW c \in Trackers, current'[r] = c, making'[r] = "exchange"
               PROVE  /\ counter'[c] = 1 /\ value'[c] /\ Holders(c)' = {}
                      /\ ~byObject(c)' /\ \A q \in Slots : current'[q] = c => q = r
    BY DEF AllocatedAlone
  <2>1. c # a /\ current[r] = c /\ making[r] = "exchange" BY <1>n, <1>u
  <2>2. counter'[c] = counter[c] BY <2>1, <1>d DEF WeakIInv, TypeOK
  <2> QED BY <2>1, <2>2, <1>u, <1>h, <1>b DEF WeakIInv, WeakInv1, AllocatedAlone
<1>3. LoadedCurrent' /\ MakingLive' /\ Retired'
  BY <1>u DEF WeakIInv, WeakInv1, LoadedCurrent, MakingLive, Retired, idle
<1>4. Values' BY <1>u, <1>t DEF WeakIInv, Values
<1>5. NoneDangles'
  <2>1. \A r \in Slots : slot'[r] # None => slot'[r] \in allocated'
    <3> SUFFICES ASSUME NEW r \in Slots, slot'[r] # None, slot'[r] \notin allocated'
                 PROVE  FALSE
      OBVIOUS
    <3>1. slot'[r] = slot[r] /\ slot[r] \in allocated BY <1>u, <1>t DEF WeakIInv, NoneDangles
    <3>2. slot'[r] = a /\ a \notin allocated' BY <3>1, <1>d
    <3> QED BY <3>2, <1>g DEF Holders
  <2>2. \A r \in Slots : ~idle(r) => current[r] \in allocated'
    <3> SUFFICES ASSUME NEW r \in Slots, ~idle(r), current[r] \notin allocated' PROVE FALSE
      OBVIOUS
    <3>1. current[r] = a /\ a \notin allocated' BY <1>d DEF WeakIInv, NoneDangles
    <3>2. making[r] = "increment" BY <3>1, <1>n DEF WeakIInv, TypeOK, idle
    <3>3. a = _alive BY <3>1, <3>2 DEF WeakIInv, WeakInv1, LoadedCurrent
    <3> QED BY <3>1, <3>3, <1>g, <1>b DEF byObject
  <2>3. (_alive # None => _alive \in allocated') /\ (retiring # None => retiring \in allocated')
    BY <1>d, <1>g, <1>b DEF WeakIInv, NoneDangles, byObject
  <2> QED BY <2>1, <2>2, <2>3, <1>u DEF NoneDangles, idle
<1> QED BY <1>1, <1>2, <1>3, <1>4, <1>5, <1>g DEF WeakIInv, WeakInv1

-----------------------------------------------------------------------------
\* The object sets its tracker aside, with every other operation on it excluded.
LEMMA RetireIInv == ASSUME WeakIInv, NEW stays \in BOOLEAN, Retire(stays) PROVE WeakIInv'
<1> USE ConstantsAssumption
<1>u. /\ UNCHANGED <<allocated, counter, value, slot, making, current>>
      /\ live' = stays /\ retiring' = _alive /\ _alive' = None
      /\ live /\ retiring = None /\ \A s \in Slots : idle(s)
  BY DEF Retire, Exclusive
<1>1. TypeOK' BY <1>u DEF WeakIInv, TypeOK, idle
<1>2. WeakInv1' BY <1>u DEF WeakInv1, AllocatedAlone, LoadedCurrent, MakingLive, Retired, idle
<1>3. Values' BY <1>u DEF WeakIInv, Values
<1>4. RefsCounted'
  <2>1. \A b \in allocated : Holders(b)' = Holders(b) /\ (unpublished(b)' <=> unpublished(b))
                             /\ (byObject(b)' <=> byObject(b))
    BY <1>u DEF Holders, unpublished, byObject, WeakIInv, TypeOK
  <2> QED BY <2>1, <1>u DEF WeakIInv, RefsCounted
<1>5. NoneDangles' BY <1>u DEF WeakIInv, NoneDangles, idle
<1> QED BY <1>1, <1>2, <1>3, <1>4, <1>5 DEF WeakIInv

\* The tracker's value is nulled: from here weak_ptrs to it are empty.
LEMMA StoreNullIInv == ASSUME WeakIInv, StoreNull PROVE WeakIInv'
<1> USE ConstantsAssumption
<1>u. /\ UNCHANGED <<live, _alive, allocated, counter, slot, making, current, retiring>>
      /\ retiring # None /\ value' = [value EXCEPT ![retiring] = FALSE]
  BY DEF StoreNull
<1>i. \A s \in Slots : making[s] = "idle" BY <1>u DEF WeakIInv, WeakInv1, MakingLive, idle
<1>1. TypeOK' BY <1>u DEF WeakIInv, TypeOK, idle
<1>2. WeakInv1' BY <1>u, <1>i DEF WeakIInv, WeakInv1, AllocatedAlone, LoadedCurrent, MakingLive, Retired, idle
<1>3. Values' BY <1>u DEF WeakIInv, WeakInv1, Retired, Values, TypeOK
<1>4. RefsCounted'
  <2>1. \A b : Holders(b)' = Holders(b) /\ (unpublished(b)' <=> unpublished(b))
               /\ (byObject(b)' <=> byObject(b))
    BY <1>u DEF Holders, unpublished, byObject
  <2> QED BY <2>1, <1>u DEF WeakIInv, RefsCounted
<1>5. NoneDangles' BY <1>u DEF WeakIInv, NoneDangles, idle
<1> QED BY <1>1, <1>2, <1>3, <1>4, <1>5 DEF WeakIInv

\* The object lets go of the tracker it set aside.
LEMMA ReleaseIInv == ASSUME WeakIInv, NEW a, a = retiring, Release PROVE WeakIInv'
<1> USE ConstantsAssumption
<1>u. /\ UNCHANGED <<live, _alive, value, slot, making, current>>
      /\ a # None /\ ~value[a] /\ decrement(a) /\ retiring = a /\ retiring' = None
      /\ a \in allocated /\ a \in Trackers
  BY DEF Release, WeakIInv, TypeOK, NoneDangles
<1>i. /\ \A s \in Slots : making[s] = "idle"
      /\ _alive = None
  BY <1>u DEF WeakIInv, WeakInv1, MakingLive, Retired, idle
<1>h. \A b : Holders(b)' = Holders(b) /\ (b # None => (byObject(b)' <=> b # a /\ byObject(b)))
             /\ ~unpublished(b) /\ ~unpublished(b)'
  BY <1>u, <1>i DEF Holders, byObject, unpublished
<1>g. /\ RefsCounted' /\ \A b \in allocated' : counter'[b] \in Nat
      /\ a \notin allocated' => Holders(a)' = {} /\ ~byObject(a)'
  <2>1. \A b \in allocated : b # None BY DEF WeakIInv, TypeOK
  <2>2. byObject(a) BY <1>u DEF byObject
  <2>3. Cardinality(Holders(a)) \in Nat BY HoldersCount
  <2>4. Cardinality(Holders(a)') + (IF byObject(a)' THEN 1 ELSE 0)
           = Cardinality(Holders(a)) + (IF byObject(a) THEN 1 ELSE 0) - 1
    BY <1>h, <1>u, <2>2, <2>3
  <2> QED BY <1>u, <1>h, <2>1, <2>4, GiveRefsCounted
<1>d. /\ allocated' \in {allocated, allocated \ {a}}
      /\ counter' = [counter EXCEPT ![a] = @ - 1]
  BY <1>u DEF decrement
<1>1. TypeOK'
  <2>1. counter' \in [Trackers -> Int] /\ allocated' \subseteq Trackers
    BY <1>d, <1>u DEF WeakIInv, TypeOK
  <2> QED BY <2>1, <1>u, <1>g DEF WeakIInv, TypeOK, idle
<1>2. WeakInv1' BY <1>u, <1>i DEF WeakInv1, AllocatedAlone, LoadedCurrent, MakingLive, Retired, idle
<1>3. Values' BY <1>u, <1>i DEF WeakIInv, Values
<1>4. NoneDangles'
  <2>1. \A r \in Slots : slot[r] # None => slot[r] \in allocated'
    <3> SUFFICES ASSUME NEW r \in Slots, slot[r] # None, slot[r] \notin allocated' PROVE FALSE
      OBVIOUS
    <3>1. slot[r] = a /\ a \notin allocated' BY <1>d DEF WeakIInv, NoneDangles
    <3> QED BY <3>1, <1>g, <1>h DEF Holders
  <2> QED BY <2>1, <1>u, <1>i DEF NoneDangles, idle
<1> QED BY <1>1, <1>2, <1>3, <1>4, <1>g DEF WeakIInv

\* A new object has no tracker, and a stuttering step changes nothing.
LEMMA ConstructIInv == ASSUME WeakIInv, Construct \/ UNCHANGED vars PROVE WeakIInv'
<1>u. /\ UNCHANGED <<_alive, allocated, counter, value, slot, making, current, retiring>>
      /\ live' = live \/ (~live /\ live' = TRUE /\ retiring = None)
  BY DEF Construct, vars
<1>1. TypeOK' BY <1>u DEF WeakIInv, TypeOK, idle
<1>2. LoadedCurrent' /\ MakingLive' /\ Retired'
  BY <1>u DEF WeakIInv, WeakInv1, LoadedCurrent, MakingLive, Retired, idle
<1>3. Values' BY <1>u DEF WeakIInv, Values
<1>4. \A b : Holders(b)' = Holders(b) /\ (unpublished(b)' <=> unpublished(b))
             /\ (byObject(b)' <=> byObject(b))
  BY <1>u DEF Holders, unpublished, byObject
<1>5. RefsCounted' BY <1>4, <1>u DEF WeakIInv, RefsCounted
<1>6. AllocatedAlone' BY <1>4, <1>u DEF WeakIInv, WeakInv1, AllocatedAlone
<1>7. NoneDangles' BY <1>u DEF WeakIInv, NoneDangles, idle
<1> QED BY <1>1, <1>2, <1>3, <1>5, <1>6, <1>7 DEF WeakIInv, WeakInv1

-----------------------------------------------------------------------------
\* Every step keeps the invariant.
LEMMA NextWeak == WeakIInv /\ [Next]_vars => WeakIInv'
<1> SUFFICES ASSUME WeakIInv, [Next]_vars PROVE WeakIInv' OBVIOUS
<1>1. ASSUME NEW s \in Slots, Load(s) \/ Exchange(s) \/ Increment(s) \/ destroy(s)
      PROVE  WeakIInv'
  BY <1>1, LoadIInv, ExchangeIInv, IncrementIInv, DestroyIInv
<1>2. ASSUME NEW r \in Slots, NEW s \in Slots, Copy(r, s) \/ Move(r, s) PROVE WeakIInv'
  BY <1>2, CopyIInv, MoveIInv
<1>3. ASSUME Retire(TRUE) \/ Retire(FALSE) \/ StoreNull \/ Release PROVE WeakIInv'
  BY <1>3, RetireIInv, StoreNullIInv, ReleaseIInv
<1> QED BY <1>1, <1>2, <1>3, ConstructIInv DEF Next

\* Whatever the steps of the threads, the invariant holds.
LEMMA SpecWeak == Spec => []WeakIInv
BY InitWeak, NextWeak, PTL DEF Spec

\* weak_ptrs are safe in whatever order threads make, copy, move and drop
\* them while the object is made, invalidated and destroyed: their tracker is
\* deleted exactly with the last reference, and nobody uses a deleted one.
THEOREM WeakPtrsAreSafe == Spec => []TrackersSafe
<1>1. WeakIInv => TrackersSafe BY DEF WeakIInv, TrackersSafe
<1> QED BY <1>1, SpecWeak, PTL

\* weak_ptrs give the object they were made from until it is destroyed or
\* invalidates them, and never after, although a tracker's memory may be that
\* of a later one.
THEOREM WeakPtrsTellTruth == Spec => []ValidIffCurrent
<1>1. WeakIInv => ValidIffCurrent BY DEF WeakIInv, Values, ValidIffCurrent
<1> QED BY <1>1, SpecWeak, PTL

-----------------------------------------------------------------------------
(* Unixtime.  Somebody is still to bring the message ids up to the shift   *)
(* in force: a thread whose exchange changed it and that has not taken the *)
(* lock since.                                                             *)

ClockLabels == {"idle", "ignore", "compare", "exchange", "http_shift", "http_valid",
                "lock", "initialize", "post", "http_store", "http_done"}
Shifts == Times \cup ForcedTimes \cup {0}

ClockTyped ==
  /\ ValueUpdated \in BOOLEAN /\ HttpValueValid \in BOOLEAN
  /\ ValueShift \in Shifts /\ _startShift \in Shifts /\ told \in Shifts
  /\ HttpValueShift \in Int /\ posted \in Nat
  /\ _lock \in Threads \cup {"none"}
  /\ \A t \in Threads : pc[t] = "initialize" <=> _lock = t
  /\ pc \in [Threads -> ClockLabels]
  /\ arg \in [Threads -> Int] /\ loaded \in [Threads -> Int]
  /\ \A t \in Threads :
       /\ pc[t] \in {"ignore", "compare", "exchange"} => arg[t] \in Shifts
       /\ pc[t] = "initialize" => loaded[t] \in Shifts

\* Thread t will take the lock with the shift that is in force then.
Renews(t) ==
  \/ pc[t] \in {"http_shift", "http_valid"} /\ loaded[t] # arg[t]
  \/ pc[t] = "lock"
Pending == \E t \in Threads : Renews(t)

IdsRenewed ==
  /\ \A t \in Threads : pc[t] = "initialize" => loaded[t] = ValueShift \/ Pending
  /\ _startShift = ValueShift \/ Pending \/ \E t \in Threads : pc[t] = "initialize"
ToldRenewed ==
  \/ told = ValueShift \/ posted > 0 \/ Pending
  \/ \E t \in Threads : pc[t] \in {"initialize", "post"}

ClockIInv == ClockTyped /\ IdsRenewed /\ ToldRenewed

LEMMA ShiftsAreInt ==
  /\ Shifts \subseteq Int /\ Times \cup ForcedTimes \subseteq Shifts /\ 0 \in Shifts
  /\ HttpTimes \subseteq Int /\ "none" \notin Threads
BY ThreadsAssumption DEF Shifts

LEMMA InitClock == Clock!Init => ClockIInv
<1> SUFFICES ASSUME Clock!Init PROVE ClockIInv
  OBVIOUS
<1>1. pc \in [Threads -> ClockLabels] /\ \A t \in Threads : pc[t] = "idle"
  BY DEF Clock!Init, ClockLabels
<1>2. arg \in [Threads -> Int] /\ loaded \in [Threads -> Int]
  BY DEF Clock!Init
<1>3. ClockTyped
  BY <1>1, <1>2, ShiftsAreInt DEF Clock!Init, ClockTyped
<1>4. IdsRenewed /\ ToldRenewed
  BY <1>1 DEF Clock!Init, IdsRenewed, ToldRenewed
<1> QED BY <1>3, <1>4 DEF ClockIInv

\* The steps of thread t, by name.
ClockCalls(t) ==
  \/ \E now \in Times : Clock!update(t, now, FALSE)
  \/ \E now \in ForcedTimes : Clock!update(t, now, TRUE)
  \/ \E now \in HttpTimes : Clock!http_update(t, now)
ClockSteps(t) ==
  \/ Clock!Ignore(t) \/ Clock!Compare(t) \/ Clock!Exchange(t) \/ Clock!HttpShift(t)
  \/ Clock!HttpValid(t) \/ Clock!Lock(t) \/ Clock!Initialize(t) \/ Clock!Post(t)
  \/ Clock!HttpStore(t) \/ Clock!HttpDone(t)

LEMMA ClockNext ==
  Clock!Next <=> \/ \E t \in Threads : ClockCalls(t) \/ ClockSteps(t)
                 \/ Clock!Fire \/ Clock!http_invalidate
BY DEF Clock!Next, ClockCalls, ClockSteps

\* The types, and who holds the lock.
LEMMA ClockTypedStep == ClockTyped /\ Clock!Next => ClockTyped'
<1> SUFFICES ASSUME ClockTyped, Clock!Next PROVE ClockTyped'
  OBVIOUS
<1> USE ShiftsAreInt
<1> USE DEF Clock!at, Clock!goto, Clock!shifts, Clock!http, Clock!ids, Clock!main, Clock!calls
<1>1. CASE Clock!Fire
  BY <1>1 DEF Clock!Fire, ClockTyped
<1>i. CASE Clock!http_invalidate
  BY <1>i DEF Clock!http_invalidate, ClockTyped
<1>2. ASSUME NEW t \in Threads, ClockCalls(t) PROVE ClockTyped'
  <2>1. pc[t] = "idle" /\ UNCHANGED <<ValueShift, _startShift, told, HttpValueShift, posted, _lock>>
    BY <1>2 DEF ClockCalls, Clock!update, Clock!http_update
  <2>2. ValueUpdated' \in BOOLEAN /\ HttpValueValid' \in BOOLEAN
    BY <1>2 DEF ClockCalls, Clock!update, Clock!http_update, ClockTyped
  <2>3. PICK l \in {"exchange", "ignore", "http_store"} : pc' = [pc EXCEPT ![t] = l]
    BY <1>2 DEF ClockCalls, Clock!update, Clock!http_update
  <2>4. PICK now \in Int :
          arg' = [arg EXCEPT ![t] = now] /\ (pc'[t] # "http_store" => now \in Shifts)
    BY <1>2 DEF ClockCalls, Clock!update, Clock!http_update, ClockTyped
  <2>5. loaded' \in [Threads -> Int] /\ \A u \in Threads \ {t} : loaded'[u] = loaded[u]
    BY <1>2 DEF ClockCalls, Clock!update, Clock!http_update, ClockTyped
  <2>6. pc' \in [Threads -> ClockLabels]
    BY <2>3 DEF ClockTyped, ClockLabels
  <2>7. arg' \in [Threads -> Int]
    BY <2>4 DEF ClockTyped
  <2> QED BY <2>1, <2>2, <2>3, <2>4, <2>5, <2>6, <2>7 DEF ClockTyped
<1>3. ASSUME NEW t \in Threads, ClockSteps(t) PROVE ClockTyped'
  <2> USE DEF ClockTyped, ClockLabels
  <2>1. CASE Clock!Ignore(t)
    BY <2>1 DEF Clock!Ignore
  <2>c. CASE Clock!Compare(t)
    BY <2>c DEF Clock!Compare
  <2>2. CASE Clock!Exchange(t)
    BY <2>2 DEF Clock!Exchange
  <2>h. CASE Clock!HttpShift(t)
    BY <2>h DEF Clock!HttpShift
  <2>v. CASE Clock!HttpValid(t)
    BY <2>v DEF Clock!HttpValid
  <2>3. CASE Clock!Lock(t) \/ Clock!Initialize(t)
    BY <2>3 DEF Clock!Lock, Clock!Initialize
  <2>4. CASE Clock!Post(t)
    BY <2>4 DEF Clock!Post
  <2>5. CASE Clock!HttpStore(t)
    BY <2>5 DEF Clock!HttpStore
  <2>6. CASE Clock!HttpDone(t)
    BY <2>6 DEF Clock!HttpDone
  <2> QED BY <1>3, <2>1, <2>c, <2>2, <2>h, <2>v, <2>3, <2>4, <2>5, <2>6 DEF ClockSteps
<1> QED BY <1>1, <1>i, <1>2, <1>3, ClockNext

\* A step that changes neither shift nor what the threads are at.
LEMMA ClockIdle ==
  ASSUME ClockIInv, UNCHANGED <<ValueShift, _startShift, loaded, arg, pc>>,
         UNCHANGED <<posted, told>> \/ told' = ValueShift
  PROVE  IdsRenewed' /\ ToldRenewed'
<1>1. Pending' <=> Pending
  BY DEF Pending, Renews
<1>3. IdsRenewed'
  BY <1>1 DEF ClockIInv, IdsRenewed
<1>4. ToldRenewed'
  BY <1>1 DEF ClockIInv, ToldRenewed
<1> QED BY <1>3, <1>4

\* A step of a thread that is not about to renew the ids, and will not be.
LEMMA ClockMoves ==
  ASSUME ClockIInv, NEW t \in Threads, NEW l,
         ~Renews(t), pc[t] \notin {"initialize", "post"}, l \notin {"initialize", "post"},
         \A u \in Threads \ {t} : arg'[u] = arg[u] /\ loaded'[u] = loaded[u],
         pc' = [pc EXCEPT ![t] = l],
         UNCHANGED <<ValueShift, _startShift, told, posted>>
  PROVE  IdsRenewed' /\ ToldRenewed'
<1>1. /\ \A u \in Threads : pc[u] = "initialize" <=> pc'[u] = "initialize"
      /\ \A u \in Threads : pc[u] = "post" <=> pc'[u] = "post"
      /\ \A u \in Threads : pc[u] = "initialize" => loaded'[u] = loaded[u]
  BY DEF ClockIInv, ClockTyped
<1>2. Pending => Pending'
  <2> SUFFICES ASSUME NEW u \in Threads, Renews(u) PROVE Pending'
    BY DEF Pending
  <2>1. u # t
    OBVIOUS
  <2> QED BY <2>1 DEF Pending, Renews, ClockIInv, ClockTyped
<1> QED BY <1>1, <1>2 DEF ClockIInv, IdsRenewed, ToldRenewed

\* Every step of update() leaves the ids renewed, or somebody who will do it.
LEMMA ClockRenews == ClockIInv /\ Clock!Next => IdsRenewed' /\ ToldRenewed'
<1> SUFFICES ASSUME ClockIInv, Clock!Next PROVE IdsRenewed' /\ ToldRenewed'
  OBVIOUS
<1> USE DEF Clock!at, Clock!goto, Clock!shifts, Clock!http, Clock!ids, Clock!main, Clock!calls
<1>t. /\ ClockTyped /\ posted \in Nat /\ pc \in [Threads -> ClockLabels]
      /\ arg \in [Threads -> Int] /\ loaded \in [Threads -> Int]
      /\ \A t \in Threads : pc[t] = "initialize" <=> _lock = t
  BY DEF ClockIInv, ClockTyped
<1>1. CASE Clock!Fire \/ Clock!http_invalidate
  BY <1>1, <1>t, ClockIdle DEF Clock!Fire, Clock!http_invalidate
<1>2. ASSUME NEW t \in Threads, ClockCalls(t) PROVE IdsRenewed' /\ ToldRenewed'
  <2>1. pc[t] = "idle"
    BY <1>2 DEF ClockCalls, Clock!update, Clock!http_update
  <2>2. PICK l \in {"exchange", "ignore", "http_store"} : pc' = [pc EXCEPT ![t] = l]
    BY <1>2 DEF ClockCalls, Clock!update, Clock!http_update
  <2>3. /\ \A u \in Threads \ {t} : arg'[u] = arg[u] /\ loaded'[u] = loaded[u]
        /\ UNCHANGED <<ValueShift, _startShift, told, posted>>
    BY <1>2, <1>t DEF ClockCalls, Clock!update, Clock!http_update
  <2> QED BY <2>1, <2>2, <2>3, ClockMoves DEF Renews
<1>3. ASSUME NEW t \in Threads, Clock!Ignore(t) \/ Clock!Compare(t) \/ Clock!HttpStore(t)
                                  \/ Clock!HttpDone(t)
      PROVE  IdsRenewed' /\ ToldRenewed'
  <2>1. pc[t] \in {"ignore", "compare", "http_store", "http_done"}
    BY <1>3 DEF Clock!Ignore, Clock!Compare, Clock!HttpStore, Clock!HttpDone
  <2>2. PICK l \in {"idle", "compare", "exchange", "http_done"} : pc' = [pc EXCEPT ![t] = l]
    BY <1>3 DEF Clock!Ignore, Clock!Compare, Clock!HttpStore, Clock!HttpDone
  <2>3. UNCHANGED <<arg, loaded, ValueShift, _startShift, told, posted>>
    BY <1>3 DEF Clock!Ignore, Clock!Compare, Clock!HttpStore, Clock!HttpDone
  <2> QED BY <2>1, <2>2, <2>3, ClockMoves DEF Renews
<1>4. ASSUME NEW t \in Threads, Clock!Exchange(t) PROVE IdsRenewed' /\ ToldRenewed'
  <2>1. /\ pc[t] = "exchange" /\ pc' = [pc EXCEPT ![t] = "http_shift"]
        /\ loaded' = [loaded EXCEPT ![t] = ValueShift] /\ ValueShift' = arg[t]
        /\ UNCHANGED <<arg, _startShift, told, posted>>
    BY <1>4 DEF Clock!Exchange
  <2>2. CASE ValueShift' = ValueShift
    <3>1. \A u \in Threads \ {t} : arg'[u] = arg[u] /\ loaded'[u] = loaded[u]
      BY <2>1, <1>t
    <3> QED BY <2>1, <2>2, <3>1, ClockMoves DEF Renews
  <2>3. CASE ValueShift' # ValueShift
    <3>1. Renews(t)'
      BY <2>1, <2>3, <1>t DEF Renews
    <3> QED BY <3>1 DEF Pending, IdsRenewed, ToldRenewed
  <2> QED BY <2>2, <2>3
<1>5. ASSUME NEW t \in Threads, Clock!HttpShift(t) \/ Clock!HttpValid(t)
      PROVE  IdsRenewed' /\ ToldRenewed'
  <2>1. /\ pc[t] \in {"http_shift", "http_valid"}
        /\ UNCHANGED <<arg, loaded, ValueShift, _startShift, told, posted>>
    BY <1>5 DEF Clock!HttpShift, Clock!HttpValid
  <2>2. PICK l \in {"http_valid", "lock", "idle"} :
          /\ pc' = [pc EXCEPT ![t] = l]
          /\ loaded[t] # arg[t] => l \in {"http_valid", "lock"}
    BY <1>5 DEF Clock!HttpShift, Clock!HttpValid
  <2>3. CASE Renews(t)
    <3>1. Renews(t)'
      BY <2>1, <2>2, <2>3, <1>t DEF Renews
    <3> QED BY <3>1 DEF Pending, IdsRenewed, ToldRenewed
  <2>4. CASE ~Renews(t)
    BY <2>1, <2>2, <2>4, ClockMoves
  <2> QED BY <2>3, <2>4
<1>6. ASSUME NEW t \in Threads, Clock!Lock(t) PROVE IdsRenewed' /\ ToldRenewed'
  <2>1. /\ pc[t] = "lock" /\ _lock = "none" /\ pc' = [pc EXCEPT ![t] = "initialize"]
        /\ loaded' = [loaded EXCEPT ![t] = ValueShift]
        /\ UNCHANGED <<arg, ValueShift, _startShift, told, posted>>
    BY <1>6 DEF Clock!Lock
  <2>2. /\ pc'[t] = "initialize" /\ loaded'[t] = ValueShift'
        /\ \A u \in Threads : pc'[u] = "initialize" => u = t
    BY <2>1, <1>t, ShiftsAreInt
  <2> QED BY <2>2 DEF IdsRenewed, ToldRenewed
<1>7. ASSUME NEW t \in Threads, Clock!Initialize(t) PROVE IdsRenewed' /\ ToldRenewed'
  <2>1. /\ pc[t] = "initialize" /\ _startShift' = loaded[t] /\ pc' = [pc EXCEPT ![t] = "post"]
        /\ UNCHANGED <<arg, loaded, ValueShift, told, posted>>
    BY <1>7 DEF Clock!Initialize
  <2>2. \A u \in Threads : pc'[u] # "initialize"
    BY <2>1, <1>t, ShiftsAreInt
  <2>3. Pending => Pending'
    BY <2>1, <1>t DEF Pending, Renews
  <2>4. loaded[t] = ValueShift \/ Pending
    BY <2>1 DEF ClockIInv, IdsRenewed
  <2>5. pc'[t] = "post"
    BY <2>1, <1>t
  <2> QED BY <2>1, <2>2, <2>3, <2>4, <2>5 DEF IdsRenewed, ToldRenewed
<1>8. ASSUME NEW t \in Threads, Clock!Post(t) PROVE IdsRenewed' /\ ToldRenewed'
  <2>1. /\ pc[t] = "post" /\ pc' = [pc EXCEPT ![t] = "idle"] /\ posted' = posted + 1
        /\ UNCHANGED <<arg, loaded, ValueShift, _startShift, told>>
    BY <1>8 DEF Clock!Post
  <2>2. \A u \in Threads : pc'[u] = "initialize" <=> pc[u] = "initialize"
    BY <2>1, <1>t
  <2>3. Pending => Pending'
    BY <2>1, <1>t DEF Pending, Renews
  <2>4. posted' > 0
    BY <2>1, <1>t
  <2> QED BY <2>1, <2>2, <2>3, <2>4 DEF ClockIInv, IdsRenewed, ToldRenewed
<1> QED BY <1>1, <1>2, <1>3, <1>4, <1>5, <1>6, <1>7, <1>8, ClockNext DEF ClockSteps

LEMMA NextClock == ClockIInv /\ [Clock!Next]_clockVars => ClockIInv'
<1>1. CASE UNCHANGED clockVars
  BY <1>1 DEF clockVars, ClockIInv, ClockTyped, Clock!at, IdsRenewed, ToldRenewed,
     Pending, Renews
<1> QED BY <1>1, ClockTypedStep, ClockRenews DEF ClockIInv

LEMMA ClockLatest == ClockIInv => Clock!IdsFollowShift /\ Clock!SubscribersTold
BY DEF ClockIInv, ClockTyped, IdsRenewed, ToldRenewed, Pending, Renews,
   Clock!IdsFollowShift, Clock!SubscribersTold, Clock!Updating, Clock!Busy, Clock!at

-----------------------------------------------------------------------------
(* The http time, for calls that do not overlap: it is an answer's while   *)
(* it is valid, except between the exchange and the call that invalidates. *)

Alone == \A t, u \in Threads : pc[t] # "idle" /\ pc[u] # "idle" => t = u

HttpSettled == \A t \in Threads : pc[t] \notin {"http_shift", "http_valid"}
HttpTrue ==
  /\ HttpValueValid /\ HttpSettled => Clock!http_now \in HttpTimes
  /\ \A t \in Threads :
       /\ pc[t] = "http_store" => loaded[t] = ValueShift /\ arg[t] \in HttpTimes
       /\ pc[t] = "http_done" => Clock!http_now \in HttpTimes

LEMMA HttpStays ==
  ASSUME ClockIInv, HttpTrue, Clock!Next, Alone, Alone'
  PROVE  HttpTrue'
<1> USE ShiftsAreInt DEF Clock!at, Clock!goto, Clock!shifts, Clock!http, Clock!ids, Clock!main,
                         Clock!calls, Clock!http_now
<1>t. /\ pc \in [Threads -> ClockLabels] /\ ValueShift \in Int /\ HttpValueShift \in Int
      /\ arg \in [Threads -> Int] /\ loaded \in [Threads -> Int]
  BY DEF ClockIInv, ClockTyped
<1>1. CASE Clock!Fire \/ Clock!http_invalidate
  BY <1>1 DEF Clock!Fire, Clock!http_invalidate, HttpTrue, HttpSettled
<1>2. ASSUME NEW t \in Threads, UNCHANGED <<ValueShift, HttpValueShift, HttpValueValid>>,
             \A u \in Threads \ {t} :
               arg'[u] = arg[u] /\ loaded'[u] = loaded[u] /\ pc'[u] = pc[u],
             pc[t] \notin {"http_shift", "http_valid"}, pc'[t] \notin {"http_store", "http_done"}
      PROVE  HttpTrue'
  <2>1. HttpSettled' => HttpSettled
    BY <1>2 DEF HttpSettled
  <2>2. ASSUME NEW u \in Threads, pc'[u] \in {"http_store", "http_done"}
        PROVE  u # t
    BY <1>2, <2>2
  <2> QED BY <1>2, <2>1, <2>2 DEF HttpTrue
<1>3. ASSUME NEW t \in Threads, NEW now \in HttpTimes, Clock!http_update(t, now)
      PROVE  HttpTrue'
  BY <1>3, <1>t DEF Clock!http_update, HttpTrue, HttpSettled
<1>4. ASSUME NEW t \in Threads, NEW now, NEW f, Clock!update(t, now, f)
      PROVE  HttpTrue'
  BY <1>2, <1>4, <1>t DEF Clock!update
<1>5. ASSUME NEW t \in Threads, \/ Clock!Ignore(t) \/ Clock!Compare(t) \/ Clock!Lock(t)
                                \/ Clock!Initialize(t) \/ Clock!Post(t)
      PROVE  HttpTrue'
  <2>1. /\ pc[t] \in {"ignore", "compare", "lock", "initialize", "post"}
        /\ \E l \in {"idle", "compare", "exchange", "initialize", "post"} :
             pc' = [pc EXCEPT ![t] = l]
        /\ UNCHANGED <<arg, ValueShift, HttpValueShift, HttpValueValid>>
        /\ loaded' \in {loaded, [loaded EXCEPT ![t] = ValueShift]}
    BY <1>5 DEF Clock!Ignore, Clock!Compare, Clock!Lock, Clock!Initialize, Clock!Post
  <2> QED BY <1>2, <1>t, <2>1
<1>6. ASSUME NEW t \in Threads, Clock!Exchange(t) \/ Clock!HttpShift(t)
      PROVE  HttpTrue'
  <2>1. pc'[t] \in {"http_shift", "http_valid"}
    BY <1>6, <1>t DEF Clock!Exchange, Clock!HttpShift
  <2>2. \A u \in Threads : u # t => pc'[u] = "idle"
    BY <2>1 DEF Alone
  <2> QED BY <2>1, <2>2 DEF HttpTrue, HttpSettled
<1>7. ASSUME NEW t \in Threads, Clock!HttpValid(t)
      PROVE  HttpTrue'
  <2>1. /\ HttpValueValid' = FALSE /\ pc[t] = "http_valid" /\ pc'[t] \in {"idle", "lock"}
        /\ \A u \in Threads \ {t} : pc'[u] = pc[u]
    BY <1>7, <1>t DEF Clock!HttpValid
  <2>2. \A u \in Threads : pc'[u] \notin {"http_store", "http_done"}
    BY <2>1 DEF Alone
  <2> QED BY <2>1, <2>2 DEF HttpTrue
<1>8. ASSUME NEW t \in Threads, Clock!HttpStore(t)
      PROVE  HttpTrue'
  <2>1. /\ pc[t] = "http_store" /\ pc' = [pc EXCEPT ![t] = "http_done"]
        /\ HttpValueShift' = arg[t] - loaded[t] /\ UNCHANGED <<ValueShift, arg, loaded>>
    BY <1>8 DEF Clock!HttpStore
  <2>2. loaded[t] = ValueShift /\ arg[t] \in HttpTimes
    BY <2>1 DEF HttpTrue
  <2>3. ValueShift' + HttpValueShift' = arg[t]
    BY <1>t, <2>1, <2>2
  <2>4. \A u \in Threads : u # t => pc'[u] = "idle"
    BY <1>t, <2>1 DEF Alone
  <2> QED BY <1>t, <2>1, <2>2, <2>3, <2>4 DEF HttpTrue
<1>9. ASSUME NEW t \in Threads, Clock!HttpDone(t)
      PROVE  HttpTrue'
  <2>1. /\ pc[t] = "http_done" /\ pc' = [pc EXCEPT ![t] = "idle"]
        /\ UNCHANGED <<ValueShift, HttpValueShift, arg, loaded>>
    BY <1>9 DEF Clock!HttpDone
  <2>2. Clock!http_now \in HttpTimes
    BY <2>1 DEF HttpTrue
  <2> QED BY <1>t, <2>1, <2>2 DEF HttpTrue
<1> QED BY <1>1, <1>3, <1>4, <1>5, <1>6, <1>7, <1>8, <1>9, ClockNext DEF ClockSteps, ClockCalls

-----------------------------------------------------------------------------
(* Reachability.  Whoever subscribed is told every later change: the last  *)
(* notice is of the network as it is; and what start() read is too, or a   *)
(* notice of the change since is on its way or was told already.           *)

\* What the last notice says is so, and v is if no notice is to come.
Latest(v) == IF notices = <<>> THEN v = online ELSE notices[Len(notices)] = online

NetIInv ==
  /\ Net!TypeOK
  /\ notices # <<>> => Net!Subscribed /\ notices[Len(notices)] = online
  /\ stage = "read" /\ ~overtaken => Latest(connectivity)
  /\ stage \in {"helper", "qt"} /\ ~overtaken => Latest(available)

LEMMA NetConstants == MaxFlips \in Nat /\ MaxHolders \in Nat /\ <<>> \in Seq(BOOLEAN)
BY ThreadsAssumption, EmptySeq

LEMMA InitNet == Net!Init => NetIInv
<1> SUFFICES ASSUME Net!Init PROVE NetIInv
  OBVIOUS
<1>1. flips \in 0 .. MaxFlips /\ holders \in 0 .. MaxHolders /\ notices \in Seq(BOOLEAN)
  BY NetConstants DEF Net!Init
<1> QED BY <1>1 DEF Net!Init, NetIInv, Net!TypeOK, Net!Stages

\* The steps of the instance.
LEMMA NetOwner ==
  ASSUME NetIInv, \/ Net!Instance \/ Net!Advise \/ Net!GetConnectivity \/ Net!Started
                  \/ Net!Fallback \/ Net!Release
  PROVE  NetIInv'
<1> USE NetConstants DEF NetIInv, Net!TypeOK, Net!Stages, Net!Subscribed, Latest
<1>1. CASE Net!Instance
  <2>1. CASE holders = 0
    <3>1. /\ stage = "none" /\ stage' = "created" /\ available' = TRUE /\ overtaken' = FALSE
          /\ holders' \in 0 .. MaxHolders /\ holders' # 0 /\ notices = <<>>
          /\ UNCHANGED <<online, flips, connectivity, notices>>
      BY <1>1, <2>1 DEF Net!Instance
    <3> QED BY <3>1
  <2>2. CASE holders # 0
    <3>1. /\ holders' \in 0 .. MaxHolders /\ holders' # 0
          /\ UNCHANGED <<online, flips, stage, connectivity, available, notices, overtaken>>
      BY <1>1, <2>2 DEF Net!Instance
    <3> QED BY <2>2, <3>1
  <2> QED BY <2>1, <2>2
<1>2. CASE Net!Advise
  BY <1>2 DEF Net!Advise
<1>3. CASE Net!GetConnectivity
  BY <1>3 DEF Net!GetConnectivity
<1>4. CASE Net!Started
  BY <1>4 DEF Net!Started
<1>5. CASE Net!Fallback
  <2>1. /\ stage # "none" /\ notices' = <<>> /\ overtaken' = FALSE
        /\ \/ stage' = "qt" /\ available' = online
           \/ stage' = "fixed" /\ available' = TRUE
        /\ UNCHANGED <<online, flips, connectivity, holders>>
    BY <1>5 DEF Net!Fallback
  <2> QED BY <2>1
<1>6. CASE Net!Release
  <2>1. /\ holders' \in 0 .. MaxHolders /\ stage # "none"
        /\ \/ holders' # 0 /\ UNCHANGED <<stage, notices>>
           \/ holders' = 0 /\ stage' = "none" /\ notices' = <<>>
        /\ UNCHANGED <<online, flips, connectivity, available, overtaken>>
    BY <1>6 DEF Net!Release
  <2> QED BY <2>1
<1> QED BY <1>1, <1>2, <1>3, <1>4, <1>5, <1>6

\* The network and what is told of it.
LEMMA NetTold == ASSUME NetIInv, Net!Flip \/ Net!Told PROVE NetIInv'
<1>1. CASE Net!Flip
  <2>1. online' \in BOOLEAN /\ online' = ~online /\ flips' \in 0 .. MaxFlips
    BY <1>1, ThreadsAssumption DEF Net!Flip, NetIInv, Net!TypeOK
  <2>2. UNCHANGED <<stage, connectivity, available, holders, overtaken>>
    BY <1>1 DEF Net!Flip
  <2>3. CASE Net!Subscribed
    <3>1. notices' = Append(notices, online') /\ notices \in Seq(BOOLEAN)
      BY <1>1, <2>1, <2>3 DEF Net!Flip, NetIInv, Net!TypeOK
    <3>2. /\ notices' \in Seq(BOOLEAN) /\ Len(notices') = Len(notices) + 1
          /\ notices'[Len(notices) + 1] = online'
      BY <2>1, <3>1, AppendProperties
    <3>3. notices' # <<>> /\ notices'[Len(notices')] = online'
      BY <3>1, <3>2, LenProperties
    <3>4. \A v : Latest(v)'
      BY <3>3 DEF Latest
    <3> QED BY <2>1, <2>2, <2>3, <3>2, <3>3, <3>4 DEF NetIInv, Net!TypeOK, Net!Subscribed, Latest
  <2>4. CASE ~Net!Subscribed
    <3>1. notices' = notices /\ notices = <<>>
      BY <1>1, <2>4 DEF Net!Flip, NetIInv
    <3> QED BY <2>1, <2>2, <2>4, <3>1 DEF NetIInv, Net!TypeOK, Net!Subscribed, Latest
  <2> QED BY <2>3, <2>4
<1>2. CASE Net!Told
  <2>1. /\ notices # <<>> /\ notices' = Tail(notices) /\ available' = Head(notices)
        /\ overtaken' = (stage = "read")
        /\ UNCHANGED <<online, flips, stage, connectivity, holders>>
    BY <1>2 DEF Net!Told
  <2>2. /\ notices \in Seq(BOOLEAN) /\ Net!Subscribed /\ notices[Len(notices)] = online
    BY <2>1 DEF NetIInv, Net!TypeOK, Latest
  <2>3. /\ notices' \in Seq(BOOLEAN) /\ Head(notices) \in BOOLEAN /\ Head(notices) = notices[1]
        /\ Len(notices') = Len(notices) - 1 /\ Len(notices) \in Nat
        /\ \A i \in 1 .. Len(notices') : notices'[i] = notices[i + 1]
    BY <2>1, <2>2, HeadTailProperties, LenProperties
  <2>4. CASE notices' = <<>>
    <3>1. Len(notices) = 1
      BY <2>3, <2>4
    <3>2. available' = online'
      BY <2>1, <2>2, <2>3, <3>1
    <3> QED BY <2>1, <2>2, <2>3, <2>4, <3>2 DEF NetIInv, Net!TypeOK, Net!Subscribed, Latest
  <2>5. CASE notices' # <<>>
    <3>1. Len(notices') \in 1 .. Len(notices')
      BY <2>3, <2>5, EmptySeq, LenProperties
    <3>2. notices'[Len(notices')] = online'
      BY <2>1, <2>2, <2>3, <3>1
    <3>3. overtaken' \in BOOLEAN
      BY <2>1
    <3> QED BY <2>1, <2>2, <2>3, <2>5, <3>2, <3>3
            DEF NetIInv, Net!TypeOK, Net!Subscribed, Latest
  <2> QED BY <2>4, <2>5
<1> QED BY <1>1, <1>2

LEMMA NextNet == NetIInv /\ [Net!Next]_netVars => NetIInv'
<1>1. CASE UNCHANGED netVars
  BY <1>1 DEF netVars, NetIInv, Net!TypeOK, Net!Subscribed, Latest
<1> QED BY <1>1, NetOwner, NetTold DEF Net!Next

LEMMA NetFollows == NetIInv => Net!AvailabilityFollows
BY DEF NetIInv, Net!AvailabilityFollows, Latest

-----------------------------------------------------------------------------
(* MsgIds.  What a thread's next call adds its four to, made with the start *)
(* it reads and the counter it has read, is never less than the last id it *)
(* was given, but for what the start was moved back between the two calls' *)
(* reads of it.  A call that has read its start may be behind by what that *)
(* is moved back meanwhile, and so its id is, when it is the thread's last.*)

\* The id of the counter c, with the start s, before Masked(): a c that was read
\* before s was made adds nothing.
IdOf(s, c) == IF c >= s.counter THEN s.id + Ids!Grown(c - s.counter) ELSE s.id
Start == [counter |-> _startCounter, id |-> _startId, back |-> movedBack]

IdsTyped ==
  /\ nanoseconds \in Nat /\ _startCounter \in 0 .. nanoseconds /\ _startId \in Int
  /\ _incrementedPart = 4 * count /\ count \in Nat
  /\ idPc \in [Threads -> {"idle", "counted", "started"}]
  /\ read \in [Threads -> Nat] /\ last \in [Threads -> Int]
  /\ start \in [Threads -> [counter : Nat, id : Int, back : Nat]]
  /\ movedBack \in Nat /\ lastBack \in [Threads -> Nat]
  /\ \A i \in issued : i \in Int /\ i % 4 = 0

\* The thread t's last id is reached with the start s at the counter c.
Reached(t, s, c) == last[t] <= IdOf(s, c) + _incrementedPart + s.back - lastBack[t]

\* What s was moved back until it became r is all that r is behind.
Behind(s, r, c, d) == IdOf(s, c) + s.back <= IdOf(r, d) + r.back

LastReached ==
  \A t \in Threads :
    /\ idPc[t] = "idle" => Reached(t, Start, nanoseconds)
    /\ idPc[t] # "idle" => read[t] <= nanoseconds
    /\ idPc[t] = "counted" => Reached(t, Start, read[t])
    /\ idPc[t] = "started" => /\ Reached(t, start[t], read[t])
                              /\ Behind(start[t], Start, read[t], nanoseconds)

IdsIInv == IdsTyped /\ LastReached

Starts == [counter : Nat, id : Int, back : Nat]

\* Ids grow with the counter.
LEMMA IdsGrow ==
  ASSUME NEW s \in Starts, NEW c \in Nat, NEW d \in Nat, c <= d
  PROVE  /\ IdOf(s, c) \in Int /\ IdOf(s, d) \in Int
         /\ IdOf(s, c) <= IdOf(s, d) /\ s.id <= IdOf(s, c)
<1> DEFINE i == s.id
           n == s.counter
<1>1. i \in Int /\ n \in Nat
  BY DEF Starts
<1> HIDE DEF i, n
<1>2. ASSUME NEW x \in Int, NEW y \in Int, 0 <= x, x <= y
      PROVE  /\ (x * 429) \div 100 \in Int /\ (y * 429) \div 100 \in Int
             /\ 0 <= (x * 429) \div 100 /\ (x * 429) \div 100 <= (y * 429) \div 100
  BY <1>2
<1>3. /\ IdOf(s, c) = IF c >= n THEN i + ((c - n) * 429) \div 100 ELSE i
      /\ IdOf(s, d) = IF d >= n THEN i + ((d - n) * 429) \div 100 ELSE i
  BY DEF IdOf, Ids!Grown, i, n
<1>4. CASE c >= n
  <2>1. c - n \in Int /\ d - n \in Int /\ 0 <= c - n /\ c - n <= d - n /\ d >= n
    BY <1>1, <1>4
  <2> DEFINE g == ((c - n) * 429) \div 100
             h == ((d - n) * 429) \div 100
  <2>2. g \in Int /\ h \in Int /\ 0 <= g /\ g <= h
    BY <1>2, <2>1
  <2>3. IdOf(s, c) = i + g /\ IdOf(s, d) = i + h
    BY <1>3, <1>4, <2>1
  <2> HIDE DEF g, h
  <2> QED BY <1>1, <2>2, <2>3 DEF i
<1>5. CASE ~(c >= n) /\ d >= n
  <2>1. d - n \in Int /\ 0 <= d - n
    BY <1>1, <1>5
  <2> DEFINE h == ((d - n) * 429) \div 100
  <2>2. h \in Int /\ 0 <= h
    BY <1>2, <2>1
  <2>3. IdOf(s, c) = i /\ IdOf(s, d) = i + h
    BY <1>3, <1>5
  <2> HIDE DEF h
  <2> QED BY <1>1, <2>2, <2>3 DEF i
<1>6. CASE ~(c >= n) /\ ~(d >= n)
  BY <1>1, <1>3, <1>6 DEF i
<1> QED BY <1>4, <1>5, <1>6

LEMMA Masks ==
  ASSUME NEW x \in Int
  PROVE  /\ Ids!Masked(x) \in Int /\ Ids!Masked(x) % 4 = 0
         /\ Ids!Masked(x) <= x /\ x < Ids!Masked(x) + 4
BY DEF Ids!Masked

\* A start that is made at the counter d goes on from the old one's id there, but
\* for what it is moved back.
LEMMA StartMoves ==
  ASSUME NEW s \in Starts, NEW r \in Starts, NEW d \in Nat, NEW move \in Int,
         s.counter <= d, r.counter = d,
         r.id = s.id + Ids!Grown(d - s.counter) + move,
         r.back = IF move < 0 THEN s.back - move ELSE s.back
  PROVE  \A c \in Nat : c <= d => Behind(s, r, c, d) /\ Behind(s, r, c, c)
<1> SUFFICES ASSUME NEW c \in Nat, c <= d PROVE Behind(s, r, c, d) /\ Behind(s, r, c, c)
  OBVIOUS
<1>1. /\ IdOf(s, c) \in Int /\ IdOf(s, d) \in Int /\ IdOf(s, c) <= IdOf(s, d)
      /\ IdOf(r, c) \in Int /\ r.id <= IdOf(r, c)
      /\ IdOf(r, d) \in Int /\ r.id <= IdOf(r, d)
  BY IdsGrow
<1>2. s.id \in Int /\ s.back \in Nat /\ r.id \in Int /\ r.back \in Nat /\ s.counter \in Nat
  BY DEF Starts
<1>3. IdOf(s, d) = s.id + Ids!Grown(d - s.counter)
  BY <1>2 DEF IdOf
<1>4. r.id = IdOf(s, d) + move
  BY <1>3
<1>5. r.id + r.back >= IdOf(s, d) + s.back
  BY <1>1, <1>2, <1>4
<1> QED BY <1>1, <1>2, <1>5 DEF Behind

LEMMA InitIds == Ids!Init => IdsIInv
<1> SUFFICES ASSUME Ids!Init PROVE IdsIInv
  OBVIOUS
<1>1. IdsTyped
  BY DEF Ids!Init, IdsTyped
<1>2. Start \in Starts /\ Start.id = 20 /\ Start.back = 0 /\ nanoseconds = 0
  BY DEF Ids!Init, Start, Starts
<1>3. IdOf(Start, nanoseconds) \in Int /\ IdOf(Start, nanoseconds) >= 20
  BY <1>2, IdsGrow
<1>4. LastReached
  BY <1>2, <1>3 DEF Ids!Init, LastReached, Reached
<1> QED BY <1>1, <1>4 DEF IdsIInv

LEMMA IdsStep == IdsIInv /\ Ids!Next => IdsIInv' /\ Ids!Grows
<1> SUFFICES ASSUME IdsIInv, Ids!Next PROVE IdsIInv' /\ Ids!Grows
  OBVIOUS
<1>t. /\ nanoseconds \in Nat /\ _startCounter \in 0 .. nanoseconds /\ _startId \in Int
      /\ _startCounter \in Nat
      /\ _incrementedPart = 4 * count /\ count \in Nat /\ _incrementedPart \in Nat
      /\ idPc \in [Threads -> {"idle", "counted", "started"}]
      /\ read \in [Threads -> Nat] /\ last \in [Threads -> Int]
      /\ start \in [Threads -> Starts]
      /\ movedBack \in Nat /\ lastBack \in [Threads -> Nat]
      /\ \A i \in issued : i \in Int /\ i % 4 = 0
  BY DEF IdsIInv, IdsTyped, Starts
<1>l. LastReached
  BY DEF IdsIInv
<1>s. Start \in Starts /\ Start.back = movedBack
  BY <1>t DEF Start, Starts
<1>i. \A s \in Starts, c \in Nat : IdOf(s, c) \in Int /\ s.back \in Nat
  BY IdsGrow DEF Starts
<1>1. CASE Ids!Tick
  <2>1. /\ nanoseconds' = nanoseconds + 1
        /\ UNCHANGED <<_startCounter, _startId, _incrementedPart, idPc, read, start, last,
                       issued, count, movedBack, lastBack>>
    BY <1>1 DEF Ids!Tick, Ids!starts, Ids!given
  <2>2. Start' = Start
    BY <2>1 DEF Start
  <2>3. /\ IdOf(Start, nanoseconds) <= IdOf(Start, nanoseconds')
        /\ IdOf(Start, nanoseconds) \in Int /\ IdOf(Start, nanoseconds') \in Int
    BY <1>t, <1>s, <2>1, IdsGrow
  <2>4. IdsTyped'
    BY <1>t, <2>1 DEF IdsTyped, Starts
  <2>5. ASSUME NEW t \in Threads
        PROVE  /\ idPc[t] = "idle" => Reached(t, Start, nanoseconds)'
               /\ idPc[t] # "idle" => read[t] <= nanoseconds'
               /\ idPc[t] = "counted" => Reached(t, Start, read[t])'
               /\ idPc[t] = "started" => /\ Reached(t, start[t], read[t])'
                                         /\ Behind(start[t], Start, read[t], nanoseconds)'
    <3>1. IdOf(start[t], read[t]) \in Int /\ start[t].back \in Nat /\ last[t] \in Int
          /\ lastBack[t] \in Nat /\ read[t] \in Nat
      BY <1>t, <1>i
    <3>2. /\ idPc[t] = "idle" => Reached(t, Start, nanoseconds)
          /\ idPc[t] # "idle" => read[t] <= nanoseconds
          /\ idPc[t] = "counted" => Reached(t, Start, read[t])
          /\ idPc[t] = "started" => /\ Reached(t, start[t], read[t])
                                    /\ Behind(start[t], Start, read[t], nanoseconds)
      BY <1>l DEF LastReached
    <3>3. idPc[t] = "idle" => Reached(t, Start, nanoseconds)'
      BY <1>t, <1>s, <2>1, <2>2, <2>3, <3>1, <3>2 DEF Reached
    <3>4. idPc[t] = "started" => Behind(start[t], Start, read[t], nanoseconds)'
      BY <1>t, <1>s, <2>1, <2>2, <2>3, <3>1, <3>2 DEF Behind
    <3> QED BY <1>t, <2>1, <2>2, <3>1, <3>2, <3>3, <3>4 DEF Reached
  <2>6. LastReached'
    BY <2>1, <2>5 DEF LastReached
  <2> QED BY <2>1, <2>4, <2>6 DEF IdsIInv, Ids!Grows
<1>2. CASE Ids!update
  <2>1. PICK move \in Ids!Moves :
          /\ _startId' = _startId + Ids!Grown(nanoseconds - _startCounter) + move
          /\ movedBack' = IF move < 0 THEN movedBack - move ELSE movedBack
    BY <1>2 DEF Ids!update
  <2>2. /\ _startCounter' = nanoseconds
        /\ UNCHANGED <<nanoseconds, _incrementedPart, idPc, read, start, last, issued, count,
                       lastBack>>
    BY <1>2 DEF Ids!update, Ids!given
  <2>3. move \in Int
    BY ThreadsAssumption DEF Ids!Moves
  <2>4. Ids!Grown(nanoseconds - _startCounter) \in Int
    BY <1>t DEF Ids!Grown
  <2>5. _startId' \in Int /\ movedBack' \in Nat
    BY <1>t, <2>1, <2>3, <2>4
  <2>6. Start' \in Starts
    BY <1>t, <2>2, <2>5 DEF Start, Starts
  <2>7. \A c \in Nat : c <= nanoseconds =>
          Behind(Start, Start', c, nanoseconds) /\ Behind(Start, Start', c, c)
    <3>1. /\ Start.counter <= nanoseconds /\ Start'.counter = nanoseconds
          /\ Start'.id = Start.id + Ids!Grown(nanoseconds - Start.counter) + move
          /\ Start'.back = IF move < 0 THEN Start.back - move ELSE Start.back
      BY <1>t, <2>1, <2>2 DEF Start
    <3> QED BY <1>t, <1>s, <2>3, <2>6, <3>1, StartMoves
  <2>8. IdsTyped'
    BY <1>t, <2>2, <2>5 DEF IdsTyped, Starts
  <2>9. ASSUME NEW t \in Threads
        PROVE  /\ idPc[t] = "idle" => Reached(t, Start, nanoseconds)'
               /\ idPc[t] # "idle" => read[t] <= nanoseconds'
               /\ idPc[t] = "counted" => Reached(t, Start, read[t])'
               /\ idPc[t] = "started" => /\ Reached(t, start[t], read[t])'
                                         /\ Behind(start[t], Start, read[t], nanoseconds)'
    <3>1. /\ IdOf(start[t], read[t]) \in Int /\ start[t].back \in Nat /\ last[t] \in Int
          /\ lastBack[t] \in Nat /\ read[t] \in Nat
          /\ IdOf(Start, read[t]) \in Int /\ IdOf(Start', read[t]) \in Int
          /\ IdOf(Start, nanoseconds) \in Int /\ IdOf(Start', nanoseconds) \in Int
          /\ Start.back \in Nat /\ Start'.back \in Nat
      BY <1>t, <1>i, <1>s, <2>6
    <3>2. /\ idPc[t] = "idle" => Reached(t, Start, nanoseconds)
          /\ idPc[t] # "idle" => read[t] <= nanoseconds
          /\ idPc[t] = "counted" => Reached(t, Start, read[t])
          /\ idPc[t] = "started" => /\ Reached(t, start[t], read[t])
                                    /\ Behind(start[t], Start, read[t], nanoseconds)
      BY <1>l DEF LastReached
    <3>3. Behind(Start, Start', nanoseconds, nanoseconds)
      BY <1>t, <2>7
    <3>4. idPc[t] = "idle" => Reached(t, Start, nanoseconds)'
      BY <1>t, <2>2, <3>1, <3>2, <3>3 DEF Reached, Behind
    <3>5. idPc[t] = "counted" => Reached(t, Start, read[t])'
      <4>1. idPc[t] = "counted" => Behind(Start, Start', read[t], read[t])
        BY <2>7, <3>1, <3>2
      <4> QED BY <1>t, <2>2, <3>1, <3>2, <4>1 DEF Reached, Behind
    <3>6. idPc[t] = "started" => Behind(start[t], Start, read[t], nanoseconds)'
      BY <1>t, <2>2, <3>1, <3>2, <3>3 DEF Behind
    <3> QED BY <2>2, <3>2, <3>4, <3>5, <3>6 DEF Reached
  <2>10. LastReached'
    BY <2>2, <2>9 DEF LastReached
  <2> QED BY <2>2, <2>8, <2>10 DEF IdsIInv, Ids!Grows
<1>3. ASSUME NEW t \in Threads, Ids!Count(t)
      PROVE  IdsIInv' /\ Ids!Grows
  <2>1. /\ idPc[t] = "idle" /\ read' = [read EXCEPT ![t] = nanoseconds]
        /\ idPc' = [idPc EXCEPT ![t] = "counted"]
        /\ UNCHANGED <<nanoseconds, _startCounter, _startId, _incrementedPart, start, last,
                       issued, count, movedBack, lastBack>>
    BY <1>3 DEF Ids!Count, Ids!starts, Ids!given
  <2>2. IdsTyped'
    BY <1>t, <2>1 DEF IdsTyped, Starts
  <2>3. Start' = Start
    BY <2>1 DEF Start
  <2>4. /\ read'[t] = nanoseconds /\ idPc'[t] = "counted"
        /\ \A u \in Threads \ {t} : read'[u] = read[u] /\ idPc'[u] = idPc[u]
        /\ nanoseconds <= nanoseconds
    BY <1>t, <2>1
  <2>5. \A u, s, c : Reached(u, s, c) => Reached(u, s, c)'
    BY <2>1 DEF Reached
  <2>6. LastReached'
    BY <1>l, <2>1, <2>3, <2>4 DEF LastReached, Reached
  <2> QED BY <2>1, <2>2, <2>6 DEF IdsIInv, Ids!Grows
<1>4. ASSUME NEW t \in Threads, Ids!LoadStart(t)
      PROVE  IdsIInv' /\ Ids!Grows
  <2>1. /\ idPc[t] = "counted" /\ start' = [start EXCEPT ![t] = Start]
        /\ idPc' = [idPc EXCEPT ![t] = "started"]
        /\ UNCHANGED <<nanoseconds, _startCounter, _startId, _incrementedPart, read, last,
                       issued, count, movedBack, lastBack>>
    BY <1>4 DEF Ids!LoadStart, Ids!starts, Ids!given, Start
  <2>2. IdsTyped'
    BY <1>t, <1>s, <2>1 DEF IdsTyped, Starts
  <2>3. Start' = Start
    BY <2>1 DEF Start
  <2>4. /\ start'[t] = Start /\ idPc'[t] = "started"
        /\ \A u \in Threads \ {t} : start'[u] = start[u] /\ idPc'[u] = idPc[u]
    BY <1>t, <2>1
  <2>5. read[t] \in Nat /\ read[t] <= nanoseconds /\ Reached(t, Start, read[t])
    BY <1>t, <1>l, <2>1 DEF LastReached
  <2>6. Behind(Start, Start, read[t], nanoseconds)
    <3>1. /\ IdOf(Start, read[t]) \in Int /\ IdOf(Start, nanoseconds) \in Int
          /\ IdOf(Start, read[t]) <= IdOf(Start, nanoseconds)
      BY <1>t, <1>s, <2>5, IdsGrow
    <3> QED BY <1>t, <1>s, <3>1 DEF Behind
  <2>7. LastReached'
    BY <1>l, <2>1, <2>3, <2>4, <2>5, <2>6 DEF LastReached, Reached
  <2> QED BY <2>1, <2>2, <2>7 DEF IdsIInv, Ids!Grows
<1>5. ASSUME NEW t \in Threads, Ids!NextId(t)
      PROVE  IdsIInv' /\ Ids!Grows
  <2>1. /\ idPc[t] = "started" /\ Reached(t, start[t], read[t])
        /\ Behind(start[t], Start, read[t], nanoseconds)
    BY <1>5, <1>l DEF Ids!NextId, LastReached
  <2>2. /\ idPc' = [idPc EXCEPT ![t] = "idle"] /\ count' = count + 1
        /\ _incrementedPart' = _incrementedPart + 4
        /\ lastBack' = [lastBack EXCEPT ![t] = start[t].back]
        /\ UNCHANGED <<nanoseconds, _startCounter, _startId, movedBack, read, start>>
    BY <1>5 DEF Ids!NextId, Ids!starts
  <2>3. PICK added \in Ids!Added(t) :
          LET id == Ids!Masked(start[t].id + added) + _incrementedPart'
          IN  last' = [last EXCEPT ![t] = id] /\ issued' = issued \cup {id}
    BY <1>5 DEF Ids!NextId
  <2> DEFINE x == start[t].id + added
             made == Ids!Masked(x) + _incrementedPart'
             reached == IdOf(start[t], read[t])
  <2>4. /\ start[t].id \in Int /\ start[t].back \in Nat /\ start[t].counter \in Nat
        /\ read[t] \in Nat /\ last[t] \in Int /\ lastBack[t] \in Nat
        /\ start[t] \in Starts
    BY <1>t DEF Starts
  <2>5. /\ added \in Int /\ reached \in Int
        /\ Ids!delta(t) >= 0 => x = reached
        /\ ~(Ids!delta(t) >= 0) => reached - 1 <= x /\ x <= reached
    <3>1. CASE Ids!delta(t) >= 0
      <4>1. added = Ids!Grown(read[t] - start[t].counter)
        BY <3>1 DEF Ids!Added, Ids!delta
      <4>2. added \in Int
        BY <2>4, <4>1 DEF Ids!Grown
      <4>3. read[t] >= start[t].counter
        BY <2>4, <3>1 DEF Ids!delta
      <4> QED BY <2>4, <3>1, <4>1, <4>2, <4>3 DEF IdOf
    <3>2. CASE ~(Ids!delta(t) >= 0)
      <4>1. added \in {-1, 0}
        BY <3>2 DEF Ids!Added, Ids!OutOfRange
      <4>2. ~(read[t] >= start[t].counter)
        BY <2>4, <3>2 DEF Ids!delta
      <4> QED BY <2>4, <3>2, <4>1, <4>2 DEF IdOf
    <3> QED BY <3>1, <3>2
  <2>6. x \in Int /\ Ids!Masked(x) \in Int /\ Ids!Masked(x) % 4 = 0
        /\ Ids!Masked(x) <= x /\ x < Ids!Masked(x) + 4
    <3>1. x \in Int
      BY <2>4, <2>5
    <3> HIDE DEF x
    <3> QED BY <3>1, Masks
  <2>7. last' = [last EXCEPT ![t] = made] /\ issued' = issued \cup {made}
    BY <2>3
  <2> HIDE DEF x, reached
  <2>8. made \in Int /\ made % 4 = 0 /\ made <= reached + _incrementedPart'
    BY <1>t, <2>2, <2>5, <2>6
  <2>9. last[t] <= reached + _incrementedPart + start[t].back - lastBack[t]
    BY <2>1 DEF Reached, reached
  <2>10. /\ Ids!delta(t) >= 0 => last[t] - made < start[t].back - lastBack[t]
         /\ ~(Ids!delta(t) >= 0) => last[t] - made <= start[t].back - lastBack[t]
    BY <1>t, <2>2, <2>4, <2>5, <2>6, <2>9
  <2> HIDE DEF made
  <2>11. /\ last' \in [Threads -> Int] /\ last'[t] = made
         /\ lastBack' \in [Threads -> Nat] /\ lastBack'[t] = start[t].back
         /\ \A u \in Threads \ {t} : /\ last'[u] = last[u] /\ idPc'[u] = idPc[u]
                                     /\ lastBack'[u] = lastBack[u]
         /\ idPc' \in [Threads -> {"idle", "counted", "started"}] /\ idPc'[t] = "idle"
    BY <1>t, <2>2, <2>4, <2>7, <2>8
  <2>12. Ids!Grows
    <3>1. \A u \in Threads : idPc'[u] # idPc[u] => u = t
      BY <2>11
    <3> QED BY <2>10, <2>11, <3>1 DEF Ids!Grows
  <2>13. IdsTyped'
    <3>1. \A i \in issued' : i \in Int /\ i % 4 = 0
      BY <1>t, <2>7, <2>8
    <3>2. _incrementedPart' = 4 * count' /\ count' \in Nat
      BY <1>t, <2>2
    <3> QED BY <1>t, <2>2, <2>11, <3>1, <3>2 DEF IdsTyped, Starts
  <2>14. Start' = Start
    BY <2>2 DEF Start
  <2>15. Reached(t, Start, nanoseconds)'
    <3>1. IdOf(Start, nanoseconds) \in Int /\ Start.back \in Nat
      BY <1>t, <1>i, <1>s
    <3>2. reached + start[t].back <= IdOf(Start, nanoseconds) + Start.back
      BY <2>1 DEF Behind, reached
    <3>3. made <= IdOf(Start, nanoseconds) + _incrementedPart' + Start.back - start[t].back
      BY <1>t, <2>2, <2>4, <2>5, <2>8, <3>1, <3>2
    <3> QED BY <2>2, <2>11, <2>14, <3>3 DEF Reached
  <2>16. ASSUME NEW u \in Threads \ {t}, NEW s \in Starts, NEW c \in Nat, Reached(u, s, c)
         PROVE  last'[u] <= IdOf(s, c) + _incrementedPart' + s.back - lastBack'[u]
    <3>1. /\ IdOf(s, c) \in Int /\ s.back \in Nat /\ last[u] \in Int /\ lastBack[u] \in Nat
          /\ last'[u] = last[u] /\ lastBack'[u] = lastBack[u]
      BY <1>t, <1>i, <2>11
    <3>2. last[u] <= IdOf(s, c) + _incrementedPart + s.back - lastBack[u]
      BY <2>16 DEF Reached
    <3> QED BY <1>t, <2>2, <3>1, <3>2
  <2>17. LastReached'
    <3>1. \A u \in Threads : read[u] \in Nat /\ start[u] \in Starts
      BY <1>t
    <3>2. ASSUME NEW u \in Threads \ {t}
          PROVE  /\ idPc[u] = "idle" => Reached(u, Start, nanoseconds)'
                 /\ idPc[u] # "idle" => read[u] <= nanoseconds
                 /\ idPc[u] = "counted" => Reached(u, Start, read[u])'
                 /\ idPc[u] = "started" => /\ Reached(u, start[u], read[u])'
                                           /\ Behind(start[u], Start, read[u], nanoseconds)'
      <4>1. /\ idPc[u] = "idle" => Reached(u, Start, nanoseconds)
            /\ idPc[u] # "idle" => read[u] <= nanoseconds
            /\ idPc[u] = "counted" => Reached(u, Start, read[u])
            /\ idPc[u] = "started" => /\ Reached(u, start[u], read[u])
                                      /\ Behind(start[u], Start, read[u], nanoseconds)
        BY <1>l DEF LastReached
      <4>2. idPc[u] = "started" => Behind(start[u], Start, read[u], nanoseconds)'
        BY <2>2, <2>14, <4>1 DEF Behind
      <4>3. idPc[u] = "idle" => Reached(u, Start, nanoseconds)'
        BY <1>t, <1>s, <2>2, <2>14, <2>16, <4>1 DEF Reached
      <4>4. idPc[u] = "counted" => Reached(u, Start, read[u])'
        BY <1>s, <2>2, <2>14, <2>16, <3>1, <4>1 DEF Reached
      <4>5. idPc[u] = "started" => Reached(u, start[u], read[u])'
        BY <2>2, <2>16, <3>1, <4>1 DEF Reached
      <4> QED BY <4>1, <4>2, <4>3, <4>4, <4>5
    <3> QED BY <2>2, <2>11, <2>15, <3>2 DEF LastReached
  <2> QED BY <2>12, <2>13, <2>17 DEF IdsIInv
<1> QED BY <1>1, <1>2, <1>3, <1>4, <1>5 DEF Ids!Next

-----------------------------------------------------------------------------
(* RuntimeComposer.  An index is taken once, by the exchange of one thread: *)
(* it is that thread's until it is published for a type, and that type's   *)
(* from then on.  A mask that was laid out while nobody was between the    *)
(* two writes of a type of it is laid out whole.                           *)

Objects == UNION {[S -> Contents] : S \in SUBSET Types}

Asked == [at : {"idle", "load", "exchange", "publish", "describe"},
          type : Types \cup {Nothing}, last : 0 .. IndexLimit]

LayoutTyped ==
  /\ RuntimeComponentIndexLast \in 0 .. IndexLimit
  /\ MyIndex \in [Types -> 0 .. IndexLimit]
  /\ RuntimeComponentWraps \in [0 .. IndexLimit - 1 -> Types \cup {Nothing}]
  /\ asking \in [Users -> Asked]
  /\ \A t \in Users : asking[t].at # "idle" => asking[t].type \in Types

Holds(t) == asking[t].at \in {"publish", "describe"}

IndexesTaken ==
  /\ \A T \in Types : MyIndex[T] <= RuntimeComponentIndexLast
  /\ \A t \in Users : Holds(t) => asking[t].last < RuntimeComponentIndexLast
  /\ \A t, u \in Users : Holds(t) /\ Holds(u) /\ asking[t].last = asking[u].last => t = u
  /\ \A T, U \in Types : MyIndex[T] # 0 /\ MyIndex[T] = MyIndex[U] => T = U
  /\ \A t \in Users, T \in Types :
       asking[t].at = "publish" => MyIndex[T] # asking[t].last + 1
  /\ \A t \in Users :
       asking[t].at = "describe" => MyIndex[asking[t].type] = asking[t].last + 1

Describing(T) == \E t \in Users : asking[t].at = "describe" /\ asking[t].type = T
Described ==
  /\ \A i \in 0 .. IndexLimit - 1, T \in Types :
       RuntimeComponentWraps[i] = T => MyIndex[T] = i + 1
  /\ \A T \in Types : MyIndex[T] # 0 =>
       RuntimeComponentWraps[MyIndex[T] - 1] = T \/ Describing(T)

IndexIInv == LayoutTyped /\ IndexesTaken /\ Described

MasksLaidOut ==
  /\ metadatas \in [DOMAIN metadatas -> SUBSET Types]
  /\ DOMAIN metadatas \subseteq SUBSET Types /\ raced \subseteq DOMAIN metadatas
  /\ \A m \in DOMAIN metadatas : metadatas[m] \subseteq m
  /\ \A m \in DOMAIN metadatas \ raced : metadatas[m] = m

ObjectsFit ==
  /\ composer \in [Composers -> Objects \cup {Nothing}]
  /\ maskOf \in [Composers -> SUBSET Types]
  /\ lost \in [Types -> Nat] /\ throws \in Nat
  /\ \A o \in Composers : composer[o] # Nothing =>
       maskOf[o] \in DOMAIN metadatas /\ DOMAIN composer[o] = metadatas[maskOf[o]]

LayoutIInv == IndexIInv /\ MasksLaidOut /\ ObjectsFit

LEMMA LayoutConstants ==
  /\ IndexLimit \in Nat /\ Nothing \notin Types /\ Initial \in Contents
  /\ Nothing \notin Objects
BY ThreadsAssumption DEF Objects

LEMMA InitLayout == Layout!Init => LayoutIInv
<1> SUFFICES ASSUME Layout!Init PROVE LayoutIInv
  OBVIOUS
<1> USE LayoutConstants
<1>1. /\ \A t \in Users : asking[t].at = "idle" /\ asking[t] \in Asked
      /\ asking \in [Users -> Asked]
  BY DEF Layout!Init, Layout!Idle, Asked
<1>2. LayoutTyped
  BY <1>1 DEF Layout!Init, LayoutTyped
<1>3. IndexesTaken
  BY <1>1 DEF Layout!Init, IndexesTaken, Holds
<1>4. Described
  BY DEF Layout!Init, Described
<1>5. MasksLaidOut
  BY DEF Layout!Init, MasksLaidOut
<1>6. ObjectsFit
  BY DEF Layout!Init, ObjectsFit
<1> QED BY <1>2, <1>3, <1>4, <1>5, <1>6 DEF LayoutIInv, IndexIInv

\* A thread that asks for an index.
LEMMA AskStep ==
  ASSUME IndexIInv, NEW t \in Users,
         (\E T \in Types : Layout!LoadLast(t, T)) \/ Layout!Exchange(t)
           \/ Layout!Publish(t) \/ Layout!Describe(t)
  PROVE  IndexIInv'
<1> USE LayoutConstants
<1>t. LayoutTyped /\ IndexesTaken /\ Described
  BY DEF IndexIInv
<1>a. /\ asking \in [Users -> Asked] /\ asking[t] \in Asked
      /\ RuntimeComponentIndexLast \in 0 .. IndexLimit
      /\ MyIndex \in [Types -> 0 .. IndexLimit]
      /\ RuntimeComponentWraps \in [0 .. IndexLimit - 1 -> Types \cup {Nothing}]
      /\ asking[t].last \in 0 .. IndexLimit
      /\ asking[t].at # "idle" => asking[t].type \in Types
  BY <1>t DEF LayoutTyped, Asked
<1>1. ASSUME NEW T \in Types, Layout!LoadLast(t, T) PROVE IndexIInv'
  <2> DEFINE r == [at |-> "exchange", type |-> T, last |-> RuntimeComponentIndexLast]
  <2>1. /\ asking' = [asking EXCEPT ![t] = r]
        /\ UNCHANGED <<RuntimeComponentIndexLast, MyIndex, RuntimeComponentWraps>>
        /\ asking[t].at \in {"idle", "load"}
    BY <1>1 DEF Layout!LoadLast, Layout!Idle
  <2>2. r \in Asked /\ r.at = "exchange" /\ r.type = T
    BY <1>a DEF Asked
  <2> HIDE DEF r
  <2>3. asking'[t] = r /\ \A u \in Users \ {t} : asking'[u] = asking[u]
    BY <2>1, <1>a
  <2>4. LayoutTyped'
    BY <1>a, <1>t, <2>1, <2>2, <2>3 DEF LayoutTyped
  <2>5. \A u \in Users : Holds(u)' => u # t /\ Holds(u) /\ asking'[u] = asking[u]
    BY <2>2, <2>3 DEF Holds
  <2>6. IndexesTaken'
    BY <1>t, <2>1, <2>5 DEF IndexesTaken, Holds
  <2>7. \A T1 \in Types : Describing(T1) => Describing(T1)'
    BY <2>1, <2>3 DEF Describing
  <2>8. Described'
    BY <1>t, <2>1, <2>7 DEF Described
  <2> QED BY <2>4, <2>6, <2>8 DEF IndexIInv
<1>2. CASE Layout!Exchange(t)
  <2>1. /\ asking[t].at = "exchange" /\ asking[t].last < IndexLimit
        /\ UNCHANGED <<MyIndex, RuntimeComponentWraps>>
    BY <1>2 DEF Layout!Exchange
  <2>2. CASE /\ RuntimeComponentIndexLast = asking[t].last
             /\ RuntimeComponentIndexLast' = asking[t].last + 1
             /\ asking' = [asking EXCEPT ![t].at = "publish"]
    <3>1. /\ asking'[t].at = "publish" /\ asking'[t].last = asking[t].last
          /\ asking'[t].type = asking[t].type /\ asking'[t] \in Asked
          /\ asking' \in [Users -> Asked]
          /\ \A u \in Users \ {t} : asking'[u] = asking[u]
      BY <1>a, <2>2 DEF Asked
    <3>2. LayoutTyped'
      BY <1>a, <1>t, <2>1, <2>2, <3>1 DEF LayoutTyped
    <3>3. /\ RuntimeComponentIndexLast' = RuntimeComponentIndexLast + 1
          /\ asking'[t].last = RuntimeComponentIndexLast
          /\ \A u \in Users \ {t} : (Holds(u)' <=> Holds(u)) /\ asking'[u].last = asking[u].last
      BY <2>2, <3>1 DEF Holds
    <3>4. IndexesTaken'
      <4>1. \A T \in Types : MyIndex[T] <= RuntimeComponentIndexLast /\ MyIndex[T] \in Nat
        BY <1>a, <1>t DEF IndexesTaken
      <4>2. \A u \in Users \ {t} : Holds(u) => asking[u].last < RuntimeComponentIndexLast
        BY <1>t DEF IndexesTaken
      <4>3. RuntimeComponentIndexLast \in Nat
        BY <1>a
      <4>4. \A u \in Users : asking[u].last \in Nat
        BY <1>a DEF Asked
      <4>5. \A u \in Users : Holds(u)' => asking'[u].last < RuntimeComponentIndexLast'
        BY <3>3, <4>2, <4>3, <4>4
      <4>6. \A u, v \in Users :
              Holds(u)' /\ Holds(v)' /\ asking'[u].last = asking'[v].last => u = v
        BY <1>t, <3>3, <4>2, <4>3, <4>4 DEF IndexesTaken
      <4>7. \A u \in Users, T \in Types :
              asking'[u].at = "publish" => MyIndex[T] # asking'[u].last + 1
        BY <1>t, <3>1, <3>3, <4>1, <4>3 DEF IndexesTaken
      <4>8. \A u \in Users :
              asking'[u].at = "describe" => MyIndex[asking'[u].type] = asking'[u].last + 1
        BY <1>t, <3>1 DEF IndexesTaken
      <4>9. \A T \in Types : MyIndex[T] <= RuntimeComponentIndexLast'
        BY <3>3, <4>1, <4>3
      <4> QED BY <1>t, <2>1, <4>5, <4>6, <4>7, <4>8, <4>9 DEF IndexesTaken
    <3>5. \A T \in Types : Describing(T) => Describing(T)'
      BY <2>1, <3>1 DEF Describing
    <3>6. Described'
      BY <1>t, <2>1, <3>5 DEF Described
    <3> QED BY <3>2, <3>4, <3>6 DEF IndexIInv
  <2>3. CASE /\ UNCHANGED RuntimeComponentIndexLast
             /\ asking' = [asking EXCEPT ![t].at = "load"]
    <3>1. /\ asking'[t].at = "load" /\ asking'[t].type = asking[t].type
          /\ asking'[t] \in Asked /\ asking' \in [Users -> Asked]
          /\ \A u \in Users \ {t} : asking'[u] = asking[u]
      BY <1>a, <2>3 DEF Asked
    <3>2. LayoutTyped'
      BY <1>a, <1>t, <2>1, <2>3, <3>1 DEF LayoutTyped
    <3>3. \A u \in Users : Holds(u)' => u # t /\ Holds(u) /\ asking'[u] = asking[u]
      BY <3>1 DEF Holds
    <3>4. IndexesTaken'
      BY <1>t, <2>1, <2>3, <3>3 DEF IndexesTaken, Holds
    <3>5. \A T \in Types : Describing(T) => Describing(T)'
      BY <2>1, <3>1 DEF Describing
    <3>6. Described'
      BY <1>t, <2>1, <3>5 DEF Described
    <3> QED BY <3>2, <3>4, <3>6 DEF IndexIInv
  <2> QED BY <1>2, <2>2, <2>3 DEF Layout!Exchange
<1>3. CASE Layout!Publish(t)
  <2>0. asking[t].at = "publish" /\ asking[t].type \in Types
    BY <1>3, <1>a DEF Layout!Publish
  <2>p. PICK T \in Types : T = asking[t].type
    BY <2>0
  <2>1. asking[t].at = "publish" /\ UNCHANGED <<RuntimeComponentIndexLast, RuntimeComponentWraps>>
    BY <1>3 DEF Layout!Publish
  <2>2. CASE /\ MyIndex[T] = 0
             /\ MyIndex' = [MyIndex EXCEPT ![T] = asking[t].last + 1]
             /\ asking' = [asking EXCEPT ![t].at = "describe"]
    <3>1. /\ asking'[t].at = "describe" /\ asking'[t].last = asking[t].last
          /\ asking'[t].type = T /\ asking'[t] \in Asked
          /\ asking' \in [Users -> Asked]
          /\ \A u \in Users \ {t} : asking'[u] = asking[u]
      BY <1>a, <2>2, <2>p DEF Asked
    <3>2. asking[t].last < RuntimeComponentIndexLast /\ asking[t].last + 1 \in 1 .. IndexLimit
      BY <1>a, <1>t, <2>1 DEF IndexesTaken, Holds
    <3>3. /\ MyIndex' \in [Types -> 0 .. IndexLimit] /\ MyIndex'[T] = asking[t].last + 1
          /\ \A U \in Types \ {T} : MyIndex'[U] = MyIndex[U]
      BY <1>a, <2>1, <2>2, <3>2
    <3>4. LayoutTyped'
      BY <1>a, <1>t, <2>1, <3>1, <3>3 DEF LayoutTyped
    <3>5. IndexesTaken'
      <4>1. \A U \in Types : MyIndex[U] # asking[t].last + 1
        BY <1>t, <2>1 DEF IndexesTaken
      <4>2. \A u \in Users : Holds(u)' <=> Holds(u)
        BY <2>1, <3>1 DEF Holds
      <4>3. \A u \in Users : asking'[u].last = asking[u].last
        BY <3>1
      <4>4. /\ \A U \in Types : MyIndex'[U] <= RuntimeComponentIndexLast'
            /\ \A u \in Users : Holds(u)' => asking'[u].last < RuntimeComponentIndexLast'
            /\ \A u, v \in Users :
                 Holds(u)' /\ Holds(v)' /\ asking'[u].last = asking'[v].last => u = v
        <5>1. \A U \in Types : MyIndex'[U] <= RuntimeComponentIndexLast'
          <6>1. \A U \in Types : MyIndex[U] <= RuntimeComponentIndexLast
            BY <1>t DEF IndexesTaken
          <6>2. asking[t].last + 1 <= RuntimeComponentIndexLast
            BY <1>a, <3>2
          <6> QED BY <2>1, <3>3, <6>1, <6>2
        <5>2. \A u \in Users : Holds(u)' => asking'[u].last < RuntimeComponentIndexLast'
          BY <1>t, <2>1, <4>2, <4>3 DEF IndexesTaken
        <5>3. \A u, v \in Users :
                Holds(u)' /\ Holds(v)' /\ asking'[u].last = asking'[v].last => u = v
          BY <1>t, <4>2, <4>3 DEF IndexesTaken
        <5> QED BY <5>1, <5>2, <5>3
      <4>5. \A U, V \in Types : MyIndex'[U] # 0 /\ MyIndex'[U] = MyIndex'[V] => U = V
        BY <1>t, <3>3, <4>1 DEF IndexesTaken
      <4>6. ASSUME NEW u \in Users, NEW U \in Types, asking'[u].at = "publish"
            PROVE  MyIndex'[U] # asking'[u].last + 1
        <5>1. u # t /\ asking[u].at = "publish" /\ asking'[u] = asking[u]
          BY <3>1, <4>6
        <5>2. asking[u].last # asking[t].last
          BY <1>t, <2>1, <5>1 DEF IndexesTaken, Holds
        <5>3. asking[u].last \in Nat /\ asking[t].last \in Nat
          BY <1>a DEF Asked
        <5> QED BY <1>t, <3>3, <5>1, <5>2, <5>3 DEF IndexesTaken
      <4>7. ASSUME NEW u \in Users, asking'[u].at = "describe"
            PROVE  MyIndex'[asking'[u].type] = asking'[u].last + 1
        <5>1. CASE u = t
          BY <3>1, <3>3, <5>1
        <5>2. CASE u # t
          <6>1. asking'[u] = asking[u] /\ asking[u].type \in Types
            BY <1>t, <3>1, <4>7, <5>2 DEF LayoutTyped
          <6>2. MyIndex[asking[u].type] = asking[u].last + 1
            BY <1>t, <4>7, <6>1 DEF IndexesTaken
          <6>3. asking[u].last \in Nat
            BY <1>a DEF Asked
          <6>4. asking[u].type # T
            BY <2>2, <6>2, <6>3
          <6> QED BY <3>3, <6>1, <6>2, <6>4
        <5> QED BY <5>1, <5>2
      <4> QED BY <4>4, <4>5, <4>6, <4>7 DEF IndexesTaken
    <3>6. Described'
      <4>1. \A U \in Types : Describing(U) => Describing(U)'
        BY <2>1, <3>1 DEF Describing
      <4>2. Describing(T)'
        BY <3>1 DEF Describing
      <4>3. \A i \in 0 .. IndexLimit - 1 : RuntimeComponentWraps[i] # T
        BY <1>t, <2>1, <2>2 DEF Described
      <4> QED BY <1>t, <2>1, <3>3, <4>1, <4>2, <4>3 DEF Described
    <3> QED BY <3>4, <3>5, <3>6 DEF IndexIInv
  <2>3. CASE UNCHANGED MyIndex /\ asking' = [asking EXCEPT ![t] = Layout!Idle]
    <3>1. asking'[t] = Layout!Idle /\ \A u \in Users \ {t} : asking'[u] = asking[u]
      BY <1>a, <2>3
    <3>2. Layout!Idle \in Asked /\ Layout!Idle.at = "idle"
      BY DEF Layout!Idle, Asked
    <3>3. LayoutTyped'
      BY <1>a, <1>t, <2>1, <2>3, <3>1, <3>2 DEF LayoutTyped
    <3>4. \A u \in Users : Holds(u)' => u # t /\ Holds(u) /\ asking'[u] = asking[u]
      BY <3>1, <3>2 DEF Holds
    <3>5. IndexesTaken'
      BY <1>t, <2>1, <2>3, <3>4 DEF IndexesTaken, Holds
    <3>6. \A U \in Types : Describing(U) => Describing(U)'
      BY <2>1, <3>1 DEF Describing
    <3>7. Described'
      BY <1>t, <2>1, <2>3, <3>6 DEF Described
    <3> QED BY <3>3, <3>5, <3>7 DEF IndexIInv
  <2> QED BY <1>3, <2>p, <2>2, <2>3 DEF Layout!Publish
<1>4. CASE Layout!Describe(t)
  <2> DEFINE T == asking[t].type
             i == asking[t].last
  <2>1. /\ asking[t].at = "describe" /\ T \in Types
        /\ RuntimeComponentWraps' = [RuntimeComponentWraps EXCEPT ![i] = T]
        /\ asking' = [asking EXCEPT ![t] = Layout!Idle]
        /\ UNCHANGED <<RuntimeComponentIndexLast, MyIndex>>
    BY <1>4, <1>a DEF Layout!Describe
  <2>2. asking'[t] = Layout!Idle /\ \A u \in Users \ {t} : asking'[u] = asking[u]
    BY <1>a, <2>1
  <2>3. Layout!Idle \in Asked /\ Layout!Idle.at = "idle"
    BY DEF Layout!Idle, Asked
  <2>4. i \in 0 .. IndexLimit - 1 /\ MyIndex[T] = i + 1
    BY <1>a, <1>t, <2>1 DEF IndexesTaken, Holds
  <2> HIDE DEF T, i
  <2>5. /\ RuntimeComponentWraps' \in [0 .. IndexLimit - 1 -> Types \cup {Nothing}]
        /\ RuntimeComponentWraps'[i] = T
        /\ \A j \in 0 .. IndexLimit - 1 : j # i =>
             RuntimeComponentWraps'[j] = RuntimeComponentWraps[j]
    BY <1>a, <2>1, <2>4
  <2>6. LayoutTyped'
    BY <1>a, <1>t, <2>1, <2>2, <2>3, <2>5 DEF LayoutTyped
  <2>7. \A u \in Users : Holds(u)' => u # t /\ Holds(u) /\ asking'[u] = asking[u]
    BY <2>2, <2>3 DEF Holds
  <2>8. IndexesTaken'
    BY <1>t, <2>1, <2>7 DEF IndexesTaken, Holds
  <2>9. Described'
    <3>1. \A U \in Types : Describing(U) => Describing(U)' \/ U = T
      BY <2>1, <2>2 DEF Describing, T
    <3>2. ASSUME NEW U \in Types, MyIndex[U] # 0
          PROVE  RuntimeComponentWraps'[MyIndex[U] - 1] = U \/ Describing(U)'
      <4>1. CASE U = T
        BY <2>4, <2>5, <4>1
      <4>2. CASE U # T
        <5>1. MyIndex[U] # MyIndex[T] /\ MyIndex[U] - 1 \in 0 .. IndexLimit - 1
          BY <1>a, <1>t, <2>1, <3>2, <4>2 DEF IndexesTaken
        <5>2. MyIndex[U] - 1 # i
          BY <1>a, <2>4, <5>1
        <5> QED BY <1>t, <2>5, <3>1, <3>2, <4>2, <5>1, <5>2 DEF Described
      <4> QED BY <4>1, <4>2
    <3>3. ASSUME NEW j \in 0 .. IndexLimit - 1, NEW U \in Types, RuntimeComponentWraps'[j] = U
          PROVE  MyIndex[U] = j + 1
      BY <1>t, <2>4, <2>5, <3>3 DEF Described
    <3> QED BY <2>1, <3>2, <3>3 DEF Described
  <2> QED BY <2>6, <2>8, <2>9 DEF IndexIInv
<1> QED BY <1>1, <1>2, <1>3, <1>4

\* A mask that is asked for is laid out, whole unless one of its types is being
\* described at that moment; the masks laid out before keep their layout.
LEMMA MaskStep ==
  ASSUME IndexIInv, MasksLaidOut, NEW mask \in SUBSET Types,
         \A T \in mask : MyIndex[T] # 0, Layout!GetRuntimeComposerMetadata(mask)
  PROVE  /\ MasksLaidOut'
         /\ mask \in DOMAIN metadatas' /\ metadatas'[mask] = Layout!Metadata(mask)
         /\ Layout!Metadata(mask) \in SUBSET Types
         /\ \A m \in DOMAIN metadatas :
              m \in DOMAIN metadatas' /\ metadatas'[m] = metadatas[m]
<1>1. /\ metadatas \in [DOMAIN metadatas -> SUBSET Types]
      /\ DOMAIN metadatas \subseteq SUBSET Types /\ raced \subseteq DOMAIN metadatas
      /\ \A m \in DOMAIN metadatas : metadatas[m] \subseteq m
      /\ \A m \in DOMAIN metadatas \ raced : metadatas[m] = m
  BY DEF MasksLaidOut
<1>2. /\ metadatas' = [m \in DOMAIN metadatas \cup {mask} |-> Layout!Metadata(m)]
      /\ raced' = IF mask \notin DOMAIN metadatas /\ \E T \in mask : Describing(T)
                  THEN raced \cup {mask} ELSE raced
  BY DEF Layout!GetRuntimeComposerMetadata, Describing
<1>3. \A m \in DOMAIN metadatas : Layout!Metadata(m) = metadatas[m]
  BY DEF Layout!Metadata
<1>4. ASSUME mask \notin DOMAIN metadatas
      PROVE  /\ Layout!Metadata(mask) \subseteq mask
             /\ (~ \E T \in mask : Describing(T)) => Layout!Metadata(mask) = mask
  <2>1. Layout!Metadata(mask) = {T \in mask : RuntimeComponentWraps[MyIndex[T] - 1] = T}
    BY <1>4 DEF Layout!Metadata, Layout!Layout, Layout!Index
  <2>2. \A T \in mask : RuntimeComponentWraps[MyIndex[T] - 1] = T \/ Describing(T)
    BY DEF IndexIInv, Described
  <2> QED BY <2>1, <2>2
<1>5. /\ Layout!Metadata(mask) \subseteq mask
      /\ mask \notin raced' => Layout!Metadata(mask) = mask
  BY <1>1, <1>2, <1>3, <1>4
<1>6. /\ DOMAIN metadatas' = DOMAIN metadatas \cup {mask}
      /\ \A m \in DOMAIN metadatas : metadatas'[m] = metadatas[m]
      /\ metadatas'[mask] = Layout!Metadata(mask)
  BY <1>2, <1>3
<1>7. raced' \subseteq DOMAIN metadatas' /\ raced \subseteq raced'
  BY <1>1, <1>2, <1>6
<1>8. \A m \in DOMAIN metadatas' : metadatas'[m] \subseteq m /\ m \subseteq Types
  BY <1>1, <1>5, <1>6
<1>9. \A m \in DOMAIN metadatas' \ raced' : metadatas'[m] = m
  BY <1>1, <1>5, <1>6, <1>7
<1>10. metadatas' \in [DOMAIN metadatas' -> SUBSET Types]
  <2>1. \A m \in DOMAIN metadatas' : metadatas'[m] \in SUBSET Types
    BY <1>8
  <2>2. metadatas' = [m \in DOMAIN metadatas' |-> metadatas'[m]]
    BY <1>2, <1>6
  <2> QED BY <2>1, <2>2
<1>11. MasksLaidOut'
  BY <1>7, <1>8, <1>9, <1>10 DEF MasksLaidOut
<1> QED BY <1>5, <1>6, <1>8, <1>11

\* The components of the new block: what both have is moved.
LEMMA MovedFits ==
  ASSUME NEW S \in SUBSET Types, NEW was \in Objects
  PROVE  /\ Layout!Moved(was, S) \in Objects /\ DOMAIN Layout!Moved(was, S) = S
         /\ \A T \in DOMAIN was \cap S : Layout!Moved(was, S)[T] = was[T]
<1>1. PICK R \in SUBSET Types : was \in [R -> Contents]
  BY DEF Objects
<1>2. Layout!Moved(was, S) \in [S -> Contents]
  BY <1>1, LayoutConstants DEF Layout!Moved
<1>3. Layout!Moved(was, S) \in Objects
  BY <1>2 DEF Objects
<1> QED BY <1>2, <1>3 DEF Layout!Moved

\* Setting one component of an object.
LEMMA SetFits ==
  ASSUME NEW was \in Objects, NEW T \in DOMAIN was, NEW c \in Contents
  PROVE  /\ [was EXCEPT ![T] = c] \in Objects
         /\ DOMAIN [was EXCEPT ![T] = c] = DOMAIN was
<1>1. PICK R \in SUBSET Types : was \in [R -> Contents]
  BY DEF Objects
<1>2. [was EXCEPT ![T] = c] \in [R -> Contents]
  BY <1>1
<1> QED BY <1>1, <1>2 DEF Objects

Was(o) == IF composer[o] = Nothing THEN [T \in {} |-> Initial] ELSE composer[o]

LEMMA ComposeStep ==
  ASSUME LayoutIInv, NEW o \in Composers, NEW mask \in SUBSET Types,
         Layout!Compose(o, mask)
  PROVE  LayoutIInv'
<1>t. IndexIInv /\ MasksLaidOut /\ ObjectsFit
  BY DEF LayoutIInv
<1>1. /\ \A T \in mask : MyIndex[T] # 0
      /\ Layout!GetRuntimeComposerMetadata(mask)
      /\ UNCHANGED <<RuntimeComponentIndexLast, MyIndex, RuntimeComponentWraps, asking>>
  BY DEF Layout!Compose, Layout!indexVars
<1>2. IndexIInv'
  BY <1>t, <1>1 DEF IndexIInv, LayoutTyped, IndexesTaken, Described, Holds, Describing
<1>3. /\ MasksLaidOut'
      /\ mask \in DOMAIN metadatas' /\ metadatas'[mask] = Layout!Metadata(mask)
      /\ Layout!Metadata(mask) \in SUBSET Types
      /\ \A m \in DOMAIN metadatas : m \in DOMAIN metadatas' /\ metadatas'[m] = metadatas[m]
  BY <1>t, <1>1, MaskStep
<1>4. /\ composer \in [Composers -> Objects \cup {Nothing}]
      /\ maskOf \in [Composers -> SUBSET Types]
      /\ lost \in [Types -> Nat] /\ throws \in Nat
      /\ \A p \in Composers : composer[p] # Nothing =>
           maskOf[p] \in DOMAIN metadatas /\ DOMAIN composer[p] = metadatas[maskOf[p]]
  BY <1>t DEF ObjectsFit
<1>5. CASE /\ composer' = [composer EXCEPT ![o] = Layout!Moved(Was(o), Layout!Metadata(mask))]
           /\ maskOf' = [maskOf EXCEPT ![o] = mask]
           /\ UNCHANGED <<lost, throws, wrecked>>
  <2>1. Was(o) \in Objects
    <3>1. [T \in {} |-> Initial] \in [{} -> Contents]
      OBVIOUS
    <3>2. [T \in {} |-> Initial] \in Objects
      BY <3>1 DEF Objects
    <3> QED BY <1>4, <3>2 DEF Was
  <2> DEFINE made == Layout!Moved(Was(o), Layout!Metadata(mask))
  <2>2. made \in Objects /\ DOMAIN made = Layout!Metadata(mask)
    BY <1>3, <2>1, MovedFits
  <2>3. composer' = [composer EXCEPT ![o] = made]
    BY <1>5
  <2> HIDE DEF made
  <2>4. composer'[o] = made /\ \A p \in Composers \ {o} : composer'[p] = composer[p]
    BY <1>4, <2>3
  <2>5. maskOf'[o] = mask /\ \A p \in Composers \ {o} : maskOf'[p] = maskOf[p]
    BY <1>4, <1>5
  <2>6. /\ composer' \in [Composers -> Objects \cup {Nothing}]
        /\ maskOf' \in [Composers -> SUBSET Types]
    BY <1>4, <1>5, <2>2, <2>3
  <2>7. \A p \in Composers : composer'[p] # Nothing =>
          maskOf'[p] \in DOMAIN metadatas' /\ DOMAIN composer'[p] = metadatas'[maskOf'[p]]
    BY <1>3, <1>4, <2>2, <2>4, <2>5
  <2>8. ObjectsFit'
    BY <1>4, <1>5, <2>6, <2>7 DEF ObjectsFit
  <2> QED BY <1>2, <1>3, <2>8 DEF LayoutIInv
<1>6. CASE \E T \in Types : Layout!Throw(Layout!Metadata(mask), T)
  <2>1. PICK T \in Types : Layout!Throw(Layout!Metadata(mask), T)
    BY <1>6
  <2> DEFINE left == Layout!Constructed(Layout!Metadata(mask), T)
                       \ Layout!RolledBack(Layout!Metadata(mask), T)
  <2>2. /\ throws' = throws + 1 /\ UNCHANGED <<composer, maskOf>>
        /\ lost' = [U \in Types |-> IF U \in left THEN lost[U] + 1 ELSE lost[U]]
    BY <2>1 DEF Layout!Throw
  <2> HIDE DEF left
  <2>3. lost' \in [Types -> Nat] /\ throws' \in Nat
    BY <1>4, <2>2
  <2>4. ObjectsFit'
    BY <1>3, <1>4, <2>2, <2>3 DEF ObjectsFit
  <2> QED BY <1>2, <1>3, <2>4 DEF LayoutIInv
<1> QED BY <1>5, <1>6 DEF Layout!Compose, Was

LEMMA ObjectStep ==
  ASSUME LayoutIInv, NEW o \in Composers,
         \/ \E mask \in Layout!Masks : \/ Layout!Create(o, mask)
                                       \/ Layout!AddComponents(o, mask)
                                       \/ Layout!RemoveComponents(o, mask)
         \/ \E T \in Types, c \in Contents : Layout!Set(o, T, c)
         \/ Layout!Destroy(o)
  PROVE  LayoutIInv'
<1>t. IndexIInv /\ MasksLaidOut /\ ObjectsFit
  BY DEF LayoutIInv
<1>4. /\ composer \in [Composers -> Objects \cup {Nothing}]
      /\ maskOf \in [Composers -> SUBSET Types]
      /\ lost \in [Types -> Nat] /\ throws \in Nat
      /\ \A p \in Composers : composer[p] # Nothing =>
           maskOf[p] \in DOMAIN metadatas /\ DOMAIN composer[p] = metadatas[maskOf[p]]
  BY <1>t DEF ObjectsFit
<1>5. ASSUME UNCHANGED <<lost, throws, RuntimeComponentIndexLast, MyIndex,
                         RuntimeComponentWraps, asking, metadatas, raced>>,
             ObjectsFit'
      PROVE  LayoutIInv'
  BY <1>t, <1>5 DEF LayoutIInv, IndexIInv, LayoutTyped, IndexesTaken, Described, Holds,
                    Describing, MasksLaidOut
<1>1. CASE \E mask \in Layout!Masks : \/ Layout!Create(o, mask)
                                      \/ Layout!AddComponents(o, mask)
                                      \/ Layout!RemoveComponents(o, mask)
  <2>1. \E mask \in SUBSET Types : Layout!Compose(o, mask)
    BY <1>1, <1>4 DEF Layout!Masks, Layout!Create, Layout!AddComponents,
                      Layout!RemoveComponents
  <2> QED BY <2>1, ComposeStep
<1>2. CASE \E T \in Types, c \in Contents : Layout!Set(o, T, c)
  <2>1. PICK T \in Types, c \in Contents : Layout!Set(o, T, c)
    BY <1>2
  <2>2. /\ composer[o] # Nothing /\ T \in DOMAIN composer[o]
        /\ composer' = [composer EXCEPT ![o] = [composer[o] EXCEPT ![T] = c]]
        /\ UNCHANGED maskOf
    BY <2>1 DEF Layout!Set
  <2>3. composer[o] \in Objects
    BY <1>4, <2>2
  <2> DEFINE made == [composer[o] EXCEPT ![T] = c]
  <2>4. made \in Objects /\ DOMAIN made = DOMAIN composer[o]
    BY <2>2, <2>3, SetFits
  <2>5. composer' = [composer EXCEPT ![o] = made]
    BY <2>2
  <2> HIDE DEF made
  <2>6. /\ composer'[o] = made /\ \A p \in Composers \ {o} : composer'[p] = composer[p]
        /\ composer' \in [Composers -> Objects \cup {Nothing}]
    BY <1>4, <2>4, <2>5
  <2>7. UNCHANGED <<lost, throws, RuntimeComponentIndexLast, MyIndex,
                    RuntimeComponentWraps, asking, metadatas, raced>>
    BY <2>1 DEF Layout!Set, Layout!indexVars, Layout!metadataVars
  <2>8. ObjectsFit'
    BY <1>4, <2>2, <2>4, <2>6, <2>7 DEF ObjectsFit
  <2> QED BY <1>5, <2>7, <2>8
<1>3. CASE Layout!Destroy(o)
  <2>1. /\ composer' = [composer EXCEPT ![o] = Nothing]
        /\ maskOf' = [maskOf EXCEPT ![o] = {}]
    BY <1>3 DEF Layout!Destroy
  <2>2. UNCHANGED <<lost, throws, RuntimeComponentIndexLast, MyIndex,
                    RuntimeComponentWraps, asking, metadatas, raced>>
    BY <1>3 DEF Layout!Destroy, Layout!indexVars, Layout!metadataVars
  <2>3. /\ composer' \in [Composers -> Objects \cup {Nothing}]
        /\ maskOf' \in [Composers -> SUBSET Types]
        /\ composer'[o] = Nothing
        /\ \A p \in Composers \ {o} : composer'[p] = composer[p] /\ maskOf'[p] = maskOf[p]
    BY <1>4, <2>1
  <2>4. ObjectsFit'
    BY <1>4, <2>2, <2>3 DEF ObjectsFit
  <2> QED BY <1>5, <2>2, <2>4
<1> QED BY <1>1, <1>2, <1>3

LEMMA NextLayout == LayoutIInv /\ [Layout!Next]_layoutVars => LayoutIInv'
<1> SUFFICES ASSUME LayoutIInv, [Layout!Next]_layoutVars PROVE LayoutIInv'
  OBVIOUS
<1>1. CASE UNCHANGED layoutVars
  BY <1>1 DEF layoutVars, LayoutIInv, IndexIInv, LayoutTyped, IndexesTaken, Described,
              Holds, Describing, MasksLaidOut, ObjectsFit
<1>2. CASE \E t \in Users : \/ \E T \in Types : Layout!LoadLast(t, T)
                            \/ Layout!Exchange(t) \/ Layout!Publish(t) \/ Layout!Describe(t)
  <2>1. IndexIInv'
    BY <1>2, AskStep DEF LayoutIInv
  <2>2. UNCHANGED <<metadatas, raced, composer, maskOf, lost, throws, wrecked>>
    BY <1>2 DEF Layout!LoadLast, Layout!Exchange, Layout!Publish, Layout!Describe,
                Layout!metadataVars, Layout!objectVars
  <2> QED BY <2>1, <2>2 DEF LayoutIInv, MasksLaidOut, ObjectsFit
<1>3. CASE \E o \in Composers :
             \/ \E mask \in Layout!Masks : \/ Layout!Create(o, mask)
                                           \/ Layout!AddComponents(o, mask)
                                           \/ Layout!RemoveComponents(o, mask)
             \/ \E T \in Types, c \in Contents : Layout!Set(o, T, c)
             \/ Layout!Destroy(o)
  BY <1>3, ObjectStep
<1> QED BY <1>1, <1>2, <1>3 DEF Layout!Next

LEMMA LayoutHolds ==
  LayoutIInv => Layout!BitsDistinct /\ Layout!HasItsMask
<1> SUFFICES ASSUME LayoutIInv
             PROVE  Layout!BitsDistinct /\ Layout!HasItsMask
  OBVIOUS
<1>t. LayoutTyped /\ IndexesTaken /\ Described /\ MasksLaidOut /\ ObjectsFit
  BY DEF LayoutIInv, IndexIInv
<1>1. ASSUME NEW T \in Types, MyIndex[T] # 0
      PROVE  RuntimeComponentWraps[Layout!Index(T)] \in {T, Nothing}
  <2>1. MyIndex[T] - 1 \in 0 .. IndexLimit - 1 /\ (MyIndex[T] - 1) + 1 = MyIndex[T]
    BY <1>1, <1>t, LayoutConstants DEF LayoutTyped
  <2>2. RuntimeComponentWraps[MyIndex[T] - 1] \in Types \cup {Nothing}
    BY <1>t, <2>1 DEF LayoutTyped
  <2>3. ASSUME RuntimeComponentWraps[MyIndex[T] - 1] \in Types
        PROVE  RuntimeComponentWraps[MyIndex[T] - 1] = T
    <3>1. PICK U \in Types : RuntimeComponentWraps[MyIndex[T] - 1] = U
      BY <2>3
    <3>2. MyIndex[U] = MyIndex[T]
      BY <1>t, <2>1, <3>1 DEF Described
    <3> QED BY <1>1, <1>t, <3>1, <3>2 DEF IndexesTaken
  <2> QED BY <2>2, <2>3 DEF Layout!Index
<1>2. Layout!BitsDistinct
  BY <1>t, <1>1 DEF Layout!BitsDistinct, IndexesTaken
<1>3. Layout!HasItsMask
  BY <1>t DEF Layout!HasItsMask, MasksLaidOut, ObjectsFit
<1> QED BY <1>2, <1>3

\* An object that stays keeps what it holds, but for a component that is set.
Kept == \A o \in Composers : composer[o] # Nothing /\ composer'[o] # Nothing
                               /\ composer'[o] # composer[o] =>
          \/ \E T \in DOMAIN composer[o] : \E c \in Contents :
               composer'[o] = [composer[o] EXCEPT ![T] = c]
          \/ \A T \in DOMAIN composer[o] \intersect DOMAIN composer'[o] :
               composer'[o][T] = composer[o][T]

LEMMA KeptStep == LayoutIInv /\ [Layout!Next]_layoutVars => [Kept]_composer
<1> SUFFICES ASSUME LayoutIInv, Layout!Next, composer' # composer PROVE Kept
  BY DEF layoutVars
<1>t. composer \in [Composers -> Objects \cup {Nothing}]
  BY DEF LayoutIInv, ObjectsFit
<1>1. PICK o \in Composers :
         \/ \E mask \in SUBSET Types : Layout!Compose(o, mask)
         \/ \E T \in Types, c \in Contents : Layout!Set(o, T, c)
         \/ Layout!Destroy(o)
  <2>1. ASSUME NEW t \in Users,
               (\E T \in Types : Layout!LoadLast(t, T)) \/ Layout!Exchange(t)
                 \/ Layout!Publish(t) \/ Layout!Describe(t)
        PROVE  FALSE
    BY <2>1 DEF Layout!LoadLast, Layout!Exchange, Layout!Publish, Layout!Describe,
                Layout!objectVars
  <2>2. \A o \in Composers : maskOf[o] \in SUBSET Types
    BY DEF LayoutIInv, ObjectsFit
  <2> QED BY <2>1, <2>2 DEF Layout!Next, Layout!Masks, Layout!Create,
                            Layout!AddComponents, Layout!RemoveComponents
<1> SUFFICES ASSUME NEW p \in Composers, composer[p] # Nothing, composer'[p] # Nothing,
                    composer'[p] # composer[p]
             PROVE  \/ \E T \in DOMAIN composer[p] : \E c \in Contents :
                         composer'[p] = [composer[p] EXCEPT ![T] = c]
                    \/ \A T \in DOMAIN composer[p] \intersect DOMAIN composer'[p] :
                         composer'[p][T] = composer[p][T]
  BY DEF Kept
<1>2. ASSUME NEW mask \in SUBSET Types, Layout!Compose(o, mask)
      PROVE  \A T \in DOMAIN composer[p] \intersect DOMAIN composer'[p] :
               composer'[p][T] = composer[p][T]
  <2>1. composer' = [composer EXCEPT ![o] = Layout!Moved(Was(o), Layout!Metadata(mask))]
    BY <1>2 DEF Layout!Compose, Was, Layout!Throw
  <2>2. /\ p = o /\ composer'[p] = Layout!Moved(Was(o), Layout!Metadata(mask))
        /\ Was(o) = composer[o] /\ composer[o] \in Objects
    BY <1>t, <2>1 DEF Was
  <2>3. Layout!Metadata(mask) \in SUBSET Types
    BY <1>2, MaskStep DEF Layout!Compose, LayoutIInv
  <2>4. /\ DOMAIN composer'[p] = Layout!Metadata(mask)
        /\ \A T \in DOMAIN composer[p] \cap Layout!Metadata(mask) :
             composer'[p][T] = composer[p][T]
    BY <2>2, <2>3, MovedFits
  <2> QED BY <2>4
<1>3. ASSUME NEW T \in Types, NEW c \in Contents, Layout!Set(o, T, c)
      PROVE  \E U \in DOMAIN composer[p] : \E d \in Contents :
               composer'[p] = [composer[p] EXCEPT ![U] = d]
  <2>1. /\ T \in DOMAIN composer[o]
        /\ composer' = [composer EXCEPT ![o] = [composer[o] EXCEPT ![T] = c]]
    BY <1>3 DEF Layout!Set
  <2>2. p = o /\ composer'[p] = [composer[p] EXCEPT ![T] = c]
    BY <1>t, <2>1
  <2> QED BY <2>1, <2>2
<1>4. ASSUME Layout!Destroy(o) PROVE FALSE
  <2>1. composer' = [composer EXCEPT ![o] = Nothing]
    BY <1>4 DEF Layout!Destroy
  <2> QED BY <1>t, <2>1
<1> QED BY <1>1, <1>2, <1>3, <1>4

-----------------------------------------------------------------------------
(* CrashReport.  Whoever is in the handler holds the report's mutex and    *)
(* has found the report open; an open report has nothing in it yet, and    *)
(* neither has the file beside the dump; a thread with a fatal message     *)
(* finds one among the annotations, and then in the header it makes; and   *)
(* the owner removes the report when no handler can find it open any more. *)

Lines(noted, line) == {<<>>, <<noted>>, <<noted, line>>}

\* What ReportIsWhole says of each file.
IsFile(file) ==
  /\ file.there \in BOOLEAN /\ Len(file.lines) <= 2
  /\ Len(file.lines) = 2 /\ file.lines[2].fatal => file.lines[1] # Nobody

Handling(t) == crashPc[t] \in {"header", "write"}

CrashKept ==
  /\ IsFile(report) /\ IsFile(final)
  /\ Report!Running /\ ReportFileNo =>
       /\ report.lines = <<>> /\ final.lines = <<>>
       /\ ReportingMutex = Nobody => ~ReportingHeaderWritten
  /\ final.lines # <<>> => final.lines[1] = header
  /\ report.lines # <<>> /\ final.lines # <<>> => report.lines[1] = header
  /\ Report!Running =>
       \A t \in Report!AllThreads :
         /\ Handling(t) <=> ReportingMutex = t
         /\ Handling(t) => ReportFileNo
         /\ t \in fatal => Annotations # Nobody
         /\ crashPc[t] = "write" /\ t \in fatal => header # Nobody
  /\ alive = "removing" => ReportingMutex = Nobody /\ SkipWriteReportHeader

CrashIInv == Report!TypeOK /\ CrashKept

LEMMA CrashConstants ==
  MaxRuns \in Nat /\ Nobody \notin Report!AllThreads
BY ThreadsAssumption DEF Report!AllThreads

\* What is in a file that a handler wrote to.
LEMMA FileRead ==
  ASSUME NEW noted, NEW line
  PROVE  /\ \A lines \in Lines(noted, line) :
              /\ <<>> \o lines = lines /\ Len(lines) <= 2
              /\ lines # <<>> => lines[1] = noted
              /\ Len(lines) = 2 => lines[2] = line
         /\ Len(<<>>) = 0
<1>1. /\ <<>> \in Seq({noted, line}) /\ <<noted>> \in Seq({noted, line})
      /\ <<noted, line>> \in Seq({noted, line})
  OBVIOUS
<1>2. /\ <<>> \o <<>> = <<>> /\ <<>> \o <<noted>> = <<noted>>
      /\ <<>> \o <<noted, line>> = <<noted, line>>
  BY <1>1, ConcatEmptySeq
<1>3. /\ Len(<<>>) = 0 /\ Len(<<noted>>) = 1 /\ Len(<<noted, line>>) = 2
      /\ <<noted>>[1] = noted /\ <<noted, line>>[1] = noted /\ <<noted, line>>[2] = line
  OBVIOUS
<1> QED BY <1>2, <1>3 DEF Lines

LEMMA FileMade ==
  /\ IsFile(Report!Empty) /\ Report!Empty.lines = <<>>
  /\ IsFile(Report!Absent) /\ Report!Absent.lines = <<>>
BY FileRead DEF IsFile, Report!Empty, Report!Absent

LEMMA InitCrash == Report!Init => CrashIInv
<1> SUFFICES ASSUME Report!Init PROVE CrashIInv
  OBVIOUS
<1>1. Report!TypeOK
  <2>1. /\ crashPc \in [Report!AllThreads -> {"run"}]
        /\ caught \in [Report!AllThreads -> {Nobody}]
        /\ runs \in 0 .. MaxRuns /\ defaulted \subseteq Signals
        /\ fatal \subseteq Report!AllThreads
    BY CrashConstants DEF Report!Init
  <2>2. /\ {catching, installed, CrashLogged, ReportFileNo, SkipWriteReportHeader,
            ReportingHeaderWritten} \subseteq BOOLEAN
        /\ {ReportingThreadId, ReportingMutex, AnnotationsMutex, Annotations, header}
             \subseteq Report!AllThreads \cup {Nobody}
        /\ alive \in {"off", "up", "quitting", "removing", "dead"}
    BY DEF Report!Init
  <2>3. /\ crashPc \in [Report!AllThreads -> {"run", "annotate", "fatal", "fault", "dump",
                                               "handler", "header", "write", "return"}]
        /\ caught \in [Report!AllThreads -> Signals \cup {Nobody, Report!Dumped}]
    BY <2>1
  <2> QED BY <2>1, <2>2, <2>3 DEF Report!TypeOK
<1>2. ~Report!Running /\ alive # "removing"
  BY DEF Report!Init, Report!Running
<1>3. CrashKept
  BY <1>2, FileMade DEF Report!Init, CrashKept
<1> QED BY <1>1, <1>3 DEF CrashIInv

\* The owner's steps.
LEMMA OwnerStep == ASSUME CrashIInv, Report!Owner PROVE CrashIInv'
<1> USE CrashConstants
<1>t. Report!TypeOK /\ CrashKept
  BY DEF CrashIInv
<1>1. ASSUME NEW dumps \in BOOLEAN, NEW opened \in BOOLEAN, Report!start(dumps, opened)
      PROVE  CrashIInv'
  <2>1. /\ alive' = "up" /\ runs' \in 0 .. MaxRuns /\ catching' = dumps
        /\ final' = Report!Absent
        /\ report' = Report!Empty \/ (~opened /\ report' = report)
    BY <1>1, <1>t DEF Report!start, Report!TypeOK
  <2>2. /\ crashPc' = [t \in Report!AllThreads |-> "run"]
        /\ caught' = [t \in Report!AllThreads |-> Nobody]
        /\ defaulted' = (IF opened THEN {} ELSE Signals) /\ CrashLogged' = FALSE
        /\ fatal' = {}
        /\ ReportingThreadId' = Nobody /\ ReportingMutex' = Nobody
        /\ AnnotationsMutex' = Nobody /\ Annotations' = Nobody /\ header' = Nobody
        /\ ReportFileNo' = opened /\ installed' = opened
        /\ SkipWriteReportHeader' = FALSE /\ ReportingHeaderWritten' = FALSE
    BY <1>1 DEF Report!start, Report!Fresh
  <2>3. Report!TypeOK'
    BY <2>1, <2>2 DEF Report!TypeOK
  <2>4. \A t \in Report!AllThreads : ~Handling(t)' /\ crashPc'[t] = "run"
    BY <2>2 DEF Handling
  <2>5. /\ IsFile(report') /\ IsFile(final') /\ final'.lines = <<>>
        /\ opened => report'.lines = <<>>
    <3>1. CASE report' = Report!Empty
      BY <2>1, <3>1, FileMade
    <3>2. CASE ~opened /\ report' = report
      BY <1>t, <2>1, <3>2, FileMade DEF CrashKept
    <3> QED BY <2>1, <3>1, <3>2
  <2>6. CrashKept'
    BY <2>1, <2>2, <2>4, <2>5 DEF CrashKept
  <2> QED BY <2>3, <2>6 DEF CrashIInv
<1>2. ASSUME Report!finishCatching \/ Report!closeReport PROVE CrashIInv'
  <2>1. /\ alive \in {"up", "quitting"} /\ alive' \in {"quitting", "removing"}
        /\ catching' \in BOOLEAN
        /\ alive' = "removing" => ReportingMutex = Nobody /\ SkipWriteReportHeader'
        /\ SkipWriteReportHeader' \in BOOLEAN
        /\ UNCHANGED <<runs, installed, crashPc, caught, defaulted, CrashLogged, fatal,
                       ReportingThreadId, ReportingMutex, AnnotationsMutex, Annotations,
                       ReportFileNo, ReportingHeaderWritten, header, report, final>>
    BY <1>2, <1>t DEF Report!finishCatching, Report!closeReport, Report!TypeOK,
                      Report!threadVars, Report!lockVars, Report!headerVars, Report!diskVars
  <2>2. Report!TypeOK'
    BY <1>t, <2>1 DEF Report!TypeOK
  <2>3. CrashKept'
    BY <1>t, <2>1 DEF CrashKept, Report!Running, Handling
  <2> QED BY <2>2, <2>3 DEF CrashIInv
<1>3. ASSUME Report!RemoveReport PROVE CrashIInv'
  <2>1. /\ alive' = "off" /\ report' \in {report, Report!Absent} /\ ReportFileNo' = FALSE
        /\ UNCHANGED <<runs, catching, installed, crashPc, caught, defaulted, CrashLogged,
                       fatal, ReportingThreadId, ReportingMutex, AnnotationsMutex,
                       Annotations, SkipWriteReportHeader, ReportingHeaderWritten, header,
                       final>>
    BY <1>3 DEF Report!RemoveReport, Report!threadVars, Report!lockVars
  <2>2. Report!TypeOK'
    BY <1>t, <2>1 DEF Report!TypeOK
  <2>3. IsFile(report') /\ (report'.lines # <<>> => report' = report)
    <3>1. CASE report' = report
      BY <1>t, <3>1 DEF CrashKept
    <3>2. CASE report' = Report!Absent
      BY <3>2, FileMade
    <3> QED BY <2>1, <3>1, <3>2
  <2>4. CrashKept'
    BY <1>t, <2>1, <2>3 DEF CrashKept, Report!Running
  <2> QED BY <2>2, <2>4 DEF CrashIInv
<1> QED BY <1>1, <1>2, <1>3 DEF Report!Owner

\* A thread that annotates, faults or dies.
LEMMA ThreadStep ==
  ASSUME CrashIInv, NEW t \in Report!AllThreads,
         \/ \E key \in {"app", "QtFatal"} : Report!AddAnnotation(t, key)
         \/ Report!Annotated(t) \/ (\E s \in Signals : Report!Fault(t, s))
         \/ Report!DumpCallback(t) \/ Report!Return(t) \/ Report!FaultInHandler(t)
  PROVE  CrashIInv' /\ report' = report
<1> USE CrashConstants
<1>t. Report!TypeOK /\ CrashKept
  BY DEF CrashIInv
<1>1. CASE Report!Return(t) \/ Report!FaultInHandler(t)
  <2>1. /\ alive' = "dead"
        /\ UNCHANGED <<runs, catching, installed, crashPc, caught, defaulted, CrashLogged,
                       fatal, ReportingThreadId, ReportingMutex, AnnotationsMutex,
                       Annotations, ReportFileNo, SkipWriteReportHeader,
                       ReportingHeaderWritten, header, report, final>>
    BY <1>1 DEF Report!Return, Report!FaultInHandler, Report!threadVars, Report!lockVars,
                Report!headerVars, Report!diskVars
  <2>2. Report!TypeOK'
    BY <1>t, <2>1 DEF Report!TypeOK
  <2>3. CrashKept'
    BY <1>t, <2>1 DEF CrashKept, Report!Running
  <2> QED BY <2>1, <2>2, <2>3 DEF CrashIInv
<1> DEFINE Quiet == {"run", "annotate", "fatal", "fault", "dump", "handler", "return"}
<1>2. ASSUME NEW l \in Quiet, NEW d \in Signals \cup {Nobody, Report!Dumped},
             crashPc[t] \in Quiet, crashPc' = [crashPc EXCEPT ![t] = l],
             caught' \in {caught, [caught EXCEPT ![t] = d]},
             defaulted' \subseteq Signals, CrashLogged' \in BOOLEAN,
             AnnotationsMutex' \in Report!AllThreads \cup {Nobody},
             \/ fatal' = fatal /\ Annotations' = Annotations
             \/ /\ fatal' = fatal \cup {t}
                /\ Annotations' = IF Annotations = Nobody THEN t ELSE Annotations,
             UNCHANGED <<alive, runs, catching, installed, ReportingThreadId, ReportingMutex,
                         ReportFileNo, SkipWriteReportHeader, ReportingHeaderWritten, header,
                         report, final>>
      PROVE  CrashIInv' /\ report' = report
  <2>1. /\ \A u \in Report!AllThreads : Handling(u)' <=> Handling(u)
        /\ \A u \in Report!AllThreads :
             crashPc'[u] = "write" => crashPc[u] = "write" /\ u # t
    BY <1>t, <1>2 DEF Handling, Report!TypeOK
  <2>2. Report!TypeOK'
    <3>1. fatal' \subseteq Report!AllThreads
      BY <1>t, <1>2 DEF Report!TypeOK
    <3>2. Annotations' \in Report!AllThreads \cup {Nobody}
      BY <1>t, <1>2 DEF Report!TypeOK
    <3> QED BY <1>t, <1>2, <3>1, <3>2 DEF Report!TypeOK
  <2>3. /\ \A u \in fatal' : u \in fatal \/ Annotations' # Nobody
        /\ Annotations # Nobody => Annotations' # Nobody
        /\ \A u \in fatal' : u \in fatal \/ u = t
    BY <1>2
  <2>4. CrashKept'
    BY <1>t, <1>2, <2>1, <2>3 DEF CrashKept, Report!Running
  <2> QED BY <1>2, <2>2, <2>4 DEF CrashIInv
<1>3. ASSUME NEW key \in {"app", "QtFatal"}, Report!AddAnnotation(t, key)
      PROVE  CrashIInv' /\ report' = report
  <2>1. /\ AnnotationsMutex' = t /\ crashPc[t] \in Quiet
        /\ \/ fatal' = fatal /\ Annotations' = Annotations
           \/ /\ fatal' = fatal \cup {t}
              /\ Annotations' = IF Annotations = Nobody THEN t ELSE Annotations
        /\ \E l \in Quiet : crashPc' = [crashPc EXCEPT ![t] = l]
        /\ UNCHANGED <<alive, runs, catching, installed, caught, defaulted, CrashLogged,
                       ReportingThreadId, ReportingMutex, ReportFileNo,
                       SkipWriteReportHeader, ReportingHeaderWritten, header, report, final>>
    BY <1>3 DEF Report!AddAnnotation, Report!At, Report!Go, Report!processVars,
                Report!diskVars
  <2>2. defaulted \subseteq Signals /\ CrashLogged \in BOOLEAN
    BY <1>t DEF Report!TypeOK
  <2> HIDE DEF Quiet
  <2> QED BY <1>2, <2>1, <2>2
<1>4. CASE Report!Annotated(t)
  <2>1. /\ AnnotationsMutex' = Nobody /\ crashPc[t] \in Quiet
        /\ \E l \in Quiet : crashPc' = [crashPc EXCEPT ![t] = l]
        /\ UNCHANGED <<alive, runs, catching, installed, caught, defaulted, CrashLogged,
                       fatal, Annotations, ReportingThreadId, ReportingMutex, ReportFileNo,
                       SkipWriteReportHeader, ReportingHeaderWritten, header, report, final>>
    BY <1>4 DEF Report!Annotated, Report!At, Report!Go, Report!processVars,
                Report!headerVars, Report!diskVars
  <2>2. defaulted \subseteq Signals /\ CrashLogged \in BOOLEAN
    BY <1>t DEF Report!TypeOK
  <2> HIDE DEF Quiet
  <2> QED BY <1>2, <2>1, <2>2
<1>5. ASSUME NEW s \in Signals, Report!Fault(t, s)
      PROVE  CrashIInv' /\ report' = report
  <2>1. /\ crashPc[t] \in Quiet
        /\ UNCHANGED <<runs, catching, installed, CrashLogged, fatal, ReportingThreadId,
                       ReportingMutex, AnnotationsMutex, Annotations, ReportFileNo,
                       SkipWriteReportHeader, ReportingHeaderWritten, header, report, final>>
    BY <1>5 DEF Report!Fault, Report!At, Report!lockVars, Report!headerVars, Report!diskVars
  <2>2. /\ defaulted \subseteq Signals /\ CrashLogged \in BOOLEAN
        /\ AnnotationsMutex \in Report!AllThreads \cup {Nobody}
    BY <1>t DEF Report!TypeOK
  <2>3. CASE /\ alive' = alive /\ defaulted' \subseteq Signals
             /\ \E l \in Quiet : crashPc' = [crashPc EXCEPT ![t] = l]
             /\ \E d \in Signals \cup {Nobody, Report!Dumped} :
                  caught' = [caught EXCEPT ![t] = d]
    <3> HIDE DEF Quiet
    <3> QED BY <1>2, <2>1, <2>2, <2>3
  <2>4. CASE alive' = "dead" /\ UNCHANGED <<crashPc, caught, defaulted>>
    <3>1. Report!TypeOK'
      BY <1>t, <2>1, <2>4 DEF Report!TypeOK
    <3>2. CrashKept'
      BY <1>t, <2>1, <2>4 DEF CrashKept, Report!Running
    <3> QED BY <2>1, <3>1, <3>2 DEF CrashIInv
  <2>5. CASE catching
    <3>1. /\ caught' = [caught EXCEPT ![t] = Report!Dumped]
          /\ crashPc' = [crashPc EXCEPT ![t] = "dump"] /\ UNCHANGED <<alive, defaulted>>
      BY <1>5, <2>5 DEF Report!Fault, Report!Go
    <3> QED BY <2>2, <2>3, <3>1
  <2>6. CASE ~catching /\ s \notin defaulted
    <3>1. /\ caught' = [caught EXCEPT ![t] = s]
          /\ crashPc' = [crashPc EXCEPT ![t] = "handler"]
          /\ defaulted' = defaulted \cup {s} /\ UNCHANGED alive
      BY <1>5, <2>6 DEF Report!Fault, Report!Go
    <3> QED BY <2>2, <2>3, <3>1
  <2>7. CASE ~catching /\ s \in defaulted
    BY <1>5, <2>4, <2>7 DEF Report!Fault
  <2> QED BY <2>5, <2>6, <2>7
<1>6. CASE Report!DumpCallback(t)
  <2>1. /\ crashPc[t] \in Quiet /\ CrashLogged' = TRUE
        /\ \E l \in Quiet : crashPc' = [crashPc EXCEPT ![t] = l]
        /\ UNCHANGED <<alive, runs, catching, installed, caught, defaulted, fatal,
                       AnnotationsMutex, Annotations, ReportingThreadId, ReportingMutex,
                       ReportFileNo, SkipWriteReportHeader, ReportingHeaderWritten, header,
                       report, final>>
    BY <1>6 DEF Report!DumpCallback, Report!At, Report!Go, Report!processVars,
                Report!lockVars, Report!headerVars, Report!diskVars
  <2>2. /\ defaulted \subseteq Signals
        /\ AnnotationsMutex \in Report!AllThreads \cup {Nobody}
    BY <1>t DEF Report!TypeOK
  <2> HIDE DEF Quiet
  <2> QED BY <1>2, <2>1, <2>2
<1> QED BY <1>1, <1>3, <1>4, <1>5, <1>6

\* The handler.
LEMMA HandlerStep ==
  ASSUME CrashIInv, NEW t \in Report!AllThreads,
         Report!SignalHandler(t) \/ Report!WriteHeader(t) \/ Report!WriteReport(t)
  PROVE  CrashIInv' /\ (report' = report \/ report.lines = <<>>)
<1> USE CrashConstants
<1>t. Report!TypeOK /\ CrashKept
  BY DEF CrashIInv
<1>p. crashPc \in [Report!AllThreads -> {"run", "annotate", "fatal", "fault", "dump",
                                         "handler", "header", "write", "return"}]
  BY <1>t DEF Report!TypeOK
<1>1. CASE Report!SignalHandler(t)
  <2>1. /\ alive \in {"up", "quitting", "removing"} /\ crashPc[t] = "handler"
        /\ ReportingMutex = Nobody /\ ReportingThreadId' = t
        /\ UNCHANGED <<alive, runs, catching, installed, caught, defaulted, CrashLogged,
                       fatal, AnnotationsMutex, Annotations, ReportFileNo,
                       SkipWriteReportHeader, ReportingHeaderWritten, header, report, final>>
    BY <1>1 DEF Report!SignalHandler, Report!At, Report!Running, Report!processVars,
                Report!headerVars, Report!diskVars
  <2>2. CASE Report!SkipsReport
    <3>1. ReportingMutex' = Nobody /\ crashPc' = [crashPc EXCEPT ![t] = "return"]
      BY <1>1, <2>2 DEF Report!SignalHandler, Report!Go
    <3>2. \A u \in Report!AllThreads : /\ Handling(u)' <=> Handling(u)
                                       /\ crashPc'[u] = "write" => crashPc[u] = "write"
      BY <1>p, <2>1, <3>1 DEF Handling
    <3>3. Report!TypeOK'
      BY <1>t, <2>1, <3>1 DEF Report!TypeOK
    <3>4. CrashKept'
      BY <1>t, <2>1, <3>1, <3>2 DEF CrashKept, Report!Running
    <3> QED BY <2>1, <3>3, <3>4 DEF CrashIInv
  <2>3. CASE ~Report!SkipsReport
    <3>1. /\ ReportingMutex' = t /\ ReportFileNo /\ ~SkipWriteReportHeader
          /\ \/ crashPc' = [crashPc EXCEPT ![t] = "write"] /\ ReportingHeaderWritten
             \/ crashPc' = [crashPc EXCEPT ![t] = "header"]
      BY <1>1, <2>3 DEF Report!SignalHandler, Report!Go, Report!SkipsReport
    <3>2. \A u \in Report!AllThreads : Handling(u)' <=> u = t
      BY <1>p, <1>t, <2>1, <3>1 DEF Handling, CrashKept, Report!Running
    <3>3. Report!TypeOK'
      BY <1>t, <2>1, <3>1 DEF Report!TypeOK
    <3>4. crashPc' = [crashPc EXCEPT ![t] = "header"]
      BY <1>t, <2>1, <3>1 DEF CrashKept, Report!Running
    <3>5. \A u \in Report!AllThreads : crashPc'[u] = "write" => crashPc[u] = "write"
      BY <1>p, <3>4
    <3>6. CrashKept'
      BY <1>t, <2>1, <3>1, <3>2, <3>5 DEF CrashKept, Report!Running
    <3> QED BY <2>1, <3>3, <3>6 DEF CrashIInv
  <2> QED BY <2>2, <2>3
<1>2. CASE Report!WriteHeader(t)
  <2>1. /\ crashPc[t] = "header" /\ crashPc' = [crashPc EXCEPT ![t] = "write"]
        /\ ReportingHeaderWritten' = TRUE /\ header' = Annotations /\ Report!Running
        /\ UNCHANGED <<alive, runs, catching, installed, caught, defaulted, CrashLogged,
                       fatal, ReportingThreadId, ReportingMutex, AnnotationsMutex,
                       Annotations, ReportFileNo, SkipWriteReportHeader, report, final>>
    BY <1>2 DEF Report!WriteHeader, Report!At, Report!Go, Report!processVars,
                Report!lockVars, Report!diskVars
  <2>2. \A u \in Report!AllThreads : Handling(u)' <=> Handling(u)
    BY <1>p, <2>1 DEF Handling
  <2>3. Report!TypeOK'
    BY <1>t, <2>1 DEF Report!TypeOK
  <2>4. ReportFileNo /\ report.lines = <<>> /\ final.lines = <<>>
    BY <1>t, <2>1 DEF CrashKept, Handling
  <2>5. /\ ReportingMutex # Nobody
        /\ \A u \in Report!AllThreads : u \in fatal => header' # Nobody
    BY <1>t, <2>1 DEF CrashKept, Handling
  <2>6. CrashKept'
    BY <1>t, <2>1, <2>2, <2>4, <2>5 DEF CrashKept, Report!Running
  <2> QED BY <2>1, <2>3, <2>6 DEF CrashIInv
<1>3. CASE Report!WriteReport(t)
  <2> DEFINE line == [thread |-> t, fatal |-> t \in fatal]
  <2>1. /\ Report!Running /\ crashPc[t] = "write"
        /\ crashPc' = [crashPc EXCEPT ![t] = "return"]
        /\ \E written \in Lines(header, line) :
             report' = [there |-> report.there, lines |-> report.lines \o written]
        /\ \/ final' = final
           \/ \E written \in Lines(header, line) :
                final' = [there |-> TRUE, lines |-> written]
        /\ ReportFileNo' = FALSE /\ ReportingThreadId' = Nobody /\ ReportingMutex' = Nobody
        /\ UNCHANGED <<alive, runs, catching, installed, caught, defaulted, CrashLogged,
                       fatal, AnnotationsMutex, Annotations, SkipWriteReportHeader,
                       ReportingHeaderWritten, header>>
    BY <1>3 DEF Report!WriteReport, Report!At, Report!Go, Report!processVars,
                Report!Prefixes, Report!Line, Lines
  <2>2. /\ report.lines = <<>> /\ final.lines = <<>>
        /\ \A u \in Report!AllThreads : Handling(u) <=> u = t
        /\ t \in fatal => header # Nobody
    BY <1>t, <2>1 DEF CrashKept, Handling, Report!TypeOK
  <2> HIDE DEF line
  <2>3. ASSUME NEW there \in BOOLEAN, NEW written \in Lines(header, line)
        PROVE  IsFile([there |-> there, lines |-> written])
    <3>1. /\ Len(written) <= 2
          /\ written # <<>> => written[1] = header
          /\ Len(written) = 2 => written[2] = line /\ written # <<>>
      BY FileRead
    <3>2. line.fatal => header # Nobody
      BY <2>2 DEF line
    <3> QED BY <3>1, <3>2 DEF IsFile
  <2>4. report.there \in BOOLEAN
    BY <1>t DEF CrashKept, IsFile
  <2>5. IsFile(report') /\ report'.lines \in Lines(header, line)
    <3>1. PICK written \in Lines(header, line) :
            report' = [there |-> report.there, lines |-> report.lines \o written]
      BY <2>1
    <3>2. report' = [there |-> report.there, lines |-> written]
      BY <2>2, <3>1, FileRead
    <3> QED BY <2>3, <2>4, <3>2
  <2>6. IsFile(final') /\ final'.lines \in Lines(header, line)
    <3>1. CASE final' = final
      BY <1>t, <2>2, <3>1 DEF CrashKept, Lines
    <3>2. ASSUME NEW written \in Lines(header, line),
                 final' = [there |-> TRUE, lines |-> written]
          PROVE  IsFile(final') /\ final'.lines \in Lines(header, line)
      BY <2>3, <3>2
    <3> QED BY <2>1, <3>1, <3>2
  <2>7. /\ report'.lines # <<>> => report'.lines[1] = header'
        /\ final'.lines # <<>> => final'.lines[1] = header'
    <3>1. \A lines \in Lines(header, line) : lines # <<>> => lines[1] = header
      BY FileRead
    <3> QED BY <2>1, <2>5, <2>6, <3>1
  <2>8. \A u \in Report!AllThreads : ~Handling(u)' /\ crashPc'[u] # "write"
    BY <1>p, <2>1, <2>2 DEF Handling
  <2>9. Report!TypeOK'
    BY <1>t, <2>1 DEF Report!TypeOK
  <2>10. CrashKept'
    BY <1>t, <2>1, <2>5, <2>6, <2>7, <2>8 DEF CrashKept, Report!Running
  <2> QED BY <2>2, <2>9, <2>10 DEF CrashIInv
<1> QED BY <1>1, <1>2, <1>3

LEMMA NextCrash == CrashIInv /\ [Report!Next]_crashVars => CrashIInv'
<1> SUFFICES ASSUME CrashIInv, [Report!Next]_crashVars PROVE CrashIInv'
  OBVIOUS
<1>1. CASE UNCHANGED crashVars
  BY <1>1 DEF crashVars, CrashIInv, Report!TypeOK, CrashKept, Report!Running, Handling
<1>2. CASE Report!Next
  BY <1>2, OwnerStep, ThreadStep, HandlerStep DEF Report!Next, Report!Works
<1> QED BY <1>1, <1>2

LEMMA CrashHolds == CrashIInv => Report!ReportIsWhole /\ Report!HandlerExcludesOwner
<1> SUFFICES ASSUME CrashIInv
             PROVE  Report!ReportIsWhole /\ Report!HandlerExcludesOwner
  OBVIOUS
<1>1. Report!ReportIsWhole
  BY DEF IsFile, CrashIInv, CrashKept, Report!ReportIsWhole
<1>2. Report!HandlerExcludesOwner
  BY DEF CrashIInv, CrashKept, Handling, Report!HandlerExcludesOwner
<1> QED BY <1>1, <1>2

\* No step but the owner's loses a report that the next run has not read.
LEMMA ReportStep ==
  CrashIInv /\ [Report!Next]_crashVars =>
    [report.lines # <<>> /\ report' # report =>
       Report!RemoveReport \/ _previousReport' = report]_(Report!vars)
<1> SUFFICES ASSUME CrashIInv, Report!Next, report.lines # <<>>, report' # report
             PROVE  Report!RemoveReport \/ _previousReport' = report
  BY DEF crashVars, Report!vars, Report!processVars, Report!threadVars, Report!lockVars,
         Report!headerVars, Report!diskVars
<1>1. CASE Report!Owner
  BY <1>1 DEF Report!Owner, Report!start, Report!finishCatching, Report!closeReport,
              Report!diskVars
<1>2. CASE ~Report!Owner
  BY <1>2, ThreadStep, HandlerStep DEF Report!Next, Report!Works
<1> QED BY <1>1, <1>2

-----------------------------------------------------------------------------
(* All parts.  Each step is one of the subject and leaves the others alone.*)

ThreadsIInv ==
  /\ WeakIInv /\ ClockIInv /\ IdsIInv /\ LayoutIInv /\ CrashIInv /\ NetIInv
  /\ subject = "unixtime_alone" => Alone /\ HttpTrue

LEMMA MCSteps ==
  [MCNext]_MCVars =>
    /\ [Next]_vars /\ [Clock!Next]_clockVars /\ [subject = "msgids" /\ Ids!Next]_idVars
    /\ [Layout!Next]_layoutVars /\ [Report!Next]_crashVars /\ [Net!Next]_netVars
    /\ subject' = subject
    /\ subject = "unixtime_alone" /\ Alone => Alone'
BY DEF MCNext, MCVars, Alone, clockVars

LEMMA InitThreads == MCInit => ThreadsIInv
<1> SUFFICES ASSUME MCInit PROVE ThreadsIInv
  OBVIOUS
<1>1. Init /\ Clock!Init /\ Ids!Init /\ Layout!Init /\ Report!Init /\ Net!Init
  BY DEF MCInit
<1>2. Alone /\ HttpTrue
  BY <1>1 DEF Clock!Init, Alone, HttpTrue, HttpSettled
<1> QED BY <1>1, <1>2, InitWeak, InitClock, InitIds, InitLayout, InitCrash, InitNet
        DEF ThreadsIInv

LEMMA NextThreads == ThreadsIInv /\ [MCNext]_MCVars => ThreadsIInv'
<1> SUFFICES ASSUME ThreadsIInv, [MCNext]_MCVars PROVE ThreadsIInv'
  OBVIOUS
<1>1. WeakIInv' /\ ClockIInv' /\ LayoutIInv' /\ CrashIInv' /\ NetIInv'
  BY MCSteps, NextWeak, NextClock, NextLayout, NextCrash, NextNet DEF ThreadsIInv
<1>2. IdsIInv'
  <2>1. CASE UNCHANGED idVars
    BY <2>1 DEF ThreadsIInv, IdsIInv, IdsTyped, LastReached, Reached, Behind, IdOf, Start,
                idVars, Ids!Grown
  <2>2. CASE Ids!Next
    BY <2>2, IdsStep DEF ThreadsIInv
  <2> QED BY <2>1, <2>2, MCSteps
<1>3. ASSUME subject' = "unixtime_alone" PROVE Alone' /\ HttpTrue'
  <2>1. ClockIInv /\ Alone /\ HttpTrue /\ Alone'
    BY <1>3, MCSteps DEF ThreadsIInv
  <2>2. CASE UNCHANGED clockVars
    BY <2>1, <2>2 DEF HttpTrue, HttpSettled, clockVars, Clock!http_now
  <2>3. CASE Clock!Next
    BY <2>1, <2>3, HttpStays
  <2> QED BY <2>1, <2>2, <2>3, MCSteps
<1> QED BY <1>1, <1>2, <1>3 DEF ThreadsIInv

LEMMA SpecThreads == MCSpec => []ThreadsIInv
BY InitThreads, NextThreads, PTL DEF MCSpec

\* All that threads share has its type in every part: a tracker, the shift, an
\* id, a layout, a report or a notice is never out of its range.
THEOREM ThreadsTypes == MCSpec => []TypesOK
<1>1. ThreadsIInv => TypesOK
  <2> SUFFICES ASSUME ThreadsIInv PROVE TypesOK
    OBVIOUS
  <2>1. TypeOK
    BY DEF ThreadsIInv, WeakIInv
  <2>2. Clock!TypeOK
    BY DEF ThreadsIInv, ClockIInv, ClockTyped, Shifts, Clock!TypeOK, Clock!at
  <2>3. Ids!TypeOK
    BY DEF ThreadsIInv, IdsIInv, IdsTyped, Ids!TypeOK
  <2>4. Layout!TypeOK
    BY DEF ThreadsIInv, LayoutIInv, IndexIInv, LayoutTyped, Asked, MasksLaidOut,
           ObjectsFit, Layout!TypeOK, Layout!Masks
  <2>5. Report!TypeOK /\ Net!TypeOK
    BY DEF ThreadsIInv, CrashIInv, NetIInv
  <2> QED BY <2>1, <2>2, <2>3, <2>4, <2>5 DEF TypesOK
<1> QED BY <1>1, SpecThreads, PTL

\* In whatever order threads exchange shifts and take the lock, message ids end
\* up with the shift in force and subscribers are told of it; a valid http time
\* is an answer's when calls do not overlap; and the availability of the network
\* follows the last change, unless that is told between start()'s read of the
\* connectivity and its assignment.
THEOREM LatestIsKnown == MCSpec => []LatestPrevails
<1>1. ThreadsIInv => LatestPrevails
  BY ClockLatest, NetFollows
     DEF ThreadsIInv, LatestPrevails, HttpTrue, HttpSettled, Clock!HttpNowIsHttp, Clock!Busy,
         Clock!at
<1> QED BY <1>1, SpecThreads, PTL

\* Whatever other threads are given meanwhile, and whenever update() moved the
\* start on, a thread's ids increase; where it moved the start back, by d in all
\* between the two calls' reads of it, the next id is less than d behind.
THEOREM IdsAlwaysIncrease == MCSpec => IdsIncrease
<1>1. ThreadsIInv /\ [MCNext]_MCVars => [subject = "msgids" => Ids!Grows]_idVars
  BY MCSteps, IdsStep DEF ThreadsIInv
<1> QED BY <1>1, SpecThreads, PTL DEF MCSpec, IdsIncrease

\* However threads race for the indexes of component types, types have bits of
\* their own, an object has the components of its mask unless that was laid out
\* while one was being described, and those that stay keep what they hold.
THEOREM LayoutsAreHeld == MCSpec => LayoutsHold
<1>1. ThreadsIInv => Layout!BitsDistinct /\ Layout!HasItsMask
  BY LayoutHolds DEF ThreadsIInv
<1>2. ThreadsIInv /\ [MCNext]_MCVars => [Kept]_composer
  BY MCSteps, KeptStep DEF ThreadsIInv
<1>3. MCSpec => [][Kept]_composer
  BY <1>2, SpecThreads, PTL DEF MCSpec
<1>4. MCSpec => Layout!ContentsKept
  BY <1>3 DEF Layout!ContentsKept, Kept
<1> QED BY <1>1, <1>4, SpecThreads, PTL DEF LayoutsHold

\* The report on disk or beside the dump is of one crash, as much of it as could
\* be written, with a fatal message when the thread had one; nobody but the owner
\* takes it away before the next run has read it; a handler that writes has the
\* owner wait, and none starts when the owner is past its test.
THEOREM ReportsAreKept ==
  MCSpec => /\ [](Report!ReportIsWhole /\ Report!HandlerExcludesOwner)
            /\ Report!ReportSurvives
<1>1. ThreadsIInv => Report!ReportIsWhole /\ Report!HandlerExcludesOwner
  BY CrashHolds DEF ThreadsIInv
<1>2. ThreadsIInv /\ [MCNext]_MCVars =>
        [report.lines # <<>> /\ report' # report =>
           Report!RemoveReport \/ _previousReport' = report]_(Report!vars)
  BY MCSteps, ReportStep DEF ThreadsIInv
<1> QED BY <1>1, <1>2, SpecThreads, PTL DEF MCSpec, Report!ReportSurvives
=============================================================================
