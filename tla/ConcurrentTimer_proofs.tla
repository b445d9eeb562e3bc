----------------------- MODULE ConcurrentTimer_proofs -----------------------
(***************************************************************************)
(* For every set of cells, timeouts, jumps and every bound: the variables  *)
(* of ConcurrentTimer keep their types, a callback begins only for a start *)
(* that is still owed one and never before its time, and the handles of    *)
(* guard cells are counted.  Then of what MCConcurrentTimer checks beside, *)
(* for every value of its constants: LastUsedCache, VirtualMethod and      *)
(* BigNum (lookups), QtPointers (owners), and ZipFile, CustomAppIcon and   *)
(* AllocationTracer (files).                                               *)
(***************************************************************************)
EXTENDS MCConcurrentTimer, SequenceTheorems, FiniteSetTheorems, WellFoundedInduction,
        TLAPS

\* What a handle of a guard's cell can be.
LEMMA HandleFacts == None \in Handle /\ Guards \subseteq Handle
BY DEF Handle

\* Dropping one handle of a cell yields cells again, and raises no flag.
LEMMA DestroyedCells ==
  ASSUME NEW c \in [Guards -> Cells], NEW g \in Handle
  PROVE  /\ Destroyed(c, g) \in [Guards -> Cells]
         /\ \A h \in Guards : Destroyed(c, g)[h] = "both"
                                => c[h] = "both" /\ h # g
<1> USE ConstantsAssumption DEF Destroyed, Handle, Cells
<1>1. CASE g = None
  BY <1>1
<1>2. CASE g \in Guards
  BY <1>2
<1> QED BY <1>1, <1>2

\* So does dropping the handles of a deleted TimerObject and its events.
LEMMA AllDestroyedCells ==
  ASSUME NEW c \in [Guards -> Cells], NEW gs
  PROVE  /\ AllDestroyed(c, gs) \in [Guards -> Cells]
         /\ \A h \in Guards : AllDestroyed(c, gs)[h] = "both" => c[h] = "both"
BY DEF AllDestroyed, Cells

\* make_guard() raises the flag of the new cell and of no other.
LEMMA GuardedCells ==
  ASSUME TypeOK, NEW g \in Guards
  PROVE  /\ Guarded(cell, g) \in [Guards -> Cells]
         /\ \A h \in Guards : Guarded(cell, g)[h] = "both"
                                => h = g \/ (cell[h] = "both" /\ h # running)
<1>1. /\ Destroyed(cell, running) \in [Guards -> Cells]
      /\ \A h \in Guards : Destroyed(cell, running)[h] = "both"
                             => cell[h] = "both" /\ h # running
  BY DestroyedCells DEF TypeOK, SharedTypeOK, OwnerTypeOK
<1> QED BY <1>1 DEF Guarded, Cells

\* What cancelAndSchedule() leaves behind: types, and one live guard at most.
LEMMA Scheduled ==
  ASSUME TypeOK, NEW g \in Guards, NEW t \in Nat, CancelAndSchedule(t, g)
  PROVE  /\ cell' \in [Guards -> Cells]
         /\ running' = g
         /\ events' \in Seq(EventType)
         /\ \A h \in Guards : cell'[h] = "both"
                                => h = g \/ (cell[h] = "both" /\ h # running)
<1> DEFINE c == Guarded(cell, g)
<1>1. /\ c \in [Guards -> Cells]
      /\ \A h \in Guards : c[h] = "both"
                             => h = g \/ (cell[h] = "both" /\ h # running)
  BY GuardedCells
<1>2. g \in Handle
  BY DEF Handle
<1>3. /\ Destroyed(c, g) \in [Guards -> Cells]
      /\ \A h \in Guards : Destroyed(c, g)[h] = "both" => c[h] = "both" /\ h # g
  <2> HIDE DEF c
  <2> QED BY <1>1, <1>2, DestroyedCells
<1>4. [timeout |-> t, guard |-> g] \in EventType
  BY DEF EventType
<1>5. Append(events, [timeout |-> t, guard |-> g]) \in Seq(EventType)
  BY <1>4, AppendProperties DEF TypeOK, QueuesTypeOK
<1> QED BY <1>1, <1>3, <1>5 DEF CancelAndSchedule, TypeOK, QueuesTypeOK

-----------------------------------------------------------------------------
(* The inductive invariant: a raised flag belongs to _running, and a live  *)
(* _running means that a callback is owed or is being run for it.          *)

OneLiveGuard == \A g \in Guards : cell[g] = "both" => running = g

LiveMeansOwed ==
  Alive(running) => owed \/ (owner = "callback" /\ ohold = running)

IInv == TypeOK /\ OneLiveGuard /\ LiveMeansOwed

\* A timer is constructed idle.
LEMMA InitIInv == Init => IInv
<1> SUFFICES ASSUME Init PROVE IInv
  OBVIOUS
<1> USE DEF Init
<1>1. cell \in [Guards -> Cells]
  BY DEF Cells
<1>2. tasks \in Seq(TaskType) /\ events \in Seq(EventType) /\ low \in Seq({"adjust", "delete"})
  BY EmptySeq
<1>3. object \in {"none", "live", "deleted"}
  OBVIOUS
<1>4. starts \in 0..MaxStarts /\ adjusts \in 0..MaxAdjusts
  BY ConstantsAssumption
<1>5. TypeOK
  BY <1>1, <1>2, <1>3, <1>4, HandleFacts DEF TypeOK, OwnerTypeOK,
     ThreadTypeOK, QueuesTypeOK, SharedTypeOK, BoundsTypeOK, Modes
<1>6. OneLiveGuard /\ LiveMeansOwed
  BY DEF OneLiveGuard, LiveMeansOwed, Alive
<1> QED BY <1>5, <1>6 DEF IInv

-----------------------------------------------------------------------------
(* The steps, one lemma per group of actions of Next *)

\* Deleting the TimerObject drops handles, and so raises no flag.
LEMMA ObjectDeleted ==
  ASSUME NEW c \in [Guards -> Cells], DeleteObject(c)
  PROVE  /\ cell' \in [Guards -> Cells] /\ events' \in Seq(EventType)
         /\ next' = None /\ qt' = None /\ object' = "deleted"
         /\ \A h \in Guards : cell'[h] = "both" => c[h] = "both"
<1> DEFINE gs == ObjectHandles
<1>1. /\ AllDestroyed(c, gs) \in [Guards -> Cells]
      /\ \A h \in Guards : AllDestroyed(c, gs)[h] = "both" => c[h] = "both"
  <2> HIDE DEF gs
  <2> QED BY AllDestroyedCells
<1> QED BY <1>1, EmptySeq DEF DeleteObject

\* The owner's calls keep the invariant.
LEMMA OwnerCallStep == IInv /\ OwnerCall => IInv'
<1> SUFFICES ASSUME IInv, OwnerCall PROVE IInv'
  OBVIOUS
<1> USE ConstantsAssumption, HandleFacts
<1>t. TypeOK /\ OneLiveGuard /\ LiveMeansOwed
  BY DEF IInv
<1>1. ASSUME NEW t \in Timeouts, NEW r \in Modes, NEW g \in FreeCells,
             Start(t, r, g)
      PROVE  IInv'
  <2>1. t \in Nat /\ g \in Guards
    BY DEF FreeCells
  <2>2. DoStart(t, r, g) /\ CancelAndSchedule(t, g)
    BY <1>1 DEF Start, DoStart
  <2>3. /\ cell' \in [Guards -> Cells] /\ running' = g
        /\ events' \in Seq(EventType)
        /\ \A h \in Guards : cell'[h] = "both"
                                => h = g \/ (cell[h] = "both" /\ h # running)
    BY <1>t, <2>1, <2>2, Scheduled
  <2>4. OwnerTypeOK' /\ ThreadTypeOK'
    BY <1>1, <1>t, <2>1, <2>2, <2>3
       DEF Start, DoStart, TypeOK, OwnerTypeOK, ThreadTypeOK, threadVars
  <2>5. QueuesTypeOK' /\ SharedTypeOK'
    BY <1>1, <1>t, <2>3 DEF Start, TypeOK, QueuesTypeOK, SharedTypeOK
  <2>6. BoundsTypeOK'
    BY <1>1, <1>t, <2>1, <2>2 DEF Start, DoStart, TypeOK, BoundsTypeOK
  <2>7. OneLiveGuard' /\ LiveMeansOwed'
    BY <1>t, <2>2, <2>3 DEF OneLiveGuard, LiveMeansOwed, DoStart
  <2> QED BY <2>4, <2>5, <2>6, <2>7 DEF IInv, TypeOK
<1>2. CASE Cancel
  <2>1. /\ cell' \in [Guards -> Cells]
        /\ \A h \in Guards : cell'[h] = "both" => cell[h] = "both" /\ h # running
    BY <1>2, <1>t, DestroyedCells DEF Cancel, TypeOK, SharedTypeOK, OwnerTypeOK
  <2>2. OwnerTypeOK' /\ ThreadTypeOK' /\ QueuesTypeOK'
    BY <1>2, <1>t DEF Cancel, TypeOK, OwnerTypeOK, ThreadTypeOK, QueuesTypeOK,
                      threadVars, queueVars
  <2>3. SharedTypeOK' /\ BoundsTypeOK'
    BY <1>2, <1>t, <2>1 DEF Cancel, TypeOK, SharedTypeOK, BoundsTypeOK, bounds, history
  <2>4. OneLiveGuard' /\ LiveMeansOwed'
    BY <1>2, <1>t, <2>1 DEF Cancel, OneLiveGuard, LiveMeansOwed, Alive
  <2> QED BY <2>2, <2>3, <2>4 DEF IInv, TypeOK
<1>3. CASE DestroyTimer
  <2> DEFINE c == Destroyed(cell, running)
  <2>1. /\ c \in [Guards -> Cells]
        /\ \A h \in Guards : c[h] = "both" => cell[h] = "both" /\ h # running
    BY <1>t, DestroyedCells DEF TypeOK, SharedTypeOK, OwnerTypeOK
  <2>2. /\ cell' \in [Guards -> Cells] /\ events' \in Seq(EventType)
        /\ low' \in Seq({"adjust", "delete"})
        /\ next' \in Handle /\ qt' \in Nat \cup {None}
        /\ object' \in {"none", "live", "deleted"}
        /\ \A h \in Guards : cell'[h] = "both" => c[h] = "both"
    <3> USE <1>t DEF TypeOK, SharedTypeOK, ThreadTypeOK, QueuesTypeOK
    <3>1. CASE /\ low' = Append(low, "delete") /\ cell' = c
               /\ UNCHANGED <<object, next, qt, events>>
      <4>1. low' \in Seq({"adjust", "delete"})
        BY <3>1, AppendProperties
      <4> QED BY <3>1, <4>1, <2>1
    <3>2. CASE DeleteObject(c) /\ UNCHANGED low
      <4>1. /\ cell' \in [Guards -> Cells] /\ events' \in Seq(EventType)
            /\ next' = None /\ qt' = None /\ object' = "deleted"
            /\ \A h \in Guards : cell'[h] = "both" => c[h] = "both"
        <5> HIDE DEF c
        <5> QED BY <2>1, <3>2, ObjectDeleted
      <4> QED BY <3>2, <4>1
    <3>3. CASE cell' = c /\ UNCHANGED <<object, next, qt, events, low>>
      BY <3>3, <2>1
    <3> QED BY <1>3, <3>1, <3>2, <3>3 DEF DestroyTimer
  <2>3. OwnerTypeOK' /\ ThreadTypeOK' /\ QueuesTypeOK'
    BY <1>3, <1>t, <2>2
       DEF DestroyTimer, TypeOK, OwnerTypeOK, ThreadTypeOK, QueuesTypeOK
  <2>4. SharedTypeOK' /\ BoundsTypeOK'
    BY <1>3, <1>t, <2>2
       DEF DestroyTimer, TypeOK, SharedTypeOK, BoundsTypeOK, bounds, history
  <2>5. OneLiveGuard' /\ LiveMeansOwed'
    BY <1>3, <1>t, <2>1, <2>2 DEF DestroyTimer, OneLiveGuard, LiveMeansOwed, Alive
  <2> QED BY <2>3, <2>4, <2>5 DEF IInv, TypeOK
<1> QED BY <1>1, <1>2, <1>3 DEF OwnerCall

\* Taking the head of a typed queue.
LEMMA HeadTail ==
  ASSUME NEW S, NEW q \in Seq(S), q # <<>>
  PROVE  Head(q) \in S /\ Tail(q) \in Seq(S)
BY HeadTailProperties

\* The tasks queued to the owner keep the invariant.
LEMMA OwnerTaskStep == IInv /\ OwnerTask => IInv'
<1> SUFFICES ASSUME IInv, OwnerTask PROVE IInv'
  OBVIOUS
<1> USE ConstantsAssumption, HandleFacts
<1>t. TypeOK /\ OneLiveGuard /\ LiveMeansOwed
  BY DEF IInv
<1>h. ASSUME tasks # <<>>
      PROVE  Head(tasks) \in TaskType /\ Tail(tasks) \in Seq(TaskType)
             /\ Head(tasks).guard \in Handle
  <2>1. Head(tasks) \in TaskType /\ Tail(tasks) \in Seq(TaskType)
    BY <1>h, <1>t, HeadTail DEF TypeOK, QueuesTypeOK
  <2> QED BY <2>1 DEF TaskType
<1>0. CASE SetNext
  <2>1. OwnerTypeOK' /\ ThreadTypeOK'
    BY <1>0, <1>t DEF SetNext, TypeOK, OwnerTypeOK, ThreadTypeOK, threadVars
  <2>3. QueuesTypeOK' /\ SharedTypeOK' /\ BoundsTypeOK'
    BY <1>0, <1>t DEF SetNext, TypeOK, QueuesTypeOK, SharedTypeOK, BoundsTypeOK, queueVars,
                      bounds, history
  <2>2. OneLiveGuard' /\ LiveMeansOwed'
    BY <1>0, <1>t DEF SetNext, OneLiveGuard, LiveMeansOwed, Alive, history
  <2> QED BY <2>1, <2>2, <2>3 DEF IInv, TypeOK
<1>1. CASE RunStaleFire
  <2>1. Head(tasks).guard \in Handle /\ Tail(tasks) \in Seq(TaskType)
    BY <1>1, <1>h DEF RunStaleFire
  <2>2. /\ cell' \in [Guards -> Cells]
        /\ \A h \in Guards : cell'[h] = "both" => cell[h] = "both"
    BY <1>1, <1>t, <2>1, DestroyedCells DEF RunStaleFire, TypeOK, SharedTypeOK
  <2>3. OwnerTypeOK' /\ ThreadTypeOK' /\ QueuesTypeOK'
    BY <1>1, <1>t, <2>1 DEF RunStaleFire, TypeOK, OwnerTypeOK, ThreadTypeOK,
                            QueuesTypeOK, ownerVars, threadVars
  <2>4. SharedTypeOK' /\ BoundsTypeOK'
    BY <1>1, <1>t, <2>2
       DEF RunStaleFire, TypeOK, SharedTypeOK, BoundsTypeOK, bounds, history
  <2>5. OneLiveGuard'
    BY <1>1, <1>t, <2>2 DEF RunStaleFire, OneLiveGuard, ownerVars
  <2>6. LiveMeansOwed'
    BY <1>1, <1>t, <2>2
       DEF RunStaleFire, LiveMeansOwed, Alive, ownerVars, history, TypeOK, OwnerTypeOK, Handle
  <2> QED BY <2>3, <2>4, <2>5, <2>6 DEF IInv, TypeOK
<1>2. CASE EndFire
  <2>1. /\ cell' \in [Guards -> Cells]
        /\ \A h \in Guards : cell'[h] = "both" => cell[h] = "both" /\ h # ohold
    BY <1>2, <1>t, DestroyedCells DEF EndFire, TypeOK, SharedTypeOK, OwnerTypeOK
  <2>2. OwnerTypeOK' /\ ThreadTypeOK' /\ QueuesTypeOK'
    BY <1>2, <1>t DEF EndFire, TypeOK, OwnerTypeOK, ThreadTypeOK, QueuesTypeOK,
                      threadVars, queueVars
  <2>3. SharedTypeOK' /\ BoundsTypeOK'
    BY <1>2, <1>t, <2>1 DEF EndFire, TypeOK, SharedTypeOK, BoundsTypeOK, bounds, history
  <2>4. OneLiveGuard'
    BY <1>2, <1>t, <2>1 DEF EndFire, OneLiveGuard
  <2>5. LiveMeansOwed'
    BY <1>2, <1>t, <2>1
       DEF EndFire, LiveMeansOwed, Alive, history, TypeOK, OwnerTypeOK, Handle
  <2> QED BY <2>2, <2>3, <2>4, <2>5 DEF IInv, TypeOK
<1>3. ASSUME NEW g \in FreeCells, RunFire(g)
      PROVE  IInv'
  <2>1. g \in Guards /\ Tail(tasks) \in Seq(TaskType) /\ ohold' \in Handle
    BY <1>3, <1>h DEF RunFire, FreeCells
  <2>2. /\ cell' \in [Guards -> Cells] /\ events' \in Seq(EventType)
        /\ running' \in Handle /\ repeat' \in Modes /\ adjusted' \in BOOLEAN
        /\ timeout' \in Nat /\ due' \in Nat /\ starting' \in BOOLEAN
        /\ owed' \in BOOLEAN /\ early' \in Nat
        /\ OneLiveGuard'
        /\ Alive(running)' => owed' \/ ohold' = running'
    <3> USE <1>t DEF TypeOK, SharedTypeOK, OwnerTypeOK, QueuesTypeOK, BoundsTypeOK
    <3>1. CASE DoStart(timeout, repeat, g)
      <4>1. CancelAndSchedule(timeout, g) /\ timeout \in Nat
        BY <3>1 DEF DoStart
      <4>2. /\ cell' \in [Guards -> Cells] /\ running' = g
            /\ events' \in Seq(EventType)
            /\ \A h \in Guards : cell'[h] = "both"
                                  => h = g \/ (cell[h] = "both" /\ h # running)
        BY <2>1, <4>1, Scheduled
      <4>3. OneLiveGuard'
        BY <4>2 DEF OneLiveGuard
      <4> QED BY <2>1, <3>1, <4>2, <4>3 DEF DoStart
    <3>2. CASE /\ due' = timeout /\ owed' = FALSE
               /\ UNCHANGED <<cell, running, repeat, adjusted, timeout, starting, events, early>>
      <4>1. OneLiveGuard'
        BY <3>2 DEF OneLiveGuard
      <4>2. ohold' \in Guards /\ cell[ohold'] = "both"
        BY <1>3, <2>1 DEF RunFire, Alive, Handle
      <4>3. Alive(running)' => ohold' = running'
        BY <3>2, <4>2 DEF OneLiveGuard
      <4> QED BY <3>2, <4>1, <4>3
    <3>3. CASE /\ cell' = Destroyed(cell, running) /\ running' = None
               /\ owed' = FALSE
               /\ UNCHANGED <<repeat, adjusted, timeout, due, starting, events, early>>
      <4>1. /\ cell' \in [Guards -> Cells]
            /\ \A h \in Guards :
                 cell'[h] = "both" => cell[h] = "both" /\ h # running
        BY <3>3, DestroyedCells
      <4>2. OneLiveGuard' /\ ~Alive(running)'
        BY <3>3, <4>1 DEF OneLiveGuard, Alive
      <4> QED BY <3>3, <4>1, <4>2
    <3> QED BY <1>3, <3>1, <3>2, <3>3 DEF RunFire
  <2>3. OwnerTypeOK' /\ ThreadTypeOK' /\ QueuesTypeOK'
    BY <1>3, <1>t, <2>1, <2>2 DEF RunFire, TypeOK, OwnerTypeOK, ThreadTypeOK,
                                  QueuesTypeOK, threadVars
  <2>4. SharedTypeOK' /\ BoundsTypeOK'
    BY <1>3, <1>t, <2>2
       DEF RunFire, TypeOK, SharedTypeOK, BoundsTypeOK, bounds, history
  <2>5. LiveMeansOwed'
    BY <1>3, <2>2 DEF RunFire, LiveMeansOwed
  <2> QED BY <2>2, <2>3, <2>4, <2>5 DEF IInv, TypeOK
<1>4. ASSUME NEW g \in FreeCells, RunAdjust(g)
      PROVE  IInv'
  <2>1. g \in Guards /\ Tail(tasks) \in Seq(TaskType)
    BY <1>4, <1>h DEF RunAdjust, FreeCells
  <2>2. /\ cell' \in [Guards -> Cells] /\ events' \in Seq(EventType)
        /\ running' \in Handle /\ adjusted' \in BOOLEAN
        /\ OneLiveGuard' /\ LiveMeansOwed'
    <3> USE <1>t DEF TypeOK, SharedTypeOK, OwnerTypeOK, QueuesTypeOK
    <3>1. CASE owner = "idle" /\ IsActive /\ CancelAndSchedule(due, g)
               /\ adjusted' = TRUE
      <4>1. /\ cell' \in [Guards -> Cells] /\ running' = g
            /\ events' \in Seq(EventType)
            /\ \A h \in Guards : cell'[h] = "both"
                                  => h = g \/ (cell[h] = "both" /\ h # running)
        BY <2>1, <3>1, Scheduled
      <4>2. OneLiveGuard'
        BY <4>1 DEF OneLiveGuard
      <4>3. LiveMeansOwed'
        BY <1>4, <3>1 DEF RunAdjust, LiveMeansOwed, IsActive, history
      <4> QED BY <2>1, <3>1, <4>1, <4>2, <4>3
    <3>2. CASE UNCHANGED <<cell, running, events, adjusted>>
      BY <1>4, <3>2 DEF RunAdjust, OneLiveGuard, LiveMeansOwed, Alive, history
    <3> QED BY <1>4, <3>1, <3>2 DEF RunAdjust
  <2>3. OwnerTypeOK' /\ ThreadTypeOK' /\ QueuesTypeOK'
    BY <1>4, <1>t, <2>1, <2>2 DEF RunAdjust, TypeOK, OwnerTypeOK, ThreadTypeOK,
                                  QueuesTypeOK, threadVars
  <2>4. SharedTypeOK' /\ BoundsTypeOK'
    BY <1>4, <1>t, <2>2
       DEF RunAdjust, TypeOK, SharedTypeOK, BoundsTypeOK, bounds, history
  <2> QED BY <2>2, <2>3, <2>4 DEF IInv, TypeOK
<1> QED BY <1>0, <1>1, <1>2, <1>3, <1>4 DEF OwnerTask

\* A step that leaves the owner alone and raises no flag keeps the invariant.
LEMMA NoFlagRaised ==
  ASSUME IInv, TypeOK', UNCHANGED <<ownerVars, owed>>,
         \A h \in Guards : cell'[h] = "both" => cell[h] = "both"
  PROVE  IInv'
<1>1. OneLiveGuard'
  BY DEF IInv, OneLiveGuard, ownerVars
<1>2. LiveMeansOwed'
  BY DEF IInv, LiveMeansOwed, Alive, ownerVars, TypeOK, OwnerTypeOK, Handle
<1> QED BY <1>1, <1>2 DEF IInv

\* The timer thread keeps the invariant.
LEMMA ThreadStepStep == IInv /\ ThreadStep => IInv'
<1> SUFFICES ASSUME IInv, ThreadStep PROVE IInv'
  OBVIOUS
<1> USE ConstantsAssumption, HandleFacts
<1>t. TypeOK
  BY DEF IInv
<1>o. UNCHANGED <<ownerVars, env, bounds, owed, early, wantEach>>
  BY DEF ThreadStep, CallDelayed, CallNow, CheckGuard, PostFire, TakeAdjust,
         TakeDelete, FinishThread, history
<1>p. OwnerTypeOK' /\ BoundsTypeOK'
  BY <1>t, <1>o DEF TypeOK, OwnerTypeOK, BoundsTypeOK, ownerVars, bounds
<1> DEFINE Kept == \A h \in Guards : cell'[h] = "both" => cell[h] = "both"
<1>q. SUFFICES ThreadTypeOK' /\ QueuesTypeOK' /\ SharedTypeOK' /\ Kept
  BY <1>o, <1>p, NoFlagRaised DEF TypeOK
<1>u. ThreadTypeOK /\ QueuesTypeOK /\ SharedTypeOK
  BY <1>t DEF TypeOK
<1>1. CASE CallDelayed
  <2>1. Head(events) \in EventType /\ Tail(events) \in Seq(EventType)
    BY <1>1, <1>u, HeadTail DEF CallDelayed, QueuesTypeOK
  <2>2. Head(events).timeout \in Nat /\ Head(events).guard \in Guards
    BY <2>1 DEF EventType
  <2>3. cell' \in [Guards -> Cells] /\ Kept
    BY <1>1, <1>u, DestroyedCells DEF CallDelayed, SharedTypeOK, ThreadTypeOK
  <2> QED BY <1>1, <1>o, <1>u, <2>1, <2>2, <2>3
          DEF CallDelayed, ThreadTypeOK, QueuesTypeOK, SharedTypeOK
<1>2. CASE CallNow
  BY <1>2, <1>o, <1>u DEF CallNow, ThreadTypeOK, QueuesTypeOK, SharedTypeOK, queueVars
<1>3. CASE CheckGuard
  <2>1. cell' \in [Guards -> Cells] /\ Kept
    BY <1>3, <1>u, DestroyedCells DEF CheckGuard, SharedTypeOK, ThreadTypeOK
  <2> QED BY <1>3, <1>o, <1>u, <2>1
          DEF CheckGuard, ThreadTypeOK, QueuesTypeOK, SharedTypeOK, queueVars
<1>4. CASE PostFire
  <2>1. Fire(thold) \in TaskType
    BY <1>u DEF Fire, TaskType, ThreadTypeOK
  <2>2. tasks' \in Seq(TaskType)
    BY <1>4, <1>u, <2>1, AppendProperties DEF PostFire, QueuesTypeOK
  <2> QED BY <1>4, <1>o, <1>u, <2>2
          DEF PostFire, ThreadTypeOK, QueuesTypeOK, SharedTypeOK
<1>5. CASE TakeAdjust
  <2>1. Adjust \in TaskType
    BY DEF Adjust, TaskType
  <2>2. tasks' \in Seq(TaskType) /\ low' \in Seq({"adjust", "delete"})
    BY <1>5, <1>u, <2>1, AppendProperties, HeadTail DEF TakeAdjust, QueuesTypeOK
  <2> QED BY <1>5, <1>o, <1>u, <2>2
          DEF TakeAdjust, ThreadTypeOK, QueuesTypeOK, SharedTypeOK, threadVars
<1>6. ASSUME DeleteObject(cell), low' \in Seq({"adjust", "delete"}),
             thread' \in {"idle", "check", "post", "finished"},
             UNCHANGED <<tasks, thold>>
      PROVE  ThreadTypeOK' /\ QueuesTypeOK' /\ SharedTypeOK' /\ Kept
  <2>1. /\ cell' \in [Guards -> Cells] /\ events' \in Seq(EventType)
        /\ next' = None /\ qt' = None /\ object' = "deleted" /\ Kept
    BY <1>6, <1>u, ObjectDeleted DEF SharedTypeOK
  <2> QED BY <1>6, <1>o, <1>u, <2>1 DEF ThreadTypeOK, QueuesTypeOK, SharedTypeOK
<1>7. CASE TakeDelete
  <2>1. low' \in Seq({"adjust", "delete"})
    BY <1>7, <1>u, HeadTail DEF TakeDelete, QueuesTypeOK
  <2> QED BY <1>6, <1>7, <1>u, <2>1 DEF TakeDelete, ThreadTypeOK
<1>8. CASE FinishThread
  <2>1. CASE low' = <<>> /\ DeleteObject(cell)
    <3>1. low' \in Seq({"adjust", "delete"})
      BY <2>1, EmptySeq
    <3> QED BY <1>6, <1>8, <2>1, <3>1 DEF FinishThread
  <2>2. CASE UNCHANGED <<low, cell, object, next, qt, events>>
    BY <1>8, <1>o, <1>u, <2>2
       DEF FinishThread, ThreadTypeOK, QueuesTypeOK, SharedTypeOK
  <2> QED BY <1>8, <2>1, <2>2 DEF FinishThread
<1> QED BY <1>1, <1>2, <1>3, <1>4, <1>5, <1>7, <1>8 DEF ThreadStep

\* What is left of a delay is not negative.
LEMMA LessIsNat == ASSUME NEW a \in Nat, NEW b \in Nat PROVE Less(a, b) \in Nat
BY DEF Less

\* The clocks and the destruction of the environment touch no handle.
LEMMA OutsideStep ==
  IInv /\ ((\E d \in Jumps : CheckLocalTime(d)) \/ Tick \/ EnvStep) => IInv'
<1> SUFFICES ASSUME IInv,
                    (\E d \in Jumps : CheckLocalTime(d)) \/ Tick \/ EnvStep
             PROVE  IInv'
  OBVIOUS
<1> USE ConstantsAssumption, HandleFacts
<1>t. OwnerTypeOK /\ ThreadTypeOK /\ QueuesTypeOK /\ SharedTypeOK /\ BoundsTypeOK
  BY DEF IInv, TypeOK
<1>1. UNCHANGED <<cell, running, repeat, adjusted, timeout, starting, owner, ohold, next,
                  thread, thold, tasks, events, object, owed, wantEach>>
  BY DEF CheckLocalTime, Tick, EnvStep, EnvQuit, EnvRelease, EnvWait, ownerVars,
         threadVars, queueVars, history
<1>2. OneLiveGuard' /\ LiveMeansOwed'
  BY <1>1 DEF IInv, OneLiveGuard, LiveMeansOwed, Alive
<1> DEFINE Typed ==
      /\ due' \in Nat /\ early' \in Nat /\ qt' \in Nat \cup {None} /\ low' \in Seq({"adjust", "delete"})
      /\ adjusts' \in 0..MaxAdjusts /\ starts' = starts
      /\ env' \in {"up", "quit", "released", "down"}
<1>3. Typed
  <2>1. ASSUME NEW d \in Jumps, CheckLocalTime(d)
        PROVE  Typed
    <3>1. due' \in Nat /\ early' \in Nat
      BY <1>t, <2>1, LessIsNat DEF CheckLocalTime, OwnerTypeOK, BoundsTypeOK
    <3>2. low' \in Seq({"adjust", "delete"})
      BY <1>t, <2>1, AppendProperties DEF CheckLocalTime, Adjusted, QueuesTypeOK
    <3>3. adjusts' \in 0..MaxAdjusts /\ starts' = starts
      BY <1>t, <2>1 DEF CheckLocalTime, BoundsTypeOK
    <3>4. UNCHANGED <<qt, env>>
      BY <2>1 DEF CheckLocalTime, threadVars
    <3> QED BY <1>t, <3>1, <3>2, <3>3, <3>4 DEF ThreadTypeOK, SharedTypeOK
  <2>2. CASE Tick
    <3>1. due' \in Nat /\ early' \in Nat /\ qt' \in Nat \cup {None}
      BY <1>t, <2>2, LessIsNat DEF Tick, OwnerTypeOK, ThreadTypeOK, BoundsTypeOK
    <3> QED BY <1>t, <2>2, <3>1
            DEF Tick, QueuesTypeOK, SharedTypeOK, BoundsTypeOK, queueVars, bounds
  <2>3. CASE EnvStep
    BY <1>t, <2>3 DEF EnvStep, EnvQuit, EnvRelease, EnvWait, ownerVars, threadVars,
       queueVars, bounds, history, OwnerTypeOK, ThreadTypeOK, QueuesTypeOK, BoundsTypeOK
  <2> QED BY <2>1, <2>2, <2>3
<1>4. OwnerTypeOK' /\ ThreadTypeOK' /\ QueuesTypeOK' /\ SharedTypeOK' /\ BoundsTypeOK'
  BY <1>t, <1>1, <1>3
     DEF OwnerTypeOK, ThreadTypeOK, QueuesTypeOK, SharedTypeOK, BoundsTypeOK
<1> QED BY <1>2, <1>4 DEF IInv, TypeOK

\* A step of nothing keeps it.
LEMMA StutterStep == IInv /\ UNCHANGED vars => IInv'
BY DEF IInv, vars, ownerVars, threadVars, queueVars, bounds, OneLiveGuard,
       LiveMeansOwed, Alive, TypeOK, OwnerTypeOK, ThreadTypeOK, QueuesTypeOK,
       SharedTypeOK, BoundsTypeOK

\* Every step keeps it.
LEMMA NextIInv == IInv /\ [Next]_vars => IInv'
BY OwnerCallStep, OwnerTaskStep, ThreadStepStep, OutsideStep, StutterStep DEF Next

-----------------------------------------------------------------------------
\* The inductive invariant holds in every state of every instance.
THEOREM Invariance == Spec => []IInv
BY InitIInv, NextIInv, PTL DEF Spec

\* Every variable keeps its type: no queue, handle or bound gets out of range,
\* whatever the timeouts and however many cells there are.
THEOREM TypeCorrect == Spec => []TypeOK
<1>1. IInv => TypeOK
  BY DEF IInv
<1> QED BY <1>1, Invariance, PTL

\* Nothing but a fire task that finds its guard up begins a callback.
LEMMA OnlyFires == Next /\ Fires => \E g \in FreeCells : RunFire(g)
<1> SUFFICES ASSUME Next, Fires PROVE \E g \in FreeCells : RunFire(g)
  OBVIOUS
<1>1. ~OwnerCall
  BY DEF Fires, OwnerCall, Start, Cancel, DestroyTimer
<1>2. ~ThreadStep
  BY DEF Fires, ThreadStep, CallDelayed, CallNow, CheckGuard, PostFire,
         TakeAdjust, TakeDelete, FinishThread, ownerVars
<1>3. ~(\E d \in Jumps : CheckLocalTime(d)) /\ ~Tick /\ ~EnvStep
  BY DEF Fires, CheckLocalTime, Tick, EnvStep, ownerVars
<1>4. OwnerTask
  BY <1>1, <1>2, <1>3 DEF Next
<1> QED BY <1>4 DEF Fires, OwnerTask, SetNext, RunStaleFire, EndFire, RunAdjust, ownerVars

\* A callback runs for the method of the current start: its guard is up, and the
\* flag is up only for the cell that _running holds.
LEMMA Fired ==
  ASSUME IInv, NEW g \in FreeCells, RunFire(g)
  PROVE  running # None /\ running = Head(tasks).guard /\ Alive(running)
<1>1. tasks # <<>> /\ tasks \in Seq(TaskType)
  BY DEF RunFire, IInv, TypeOK, QueuesTypeOK
<1>2. Head(tasks) \in TaskType
  BY <1>1, HeadTail
<1>3. Head(tasks).guard \in Guards /\ cell[Head(tasks).guard] = "both"
  BY <1>2 DEF TaskType, RunFire, Alive, Handle
<1>4. running = Head(tasks).guard
  BY <1>3 DEF IInv, OneLiveGuard
<1> QED BY <1>3, <1>4, ConstantsAssumption DEF Alive

\* The callback of a timer runs only for a start that has neither been answered
\* nor cancelled, replaced or destroyed: the guard is checked on the owner
\* queue, and it is up only for the cell that _running holds.
THEOREM CallbackOnlyWhenOwed == Spec => FiresOnlyWhenOwed
<1>1. IInv /\ [Next]_vars => [Fires => owed]_vars
  <2> SUFFICES ASSUME IInv, Next, Fires PROVE owed
    BY DEF Fires, vars, ownerVars
  <2>1. PICK g \in FreeCells : RunFire(g)
    BY OnlyFires
  <2>2. Alive(running)
    BY <2>1, Fired
  <2> QED BY <2>1, <2>2 DEF IInv, LiveMeansOwed, RunFire
<1> QED BY <1>1, Invariance, PTL DEF Spec, FiresOnlyWhenOwed

-----------------------------------------------------------------------------
(* Cells.  The handles are in five places: the method of the Qt timer, the *)
(* events, the tasks, the method that the thread runs and the task that    *)
(* the owner runs.  A cell is in one of them at most, and once there, so   *)
(* that its handles are counted by membership.                             *)

HandlesOf(q) == {q[i].guard : i \in DOMAIN q} \ {None}
Solo(h) == {h} \ {None}

Once(q) ==
  \A i, j \in DOMAIN q : q[i].guard = q[j].guard /\ q[i].guard # None => i = j

\* No two of five sets have a member in common.
Disjoint(A, B, C, D, E) ==
  /\ A \cap B = {} /\ A \cap C = {} /\ A \cap D = {} /\ A \cap E = {}
  /\ B \cap C = {} /\ B \cap D = {} /\ B \cap E = {}
  /\ C \cap D = {} /\ C \cap E = {} /\ D \cap E = {}

Apart ==
  Disjoint(Solo(next), HandlesOf(events), HandlesOf(tasks), Solo(thold), Solo(ohold))

\* What is left of the handles of cells c, if methods hold hs and _running is r.
Counted(c, hs, r) ==
  \A g \in Guards :
    c[g] = IF g \in hs /\ g = r THEN "both"
           ELSE IF g \in hs \/ g = r THEN "one" ELSE "free"

\* Who does not run a method or a task holds none, and an adjust has no guard.
IdleHoldNone ==
  /\ owner # "callback" => ohold = None
  /\ thread \in {"idle", "finished"} => thold = None
  /\ \A i \in DOMAIN tasks : tasks[i].kind = "adjust" => tasks[i].guard = None

CellsHeld ==
  /\ Apart /\ Once(events) /\ Once(tasks) /\ IdleHoldNone
  /\ Counted(cell, MethodHandles, running)

HInv == IInv /\ CellsHeld

\* A queue holds the handle that is appended to it.
LEMMA Queued ==
  ASSUME NEW S, NEW q \in Seq(S), NEW e \in S, Once(q), e.guard \notin HandlesOf(q)
  PROVE  HandlesOf(Append(q, e)) = HandlesOf(q) \cup Solo(e.guard) /\ Once(Append(q, e))
<1> DEFINE a == Append(q, e)
<1>1. /\ a \in Seq(S) /\ Len(a) = Len(q) + 1 /\ a[Len(q) + 1] = e
      /\ \A i \in 1..Len(q) : a[i] = q[i]
  BY AppendProperties
<1>2. Len(q) \in Nat /\ DOMAIN q = 1..Len(q) /\ DOMAIN a = 1..(Len(q) + 1)
  BY <1>1, LenProperties
<1>3. DOMAIN a = DOMAIN q \cup {Len(q) + 1}
  BY <1>2
<1> HIDE DEF a
<1>4. HandlesOf(a) = HandlesOf(q) \cup Solo(e.guard)
  BY <1>1, <1>2, <1>3 DEF HandlesOf, Solo
<1>5. Once(a)
  BY <1>1, <1>2, <1>3 DEF Once, HandlesOf
<1> QED BY <1>4, <1>5 DEF a

\* What is taken from the front of a queue is not in what is left.
LEMMA Taken ==
  ASSUME NEW S, NEW q \in Seq(S), q # <<>>, Once(q)
  PROVE  /\ HandlesOf(Tail(q)) = HandlesOf(q) \ Solo(Head(q).guard)
         /\ Solo(Head(q).guard) \subseteq HandlesOf(q)
         /\ Once(Tail(q))
<1> DEFINE t == Tail(q)
<1>1. /\ t \in Seq(S) /\ Len(t) = Len(q) - 1 /\ Head(q) = q[1]
      /\ \A i \in 1..Len(t) : t[i] = q[i + 1]
  BY HeadTailProperties
<1>2. Len(q) \in Nat /\ Len(q) > 0 /\ DOMAIN q = 1..Len(q) /\ DOMAIN t = 1..(Len(q) - 1)
  BY <1>1, LenProperties, EmptySeq
<1> HIDE DEF t
<1>3. \A i \in DOMAIN t : i + 1 \in DOMAIN q /\ i + 1 # 1 /\ t[i] = q[i + 1]
  BY <1>1, <1>2
<1>4. \A i \in DOMAIN q : i # 1 => i - 1 \in DOMAIN t /\ t[i - 1] = q[i]
  BY <1>1, <1>2
<1>5. 1 \in DOMAIN q
  BY <1>2
<1>6. HandlesOf(t) \subseteq HandlesOf(q) \ Solo(q[1].guard)
  BY <1>3, <1>5 DEF HandlesOf, Solo, Once
<1>7. HandlesOf(q) \ Solo(q[1].guard) \subseteq HandlesOf(t)
  BY <1>4 DEF HandlesOf, Solo
<1>8. Once(t)
  BY <1>2, <1>3 DEF Once
<1>9. HandlesOf(t) = HandlesOf(q) \ Solo(q[1].guard) BY <1>6, <1>7
<1>10. Solo(q[1].guard) \subseteq HandlesOf(q) BY <1>5 DEF HandlesOf, Solo
<1> QED BY <1>1, <1>8, <1>9, <1>10 DEF t

\* _running drops its handle of a cell.
LEMMA RunningDropped ==
  ASSUME NEW c \in [Guards -> Cells], NEW r \in Handle, NEW hs, Counted(c, hs, r)
  PROVE  Counted(Destroyed(c, r), hs, None)
BY ConstantsAssumption DEF Counted, Destroyed, Handle

\* A method goes, with the handle it holds.
LEMMA MethodDropped ==
  ASSUME NEW c \in [Guards -> Cells], NEW r, NEW h \in Handle, NEW hs,
         Counted(c, hs, r), Solo(h) \subseteq hs
  PROVE  Counted(Destroyed(c, h), hs \ Solo(h), r)
BY ConstantsAssumption DEF Counted, Destroyed, Handle, Solo

\* Several methods go at once.
LEMMA AllDropped ==
  ASSUME NEW c \in [Guards -> Cells], NEW r, NEW gs, NEW hs,
         Counted(c, hs, r), gs \subseteq hs
  PROVE  Counted(AllDestroyed(c, gs), hs \ gs, r)
BY DEF Counted, AllDestroyed

\* make_guard() drops one handle, and makes two of a cell nobody held.
LEMMA CellMade ==
  ASSUME TypeOK, NEW g \in FreeCells, NEW hs, Counted(cell, hs, running)
  PROVE  Counted(Guarded(cell, g), hs \cup {g}, g) /\ g \notin hs
<1> DEFINE d == Destroyed(cell, running)
<1>1. Counted(d, hs, None)
  BY RunningDropped DEF TypeOK, OwnerTypeOK, SharedTypeOK
<1>2. d \in [Guards -> Cells]
  BY DestroyedCells DEF TypeOK, OwnerTypeOK, SharedTypeOK
<1>3. g \in Guards /\ g \notin hs
  BY DEF FreeCells, Counted
<1> HIDE DEF d
<1>4. Counted([d EXCEPT ![g] = "both"], hs \cup {g}, g)
  BY <1>1, <1>2, <1>3, ConstantsAssumption DEF Counted
<1> QED BY <1>3, <1>4 DEF Guarded, d

FivePlaces ==
  MethodHandles = Solo(next) \cup HandlesOf(events) \cup HandlesOf(tasks)
                    \cup Solo(thold) \cup Solo(ohold)

\* What methods hold is what is in the five places.
LEMMA HandlesPlaced == TypeOK => FivePlaces
<1> SUFFICES ASSUME TypeOK PROVE FivePlaces
  OBVIOUS
<1>1. ASSUME NEW i \in DOMAIN events PROVE events[i].guard # None
  <2>1. events[i] \in EventType
    BY <1>1, ElementOfSeq, LenProperties DEF TypeOK, QueuesTypeOK
  <2> QED BY <2>1, ConstantsAssumption DEF EventType
<1> QED BY <1>1 DEF FivePlaces, MethodHandles, ObjectHandles, TaskHandles, HandlesOf, Solo

\* No cell is held that is not there.
LEMMA InitCellsHeld == Init => CellsHeld
BY ConstantsAssumption DEF Init, CellsHeld, Apart, Disjoint, Once, IdleHoldNone, Counted,
   MethodHandles, ObjectHandles, TaskHandles, HandlesOf, Solo

\* What a step has to show for CellsHeld'.
LEMMA Shown ==
  ASSUME IInv', Apart', Once(events)', Once(tasks)', IdleHoldNone',
         Counted(cell', Solo(next') \cup HandlesOf(events') \cup HandlesOf(tasks')
                          \cup Solo(thold') \cup Solo(ohold'), running')
  PROVE  CellsHeld'
<1>1. TypeOK' => FivePlaces'
  BY HandlesPlaced, PTL
<1> QED BY <1>1 DEF CellsHeld, IInv, FivePlaces

\* What cancelAndSchedule() does to the cells: the new one is with the event, if
\* there is an object to take it.
LEMMA ScheduledHeld ==
  ASSUME IInv, CellsHeld, NEW g \in FreeCells, NEW t \in Nat, CancelAndSchedule(t, g)
  PROVE  /\ running' = g /\ g \notin MethodHandles /\ Once(events)' /\ g # None
         /\ \/ HandlesOf(events') = HandlesOf(events)
               /\ Counted(cell', MethodHandles, g)
            \/ HandlesOf(events') = HandlesOf(events) \cup {g}
               /\ Counted(cell', MethodHandles \cup {g}, g)
<1> DEFINE hs == MethodHandles
           c == Guarded(cell, g)
<1>1. g \in Guards /\ g # None /\ g \in Handle /\ Solo(g) = {g}
  BY ConstantsAssumption DEF FreeCells, Handle, Solo
<1>2. Counted(c, hs \cup {g}, g) /\ g \notin hs
  BY CellMade DEF IInv, CellsHeld
<1>3. c \in [Guards -> Cells]
  BY <1>1, GuardedCells DEF IInv
<1>4. CASE object = "none"
  <2>1. Counted(Destroyed(c, g), (hs \cup {g}) \ Solo(g), g)
    <3> HIDE DEF hs, c
    <3> QED BY <1>1, <1>2, <1>3, MethodDropped
  <2>2. (hs \cup {g}) \ Solo(g) = hs
    BY <1>1, <1>2
  <2> QED BY <1>1, <1>2, <1>4, <2>1, <2>2 DEF CancelAndSchedule, CellsHeld
<1>5. CASE object # "none"
  <2> DEFINE e == [timeout |-> t, guard |-> g]
  <2>1. e \in EventType /\ e.guard = g /\ events \in Seq(EventType)
    BY <1>1 DEF EventType, IInv, TypeOK, QueuesTypeOK
  <2>2. g \notin HandlesOf(events) /\ Once(events)
    BY <1>2, HandlesPlaced DEF IInv, CellsHeld, FivePlaces
  <2>3. HandlesOf(Append(events, e)) = HandlesOf(events) \cup {g} /\ Once(Append(events, e))
    <3> HIDE DEF e
    <3> QED BY <1>1, <2>1, <2>2, Queued
  <2> QED BY <1>1, <1>2, <1>5, <2>3 DEF CancelAndSchedule
<1> QED BY <1>4, <1>5

\* An object that is deleted drops what it and its events hold.
LEMMA DeletedHeld ==
  ASSUME IInv, CellsHeld, NEW c \in [Guards -> Cells], NEW r,
         Counted(c, MethodHandles, r), DeleteObject(c)
  PROVE  /\ Solo(next') = {} /\ HandlesOf(events') = {} /\ Once(events)'
         /\ Counted(cell', HandlesOf(tasks) \cup Solo(thold) \cup Solo(ohold), r)
<1>1. ObjectHandles = Solo(next) \cup HandlesOf(events)
  <2>1. ASSUME NEW i \in DOMAIN events PROVE events[i].guard # None
    <3>1. events[i] \in EventType
      BY <2>1, ElementOfSeq, LenProperties DEF IInv, TypeOK, QueuesTypeOK
    <3> QED BY <3>1, ConstantsAssumption DEF EventType
  <2> QED BY <2>1 DEF ObjectHandles, HandlesOf, Solo
<1>2. /\ ObjectHandles \subseteq MethodHandles
      /\ MethodHandles \ ObjectHandles = HandlesOf(tasks) \cup Solo(thold) \cup Solo(ohold)
  BY <1>1, HandlesPlaced DEF IInv, CellsHeld, Apart, Disjoint, FivePlaces
<1>3. Counted(AllDestroyed(c, ObjectHandles), MethodHandles \ ObjectHandles, r)
  BY <1>2, AllDropped
<1>4. next' = None /\ events' = <<>> /\ cell' = AllDestroyed(c, ObjectHandles)
  BY DEF DeleteObject
<1>5. DOMAIN events' = {}
  BY <1>4
<1>6. HandlesOf(events') = {} /\ Once(events)'
  BY <1>5 DEF HandlesOf, Once
<1> QED BY <1>2, <1>3, <1>4, <1>6 DEF Solo

-----------------------------------------------------------------------------
\* The owner's calls keep the handles counted.
LEMMA OwnerCallHeld == IInv /\ IInv' /\ CellsHeld /\ OwnerCall => CellsHeld'
<1> SUFFICES ASSUME IInv, IInv', CellsHeld, OwnerCall PROVE CellsHeld'
  OBVIOUS
<1> DEFINE N == Solo(next)
           E == HandlesOf(events)
           T == HandlesOf(tasks)
           W == Solo(thold)
           O == Solo(ohold)
<1>t. /\ TypeOK /\ cell \in [Guards -> Cells] /\ running \in Handle
      /\ Counted(cell, MethodHandles, running) /\ Once(events) /\ Once(tasks)
      /\ IdleHoldNone
  BY DEF IInv, CellsHeld, TypeOK, OwnerTypeOK, SharedTypeOK
<1>m. MethodHandles = N \cup E \cup T \cup W \cup O /\ Disjoint(N, E, T, W, O)
  BY <1>t, HandlesPlaced DEF FivePlaces, CellsHeld, Apart
<1>1. ASSUME NEW t \in Timeouts, NEW r \in Modes, NEW g \in FreeCells, Start(t, r, g)
      PROVE  CellsHeld'
  <2>1. t \in Nat /\ CancelAndSchedule(t, g)
    BY <1>1, ConstantsAssumption DEF Start, DoStart
  <2>2. /\ running' = g /\ g \notin MethodHandles /\ Once(events)' /\ g # None
        /\ \/ HandlesOf(events') = E /\ Counted(cell', MethodHandles, g)
           \/ HandlesOf(events') = E \cup {g} /\ Counted(cell', MethodHandles \cup {g}, g)
    BY <2>1, ScheduledHeld
  <2>3. UNCHANGED <<next, tasks, thold, ohold, owner, thread>>
    BY <1>1 DEF Start, DoStart, threadVars
  <2>4. Apart'
    BY <1>m, <2>2, <2>3 DEF Apart, Disjoint
  <2>5. Once(tasks)' /\ IdleHoldNone'
    BY <1>t, <2>3 DEF IdleHoldNone
  <2>6. Counted(cell', N \cup HandlesOf(events') \cup T \cup W \cup O, running')
    <3>1. N \cup (E \cup {g}) \cup T \cup W \cup O = MethodHandles \cup {g}
      BY <1>m
    <3> QED BY <1>m, <2>2, <3>1
  <2> QED BY <2>2, <2>3, <2>4, <2>5, <2>6, Shown
<1>2. CASE Cancel
  <2>1. UNCHANGED <<next, events, tasks, thold, ohold, owner, thread>> /\ running' = None
    BY <1>2 DEF Cancel, threadVars, queueVars
  <2>2. Counted(cell', MethodHandles, running')
    BY <1>2, <1>t, RunningDropped DEF Cancel
  <2>3. Apart' /\ Once(events)' /\ Once(tasks)' /\ IdleHoldNone'
    BY <1>t, <1>m, <2>1 DEF Apart, IdleHoldNone
  <2> QED BY <1>m, <2>1, <2>2, <2>3, Shown
<1>3. CASE DestroyTimer
  <2> DEFINE c == Destroyed(cell, running)
  <2>1. /\ UNCHANGED <<tasks, thold, ohold, thread>> /\ running' = None
        /\ owner = "idle" /\ owner' = "gone"
    BY <1>3 DEF DestroyTimer
  <2>2. Counted(c, MethodHandles, None) /\ c \in [Guards -> Cells]
    BY <1>t, RunningDropped, DestroyedCells
  <2>3. Once(tasks)' /\ IdleHoldNone'
    BY <1>t, <2>1 DEF IdleHoldNone
  <2>4. CASE cell' = c /\ UNCHANGED <<next, events>>
    <3>1. Apart' /\ Once(events)'
      BY <1>t, <1>m, <2>1, <2>4 DEF Apart
    <3> QED BY <1>m, <2>1, <2>2, <2>3, <2>4, <3>1, Shown
  <2>5. CASE DeleteObject(c)
    <3>1. /\ Solo(next') = {} /\ HandlesOf(events') = {} /\ Once(events)'
          /\ Counted(cell', T \cup W \cup O, None)
      <4> HIDE DEF c
      <4> QED BY <2>2, <2>5, DeletedHeld
    <3>2. Apart'
      BY <1>m, <2>1, <3>1 DEF Apart, Disjoint
    <3>3. Solo(next') \cup HandlesOf(events') \cup T \cup W \cup O = T \cup W \cup O
      BY <3>1
    <3> QED BY <2>1, <2>3, <3>1, <3>2, <3>3, Shown
  <2> QED BY <1>3, <2>4, <2>5 DEF DestroyTimer
<1> QED BY <1>1, <1>2, <1>3 DEF OwnerCall

\* The tasks queued to the owner do.
LEMMA OwnerTaskHeld == IInv /\ IInv' /\ CellsHeld /\ OwnerTask => CellsHeld'
<1> SUFFICES ASSUME IInv, IInv', CellsHeld, OwnerTask PROVE CellsHeld'
  OBVIOUS
<1> DEFINE N == Solo(next)
           E == HandlesOf(events)
           T == HandlesOf(tasks)
           W == Solo(thold)
           O == Solo(ohold)
<1>t. /\ TypeOK /\ cell \in [Guards -> Cells] /\ running \in Handle
      /\ ohold \in Handle /\ next \in Handle /\ thold \in Handle
      /\ tasks \in Seq(TaskType) /\ events \in Seq(EventType)
      /\ Counted(cell, MethodHandles, running) /\ Once(events) /\ Once(tasks)
      /\ IdleHoldNone
  BY DEF IInv, CellsHeld, TypeOK, OwnerTypeOK, SharedTypeOK, ThreadTypeOK, QueuesTypeOK
<1>m. MethodHandles = N \cup E \cup T \cup W \cup O /\ Disjoint(N, E, T, W, O)
  BY <1>t, HandlesPlaced DEF FivePlaces, CellsHeld, Apart
<1> DEFINE h == Head(tasks).guard
<1>h. ASSUME tasks # <<>>
      PROVE  /\ h \in Handle /\ Solo(h) \subseteq T
             /\ HandlesOf(Tail(tasks)) = T \ Solo(h) /\ Once(Tail(tasks))
             /\ (\A i \in DOMAIN Tail(tasks) :
                   Tail(tasks)[i].kind = "adjust" => Tail(tasks)[i].guard = None)
             /\ (Head(tasks).kind = "adjust" => h = None)
  <2>1. Head(tasks) \in TaskType
    BY <1>h, <1>t, HeadTail
  <2>2. /\ Solo(h) \subseteq T /\ HandlesOf(Tail(tasks)) = T \ Solo(h) /\ Once(Tail(tasks))
    BY <1>h, <1>t, Taken
  <2>3. /\ Len(tasks) \in Nat /\ Len(tasks) > 0 /\ DOMAIN tasks = 1..Len(tasks)
        /\ DOMAIN Tail(tasks) = 1..(Len(tasks) - 1) /\ Head(tasks) = tasks[1]
        /\ \A i \in DOMAIN Tail(tasks) : Tail(tasks)[i] = tasks[i + 1]
    BY <1>h, <1>t, HeadTailProperties, LenProperties, EmptySeq
  <2>4. \A i \in DOMAIN Tail(tasks) : i + 1 \in DOMAIN tasks
    BY <2>3
  <2>5. 1 \in DOMAIN tasks
    BY <2>3
  <2> QED BY <1>t, <2>1, <2>2, <2>3, <2>4, <2>5 DEF TaskType, IdleHoldNone
<1>0. CASE SetNext
  <2>1. UNCHANGED <<cell, running, owner, ohold, next, thread, thold, tasks, events>>
    BY <1>0 DEF SetNext, threadVars, queueVars
  <2>2. Apart' /\ Once(events)' /\ Once(tasks)' /\ IdleHoldNone'
    BY <1>t, <1>m, <2>1 DEF Apart, IdleHoldNone
  <2> QED BY <1>t, <1>m, <2>1, <2>2, Shown
<1>1. CASE RunStaleFire
  <2>1. /\ tasks # <<>> /\ tasks' = Tail(tasks) /\ cell' = Destroyed(cell, h)
        /\ UNCHANGED <<next, events, thold, ohold, owner, thread, running>>
    BY <1>1 DEF RunStaleFire, ownerVars, threadVars
  <2>2. Counted(cell', MethodHandles \ Solo(h), running')
    BY <1>t, <1>m, <1>h, <2>1, MethodDropped
  <2>3. MethodHandles \ Solo(h) = N \cup E \cup HandlesOf(tasks') \cup W \cup O
    BY <1>m, <1>h, <2>1 DEF Disjoint
  <2>4. Apart' /\ Once(events)' /\ Once(tasks)' /\ IdleHoldNone'
    BY <1>t, <1>m, <1>h, <2>1 DEF Apart, Disjoint, IdleHoldNone
  <2> QED BY <2>1, <2>2, <2>3, <2>4, Shown
<1>2. CASE EndFire
  <2>1. /\ ohold' = None /\ owner' = "idle" /\ cell' = Destroyed(cell, ohold)
        /\ UNCHANGED <<next, events, tasks, thold, thread, running>>
    BY <1>2 DEF EndFire, queueVars, threadVars
  <2>2. Counted(cell', MethodHandles \ O, running')
    BY <1>t, <1>m, <2>1, MethodDropped
  <2>3. MethodHandles \ O = N \cup E \cup T \cup W \cup Solo(ohold') /\ Solo(ohold') = {}
    BY <1>m, <2>1 DEF Disjoint, Solo
  <2>4. Apart' /\ Once(events)' /\ Once(tasks)' /\ IdleHoldNone'
    BY <1>t, <1>m, <2>1, <2>3 DEF Apart, Disjoint, IdleHoldNone
  <2> QED BY <2>1, <2>2, <2>3, <2>4, Shown
<1>3. ASSUME NEW g \in FreeCells, RunFire(g)
      PROVE  CellsHeld'
  <2>1. /\ tasks # <<>> /\ tasks' = Tail(tasks) /\ owner = "idle" /\ owner' = "callback"
        /\ ohold' = h /\ UNCHANGED <<next, thold, thread>>
    BY <1>3 DEF RunFire, threadVars
  <2>2. O = {}
    BY <1>t, <2>1 DEF IdleHoldNone, Solo
  <2>3. Once(tasks)' /\ IdleHoldNone'
    BY <1>t, <1>h, <2>1 DEF IdleHoldNone
  <2>4. /\ HandlesOf(tasks') = T \ Solo(h) /\ Solo(h) \subseteq T
        /\ Solo(ohold') = Solo(h)
    BY <1>h, <2>1
  <2>5. CASE DoStart(timeout, repeat, g)
    <3>1. timeout \in Nat /\ CancelAndSchedule(timeout, g)
      BY <1>t, <2>5 DEF DoStart, TypeOK, OwnerTypeOK
    <3>2. /\ running' = g /\ g \notin MethodHandles /\ Once(events)' /\ g # None
          /\ \/ HandlesOf(events') = E /\ Counted(cell', MethodHandles, g)
             \/ HandlesOf(events') = E \cup {g} /\ Counted(cell', MethodHandles \cup {g}, g)
      BY <3>1, ScheduledHeld
    <3>3. Apart'
      BY <1>m, <2>1, <2>2, <2>4, <3>2 DEF Apart, Disjoint
    <3>4. N \cup E \cup HandlesOf(tasks') \cup W \cup Solo(ohold') = MethodHandles
      BY <1>m, <2>2, <2>4
    <3>5. N \cup (E \cup {g}) \cup HandlesOf(tasks') \cup W \cup Solo(ohold')
            = MethodHandles \cup {g}
      BY <3>4
    <3> QED BY <2>1, <2>3, <3>2, <3>3, <3>4, <3>5, Shown
  <2>6. CASE \/ UNCHANGED <<cell, running, events>>
             \/ cell' = Destroyed(cell, running) /\ running' = None /\ UNCHANGED events
    <3>1. UNCHANGED events /\ Counted(cell', MethodHandles, running')
      BY <1>t, <2>6, RunningDropped
    <3>2. N \cup E \cup HandlesOf(tasks') \cup W \cup Solo(ohold') = MethodHandles
      BY <1>m, <2>2, <2>4
    <3>3. Apart' /\ Once(events)'
      BY <1>t, <1>m, <2>1, <2>2, <2>4, <3>1 DEF Apart, Disjoint
    <3> QED BY <2>1, <2>3, <3>1, <3>2, <3>3, Shown
  <2> QED BY <1>3, <2>5, <2>6 DEF RunFire
<1>4. ASSUME NEW g \in FreeCells, RunAdjust(g)
      PROVE  CellsHeld'
  <2>1. /\ tasks # <<>> /\ tasks' = Tail(tasks) /\ Head(tasks).kind = "adjust"
        /\ UNCHANGED <<next, thold, ohold, owner, thread>>
    BY <1>4 DEF RunAdjust, threadVars
  <2>2. HandlesOf(tasks') = T /\ Once(tasks)' /\ IdleHoldNone'
    BY <1>t, <1>h, <2>1 DEF IdleHoldNone, Solo
  <2>3. CASE CancelAndSchedule(due, g)
    <3>1. due \in Nat
      BY <1>t DEF TypeOK, OwnerTypeOK
    <3>2. /\ running' = g /\ g \notin MethodHandles /\ Once(events)' /\ g # None
          /\ \/ HandlesOf(events') = E /\ Counted(cell', MethodHandles, g)
             \/ HandlesOf(events') = E \cup {g} /\ Counted(cell', MethodHandles \cup {g}, g)
      BY <2>3, <3>1, ScheduledHeld
    <3>3. Apart'
      BY <1>m, <2>1, <2>2, <3>2 DEF Apart, Disjoint
    <3>4. N \cup (E \cup {g}) \cup T \cup W \cup O = MethodHandles \cup {g}
      BY <1>m
    <3> QED BY <1>m, <2>1, <2>2, <3>2, <3>3, <3>4, Shown
  <2>4. CASE UNCHANGED <<cell, running, events>>
    <3>1. Apart' /\ Once(events)'
      BY <1>t, <1>m, <2>1, <2>2, <2>4 DEF Apart
    <3> QED BY <1>t, <1>m, <2>1, <2>2, <2>4, <3>1, Shown
  <2> QED BY <1>4, <2>3, <2>4 DEF RunAdjust
<1> QED BY <1>0, <1>1, <1>2, <1>3, <1>4 DEF OwnerTask

\* The timer thread does.
LEMMA ThreadStepHeld == IInv /\ IInv' /\ CellsHeld /\ ThreadStep => CellsHeld'
<1> SUFFICES ASSUME IInv, IInv', CellsHeld, ThreadStep PROVE CellsHeld'
  OBVIOUS
<1> DEFINE N == Solo(next)
           E == HandlesOf(events)
           T == HandlesOf(tasks)
           W == Solo(thold)
           O == Solo(ohold)
<1>t. /\ TypeOK /\ cell \in [Guards -> Cells] /\ running \in Handle
      /\ ohold \in Handle /\ next \in Handle /\ thold \in Handle
      /\ tasks \in Seq(TaskType) /\ events \in Seq(EventType)
      /\ Counted(cell, MethodHandles, running) /\ Once(events) /\ Once(tasks)
      /\ IdleHoldNone
  BY DEF IInv, CellsHeld, TypeOK, OwnerTypeOK, SharedTypeOK, ThreadTypeOK, QueuesTypeOK
<1>m. MethodHandles = N \cup E \cup T \cup W \cup O /\ Disjoint(N, E, T, W, O)
  BY <1>t, HandlesPlaced DEF FivePlaces, CellsHeld, Apart
<1>o. UNCHANGED <<running, ohold, owner>>
  BY DEF ThreadStep, CallDelayed, CallNow, CheckGuard, PostFire, TakeAdjust,
         TakeDelete, FinishThread, ownerVars
<1>1. CASE CallDelayed
  <2> DEFINE h == Head(events).guard
  <2>1. /\ events # <<>> /\ events' = Tail(events) /\ cell' = Destroyed(cell, next)
        /\ thread = "idle" /\ UNCHANGED tasks
    BY <1>1 DEF CallDelayed
  <2>2. /\ HandlesOf(events') = E \ Solo(h) /\ Solo(h) \subseteq E /\ Once(events)'
    BY <1>t, <2>1, Taken
  <2>3. W = {} /\ Solo(None) = {}
    BY <1>t, <2>1 DEF IdleHoldNone, Solo
  <2>4. Counted(cell', MethodHandles \ N, running')
    BY <1>o, <1>t, <1>m, <2>1, MethodDropped
  <2>5. \/ Solo(next') = Solo(h) /\ Solo(thold') = {}
        \/ Solo(next') = {} /\ Solo(thold') = Solo(h)
    BY <1>1, <2>3 DEF CallDelayed
  <2>6. Solo(next') \cup HandlesOf(events') \cup T \cup Solo(thold') \cup O
          = MethodHandles \ N
    BY <1>m, <2>2, <2>3, <2>5 DEF Disjoint
  <2>7. Apart'
    BY <1>o, <1>m, <2>1, <2>2, <2>3, <2>5 DEF Apart, Disjoint
  <2>8. Once(tasks)' /\ IdleHoldNone'
    BY <1>1, <1>o, <1>t, <2>1 DEF IdleHoldNone, CallDelayed
  <2> QED BY <1>o, <2>1, <2>2, <2>4, <2>6, <2>7, <2>8, Shown
<1>2. CASE CallNow
  <2>1. /\ thold' = next /\ next' = None /\ thread = "idle" /\ thread' = "check"
        /\ UNCHANGED <<cell, events, tasks>>
    BY <1>2 DEF CallNow, queueVars
  <2>2. W = {} /\ Solo(next') = {} /\ Solo(thold') = N
    BY <1>t, <2>1 DEF IdleHoldNone, Solo
  <2>3. Apart' /\ Once(events)' /\ Once(tasks)' /\ IdleHoldNone'
    BY <1>o, <1>t, <1>m, <2>1, <2>2 DEF Apart, Disjoint, IdleHoldNone
  <2>4. Solo(next') \cup E \cup T \cup Solo(thold') \cup O = MethodHandles
    BY <1>m, <2>2
  <2> QED BY <1>o, <1>t, <2>1, <2>3, <2>4, Shown
<1>3. CASE CheckGuard
  <2>1. UNCHANGED <<next, events, tasks>>
    BY <1>3 DEF CheckGuard, queueVars
  <2>2. CASE thread' = "post" /\ UNCHANGED <<cell, thold>>
    <3>1. Apart' /\ Once(events)' /\ Once(tasks)' /\ IdleHoldNone'
      BY <1>o, <1>t, <1>m, <2>1, <2>2 DEF Apart, IdleHoldNone
    <3> QED BY <1>o, <1>t, <1>m, <2>1, <2>2, <3>1, Shown
  <2>3. CASE cell' = Destroyed(cell, thold) /\ thread' = "idle" /\ thold' = None
    <3>1. Counted(cell', MethodHandles \ W, running') /\ Solo(thold') = {}
      BY <1>o, <1>t, <1>m, <2>3, MethodDropped DEF Solo
    <3>2. N \cup E \cup T \cup Solo(thold') \cup O = MethodHandles \ W
      BY <1>m, <3>1 DEF Disjoint
    <3>3. Apart' /\ Once(events)' /\ Once(tasks)' /\ IdleHoldNone'
      BY <1>o, <1>t, <1>m, <2>1, <2>3, <3>1 DEF Apart, Disjoint, IdleHoldNone
    <3> QED BY <1>o, <2>1, <3>1, <3>2, <3>3, Shown
  <2> QED BY <1>3, <2>2, <2>3 DEF CheckGuard
<1>a. ASSUME NEW e \in TaskType, tasks' = Append(tasks, e), e.guard \notin T,
             e.kind = "adjust" => e.guard = None
      PROVE  /\ HandlesOf(tasks') = T \cup Solo(e.guard) /\ Once(tasks)'
             /\ \A i \in DOMAIN tasks' : tasks'[i].kind = "adjust" => tasks'[i].guard = None
  <2>1. HandlesOf(tasks') = T \cup Solo(e.guard) /\ Once(tasks)'
    BY <1>a, <1>t, Queued
  <2>2. /\ Len(tasks) \in Nat /\ DOMAIN tasks = 1..Len(tasks)
        /\ DOMAIN tasks' = 1..(Len(tasks) + 1) /\ tasks'[Len(tasks) + 1] = e
        /\ \A i \in 1..Len(tasks) : tasks'[i] = tasks[i]
    BY <1>a, <1>t, AppendProperties, LenProperties
  <2>3. \A i \in DOMAIN tasks' : i \in DOMAIN tasks \/ i = Len(tasks) + 1
    BY <2>2
  <2> QED BY <1>a, <1>t, <2>1, <2>2, <2>3 DEF IdleHoldNone
<1>4. CASE PostFire
  <2>1. /\ tasks' = Append(tasks, Fire(thold)) /\ thold' = None /\ thread' = "idle"
        /\ UNCHANGED <<cell, next, events>>
    BY <1>4 DEF PostFire
  <2>2. thold \notin T /\ Fire(thold) \in TaskType /\ Fire(thold).guard = thold
        /\ Fire(thold).kind = "fire" /\ Solo(thold') = {}
    BY <1>t, <1>m, <2>1 DEF Fire, TaskType, Solo, HandlesOf, Disjoint
  <2>3. /\ HandlesOf(tasks') = T \cup W /\ Once(tasks)'
        /\ \A i \in DOMAIN tasks' : tasks'[i].kind = "adjust" => tasks'[i].guard = None
    BY <1>a, <2>1, <2>2
  <2>4. Apart' /\ Once(events)' /\ IdleHoldNone'
    BY <1>o, <1>t, <1>m, <2>1, <2>2, <2>3 DEF Apart, Disjoint, IdleHoldNone
  <2>5. N \cup E \cup HandlesOf(tasks') \cup Solo(thold') \cup O = MethodHandles
    BY <1>m, <2>2, <2>3
  <2> QED BY <1>o, <1>t, <2>1, <2>3, <2>4, <2>5, Shown
<1>5. CASE TakeAdjust
  <2>1. UNCHANGED <<cell, next, events, thold, thread>>
    BY <1>5 DEF TakeAdjust, threadVars
  <2>2. /\ HandlesOf(tasks') = T /\ Once(tasks)'
        /\ \A i \in DOMAIN tasks' : tasks'[i].kind = "adjust" => tasks'[i].guard = None
    <3>1. CASE tasks' = tasks
      BY <1>t, <3>1 DEF IdleHoldNone
    <3>2. CASE tasks' = Append(tasks, Adjust)
      <4>1. Adjust \in TaskType /\ Adjust.guard = None /\ None \notin T /\ Solo(None) = {}
        BY <1>t DEF Adjust, TaskType, Handle, HandlesOf, Solo
      <4> QED BY <1>a, <3>2, <4>1
    <3> QED BY <1>5, <3>1, <3>2 DEF TakeAdjust
  <2>3. Apart' /\ Once(events)' /\ IdleHoldNone'
    BY <1>o, <1>t, <1>m, <2>1, <2>2 DEF Apart, IdleHoldNone
  <2> QED BY <1>o, <1>t, <1>m, <2>1, <2>2, <2>3, Shown
<1>6. ASSUME DeleteObject(cell), UNCHANGED <<tasks, thold>>, thold = None
      PROVE  CellsHeld'
  <2>1. /\ Solo(next') = {} /\ HandlesOf(events') = {} /\ Once(events)'
        /\ Counted(cell', T \cup W \cup O, running)
    BY <1>t, <1>6, DeletedHeld
  <2>2. Apart' /\ Once(tasks)' /\ IdleHoldNone'
    BY <1>o, <1>t, <1>m, <1>6, <2>1 DEF Apart, Disjoint, IdleHoldNone
  <2>3. Solo(next') \cup HandlesOf(events') \cup T \cup W \cup O = T \cup W \cup O
    BY <2>1
  <2> QED BY <1>o, <1>6, <2>1, <2>2, <2>3, Shown
<1>7. CASE TakeDelete
  BY <1>6, <1>7, <1>t DEF TakeDelete, IdleHoldNone
<1>8. CASE FinishThread
  <2>1. thold = None /\ UNCHANGED <<tasks, thold>>
    BY <1>8, <1>t DEF FinishThread, IdleHoldNone
  <2>2. CASE UNCHANGED <<low, cell, object, next, qt, events>>
    <3>1. Apart' /\ Once(events)' /\ Once(tasks)' /\ IdleHoldNone'
      BY <1>o, <1>t, <1>m, <2>1, <2>2 DEF Apart, IdleHoldNone
    <3> QED BY <1>o, <1>t, <1>m, <2>1, <2>2, <3>1, Shown
  <2> QED BY <1>6, <1>8, <2>1, <2>2 DEF FinishThread
<1> QED BY <1>1, <1>2, <1>3, <1>4, <1>5, <1>7, <1>8 DEF ThreadStep

\* The clocks, the environment and a step of nothing move no handle.
LEMMA OutsideHeld ==
  IInv /\ IInv' /\ CellsHeld
    /\ ((\E d \in Jumps : CheckLocalTime(d)) \/ Tick \/ EnvStep \/ UNCHANGED vars)
    => CellsHeld'
<1> SUFFICES ASSUME CellsHeld,
                    (\E d \in Jumps : CheckLocalTime(d)) \/ Tick \/ EnvStep \/ UNCHANGED vars
             PROVE  CellsHeld'
  OBVIOUS
<1>1. UNCHANGED <<cell, running, owner, ohold, next, thread, thold, tasks, events>>
  BY DEF CheckLocalTime, Tick, EnvStep, vars, ownerVars, threadVars, queueVars
<1> QED BY <1>1 DEF CellsHeld, Apart, Once, IdleHoldNone, MethodHandles,
                    ObjectHandles, TaskHandles, Counted

-----------------------------------------------------------------------------
\* So the handles are counted from the first state on.
LEMMA HandlesCounted == Spec => []HInv
<1>1. HInv /\ IInv' /\ [Next]_vars => HInv'
  BY OwnerCallHeld, OwnerTaskHeld, ThreadStepHeld, OutsideHeld DEF HInv, Next
<1>2. Init => HInv
  BY InitIInv, InitCellsHeld DEF HInv
<1> QED BY <1>1, <1>2, Invariance, PTL DEF Spec

\* The handles of a cell are counted in every state of every instance: none
\* points to a cell that is gone, no cell is left with nobody to drop it, and
\* its flag is up exactly while _running and one method hold it.
THEOREM GuardsCounted == Spec => []GuardCellsSafe
<1>1. HInv => GuardCellsSafe
  <2> SUFFICES ASSUME HInv PROVE GuardCellsSafe
    OBVIOUS
  <2>1. MethodHandles \cup ({running} \ {None}) \subseteq Guards
    <3>1. running \in Handle /\ next \in Handle /\ thold \in Handle /\ ohold \in Handle
      BY DEF HInv, IInv, TypeOK, OwnerTypeOK, ThreadTypeOK
    <3>q. tasks \in Seq(TaskType) /\ events \in Seq(EventType)
      BY DEF HInv, IInv, TypeOK, QueuesTypeOK
    <3>2. ASSUME NEW i \in DOMAIN tasks PROVE tasks[i].guard \in Handle
      <4>1. tasks[i] \in TaskType
        BY <3>q, <3>2, ElementOfSeq, LenProperties
      <4> QED BY <4>1 DEF TaskType
    <3>3. ASSUME NEW i \in DOMAIN events PROVE events[i].guard \in Guards
      <4>1. events[i] \in EventType
        BY <3>q, <3>3, ElementOfSeq, LenProperties
      <4> QED BY <4>1 DEF EventType
    <3> QED BY <3>1, <3>2, <3>3 DEF MethodHandles, ObjectHandles, TaskHandles, Handle
  <2> QED BY <2>1 DEF HInv, CellsHeld, Counted, GuardCellsSafe
<1> QED BY <1>1, HandlesCounted, PTL
-----------------------------------------------------------------------------
(* Delays.  Wherever the method of the current start is, it cannot reach   *)
(* the owner before the timeout of the start is over: the event that       *)
(* carries it asks for no less than what is left of that, nor does the Qt  *)
(* timer have less to wait, and once it has left the Qt timer nothing is   *)
(* left.  Nor is there less until _next, from which an adjust reschedules. *)

Waits ==
  running # None =>
    /\ \A i \in DOMAIN events : events[i].guard = running => early <= events[i].timeout
    /\ next = running => qt # None /\ early <= qt
    /\ running \in Solo(thold) \cup HandlesOf(tasks) => early = 0

NextIsLater == early <= IF starting THEN timeout ELSE due

\* cancelAndSchedule(): the new cell is nowhere but in the event, which is given
\* the whole delay.
LEMMA ScheduledWaits ==
  ASSUME IInv, CellsHeld, NEW g \in FreeCells, NEW t \in Nat, CancelAndSchedule(t, g),
         early' \in Nat, early' <= t, UNCHANGED <<next, thold>>, HandlesOf(tasks') \subseteq HandlesOf(tasks)
  PROVE  Waits'
<1>1. running' = g /\ g \notin MethodHandles /\ g # None
  BY ScheduledHeld
<1>2. g # next /\ g \notin Solo(thold) \cup HandlesOf(tasks) \cup HandlesOf(events)
  BY <1>1, HandlesPlaced DEF IInv, FivePlaces, Solo
<1>3. \A i \in DOMAIN events : events[i].guard # g
  BY <1>1, <1>2 DEF HandlesOf
<1>4. \A i \in DOMAIN events' : events'[i].guard = g => events'[i].timeout = t
  <2> DEFINE e == [timeout |-> t, guard |-> g]
  <2>1. CASE events' = events
    BY <1>3, <2>1
  <2>2. CASE events' = Append(events, e)
    <3>1. events \in Seq(EventType) /\ e \in EventType
      BY DEF EventType, IInv, TypeOK, QueuesTypeOK, FreeCells
    <3>2. e.timeout = t
      OBVIOUS
    <3>3. /\ Len(events) \in Nat /\ DOMAIN events = 1..Len(events)
          /\ DOMAIN events' = 1..(Len(events) + 1) /\ events'[Len(events) + 1] = e
          /\ \A i \in 1..Len(events) : events'[i] = events[i]
      <4> HIDE DEF e
      <4> QED BY <2>2, <3>1, AppendProperties, LenProperties
    <3> HIDE DEF e
    <3>4. \A i \in DOMAIN events' : i \in DOMAIN events \/ i = Len(events) + 1
      BY <3>3
    <3> QED BY <1>3, <3>2, <3>3, <3>4
  <2> QED BY <2>1, <2>2 DEF CancelAndSchedule
<1> QED BY <1>1, <1>2, <1>4 DEF Waits

\* What the owner does keeps the delays.
LEMMA OwnerWaits ==
  ASSUME IInv, CellsHeld, Waits, NextIsLater, OwnerCall \/ OwnerTask
  PROVE  Waits'
<1>q. /\ tasks \in Seq(TaskType) /\ Once(tasks) /\ timeout \in Nat /\ due \in Nat
      /\ early \in Nat
  BY DEF IInv, TypeOK, QueuesTypeOK, OwnerTypeOK, BoundsTypeOK, CellsHeld
<1>1. ASSUME tasks # <<>>
      PROVE  /\ HandlesOf(Tail(tasks)) = HandlesOf(tasks) \ Solo(Head(tasks).guard)
             /\ Solo(Head(tasks).guard) \subseteq HandlesOf(tasks)
  BY <1>q, <1>1, Taken
<1>2. ASSUME NEW t \in Timeouts, NEW r \in Modes, NEW g \in FreeCells, Start(t, r, g)
      PROVE  Waits'
  <2>1. t \in Nat /\ CancelAndSchedule(t, g) /\ early' = t
    BY <1>2, ConstantsAssumption DEF Start, DoStart
  <2>2. UNCHANGED <<next, thold, tasks>>
    BY <1>2 DEF Start, threadVars
  <2> QED BY <2>1, <2>2, ScheduledWaits
<1>3. CASE Cancel \/ DestroyTimer
  BY <1>3 DEF Cancel, DestroyTimer, Waits
<1>8. CASE SetNext
  BY <1>8 DEF SetNext, Waits, threadVars, queueVars, history
<1>4. CASE RunStaleFire
  <2>1. /\ HandlesOf(tasks') \subseteq HandlesOf(tasks)
        /\ UNCHANGED <<running, early, events, next, qt, thold>>
    BY <1>1, <1>4 DEF RunStaleFire, ownerVars, threadVars, history
  <2> QED BY <2>1 DEF Waits
<1>5. CASE EndFire
  BY <1>5 DEF EndFire, Waits, threadVars, queueVars, history
<1>6. ASSUME NEW g \in FreeCells, RunFire(g)
      PROVE  Waits'
  <2>1. /\ tasks # <<>> /\ tasks' = Tail(tasks) /\ UNCHANGED <<next, qt, thold>>
    BY <1>6 DEF RunFire, threadVars
  <2>2. HandlesOf(tasks') = HandlesOf(tasks) \ Solo(Head(tasks).guard)
    BY <1>1, <2>1
  <2>3. CASE DoStart(timeout, repeat, g)
    BY <1>q, <2>1, <2>2, <2>3, ScheduledWaits DEF DoStart
  <2>4. CASE UNCHANGED <<running, events>>
    <3>1. running # None /\ running = Head(tasks).guard
      BY <1>6, Fired
    <3>2. running \in HandlesOf(tasks)
      BY <1>1, <2>1, <3>1 DEF Solo
    <3>3. next # running /\ running \notin HandlesOf(events) \cup Solo(thold) \cup HandlesOf(tasks')
      BY <2>2, <3>1, <3>2 DEF CellsHeld, Apart, Disjoint, Solo
    <3>4. \A i \in DOMAIN events : events[i].guard # running
      BY <3>1, <3>3 DEF HandlesOf
    <3> QED BY <2>1, <2>4, <3>3, <3>4 DEF Waits
  <2>5. CASE running' = None
    BY <2>5 DEF Waits
  <2> QED BY <1>6, <2>3, <2>4, <2>5 DEF RunFire
<1>7. ASSUME NEW g \in FreeCells, RunAdjust(g)
      PROVE  Waits'
  <2>1. /\ HandlesOf(tasks') \subseteq HandlesOf(tasks)
        /\ UNCHANGED <<early, next, qt, thold>>
    BY <1>1, <1>7 DEF RunAdjust, threadVars, history
  <2>2. CASE CancelAndSchedule(due, g)
    <3>1. early <= due
      BY <1>7 DEF RunAdjust, NextIsLater
    <3> QED BY <1>q, <2>1, <2>2, <3>1, ScheduledWaits
  <2>3. CASE UNCHANGED <<running, events>>
    BY <2>1, <2>3 DEF Waits
  <2> QED BY <1>7, <2>2, <2>3 DEF RunAdjust
<1> QED BY <1>2, <1>3, <1>4, <1>5, <1>6, <1>7, <1>8 DEF OwnerCall, OwnerTask

\* What the timer thread does keeps them: the method moves from the event to the
\* Qt timer with the delay of the event, and on when that is over.
LEMMA ThreadWaits ==
  ASSUME IInv, CellsHeld, Waits, ThreadStep
  PROVE  Waits'
<1>q. /\ tasks \in Seq(TaskType) /\ events \in Seq(EventType) /\ early \in Nat
      /\ Once(tasks) /\ thold \in Handle
  BY DEF IInv, TypeOK, QueuesTypeOK, OwnerTypeOK, BoundsTypeOK, ThreadTypeOK, CellsHeld
<1>o. UNCHANGED <<running, early>>
  BY DEF ThreadStep, CallDelayed, CallNow, CheckGuard, PostFire, TakeAdjust,
         TakeDelete, FinishThread, ownerVars, history
<1>d. ASSUME next' = None, events' = <<>>, UNCHANGED <<thold, tasks>>
      PROVE  Waits'
  <2>1. DOMAIN events' = {}
    BY <1>d
  <2> QED BY <1>d, <1>o, <2>1 DEF Waits
<1>1. CASE CallDelayed
  <2>1. /\ events # <<>> /\ events' = Tail(events) /\ UNCHANGED tasks
    BY <1>1 DEF CallDelayed
  <2>2. /\ Len(events) \in Nat /\ Len(events) > 0 /\ DOMAIN events = 1..Len(events)
        /\ DOMAIN events' = 1..(Len(events) - 1) /\ Head(events) = events[1]
        /\ \A i \in DOMAIN events' : events'[i] = events[i + 1]
    BY <1>q, <2>1, HeadTailProperties, LenProperties, EmptySeq
  <2>3. 1 \in DOMAIN events /\ \A i \in DOMAIN events' : i + 1 \in DOMAIN events
    BY <2>2
  <2>4. Head(events).timeout \in Nat
    <3>1. Head(events) \in EventType
      BY <1>q, <2>1, HeadTail
    <3> QED BY <3>1 DEF EventType
  <2>5. CASE next' = Head(events).guard /\ qt' = Head(events).timeout /\ UNCHANGED thold
    BY <1>o, <2>1, <2>2, <2>3, <2>4, <2>5, ConstantsAssumption DEF Waits
  <2>6. CASE /\ Head(events).timeout = 0 /\ next' = None
             /\ thold' = Head(events).guard
    <3>1. running # None /\ running = Head(events).guard => early = 0
      BY <1>q, <2>2, <2>3, <2>6 DEF Waits
    <3> QED BY <1>o, <2>1, <2>2, <2>3, <2>6, <3>1 DEF Waits, Solo
  <2> QED BY <1>1, <2>5, <2>6 DEF CallDelayed
<1>2. CASE CallNow
  <2>1. /\ qt = 0 /\ thold' = next /\ next' = None /\ UNCHANGED <<events, tasks>>
    BY <1>2 DEF CallNow, queueVars
  <2>2. running # None /\ running = next => early = 0
    BY <1>q, <2>1 DEF Waits
  <2> QED BY <1>o, <2>1, <2>2 DEF Waits, Solo
<1>3. CASE CheckGuard
  <2>1. thold' \in {thold, None} /\ UNCHANGED <<next, qt, events, tasks>>
    BY <1>3 DEF CheckGuard, queueVars
  <2> QED BY <1>o, <2>1 DEF Waits, Solo
<1>4. CASE PostFire
  <2>1. /\ tasks' = Append(tasks, Fire(thold)) /\ thold' = None
        /\ UNCHANGED <<next, qt, events>>
    BY <1>4 DEF PostFire
  <2>2. Fire(thold) \in TaskType /\ Fire(thold).guard = thold
    BY <1>q DEF Fire, TaskType
  <2>3. thold \notin HandlesOf(tasks)
    BY DEF CellsHeld, Apart, Disjoint, Solo, HandlesOf
  <2>4. HandlesOf(tasks') = HandlesOf(tasks) \cup Solo(thold)
    BY <1>q, <2>1, <2>2, <2>3, Queued
  <2> QED BY <1>o, <2>1, <2>4 DEF Waits, Solo
<1>5. CASE TakeAdjust
  <2>1. UNCHANGED <<next, qt, events, thold>> /\ tasks' \in {tasks, Append(tasks, Adjust)}
    BY <1>5 DEF TakeAdjust, threadVars
  <2>2. HandlesOf(tasks') = HandlesOf(tasks)
    <3>1. /\ Adjust \in TaskType /\ Adjust.guard = None /\ None \notin HandlesOf(tasks)
          /\ Solo(None) = {}
      BY DEF Adjust, TaskType, Handle, HandlesOf, Solo
    <3>2. HandlesOf(Append(tasks, Adjust)) = HandlesOf(tasks) \cup Solo(None)
      BY <1>q, <3>1, Queued
    <3> QED BY <2>1, <3>1, <3>2
  <2> QED BY <1>o, <2>1, <2>2 DEF Waits
<1>6. CASE TakeDelete
  BY <1>6, <1>d DEF TakeDelete, DeleteObject
<1>7. CASE FinishThread
  <2>1. CASE DeleteObject(cell)
    BY <1>7, <1>d, <2>1 DEF FinishThread, DeleteObject
  <2>2. CASE UNCHANGED <<low, cell, object, next, qt, events>>
    BY <1>7, <1>o, <2>2 DEF FinishThread, Waits
  <2> QED BY <1>7, <2>1, <2>2 DEF FinishThread
<1> QED BY <1>1, <1>2, <1>3, <1>4, <1>5, <1>6, <1>7 DEF ThreadStep

\* The clocks keep them: crl::now() never lags behind the Qt timer, and a sleep
\* only moves it further on.
LEMMA OutsideWaits ==
  ASSUME IInv, Waits,
         (\E d \in Jumps : CheckLocalTime(d)) \/ Tick \/ EnvStep \/ UNCHANGED vars
  PROVE  Waits'
<1>1. UNCHANGED <<running, events, next, thold, tasks>>
  BY DEF CheckLocalTime, Tick, EnvStep, vars, ownerVars, threadVars, queueVars
<1>q. early \in Nat /\ qt \in Nat \cup {None} /\ events \in Seq(EventType)
  BY DEF IInv, TypeOK, QueuesTypeOK, OwnerTypeOK, ThreadTypeOK, BoundsTypeOK
<1>2. \A i \in DOMAIN events : events[i].timeout \in Nat
  <2>1. ASSUME NEW i \in DOMAIN events PROVE events[i].timeout \in Nat
    <3>1. events[i] \in EventType
      BY <1>q, <2>1, ElementOfSeq, LenProperties
    <3> QED BY <3>1 DEF EventType
  <2> QED BY <2>1
<1>3. early' \in Nat /\ early' <= early
  <2>1. ASSUME NEW d \in Jumps, CheckLocalTime(d)
        PROVE  early' \in Nat /\ early' <= early
    BY <1>q, <2>1, ConstantsAssumption DEF CheckLocalTime, Less
  <2>2. CASE Tick
    BY <1>q, <2>2 DEF Tick, Less
  <2>3. CASE EnvStep \/ UNCHANGED vars
    BY <1>q, <2>3 DEF EnvStep, vars, ownerVars, history
  <2> QED BY <2>1, <2>2, <2>3
<1>4. qt # None /\ early <= qt => qt' # None /\ early' <= qt'
  <2>1. CASE Tick
    BY <1>q, <2>1, ConstantsAssumption DEF Tick, Less
  <2>2. CASE UNCHANGED qt
    BY <1>q, <1>3, <2>2
  <2> QED BY <2>1, <2>2 DEF CheckLocalTime, EnvStep, vars, threadVars
<1>5. \A i \in DOMAIN events' :
        events'[i].guard = running' /\ early <= events[i].timeout => early' <= events'[i].timeout
  BY <1>1, <1>2, <1>3, <1>q
<1>6. early = 0 => early' = 0
  BY <1>3
<1> QED BY <1>1, <1>4, <1>5, <1>6 DEF Waits

\* A callback that begins finds nothing left of the timeout.
LEMMA OnTime ==
  ASSUME IInv, CellsHeld, Waits, NEW g \in FreeCells, RunFire(g)
  PROVE  early = 0
<1>1. running # None /\ running = Head(tasks).guard BY Fired
<1>2. Solo(Head(tasks).guard) \subseteq HandlesOf(tasks)
  BY Taken DEF RunFire, IInv, TypeOK, QueuesTypeOK, CellsHeld
<1> QED BY <1>1, <1>2 DEF Waits, Solo

\* What is left until _next, or will be when start() sets it, is no less than what
\* is left of the timeout.
LEMMA NextLater ==
  ASSUME IInv, CellsHeld, Waits, NextIsLater, [Next]_vars
  PROVE  NextIsLater'
<1>q. timeout \in Nat /\ due \in Nat /\ early \in Nat
  BY DEF IInv, TypeOK, OwnerTypeOK, BoundsTypeOK
<1>1. ASSUME NEW t \in Nat, NEW r, NEW g, DoStart(t, r, g) PROVE NextIsLater'
  BY <1>1 DEF DoStart, NextIsLater
<1>2. CASE OwnerCall
  <2>1. ASSUME NEW t \in Timeouts, NEW r \in Modes, NEW g \in FreeCells, Start(t, r, g)
        PROVE  NextIsLater'
    BY <1>1, <2>1, ConstantsAssumption DEF Start
  <2>2. CASE Cancel \/ DestroyTimer
    BY <2>2 DEF Cancel, DestroyTimer, NextIsLater
  <2> QED BY <1>2, <2>1, <2>2 DEF OwnerCall
<1>3. CASE OwnerTask
  <2>1. CASE SetNext BY <2>1 DEF SetNext, NextIsLater, history
  <2>2. CASE RunStaleFire \/ EndFire
    BY <2>2 DEF RunStaleFire, EndFire, NextIsLater, ownerVars, history
  <2>3. ASSUME NEW g \in FreeCells, RunFire(g) PROVE NextIsLater'
    <3>1. early = 0 BY <2>3, OnTime
    <3>2. CASE DoStart(timeout, repeat, g) BY <1>q, <1>1, <3>2
    <3>3. CASE due' = timeout /\ UNCHANGED <<timeout, starting, early>>
      BY <1>q, <3>1, <3>3 DEF NextIsLater
    <3>4. CASE UNCHANGED <<timeout, starting, early, due>> BY <3>4 DEF NextIsLater
    <3> QED BY <2>3, <3>2, <3>3, <3>4 DEF RunFire
  <2>4. ASSUME NEW g \in FreeCells, RunAdjust(g) PROVE NextIsLater'
    BY <2>4 DEF RunAdjust, NextIsLater, history
  <2> QED BY <1>3, <2>1, <2>2, <2>3, <2>4 DEF OwnerTask
<1>4. CASE ThreadStep \/ EnvStep \/ UNCHANGED vars
  <2>1. UNCHANGED <<timeout, starting, early, due>>
    BY <1>4 DEF ThreadStep, CallDelayed, CallNow, CheckGuard, PostFire, TakeAdjust, TakeDelete,
                FinishThread, EnvStep, vars, ownerVars, history
  <2> QED BY <2>1 DEF NextIsLater
<1>5. ASSUME NEW d \in Jumps, CheckLocalTime(d) PROVE NextIsLater'
  BY <1>q, <1>5, ConstantsAssumption DEF CheckLocalTime, NextIsLater, Less
<1>6. CASE Tick BY <1>q, <1>6 DEF Tick, NextIsLater, Less
<1> QED BY <1>2, <1>3, <1>4, <1>5, <1>6 DEF Next

\* No callback begins before the timeout of its start is over, as crl::now()
\* measures it: not after a clock jump, not when a restart or an adjust replaced
\* the delay, and not by a method of an earlier start that was already on its way.
THEOREM CallbackNeverEarly == Spec => NeverEarly
<1>1. Init => Waits /\ NextIsLater
  BY DEF Init, Waits, NextIsLater
<1>2. HInv /\ Waits /\ NextIsLater /\ [Next]_vars => Waits' /\ NextIsLater'
  BY OwnerWaits, ThreadWaits, OutsideWaits, NextLater DEF HInv, Next
<1>3. HInv /\ Waits /\ [Next]_vars => [Fires => early = 0]_vars
  <2> SUFFICES ASSUME HInv, Waits, Next, Fires PROVE early = 0
    BY DEF Fires, vars, ownerVars
  <2>1. PICK g \in FreeCells : RunFire(g)
    BY OnlyFires
  <2> QED BY <2>1, OnTime DEF HInv
<1> QED BY <1>1, <1>2, <1>3, HandlesCounted, PTL DEF Spec, NeverEarly

-----------------------------------------------------------------------------
(***************************************************************************)
(* LastUsedCache.  The map and the list lead to each other, no two nodes   *)
(* have one number, and no use is later than the last up().                *)
(***************************************************************************)
Most == Cardinality(Entries)
CacheNodes == [entry : Entries, node : 1 .. Most]

NodesDiffer == \A i, j \in DOMAIN _queue : _queue[i].node = _queue[j].node => i = j
ListMapped  == \A i \in DOMAIN _queue : _map[_queue[i].entry] = _queue[i].node
MapListed   == \A e \in Entries : _map[e] # 0 => \E i \in DOMAIN _queue : _queue[i].entry = e
UsesCounted == ups \in 0 .. MaxUps /\ lastUse \in [Entries -> 0 .. ups]

CacheIInv ==
  /\ Cache!TypeOK /\ NodesDiffer /\ ListMapped /\ MapListed /\ UsesCounted
  /\ Cache!OldestFirst

LEMMA MostFacts == Most \in Nat /\ IsFiniteSet(Entries)
BY LookupsAssumption, FS_CardinalityType DEF Most

LEMMA SameCardinality == \A S : Cache!Cardinality(S) = Cardinality(S)
BY DEF Cache!Cardinality, Cardinality

LEMMA CacheTypes ==
  Cache!TypeOK <=> /\ _queue \in Seq(CacheNodes) /\ _map \in [Entries -> 0 .. Most]
                   /\ taken \in Entries \union {None}
BY SameCardinality DEF Cache!TypeOK, CacheNodes, Most

LEMMA QueueFacts ==
  ASSUME Cache!TypeOK
  PROVE  /\ Len(_queue) \in Nat /\ DOMAIN _queue = 1 .. Len(_queue)
         /\ \A i \in DOMAIN _queue : /\ _queue[i] \in CacheNodes /\ _queue[i].entry \in Entries
                                     /\ _queue[i].node \in 1 .. Most
<1>1. _queue \in Seq(CacheNodes) BY CacheTypes
<1>2. /\ Len(_queue) \in Nat /\ DOMAIN _queue = 1 .. Len(_queue)
      /\ \A i \in 1 .. Len(_queue) : _queue[i] \in CacheNodes
  BY <1>1, LenProperties, ElementOfSeq
<1> QED BY <1>2 DEF CacheNodes

\* The order of the uses tells the entries apart.
LEMMA EntriesDiffer ==
  ASSUME CacheIInv
  PROVE  \A i, j \in DOMAIN _queue : _queue[i].entry = _queue[j].entry => i = j
<1> SUFFICES ASSUME NEW i \in DOMAIN _queue, NEW j \in DOMAIN _queue,
                    _queue[i].entry = _queue[j].entry, i # j
             PROVE  FALSE
  OBVIOUS
<1>1. DOMAIN _queue = 1 .. Len(_queue) /\ Len(_queue) \in Nat
  BY QueueFacts DEF CacheIInv
<1>2. i < j \/ j < i BY <1>1
<1>3. _queue[i].entry \in Entries
  BY <1>1, QueueFacts DEF CacheIInv
<1>4. lastUse[_queue[i].entry] \in Int BY <1>3 DEF CacheIInv, UsesCounted
<1> QED BY <1>2, <1>4 DEF CacheIInv, Cache!OldestFirst

LEMMA CacheFits == CacheIInv => Cache!MapFollowsList
<1> SUFFICES ASSUME CacheIInv, NEW e \in Entries
             PROVE  LET at == {i \in DOMAIN _queue : _queue[i].entry = e}
                    IN IF _map[e] = 0 THEN at = {}
                       ELSE \E i \in at : at = {i} /\ _queue[i].node = _map[e]
  BY DEF Cache!MapFollowsList
<1>1. \A i \in DOMAIN _queue : _queue[i].node # 0
  BY QueueFacts, MostFacts DEF CacheIInv
<1>2. CASE _map[e] = 0
  BY <1>1, <1>2 DEF CacheIInv, ListMapped
<1>3. CASE _map[e] # 0
  <2>1. PICK i \in DOMAIN _queue : _queue[i].entry = e
    BY <1>3 DEF CacheIInv, MapListed
  <2>2. {j \in DOMAIN _queue : _queue[j].entry = e} = {i}
    BY <2>1, EntriesDiffer
  <2>3. _queue[i].node = _map[e] BY <2>1 DEF CacheIInv, ListMapped
  <2> QED BY <1>3, <2>1, <2>2, <2>3
<1> QED BY <1>2, <1>3

\* A node's number leads to its place.
LEMMA PositionOf ==
  ASSUME CacheIInv, NEW i \in DOMAIN _queue
  PROVE  Cache!Position(_queue[i].node) = i
BY DEF CacheIInv, NodesDiffer, Cache!Position

\* Different entries are at most as many as there are.
LEMMA PlacesBounded ==
  ASSUME NEW n \in Nat, NEW f \in [1 .. n -> Entries],
         \A i, j \in 1 .. n : f[i] = f[j] => i = j
  PROVE  n <= Most
<1>1. f \in Injection(1 .. n, Entries) BY DEF Injection, IsInjective
<1>2. IsFiniteSet(1 .. n) /\ Cardinality(1 .. n) = n BY FS_Interval
<1> QED BY <1>1, <1>2, MostFacts, FS_Injection DEF Most

\* The new node of an entry that is not in the list has a number of its own.
LEMMA FreeNodeIsNew ==
  ASSUME CacheIInv, NEW e \in Entries, \A i \in DOMAIN _queue : _queue[i].entry # e
  PROVE  /\ Cache!FreeNode \in 1 .. Most
         /\ \A i \in DOMAIN _queue : _queue[i].node # Cache!FreeNode
<1> DEFINE n == Len(_queue)
           Unused(m) == \A i \in DOMAIN _queue : _queue[i].node # m
<1>1. n \in Nat /\ DOMAIN _queue = 1 .. n
  BY QueueFacts DEF CacheIInv
<1>2. \A i \in 1 .. n : _queue[i].entry \in Entries
  BY <1>1, QueueFacts DEF CacheIInv
<1>3. n + 1 <= Most
  <2> DEFINE f == [i \in 1 .. n + 1 |-> IF i = n + 1 THEN e ELSE _queue[i].entry]
  <2>1. f \in [1 .. n + 1 -> Entries] BY <1>1, <1>2
  <2>2. ASSUME NEW i \in 1 .. n + 1, NEW j \in 1 .. n + 1, f[i] = f[j] PROVE i = j
    <3>1. (i = n + 1 \/ i \in DOMAIN _queue) /\ (j = n + 1 \/ j \in DOMAIN _queue)
      BY <1>1
    <3>2. CASE i = n + 1 BY <1>1, <2>2, <3>1, <3>2
    <3>3. CASE j = n + 1 BY <1>1, <2>2, <3>1, <3>3
    <3>4. CASE i # n + 1 /\ j # n + 1
      BY <2>2, <3>1, <3>4, EntriesDiffer
    <3> QED BY <3>2, <3>3, <3>4
  <2> HIDE DEF f
  <2> QED BY <1>1, <2>1, <2>2, PlacesBounded
<1>4. \E m \in 1 .. n + 1 : Unused(m)
  <2> SUFFICES ASSUME \A m \in 1 .. n + 1 : ~Unused(m) PROVE FALSE OBVIOUS
  <2> DEFINE places == 1 .. n
           more == 1 .. n + 1
           g == [m \in more |-> CHOOSE i \in places : _queue[i].node = m]
  <2>1. ASSUME NEW m \in more PROVE g[m] \in places /\ _queue[g[m]].node = m
    <3>1. \E i \in places : _queue[i].node = m BY <1>1
    <3>2. g[m] = CHOOSE i \in places : _queue[i].node = m OBVIOUS
    <3> HIDE DEF g, places
    <3> QED BY <3>1, <3>2
  <2>2. IsFiniteSet(more) /\ Cardinality(more) = n + 1
    <3>1. 1 \in Int /\ n + 1 \in Int /\ ~(1 > n + 1) /\ (n + 1) - 1 + 1 = n + 1 BY <1>1
    <3> QED BY <3>1, FS_Interval
  <2>9. IsFiniteSet(places) /\ Cardinality(places) = n
    <3>1. 1 \in Int /\ n \in Int /\ (IF 1 > n THEN 0 ELSE n - 1 + 1) = n BY <1>1
    <3> QED BY <3>1, FS_Interval
  <2>3. g \in [more -> places] BY <2>1
  <2>4. Cardinality(places) < Cardinality(more) BY <1>1, <2>2, <2>9
  <2> HIDE DEF g, places, more
  <2>5. \E x, y \in more : x # y /\ g[x] = g[y]
    BY <2>2, <2>9, <2>3, <2>4, FS_PigeonHole
  <2> QED BY <2>1, <2>5
<1>5. Cache!FreeNode = CHOOSE m \in 1 .. n + 1 : Unused(m)
  BY DEF Cache!FreeNode
<1> HIDE DEF Unused
<1>6. Cache!FreeNode \in 1 .. n + 1 /\ Unused(Cache!FreeNode) BY <1>4, <1>5
<1> QED BY <1>1, <1>3, <1>6, MostFacts DEF Unused

-----------------------------------------------------------------------------
\* Where the element at j was before the one at i was taken away.
Shift(i, j) == IF j < i THEN j ELSE j + 1

TakenFrom(q, i, r) ==
  /\ Len(r) = Len(q) - 1
  /\ \A j \in DOMAIN r : /\ Shift(i, j) \in DOMAIN q /\ Shift(i, j) # i
                         /\ r[j] = q[Shift(i, j)]
  /\ \A j, n \in DOMAIN r : Shift(i, j) < Shift(i, n) <=> j < n
  /\ \A n \in DOMAIN q : n # i => \E j \in DOMAIN r : Shift(i, j) = n

LEMMA Removal ==
  ASSUME NEW S, NEW q \in Seq(S), NEW i \in DOMAIN q
  PROVE  Cache!RemoveAt(q, i) \in Seq(S) /\ TakenFrom(q, i, Cache!RemoveAt(q, i))
<1> DEFINE left == SubSeq(q, 1, i - 1)
           right == SubSeq(q, i + 1, Len(q))
           r == left \o right
<1>1. Len(q) \in Nat /\ DOMAIN q = 1 .. Len(q) /\ i \in 1 .. Len(q) /\ i \in Nat
  BY LenProperties
<1>2. /\ left \in Seq(S) /\ Len(left) = i - 1
      /\ \A j \in 1 .. i - 1 : left[j] = q[j]
  <2>1. 1 \in Int /\ i - 1 \in Int /\ \A j \in 1 .. i - 1 : j \in 1 .. Len(q) BY <1>1
  <2>2. left \in Seq(S) /\ Len(left) = (IF 1 <= i - 1 THEN (i - 1) - 1 + 1 ELSE 0)
        /\ \A j \in 1 .. ((i - 1) - 1 + 1) : left[j] = q[1 + j - 1]
    BY <2>1, SubSeqProperties
  <2> QED BY <1>1, <2>2
<1>3. /\ right \in Seq(S) /\ Len(right) = Len(q) - i
      /\ \A j \in 1 .. Len(q) - i : right[j] = q[i + j]
  <2>1. i + 1 \in Int /\ Len(q) \in Int /\ \A j \in i + 1 .. Len(q) : j \in 1 .. Len(q)
    BY <1>1
  <2>2. right \in Seq(S)
        /\ Len(right) = (IF i + 1 <= Len(q) THEN Len(q) - (i + 1) + 1 ELSE 0)
        /\ \A j \in 1 .. (Len(q) - (i + 1) + 1) : right[j] = q[(i + 1) + j - 1]
    BY <2>1, SubSeqProperties
  <2>3. /\ (IF i + 1 <= Len(q) THEN Len(q) - (i + 1) + 1 ELSE 0) = Len(q) - i
        /\ \A j \in 1 .. Len(q) - i : /\ j \in 1 .. (Len(q) - (i + 1) + 1)
                                      /\ (i + 1) + j - 1 = i + j
    BY <1>1
  <2> HIDE DEF right
  <2>4. \A j \in 1 .. Len(q) - i : right[j] = q[i + j] BY <2>2, <2>3 DEF right
  <2> QED BY <2>2, <2>3, <2>4 DEF right
<1> HIDE DEF left, right
<1>4. /\ r \in Seq(S) /\ Len(r) = Len(left) + Len(right)
      /\ \A j \in 1 .. Len(left) + Len(right) :
           r[j] = IF j <= Len(left) THEN left[j] ELSE right[j - Len(left)]
  BY <1>2, <1>3, ConcatProperties
<1> HIDE DEF r
<1>5. Len(r) = Len(q) - 1 /\ DOMAIN r = 1 .. Len(q) - 1
  BY <1>1, <1>2, <1>3, <1>4, LenProperties
<1>6. \A j \in DOMAIN r : /\ Shift(i, j) \in DOMAIN q /\ Shift(i, j) # i
                          /\ r[j] = q[Shift(i, j)]
  <2> SUFFICES ASSUME NEW j \in 1 .. Len(q) - 1
               PROVE  /\ Shift(i, j) \in 1 .. Len(q) /\ Shift(i, j) # i
                      /\ r[j] = q[Shift(i, j)]
    BY <1>1, <1>5
  <2>1. CASE j < i
    <3>1. j <= Len(left) /\ j \in 1 .. i - 1 /\ j \in 1 .. Len(left) + Len(right)
      BY <1>1, <1>2, <1>3, <2>1
    <3>2. r[j] = q[j] BY <1>2, <1>4, <3>1
    <3> QED BY <1>1, <2>1, <3>2 DEF Shift
  <2>2. CASE ~(j < i)
    <3>1. /\ ~(j <= Len(left)) /\ j - Len(left) \in 1 .. Len(q) - i
          /\ j \in 1 .. Len(left) + Len(right) /\ i + (j - Len(left)) = j + 1
      BY <1>1, <1>2, <1>3, <2>2
    <3>2. r[j] = q[j + 1] BY <1>3, <1>4, <3>1
    <3> QED BY <1>1, <2>2, <3>2 DEF Shift
  <2> QED BY <2>1, <2>2
<1>7. \A j, n \in DOMAIN r : Shift(i, j) < Shift(i, n) <=> j < n
  BY <1>1, <1>5 DEF Shift
<1>8. ASSUME NEW n \in DOMAIN q, n # i PROVE \E j \in DOMAIN r : Shift(i, j) = n
  <2>1. CASE n < i BY <1>1, <1>5, <2>1 DEF Shift
  <2>2. CASE ~(n < i)
    <3>1. n - 1 \in DOMAIN r /\ ~(n - 1 < i) /\ (n - 1) + 1 = n
      BY <1>1, <1>5, <1>8, <2>2
    <3> QED BY <3>1 DEF Shift
  <2> QED BY <2>1, <2>2
<1>9. Cache!RemoveAt(q, i) = r BY DEF Cache!RemoveAt, left, right, r
<1>10. TakenFrom(q, i, r) BY <1>5, <1>6, <1>7, <1>8 DEF TakenFrom
<1> QED BY <1>4, <1>9, <1>10


\* So it is with the tail.
LEMMA TailTaken ==
  ASSUME NEW S, NEW q \in Seq(S), Len(q) # 0
  PROVE  Tail(q) \in Seq(S) /\ TakenFrom(q, 1, Tail(q)) /\ Head(q) = q[1] /\ 1 \in DOMAIN q
<1>1. q # <<>> BY EmptySeq
<1>2. Len(q) \in Nat /\ DOMAIN q = 1 .. Len(q) BY LenProperties
<1>3. /\ Tail(q) \in Seq(S) /\ Len(Tail(q)) = Len(q) - 1
      /\ \A i \in 1 .. Len(Tail(q)) : Tail(q)[i] = q[i + 1]
  BY <1>1, HeadTailProperties
<1>4. DOMAIN Tail(q) = 1 .. Len(q) - 1 BY <1>3, LenProperties
<1>5. Head(q) = q[1] BY <1>1
<1> DEFINE r == Tail(q)
<1>6. \A j \in 1 .. Len(q) - 1 : Shift(1, j) = j + 1 BY <1>2 DEF Shift
<1>7. \A n \in DOMAIN q : n # 1 => \E j \in 1 .. Len(q) - 1 : Shift(1, j) = n
  <2> SUFFICES ASSUME NEW n \in 1 .. Len(q), n # 1
               PROVE  \E j \in 1 .. Len(q) - 1 : Shift(1, j) = n
    BY <1>2
  <2>1. n - 1 \in 1 .. Len(q) - 1 /\ (n - 1) + 1 = n BY <1>2
  <2>2. Shift(1, n - 1) = n BY <1>6, <2>1
  <2> QED BY <2>1, <2>2
<1> HIDE DEF r
<1>8. \A j \in DOMAIN r : /\ Shift(1, j) \in DOMAIN q /\ Shift(1, j) # 1
                          /\ r[j] = q[Shift(1, j)]
  BY <1>2, <1>3, <1>4, <1>6 DEF r
<1>9. \A j, n \in DOMAIN r : Shift(1, j) < Shift(1, n) <=> j < n
  BY <1>2, <1>4, <1>6 DEF r
<1>10. TakenFrom(q, 1, r) BY <1>3, <1>4, <1>7, <1>8, <1>9 DEF TakenFrom, r
<1> QED BY <1>2, <1>3, <1>5, <1>10 DEF r

-----------------------------------------------------------------------------
\* The list without the node at i: it is in order, the nodes differ, the map
\* leads to them, and the entry of the node is not among them.
LEMMA ListWithout ==
  ASSUME CacheIInv, NEW i \in DOMAIN _queue, NEW r \in Seq(CacheNodes), TakenFrom(_queue, i, r)
  PROVE  /\ \A j \in DOMAIN r : /\ r[j].entry # _queue[i].entry
                               /\ r[j].node # _queue[i].node
                               /\ r[j].entry \in Entries
                               /\ _map[r[j].entry] = r[j].node
         /\ \A j, k \in DOMAIN r : r[j].node = r[k].node => j = k
         /\ \A j, k \in DOMAIN r : j < k => lastUse[r[j].entry] < lastUse[r[k].entry]
         /\ \A e \in Entries : e # _queue[i].entry /\ _map[e] # 0
                               => \E j \in DOMAIN r : r[j].entry = e
<1> DEFINE at(j) == Shift(i, j)
<1>1. /\ \A j \in DOMAIN r : at(j) \in DOMAIN _queue /\ at(j) # i /\ r[j] = _queue[at(j)]
      /\ \A j, n \in DOMAIN r : at(j) < at(n) <=> j < n
      /\ \A n \in DOMAIN _queue : n # i => \E j \in DOMAIN r : at(j) = n
  BY DEF TakenFrom
<1>2. DOMAIN r = 1 .. Len(r) /\ Len(r) \in Nat BY LenProperties
<1>3. DOMAIN _queue = 1 .. Len(_queue) /\ Len(_queue) \in Nat
  BY QueueFacts DEF CacheIInv
<1> HIDE DEF at
<1>4. \A j \in DOMAIN r : /\ r[j].entry # _queue[i].entry
                          /\ r[j].node # _queue[i].node
                          /\ r[j].entry \in Entries
                          /\ _map[r[j].entry] = r[j].node
  BY <1>1, EntriesDiffer, QueueFacts DEF CacheIInv, NodesDiffer, ListMapped
<1>5. ASSUME NEW j \in DOMAIN r, NEW k \in DOMAIN r, r[j].node = r[k].node PROVE j = k
  <2>1. at(j) = at(k) BY <1>1, <1>5 DEF CacheIInv, NodesDiffer
  <2>2. ~(j < k) /\ ~(k < j) BY <1>1, <1>3, <2>1
  <2> QED BY <1>2, <2>2
<1>6. \A j, k \in DOMAIN r : j < k => lastUse[r[j].entry] < lastUse[r[k].entry]
  BY <1>1 DEF CacheIInv, Cache!OldestFirst
<1>7. ASSUME NEW e \in Entries, e # _queue[i].entry, _map[e] # 0
      PROVE  \E j \in DOMAIN r : r[j].entry = e
  <2>1. PICK n \in DOMAIN _queue : _queue[n].entry = e BY <1>7 DEF CacheIInv, MapListed
  <2> QED BY <1>1, <1>7, <2>1
<1> QED BY <1>4, <1>5, <1>6, <1>7

\* A node and its entry go from the list and the map together.
LEMMA NodeRemoved ==
  ASSUME CacheIInv, NEW i \in DOMAIN _queue, TakenFrom(_queue, i, _queue'),
         _queue' \in Seq(CacheNodes), _map' = [_map EXCEPT ![_queue[i].entry] = 0],
         taken' \in Entries \union {None}, UNCHANGED <<lastUse, ups>>
  PROVE  CacheIInv'
<1> DEFINE e == _queue[i].entry
<1>1. e \in Entries /\ _map \in [Entries -> 0 .. Most] /\ Most \in Nat
  BY QueueFacts, CacheTypes, MostFacts DEF CacheIInv
<1>2. /\ _map' \in [Entries -> 0 .. Most] /\ _map'[e] = 0
      /\ \A d \in Entries : d # e => _map'[d] = _map[d]
  BY <1>1
<1>3. Cache!TypeOK' BY <1>2, SameCardinality DEF Cache!TypeOK, CacheNodes, Most
<1> HIDE DEF e
<1>4. /\ \A j \in DOMAIN _queue' : /\ _queue'[j].entry # e
                                   /\ _queue'[j].entry \in Entries
                                   /\ _map[_queue'[j].entry] = _queue'[j].node
      /\ \A j, k \in DOMAIN _queue' : _queue'[j].node = _queue'[k].node => j = k
      /\ \A j, k \in DOMAIN _queue' :
           j < k => lastUse[_queue'[j].entry] < lastUse[_queue'[k].entry]
      /\ \A d \in Entries : d # e /\ _map[d] # 0
                            => \E j \in DOMAIN _queue' : _queue'[j].entry = d
  <2> DEFINE r == _queue'
  <2>1. r \in Seq(CacheNodes) /\ TakenFrom(_queue, i, r) OBVIOUS
  <2> HIDE DEF r
  <2>2. /\ \A j \in DOMAIN r : /\ r[j].entry # e /\ r[j].entry \in Entries
                               /\ _map[r[j].entry] = r[j].node
        /\ \A j, k \in DOMAIN r : r[j].node = r[k].node => j = k
        /\ \A j, k \in DOMAIN r : j < k => lastUse[r[j].entry] < lastUse[r[k].entry]
        /\ \A d \in Entries : d # e /\ _map[d] # 0
                               => \E j \in DOMAIN r : r[j].entry = d
    BY <2>1, ListWithout DEF e
  <2> QED BY <2>2 DEF r
<1>5. NodesDiffer' /\ Cache!OldestFirst' BY <1>4 DEF NodesDiffer, Cache!OldestFirst
<1>6. ListMapped' BY <1>2, <1>4 DEF ListMapped
<1>7. MapListed'
  <2> SUFFICES ASSUME NEW d \in Entries, _map'[d] # 0
               PROVE  \E j \in DOMAIN _queue' : _queue'[j].entry = d
    BY DEF MapListed
  <2>1. d # e /\ _map[d] # 0 BY <1>2
  <2> QED BY <1>4, <2>1
<1>8. UsesCounted' BY DEF CacheIInv, UsesCounted
<1> QED BY <1>3, <1>5, <1>6, <1>7, <1>8 DEF CacheIInv

\* The list r lacks the entry e, and the number n of a node, and nothing else.
LacksOnly(r, e, n) ==
  /\ \A j \in DOMAIN r : /\ r[j].entry # e /\ r[j].node # n
                         /\ r[j].entry \in Entries
                         /\ _map[r[j].entry] = r[j].node
  /\ \A j, k \in DOMAIN r : r[j].node = r[k].node => j = k
  /\ \A j, k \in DOMAIN r : j < k => lastUse[r[j].entry] < lastUse[r[k].entry]
  /\ \A d \in Entries : d # e /\ _map[d] # 0 => \E j \in DOMAIN r : r[j].entry = d

\* A node comes to the end of what there is without it, used last of all.
LEMMA NodeAppended ==
  ASSUME CacheIInv, NEW r \in Seq(CacheNodes), NEW e \in Entries, NEW n \in 1 .. Most,
         LacksOnly(r, e, n),
         _queue' = Append(r, [entry |-> e, node |-> n]),
         _map' = [_map EXCEPT ![e] = n],
         ups < MaxUps, ups' = ups + 1, lastUse' = [lastUse EXCEPT ![e] = ups + 1],
         UNCHANGED taken
  PROVE  CacheIInv'
<1> DEFINE c == [entry |-> e, node |-> n]  m == Len(r)
<1>1. c \in CacheNodes /\ c.entry = e /\ c.node = n BY DEF CacheNodes
<1>2. m \in Nat /\ DOMAIN r = 1 .. m BY LenProperties
<1> HIDE DEF c
<1> USE DEF LacksOnly
<1>3. /\ _queue' \in Seq(CacheNodes) /\ Len(_queue') = m + 1
      /\ \A j \in 1 .. m : _queue'[j] = r[j]
      /\ _queue'[m + 1] = c
  BY <1>1, AppendProperties DEF c
<1>4. DOMAIN _queue' = 1 .. m + 1 BY <1>3, LenProperties
<1>5. /\ \A j \in 1 .. m + 1 : j # m + 1 => j \in 1 .. m /\ j < m + 1
      /\ \A j, k \in 1 .. m + 1 : j < k => j \in 1 .. m
  BY <1>2
<1>6. _map \in [Entries -> 0 .. Most] /\ Most \in Nat /\ taken \in Entries \union {None}
  BY CacheTypes, MostFacts DEF CacheIInv
<1>7. /\ _map' \in [Entries -> 0 .. Most] /\ _map'[e] = n
      /\ \A d \in Entries : d # e => _map'[d] = _map[d]
  BY <1>6
<1>8. Cache!TypeOK' BY <1>3, <1>6, <1>7, SameCardinality DEF Cache!TypeOK, CacheNodes, Most
<1>9. /\ ups \in Nat /\ MaxUps \in Nat /\ lastUse \in [Entries -> 0 .. ups]
      /\ ups' \in 0 .. MaxUps /\ ups' = ups + 1
      /\ lastUse'[e] = ups + 1
      /\ \A d \in Entries : d # e => lastUse'[d] = lastUse[d] /\ lastUse'[d] < ups + 1
      /\ lastUse' \in [Entries -> 0 .. ups']
  BY LookupsAssumption DEF CacheIInv, UsesCounted
<1>10. NodesDiffer'
  <2> SUFFICES ASSUME NEW j \in 1 .. m + 1, NEW k \in 1 .. m + 1,
                      _queue'[j].node = _queue'[k].node
               PROVE  j = k
    BY <1>4 DEF NodesDiffer
  <2> DEFINE q == _queue'
  <2>a. q[m + 1].node = n BY <1>1, <1>3
  <2>b. \A i \in 1 .. m : q[i].node = r[i].node /\ r[i].node # n BY <1>2, <1>3
  <2> HIDE DEF q
  <2>1. CASE j = m + 1 BY <1>5, <2>a, <2>b, <2>1 DEF q
  <2>2. CASE k = m + 1 BY <1>5, <2>a, <2>b, <2>2 DEF q
  <2>3. CASE j # m + 1 /\ k # m + 1 BY <1>2, <1>5, <2>b, <2>3 DEF q
  <2> QED BY <2>1, <2>2, <2>3
<1>11. ListMapped'
  <2> SUFFICES ASSUME NEW j \in 1 .. m + 1
               PROVE  _map'[_queue'[j].entry] = _queue'[j].node
    BY <1>4 DEF ListMapped
  <2>1. CASE j = m + 1 BY <1>1, <1>3, <1>7, <2>1
  <2>2. CASE j # m + 1
    <3>1. j \in 1 .. m /\ _queue'[j] = r[j] BY <1>3, <1>5, <2>2
    <3> QED BY <1>2, <1>7, <3>1
  <2> QED BY <2>1, <2>2
<1>12. MapListed'
  <2> SUFFICES ASSUME NEW d \in Entries, _map'[d] # 0
               PROVE  \E j \in 1 .. m + 1 : _queue'[j].entry = d
    BY <1>4 DEF MapListed
  <2>1. CASE d = e
    <3>1. m + 1 \in 1 .. m + 1 BY <1>2
    <3> QED BY <1>1, <1>3, <2>1, <3>1
  <2>2. CASE d # e
    <3>1. PICK j \in 1 .. m : r[j].entry = d BY <1>2, <1>7, <2>2
    <3>2. j \in 1 .. m + 1 BY <1>2
    <3> QED BY <1>3, <3>1, <3>2
  <2> QED BY <2>1, <2>2
<1>13. Cache!OldestFirst'
  <2> SUFFICES ASSUME NEW j \in 1 .. m + 1, NEW k \in 1 .. m + 1, j < k
               PROVE  lastUse'[_queue'[j].entry] < lastUse'[_queue'[k].entry]
    BY <1>4 DEF Cache!OldestFirst
  <2>1. j \in 1 .. m /\ _queue'[j] = r[j] /\ r[j].entry \in Entries /\ r[j].entry # e
    BY <1>2, <1>3, <1>5
  <2>2. CASE k = m + 1 BY <1>1, <1>3, <1>9, <2>1, <2>2
  <2>3. CASE k # m + 1
    <3>1. k \in 1 .. m /\ _queue'[k] = r[k] /\ r[k].entry \in Entries /\ r[k].entry # e
      BY <1>2, <1>3, <1>5, <2>3
    <3>2. lastUse[r[j].entry] < lastUse[r[k].entry] BY <1>2, <2>1, <3>1
    <3> QED BY <1>9, <2>1, <3>1, <3>2
  <2> QED BY <2>2, <2>3
<1>14. UsesCounted' BY <1>9 DEF UsesCounted
<1> QED BY <1>8, <1>10, <1>11, <1>12, <1>13, <1>14 DEF CacheIInv

-----------------------------------------------------------------------------
\* up() moves the entry's node to the end, or makes one.
LEMMA UpKeeps ==
  ASSUME CacheIInv, NEW e \in Entries, Cache!up(e)
  PROVE  CacheIInv'
<1>1. /\ ups < MaxUps /\ ups' = ups + 1 /\ lastUse' = [lastUse EXCEPT ![e] = ups + 1]
      /\ UNCHANGED taken
  BY DEF Cache!up
<1>2. /\ _queue \in Seq(CacheNodes) /\ _map \in [Entries -> 0 .. Most]
      /\ DOMAIN _queue = 1 .. Len(_queue) /\ Len(_queue) \in Nat
      /\ \A i \in DOMAIN _queue : /\ _queue[i].entry \in Entries
                                  /\ _queue[i].node \in 1 .. Most
  BY CacheTypes, QueueFacts DEF CacheIInv
<1>3. CASE _queue # <<>> /\ Cache!Last(_queue).entry = e
  <2>1. UNCHANGED <<_queue, _map>> BY <1>3 DEF Cache!up
  <2>2. Len(_queue) # 0 /\ _queue[Len(_queue)].entry = e
    BY <1>2, <1>3, EmptySeq DEF Cache!Last
  <2>3. /\ ups \in Nat /\ MaxUps \in Nat /\ lastUse \in [Entries -> 0 .. ups]
        /\ ups' \in 0 .. MaxUps /\ ups' = ups + 1
        /\ lastUse'[e] = ups + 1
        /\ \A d \in Entries : d # e => lastUse'[d] = lastUse[d] /\ lastUse'[d] < ups + 1
        /\ lastUse' \in [Entries -> 0 .. ups']
    BY <1>1, LookupsAssumption DEF CacheIInv, UsesCounted
  <2>4. Cache!OldestFirst'
    <3> SUFFICES ASSUME NEW j \in DOMAIN _queue, NEW k \in DOMAIN _queue, j < k
                 PROVE  lastUse'[_queue[j].entry] < lastUse'[_queue[k].entry]
      BY <2>1 DEF Cache!OldestFirst
    <3>1. j # Len(_queue) /\ Len(_queue) \in DOMAIN _queue BY <1>2
    <3>2. _queue[j].entry # e BY <2>2, <3>1, EntriesDiffer
    <3>3. lastUse[_queue[j].entry] < lastUse[_queue[k].entry]
      BY DEF CacheIInv, Cache!OldestFirst
    <3>4. CASE _queue[k].entry = e BY <1>2, <2>3, <3>2, <3>4
    <3>5. CASE _queue[k].entry # e BY <1>2, <2>3, <3>2, <3>3, <3>5
    <3> QED BY <3>4, <3>5
  <2>5. Cache!TypeOK' BY <1>1, <2>1 DEF CacheIInv, Cache!TypeOK
  <2>6. NodesDiffer' /\ ListMapped' /\ MapListed'
    BY <2>1 DEF CacheIInv, NodesDiffer, ListMapped, MapListed
  <2>7. UsesCounted' BY <2>3 DEF UsesCounted
  <2> QED BY <2>4, <2>5, <2>6, <2>7 DEF CacheIInv
<1>4. CASE ~(_queue # <<>> /\ Cache!Last(_queue).entry = e) /\ _map[e] # 0
  <2>1. PICK i \in DOMAIN _queue : _queue[i].entry = e
    BY <1>4 DEF CacheIInv, MapListed
  <2>2. _map[e] = _queue[i].node BY <2>1 DEF CacheIInv, ListMapped
  <2>3. Cache!Position(_map[e]) = i BY <2>2, PositionOf
  <2> DEFINE r == Cache!RemoveAt(_queue, i)
  <2>4. _queue' = Append(r, _queue[i]) /\ UNCHANGED _map
    BY <1>4, <2>3 DEF Cache!up, Cache!Spliced
  <2>5. r \in Seq(CacheNodes) /\ TakenFrom(_queue, i, r) BY <1>2, Removal
  <2> HIDE DEF r
  <2>6. /\ \A j \in DOMAIN r : /\ r[j].entry # e /\ r[j].node # _map[e]
                               /\ r[j].entry \in Entries
                               /\ _map[r[j].entry] = r[j].node
        /\ \A j, k \in DOMAIN r : r[j].node = r[k].node => j = k
        /\ \A j, k \in DOMAIN r : j < k => lastUse[r[j].entry] < lastUse[r[k].entry]
        /\ \A d \in Entries : d # e /\ _map[d] # 0
                               => \E j \in DOMAIN r : r[j].entry = d
    BY <2>1, <2>2, <2>5, ListWithout
  <2>7. _queue[i] = [entry |-> e, node |-> _map[e]] /\ _map[e] \in 1 .. Most
    <3>1. _queue[i] \in CacheNodes BY QueueFacts DEF CacheIInv
    <3> QED BY <1>2, <2>1, <2>2, <3>1 DEF CacheNodes
  <2>8. _map' = [_map EXCEPT ![e] = _map[e]] BY <1>2, <2>4
  <2>9. _queue' = Append(r, [entry |-> e, node |-> _map[e]]) BY <2>4, <2>7
  <2>10. LacksOnly(r, e, _map[e]) BY <2>6 DEF LacksOnly
  <2> QED BY <1>1, <2>5, <2>7, <2>8, <2>9, <2>10, NodeAppended
<1>5. CASE ~(_queue # <<>> /\ Cache!Last(_queue).entry = e) /\ _map[e] = 0
  <2>1. /\ _queue' = Append(_queue, [entry |-> e, node |-> Cache!FreeNode])
        /\ _map' = [_map EXCEPT ![e] = Cache!FreeNode]
    BY <1>5 DEF Cache!up
  <2>2. \A i \in DOMAIN _queue : _queue[i].entry # e
    BY <1>2, <1>5, MostFacts DEF CacheIInv, ListMapped
  <2>3. /\ Cache!FreeNode \in 1 .. Most
        /\ \A i \in DOMAIN _queue : _queue[i].node # Cache!FreeNode
    BY <2>2, FreeNodeIsNew
  <2>4. /\ \A j \in DOMAIN _queue : /\ _queue[j].entry # e /\ _queue[j].node # Cache!FreeNode
                                    /\ _queue[j].entry \in Entries
                                    /\ _map[_queue[j].entry] = _queue[j].node
    BY <1>2, <2>2, <2>3 DEF CacheIInv, ListMapped
  <2>5. \A j, k \in DOMAIN _queue : _queue[j].node = _queue[k].node => j = k
    BY DEF CacheIInv, NodesDiffer
  <2>6. \A j, k \in DOMAIN _queue : j < k => lastUse[_queue[j].entry] < lastUse[_queue[k].entry]
    BY DEF CacheIInv, Cache!OldestFirst
  <2>7. \A d \in Entries : d # e /\ _map[d] # 0 => \E j \in DOMAIN _queue : _queue[j].entry = d
    BY DEF CacheIInv, MapListed
  <2>8. LacksOnly(_queue, e, Cache!FreeNode) BY <2>4, <2>5, <2>6, <2>7 DEF LacksOnly
  <2> QED BY <1>1, <1>2, <2>1, <2>3, <2>8, NodeAppended
<1> QED BY <1>3, <1>4, <1>5

LEMMA RemoveKeeps ==
  ASSUME CacheIInv, NEW e \in Entries, Cache!remove(e)
  PROVE  CacheIInv'
<1>1. PICK i \in DOMAIN _queue : _queue[i].entry = e
  BY DEF Cache!remove, CacheIInv, MapListed
<1>2. Cache!Position(_map[e]) = i
  BY <1>1, PositionOf DEF CacheIInv, ListMapped
<1>3. /\ _queue' = Cache!RemoveAt(_queue, i)
      /\ _map' = [_map EXCEPT ![_queue[i].entry] = 0]
      /\ UNCHANGED <<lastUse, ups>> /\ taken' \in Entries \union {None}
  BY <1>1, <1>2, CacheTypes DEF Cache!remove, CacheIInv
<1>4. _queue' \in Seq(CacheNodes) /\ TakenFrom(_queue, i, _queue')
  BY <1>3, CacheTypes, Removal DEF CacheIInv
<1> QED BY <1>3, <1>4, NodeRemoved

LEMMA Emptied ==
  ASSUME UsesCounted', taken' \in Entries \union {None},
         _queue' = <<>>, _map' = [e \in Entries |-> 0]
  PROVE  CacheIInv'
<1>1. _queue' \in Seq(CacheNodes) /\ Len(_queue') = 0
  BY EmptySeq
<1>2. DOMAIN _queue' = {} BY <1>1, LenProperties
<1>3. _map' \in [Entries -> 0 .. Most] /\ \A e \in Entries : _map'[e] = 0
  BY MostFacts
<1>4. Cache!TypeOK' BY <1>1, <1>3, SameCardinality DEF Cache!TypeOK, CacheNodes, Most
<1>5. NodesDiffer' BY <1>2 DEF NodesDiffer
<1>6. ListMapped' BY <1>2 DEF ListMapped
<1>7. MapListed' BY <1>3 DEF MapListed
<1>8. Cache!OldestFirst' BY <1>2 DEF Cache!OldestFirst
<1> QED BY <1>4, <1>5, <1>6, <1>7, <1>8 DEF CacheIInv

LEMMA ClearKeeps ==
  ASSUME CacheIInv, Cache!clear
  PROVE  CacheIInv'
<1>1. UsesCounted' BY DEF CacheIInv, UsesCounted, Cache!clear
<1>2. taken' \in Entries \union {None} BY CacheTypes DEF CacheIInv, Cache!clear
<1> QED BY <1>1, <1>2, Emptied DEF Cache!clear

LEMMA TakeLowestKeeps ==
  ASSUME CacheIInv, Cache!take_lowest
  PROVE  CacheIInv'
<1>1. _queue \in Seq(CacheNodes) /\ Len(_queue) \in Nat
  BY CacheTypes, QueueFacts DEF CacheIInv
<1>2. CASE _queue = <<>>
  <2>1. taken' = None /\ UNCHANGED <<_queue, _map, lastUse, ups>>
    BY <1>2 DEF Cache!take_lowest
  <2>2. Cache!TypeOK' BY <2>1 DEF CacheIInv, Cache!TypeOK
  <2>3. NodesDiffer' /\ ListMapped' /\ MapListed' /\ UsesCounted' /\ Cache!OldestFirst'
    BY <2>1 DEF CacheIInv, NodesDiffer, ListMapped, MapListed, UsesCounted, Cache!OldestFirst
  <2> QED BY <2>2, <2>3 DEF CacheIInv
<1>3. CASE _queue # <<>>
  <2>1. /\ taken' = Head(_queue).entry /\ _queue' = Tail(_queue)
        /\ _map' = [_map EXCEPT ![Head(_queue).entry] = 0]
        /\ UNCHANGED <<lastUse, ups>>
    BY <1>3 DEF Cache!take_lowest
  <2>2. Len(_queue) # 0 BY <1>1, <1>3, EmptySeq
  <2>3. /\ _queue' \in Seq(CacheNodes) /\ TakenFrom(_queue, 1, _queue')
        /\ Head(_queue) = _queue[1] /\ 1 \in DOMAIN _queue
    BY <1>1, <2>1, <2>2, TailTaken
  <2>4. _queue[1].entry \in Entries BY <2>3, QueueFacts DEF CacheIInv
  <2> QED BY <2>1, <2>3, <2>4, NodeRemoved
<1> QED BY <1>2, <1>3

LEMMA CacheStep ==
  CacheIInv /\ (Cache!Next \/ UNCHANGED cacheVars) => CacheIInv'
<1> SUFFICES ASSUME CacheIInv, Cache!Next \/ UNCHANGED cacheVars PROVE CacheIInv'
  OBVIOUS
<1>1. CASE UNCHANGED cacheVars
  <2>1. Cache!TypeOK' BY <1>1 DEF cacheVars, CacheIInv, Cache!TypeOK
  <2>2. NodesDiffer' /\ ListMapped' /\ MapListed' /\ UsesCounted' /\ Cache!OldestFirst'
    BY <1>1 DEF cacheVars, CacheIInv, NodesDiffer, ListMapped, MapListed, UsesCounted,
                Cache!OldestFirst
  <2> QED BY <2>1, <2>2 DEF CacheIInv
<1>2. CASE Cache!Next
  BY <1>2, UpKeeps, RemoveKeeps, ClearKeeps, TakeLowestKeeps DEF Cache!Next
<1> QED BY <1>1, <1>2

LEMMA CacheStart == Cache!Init => CacheIInv
<1> SUFFICES ASSUME Cache!Init PROVE CacheIInv OBVIOUS
<1>1. _queue \in Seq(CacheNodes) /\ Len(_queue) = 0
  BY EmptySeq DEF Cache!Init
<1>2. DOMAIN _queue = {} BY <1>1, LenProperties
<1>3. _map \in [Entries -> 0 .. Most] /\ \A e \in Entries : _map[e] = 0
  BY MostFacts DEF Cache!Init
<1>4. Cache!TypeOK BY <1>1, <1>3, SameCardinality DEF Cache!Init, Cache!TypeOK, CacheNodes, Most
<1>5. NodesDiffer BY <1>2 DEF NodesDiffer
<1>6. ListMapped BY <1>2 DEF ListMapped
<1>7. MapListed BY <1>3 DEF MapListed
<1>8. Cache!OldestFirst BY <1>2 DEF Cache!OldestFirst
<1>9. UsesCounted BY LookupsAssumption DEF Cache!Init, UsesCounted
<1> QED BY <1>4, <1>5, <1>6, <1>7, <1>8, <1>9 DEF CacheIInv

-----------------------------------------------------------------------------
(***************************************************************************)
(* VirtualMethod.                                                          *)
(***************************************************************************)
Derives(c, d) == d \in Methods!Parents[c]
Places  == DOMAIN childEntries
Entry(i) == childEntries[i + 1]
AloneAt(i) == \A k \in i + 2 .. Len(childEntries) : Derives(Entry(i), childEntries[k])
Called == Overrides \union {DefaultCall}

EntriesTyped == childEntries \in Seq(Classes) /\ tableIndex \in [Classes -> Int]
IndicesKnown ==
  /\ \A i \in Places : tableIndex[childEntries[i]] = i - 1
  /\ \A c \in Classes : c \notin Methods!Registered => tableIndex[c] = -1
ParentsLast == \A i, j \in Places : Derives(childEntries[i], childEntries[j]) => i <= j
EntriesIInv == EntriesTyped /\ IndicesKnown /\ ParentsLast

\* What a table of the registered overrides holds, however much of it is filled.
TableFits(t) ==
  /\ t \in [Methods!Indices \X Methods!Indices -> Called \union {None}]
  /\ \A o \in overrideMap : t[Methods!Index(o)] = o
  /\ \A p \in Methods!Indices \X Methods!Indices :
       t[p] \in Overrides /\ AloneAt(p[1]) /\ AloneAt(p[2])
         => Derives(Entry(p[1]), t[p][1]) /\ Derives(Entry(p[2]), t[p][2])

\* What a fresh call of classes that are Alone has called.
NearestOf(given, e) ==
  IF e = DefaultCall THEN ~\E u \in overrideMap : Methods!Fits(u, given)
                     ELSE Methods!Nearest(e, given)
FreshIsNearest(d) ==
  /\ AloneAt(tableIndex[d.arguments[1]]) /\ AloneAt(tableIndex[d.arguments[2]])
  /\ d.fresh
  => NearestOf(d.arguments, d.method)

AllRegistered == \A o \in overrideMap : {o[1], o[2]} \subseteq Methods!Registered
CallIInv ==
  /\ overrideMap \subseteq Overrides /\ fired \in BOOLEAN /\ calls \in 0 .. MaxDispatches
  /\ ~fired => DOMAIN table = {}
  /\ fired => /\ AllRegistered /\ TableFits(table)
              /\ dispatched.arguments \in Methods!Registered \X Methods!Registered
              /\ dispatched.method \in Called
              /\ dispatched.method = table[Methods!Index(dispatched.arguments)]
              /\ FreshIsNearest(dispatched)

MethodsIInv == EntriesIInv /\ CallIInv

LEMMA ParentFacts ==
  /\ \A c \in Classes : Derives(c, c)
  /\ \A c, d, e \in Classes : Derives(c, d) /\ Derives(d, e) => Derives(c, e)
  /\ \A c, d, e \in Classes : Derives(c, d) /\ Derives(c, e) => Derives(d, e) \/ Derives(e, d)
  /\ \A c, d \in Classes : Derives(c, d) /\ Derives(d, c) => c = d
BY MethodsAssumption DEF Derives

LEMMA EntryFacts ==
  ASSUME EntriesIInv
  PROVE  /\ Len(childEntries) \in Nat /\ Places = 1 .. Len(childEntries)
         /\ Methods!Indices = 0 .. Len(childEntries) - 1
         /\ \A i \in Places : childEntries[i] \in Classes
         /\ \A i, j \in Places : childEntries[i] = childEntries[j] => i = j
         /\ \A c \in Methods!Registered :
              /\ c \in Classes /\ tableIndex[c] \in Methods!Indices
              /\ tableIndex[c] + 1 \in Places
              /\ Entry(tableIndex[c]) = c
         /\ \A c, d \in Methods!Registered : tableIndex[c] = tableIndex[d] => c = d
<1>1. /\ Len(childEntries) \in Nat /\ Places = 1 .. Len(childEntries)
      /\ \A i \in Places : childEntries[i] \in Classes
  BY LenProperties, ElementOfSeq DEF EntriesIInv, EntriesTyped, Places
<1>2. Methods!Indices = 0 .. Len(childEntries) - 1 BY DEF Methods!Indices
<1>3. ASSUME NEW i \in Places, NEW j \in Places, childEntries[i] = childEntries[j]
      PROVE  i = j
  <2>1. i <= j /\ j <= i
    BY <1>1, <1>3, ParentFacts DEF EntriesIInv, ParentsLast
  <2> QED BY <1>1, <2>1
<1>4. ASSUME NEW c \in Methods!Registered
      PROVE  /\ c \in Classes /\ tableIndex[c] \in Methods!Indices
             /\ tableIndex[c] + 1 \in Places /\ Entry(tableIndex[c]) = c
  <2>1. PICK i \in Places : c = childEntries[i]
    BY DEF Methods!Registered, Places
  <2>2. tableIndex[c] = i - 1 BY <2>1 DEF EntriesIInv, IndicesKnown
  <2>3. i \in 1 .. Len(childEntries) BY <1>1
  <2>4. tableIndex[c] + 1 = i BY <2>2, <2>3
  <2> QED BY <1>1, <1>2, <2>1, <2>2, <2>3, <2>4 DEF Entry
<1> QED BY <1>1, <1>2, <1>3, <1>4

\* A set of naturals that is not empty has a least element.
LEMMA LeastNatural ==
  ASSUME NEW T, T \subseteq Nat, T # {}
  PROVE  \E x \in T : \A y \in T : x <= y
<1> DEFINE R == OpToRel(<, Nat)
<1>1. IsWellFoundedOn(R, Nat) BY NatLessThanWellFounded
<1>2. \A x, y \in Nat : <<y, x>> \in R <=> y < x BY DEF OpToRel
<1> HIDE DEF R
<1>3. PICK x \in T : \A y \in T : <<y, x>> \notin R BY <1>1, WFMin
<1>4. \A y \in T : ~(y < x) BY <1>2, <1>3
<1> QED BY <1>3, <1>4

-----------------------------------------------------------------------------
\* Where the element at i was before another came to f.
Behind(f, i) == IF i < f THEN i ELSE i - 1

LEMMA Inserting ==
  ASSUME NEW S, NEW q \in Seq(S), NEW f \in 1 .. Len(q) + 1, NEW c \in S
  PROVE  LET r == Methods!InsertAt(q, f, c)
         IN  /\ r \in Seq(S) /\ Len(r) = Len(q) + 1 /\ r[f] = c
             /\ \A i \in 1 .. Len(q) + 1 : i # f => /\ Behind(f, i) \in 1 .. Len(q)
                                                   /\ r[i] = q[Behind(f, i)]
<1> DEFINE n == Len(q)
           left == SubSeq(q, 1, f - 1)
           right == SubSeq(q, f, n)
           start == left \o <<c>>
           r == start \o right
<1>1. n \in Nat /\ f \in Nat /\ 1 <= f /\ f <= n + 1 BY LenProperties
<1>2. left \in Seq(S) /\ Len(left) = f - 1 /\ \A i \in 1 .. f - 1 : left[i] = q[i]
  <2>1. 1 \in Int /\ f - 1 \in Int /\ \A i \in 1 .. f - 1 : i \in 1 .. n BY <1>1
  <2>2. /\ left \in Seq(S) /\ Len(left) = (IF 1 <= f - 1 THEN (f - 1) - 1 + 1 ELSE 0)
        /\ \A i \in 1 .. ((f - 1) - 1 + 1) : left[i] = q[1 + i - 1]
    BY <2>1, SubSeqProperties
  <2> QED BY <1>1, <2>2
<1>3. /\ right \in Seq(S) /\ Len(right) = n + 1 - f
      /\ \A i \in 1 .. n + 1 - f : right[i] = q[f + i - 1]
  <2>1. f \in Int /\ n \in Int /\ \A i \in f .. n : i \in 1 .. n BY <1>1
  <2>2. /\ right \in Seq(S) /\ Len(right) = (IF f <= n THEN n - f + 1 ELSE 0)
        /\ \A i \in 1 .. (n - f + 1) : right[i] = q[f + i - 1]
    BY <2>1, SubSeqProperties
  <2>3. n - f + 1 = n + 1 - f /\ (IF f <= n THEN n - f + 1 ELSE 0) = n + 1 - f BY <1>1
  <2> QED BY <2>2, <2>3
<1>4. <<c>> \in Seq(S) /\ Len(<<c>>) = 1 /\ <<c>>[1] = c OBVIOUS
<1> HIDE DEF left, right
<1>5. /\ start \in Seq(S) /\ Len(start) = f
      /\ start[f] = c /\ \A i \in 1 .. f - 1 : start[i] = q[i]
  <2>1. /\ start \in Seq(S) /\ Len(start) = Len(left) + Len(<<c>>)
        /\ \A i \in 1 .. Len(left) + Len(<<c>>) :
             start[i] = IF i <= Len(left) THEN left[i] ELSE <<c>>[i - Len(left)]
    BY <1>2, <1>4, ConcatProperties
  <2>2. Len(start) = f BY <1>1, <1>2, <1>4, <2>1
  <2>3. start[f] = c
    <3>1. f \in 1 .. Len(left) + Len(<<c>>) /\ ~(f <= Len(left)) /\ f - Len(left) = 1
      BY <1>1, <1>2, <1>4
    <3> QED BY <1>4, <2>1, <3>1
  <2>4. ASSUME NEW i \in 1 .. f - 1 PROVE start[i] = q[i]
    <3>1. i \in 1 .. Len(left) + Len(<<c>>) /\ i <= Len(left) BY <1>1, <1>2, <1>4
    <3> QED BY <1>2, <2>1, <3>1
  <2> QED BY <2>1, <2>2, <2>3, <2>4
<1> HIDE DEF start
<1>6. /\ r \in Seq(S) /\ Len(r) = f + (n + 1 - f)
      /\ \A i \in 1 .. f + (n + 1 - f) : r[i] = IF i <= f THEN start[i] ELSE right[i - f]
  <2>1. /\ r \in Seq(S) /\ Len(r) = Len(start) + Len(right)
        /\ \A i \in 1 .. Len(start) + Len(right) :
             r[i] = IF i <= Len(start) THEN start[i] ELSE right[i - Len(start)]
    BY <1>3, <1>5, ConcatProperties
  <2> QED BY <1>3, <1>5, <2>1
<1> HIDE DEF r
<1>7. Len(r) = n + 1 /\ r[f] = c
  <2>1. f \in 1 .. f + (n + 1 - f) /\ f <= f /\ f + (n + 1 - f) = n + 1 BY <1>1
  <2> QED BY <1>5, <1>6, <2>1
<1>8. ASSUME NEW i \in 1 .. n + 1, i # f
      PROVE  Behind(f, i) \in 1 .. n /\ r[i] = q[Behind(f, i)]
  <2>0. i \in 1 .. f + (n + 1 - f) BY <1>1
  <2>1. CASE i < f
    <3>1. i \in 1 .. f - 1 /\ i <= f /\ Behind(f, i) = i /\ i \in 1 .. n
      BY <1>1, <2>1 DEF Behind
    <3> QED BY <1>5, <1>6, <2>0, <3>1
  <2>2. CASE ~(i < f)
    <3>1. /\ ~(i <= f) /\ i - f \in 1 .. n + 1 - f /\ f + (i - f) - 1 = i - 1
          /\ Behind(f, i) = i - 1 /\ i - 1 \in 1 .. n
      BY <1>1, <1>8, <2>2 DEF Behind
    <3> QED BY <1>3, <1>6, <2>0, <3>1
  <2> QED BY <2>1, <2>2
<1>9. r = Methods!InsertAt(q, f, c) BY DEF r, start, left, right, Methods!InsertAt
<1> QED BY <1>6, <1>7, <1>8, <1>9

\* virtual_object_register_child() finds the first of the parents.
LEMMA FirstParentFacts ==
  ASSUME EntriesIInv, NEW c \in Classes
  PROVE  LET f == Methods!FirstParent(c)
         IN  /\ f \in 1 .. Len(childEntries) + 1
             /\ \A i \in Places : Derives(c, childEntries[i]) => f <= i
             /\ f # Len(childEntries) + 1 => f \in Places /\ Derives(c, childEntries[f])
<1> DEFINE found == {i \in Places : Derives(c, childEntries[i])}
           f == Methods!FirstParent(c)
<1>1. f = IF found = {} THEN Len(childEntries) + 1
          ELSE CHOOSE i \in found : \A j \in found : i <= j
  BY DEF Methods!FirstParent, Derives, Places
<1>2. Len(childEntries) \in Nat /\ Places = 1 .. Len(childEntries) BY EntryFacts
<1>3. found \subseteq Places OBVIOUS
<1>4. CASE found = {}
  <2>1. f = Len(childEntries) + 1 BY <1>1, <1>4
  <2>2. \A i \in Places : ~Derives(c, childEntries[i]) BY <1>4
  <2> HIDE DEF f, found
  <2> QED BY <1>2, <2>1, <2>2 DEF f
<1>5. CASE found # {}
  <2>1. found \subseteq Nat BY <1>2
  <2> HIDE DEF found
  <2>2. \E i \in found : \A j \in found : i <= j BY <1>5, <2>1, LeastNatural
  <2>3. f \in found /\ \A j \in found : f <= j BY <1>1, <1>5, <2>2
  <2>4. f \in Places /\ Derives(c, childEntries[f])
        /\ \A j \in Places : Derives(c, childEntries[j]) => f <= j
    BY <2>3 DEF found
  <2> HIDE DEF f
  <2> QED BY <1>2, <2>4 DEF f
<1> QED BY <1>4, <1>5

LEMMA RegisterChildKeeps ==
  ASSUME MethodsIInv, NEW c \in Classes, Methods!RegisterChild(c)
  PROVE  MethodsIInv'
<1> DEFINE n == Len(childEntries)  f == Methods!FirstParent(c)  old(i) == Behind(f, i)
<1>0. EntriesIInv /\ CallIInv BY DEF MethodsIInv
<1>1. /\ c \notin Methods!Registered /\ ~fired
      /\ childEntries' = Methods!InsertAt(childEntries, f, c)
      /\ tableIndex' = [d \in Classes |->
           CASE d = c -> f - 1
             [] d \in Methods!Registered /\ tableIndex[d] >= f - 1 -> tableIndex[d] + 1
             [] OTHER -> tableIndex[d]]
      /\ UNCHANGED <<overrideMap, table, fired, dispatched, calls>>
  BY DEF Methods!RegisterChild
<1>2. /\ n \in Nat /\ Places = 1 .. n /\ childEntries \in Seq(Classes)
      /\ tableIndex \in [Classes -> Int]
      /\ \A i \in Places : childEntries[i] \in Classes /\ tableIndex[childEntries[i]] = i - 1
  BY <1>0, EntryFacts DEF EntriesIInv, EntriesTyped, IndicesKnown
<1>3. /\ f \in 1 .. n + 1
      /\ \A i \in Places : Derives(c, childEntries[i]) => f <= i
      /\ f # n + 1 => f \in Places /\ Derives(c, childEntries[f])
  BY <1>0, FirstParentFacts
<1>4. f \in Int /\ 1 <= f BY <1>2, <1>3
<1>5. /\ childEntries' \in Seq(Classes) /\ Len(childEntries') = n + 1
      /\ childEntries'[f] = c
      /\ \A i \in 1 .. n + 1 : i # f => /\ old(i) \in Places
                                        /\ childEntries'[i] = childEntries[old(i)]
  <2>1. childEntries \in Seq(Classes) /\ Places = 1 .. Len(childEntries) BY <1>2
  <2>2. f \in 1 .. Len(childEntries) + 1 BY <1>3
  <2> DEFINE r == Methods!InsertAt(childEntries, f, c)
  <2>3. childEntries' = r BY <1>1
  <2> HIDE DEF f
  <2>4. /\ r \in Seq(Classes) /\ Len(r) = Len(childEntries) + 1 /\ r[f] = c
        /\ \A i \in 1 .. Len(childEntries) + 1 :
             i # f => /\ Behind(f, i) \in 1 .. Len(childEntries)
                      /\ r[i] = childEntries[Behind(f, i)]
    BY <2>1, <2>2, Inserting
  <2> HIDE DEF r
  <2> QED BY <2>1, <2>3, <2>4
<1>6. Places' = 1 .. n + 1 BY <1>5, LenProperties DEF Places
<1> HIDE DEF f
<1>7. \A i, j \in 1 .. n + 1 : i # f /\ j # f => (old(i) <= old(j) => i <= j)
  BY <1>2, <1>4 DEF Behind
<1>8. \A i \in 1 .. n + 1 : /\ i < f => old(i) = i
                            /\ i > f => old(i) = i - 1 /\ old(i) >= f
  BY <1>2, <1>4 DEF Behind
<1> HIDE DEF old
<1>9. \A i \in Places : childEntries[i] # c
  BY <1>1 DEF Methods!Registered, Places
<1>10. EntriesTyped'
  <2>1. ASSUME NEW d \in Classes PROVE tableIndex'[d] \in Int
    <3>1. CASE d = c
      <4>1. tableIndex'[d] = f - 1 BY <1>1, <3>1
      <4> QED BY <1>4, <4>1
    <3>2. CASE d # c /\ d \in Methods!Registered /\ tableIndex[d] >= f - 1
      <4>1. tableIndex'[d] = tableIndex[d] + 1 BY <1>1, <3>2
      <4> QED BY <1>2, <4>1
    <3>3. CASE d # c /\ ~(d \in Methods!Registered /\ tableIndex[d] >= f - 1)
      <4>1. tableIndex'[d] = tableIndex[d] BY <1>1, <3>3
      <4> QED BY <1>2, <4>1
    <3> QED BY <3>1, <3>2, <3>3
  <2>2. tableIndex' = [d \in Classes |-> tableIndex'[d]] BY <1>1
  <2> QED BY <1>5, <2>1, <2>2 DEF EntriesTyped
<1>11. ASSUME NEW i \in 1 .. n + 1 PROVE tableIndex'[childEntries'[i]] = i - 1
  <2>1. CASE i = f BY <1>1, <1>5, <2>1
  <2>2. CASE i # f
    <3> DEFINE d == childEntries'[i]
    <3>1. /\ d \in Classes /\ d # c /\ d \in Methods!Registered
          /\ tableIndex[d] = old(i) - 1 /\ old(i) \in Int
      BY <1>2, <1>5, <1>9, <2>2 DEF Methods!Registered, Places
    <3> HIDE DEF d
    <3>2. CASE i < f
      <4>1. ~(tableIndex[d] >= f - 1) BY <1>4, <1>8, <2>2, <3>1, <3>2
      <4>2. tableIndex'[d] = tableIndex[d] BY <1>1, <3>1, <4>1
      <4> QED BY <1>8, <2>2, <3>1, <3>2, <4>2 DEF d
    <3>3. CASE ~(i < f)
      <4>1. i > f BY <1>4, <2>2, <3>3
      <4>2. old(i) = i - 1 /\ tableIndex[d] >= f - 1 BY <1>4, <1>8, <2>2, <3>1, <4>1
      <4>3. tableIndex'[d] = tableIndex[d] + 1 BY <1>1, <3>1, <4>2
      <4> QED BY <3>1, <4>2, <4>3 DEF d
    <3> QED BY <3>2, <3>3
  <2> QED BY <2>1, <2>2
<1>12. ASSUME NEW d \in Classes, d \notin Methods!Registered' PROVE tableIndex'[d] = -1
  <2>1. \A i \in 1 .. n + 1 : childEntries'[i] # d
    BY <1>6, <1>12 DEF Methods!Registered, Places
  <2>2. d # c BY <1>3, <1>5, <2>1
  <2>3. d \notin Methods!Registered
    <3> SUFFICES ASSUME NEW k \in Places, childEntries[k] = d PROVE FALSE
      BY DEF Methods!Registered, Places
    <3> DEFINE i == IF k < f THEN k ELSE k + 1
    <3>1. i \in 1 .. n + 1 /\ i # f /\ old(i) = k
      BY <1>2, <1>4 DEF old, Behind
    <3> QED BY <1>5, <2>1, <3>1
  <2>4. tableIndex'[d] = tableIndex[d] BY <1>1, <2>2, <2>3
  <2> QED BY <1>0, <2>3, <2>4 DEF EntriesIInv, IndicesKnown
<1>13. IndicesKnown' BY <1>6, <1>11, <1>12 DEF IndicesKnown
<1>14. ASSUME NEW i \in 1 .. n + 1, NEW j \in 1 .. n + 1,
              Derives(childEntries'[i], childEntries'[j])
       PROVE  i <= j
  <2>1. CASE i = f /\ j = f BY <1>4, <2>1
  <2>2. CASE i # f /\ j # f
    <3>1. old(i) <= old(j)
      BY <1>0, <1>5, <1>14, <2>2 DEF EntriesIInv, ParentsLast
    <3> QED BY <1>7, <2>2, <3>1
  <2>3. CASE i = f /\ j # f
    <3>1. old(j) \in Places /\ f <= old(j) BY <1>3, <1>5, <1>14, <2>3
    <3>2. ~(j < f) BY <1>2, <1>4, <1>8, <2>3, <3>1
    <3> QED BY <1>2, <1>4, <2>3, <3>2
  <2>4. CASE i # f /\ j = f
    <3>1. SUFFICES ASSUME ~(i < f) PROVE FALSE BY <1>2, <1>4, <2>4
    <3>2. old(i) \in Places /\ old(i) >= f /\ childEntries'[i] = childEntries[old(i)]
      BY <1>2, <1>4, <1>5, <1>8, <2>4, <3>1
    <3>3. f # n + 1 BY <1>2, <1>4, <3>2
    <3>4. f \in Places /\ Derives(c, childEntries[f]) BY <1>3, <3>3
    <3>5. Derives(childEntries[old(i)], c) BY <1>5, <1>14, <2>4, <3>2
    <3>6. Derives(childEntries[old(i)], childEntries[f])
      BY <1>2, <3>2, <3>4, <3>5, ParentFacts
    <3>7. old(i) <= f BY <1>0, <3>2, <3>4, <3>6 DEF EntriesIInv, ParentsLast
    <3>8. old(i) = f BY <1>2, <1>4, <3>2, <3>7
    <3>9. c = childEntries[f] BY <1>2, <3>4, <3>5, <3>8, ParentFacts
    <3> QED BY <1>9, <3>4, <3>9
  <2> QED BY <2>1, <2>2, <2>3, <2>4
<1>15. ParentsLast' BY <1>6, <1>14 DEF ParentsLast, Derives
<1>16. CallIInv' BY <1>0, <1>1 DEF CallIInv
<1> QED BY <1>10, <1>13, <1>15, <1>16 DEF MethodsIInv, EntriesIInv

LEMMA RegisterOverrideKeeps ==
  ASSUME MethodsIInv, NEW o \in Overrides, Methods!RegisterOverride(o)
  PROVE  MethodsIInv'
<1>1. EntriesIInv'
  BY DEF Methods!RegisterOverride, MethodsIInv, EntriesIInv, EntriesTyped, IndicesKnown,
         ParentsLast, Places, Methods!Registered
<1>2. CallIInv' BY DEF Methods!RegisterOverride, MethodsIInv, CallIInv
<1> QED BY <1>1, <1>2 DEF MethodsIInv

-----------------------------------------------------------------------------
\* A class that comes after one that is alone is one of its parents, and alone.
LEMMA AloneLater ==
  ASSUME EntriesIInv, NEW i \in Methods!Indices, NEW k \in Methods!Indices, AloneAt(i), i <= k
  PROVE  AloneAt(k) /\ Derives(Entry(i), Entry(k))
<1> DEFINE n == Len(childEntries)
<1>1. /\ n \in Nat /\ Places = 1 .. n /\ Methods!Indices = 0 .. n - 1
      /\ \A j \in Places : childEntries[j] \in Classes
  BY EntryFacts
<1>2. i + 1 \in Places /\ k + 1 \in Places BY <1>1
<1>3. Derives(Entry(i), Entry(k))
  <2>1. CASE i = k BY <1>1, <1>2, <2>1, ParentFacts DEF Entry
  <2>2. CASE i # k
    <3>1. k + 1 \in i + 2 .. n BY <1>1, <2>2
    <3> QED BY <3>1 DEF AloneAt, Entry
  <2> QED BY <2>1, <2>2
<1>4. ASSUME NEW m \in k + 2 .. n PROVE Derives(Entry(k), childEntries[m])
  <2>1. m \in i + 2 .. n /\ m \in Places /\ ~(m <= k + 1) BY <1>1
  <2>2. Derives(Entry(i), childEntries[m]) BY <2>1 DEF AloneAt
  <2>3. Derives(Entry(k), childEntries[m]) \/ Derives(childEntries[m], Entry(k))
    BY <1>1, <1>2, <1>3, <2>1, <2>2, ParentFacts DEF Entry
  <2>4. ~Derives(childEntries[m], Entry(k))
    BY <1>2, <2>1 DEF EntriesIInv, ParentsLast, Entry
  <2> QED BY <2>3, <2>4
<1> QED BY <1>3, <1>4 DEF AloneAt

\* Without a new class or override, what fits goes on fitting.
LEMMA Settled ==
  ASSUME UNCHANGED <<childEntries, tableIndex, overrideMap>>
  PROVE  /\ TableFits(table') => TableFits(table)'
         /\ EntriesIInv => EntriesIInv'
         /\ AllRegistered => AllRegistered'
         /\ Methods!Registered' = Methods!Registered
         /\ \A o : Methods!Index(o)' = Methods!Index(o)
<1>1. Methods!Indices' = Methods!Indices /\ Methods!Registered' = Methods!Registered
  BY DEF Methods!Indices, Methods!Registered
<1>2. \A o : Methods!Index(o)' = Methods!Index(o) BY DEF Methods!Index
<1>3. \A i : (AloneAt(i)' <=> AloneAt(i)) /\ Entry(i)' = Entry(i) BY DEF AloneAt, Entry
<1>4. TableFits(table') => TableFits(table)' BY <1>1, <1>2, <1>3 DEF TableFits
<1>5. EntriesTyped => EntriesTyped' BY DEF EntriesTyped
<1>6. IndicesKnown => IndicesKnown' BY <1>1 DEF IndicesKnown, Places
<1>7. ParentsLast => ParentsLast' BY DEF ParentsLast, Places
<1>8. AllRegistered => AllRegistered' BY <1>1 DEF AllRegistered
<1> QED BY <1>1, <1>2, <1>4, <1>5, <1>6, <1>7, <1>8 DEF EntriesIInv

\* virtual_method_prepare_table() puts each override at the indices of its
\* classes.
LEMMA PreparedFits ==
  ASSUME MethodsIInv, AllRegistered
  PROVE  TableFits(Methods!Prepared)
<1> DEFINE t == Methods!Prepared  All == Methods!Indices \X Methods!Indices
<1>0. EntriesIInv /\ CallIInv BY DEF MethodsIInv
<1>1. CASE fired BY <1>0, <1>1 DEF Methods!Prepared, CallIInv
<1>2. CASE ~fired
  <2>1. t = [at \in All |->
               IF \E o \in overrideMap : Methods!Index(o) = at
               THEN CHOOSE o \in overrideMap : Methods!Index(o) = at ELSE None]
    BY <1>2 DEF Methods!Prepared
  <2>2. \A o \in overrideMap : /\ o \in Overrides /\ o = <<o[1], o[2]>>
                              /\ o[1] \in Methods!Registered /\ o[2] \in Methods!Registered
    BY <1>0, MethodsAssumption DEF CallIInv, AllRegistered
  <2>3. \A o \in overrideMap :
          /\ Methods!Index(o) = <<tableIndex[o[1]], tableIndex[o[2]]>>
          /\ tableIndex[o[1]] \in Methods!Indices /\ tableIndex[o[2]] \in Methods!Indices
          /\ Entry(tableIndex[o[1]]) = o[1] /\ Entry(tableIndex[o[2]]) = o[2]
    BY <1>0, <2>2, EntryFacts DEF Methods!Index
  <2>4. \A o, u \in overrideMap : Methods!Index(o) = Methods!Index(u) => o = u
    <3> SUFFICES ASSUME NEW o \in overrideMap, NEW u \in overrideMap,
                        Methods!Index(o) = Methods!Index(u)
                 PROVE  o = u
      OBVIOUS
    <3>1. tableIndex[o[1]] = tableIndex[u[1]] /\ tableIndex[o[2]] = tableIndex[u[2]]
      BY <2>3
    <3>2. o[1] = u[1] /\ o[2] = u[2] BY <1>0, <2>2, <3>1, EntryFacts
    <3> QED BY <2>2, <3>2
  <2> HIDE DEF t, All
  <2>5. ASSUME NEW p \in All
        PROVE  \/ t[p] = None
               \/ t[p] \in overrideMap /\ Methods!Index(t[p]) = p
    <3>1. CASE \E o \in overrideMap : Methods!Index(o) = p
      <4>1. t[p] = CHOOSE o \in overrideMap : Methods!Index(o) = p BY <2>1, <3>1
      <4> QED BY <3>1, <4>1
    <3>2. CASE ~(\E o \in overrideMap : Methods!Index(o) = p) BY <2>1, <3>2
    <3> QED BY <3>1, <3>2
  <2>6. t \in [All -> Called \union {None}]
    <3>1. \A p \in All : t[p] \in Called \union {None} BY <2>2, <2>5 DEF Called
    <3>2. t = [p \in All |-> t[p]] BY <2>1
    <3> QED BY <3>1, <3>2
  <2>7. ASSUME NEW o \in overrideMap PROVE t[Methods!Index(o)] = o
    <3>1. Methods!Index(o) \in All BY <2>3 DEF All
    <3>2. t[Methods!Index(o)] = CHOOSE u \in overrideMap : Methods!Index(u) = Methods!Index(o)
      BY <2>1, <3>1
    <3>3. \A u \in overrideMap : Methods!Index(u) = Methods!Index(o) => u = o BY <2>4
    <3> QED BY <3>2, <3>3
  <2>8. ASSUME NEW p \in All, t[p] \in Overrides
        PROVE  Derives(Entry(p[1]), t[p][1]) /\ Derives(Entry(p[2]), t[p][2])
    <3>1. t[p] \in overrideMap /\ Methods!Index(t[p]) = p
      BY <2>5, <2>8, MethodsAssumption
    <3>2. p[1] = tableIndex[t[p][1]] /\ p[2] = tableIndex[t[p][2]] BY <2>3, <3>1
    <3>3. Entry(p[1]) = t[p][1] /\ Entry(p[2]) = t[p][2] BY <2>3, <3>1, <3>2
    <3>4. t[p][1] \in Classes /\ t[p][2] \in Classes
      BY <1>0, <2>2, <3>1, EntryFacts
    <3> QED BY <3>3, <3>4, ParentFacts
  <2> QED BY <2>6, <2>7, <2>8 DEF TableFits, All, t
<1> QED BY <1>1, <1>2

\* The two loops stop at an entry that is filled, if there is one.
LEMMA FirstFound ==
  ASSUME NEW n \in Nat, NEW T, T \subseteq (0 .. n) \X (0 .. n), T # {}
  PROVE  \E p \in T : \A q \in T : p = q \/ Methods!Before(p, q)
<1> DEFINE Firsts == {p[1] : p \in T}
<1>1. \A p \in T : p[1] \in Nat /\ p[2] \in Nat /\ p = <<p[1], p[2]>> OBVIOUS
<1>2. Firsts \subseteq Nat /\ Firsts # {} BY <1>1
<1> HIDE DEF Firsts
<1>3. PICK x \in Firsts : \A y \in Firsts : x <= y BY <1>2, LeastNatural
<1> DEFINE Seconds == {p[2] : p \in {q \in T : q[1] = x}}
<1>4. Seconds \subseteq Nat BY <1>1
<1>5. Seconds # {} BY <1>3 DEF Firsts
<1> HIDE DEF Seconds
<1>6. PICK z \in Seconds : \A y \in Seconds : z <= y BY <1>4, <1>5, LeastNatural
<1>7. PICK p \in T : p[1] = x /\ p[2] = z BY <1>6 DEF Seconds
<1>8. ASSUME NEW q \in T PROVE p = q \/ Methods!Before(p, q)
  <2>1. x <= q[1] BY <1>3 DEF Firsts
  <2>2. q[1] = x => z <= q[2] BY <1>6 DEF Seconds
  <2>3. /\ q = <<q[1], q[2]>> /\ p = <<p[1], p[2]>> /\ q[1] \in Nat /\ q[2] \in Nat
        /\ x \in Nat /\ z \in Nat
    BY <1>1, <1>7
  <2>4. x < q[1] \/ (x = q[1] /\ z < q[2]) \/ (x = q[1] /\ z = q[2])
    BY <2>1, <2>2, <2>3
  <2> QED BY <1>7, <2>3, <2>4 DEF Methods!Before
<1> QED BY <1>8

\* What fills an entry was found at one that is not before it.
LEMMA Filled ==
  ASSUME EntriesIInv, NEW t \in [Methods!Indices \X Methods!Indices -> Called \union {None}],
         NEW i \in Methods!Indices, NEW j \in Methods!Indices
  PROVE  LET e == Methods!FillEntry(t, <<i, j>>)
         IN  \/ e = DefaultCall
             \/ \E k, l \in Methods!Indices : /\ i <= k /\ j <= l
                                              /\ e = t[<<k, l>>] /\ e # None
<1> DEFINE found == {p \in Methods!Looked(i) \X Methods!Looked(j) : t[p] # None}
           first == CHOOSE p \in found : \A q \in found : p = q \/ Methods!Before(p, q)
<1>1. Methods!FillEntry(t, <<i, j>>) = IF found = {} THEN DefaultCall ELSE t[first]
  BY DEF Methods!FillEntry
<1>2. CASE found = {} BY <1>1, <1>2
<1>3. CASE found # {}
  <2>1. Len(childEntries) \in Nat /\ Methods!Indices \subseteq 0 .. Len(childEntries)
    BY EntryFacts
  <2>2. found \subseteq (0 .. Len(childEntries)) \X (0 .. Len(childEntries))
    BY <2>1 DEF Methods!Looked
  <2>3. \A p \in found : /\ p[1] \in Methods!Indices /\ p[2] \in Methods!Indices
                         /\ i <= p[1] /\ j <= p[2] /\ p = <<p[1], p[2]>> /\ t[p] # None
    BY DEF Methods!Looked
  <2> HIDE DEF found
  <2>4. first \in found BY <1>3, <2>1, <2>2, FirstFound
  <2> HIDE DEF first
  <2>5. Methods!FillEntry(t, <<i, j>>) = t[first] BY <1>1, <1>3
  <2> QED BY <2>3, <2>4, <2>5
<1> QED BY <1>2, <1>3

\* A call fills one entry, and what it fills it with fits.
LEMMA TableFilled ==
  ASSUME EntriesIInv, AllRegistered, NEW t, TableFits(t),
         overrideMap \subseteq Overrides,
         NEW i \in Methods!Indices, NEW j \in Methods!Indices,
         t[<<i, j>>] = None
  PROVE  LET e == Methods!FillEntry(t, <<i, j>>)
         IN  TableFits([t EXCEPT ![<<i, j>>] = e]) /\ e \in Called
<1> DEFINE All == Methods!Indices \X Methods!Indices
           at == <<i, j>>
           e == Methods!FillEntry(t, at)
           u == [t EXCEPT ![at] = e]
<1>1. t \in [All -> Called \union {None}] BY DEF TableFits
<1>2. at \in All /\ at[1] = i /\ at[2] = j OBVIOUS
<1>3. \/ e = DefaultCall
      \/ \E k, l \in Methods!Indices : /\ i <= k /\ j <= l
                                       /\ e = t[<<k, l>>] /\ e # None
  BY <1>1, Filled
<1> HIDE DEF e
<1>4. e \in Called
  <2>1. CASE e = DefaultCall BY <2>1 DEF Called
  <2>2. CASE e # DefaultCall
    <3>1. PICK k \in Methods!Indices, l \in Methods!Indices :
            e = t[<<k, l>>] /\ e # None
      BY <1>3, <2>2
    <3>2. <<k, l>> \in All OBVIOUS
    <3> HIDE DEF All
    <3> QED BY <1>1, <3>1, <3>2
  <2> QED BY <2>1, <2>2
<1> HIDE DEF All, at
<1>5. u \in [All -> Called \union {None}] /\ u[at] = e
      /\ \A p \in All : p # at => u[p] = t[p]
  BY <1>1, <1>2, <1>4
<1>6. ASSUME NEW o \in overrideMap PROVE u[Methods!Index(o)] = o
  <2>1. o # None /\ {o[1], o[2]} \subseteq Methods!Registered
    BY MethodsAssumption DEF AllRegistered
  <2>2. Methods!Index(o) \in All
    BY <2>1, EntryFacts DEF Methods!Index, All
  <2>3. t[Methods!Index(o)] = o BY DEF TableFits
  <2>4. Methods!Index(o) # at BY <2>1, <2>3 DEF at
  <2> QED BY <1>5, <2>2, <2>3, <2>4
<1>7. ASSUME NEW p \in All, u[p] \in Overrides, AloneAt(p[1]), AloneAt(p[2])
      PROVE  Derives(Entry(p[1]), u[p][1]) /\ Derives(Entry(p[2]), u[p][2])
  <2>1. CASE p # at
    <3>1. u[p] = t[p] BY <1>5, <2>1
    <3> QED BY <1>7, <3>1 DEF TableFits, All
  <2>2. CASE p = at
    <3>1. u[p] = e /\ p[1] = i /\ p[2] = j BY <1>2, <1>5, <2>2
    <3>2. e # DefaultCall /\ e \in Overrides BY <1>7, <3>1, MethodsAssumption
    <3>3. PICK k \in Methods!Indices, l \in Methods!Indices :
            i <= k /\ j <= l /\ e = t[<<k, l>>]
      BY <1>3, <3>2
    <3>4. /\ AloneAt(k) /\ Derives(Entry(i), Entry(k))
          /\ AloneAt(l) /\ Derives(Entry(j), Entry(l))
      BY <1>7, <3>1, <3>3, AloneLater
    <3> DEFINE q == <<k, l>>
    <3>5. q \in All /\ q[1] = k /\ q[2] = l BY DEF All
    <3>6. Derives(Entry(k), e[1]) /\ Derives(Entry(l), e[2])
      <4>1. t[q] = e BY <3>3
      <4> HIDE DEF q
      <4> QED BY <3>2, <3>4, <3>5, <4>1 DEF TableFits, All
    <3>7. /\ Entry(i) \in Classes /\ Entry(j) \in Classes
          /\ Entry(k) \in Classes /\ Entry(l) \in Classes
      <4>1. \A m \in Methods!Indices : m + 1 \in Places BY EntryFacts
      <4>2. \A m \in Methods!Indices : Entry(m) \in Classes BY <4>1, EntryFacts DEF Entry
      <4> QED BY <4>2
    <3>8. e[1] \in Classes /\ e[2] \in Classes BY <3>2, MethodsAssumption
    <3> QED BY <3>1, <3>4, <3>6, <3>7, <3>8, ParentFacts
  <2> QED BY <2>1, <2>2
<1> HIDE DEF u
<1>8. TableFits(u) BY <1>5, <1>6, <1>7 DEF TableFits, All
<1> QED BY <1>4, <1>8 DEF u, e, at

\* Where no earlier call has filled an entry that this one looks at, it finds the
\* nearest of the overrides that fit.
LEMMA FreshFinds ==
  ASSUME EntriesIInv, AllRegistered, NEW t, TableFits(t), overrideMap \subseteq Overrides,
         NEW a \in Methods!Registered, NEW b \in Methods!Registered,
         AloneAt(tableIndex[a]), AloneAt(tableIndex[b]),
         \A p \in Methods!Looked(tableIndex[a]) \X Methods!Looked(tableIndex[b]) :
           t[p] # None => \E o \in overrideMap : Methods!Index(o) = p
  PROVE  LET at == Methods!Index(<<a, b>>)
         IN  NearestOf(<<a, b>>, IF t[at] # None THEN t[at] ELSE Methods!FillEntry(t, at))
<1> DEFINE i == tableIndex[a]  j == tableIndex[b]
           given == <<a, b>>
           at == Methods!Index(given)
           found == {p \in Methods!Looked(i) \X Methods!Looked(j) : t[p] # None}
           first == CHOOSE p \in found : \A q \in found : p = q \/ Methods!Before(p, q)
<1>1. at = <<i, j>> BY DEF Methods!Index
<1>2. /\ a \in Classes /\ b \in Classes /\ i \in Methods!Indices /\ j \in Methods!Indices
      /\ Entry(i) = a /\ Entry(j) = b /\ i + 1 \in Places /\ j + 1 \in Places
  BY EntryFacts
<1>3. /\ Len(childEntries) \in Nat /\ Places = 1 .. Len(childEntries)
      /\ Methods!Indices = 0 .. Len(childEntries) - 1
      /\ \A k \in Places : childEntries[k] \in Classes
  BY EntryFacts
<1>4. ASSUME NEW o \in overrideMap
      PROVE  /\ o[1] \in Methods!Registered /\ o[2] \in Methods!Registered
             /\ o = <<o[1], o[2]>> /\ o \in Called /\ o # DefaultCall /\ o # None
             /\ Methods!Index(o) = <<tableIndex[o[1]], tableIndex[o[2]]>>
             /\ t[Methods!Index(o)] = o
  <2>1. o \in Classes \X Classes /\ o \in Overrides BY MethodsAssumption
  <2> QED BY <2>1, MethodsAssumption DEF AllRegistered, TableFits, Called, Methods!Index
\* Entries from that of c on, which is Alone, are those of its parents.
<1>5. ASSUME NEW c \in Methods!Registered, AloneAt(tableIndex[c])
      PROVE  /\ \A k \in Methods!Looked(tableIndex[c]) :
                   k \in Methods!Indices /\ Derives(c, Entry(k))
             /\ \A d \in Methods!Registered :
                   Derives(c, d) => tableIndex[d] \in Methods!Looked(tableIndex[c])
  <2> DEFINE s == tableIndex[c]
  <2>1. c \in Classes /\ s \in Methods!Indices /\ s + 1 \in Places /\ Entry(s) = c
    BY EntryFacts
  <2>2. ASSUME NEW k \in Methods!Looked(s)
        PROVE  k \in Methods!Indices /\ Derives(c, Entry(k))
    <3>1. k \in Methods!Indices /\ s <= k BY DEF Methods!Looked
    <3>2. CASE k = s BY <2>1, <3>1, <3>2, ParentFacts
    <3>3. CASE k # s
      <4>1. k + 1 \in s + 2 .. Len(childEntries) BY <1>3, <2>1, <3>1, <3>3
      <4>2. Derives(Entry(s), childEntries[k + 1]) BY <1>5, <4>1 DEF AloneAt
      <4> QED BY <2>1, <3>1, <4>2 DEF Entry
    <3> QED BY <3>2, <3>3
  <2>3. ASSUME NEW d \in Methods!Registered, Derives(c, d)
        PROVE  tableIndex[d] \in Methods!Looked(s)
    <3>1. /\ d \in Classes /\ tableIndex[d] \in Methods!Indices
          /\ tableIndex[d] + 1 \in Places /\ Entry(tableIndex[d]) = d
      BY EntryFacts
    <3>2. s + 1 <= tableIndex[d] + 1
      BY <2>1, <2>3, <3>1 DEF EntriesIInv, ParentsLast, Entry
    <3>3. s <= tableIndex[d] BY <1>3, <2>1, <3>1, <3>2
    <3>4. ASSUME NEW k \in s + 1 .. tableIndex[d] - 1
          PROVE  childEntries[k + 1] \in Methods!Parents[childEntries[s + 1]]
      <4>1. k + 1 \in s + 2 .. Len(childEntries) BY <1>3, <2>1, <3>1
      <4> QED BY <1>5, <4>1 DEF AloneAt, Derives, Entry
    <3> QED BY <3>1, <3>3, <3>4 DEF Methods!Looked
  <2> QED BY <2>2, <2>3
\* An override that fits is where the loops look.
<1>6. ASSUME NEW u \in overrideMap, Methods!Fits(u, given)
      PROVE  Methods!Index(u) \in found
  <2>1. Derives(a, u[1]) /\ Derives(b, u[2]) BY <1>6 DEF Methods!Fits, Derives
  <2>2. tableIndex[u[1]] \in Methods!Looked(i) /\ tableIndex[u[2]] \in Methods!Looked(j)
    BY <1>4, <1>5, <2>1
  <2> QED BY <1>4, <2>2
\* And what is there is an override that fits.
<1>7. ASSUME NEW p \in found
      PROVE  /\ p = <<p[1], p[2]>> /\ p[1] \in Methods!Indices /\ p[2] \in Methods!Indices
             /\ t[p] \in overrideMap /\ Methods!Index(t[p]) = p
             /\ Methods!Fits(t[p], given)
  <2>1. /\ p[1] \in Methods!Looked(i) /\ p[2] \in Methods!Looked(j)
        /\ p = <<p[1], p[2]>> /\ t[p] # None
    OBVIOUS
  <2>2. PICK o \in overrideMap : Methods!Index(o) = p BY <2>1
  <2>3. t[p] = o BY <1>4, <2>2
  <2>4. /\ p[1] \in Methods!Indices /\ Derives(a, Entry(p[1]))
        /\ p[2] \in Methods!Indices /\ Derives(b, Entry(p[2]))
    BY <1>5, <2>1
  <2>5. Entry(p[1]) = o[1] /\ Entry(p[2]) = o[2]
    <3>1. p[1] = tableIndex[o[1]] /\ p[2] = tableIndex[o[2]] BY <1>4, <2>2
    <3> QED BY <1>4, <3>1, EntryFacts
  <2> QED BY <2>1, <2>2, <2>3, <2>4, <2>5 DEF Methods!Fits, Derives
\* The first of them is the nearest, because children are before their parents.
<1>8. ASSUME NEW p \in found, \A q \in found : p = q \/ Methods!Before(p, q)
      PROVE  Methods!Nearest(t[p], given)
  <2> DEFINE o == t[p]
  <2>1. /\ o \in overrideMap /\ Methods!Index(o) = p /\ Methods!Fits(o, given)
        /\ p = <<p[1], p[2]>> /\ p[1] \in Methods!Indices /\ p[2] \in Methods!Indices
    BY <1>7
  <2> HIDE DEF o
  <2>2. ASSUME NEW u \in overrideMap, Methods!Fits(u, given), o[1] \in Methods!Parents[u[1]]
        PROVE  o[1] = u[1] /\ (o[2] \in Methods!Parents[u[2]] => o[2] = u[2])
    <3> DEFINE q == Methods!Index(u)
    <3>1. q \in found BY <1>6, <2>2
    <3>2. /\ p[1] = tableIndex[o[1]] /\ p[2] = tableIndex[o[2]]
          /\ q[1] = tableIndex[u[1]] /\ q[2] = tableIndex[u[2]]
      BY <1>4, <2>1
    <3>3. /\ o[1] \in Methods!Registered /\ u[1] \in Methods!Registered
          /\ o[2] \in Methods!Registered /\ u[2] \in Methods!Registered
      BY <1>4, <2>1
    <3>4. p = q \/ p[1] < q[1] \/ (p[1] = q[1] /\ p[2] < q[2])
      BY <1>8, <3>1 DEF Methods!Before
    <3> HIDE DEF q, found
    <3>5. \A c, d \in Methods!Registered : Derives(c, d) => tableIndex[c] <= tableIndex[d]
      <4> SUFFICES ASSUME NEW c \in Methods!Registered, NEW d \in Methods!Registered,
                          Derives(c, d)
                   PROVE  tableIndex[c] <= tableIndex[d]
        OBVIOUS
      <4>1. /\ tableIndex[c] \in Methods!Indices /\ tableIndex[c] + 1 \in Places
            /\ tableIndex[d] \in Methods!Indices /\ tableIndex[d] + 1 \in Places
            /\ Entry(tableIndex[c]) = c /\ Entry(tableIndex[d]) = d
        BY EntryFacts
      <4>2. tableIndex[c] + 1 <= tableIndex[d] + 1
        BY <4>1 DEF EntriesIInv, ParentsLast, Entry
      <4> QED BY <1>3, <4>1, <4>2
    <3>6. q[1] <= p[1] BY <2>2, <3>2, <3>3, <3>5 DEF Derives
    <3>7. q[1] \in Int /\ q[2] \in Int /\ p[1] \in Int /\ p[2] \in Int
      <4>1. \A c \in Methods!Registered : tableIndex[c] \in Methods!Indices BY EntryFacts
      <4> QED BY <1>3, <3>2, <3>3, <4>1
    <3>8. p[1] = q[1] /\ (p = q \/ p[2] < q[2]) BY <3>4, <3>6, <3>7
    <3>11. \A c, d \in Methods!Registered : tableIndex[c] = tableIndex[d] => c = d
      BY EntryFacts
    <3>9. o[1] = u[1]
      <4>1. tableIndex[o[1]] = tableIndex[u[1]] BY <3>2, <3>8
      <4> QED BY <3>3, <3>11, <4>1
    <3>10. ASSUME o[2] \in Methods!Parents[u[2]] PROVE o[2] = u[2]
      <4>1. q[2] <= p[2] BY <3>2, <3>3, <3>5, <3>10 DEF Derives
      <4>2. p[2] = q[2] BY <3>7, <3>8, <4>1
      <4>3. tableIndex[o[2]] = tableIndex[u[2]] BY <3>2, <4>2
      <4> QED BY <3>3, <3>11, <4>3
    <3> QED BY <3>9, <3>10
  <2> QED BY <2>1, <2>2 DEF o, Methods!Nearest
<1>9. CASE t[at] # None
  <2>1. i \in Methods!Looked(i) /\ j \in Methods!Looked(j)
    <3>1. Derives(a, a) /\ Derives(b, b) BY <1>2, ParentFacts
    <3> QED BY <1>5, <3>1
  <2>2. at \in found BY <1>1, <1>9, <2>1
  <2>3. t[at] \in overrideMap /\ Methods!Index(t[at]) = <<i, j>> /\ Methods!Fits(t[at], given)
    BY <1>1, <1>7, <2>2
  <2> DEFINE o == t[at]
  <2>4. o[1] = a /\ o[2] = b
    <3>1. tableIndex[o[1]] = i /\ tableIndex[o[2]] = j BY <1>4, <2>3
    <3> QED BY <1>4, <2>3, <3>1, EntryFacts
  <2> HIDE DEF o, at, found
  <2>5. ASSUME NEW u \in overrideMap, Methods!Fits(u, given), o[1] \in Methods!Parents[u[1]]
        PROVE  o[1] = u[1] /\ (o[2] \in Methods!Parents[u[2]] => o[2] = u[2])
    <3>1. u[1] \in Classes /\ u[2] \in Classes BY <1>4, EntryFacts
    <3>2. /\ Derives(a, u[1]) /\ Derives(b, u[2]) /\ Derives(u[1], a)
          /\ o[2] \in Methods!Parents[u[2]] => Derives(u[2], b)
      BY <2>4, <2>5 DEF Methods!Fits, Derives
    <3> QED BY <1>2, <2>4, <3>1, <3>2, ParentFacts
  <2>6. Methods!Nearest(o, given) BY <2>3, <2>5 DEF Methods!Nearest, o
  <2>7. o # DefaultCall BY <1>4, <2>3 DEF o
  <2> QED BY <1>9, <2>6, <2>7 DEF NearestOf, o, at
<1>10. CASE t[at] = None
  <2>0. Methods!FillEntry(t, <<i, j>>) = IF found = {} THEN DefaultCall ELSE t[first]
    BY DEF Methods!FillEntry
  <2>1. Methods!FillEntry(t, at) = IF found = {} THEN DefaultCall ELSE t[first]
    BY <1>1, <2>0
  <2>2. CASE found = {}
    <3>1. ~\E u \in overrideMap : Methods!Fits(u, given) BY <1>6, <2>2
    <3> QED BY <1>10, <2>1, <2>2, <3>1 DEF NearestOf
  <2>3. CASE found # {}
    <3>1. Methods!Indices \subseteq 0 .. Len(childEntries) BY <1>3
    <3>2. found \subseteq (0 .. Len(childEntries)) \X (0 .. Len(childEntries))
      BY <3>1 DEF Methods!Looked
    <3> HIDE DEF found, at
    <3>3. first \in found /\ \A q \in found : first = q \/ Methods!Before(first, q)
      BY <1>3, <2>3, <3>2, FirstFound
    <3> HIDE DEF first
    <3>4. t[first] \in overrideMap /\ Methods!Nearest(t[first], given) BY <1>7, <1>8, <3>3
    <3>5. t[first] # DefaultCall BY <1>4, <3>4
    <3> QED BY <1>10, <2>1, <2>3, <3>4, <3>5 DEF NearestOf, at
  <2> QED BY <2>2, <2>3
<1> QED BY <1>9, <1>10 DEF at, given

LEMMA FreshSettled ==
  ASSUME UNCHANGED <<childEntries, tableIndex, overrideMap>>, NEW CONSTANT d,
         FreshIsNearest(d)
  PROVE  FreshIsNearest(d)'
BY DEF FreshIsNearest, NearestOf, AloneAt, Entry, Methods!Nearest, Methods!Fits

LEMMA CallKeeps ==
  ASSUME MethodsIInv, NEW a \in Classes, NEW b \in Classes, Methods!Call(a, b)
  PROVE  MethodsIInv'
<1> DEFINE t == Methods!Prepared  at == Methods!Index(<<a, b>>)
           entry == IF t[at] # None THEN t[at] ELSE Methods!FillEntry(t, at)
           fresh == \A p \in Methods!Looked(at[1]) \X Methods!Looked(at[2]) :
                      t[p] # None => \E o \in overrideMap : Methods!Index(o) = p
<1>0. EntriesIInv /\ CallIInv BY DEF MethodsIInv
<1>1. /\ calls < MaxDispatches /\ calls' = calls + 1
      /\ {a, b} \cup UNION {{o[1], o[2]} : o \in overrideMap} \subseteq Methods!Registered
      /\ table' = [t EXCEPT ![at] = entry] /\ fired' = TRUE
      /\ dispatched' = [arguments |-> <<a, b>>, method |-> entry, fresh |-> fresh]
      /\ UNCHANGED <<childEntries, tableIndex, overrideMap>>
  BY DEF Methods!Call
<1>2. AllRegistered /\ overrideMap \subseteq Overrides
  BY <1>0, <1>1 DEF AllRegistered, CallIInv
<1>3. TableFits(t) BY <1>2, PreparedFits
<1> DEFINE i == tableIndex[a]  j == tableIndex[b]
<1>4. a \in Methods!Registered /\ b \in Methods!Registered BY <1>1
<1>5. at = <<i, j>> BY DEF Methods!Index
<1>6. i \in Methods!Indices /\ j \in Methods!Indices BY <1>0, <1>4, EntryFacts
<1>7. <<i, j>> \in Methods!Indices \X Methods!Indices BY <1>6
<1>20. AloneAt(i) /\ AloneAt(j) /\ fresh => NearestOf(<<a, b>>, entry)
  <2> SUFFICES ASSUME AloneAt(i), AloneAt(j), fresh PROVE NearestOf(<<a, b>>, entry)
    OBVIOUS
  <2>1. \A p \in Methods!Looked(i) \X Methods!Looked(j) :
          t[p] # None => \E o \in overrideMap : Methods!Index(o) = p
    BY <1>5
  <2> HIDE DEF t
  <2> QED BY <1>0, <1>2, <1>3, <1>4, <2>1, FreshFinds
<1> HIDE DEF t, at, i, j, fresh
<1>8. TableFits([t EXCEPT ![at] = entry]) /\ entry \in Called
      /\ [t EXCEPT ![at] = entry][at] = entry
  <2>1. t \in [Methods!Indices \X Methods!Indices -> Called \union {None}]
    BY <1>3 DEF TableFits
  <2>2. CASE t[at] # None
    <3>1. entry = t[at] /\ entry \in Called BY <1>5, <1>7, <2>1, <2>2
    <3>2. [t EXCEPT ![at] = entry] = t BY <2>1, <3>1
    <3> QED BY <1>3, <3>1, <3>2
  <2>3. CASE t[at] = None
    <3>1. entry = Methods!FillEntry(t, <<i, j>>) BY <1>5, <2>3
    <3>2. TableFits([t EXCEPT ![<<i, j>>] = entry]) /\ entry \in Called
      BY <1>0, <1>2, <1>3, <1>5, <1>6, <2>3, <3>1, TableFilled
    <3> HIDE DEF entry
    <3>3. [t EXCEPT ![at] = entry][at] = entry BY <1>5, <1>7, <2>1
    <3> QED BY <1>5, <3>2, <3>3
  <2> QED BY <2>2, <2>3
<1> HIDE DEF entry
<1>9. EntriesIInv' BY <1>0, <1>1, Settled
<1>10. TableFits(table') BY <1>1, <1>8
<1>11. TableFits(table)' BY <1>1, <1>10, Settled
<1>12. AllRegistered' BY <1>1, <1>2, Settled
<1>13. calls' \in 0 .. MaxDispatches
  BY <1>0, <1>1, LookupsAssumption DEF CallIInv
<1>14. dispatched'.arguments = <<a, b>> /\ dispatched'.method = entry BY <1>1
<1>15. dispatched'.arguments \in Methods!Registered' \X Methods!Registered'
  BY <1>1, <1>4, <1>14, Settled
<1>16. dispatched'.method = table'[Methods!Index(dispatched.arguments)']
  <2>1. Methods!Index(dispatched.arguments)' = at
    BY <1>1, <1>14 DEF Methods!Index, at
  <2>2. table'[at] = entry BY <1>1, <1>8
  <2> QED BY <1>14, <2>1, <2>2
<1>17. dispatched'.method \in Called BY <1>8, <1>14
<1>18. overrideMap' \subseteq Overrides /\ fired' = TRUE BY <1>1, <1>2
<1>21. FreshIsNearest(dispatched)'
  <2>1. PICK d : d = dispatched' OBVIOUS
  <2>2. d.arguments = <<a, b>> /\ d.method = entry /\ d.fresh = fresh BY <1>1, <2>1
  <2>3. d.arguments[1] = a /\ d.arguments[2] = b BY <2>2
  <2>4. FreshIsNearest(d) BY <1>20, <2>2, <2>3 DEF FreshIsNearest, i, j
  <2>5. FreshIsNearest(d)' BY <1>1, <2>4, FreshSettled
  <2> QED BY <2>1, <2>5
        DEF FreshIsNearest, NearestOf, AloneAt, Entry, Methods!Nearest, Methods!Fits
<1>19. CallIInv'
  BY <1>11, <1>12, <1>13, <1>15, <1>16, <1>17, <1>18, <1>21 DEF CallIInv
<1> QED BY <1>9, <1>19 DEF MethodsIInv

LEMMA MethodsStep ==
  MethodsIInv /\ (Methods!Next \/ UNCHANGED methodVars) => MethodsIInv'
<1> SUFFICES ASSUME MethodsIInv, Methods!Next \/ UNCHANGED methodVars PROVE MethodsIInv'
  OBVIOUS
<1>1. CASE UNCHANGED methodVars
  <2>1. /\ UNCHANGED <<childEntries, tableIndex, overrideMap>>
        /\ UNCHANGED <<table, fired, dispatched, calls>>
    BY <1>1 DEF methodVars
  <2>2. EntriesIInv' BY <2>1, Settled DEF MethodsIInv
  <2>3. CASE fired
    <3>1. /\ AllRegistered /\ TableFits(table)
          /\ dispatched.arguments \in Methods!Registered \X Methods!Registered
          /\ dispatched.method \in Called
          /\ dispatched.method = table[Methods!Index(dispatched.arguments)]
          /\ FreshIsNearest(dispatched)
      BY <2>3 DEF MethodsIInv, CallIInv
    <3>2. TableFits(table') BY <2>1, <3>1
    <3>3. AllRegistered' /\ TableFits(table)' /\ Methods!Registered' = Methods!Registered
      BY <2>1, <3>1, <3>2, Settled
    <3>4. dispatched.method' = table'[Methods!Index(dispatched.arguments)']
      BY <2>1, <3>1 DEF Methods!Index
    <3>5. /\ overrideMap' \subseteq Overrides /\ fired' = TRUE
          /\ calls' \in 0 .. MaxDispatches
      BY <2>1, <2>3 DEF MethodsIInv, CallIInv
    <3>6. FreshIsNearest(dispatched)'
      BY <2>1, <3>1 DEF FreshIsNearest, NearestOf, AloneAt, Entry, Methods!Nearest, Methods!Fits
    <3> QED BY <2>1, <2>2, <3>1, <3>3, <3>4, <3>5, <3>6 DEF MethodsIInv, CallIInv
  <2>4. CASE ~fired
    <3>1. /\ overrideMap' \subseteq Overrides /\ fired' = FALSE
          /\ calls' \in 0 .. MaxDispatches /\ DOMAIN table' = {}
      BY <2>1, <2>4 DEF MethodsIInv, CallIInv
    <3> QED BY <2>2, <3>1 DEF MethodsIInv, CallIInv
  <2> QED BY <2>3, <2>4
<1>2. CASE Methods!Next
  BY <1>2, RegisterChildKeeps, RegisterOverrideKeeps, CallKeeps DEF Methods!Next
<1> QED BY <1>1, <1>2

LEMMA MethodsStart == Methods!Init => MethodsIInv
<1> SUFFICES ASSUME Methods!Init PROVE MethodsIInv OBVIOUS
<1>1. /\ childEntries = <<>> /\ tableIndex = [c \in Classes |-> -1]
      /\ overrideMap = {} /\ table = [at \in {} |-> None] /\ fired = FALSE /\ calls = 0
  BY DEF Methods!Init
<1>2. childEntries \in Seq(Classes) /\ Len(childEntries) = 0 BY <1>1, EmptySeq
<1>3. Places = {} BY <1>2, LenProperties DEF Places
<1>4. EntriesTyped BY <1>1, <1>2 DEF EntriesTyped
<1>5. IndicesKnown BY <1>1, <1>3 DEF IndicesKnown
<1>6. ParentsLast BY <1>3 DEF ParentsLast
<1>7. CallIInv
  <2>1. DOMAIN table = {} /\ ~fired BY <1>1
  <2>2. calls \in 0 .. MaxDispatches BY <1>1, LookupsAssumption
  <2> QED BY <1>1, <2>1, <2>2 DEF CallIInv
<1> QED BY <1>4, <1>5, <1>6, <1>7 DEF MethodsIInv, EntriesIInv

\* The index of a class is below the number of classes.
LEMMA MethodsFit ==
  MethodsIInv => Methods!TypeOK /\ Methods!EntriesOrdered /\ Methods!DispatchFits
<1> SUFFICES ASSUME MethodsIInv
             PROVE  Methods!TypeOK /\ Methods!EntriesOrdered /\ Methods!DispatchFits
  OBVIOUS
<1> DEFINE n == Len(childEntries)
<1>0. EntriesIInv /\ CallIInv BY DEF MethodsIInv
<1>1. /\ n \in Nat /\ Places = 1 .. n /\ Methods!Indices = 0 .. n - 1
      /\ \A i \in Places : childEntries[i] \in Classes
      /\ \A i, j \in Places : childEntries[i] = childEntries[j] => i = j
      /\ \A c \in Methods!Registered :
           /\ c \in Classes /\ tableIndex[c] \in Methods!Indices
           /\ tableIndex[c] + 1 \in Places
           /\ Entry(tableIndex[c]) = c
  BY <1>0, EntryFacts
<1>2. \A S : Methods!Cardinality(S) = Cardinality(S)
  BY DEF Methods!Cardinality, Cardinality
<1>3. n <= Cardinality(Classes) /\ Cardinality(Classes) \in Nat
  <2>1. childEntries \in [1 .. n -> Classes]
    BY <1>0, LenProperties DEF EntriesIInv, EntriesTyped
  <2>2. childEntries \in Injection(1 .. n, Classes)
    BY <1>1, <2>1 DEF Injection, IsInjective
  <2>3. IsFiniteSet(1 .. n) /\ Cardinality(1 .. n) = n
    <3>1. 1 \in Int /\ n \in Int /\ (IF 1 > n THEN 0 ELSE n - 1 + 1) = n BY <1>1
    <3> QED BY <3>1, FS_Interval
  <2> QED BY <2>2, <2>3, MethodsAssumption, FS_Injection, FS_CardinalityType
<1>4. Methods!TypeOK
  <2>1. tableIndex \in [Classes -> -1 .. Cardinality(Classes) - 1]
    <3>1. \A c \in Classes : tableIndex[c] \in -1 .. Cardinality(Classes) - 1
      <4> SUFFICES ASSUME NEW c \in Classes
                   PROVE  tableIndex[c] \in -1 .. Cardinality(Classes) - 1
        OBVIOUS
      <4>1. CASE c \in Methods!Registered BY <1>1, <1>3, <4>1
      <4>2. CASE c \notin Methods!Registered
        BY <1>0, <1>3, <4>2 DEF EntriesIInv, IndicesKnown
      <4> QED BY <4>1, <4>2
    <3> QED BY <1>0, <3>1 DEF EntriesIInv, EntriesTyped
  <2>2. /\ DOMAIN table \subseteq Methods!Indices \X Methods!Indices
        /\ \A at \in DOMAIN table : table[at] \in Overrides \cup {DefaultCall, None}
    <3>1. CASE fired
      <4>1. table \in [Methods!Indices \X Methods!Indices -> Called \union {None}]
        BY <1>0, <3>1 DEF CallIInv, TableFits
      <4> QED BY <4>1 DEF Called
    <3>2. CASE ~fired
      <4>1. DOMAIN table = {} BY <1>0, <3>2 DEF CallIInv
      <4> QED BY <4>1
    <3> QED BY <3>1, <3>2
  <2>3. Methods!Registered \subseteq Classes BY <1>1
  <2>4. /\ overrideMap \subseteq Overrides /\ fired \in BOOLEAN
        /\ calls \in 0 .. MaxDispatches
    BY <1>0 DEF CallIInv
  <2> QED BY <1>2, <1>3, <2>1, <2>2, <2>3, <2>4 DEF Methods!TypeOK
<1>5. Methods!EntriesOrdered
  <2>1. ASSUME NEW c \in Classes
        PROVE  IF c \in Methods!Registered THEN childEntries[tableIndex[c] + 1] = c
                                           ELSE tableIndex[c] = -1
    BY <1>0, <1>1 DEF EntriesIInv, IndicesKnown, Entry
  <2>2. \A i, j \in DOMAIN childEntries :
          childEntries[j] \in Methods!Parents[childEntries[i]] => i <= j
    BY <1>0 DEF EntriesIInv, ParentsLast, Places, Derives
  <2> QED BY <2>1, <2>2 DEF Methods!EntriesOrdered
<1>6. Methods!DispatchFits
  <2> DEFINE given == dispatched.arguments  method == dispatched.method
             p == Methods!Index(given)
  <2> SUFFICES ASSUME fired
               PROVE  /\ given \in overrideMap => method = given
                      /\ Methods!Alone(given[1]) /\ Methods!Alone(given[2]) =>
                           /\ method # DefaultCall => Methods!Fits(method, given)
                           /\ dispatched.fresh => NearestOf(given, method)
    BY DEF Methods!DispatchFits, NearestOf
  <2>1. /\ given \in Methods!Registered \X Methods!Registered
        /\ method \in Called /\ method = table[p] /\ TableFits(table)
        /\ FreshIsNearest(dispatched)
    BY <1>0 DEF CallIInv
  <2>2. given[1] \in Methods!Registered /\ given[2] \in Methods!Registered BY <2>1
  <2>3. p = <<tableIndex[given[1]], tableIndex[given[2]]>> BY DEF Methods!Index
  <2>8. \A c : Methods!Alone(c) /\ Entry(tableIndex[c]) = c => AloneAt(tableIndex[c])
    BY DEF Methods!Alone, AloneAt, Derives
  <2>9. ASSUME Methods!Alone(given[1]), Methods!Alone(given[2]), dispatched.fresh
        PROVE  NearestOf(given, method)
    <3>1. AloneAt(tableIndex[given[1]]) /\ AloneAt(tableIndex[given[2]])
      BY <1>1, <2>2, <2>8, <2>9
    <3> QED BY <2>1, <2>9, <3>1 DEF FreshIsNearest
  <2> HIDE DEF p, given, method
  <2>4. /\ p \in Methods!Indices \X Methods!Indices
        /\ Entry(p[1]) = given[1] /\ Entry(p[2]) = given[2]
        /\ p[1] = tableIndex[given[1]] /\ p[2] = tableIndex[given[2]]
    BY <1>1, <2>2, <2>3
  <2>5. given \in overrideMap => method = given
    BY <2>1 DEF TableFits, p
  <2>7. ASSUME Methods!Alone(given[1]), Methods!Alone(given[2]), method # DefaultCall
        PROVE  Methods!Fits(method, given)
    <3>1. method \in Overrides BY <2>1, <2>7 DEF Called
    <3>2. AloneAt(p[1]) /\ AloneAt(p[2]) BY <2>4, <2>7, <2>8
    <3>3. Derives(Entry(p[1]), method[1]) /\ Derives(Entry(p[2]), method[2])
      BY <2>1, <2>4, <3>1, <3>2 DEF TableFits
    <3> QED BY <2>4, <3>3 DEF Methods!Fits, Derives
  <2> QED BY <2>5, <2>7, <2>9
<1> QED BY <1>4, <1>5, <1>6

-----------------------------------------------------------------------------
(***************************************************************************)
(* BigNum.  A copy that could not be made, and what was computed of it,    *)
(* means nothing to a reader: without that, a value computed of such a     *)
(* number could not be told from one that is out of range.                 *)
(***************************************************************************)
NumbersIInv ==
  /\ Numbers!TypeOK /\ Numbers!ValueIsMeant
  /\ \A n \in lost : meant[n] = Numbers!Nothing

Value(v) == v \in Numbers!Values \union {Numbers!Nothing}

LEMMA NumberFacts ==
  /\ MaxAbs \in Nat /\ Numbers!Nothing \in Int /\ Numbers!Nothing \notin Numbers!Values
  /\ 0 \in Numbers!Values /\ Numbers!Values \subseteq Int
  /\ Numbers!Nothing > 0
  /\ Words \subseteq Numbers!Values \cap Nat
BY LookupsAssumption DEF Numbers!Nothing, Numbers!Values

\* A quotient and its remainder are no larger than what is divided and what it
\* is divided by.
LEMMA QuotientBound ==
  ASSUME NEW x \in Nat, NEW y \in Nat \ {0}
  PROVE  x \div y \in 0 .. x /\ x - y * (x \div y) \in 0 .. y - 1
<1>1. x \div y \in Int /\ x % y \in 0 .. y - 1 /\ x = y * (x \div y) + (x % y)
  OBVIOUS
<1>2. x - y * (x \div y) = x % y BY <1>1
<1>3. x \div y >= 0 BY <1>1
<1>4. x \div y <= x BY <1>1
<1> QED BY <1>1, <1>2, <1>3, <1>4

LEMMA Divided ==
  ASSUME NEW x \in Numbers!Values, NEW y \in Numbers!Values, y # 0
  PROVE  Numbers!Quotient(x, y) \in Numbers!Values /\ Numbers!Remainder(x, y) \in Numbers!Values
<1> DEFINE a == Numbers!Abs(x)  b == Numbers!Abs(y)  q == a \div b
<1>1. /\ x \in Int /\ y \in Int /\ MaxAbs \in Nat
      /\ -MaxAbs <= x /\ x <= MaxAbs /\ -MaxAbs <= y /\ y <= MaxAbs
  BY NumberFacts DEF Numbers!Values
<1>2. a \in Nat /\ b \in Nat \ {0} /\ a <= MaxAbs /\ b <= MaxAbs
  BY <1>1 DEF Numbers!Abs
<1>3. q \in 0 .. a /\ a - b * q \in 0 .. b - 1
  BY <1>2, QuotientBound
<1> HIDE DEF q
<1>4. Numbers!Quotient(x, y) = IF (x < 0) = (y < 0) THEN q ELSE -q
  BY DEF Numbers!Quotient, q
<1>5. Numbers!Quotient(x, y) \in Numbers!Values
  BY <1>1, <1>2, <1>3, <1>4 DEF Numbers!Values
<1>6. y * Numbers!Quotient(x, y) = IF x < 0 THEN -(b * q) ELSE b * q
  <2> HIDE DEF a
  <2>1. CASE y < 0 /\ x < 0
    <3>1. Numbers!Quotient(x, y) = q /\ b = -y BY <1>4, <2>1, <1>1 DEF Numbers!Abs
    <3> QED BY <1>1, <1>3, <2>1, <3>1
  <2>2. CASE y < 0 /\ ~(x < 0)
    <3>1. Numbers!Quotient(x, y) = -q /\ b = -y BY <1>4, <2>2, <1>1 DEF Numbers!Abs
    <3> QED BY <1>1, <1>3, <2>2, <3>1
  <2>3. CASE ~(y < 0) /\ x < 0
    <3>1. Numbers!Quotient(x, y) = -q /\ b = y BY <1>4, <2>3, <1>1 DEF Numbers!Abs
    <3> QED BY <1>1, <1>3, <2>3, <3>1
  <2>4. CASE ~(y < 0) /\ ~(x < 0)
    <3>1. Numbers!Quotient(x, y) = q /\ b = y BY <1>4, <2>4, <1>1 DEF Numbers!Abs
    <3> QED BY <1>1, <1>3, <2>4, <3>1
  <2> QED BY <2>1, <2>2, <2>3, <2>4
<1>7. Numbers!Remainder(x, y) = x - y * Numbers!Quotient(x, y)
  BY DEF Numbers!Remainder
<1>8. Numbers!Remainder(x, y) \in Numbers!Values
  <2> DEFINE p == b * q
  <2>1. p \in Int /\ a - p \in 0 .. b - 1 BY <1>2, <1>3
  <2>2. Numbers!Remainder(x, y) = IF x < 0 THEN x + p ELSE x - p
    <3>1. p = b * q OBVIOUS
    <3> HIDE DEF p
    <3> QED BY <1>1, <1>6, <1>7, <2>1, <3>1
  <2>3. x = IF x < 0 THEN -a ELSE a BY <1>1 DEF Numbers!Abs
  <2> HIDE DEF p, a, b
  <2> QED BY <1>1, <1>2, <2>1, <2>2, <2>3 DEF Numbers!Values
<1> QED BY <1>5, <1>8

\* A number that is set to what its parts' value means.
LEMMA NumberBecomes ==
  ASSUME NumbersIInv, NEW n \in NumberNames, NEW value, NEW failed \in BOOLEAN,
         NEW means, NEW of, Value(value), Value(means),
         Numbers!Becomes(n, value, failed, means, of),
         of \cap lost # {} => means = Numbers!Nothing,
         of \cap lost = {} /\ ~failed => 
            means = IF value = Numbers!Nothing THEN 0 ELSE value
  PROVE  NumbersIInv'
<1> USE DEF NumbersIInv, Numbers!Becomes
<1>1. Numbers!TypeOK'
  BY DEF Numbers!TypeOK, Value
<1>2. \A m \in lost' : meant'[m] = Numbers!Nothing
  BY DEF Numbers!TypeOK
<1>3. ASSUME NEW m \in NumberNames \ lost', ~_failed'[m]
      PROVE  Numbers!raw(m)' = meant'[m]
  <2>1. CASE m = n
    BY <1>3, <2>1 DEF Numbers!TypeOK, Numbers!raw
  <2>2. CASE m # n
    BY <1>3, <2>2 DEF Numbers!TypeOK, Numbers!raw, Numbers!ValueIsMeant
  <2> QED BY <2>1, <2>2
<1> QED BY <1>1, <1>2, <1>3 DEF Numbers!ValueIsMeant

\* What an operation is computed of is what its parts mean, where all of them
\* have a value.
LEMMA Meant ==
  ASSUME NumbersIInv, NEW n \in NumberNames, ~_failed[n]
  PROVE  /\ n \notin lost => Numbers!raw(n) = meant[n] /\ meant[n] # Numbers!Nothing
         /\ n \in lost => meant[n] = Numbers!Nothing
         /\ Numbers!raw(n) \in Numbers!Values
         /\ Value(meant[n]) /\ Value(data[n])
BY NumberFacts
   DEF NumbersIInv, Numbers!TypeOK, Numbers!ValueIsMeant, Numbers!raw, Value

LEMMA SetWordKeeps ==
  ASSUME NumbersIInv, NEW n \in NumberNames, NEW w \in Words, Numbers!SetWord(n, w)
  PROVE  NumbersIInv'
<1>0. Value(Numbers!raw(n)) /\ Value(w) /\ Value(Numbers!Nothing) /\ w # Numbers!Nothing
  BY NumberFacts DEF NumbersIInv, Numbers!TypeOK, Numbers!raw, Value
<1>1. CASE Numbers!Becomes(n, IF w = 0 THEN Numbers!Nothing ELSE w, FALSE, w, {})
  <2>1. Value(IF w = 0 THEN Numbers!Nothing ELSE w) BY <1>0
  <2> QED BY <1>0, <1>1, <2>1, NumberBecomes
<1>2. CASE Numbers!Becomes(n, Numbers!raw(n), TRUE, Numbers!Nothing, {})
  BY <1>0, <1>2, NumberBecomes
<1> QED BY <1>1, <1>2 DEF Numbers!SetWord

Operations == Numbers!Signed \union Numbers!Modular \union {"gcd"}

\* What takes no modulus is the same whatever the last number is.
LEMMA NoModulus ==
  ASSUME NEW op \in Operations, op \notin Numbers!Modular, NEW x, NEW y, NEW u, NEW v
  PROVE  Numbers!Op(op, x, y, u) = Numbers!Op(op, x, y, v)
<1>1. op = "add" \/ op = "sub" \/ op = "mul" \/ op = "gcd"
  BY DEF Operations, Numbers!Signed
<1>2. CASE op = "add" BY <1>2 DEF Numbers!Op
<1>3. CASE op = "sub" BY <1>3 DEF Numbers!Op
<1>4. CASE op = "mul" BY <1>4 DEF Numbers!Op
<1>5. CASE op = "gcd" BY <1>5 DEF Numbers!Op
<1> QED BY <1>1, <1>2, <1>3, <1>4, <1>5

LEMMA SetOpKeeps ==
  ASSUME NumbersIInv, NEW n \in NumberNames, NEW op \in Operations, NEW a \in NumberNames,
         NEW b \in NumberNames, NEW m \in NumberNames, Numbers!SetOp(n, op, a, b, m)
  PROVE  NumbersIInv'
<1> DEFINE parts == Numbers!Of(op, a, b, m)
           refused == \/ \E p \in parts : _failed[p]
                      \/ op \notin Numbers!Signed /\ \E p \in parts : Numbers!isNegative(p)
           outcome  == Numbers!Op(op, Numbers!raw(a), Numbers!raw(b), Numbers!raw(m))
           meaning == Numbers!Meaning(op, a, b, m)
<1>0. \A p \in NumberNames : Value(Numbers!raw(p)) /\ Value(data[p])
  BY NumberFacts DEF NumbersIInv, Numbers!TypeOK, Numbers!raw, Value
<1>1. Value(Numbers!Nothing) /\ Value(0) BY NumberFacts DEF Value
<1>2. parts \subseteq NumberNames /\ a \in parts /\ b \in parts
      /\ (op \in Numbers!Modular => m \in parts)
      /\ (op \notin Numbers!Modular => parts = {a, b})
  BY DEF Numbers!Of
<1>3. CASE refused
  <2>1. Numbers!Becomes(n, data[n], TRUE, Numbers!Nothing, parts)
    BY <1>3 DEF Numbers!SetOp
  <2> QED BY <1>0, <1>1, <2>1, NumberBecomes
<1>4. CASE \E value \in {Numbers!raw(n), 0} :
             Numbers!Becomes(n, value, TRUE, Numbers!Nothing, parts)
  BY <1>0, <1>1, <1>4, NumberBecomes
<1>5. CASE /\ ~refused /\ outcome \in Numbers!Values
           /\ Numbers!Becomes(n, outcome, op \notin Numbers!Signed /\ outcome < 0,
                              meaning, parts)
  <2>1. \A p \in parts : ~_failed[p] BY <1>5
  <2>2. parts \cap lost # {} => meaning = Numbers!Nothing
    <3> SUFFICES ASSUME NEW p \in parts \cap lost PROVE meaning = Numbers!Nothing
      OBVIOUS
    <3>1. meant[p] = Numbers!Nothing BY DEF NumbersIInv
    <3>2. p = a \/ p = b \/ (p = m /\ op \in Numbers!Modular)
      BY DEF Numbers!Of
    <3> QED BY <3>1, <3>2 DEF Numbers!Meaning
  <2>3. ASSUME parts \cap lost = {} PROVE meaning = outcome
    <3>1. \A p \in parts : Numbers!raw(p) = meant[p] /\ meant[p] # Numbers!Nothing
      BY <1>2, <2>1, <2>3, Meant
    <3>2. op \notin Numbers!Signed => \A p \in parts : ~(meant[p] < 0)
      <4> SUFFICES ASSUME op \notin Numbers!Signed, NEW p \in parts
                   PROVE  ~(meant[p] < 0)
        OBVIOUS
      <4>1. ~Numbers!isNegative(p) BY <1>5
      <4>2. ~_failed[p] /\ Numbers!raw(p) = meant[p] BY <2>1, <3>1
      <4> QED BY <4>1, <4>2, NumberFacts DEF Numbers!isNegative, Numbers!raw
    <3>3. meaning = Numbers!Op(op, meant[a], meant[b], meant[m])
      <4>1. op \in Numbers!Modular => op \notin Numbers!Signed
        BY DEF Numbers!Modular, Numbers!Signed
      <4>2. ~(\/ Numbers!Nothing \in {meant[a], meant[b]}
              \/ (op \in Numbers!Modular /\ meant[m] = Numbers!Nothing))
        BY <1>2, <3>1
      <4>3. ~(op \notin Numbers!Signed /\ (meant[a] < 0 \/ meant[b] < 0))
        BY <1>2, <3>2
      <4>4. ~(op \in Numbers!Modular /\ meant[m] < 0)
        BY <1>2, <3>2, <4>1
      <4> QED BY <4>2, <4>3, <4>4 DEF Numbers!Meaning
    <3>4. CASE op \in Numbers!Modular
      BY <1>2, <3>1, <3>3, <3>4
    <3>5. CASE op \notin Numbers!Modular
      <4>1. Numbers!raw(a) = meant[a] /\ Numbers!raw(b) = meant[b] BY <1>2, <3>1
      <4> QED BY <3>3, <3>5, <4>1, NoModulus
    <3> QED BY <3>4, <3>5
  <2>4. Value(meaning) /\ Value(outcome)
    BY <1>1, <1>5, <2>2, <2>3 DEF Value
  <2>5. outcome # Numbers!Nothing BY <1>5, NumberFacts
  <2>6. (op \notin Numbers!Signed /\ outcome < 0) \in BOOLEAN OBVIOUS
  <2> HIDE DEF parts, refused, outcome, meaning
  <2> QED BY <1>5, <2>2, <2>3, <2>4, <2>5, <2>6, NumberBecomes
<1> QED BY <1>3, <1>4, <1>5 DEF Numbers!SetOp

LEMMA SubWordKeeps ==
  ASSUME NumbersIInv, NEW n \in NumberNames, NEW w \in Words, Numbers!SubWord(n, w)
  PROVE  NumbersIInv'
<1> DEFINE outcome == Numbers!raw(n) - w
           means == IF meant[n] = Numbers!Nothing THEN Numbers!Nothing ELSE meant[n] - w
<1>0. ~_failed[n] BY DEF Numbers!SubWord
<1>1. CASE outcome \in Numbers!Values /\ Numbers!Becomes(n, outcome, FALSE, means, {n})
  <2>1. n \notin lost => means = outcome BY <1>0, Meant
  <2>2. n \in lost => means = Numbers!Nothing BY <1>0, Meant
  <2>3. Value(outcome) /\ Value(means) /\ outcome # Numbers!Nothing
    BY <1>1, <2>1, <2>2, NumberFacts DEF Value
  <2> HIDE DEF outcome, means
  <2> QED BY <1>1, <2>1, <2>2, <2>3, NumberBecomes
<1>2. CASE Numbers!Becomes(n, Numbers!raw(n), TRUE, Numbers!Nothing, {n})
  BY <1>0, <1>2, Meant, NumberBecomes DEF Value
<1> QED BY <1>1, <1>2 DEF Numbers!SubWord

LEMMA DivWordKeeps ==
  ASSUME NumbersIInv, NEW n \in NumberNames, NEW w \in Words, Numbers!DivWord(n, w)
  PROVE  NumbersIInv'
<1> DEFINE outcome == Numbers!Quotient(Numbers!raw(n), w)
           means == IF meant[n] = Numbers!Nothing THEN Numbers!Nothing
                                                  ELSE Numbers!Quotient(meant[n], w)
<1>0. ~_failed[n] /\ w # 0 BY DEF Numbers!DivWord
<1>1. CASE Numbers!Becomes(n, outcome, FALSE, means, {n})
  <2>1. n \notin lost => means = outcome BY <1>0, Meant
  <2>2. n \in lost => means = Numbers!Nothing BY <1>0, Meant
  <2>3. outcome \in Numbers!Values BY <1>0, Meant, NumberFacts, Divided
  <2>4. Value(outcome) /\ Value(means) /\ outcome # Numbers!Nothing
    BY <2>1, <2>2, <2>3, NumberFacts DEF Value
  <2> HIDE DEF outcome, means
  <2> QED BY <1>1, <2>1, <2>2, <2>4, NumberBecomes
<1>2. CASE Numbers!Becomes(n, Numbers!raw(n), TRUE, Numbers!Nothing, {n})
  BY <1>0, <1>2, Meant, NumberBecomes DEF Value
<1> QED BY <1>1, <1>2 DEF Numbers!DivWord

\* Div() sets two numbers, and no other.
LEMMA PairBecomes ==
  ASSUME NumbersIInv, NEW q \in NumberNames, NEW r \in NumberNames, Numbers!TypeOK',
         \A p \in NumberNames \ {q, r} :
           data'[p] = data[p] /\ _failed'[p] = _failed[p] /\ meant'[p] = meant[p],
         lost' \ {q, r} = lost \ {q, r},
         \A p \in {q, r} :
           /\ p \in lost' => meant'[p] = Numbers!Nothing
           /\ p \notin lost' /\ ~_failed'[p]
                => data'[p] # Numbers!Nothing /\ meant'[p] = data'[p]
  PROVE  NumbersIInv'
<1>2. \A m \in lost' : meant'[m] = Numbers!Nothing
  BY DEF Numbers!TypeOK, NumbersIInv
<1>3. ASSUME NEW m \in NumberNames \ lost', ~_failed'[m]
      PROVE  Numbers!raw(m)' = meant'[m]
  <2>1. CASE m \in {q, r}
    BY <1>3, <2>1 DEF Numbers!raw
  <2>2. CASE m \notin {q, r}
    BY <1>3, <2>2 DEF Numbers!raw, Numbers!ValueIsMeant, NumbersIInv
  <2> QED BY <2>1, <2>2
<1> QED BY <1>2, <1>3 DEF Numbers!ValueIsMeant, NumbersIInv

LEMMA DivPairKeeps ==
  ASSUME NumbersIInv, NEW q \in NumberNames, NEW r \in NumberNames,
         NEW a \in NumberNames, NEW b \in NumberNames, Numbers!DivPair(q, r, a, b)
  PROVE  NumbersIInv'
<1> DEFINE x == Numbers!Quotient(Numbers!raw(a), Numbers!raw(b))
           y == Numbers!Remainder(Numbers!raw(a), Numbers!raw(b))
           unknown == Numbers!Nothing \in {meant[a], meant[b]}
           mx == IF unknown THEN Numbers!Nothing ELSE Numbers!Quotient(meant[a], meant[b])
           my == IF unknown THEN Numbers!Nothing ELSE Numbers!Remainder(meant[a], meant[b])
           refused == _failed[a] \/ _failed[b] \/ Numbers!raw(b) = 0
           Two(v, w, failed, mv, mw) ==
             /\ data' = [data EXCEPT ![q] = v, ![r] = w]
             /\ _failed' = [_failed EXCEPT ![q] = failed, ![r] = failed]
             /\ meant' = [meant EXCEPT ![q] = mv, ![r] = mw]
             /\ lost' = IF {a, b} \cap lost = {} THEN lost \ {q, r} ELSE lost \union {q, r}
<1>0. q # r BY DEF Numbers!DivPair
<1>1. CASE ~refused /\ Two(x, y, FALSE, mx, my)
  <2>1. x \in Numbers!Values /\ y \in Numbers!Values
    BY <1>1, Meant, Divided
  <2>2. {a, b} \cap lost # {} => unknown
    BY <1>1, Meant
  <2>3. {a, b} \cap lost = {} => mx = x /\ my = y
    BY <1>1, Meant
  <2>4. x # Numbers!Nothing /\ y # Numbers!Nothing /\ Value(x) /\ Value(y)
    BY <2>1, NumberFacts DEF Value
  <2>5. /\ Value(mx) /\ Value(my)
        /\ {a, b} \cap lost # {} => mx = Numbers!Nothing /\ my = Numbers!Nothing
    BY <2>2, <2>3, <2>4 DEF Value
  <2> HIDE DEF x, y, mx, my, unknown, refused
  <2>6. Numbers!TypeOK'
    BY <1>1, <2>4, <2>5 DEF NumbersIInv, Numbers!TypeOK, Value
  <2>7. /\ \A p \in NumberNames \ {q, r} :
             data'[p] = data[p] /\ _failed'[p] = _failed[p] /\ meant'[p] = meant[p]
        /\ lost' \ {q, r} = lost \ {q, r}
    BY <1>1 DEF NumbersIInv, Numbers!TypeOK
  <2>8. /\ data'[q] = x /\ data'[r] = y /\ meant'[q] = mx /\ meant'[r] = my
    BY <1>0, <1>1 DEF NumbersIInv, Numbers!TypeOK
  <2>9. \A p \in {q, r} : p \in lost' <=> {a, b} \cap lost # {}
    BY <1>1
  <2>10. \A p \in {q, r} :
           /\ p \in lost' => meant'[p] = Numbers!Nothing
           /\ p \notin lost' => data'[p] # Numbers!Nothing /\ meant'[p] = data'[p]
    BY <2>3, <2>4, <2>5, <2>8, <2>9
  <2> QED BY <2>6, <2>7, <2>10, PairBecomes
<1>2. CASE Two(data[q], data[r], TRUE, Numbers!Nothing, Numbers!Nothing)
  <2>1. Numbers!TypeOK'
    BY <1>2 DEF NumbersIInv, Numbers!TypeOK
  <2>2. /\ \A p \in NumberNames \ {q, r} :
             data'[p] = data[p] /\ _failed'[p] = _failed[p] /\ meant'[p] = meant[p]
        /\ lost' \ {q, r} = lost \ {q, r}
    BY <1>2 DEF NumbersIInv, Numbers!TypeOK
  <2>3. \A p \in {q, r} : _failed'[p] /\ meant'[p] = Numbers!Nothing
    BY <1>0, <1>2 DEF NumbersIInv, Numbers!TypeOK
  <2> QED BY <2>1, <2>2, <2>3, PairBecomes
<1>3. \/ /\ ~refused
         /\ IF unknown THEN Two(x, y, FALSE, Numbers!Nothing, Numbers!Nothing)
            ELSE Two(x, y, FALSE, Numbers!Quotient(meant[a], meant[b]),
                     Numbers!Remainder(meant[a], meant[b]))
      \/ Two(data[q], data[r], TRUE, Numbers!Nothing, Numbers!Nothing)
  BY DEF Numbers!DivPair
<1> HIDE DEF Two, x, y, refused
<1> QED BY <1>1, <1>2, <1>3

LEMMA AssignKeeps ==
  ASSUME NumbersIInv, NEW n \in NumberNames, NEW from \in NumberNames,
         Numbers!Assign(n, from)
  PROVE  NumbersIInv'
<1>1. /\ Value(data[n]) /\ Value(data[from]) /\ Value(meant[from])
      /\ Value(Numbers!Nothing) /\ Value(meant[n])
  BY DEF NumbersIInv, Numbers!TypeOK, Value
<1>2. from \in lost => meant[from] = Numbers!Nothing BY DEF NumbersIInv
<1>3. CASE _failed[from]
  <2>1. Numbers!Becomes(n, data[n], TRUE, meant[from], {from})
    BY <1>3 DEF Numbers!Assign, Numbers!isZero
  <2> QED BY <1>1, <1>2, <2>1, NumberBecomes
<1>4. CASE ~_failed[from] /\ Numbers!isZero(from)
           /\ Numbers!Becomes(n, Numbers!Nothing, FALSE, meant[from], {from})
  <2>1. from \notin lost => meant[from] = 0 BY <1>4, Meant DEF Numbers!isZero
  <2> QED BY <1>1, <1>2, <1>4, <2>1, NumberBecomes
<1>5. CASE ~_failed[from] /\ ~Numbers!isZero(from)
           /\ Numbers!Becomes(n, data[from], FALSE, meant[from], {from})
  <2>1. from \notin lost => meant[from] = Numbers!raw(from) BY <1>5, Meant
  <2>2. Numbers!raw(from) = IF data[from] = Numbers!Nothing THEN 0 ELSE data[from]
    BY DEF Numbers!raw
  <2> QED BY <1>1, <1>2, <1>5, <2>1, <2>2, NumberBecomes
<1>6. CASE Numbers!Becomes(n, data[n], TRUE, Numbers!Nothing, {from})
  BY <1>1, <1>6, NumberBecomes
<1>7. CASE /\ data[n] = Numbers!Nothing
           /\ _failed' = [_failed EXCEPT ![n] = FALSE] /\ lost' = lost \union {n}
           /\ meant' = [meant EXCEPT ![n] = Numbers!Nothing] /\ UNCHANGED data
  <2>1. Numbers!TypeOK' BY <1>7 DEF NumbersIInv, Numbers!TypeOK
  <2>2. \A m \in lost' : meant'[m] = Numbers!Nothing
    BY <1>7 DEF NumbersIInv, Numbers!TypeOK
  <2>3. Numbers!ValueIsMeant'
    BY <1>7 DEF NumbersIInv, Numbers!TypeOK, Numbers!ValueIsMeant, Numbers!raw
  <2> QED BY <2>1, <2>2, <2>3 DEF NumbersIInv
<1> QED BY <1>3, <1>4, <1>5, <1>6, <1>7 DEF Numbers!Assign

LEMMA ExchangeKeeps ==
  ASSUME NumbersIInv, NEW n \in NumberNames, NEW m \in NumberNames,
         Numbers!Exchange(n, m)
  PROVE  NumbersIInv'
<1> DEFINE other(p) == IF p = n THEN m ELSE IF p = m THEN n ELSE p
<1>1. /\ n # m
      /\ data' = [data EXCEPT ![n] = data[m], ![m] = data[n]]
      /\ _failed' = [_failed EXCEPT ![n] = _failed[m], ![m] = _failed[n]]
      /\ meant' = [meant EXCEPT ![n] = meant[m], ![m] = meant[n]]
      /\ lost' = (lost \ {n, m}) \union (IF n \in lost THEN {m} ELSE {})
                                 \union (IF m \in lost THEN {n} ELSE {})
  BY DEF Numbers!Exchange
<1>2. \A p \in NumberNames :
        /\ other(p) \in NumberNames
        /\ data'[p] = data[other(p)] /\ _failed'[p] = _failed[other(p)]
        /\ meant'[p] = meant[other(p)]
        /\ p \in lost' <=> other(p) \in lost
  BY <1>1 DEF NumbersIInv, Numbers!TypeOK
<1>3. Numbers!TypeOK' BY <1>1 DEF NumbersIInv, Numbers!TypeOK
<1> HIDE DEF other
<1>4. \A p \in lost' : meant'[p] = Numbers!Nothing
  BY <1>2, <1>3 DEF NumbersIInv, Numbers!TypeOK
<1>5. Numbers!ValueIsMeant'
  BY <1>2 DEF NumbersIInv, Numbers!ValueIsMeant, Numbers!raw
<1> QED BY <1>3, <1>4, <1>5 DEF NumbersIInv

LEMMA TakeRawKeeps ==
  ASSUME NumbersIInv, NEW n \in NumberNames, Numbers!TakeRaw(n)
  PROVE  NumbersIInv'
<1>1. Value(Numbers!Nothing) /\ Value(0) BY NumberFacts DEF Value
<1>2. Numbers!Becomes(n, Numbers!Nothing, FALSE, 0, {}) BY DEF Numbers!TakeRaw
<1> QED BY <1>1, <1>2, NumberBecomes

LEMMA IsPrimeKeeps ==
  ASSUME NumbersIInv, NEW n \in NumberNames, Numbers!IsPrime(n)
  PROVE  NumbersIInv'
<1>1. Value(Numbers!Nothing) /\ Value(data[n])
  BY DEF NumbersIInv, Numbers!TypeOK, Value
<1>2. Numbers!Becomes(n, data[n], TRUE, Numbers!Nothing, {n}) BY DEF Numbers!IsPrime
<1> QED BY <1>1, <1>2, NumberBecomes

LEMMA NumbersStep ==
  NumbersIInv /\ (Numbers!Next \/ UNCHANGED numberVars) => NumbersIInv'
<1> SUFFICES ASSUME NumbersIInv, Numbers!Next \/ UNCHANGED numberVars
             PROVE  NumbersIInv'
  OBVIOUS
<1>1. CASE UNCHANGED numberVars
  BY <1>1
     DEF numberVars, NumbersIInv, Numbers!TypeOK, Numbers!ValueIsMeant, Numbers!raw
<1>2. CASE Numbers!Next
  <2> PICK n \in NumberNames :
        \/ \E w \in Words : \/ Numbers!SetWord(n, w) \/ Numbers!SubWord(n, w)
                            \/ Numbers!DivWord(n, w)
        \/ \E a, b, m \in NumberNames, op \in Operations : Numbers!SetOp(n, op, a, b, m)
        \/ \E r, a, b \in NumberNames : Numbers!DivPair(n, r, a, b)
        \/ \E m \in NumberNames : Numbers!Assign(n, m) \/ Numbers!Exchange(n, m)
        \/ Numbers!TakeRaw(n) \/ Numbers!IsPrime(n)
    BY <1>2 DEF Numbers!Next, Operations
  <2>1. CASE \E w \in Words : \/ Numbers!SetWord(n, w) \/ Numbers!SubWord(n, w)
                             \/ Numbers!DivWord(n, w)
    BY <2>1, SetWordKeeps, SubWordKeeps, DivWordKeeps
  <2>2. CASE \E a, b, m \in NumberNames, op \in Operations : Numbers!SetOp(n, op, a, b, m)
    BY <2>2, SetOpKeeps
  <2>3. CASE \E r, a, b \in NumberNames : Numbers!DivPair(n, r, a, b)
    BY <2>3, DivPairKeeps
  <2>4. CASE \E m \in NumberNames : Numbers!Assign(n, m) \/ Numbers!Exchange(n, m)
    BY <2>4, AssignKeeps, ExchangeKeeps
  <2>5. CASE Numbers!TakeRaw(n) \/ Numbers!IsPrime(n)
    BY <2>5, TakeRawKeeps, IsPrimeKeeps
  <2> QED BY <2>1, <2>2, <2>3, <2>4, <2>5
<1> QED BY <1>1, <1>2

LEMMA NumbersStart == Numbers!Init => NumbersIInv
<1> SUFFICES ASSUME Numbers!Init PROVE NumbersIInv OBVIOUS
<1>1. Numbers!TypeOK
  BY NumberFacts DEF Numbers!Init, Numbers!TypeOK
<1>2. Numbers!ValueIsMeant
  BY DEF Numbers!Init, Numbers!ValueIsMeant, Numbers!raw
<1>3. \A n \in lost : meant[n] = Numbers!Nothing BY DEF Numbers!Init
<1> QED BY <1>1, <1>2, <1>3 DEF NumbersIInv

-----------------------------------------------------------------------------
(***************************************************************************)
(* The three together, which share no variable.                            *)
(***************************************************************************)
LookupsIInv == CacheIInv /\ MethodsIInv /\ NumbersIInv

LEMMA LookupsStart == MCInit => LookupsIInv
BY CacheStart, MethodsStart, NumbersStart DEF MCInit, LookupsIInv

LEMMA LookupsStep ==
  ASSUME LookupsIInv,
         [MCNext]_<<subject, vars, pointerVars, cacheVars, methodVars, numberVars,
                    zipVars, iconVars, tracerVars>>
  PROVE  LookupsIInv'
<1>1. Cache!Next \/ UNCHANGED cacheVars
  BY DEF MCNext
<1>2. Methods!Next \/ UNCHANGED methodVars
  BY DEF MCNext
<1>3. Numbers!Next \/ UNCHANGED numberVars
  BY DEF MCNext
<1> QED BY <1>1, <1>2, <1>3, CacheStep, MethodsStep, NumbersStep DEF LookupsIInv

\* For every set of entries and of words, and every number of uses and of
\* dispatches: the map of last_used_cache leads into its list, the oldest entry
\* first; virtual_method calls the override of its arguments' classes, for Alone
\* classes one that fits or the default, and in a fresh call the nearest that
\* fits, the default only if none does; and a BigNum that has not failed has the
\* value it was set to.
THEOREM LookupsAlwaysFit == MCSpec => []LookupsFit
<1>1. LookupsIInv => LookupsFit
  BY CacheFits, MethodsFit DEF LookupsIInv, CacheIInv, NumbersIInv, LookupsFit
<1> QED BY <1>1, LookupsStart, LookupsStep, PTL DEF MCSpec

-----------------------------------------------------------------------------
(***************************************************************************)
(* QtPointers.  No two owners have one object, who is released or will be  *)
(* deleted has none, and these are not the same.                           *)
(***************************************************************************)
Owned(o) == \E p \in Pointers!Owning : holds[p] = o

PointersIInv ==
  /\ Pointers!TypeOK
  /\ \A p, q \in Pointers!Owning : holds[p] = holds[q] /\ holds[p] # Null => p = q
  /\ \A o \in loose \union deferred : ~Owned(o)
  /\ loose \intersect deferred = {}
  /\ \A o \in living :
       parent[o] # Null \/ Owned(o) \/ o \in deferred \/ o \in loose \/ o \in forgotten
  /\ \A o \in QObjects \ living : parent[o] = Null

\* The kinds of pointers.
LEMMA PointerKinds ==
  /\ \A p \in Unique : p \in Pointers!Owning /\ p \in Pointers!Pointers /\ p \notin Scoped
  /\ \A p \in Scoped : p \in Pointers!Owning /\ p \in Pointers!Pointers /\ p \notin Unique
  /\ \A p \in Pointers!Owning : p \in Pointers!Pointers /\ p \notin Weak
  /\ \A w \in Weak : w \in Pointers!Pointers /\ w \notin Pointers!Owning
  /\ \A o \in living : living \subseteq QObjects => o # Null
BY FilesAssumption DEF Pointers!Owning, Pointers!Pointers

\* What is deleted with an object: it, and the children of what is deleted.
LEMMA SubtreeFacts ==
  ASSUME NEW o
  PROVE  /\ Pointers!Subtree(o) \subseteq living
         /\ o \in living => o \in Pointers!Subtree(o)
         /\ \A c \in living : parent[c] \in Pointers!Subtree(o) => c \in Pointers!Subtree(o)
<1>1. ASSUME NEW c \in living, parent[c] \in Pointers!Subtree(o)
      PROVE  c \in Pointers!Subtree(o)
  <2> SUFFICES ASSUME NEW S \in SUBSET living,
                      \A d \in living : d = o \/ parent[d] \in S => d \in S
               PROVE  c \in S
    BY DEF Pointers!Subtree
  <2>1. parent[c] \in S BY <1>1 DEF Pointers!Subtree
  <2> QED BY <2>1
<1> QED BY <1>1 DEF Pointers!Subtree

\* What an owner has is among the objects, which Null is not.
LEMMA HeldLives ==
  ASSUME PointersIInv, NEW p \in Pointers!Owning, holds[p] # Null
  PROVE  holds[p] \in living /\ p \in Pointers!Pointers
BY PointerKinds DEF PointersIInv, Pointers!TypeOK

\* Objects are deleted together with all below them: the pointers h are those of
\* before, or moved so that none is shared and none that lives is left alone.
LEMMA SettledWell ==
  ASSUME PointersIInv, NEW h \in [Pointers!Pointers -> living \union {Null}],
         NEW gone \in SUBSET living, Pointers!Settle(h, gone),
         \A c \in living : parent[c] \in gone => c \in gone,
         \A p, q \in Pointers!Owning : h[p] = h[q] /\ h[p] # Null => p = q,
         \A p \in Pointers!Owning : h[p] # Null => Owned(h[p]),
         \A p \in Pointers!Owning : holds[p] \in living \ gone =>
             parent[holds[p]] # Null \/ \E q \in Pointers!Owning : h[q] = holds[p]
  PROVE  PointersIInv'
<1>a. Null \notin living /\ living \subseteq QObjects
  BY PointerKinds DEF PointersIInv, Pointers!TypeOK
<1>b. /\ holds' = [p \in Pointers!Pointers |-> IF h[p] \in gone THEN Null ELSE h[p]]
      /\ living' = living \ gone
      /\ parent' = [o \in QObjects |-> IF o \in gone THEN Null ELSE parent[o]]
      /\ deferred' = deferred \ gone /\ loose' = loose \ gone /\ forgotten' = forgotten \ gone
  BY DEF Pointers!Settle
<1>c. \A p \in Pointers!Owning : holds'[p] = IF h[p] \in gone THEN Null ELSE h[p]
  BY <1>b, PointerKinds
<1>1. Pointers!TypeOK'
  <2>1. holds' \in [Pointers!Pointers -> living' \union {Null}] BY <1>b
  <2>2. parent' \in [QObjects -> living' \union {Null}]
    <3> SUFFICES ASSUME NEW c \in QObjects, c \notin gone
                 PROVE  parent[c] \in (living \ gone) \union {Null}
      BY <1>b
    <3>1. CASE c \in living BY <3>1, <1>a DEF PointersIInv, Pointers!TypeOK
    <3>2. CASE c \notin living BY <3>2, <1>a DEF PointersIInv
    <3> QED BY <3>1, <3>2
  <2> QED BY <2>1, <2>2, <1>b DEF PointersIInv, Pointers!TypeOK
<1>2. \A p, q \in Pointers!Owning : holds'[p] = holds'[q] /\ holds'[p] # Null => p = q
  BY <1>c
<1>3. ASSUME NEW o \in loose' \union deferred', NEW p \in Pointers!Owning, holds'[p] = o
      PROVE  FALSE
  <2>1. o \in loose \union deferred /\ o \in living /\ o # Null
    BY <1>a, <1>b DEF PointersIInv, Pointers!TypeOK
  <2>2. h[p] = o BY <1>3, <1>c, <2>1
  <2>3. Owned(o) BY <2>1, <2>2
  <2> QED BY <2>1, <2>3 DEF PointersIInv
<1>4. loose' \intersect deferred' = {} BY <1>b DEF PointersIInv
<1>5. ASSUME NEW o \in living'
      PROVE  parent'[o] # Null \/ Owned(o)' \/ o \in deferred' \/ o \in loose' \/ o \in forgotten'
  <2>1. o \in living /\ o \notin gone /\ parent'[o] = parent[o] BY <1>a, <1>b
  <2>2. CASE Owned(o)
    <3>1. PICK p \in Pointers!Owning : holds[p] = o BY <2>2 DEF Owned
    <3>2. CASE parent[o] # Null BY <3>2, <2>1
    <3>3. CASE \E q \in Pointers!Owning : h[q] = o
      BY <3>3, <1>c, <2>1 DEF Owned
    <3> QED BY <3>1, <3>2, <3>3, <2>1
  <2>3. CASE ~Owned(o) BY <2>1, <2>3, <1>b DEF PointersIInv
  <2> QED BY <2>2, <2>3
<1>6. \A o \in QObjects \ living' : parent'[o] = Null
  BY <1>b DEF PointersIInv
<1> QED BY <1>1, <1>2, <1>3, <1>4, <1>5, <1>6 DEF PointersIInv, Owned

\* delete of an object, with its children, and their pointers reset.
LEMMA DeleteKeeps ==
  ASSUME PointersIInv, NEW o \in living, Pointers!Delete(o)
  PROVE  PointersIInv'
<1>1. holds \in [Pointers!Pointers -> living \union {Null}]
  BY DEF PointersIInv, Pointers!TypeOK
<1>2. \A p \in Pointers!Owning : holds[p] # Null => Owned(holds[p]) BY DEF Owned
<1>3. \A p, q \in Pointers!Owning : holds[p] = holds[q] /\ holds[p] # Null => p = q
  BY DEF PointersIInv
<1>4. Pointers!Settle(holds, Pointers!Subtree(o)) BY DEF Pointers!Delete
<1> QED BY <1>1, <1>2, <1>3, <1>4, SettledWell, SubtreeFacts

\* A pointer gets an object that no owner has and that is not below the one it
\* had, which is deleted.
LEMMA ReplacedWell ==
  ASSUME PointersIInv, NEW p \in Pointers!Owning, NEW o \in QObjects,
         NEW gone, gone = Pointers!Subtree(holds[p]),
         NEW par \in (living \union {Null}) \ gone,
         ~Owned(o), o \notin deferred \ gone, o \notin gone,
         holds' = [q \in Pointers!Pointers |->
                     IF q = p THEN o ELSE IF holds[q] \in gone THEN Null ELSE holds[q]],
         living' = (living \ gone) \union {o},
         parent' = [c \in QObjects |-> IF c = o THEN par
                                       ELSE IF c \in gone THEN Null ELSE parent[c]],
         deferred' = deferred \ gone, loose' = loose \ (gone \union {o}),
         forgotten' = forgotten \ gone
  PROVE  PointersIInv'
<1>a. Null \notin living /\ living \subseteq QObjects /\ Null \notin QObjects
  BY FilesAssumption DEF PointersIInv, Pointers!TypeOK
<1>b. /\ gone \subseteq living
      /\ holds[p] \in living => holds[p] \in gone
      /\ \A c \in living : parent[c] \in gone => c \in gone
  BY SubtreeFacts
<1>c. \A q \in Pointers!Owning :
        holds'[q] = IF q = p THEN o ELSE IF holds[q] \in gone THEN Null ELSE holds[q]
  BY PointerKinds
<1>1. Pointers!TypeOK'
  <2>1. holds' \in [Pointers!Pointers -> living' \union {Null}]
    BY <1>b DEF PointersIInv, Pointers!TypeOK
  <2>2. parent' \in [QObjects -> living' \union {Null}]
    <3> SUFFICES ASSUME NEW c \in QObjects PROVE  parent'[c] \in living' \union {Null}
      OBVIOUS
    <3>1. CASE c = o BY <3>1, <1>a
    <3>2. CASE c # o /\ c \in living BY <3>2, <1>a, <1>b DEF PointersIInv, Pointers!TypeOK
    <3>3. CASE c # o /\ c \notin living BY <3>3, <1>a DEF PointersIInv
    <3> QED BY <3>1, <3>2, <3>3
  <2> QED BY <2>1, <2>2, <1>a DEF PointersIInv, Pointers!TypeOK
<1>2. \A q, r \in Pointers!Owning : holds'[q] = holds'[r] /\ holds'[q] # Null => q = r
  BY <1>c DEF PointersIInv, Owned
<1>3. ASSUME NEW d \in loose' \union deferred', NEW q \in Pointers!Owning, holds'[q] = d
      PROVE  FALSE
  <2>1. d \in loose \union deferred /\ d # o /\ d # Null
    BY <1>a DEF PointersIInv, Pointers!TypeOK
  <2>2. holds[q] = d BY <1>3, <1>c, <2>1
  <2> QED BY <2>1, <2>2 DEF PointersIInv, Owned
<1>4. loose' \intersect deferred' = {} BY DEF PointersIInv
<1>5. ASSUME NEW d \in living'
      PROVE  parent'[d] # Null \/ Owned(d)' \/ d \in deferred' \/ d \in loose' \/ d \in forgotten'
  <2>1. CASE d = o BY <2>1, <1>c DEF Owned
  <2>2. CASE d # o
    <3>1. d \in living /\ d \notin gone /\ parent'[d] = parent[d] BY <1>a, <2>2
    <3>2. CASE Owned(d)
      <4>1. PICK q \in Pointers!Owning : holds[q] = d BY <3>2 DEF Owned
      <4>2. q # p BY <3>1, <4>1, <1>b
      <4> QED BY <4>1, <4>2, <3>1, <1>c DEF Owned
    <3>3. CASE ~Owned(d) BY <2>2, <3>1, <3>3 DEF PointersIInv
    <3> QED BY <3>2, <3>3
  <2> QED BY <2>1, <2>2
<1>6. \A d \in QObjects \ living' : parent'[d] = Null
  BY <1>a, <1>b DEF PointersIInv
<1>7. \A d \in loose' \union deferred' : ~Owned(d)' BY <1>3 DEF Owned
<1> QED BY <1>1, <1>2, <1>4, <1>5, <1>6, <1>7 DEF PointersIInv

\* unique_qptr and object_ptr created over the object they had.
LEMMA CreateKeeps ==
  ASSUME PointersIInv, NEW p \in Pointers!Owning, NEW o \in QObjects,
         NEW par \in QObjects \union {Null}, Pointers!Create(p, o, par)
  PROVE  PointersIInv'
<1> DEFINE gone == Pointers!Subtree(holds[p])
<1>1. o \notin living /\ o # Null /\ par \in (living \union {Null}) \ gone
  BY FilesAssumption DEF Pointers!Create
<1>2. ~Owned(o) /\ o \notin deferred /\ o \notin loose /\ o \notin gone
  BY <1>1, HeldLives, SubtreeFacts DEF Owned, PointersIInv, Pointers!TypeOK
<1>3. loose' = loose \ (gone \union {o}) BY <1>2 DEF Pointers!Create
<1>4. /\ holds' = [q \in Pointers!Pointers |->
                     IF q = p THEN o ELSE IF holds[q] \in gone THEN Null ELSE holds[q]]
      /\ living' = (living \ gone) \union {o}
      /\ parent' = [c \in QObjects |-> IF c = o THEN par
                                       ELSE IF c \in gone THEN Null ELSE parent[c]]
      /\ deferred' = deferred \ gone /\ forgotten' = forgotten \ gone
  BY DEF Pointers!Create
<1> HIDE DEF gone
<1>5. gone = Pointers!Subtree(holds[p]) BY DEF gone
<1> QED BY <1>1, <1>2, <1>3, <1>4, <1>5, ReplacedWell

\* An object nobody has yet is taken by a pointer.
LEMMA AdoptKeeps ==
  ASSUME PointersIInv, NEW p \in Pointers!Owning, NEW o \in QObjects, Pointers!Adopt(p, o)
  PROVE  PointersIInv'
<1> DEFINE gone == Pointers!Subtree(holds[p])
<1>1. o \in loose /\ o \notin gone /\ o \in living /\ o \in QObjects
  BY DEF Pointers!Adopt, PointersIInv, Pointers!TypeOK
<1>2. ~Owned(o) /\ o \notin deferred BY <1>1 DEF PointersIInv
<1>3. parent[o] \in (living \union {Null}) \ gone
  <2>1. parent[o] \in living \union {Null} BY DEF PointersIInv, Pointers!TypeOK
  <2>2. parent[o] \notin gone BY <1>1, SubtreeFacts
  <2> QED BY <2>1, <2>2
<1>4. /\ holds' = [q \in Pointers!Pointers |->
                     IF q = p THEN o ELSE IF holds[q] \in gone THEN Null ELSE holds[q]]
      /\ living' = living \ gone
      /\ parent' = [c \in QObjects |-> IF c \in gone THEN Null ELSE parent[c]]
      /\ deferred' = deferred \ gone /\ loose' = loose \ (gone \union {o})
      /\ forgotten' = forgotten \ gone
  BY DEF Pointers!Adopt
<1> HIDE DEF gone
<1>5. /\ living' = (living \ gone) \union {o}
      /\ parent' = [c \in QObjects |-> IF c = o THEN parent[o]
                                       ELSE IF c \in gone THEN Null ELSE parent[c]]
  BY <1>1, <1>4
<1>6. gone = Pointers!Subtree(holds[p]) BY DEF gone
<1> QED BY <1>1, <1>2, <1>3, <1>4, <1>5, <1>6, ReplacedWell

\* The move assignment of pointers deletes what the target had.
LEMMA MoveKeeps ==
  ASSUME PointersIInv, NEW p \in Pointers!Owning, NEW q \in Pointers!Owning,
         Pointers!Move(p, q)
  PROVE  PointersIInv'
<1> DEFINE h == [holds EXCEPT ![p] = holds[q], ![q] = Null]
           gone == Pointers!Subtree(holds[p])
<1>1. p # q /\ holds[q] # Null /\ Pointers!Settle(h, gone) BY DEF Pointers!Move
<1>2. h \in [Pointers!Pointers -> living \union {Null}]
  BY PointerKinds DEF PointersIInv, Pointers!TypeOK
<1>3. \A r \in Pointers!Owning : h[r] = IF r = p THEN holds[q] ELSE IF r = q THEN Null ELSE holds[r]
  BY <1>1, PointerKinds DEF PointersIInv, Pointers!TypeOK
<1>4. gone \in SUBSET living /\ \A c \in living : parent[c] \in gone => c \in gone
  BY SubtreeFacts
<1>5. holds[p] \in living => holds[p] \in gone BY SubtreeFacts
<1> HIDE DEF h, gone
<1>6. \A r, t \in Pointers!Owning : h[r] = h[t] /\ h[r] # Null => r = t
  BY <1>1, <1>3 DEF PointersIInv
<1>7. \A r \in Pointers!Owning : h[r] # Null => Owned(h[r]) BY <1>3 DEF Owned
<1>8. \A r \in Pointers!Owning : holds[r] \in living \ gone =>
             parent[holds[r]] # Null \/ \E t \in Pointers!Owning : h[t] = holds[r]
  BY <1>3, <1>5
<1> QED BY <1>1, <1>2, <1>4, <1>6, <1>7, <1>8, SettledWell

\* The destructor of a unique_qptr deletes, that of an object_ptr spares children.
LEMMA DestructKeeps ==
  ASSUME PointersIInv, NEW p \in Pointers!Owning, Pointers!Destruct(p)
  PROVE  PointersIInv'
<1> DEFINE h == [holds EXCEPT ![p] = Null]
<1>1. CASE p \in Unique \/ parent[holds[p]] = Null
  BY <1>1, HeldLives, DeleteKeeps DEF Pointers!Destruct
<1>2. CASE ~(p \in Unique \/ parent[holds[p]] = Null)
  <2>1. Pointers!Settle(h, {}) BY <1>2 DEF Pointers!Destruct
  <2>2. h \in [Pointers!Pointers -> living \union {Null}]
    BY PointerKinds DEF PointersIInv, Pointers!TypeOK
  <2>3. \A r \in Pointers!Owning : h[r] = IF r = p THEN Null ELSE holds[r]
    BY PointerKinds DEF PointersIInv, Pointers!TypeOK
  <2> HIDE DEF h
  <2>4. \A r, t \in Pointers!Owning : h[r] = h[t] /\ h[r] # Null => r = t
    BY <2>3 DEF PointersIInv
  <2>5. \A r \in Pointers!Owning : h[r] # Null => Owned(h[r]) BY <2>3 DEF Owned
  <2>6. \A r \in Pointers!Owning : holds[r] \in living =>
             parent[holds[r]] # Null \/ \E t \in Pointers!Owning : h[t] = holds[r]
    BY <2>3, <1>2
  <2> QED BY <2>1, <2>2, <2>4, <2>5, <2>6, SettledWell
<1> QED BY <1>1, <1>2

\* Nothing is deleted, and owners give objects up or exchange them.
LEMMA GivenUpWell ==
  ASSUME PointersIInv, UNCHANGED <<living, parent>>,
         holds' \in [Pointers!Pointers -> living \union {Null}],
         \A q, r \in Pointers!Owning : holds'[q] = holds'[r] /\ holds'[q] # Null => q = r,
         \A q \in Pointers!Owning : holds'[q] # Null => Owned(holds'[q]),
         loose \subseteq loose', deferred \subseteq deferred', forgotten \subseteq forgotten',
         loose' \subseteq living, deferred' \subseteq living, forgotten' \subseteq living,
         loose' \intersect deferred' = {},
         \A o \in (loose' \union deferred') \ (loose \union deferred) : ~Owned(o)',
         \A o \in living : Owned(o) => \/ Owned(o)' \/ parent[o] # Null
                                       \/ o \in deferred' \/ o \in loose' \/ o \in forgotten'
  PROVE  PointersIInv'
<1>a. Null \notin living BY PointerKinds DEF PointersIInv, Pointers!TypeOK
<1>1. Pointers!TypeOK' BY DEF PointersIInv, Pointers!TypeOK
<1>2. \A o \in loose' \union deferred' : ~Owned(o)'
  <2> SUFFICES ASSUME NEW o \in loose \union deferred, Owned(o)' PROVE FALSE
    OBVIOUS
  <2>1. o \in living BY DEF PointersIInv, Pointers!TypeOK
  <2>2. Owned(o) BY <1>a, <2>1 DEF Owned
  <2> QED BY <2>2 DEF PointersIInv
<1>3. \A o \in living' :
        parent'[o] # Null \/ Owned(o)' \/ o \in deferred' \/ o \in loose' \/ o \in forgotten'
  BY DEF PointersIInv
<1> QED BY <1>1, <1>2, <1>3 DEF PointersIInv

\* release() leaves the object to the caller, destroyDelayed() to the event loop.
LEMMA ReleaseKeeps ==
  ASSUME PointersIInv, NEW p \in Pointers!Owning,
         Pointers!release(p) \/ Pointers!destroyDelayed(p)
  PROVE  PointersIInv'
<1>1. holds[p] # Null /\ holds' = [holds EXCEPT ![p] = Null]
  BY DEF Pointers!release, Pointers!destroyDelayed
<1>2. holds[p] \in living BY <1>1, HeldLives
<1>3. holds' \in [Pointers!Pointers -> living \union {Null}]
  BY <1>1 DEF PointersIInv, Pointers!TypeOK
<1>4. \A r \in Pointers!Owning : holds'[r] = IF r = p THEN Null ELSE holds[r]
  BY <1>1, PointerKinds DEF PointersIInv, Pointers!TypeOK
<1>5. \A q, r \in Pointers!Owning : holds'[q] = holds'[r] /\ holds'[q] # Null => q = r
  BY <1>4 DEF PointersIInv
<1>6. \A q \in Pointers!Owning : holds'[q] # Null => Owned(holds'[q]) BY <1>4 DEF Owned
<1>7. /\ UNCHANGED <<living, parent, forgotten>>
      /\ \/ loose' = loose \union {holds[p]} /\ deferred' = deferred
         \/ deferred' = deferred \union {holds[p]} /\ loose' = loose
  BY DEF Pointers!release, Pointers!destroyDelayed
<1>8. holds[p] \notin loose \union deferred BY DEF PointersIInv, Owned
<1>9. \A q \in Pointers!Owning : holds'[q] # holds[p]
  BY <1>1, <1>4 DEF PointersIInv
<1>10. \A o \in (loose' \union deferred') \ (loose \union deferred) : ~Owned(o)'
  BY <1>7, <1>9 DEF Owned
<1>11. \A o \in living : Owned(o) => \/ Owned(o)' \/ parent[o] # Null
                                     \/ o \in deferred' \/ o \in loose' \/ o \in forgotten'
  BY <1>4, <1>7 DEF Owned
<1>12. /\ loose' \subseteq living /\ deferred' \subseteq living /\ forgotten' \subseteq living
       /\ loose' \intersect deferred' = {}
  BY <1>2, <1>7, <1>8 DEF PointersIInv, Pointers!TypeOK
<1> QED BY <1>3, <1>5, <1>6, <1>7, <1>10, <1>11, <1>12, GivenUpWell

\* An object_ptr assigned to forgets what it had.
LEMMA DropKeeps ==
  ASSUME PointersIInv, NEW p \in Pointers!Owning, NEW q \in Pointers!Owning,
         Pointers!Drop(p, q)
  PROVE  PointersIInv'
<1>1. /\ holds[p] # Null /\ UNCHANGED <<living, parent, deferred, loose>>
      /\ holds' = IF p = q THEN [holds EXCEPT ![p] = Null]
                  ELSE [holds EXCEPT ![p] = holds[q], ![q] = Null]
      /\ forgotten' = IF parent[holds[p]] = Null THEN forgotten \union {holds[p]} ELSE forgotten
  BY DEF Pointers!Drop
<1>2. holds[p] \in living BY <1>1, HeldLives
<1>3. holds' \in [Pointers!Pointers -> living \union {Null}]
  BY <1>1, PointerKinds DEF PointersIInv, Pointers!TypeOK
<1>4. \A r \in Pointers!Owning :
        holds'[r] = IF r = q THEN Null ELSE IF r = p THEN holds[q] ELSE holds[r]
  BY <1>1, PointerKinds DEF PointersIInv, Pointers!TypeOK
<1>5. \A r, t \in Pointers!Owning : holds'[r] = holds'[t] /\ holds'[r] # Null => r = t
  BY <1>4 DEF PointersIInv
<1>6. \A r \in Pointers!Owning : holds'[r] # Null => Owned(holds'[r]) BY <1>4 DEF Owned
<1>7. \A o \in living : Owned(o) => Owned(o)' \/ parent[o] # Null \/ o \in forgotten'
  <2> SUFFICES ASSUME NEW o \in living, NEW r \in Pointers!Owning, holds[r] = o
               PROVE  Owned(o)' \/ parent[o] # Null \/ o \in forgotten'
    BY DEF Owned
  <2>1. CASE r = p BY <2>1, <1>1
  <2>2. CASE r = q /\ r # p BY <2>2, <1>4 DEF Owned
  <2>3. CASE r # p /\ r # q BY <2>3, <1>4 DEF Owned
  <2> QED BY <2>1, <2>2, <2>3
<1>8. /\ loose' \subseteq living /\ deferred' \subseteq living /\ forgotten' \subseteq living
      /\ forgotten \subseteq forgotten' /\ loose' \intersect deferred' = {}
  BY <1>1, <1>2 DEF PointersIInv, Pointers!TypeOK
<1> QED BY <1>1, <1>3, <1>5, <1>6, <1>7, <1>8, GivenUpWell

\* A weak pointer owns nothing, so what it looks at changes no owner.
LEMMA ObserveKeeps ==
  ASSUME PointersIInv, NEW w \in Weak, NEW o, Pointers!Observe(w, o)
  PROVE  PointersIInv'
<1>1. /\ o \in living \union {Null} /\ holds' = [holds EXCEPT ![w] = o]
      /\ UNCHANGED <<living, parent, deferred, loose, forgotten>>
  BY DEF Pointers!Observe
<1>2. holds' \in [Pointers!Pointers -> living \union {Null}]
  BY <1>1 DEF PointersIInv, Pointers!TypeOK
<1>3. \A r \in Pointers!Owning : holds'[r] = holds[r]
  BY <1>1, PointerKinds DEF PointersIInv, Pointers!TypeOK
<1>4. \A d : Owned(d)' <=> Owned(d) BY <1>3 DEF Owned
<1>5. Pointers!TypeOK' BY <1>1, <1>2 DEF PointersIInv, Pointers!TypeOK
<1> QED BY <1>1, <1>3, <1>4, <1>5 DEF PointersIInv

\* setParent() makes the parent the one who deletes.
LEMMA SetParentKeeps ==
  ASSUME PointersIInv, NEW o, NEW par, Pointers!setParent(o, par)
  PROVE  PointersIInv'
<1>1. /\ o \in living /\ par \in living /\ parent' = [parent EXCEPT ![o] = par]
      /\ loose' = loose \ {o} /\ forgotten' = forgotten \ {o}
      /\ UNCHANGED <<holds, living, deferred>>
  BY DEF Pointers!setParent
<1>a. Null \notin living BY PointerKinds DEF PointersIInv, Pointers!TypeOK
<1>2. Pointers!TypeOK' BY <1>1 DEF PointersIInv, Pointers!TypeOK
<1>3. \A d : Owned(d)' <=> Owned(d) BY <1>1 DEF Owned
<1>4. \A d \in QObjects : parent'[d] = IF d = o THEN par ELSE parent[d]
  BY <1>1 DEF PointersIInv, Pointers!TypeOK
<1>5. ASSUME NEW d \in living'
      PROVE  parent'[d] # Null \/ Owned(d)' \/ d \in deferred' \/ d \in loose' \/ d \in forgotten'
  <2>1. d \in living /\ d \in QObjects BY <1>1 DEF PointersIInv, Pointers!TypeOK
  <2>2. CASE d = o BY <2>1, <2>2, <1>1, <1>4, <1>a
  <2>3. CASE d # o BY <2>1, <2>3, <1>1, <1>3, <1>4 DEF PointersIInv
  <2> QED BY <2>2, <2>3
<1> QED BY <1>1, <1>2, <1>3, <1>4, <1>5 DEF PointersIInv

\* Every step of the pointers preserves their invariant.
LEMMA PointersStep ==
  PointersIInv /\ (Pointers!Next \/ UNCHANGED pointerVars) => PointersIInv'
<1> SUFFICES ASSUME PointersIInv, Pointers!Next \/ UNCHANGED pointerVars
             PROVE  PointersIInv'
  OBVIOUS
<1>1. CASE UNCHANGED pointerVars
  BY <1>1 DEF pointerVars, PointersIInv, Pointers!TypeOK, Owned
<1>2. ASSUME NEW p \in Pointers!Owning, NEW o \in QObjects,
             Pointers!Adopt(p, o) \/ \E par \in QObjects \union {Null} : Pointers!Create(p, o, par)
      PROVE  PointersIInv'
  BY <1>2, AdoptKeeps, CreateKeeps
<1>3. ASSUME NEW p \in Pointers!Owning, NEW q \in Pointers!Owning,
             Pointers!Move(p, q) \/ Pointers!Drop(p, q)
      PROVE  PointersIInv'
  BY <1>3, MoveKeeps, DropKeeps
<1>4. ASSUME NEW p \in Pointers!Owning, Pointers!Reset(p)
      PROVE  PointersIInv'
  BY <1>4, HeldLives, DeleteKeeps DEF Pointers!Reset
<1>5. ASSUME NEW p \in Pointers!Owning,
             Pointers!release(p) \/ Pointers!destroyDelayed(p) \/ Pointers!Destruct(p)
      PROVE  PointersIInv'
  BY <1>5, ReleaseKeeps, DestructKeeps
<1>6. ASSUME NEW w \in Weak, NEW o, Pointers!Observe(w, o)
      PROVE  PointersIInv'
  BY <1>6, ObserveKeeps
<1>7. ASSUME NEW o, NEW par, Pointers!setParent(o, par)
      PROVE  PointersIInv'
  BY <1>7, SetParentKeeps
<1>8. CASE Pointers!DeferredDelete \/ Pointers!DeleteElsewhere
  <2>1. PICK o \in living : Pointers!Delete(o)
    BY <1>8 DEF Pointers!DeferredDelete, Pointers!DeleteElsewhere, PointersIInv, Pointers!TypeOK
  <2> QED BY <2>1, DeleteKeeps
<1> QED BY <1>1, <1>2, <1>3, <1>4, <1>5, <1>6, <1>7, <1>8 DEF Pointers!Next

\* No object lives and no pointer has one at the start.
LEMMA PointersStart == Pointers!Init => PointersIInv
<1> SUFFICES ASSUME Pointers!Init PROVE PointersIInv OBVIOUS
<1>1. Pointers!TypeOK BY DEF Pointers!Init, Pointers!TypeOK
<1>2. \A p \in Pointers!Owning : holds[p] = Null BY PointerKinds DEF Pointers!Init
<1> QED BY <1>1, <1>2 DEF Pointers!Init, PointersIInv

\* The invariant in the words of the checked properties: at most one owner, and
\* someone who deletes.
LEMMA PointersFit ==
  PointersIInv => Pointers!OneOwner /\ Pointers!SomeoneDeletes
<1> SUFFICES ASSUME PointersIInv, NEW o \in living
             PROVE  /\ Pointers!Cardinality(Pointers!Owners(o)) <= 1
                    /\ o \in loose \union deferred => Pointers!Owners(o) = {}
                    /\ \/ parent[o] # Null \/ Pointers!Owners(o) # {}
                       \/ o \in deferred \union loose \union forgotten
  BY DEF Pointers!OneOwner, Pointers!SomeoneDeletes
<1>1. Owned(o) <=> Pointers!Owners(o) # {} BY DEF Owned, Pointers!Owners
<1>2. \A S : Pointers!Cardinality(S) = Cardinality(S)
  BY DEF Pointers!Cardinality, Cardinality, Pointers!IsFiniteSet, IsFiniteSet
<1>3. Cardinality(Pointers!Owners(o)) <= 1
  <2>1. CASE Pointers!Owners(o) = {} BY <2>1, FS_EmptySet
  <2>2. CASE Pointers!Owners(o) # {}
    <3>1. PICK p \in Pointers!Owning : holds[p] = o BY <2>2 DEF Pointers!Owners
    <3>2. o # Null BY PointerKinds DEF PointersIInv, Pointers!TypeOK
    <3>3. Pointers!Owners(o) = {p} BY <3>1, <3>2 DEF Pointers!Owners, PointersIInv
    <3>4. Cardinality(Pointers!Owners(o)) = 1 BY <3>3, FS_Singleton
    <3> QED BY <3>4
  <2> QED BY <2>1, <2>2
<1> QED BY <1>1, <1>2, <1>3 DEF PointersIInv

\* The destructor of an object_ptr deletes nothing that has a parent.
LEMMA ScopeSpares ==
  ASSUME PointersIInv, NEW p \in Scoped, NEW o \in QObjects,
         Pointers!Destruct(p), holds[p] = o, parent[o] # Null
  PROVE  o \in living'
<1>1. p \in Pointers!Owning /\ p \notin Unique BY PointerKinds
<1>2. o \in living BY <1>1, HeldLives, FilesAssumption
<1> QED BY <1>1, <1>2 DEF Pointers!Destruct, Pointers!Settle

-----------------------------------------------------------------------------
\* The pointers' invariant holds in every state of every behaviour.
LEMMA PointersStay == MCSpec => []PointersIInv
<1>1. MCInit => PointersIInv BY PointersStart DEF MCInit
<1>2. ASSUME PointersIInv,
             [MCNext]_<<subject, vars, pointerVars, cacheVars, methodVars, numberVars,
                    zipVars, iconVars, tracerVars>>
      PROVE  PointersIInv'
  BY <1>2, PointersStep DEF MCNext
<1> QED BY <1>1, <1>2, PTL DEF MCSpec

\* For every set of objects and of pointers of each kind: at most one owner has an
\* object, one who is released or to be deleted has none, an object that lives has
\* someone who will delete it, and the destructor of an object_ptr spares an object
\* that got a parent (unique_qptr.h, object_ptr.h).
THEOREM OneOwnerAlwaysDeletes == MCSpec => OneOwnerDeletes
<1>1. PointersIInv => Pointers!TypeOK /\ Pointers!OneOwner /\ Pointers!SomeoneDeletes
  BY PointersFit DEF PointersIInv
<1>2. PointersIInv =>
        [\A p \in Scoped, o \in QObjects :
           Pointers!Destruct(p) /\ holds[p] = o /\ parent[o] # Null
             => o \in living']_(Pointers!vars)
  BY ScopeSpares
<1>3. MCSpec => Pointers!ScopeSparesChildren
  BY <1>2, PointersStay, PTL DEF Pointers!ScopeSparesChildren
<1> QED BY <1>1, <1>3, PointersStay, PTL DEF OneOwnerDeletes

-----------------------------------------------------------------------------
-----------------------------------------------------------------------------
(***************************************************************************)
(* ZipFile.  A position beyond the data has its error, and an archive      *)
(* without one has, with the file being written, all that were accepted.   *)
(***************************************************************************)
Whole == IF currentMember = NoMember THEN archive ELSE Append(archive, currentMember)

ZipIInv ==
  /\ Zip!TypeOK /\ Zip!BytesAreWritten /\ Zip!ContentIsAsked
  /\ ~dataError => position <= Len(bytes)
  /\ Len(bytes) <= MaxBytes
  /\ part = "memory" \/ position = 0
  /\ part = "write" /\ ~Zip!Failed => accepted = Whole
  /\ ~handle => currentMember = NoMember

\* An archive without an error has all the files that were accepted.
LEMMA ZipFit == ZipIInv => Zip!ArchiveIsWhole
BY DEF ZipIInv, Zip!ArchiveIsWhole, Whole

\* qt_write over the buffer of FileToWrite().
LEMMA MemoryWriteKeeps == ASSUME ZipIInv, part = "memory", Zip!MemoryWrite,
   UNCHANGED <<part, handle, zipError, currentMember, content, short, archive, accepted, steps>>
   PROVE ZipIInv'
<1> USE FilesAssumption
<1>0. PICK size \in 1 .. MaxBytes :
    /\ position + size <= MaxBytes
    /\ bytes' = [i \in 1 .. Len(bytes) \cup 1 .. (position + size) |->
                   (i \in DOMAIN bytes /\ bytes[i]) \/ i \in position + 1 .. position + size]
    /\ position' = position + size /\ ignored' = (ignored \/ dataError)
    /\ UNCHANGED dataError
  BY DEF Zip!MemoryWrite
<1> DEFINE n == IF Len(bytes) > position + size THEN Len(bytes) ELSE position + size
<1>1. /\ bytes \in Seq(BOOLEAN) /\ Len(bytes) \in Nat /\ DOMAIN bytes = 1..Len(bytes)
      /\ position \in Nat /\ size \in Nat /\ ignored \in BOOLEAN /\ dataError \in BOOLEAN
      /\ ~dataError => position <= Len(bytes)
  BY <1>0 DEF ZipIInv, Zip!TypeOK
<1>2. n \in Nat /\ 1 .. Len(bytes) \cup 1 .. (position + size) = 1..n
  BY <1>1
<1>3. bytes' = [i \in 1..n |-> (i \in DOMAIN bytes /\ bytes[i])
                                \/ i \in position + 1 .. position + size]
  BY <1>0, <1>2
<1>4. bytes' \in Seq(BOOLEAN) /\ Len(bytes') = n /\ DOMAIN bytes' = 1..n
  <2> DEFINE b(i) == (i \in DOMAIN bytes /\ bytes[i]) \/ i \in position + 1 .. position + size
  <2>1. \A i : b(i) \in BOOLEAN OBVIOUS
  <2>2. bytes' = [i \in 1..n |-> b(i)] BY <1>3
  <2> HIDE DEF b, n
  <2>3. bytes' \in [1..n -> BOOLEAN] BY <2>1, <2>2
  <2> QED BY <2>3, <1>2
<1>5. Zip!BytesAreWritten'
  <2> SUFFICES ASSUME ~ignored, ~dataError, NEW i \in 1..n PROVE bytes'[i]
    BY <1>0, <1>4 DEF Zip!BytesAreWritten
  <2>1. CASE i \notin DOMAIN bytes
    <3>1. i \in position + 1 .. position + size BY <2>1, <1>1, <1>2
    <3> QED BY <3>1, <1>3
  <2>2. CASE i \in DOMAIN bytes
    BY <2>2, <1>3 DEF ZipIInv, Zip!BytesAreWritten
  <2> QED BY <2>1, <2>2
<1>6. position' <= n /\ n <= MaxBytes BY <1>0, <1>1 DEF ZipIInv
<1> HIDE DEF n
<1>8. position' <= Len(bytes') /\ Len(bytes') <= MaxBytes BY <1>4, <1>6
<1>9. position' \in 0..MaxBytes BY <1>0, <1>1
<1>7. Zip!TypeOK' BY <1>0, <1>1, <1>4, <1>9 DEF ZipIInv, Zip!TypeOK
<1> QED BY <1>0, <1>5, <1>8, <1>7 DEF ZipIInv, Zip!ContentIsAsked, Zip!Failed, Whole

\* Reads, seeks and writes of the memory file preserve its invariant.
LEMMA MemoryKeeps == ASSUME ZipIInv, Zip!MemoryStep PROVE ZipIInv'
<1>1. /\ part = "memory"
      /\ UNCHANGED <<part, handle, zipError, currentMember, content, short,
                     archive, accepted, steps>>
  BY DEF Zip!MemoryStep, Zip!readVars, Zip!writeVars
<1>2. CASE Zip!MemoryWrite BY <1>1, <1>2, MemoryWriteKeeps
<1>3. CASE Zip!MemoryOpen \/ Zip!MemoryClose
  <2>0. Len(bytes) \in Nat BY DEF ZipIInv, Zip!TypeOK
  <2>1. /\ position' = 0 /\ dataError' = FALSE
        /\ bytes' \in {<<>>, bytes}
        /\ ignored' \in BOOLEAN /\ (ignored' = ignored \/ bytes' = <<>>)
    <3>1. ignored \in BOOLEAN BY DEF ZipIInv, Zip!TypeOK
    <3>2. CASE Zip!MemoryOpen
      <4>1. PICK create \in BOOLEAN :
              /\ bytes' = IF create THEN <<>> ELSE bytes
              /\ ignored' = (ignored /\ ~create)
              /\ position' = 0 /\ dataError' = FALSE
        BY <3>2 DEF Zip!MemoryOpen
      <4>2. CASE create BY <4>1, <4>2
      <4>3. CASE ~create BY <3>1, <4>1, <4>3
      <4> QED BY <4>2, <4>3
    <3>3. CASE Zip!MemoryClose BY <3>1, <3>3 DEF Zip!MemoryClose
    <3> QED BY <1>3, <3>2, <3>3
  <2>5. bytes' \in Seq(BOOLEAN) BY <2>1, EmptySeq DEF ZipIInv, Zip!TypeOK
  <2>6. Len(bytes') <= MaxBytes
    <3>1. CASE bytes' = <<>>
      <4>1. Len(bytes') = 0 BY <3>1
      <4> QED BY <4>1, FilesAssumption
    <3>2. CASE bytes' = bytes BY <3>2 DEF ZipIInv
    <3> QED BY <2>1, <3>1, <3>2
  <2>7. position' \in 0..MaxBytes BY <2>1, FilesAssumption
  <2>8. dataError' \in BOOLEAN BY <2>1
  <2>2. Zip!TypeOK' BY <1>1, <2>1, <2>5, <2>7, <2>8 DEF ZipIInv, Zip!TypeOK
  <2>3. Zip!BytesAreWritten' BY <2>1 DEF ZipIInv, Zip!BytesAreWritten
  <2>4. position' <= Len(bytes') BY <2>1, <2>5
  <2> QED BY <1>1, <2>2, <2>3, <2>4, <2>6 DEF ZipIInv, Zip!ContentIsAsked, Zip!Failed, Whole
<1>4. CASE Zip!MemoryRead
  <2>1. PICK size \in 1 .. MaxBytes :
          /\ position' = position + (IF size < (IF Len(bytes) > position THEN Len(bytes) - position ELSE 0)
                THEN size ELSE IF Len(bytes) > position THEN Len(bytes) - position ELSE 0)
          /\ ~dataError /\ UNCHANGED <<bytes, dataError, ignored>>
    BY <1>4 DEF Zip!MemoryRead
  <2>2. Len(bytes) \in Nat /\ position \in 0..MaxBytes /\ position <= Len(bytes)
    BY <2>1 DEF ZipIInv, Zip!TypeOK
  <2>3. position' \in Nat /\ position' <= Len(bytes) BY <2>1, <2>2
  <2>4. Len(bytes) <= MaxBytes BY DEF ZipIInv
  <2>5. Zip!TypeOK' BY <1>1, <2>1, <2>2, <2>3, <2>4, FilesAssumption DEF ZipIInv, Zip!TypeOK
  <2> QED BY <1>1, <2>1, <2>3, <2>5
        DEF ZipIInv, Zip!BytesAreWritten, Zip!ContentIsAsked, Zip!Failed, Whole
<1>5. CASE Zip!MemorySeek
  <2>1. PICK place \in 0..MaxBytes :
          position' = place /\ dataError' = (place > Len(bytes)) /\ UNCHANGED <<bytes, ignored>>
    BY <1>5 DEF Zip!MemorySeek
  <2>2. Len(bytes) \in Nat /\ place \in Nat BY FilesAssumption DEF ZipIInv, Zip!TypeOK
  <2>3. (~dataError' => position' <= Len(bytes')) /\ dataError' \in BOOLEAN
    <3>1. CASE place > Len(bytes) BY <3>1, <2>1
    <3>2. CASE ~(place > Len(bytes)) BY <3>2, <2>1, <2>2
    <3> QED BY <3>1, <3>2
  <2>5. Zip!TypeOK' BY <1>1, <2>1, <2>3 DEF ZipIInv, Zip!TypeOK
  <2> QED BY <1>1, <2>1, <2>3, <2>5
        DEF ZipIInv, Zip!BytesAreWritten, Zip!ContentIsAsked, Zip!Failed, Whole
<1> QED BY <1>2, <1>3, <1>4, <1>5 DEF Zip!MemoryStep

\* What no step of minizip's classes touches.
LEMMA ZipStepFacts ==
  ASSUME ZipIInv, part # "memory"
  PROVE  Whole \in Seq(Members) /\ archive \in Seq(Members) /\ accepted \in Seq(Members)
         /\ position = 0 /\ Len(bytes) \in Nat
BY DEF ZipIInv, Zip!TypeOK, Whole

\* readFileContent() yields the file asked for or leaves an error.
LEMMA ReadKeeps ==
  ASSUME ZipIInv, steps' \in 0..MaxSteps, NEW name \in Members \cup {NotThere},
         Zip!ReadFileContent(name)
  PROVE  ZipIInv'
<1> USE FilesAssumption
<1>1. PICK error \in BOOLEAN, broken \in BOOLEAN, fewer \in BOOLEAN,
           at \in Members \cup {NoMember} :
    /\ part = "read" /\ Zip!LocateFile(name, error, at) /\ currentMember' = at
    /\ zipError' = (error \/ (~error /\ ~Zip!Failed /\ broken))
    /\ content' = [name |-> name,
                      of |-> IF ~error /\ ~Zip!Failed /\ ~broken /\ ~fewer THEN at ELSE NoMember]
    /\ short' = (~error /\ ~Zip!Failed /\ fewer /\ ~broken)
    /\ \E damaged \in BOOLEAN :
            dataError' = (dataError \/ (damaged /\ ~error /\ ~Zip!Failed /\ broken))
    /\ UNCHANGED <<part, bytes, position, ignored, handle, archive, accepted>>
  BY SMTT(30) DEF Zip!ReadFileContent, Zip!writeVars
<1>2. zipError \in BOOLEAN /\ dataError \in BOOLEAN BY DEF ZipIInv, Zip!TypeOK
<1>3. zipError' \in BOOLEAN /\ short' \in BOOLEAN BY <1>1, <1>2
<1>4. dataError' \in BOOLEAN BY <1>1, <1>2
<1>5. Zip!TypeOK' BY <1>1, <1>3, <1>4 DEF ZipIInv, Zip!TypeOK
<1>6. ~error /\ ~Zip!Failed => at = name BY <1>1 DEF Zip!LocateFile
<1>7. Zip!ContentIsAsked' BY <1>1, <1>6 DEF Zip!ContentIsAsked
<1>8. position' <= Len(bytes') BY <1>1, ZipStepFacts
<1>11. ~handle' => currentMember' = NoMember BY <1>1 DEF Zip!LocateFile, ZipIInv
<1>12. Zip!BytesAreWritten' /\ Len(bytes') <= MaxBytes /\ position' = 0
  BY <1>1, ZipStepFacts DEF ZipIInv, Zip!BytesAreWritten
<1> QED BY <1>1, <1>5, <1>7, <1>8, <1>11, <1>12 DEF ZipIInv

\* Steps of the reader that read no file.
LEMMA ReaderKeeps ==
  ASSUME ZipIInv, steps' \in 0..MaxSteps, Zip!GoToNextFile \/ Zip!ClearError
  PROVE  ZipIInv'
<1>1. /\ UNCHANGED <<part, bytes, position, ignored, dataError, handle, content, short, archive, accepted>>
      /\ part = "read"
  BY DEF Zip!GoToNextFile, Zip!ClearError, Zip!memoryVars, Zip!readVars, Zip!writeVars
<1> QED BY <1>1 DEF ZipIInv, Zip!GoToNextFile, Zip!ClearError, Zip!TypeOK,
                    Zip!BytesAreWritten, Zip!ContentIsAsked, Zip!Failed

\* close() with its error or without.
LEMMA CloseKeeps ==
  ASSUME ZipIInv, steps' \in 0..MaxSteps, Zip!Close
  PROVE  ZipIInv'
<1>1. PICK fails \in BOOLEAN :
    /\ part # "memory" /\ handle /\ handle' = FALSE /\ dataError' = FALSE
    /\ dataError => fails
    /\ zipError' = (zipError \/ fails) /\ currentMember' = NoMember
    /\ archive' = IF part = "write" /\ ~fails /\ currentMember # NoMember
                  THEN Append(archive, currentMember) ELSE archive
    /\ UNCHANGED <<part, bytes, position, ignored, content, short, accepted>>
  BY DEF Zip!Close, Zip!readVars
<1>2. zipError \in BOOLEAN /\ zipError' \in BOOLEAN BY <1>1 DEF ZipIInv, Zip!TypeOK
<1>3. archive' \in Seq(Members) BY <1>1 DEF ZipIInv, Zip!TypeOK
<1>4. Zip!TypeOK' BY <1>1, <1>2, <1>3 DEF ZipIInv, Zip!TypeOK
<1>5. ~Zip!Failed' => ~Zip!Failed /\ ~fails BY <1>1 DEF Zip!Failed
<1>6. part = "write" /\ ~Zip!Failed' => archive' = accepted'
  BY <1>1, <1>5 DEF ZipIInv, Whole
<1> QED BY <1>1, <1>4, <1>5, <1>6, ZipStepFacts
        DEF ZipIInv, Zip!BytesAreWritten, Zip!ContentIsAsked, Whole

\* openNewFile() closes nothing and fails while a file is open.
LEMMA OpenNewFileKeeps ==
  ASSUME ZipIInv, steps' \in 0..MaxSteps, NEW name \in Members, Zip!OpenNewFile(name)
  PROVE  ZipIInv'
<1> USE FilesAssumption
<1> DEFINE asked == ~Zip!Failed /\ handle
<1>1. PICK fails \in BOOLEAN, damaged \in BOOLEAN :
       /\ part = "write"
       /\ zipError' = (zipError \/ (~Zip!Failed /\ (~handle \/ fails)))
       /\ dataError' = (dataError \/ (asked /\ fails /\ damaged))
       /\ archive' = IF asked /\ ~fails /\ currentMember # NoMember
                     THEN Append(archive, currentMember) ELSE archive
       /\ currentMember' = IF ~asked THEN currentMember
                           ELSE IF fails THEN NoMember ELSE name
       /\ accepted' = IF asked /\ ~fails THEN Append(accepted, name) ELSE accepted
       /\ UNCHANGED <<part, bytes, position, ignored, handle, content, short>>
  BY DEF Zip!OpenNewFile, Zip!readVars
<1>2. zipError' \in BOOLEAN /\ dataError' \in BOOLEAN
  BY <1>1 DEF ZipIInv, Zip!TypeOK, Zip!Failed
<1>3. archive' \in Seq(Members) /\ accepted' \in Seq(Members)
  BY <1>1, ZipStepFacts DEF ZipIInv, Zip!TypeOK
<1>4. Zip!TypeOK' BY <1>1, <1>2, <1>3 DEF ZipIInv, Zip!TypeOK
<1>5. ~Zip!Failed' => asked /\ ~fails BY <1>1 DEF Zip!Failed
<1>6. ~Zip!Failed' => accepted' = Whole'
  BY <1>1, <1>5 DEF ZipIInv, Whole
<1>7. ~handle' => currentMember' = NoMember BY <1>1 DEF ZipIInv
<1>8. Zip!BytesAreWritten' /\ Zip!ContentIsAsked' /\ position' = 0
      /\ position' <= Len(bytes') /\ Len(bytes') <= MaxBytes
  BY <1>1, ZipStepFacts DEF ZipIInv, Zip!BytesAreWritten, Zip!ContentIsAsked
<1> QED BY <1>4, <1>6, <1>7, <1>8 DEF ZipIInv

\* writeInFile() fails or leaves the archive whole.
LEMMA WriteKeeps ==
  ASSUME ZipIInv, steps' \in 0..MaxSteps, Zip!WriteInFile
  PROVE  ZipIInv'
<1> USE FilesAssumption
<1>1. PICK fails \in BOOLEAN :
        /\ part = "write" /\ ~Zip!Failed
        /\ (~handle \/ currentMember = NoMember) => fails
        /\ zipError' = fails
        /\ currentMember' = IF fails THEN NoMember ELSE currentMember
        /\ UNCHANGED <<part, bytes, position, ignored, dataError, handle, content, short, archive, accepted>>
  BY DEF Zip!WriteInFile, Zip!memoryVars, Zip!readVars, Zip!writeVars
<1>2. Zip!TypeOK' BY <1>1 DEF ZipIInv, Zip!TypeOK
<1>3. ~Zip!Failed' => accepted' = Whole' BY <1>1 DEF ZipIInv, Zip!Failed, Whole
<1> QED BY <1>1, <1>2, <1>3 DEF ZipIInv, Zip!BytesAreWritten, Zip!ContentIsAsked

\* closeFile() puts the file written into the archive or fails.
LEMMA CloseFileKeeps ==
  ASSUME ZipIInv, steps' \in 0..MaxSteps, Zip!CloseFile
  PROVE  ZipIInv'
<1> USE FilesAssumption
<1>1. PICK fails \in BOOLEAN :
        /\ part = "write" /\ ~Zip!Failed
        /\ (~handle \/ currentMember = NoMember) => fails
        /\ zipError' = fails /\ currentMember' = NoMember
        /\ archive' = IF fails THEN archive ELSE Append(archive, currentMember)
        /\ UNCHANGED <<part, bytes, position, ignored, dataError, handle, content, short, accepted>>
  BY DEF Zip!CloseFile, Zip!memoryVars, Zip!readVars
<1>2. archive' \in Seq(Members) BY <1>1 DEF ZipIInv, Zip!TypeOK
<1>3. Zip!TypeOK' BY <1>1, <1>2 DEF ZipIInv, Zip!TypeOK
<1>4. ~Zip!Failed' => accepted' = Whole' BY <1>1 DEF ZipIInv, Zip!Failed, Whole
<1> QED BY <1>1, <1>3, <1>4 DEF ZipIInv, Zip!BytesAreWritten, Zip!ContentIsAsked

\* Every step of the zip classes preserves their invariant.
LEMMA ZipStepKeeps ==
  ZipIInv /\ (Zip!Next \/ UNCHANGED zipVars) => ZipIInv'
<1> SUFFICES ASSUME ZipIInv, Zip!Next \/ UNCHANGED zipVars PROVE ZipIInv'
  OBVIOUS
<1>1. CASE UNCHANGED zipVars
  BY <1>1 DEF zipVars, ZipIInv, Zip!TypeOK, Zip!BytesAreWritten, Zip!ContentIsAsked,
              Zip!Failed, Whole
<1>2. CASE Zip!MemoryStep BY <1>2, MemoryKeeps
<1>3. CASE Zip!ZipStep
  <2>1. steps' \in 0..MaxSteps BY <1>3, FilesAssumption DEF Zip!ZipStep, ZipIInv, Zip!TypeOK
  <2> QED BY <1>3, <2>1, ReadKeeps, ReaderKeeps, CloseKeeps, OpenNewFileKeeps, WriteKeeps,
             CloseFileKeeps
          DEF Zip!ZipStep
<1> QED BY <1>1, <1>2, <1>3 DEF Zip!Next

\* Nothing is read or written at the start.
LEMMA ZipStart == Zip!Init => ZipIInv
<1> SUFFICES ASSUME Zip!Init PROVE ZipIInv OBVIOUS
<1>3. zipError \in BOOLEAN BY DEF Zip!Init
<1>4. bytes \in Seq(BOOLEAN) /\ archive \in Seq(Members) /\ accepted \in Seq(Members)
  BY DEF Zip!Init
<1>5. position \in 0..MaxBytes /\ steps \in 0..MaxSteps BY FilesAssumption DEF Zip!Init
<1>1. Zip!TypeOK BY <1>3, <1>4, <1>5 DEF Zip!Init, Zip!TypeOK
<1>2. bytes = <<>> /\ Len(bytes) = 0 /\ DOMAIN bytes = {} BY DEF Zip!Init
<1> QED BY <1>1, <1>2, FilesAssumption
        DEF Zip!Init, ZipIInv, Zip!BytesAreWritten, Zip!ContentIsAsked, Zip!Failed, Whole

\* What is not read has an error to see.
LEMMA NothingTold ==
  ASSUME ZipIInv, Zip!Next, part = "read", content'.of = NoMember, content' # content
  PROVE  Zip!Failed' \/ short'
<1> USE FilesAssumption
<1>1. PICK name \in Members \cup {NotThere} : Zip!ReadFileContent(name)
  <2>1. CASE Zip!MemoryStep BY <2>1 DEF Zip!MemoryStep
  <2>2. CASE Zip!ZipStep
    BY <2>2 DEF Zip!ZipStep, Zip!OpenNewFile, Zip!GoToNextFile, Zip!ClearError, Zip!Close,
                Zip!WriteInFile, Zip!CloseFile, Zip!readVars
  <2> QED BY <2>1, <2>2 DEF Zip!Next
<1>2. PICK error \in BOOLEAN, broken \in BOOLEAN, fewer \in BOOLEAN,
           at \in Members \cup {NoMember} :
    /\ part = "read" /\ Zip!LocateFile(name, error, at)
    /\ zipError' = (error \/ (~error /\ ~Zip!Failed /\ broken))
    /\ content' = [name |-> name,
                      of |-> IF ~error /\ ~Zip!Failed /\ ~broken /\ ~fewer THEN at ELSE NoMember]
    /\ short' = (~error /\ ~Zip!Failed /\ fewer /\ ~broken)
    /\ \E damaged \in BOOLEAN :
            dataError' = (dataError \/ (damaged /\ ~error /\ ~Zip!Failed /\ broken))
  BY <1>1, SMTT(30) DEF Zip!ReadFileContent
<1>3. CASE Zip!Failed BY <1>2, <1>3 DEF Zip!Failed, Zip!LocateFile
<1>4. CASE ~Zip!Failed /\ error BY <1>2, <1>4 DEF Zip!Failed
<1>5. CASE ~Zip!Failed /\ ~error
  <2>1. at = name /\ name \in Members BY <1>2, <1>5 DEF Zip!LocateFile
  <2>2. broken \/ fewer BY <2>1, <1>2, <1>5
  <2> QED BY <2>2, <1>2, <1>5 DEF Zip!Failed
<1> QED BY <1>3, <1>4, <1>5

-----------------------------------------------------------------------------
(***************************************************************************)
(* CustomAppIcon.  What each step of a call finds: the fork that was there *)
(* before, or the icon being set; and without a write that went halfway a  *)
(* fork has the bit of a custom icon, or no attribute.                     *)
(***************************************************************************)
IconIInv ==
  /\ Icon!TypeOK /\ Icon!ResultIsCurrent /\ Icon!TempsRemoved
  /\ setting # NoIcon => temps > 0
  /\ pc \in {"idle", "delete"} => setting = NoIcon
  /\ pc \in {"sips", "fork", "attribute", "bit"} => setting \in Icons
  /\ pc \in {"sips", "fork"} => fork = before
  /\ pc = "fork" => iconFile
  /\ pc \in {"attribute", "bit"} => iconFile /\ fork = setting /\ halfway
  /\ pc = "bit" => attr \notin {"short", "custom"}
  /\ pc = "dock" /\ setting # NoIcon => iconFile /\ fork = setting /\ attr = "custom"
  /\ pc = "dock" /\ setting = NoIcon => attr = "none"
  /\ fork # NoIcon => iconFile
  /\ ~halfway /\ attr = "plain" => fork = NoIcon

\* The digest is that of the icon shown.
LEMMA IconFit == IconIInv => Icon!DigestIsDisplayed
<1> SUFFICES ASSUME IconIInv, ~halfway, attr # "short"
             PROVE  Icon!CurrentDigest
                      = IF Icon!Displayed = NoIcon THEN Icon!Zero ELSE Icon!Displayed
  BY DEF Icon!DigestIsDisplayed
<1>1. attr \in {"none", "plain", "custom"} BY DEF IconIInv, Icon!TypeOK, Icon!Attributes
<1>2. CASE attr = "none" \/ fork = NoIcon
  BY <1>2 DEF Icon!CurrentDigest, Icon!Displayed
<1>3. CASE attr = "custom" /\ fork # NoIcon
  BY <1>3 DEF Icon!CurrentDigest, Icon!Displayed, IconIInv
<1> QED BY <1>1, <1>2, <1>3 DEF IconIInv

\* The outcomes of the calls are not icons.
LEMMA IconNames ==
  /\ Icon!Failed \notin Icons /\ Icon!Zero \notin Icons /\ Icon!Success \notin Icons
  /\ Icon!Failure \notin Icons /\ NoIcon \notin Icons
  /\ Icon!Failed # Icon!Zero /\ Icon!Failed # Icon!Success /\ Icon!Failure # Icon!Zero
  /\ Icon!Failure # Icon!Success /\ Icon!Success # Icon!Zero
BY FilesAssumption DEF Icon!Failed, Icon!Zero, Icon!Success, Icon!Failure

\* A call returns with what is the case, or goes on.
LEMMA Returned ==
  ASSUME IconIInv, NEW value, Icon!Return(value), UNCHANGED deaths,
         value \in Icons \union {Icon!Failed, Icon!Zero, Icon!Success, Icon!Failure}
  PROVE  /\ pc' = "idle" /\ setting' = NoIcon /\ result' = value
         /\ temps' \in Nat /\ Icon!TempsRemoved'
BY FilesAssumption DEF Icon!Return, IconIInv, Icon!TypeOK, Icon!TempsRemoved

\* A call goes on.
LEMMA WentOn ==
  ASSUME IconIInv, NEW stage, Icon!GoOn(stage), UNCHANGED deaths
  PROVE  /\ pc' = stage /\ UNCHANGED <<result, temps, setting>> /\ Icon!TempsRemoved'
BY DEF Icon!GoOn, IconIInv, Icon!TypeOK, Icon!TempsRemoved

\* SetCustomAppIcon() begins with a temporary file or fails.
LEMMA SetCustomAppIconKeeps ==
  ASSUME IconIInv, NEW i \in Icons, Icon!SetCustomAppIcon(i)
  PROVE  IconIInv'
<1>1. /\ pc = "idle" /\ before' = fork /\ setting = NoIcon
      /\ UNCHANGED <<attr, iconFile, fork, dock, deaths, halfway>>
  BY DEF Icon!SetCustomAppIcon, IconIInv
<1>2. CASE result' = Icon!Failed /\ UNCHANGED <<temps, pc, setting>>
  <2>1. Icon!TypeOK' BY <1>1, <1>2 DEF IconIInv, Icon!TypeOK, Icon!Shown
  <2>2. Icon!ResultIsCurrent' BY <1>2, IconNames DEF Icon!ResultIsCurrent
  <2>3. Icon!TempsRemoved' BY <1>1, <1>2 DEF IconIInv, Icon!TempsRemoved
  <2> QED BY <1>1, <1>2, <2>1, <2>2, <2>3 DEF IconIInv
<1>3. CASE pc' = "sips" /\ temps' = temps + 1 /\ setting' = i /\ result' = result
  <2>1. Icon!TypeOK' BY <1>1, <1>3 DEF IconIInv, Icon!TypeOK, Icon!Shown
  <2>2. Icon!ResultIsCurrent' BY <1>3 DEF Icon!ResultIsCurrent
  <2>3. Icon!TempsRemoved' /\ temps' > 0
    BY <1>1, <1>3, IconNames DEF IconIInv, Icon!TempsRemoved, Icon!TypeOK
  <2> QED BY <1>1, <1>3, <2>1, <2>2, <2>3 DEF IconIInv
<1> QED BY <1>2, <1>3 DEF Icon!SetCustomAppIcon

\* Failed, and Failure, say nothing about the icon.
LEMMA FailedWell ==
  ASSUME IconIInv, NEW value \in {Icon!Failed, Icon!Failure}, Icon!Return(value),
         UNCHANGED <<attr, iconFile, fork, dock, before, deaths, halfway>>
  PROVE  IconIInv'
<1>1. /\ pc' = "idle" /\ setting' = NoIcon /\ result' = value
      /\ temps' \in Nat /\ Icon!TempsRemoved'
  BY Returned
<1>2. Icon!TypeOK' BY <1>1 DEF IconIInv, Icon!TypeOK, Icon!Shown
<1>3. Icon!ResultIsCurrent' BY <1>1, IconNames DEF Icon!ResultIsCurrent
<1> QED BY <1>1, <1>2, <1>3 DEF IconIInv

\* sips and touch, the resource fork and the bit of a custom icon.
LEMMA SettingSteps ==
  ASSUME IconIInv, Icon!SipsAndTouch \/ Icon!CopyFork \/ Icon!ClearBit \/ Icon!SetBit
  PROVE  IconIInv'
<1> USE IconNames
<1>1. CASE Icon!SipsAndTouch /\ Icon!Return(Icon!Failed)
  <2>1. UNCHANGED iconFile BY <1>1 DEF Icon!SipsAndTouch, Icon!Return, Icon!GoOn, IconIInv
  <2> QED BY <1>1, <2>1, FailedWell DEF Icon!SipsAndTouch
<1>2. CASE Icon!SipsAndTouch /\ Icon!GoOn("fork") /\ iconFile' = TRUE
  <2>1. /\ pc = "sips" /\ pc' = "fork"
        /\ UNCHANGED <<attr, fork, dock, before, deaths, halfway, result, temps, setting>>
        /\ Icon!TempsRemoved'
    BY <1>2, WentOn DEF Icon!SipsAndTouch
  <2>2. Icon!TypeOK' BY <1>2, <2>1 DEF IconIInv, Icon!TypeOK
  <2> QED BY <1>2, <2>1, <2>2 DEF IconIInv, Icon!ResultIsCurrent
<1>3. CASE Icon!CopyFork /\ Icon!Return(Icon!Failed) /\ UNCHANGED <<fork, halfway>>
  BY <1>3, FailedWell DEF Icon!CopyFork
<1>4. CASE Icon!CopyFork /\ Icon!Return(Icon!Zero) /\ UNCHANGED <<fork, halfway>>
  <2>1. /\ pc = "fork" /\ pc' = "idle" /\ setting' = NoIcon /\ result' = Icon!Zero
        /\ temps' \in Nat /\ Icon!TempsRemoved'
        /\ UNCHANGED <<attr, iconFile, fork, dock, before, deaths, halfway>>
    BY <1>4, Returned DEF Icon!CopyFork
  <2>2. Icon!TypeOK' BY <2>1 DEF IconIInv, Icon!TypeOK, Icon!Shown
  <2>3. Icon!ResultIsCurrent' BY <2>1 DEF Icon!ResultIsCurrent, IconIInv
  <2> QED BY <2>1, <2>2, <2>3 DEF IconIInv
<1>5. CASE Icon!CopyFork /\ Icon!GoOn("attribute") /\ fork' = setting /\ halfway' = TRUE
  <2>1. /\ pc = "fork" /\ pc' = "attribute"
        /\ UNCHANGED <<attr, iconFile, dock, before, deaths, result, temps, setting>>
        /\ Icon!TempsRemoved'
    BY <1>5, WentOn DEF Icon!CopyFork
  <2>2. Icon!TypeOK' BY <1>5, <2>1 DEF IconIInv, Icon!TypeOK
  <2> QED BY <1>5, <2>1, <2>2 DEF IconIInv, Icon!ResultIsCurrent
<1>6. CASE Icon!ClearBit /\ Icon!Return(Icon!Failed) /\ UNCHANGED attr
  BY <1>6, FailedWell DEF Icon!ClearBit
<1>7. CASE /\ Icon!ClearBit /\ attr # "short" /\ Icon!GoOn("bit")
           /\ attr' = IF attr = "custom" THEN "plain" ELSE attr
  <2>1. /\ pc = "attribute" /\ pc' = "bit"
        /\ UNCHANGED <<iconFile, fork, dock, before, deaths, halfway, result, temps, setting>>
        /\ Icon!TempsRemoved'
    BY <1>7, WentOn DEF Icon!ClearBit
  <2>2. Icon!TypeOK' BY <1>7, <2>1 DEF IconIInv, Icon!TypeOK, Icon!Attributes
  <2> QED BY <1>7, <2>1, <2>2 DEF IconIInv, Icon!ResultIsCurrent
<1>8. CASE Icon!SetBit /\ Icon!Return(Icon!Failed) /\ UNCHANGED <<attr, halfway>>
  BY <1>8, FailedWell DEF Icon!SetBit
<1>9. CASE Icon!SetBit /\ Icon!GoOn("dock") /\ attr' = "custom" /\ halfway' = FALSE
  <2>1. /\ pc = "bit" /\ pc' = "dock"
        /\ UNCHANGED <<iconFile, fork, dock, before, deaths, result, temps, setting>>
        /\ Icon!TempsRemoved'
    BY <1>9, WentOn DEF Icon!SetBit
  <2>2. Icon!TypeOK' BY <1>9, <2>1 DEF IconIInv, Icon!TypeOK, Icon!Attributes
  <2> QED BY <1>9, <2>1, <2>2 DEF IconIInv, Icon!ResultIsCurrent
<1> QED BY <1>1, <1>2, <1>3, <1>4, <1>5, <1>6, <1>7, <1>8, <1>9
        DEF Icon!SipsAndTouch, Icon!CopyFork, Icon!ClearBit, Icon!SetBit

\* The Dock's icon is set to what is displayed, or the call fails.
LEMMA RefreshDockKeeps ==
  ASSUME IconIInv, Icon!RefreshDock PROVE IconIInv'
<1> USE IconNames
<1>1. pc = "dock" /\ UNCHANGED <<attr, iconFile, fork, before, deaths, halfway>>
  BY DEF Icon!RefreshDock
<1>2. CASE Icon!Return(IF setting = NoIcon THEN Icon!Failure ELSE Icon!Failed) /\ UNCHANGED dock
  BY <1>1, <1>2, FailedWell
<1>3. CASE /\ Icon!Return(IF setting = NoIcon THEN Icon!Success ELSE setting)
           /\ dock' = Icon!Displayed
  <2> DEFINE value == IF setting = NoIcon THEN Icon!Success ELSE setting
  <2>1. value \in Icons \union {Icon!Success} /\ Icon!Displayed \in Icons \union {NoIcon}
    BY DEF IconIInv, Icon!TypeOK, Icon!Shown, Icon!Displayed
  <2>2. /\ pc' = "idle" /\ setting' = NoIcon /\ result' = value
        /\ temps' \in Nat /\ Icon!TempsRemoved'
    BY <1>1, <1>3, <2>1, Returned
  <2>3. Icon!TypeOK' BY <1>1, <1>3, <2>1, <2>2 DEF IconIInv, Icon!TypeOK, Icon!Shown
  <2>4. CASE setting = NoIcon
    <3>1. attr = "none" /\ result' = Icon!Success BY <1>1, <2>2, <2>4 DEF IconIInv
    <3>2. Icon!ResultIsCurrent'
      BY <1>1, <3>1 DEF Icon!ResultIsCurrent, Icon!CurrentDigest, Icon!Displayed
    <3> QED BY <1>1, <2>2, <2>3, <3>2 DEF IconIInv
  <2>5. CASE setting # NoIcon
    <3>1. /\ attr = "custom" /\ iconFile /\ fork = setting /\ result' = setting
          /\ setting \in Icons
      BY <1>1, <2>2, <2>5 DEF IconIInv, Icon!TypeOK, Icon!Shown
    <3>2. Icon!ResultIsCurrent'
      BY <1>1, <1>3, <3>1 DEF Icon!ResultIsCurrent, Icon!CurrentDigest, Icon!Displayed
    <3> QED BY <1>1, <2>2, <2>3, <3>2 DEF IconIInv
  <2> QED BY <2>4, <2>5
<1> QED BY <1>2, <1>3 DEF Icon!RefreshDock

\* ClearCustomAppIcon() removes the file, then the attribute.
LEMMA ClearingSteps ==
  ASSUME IconIInv, Icon!RemoveFile \/ Icon!DeleteAttribute PROVE IconIInv'
<1> USE IconNames
<1>1. CASE Icon!RemoveFile
  <2>1. /\ pc = "idle" /\ pc' = "delete" /\ before' = fork /\ Icon!TempsRemoved'
        /\ UNCHANGED <<attr, dock, deaths, halfway, result, temps, setting>>
        /\ \/ iconFile' = FALSE /\ fork' = NoIcon
           \/ iconFile /\ UNCHANGED <<iconFile, fork>>
    BY <1>1, WentOn DEF Icon!RemoveFile
  <2>2. Icon!TypeOK' BY <2>1 DEF IconIInv, Icon!TypeOK, Icon!Shown
  <2> QED BY <2>1, <2>2 DEF IconIInv, Icon!ResultIsCurrent
<1>2. CASE Icon!DeleteAttribute /\ Icon!Return(Icon!Failure) /\ UNCHANGED <<attr, halfway>>
  BY <1>2, FailedWell DEF Icon!DeleteAttribute
<1>3. CASE /\ Icon!DeleteAttribute /\ attr = "none" /\ Icon!Return(Icon!Success)
           /\ UNCHANGED <<attr, halfway>>
  <2>1. /\ pc' = "idle" /\ setting' = NoIcon /\ result' = Icon!Success
        /\ temps' \in Nat /\ Icon!TempsRemoved'
        /\ UNCHANGED <<attr, iconFile, fork, dock, before, deaths, halfway>>
    BY <1>3, Returned DEF Icon!DeleteAttribute
  <2>2. Icon!TypeOK' BY <2>1 DEF IconIInv, Icon!TypeOK, Icon!Shown
  <2>3. Icon!ResultIsCurrent'
    BY <1>3, <2>1 DEF Icon!ResultIsCurrent, Icon!CurrentDigest, Icon!Displayed
  <2> QED BY <2>1, <2>2, <2>3 DEF IconIInv
<1>4. CASE /\ Icon!DeleteAttribute /\ Icon!GoOn("dock") /\ attr' = "none" /\ halfway' = FALSE
  <2>1. /\ pc = "delete" /\ pc' = "dock" /\ Icon!TempsRemoved'
        /\ UNCHANGED <<iconFile, fork, dock, before, deaths, result, temps, setting>>
    BY <1>4, WentOn DEF Icon!DeleteAttribute
  <2>2. Icon!TypeOK' BY <1>4, <2>1 DEF IconIInv, Icon!TypeOK, Icon!Attributes
  <2> QED BY <1>4, <2>1, <2>2 DEF IconIInv, Icon!ResultIsCurrent
<1> QED BY <1>1, <1>2, <1>3, <1>4 DEF Icon!DeleteAttribute

\* Every step of the icon's calls, a death of the process too.
LEMMA IconStep ==
  IconIInv /\ (Icon!Next \/ UNCHANGED iconVars) => IconIInv'
<1> SUFFICES ASSUME IconIInv, Icon!Next \/ UNCHANGED iconVars PROVE IconIInv'
  OBVIOUS
<1>1. CASE UNCHANGED iconVars
  BY <1>1 DEF iconVars, IconIInv, Icon!TypeOK, Icon!ResultIsCurrent, Icon!TempsRemoved,
              Icon!CurrentDigest, Icon!Displayed
<1>2. CASE Icon!Die
  <2>1. /\ pc' = "idle" /\ setting' = NoIcon /\ result' = Icon!Failed /\ deaths' = deaths + 1
        /\ deaths < MaxDeaths
        /\ UNCHANGED <<attr, iconFile, fork, dock, temps, before, halfway>>
    BY <1>2 DEF Icon!Die
  <2>2. Icon!TypeOK' BY <2>1, FilesAssumption DEF IconIInv, Icon!TypeOK, Icon!Shown
  <2>3. Icon!ResultIsCurrent' BY <2>1, IconNames DEF Icon!ResultIsCurrent
  <2>4. Icon!TempsRemoved' BY <2>1, FilesAssumption DEF IconIInv, Icon!TypeOK, Icon!TempsRemoved
  <2> QED BY <2>1, <2>2, <2>3, <2>4 DEF IconIInv
<1>3. CASE Icon!Update
  <2>1. /\ pc = "idle" /\ attr' = "none" /\ iconFile' = FALSE /\ fork' = NoIcon
        /\ halfway' = FALSE /\ result' = Icon!Failed
        /\ UNCHANGED <<dock, temps, pc, setting, before, deaths>>
    BY <1>3 DEF Icon!Update
  <2>2. Icon!TypeOK' BY <2>1 DEF IconIInv, Icon!TypeOK, Icon!Shown, Icon!Attributes
  <2>3. Icon!ResultIsCurrent' BY <2>1, IconNames DEF Icon!ResultIsCurrent
  <2>4. Icon!TempsRemoved' BY <2>1 DEF IconIInv, Icon!TempsRemoved
  <2> QED BY <2>1, <2>2, <2>3, <2>4 DEF IconIInv
<1> QED BY <1>1, <1>2, <1>3, SetCustomAppIconKeeps, SettingSteps, RefreshDockKeeps, ClearingSteps
        DEF Icon!Next

\* Nothing is set at the start.
LEMMA IconStart == Icon!Init => IconIInv
<1> SUFFICES ASSUME Icon!Init PROVE IconIInv OBVIOUS
<1>4. deaths \in 0..MaxDeaths /\ temps \in Nat BY FilesAssumption DEF Icon!Init
<1>5. iconFile \in BOOLEAN /\ halfway \in BOOLEAN BY DEF Icon!Init
<1>1. Icon!TypeOK BY <1>4, <1>5 DEF Icon!Init, Icon!TypeOK, Icon!Attributes, Icon!Shown
<1>2. Icon!ResultIsCurrent BY IconNames DEF Icon!Init, Icon!ResultIsCurrent
<1>3. Icon!TempsRemoved BY DEF Icon!Init, Icon!TempsRemoved
<1> QED BY <1>1, <1>2, <1>3, IconNames DEF Icon!Init, IconIInv

-----------------------------------------------------------------------------
(***************************************************************************)
(* AllocationTracer.  Who has the mutex is in a logger.                    *)
(***************************************************************************)
TracerIInv ==
  /\ Tracer!TypeOK /\ Tracer!TraceIsWhole
  /\ \A t \in Allocators : tracerMutex = t => logging[t] # 0

\* An entry fits the buffer of the trace.
LEMMA Sizes == \A size \in EntrySizes : size \in Nat /\ 0 < size /\ size <= BufferSize
BY FilesAssumption

\* Append() to the second of two sequences appends to both together.
LEMMA AppendAfterConcat ==
  ASSUME NEW S, NEW s \in Seq(S), NEW b \in Seq(S), NEW e \in S
  PROVE  s \o Append(b, e) = Append(s \o b, e)
<1>1. Append(b, e) \in Seq(S) /\ Append(s \o b, e) \in Seq(S) /\ s \o Append(b, e) \in Seq(S)
  OBVIOUS
<1>2. /\ Len(s \o Append(b, e)) = Len(s) + Len(b) + 1
      /\ Len(Append(s \o b, e)) = Len(s) + Len(b) + 1
  OBVIOUS
<1>3. ASSUME NEW i \in 1..Len(s) + Len(b) + 1
      PROVE  (s \o Append(b, e))[i] = Append(s \o b, e)[i]
  OBVIOUS
<1> QED BY <1>1, <1>2, <1>3, SeqEqual

\* A sequence of one element behind a sequence is appended.
LEMMA ConcatOne ==
  ASSUME NEW S, NEW s \in Seq(S), NEW e \in S
  PROVE  s \o <<e>> = Append(s, e)
<1>1. <<e>> \in Seq(S) /\ Append(s, e) \in Seq(S) /\ s \o <<e>> \in Seq(S)
  OBVIOUS
<1>2. /\ Len(s \o <<e>>) = Len(s) + 1
      /\ Len(Append(s, e)) = Len(s) + 1
  OBVIOUS
<1>3. ASSUME NEW i \in 1..Len(s) + 1
      PROVE  (s \o <<e>>)[i] = Append(s, e)[i]
  OBVIOUS
<1> QED BY <1>1, <1>2, <1>3, SeqEqual

\* WriteBlock() drops entries of the block that it writes, none from before it.
LEMMA BlockWritten ==
  ASSUME TracerIInv, Tracer!WriteBlock
  PROVE  blocks' = blocks \o buffer /\ missing' \subseteq DOMAIN blocks'
<1>1. PICK written \in 0..Len(buffer) :
        /\ blocks' = blocks \o buffer
        /\ missing' = missing \cup {Len(blocks) + i : i \in written + 1..Len(buffer)}
  BY DEF Tracer!WriteBlock
<1>2. /\ blocks \in Seq(EntrySizes) /\ buffer \in Seq(EntrySizes)
      /\ missing \subseteq DOMAIN blocks
  BY DEF TracerIInv, Tracer!TypeOK
<1>3. /\ Len(blocks) \in Nat /\ Len(buffer) \in Nat /\ DOMAIN blocks = 1..Len(blocks)
      /\ DOMAIN (blocks \o buffer) = 1..Len(blocks) + Len(buffer)
  BY <1>2
<1>4. \A i \in written + 1..Len(buffer) :
        Len(blocks) + i \in 1..Len(blocks) + Len(buffer)
  BY <1>1, <1>3
<1>5. \A i \in 1..Len(blocks) : i \in 1..Len(blocks) + Len(buffer) BY <1>3
<1> QED BY <1>1, <1>2, <1>3, <1>4, <1>5

\* AppendEntry(): a full buffer is written, the entry put behind.
LEMMA AppendEntryKeeps ==
  ASSUME TracerIInv, NEW t \in Allocators, Tracer!AppendEntry(t)
  PROVE  TracerIInv'
<1> DEFINE size == logging[t]
           full == used + size > BufferSize
<1>1. /\ tracerMutex = t /\ tracerMutex' = NoThread
      /\ logging' = [logging EXCEPT ![t] = 0]
      /\ IF file # "open" THEN UNCHANGED <<buffer, used, blocks, missing, appended>>
         ELSE /\ IF full THEN Tracer!WriteBlock ELSE UNCHANGED <<blocks, missing>>
              /\ buffer' = IF full THEN <<size>> ELSE Append(buffer, size)
              /\ used' = (IF full THEN 0 ELSE used) + size
              /\ appended' = Append(appended, size)
      /\ UNCHANGED <<loggers, file, finishing>>
  BY DEF Tracer!AppendEntry
<1>2. /\ size \in EntrySizes /\ used \in 0..BufferSize
      /\ buffer \in Seq(EntrySizes) /\ blocks \in Seq(EntrySizes)
      /\ blocks \o buffer = appended
  BY <1>1 DEF TracerIInv, Tracer!TypeOK, Tracer!TraceIsWhole
<1>8. blocks \o buffer \in Seq(EntrySizes)
  <2>1. blocks \in Seq(EntrySizes) /\ buffer \in Seq(EntrySizes) BY <1>2
  <2> QED BY <2>1
<1>9. appended \in Seq(EntrySizes) BY <1>2, <1>8, Zenon
<1>3. logging' \in [Allocators -> EntrySizes \union {0}]
  BY <1>1 DEF TracerIInv, Tracer!TypeOK
<1>4. \A a \in Allocators : tracerMutex' # a BY <1>1, FilesAssumption
<1> HIDE DEF size
<1>5. CASE file # "open"
  <2>1. Tracer!TypeOK' BY <1>1, <1>3, <1>5 DEF TracerIInv, Tracer!TypeOK
  <2>2. Tracer!TraceIsWhole' BY <1>1, <1>5 DEF TracerIInv, Tracer!TraceIsWhole
  <2> QED BY <1>4, <2>1, <2>2 DEF TracerIInv
<1>6. CASE file = "open" /\ full
  <2>1. /\ blocks' = blocks \o buffer /\ buffer' = <<size>> /\ used' = size
        /\ appended' = Append(appended, size) /\ file' = "open"
        /\ missing' \subseteq DOMAIN blocks'
    BY <1>1, <1>2, <1>6, Sizes, BlockWritten
  <2>2. /\ blocks' \in Seq(EntrySizes) /\ buffer' \in Seq(EntrySizes)
        /\ appended' \in Seq(EntrySizes) /\ used' \in 0..BufferSize
    <3>1. <<size>> \in Seq(EntrySizes) BY <1>2
    <3>2. Append(appended, size) \in Seq(EntrySizes) BY <1>2, <1>9
    <3>3. size \in 0..BufferSize BY <1>2, Sizes, FilesAssumption
    <3> QED BY <1>2, <2>1, <3>1, <3>2, <3>3
  <2>3. blocks' \o buffer' = appended'
    BY <1>2, <2>1, ConcatOne
  <2>4. Tracer!TypeOK' BY <1>1, <1>3, <2>1, <2>2 DEF TracerIInv, Tracer!TypeOK
  <2>5. Tracer!TraceIsWhole' BY <2>1, <2>3 DEF Tracer!TraceIsWhole
  <2> QED BY <1>4, <2>4, <2>5 DEF TracerIInv
<1>7. CASE file = "open" /\ ~full
  <2>1. /\ blocks' = blocks /\ buffer' = Append(buffer, size) /\ used' = used + size
        /\ appended' = Append(appended, size) /\ file' = "open" /\ missing' = missing
    BY <1>1, <1>2, <1>7
  <2>2. /\ blocks' \in Seq(EntrySizes) /\ buffer' \in Seq(EntrySizes)
        /\ appended' \in Seq(EntrySizes)
    <3>1. /\ Append(appended, size) \in Seq(EntrySizes)
          /\ Append(buffer, size) \in Seq(EntrySizes)
      BY <1>2, <1>9
    <3> QED BY <1>2, <2>1, <3>1
  <2>3. used' \in 0..BufferSize BY <1>2, <1>7, <2>1, Sizes, FilesAssumption
  <2>4. blocks' \o buffer' = appended'
    BY <1>2, <2>1, AppendAfterConcat
  <2>5. Tracer!TypeOK' BY <1>1, <1>3, <2>1, <2>2, <2>3 DEF TracerIInv, Tracer!TypeOK
  <2>6. Tracer!TraceIsWhole' BY <2>1, <2>4 DEF Tracer!TraceIsWhole
  <2> QED BY <1>4, <2>5, <2>6 DEF TracerIInv
<1> QED BY <1>5, <1>6, <1>7

\* Every step of the tracer preserves its invariant.
LEMMA TracerStep ==
  TracerIInv /\ (Tracer!Next \/ UNCHANGED tracerVars) => TracerIInv'
<1> SUFFICES ASSUME TracerIInv, Tracer!Next \/ UNCHANGED tracerVars PROVE TracerIInv'
  OBVIOUS
<1> USE DEF TracerIInv, Tracer!TypeOK, Tracer!TraceIsWhole
<1>1. CASE UNCHANGED tracerVars BY <1>1 DEF tracerVars
<1>2. CASE Tracer!SetAllocationTracerPath BY <1>2 DEF Tracer!SetAllocationTracerPath
<1>3. CASE Tracer!RemoveLoggers BY <1>3 DEF Tracer!RemoveLoggers
<1>4. CASE Tracer!FinishAllocationTracer
  <2>1. /\ blocks' = blocks \o buffer /\ buffer' = <<>> /\ used' = 0 /\ file' = "closed"
        /\ UNCHANGED <<loggers, tracerMutex, logging, appended, finishing>>
        /\ missing' \subseteq DOMAIN blocks'
    BY <1>4, BlockWritten DEF Tracer!FinishAllocationTracer
  <2>2. blocks' \in Seq(EntrySizes) /\ blocks' \o buffer' = appended' /\ buffer' \in Seq(EntrySizes)
    BY <2>1
  <2>3. used' \in 0..BufferSize BY <2>1, FilesAssumption
  <2> QED BY <2>1, <2>2, <2>3
<1>5. ASSUME NEW t \in Allocators, Tracer!Logger(t) PROVE TracerIInv'
  <2>1. PICK size \in EntrySizes : logging' = [logging EXCEPT ![t] = size]
    BY <1>5 DEF Tracer!Logger
  <2>2. size # 0 BY Sizes
  <2>3. logging' \in [Allocators -> EntrySizes \union {0}] BY <2>1
  <2>4. \A a \in Allocators : logging'[a] = 0 => logging[a] = 0 BY <2>1, <2>2
  <2>5. UNCHANGED <<loggers, file, buffer, used, blocks, missing, tracerMutex, appended,
                    finishing>>
    BY <1>5 DEF Tracer!Logger
  <2> QED BY <2>3, <2>4, <2>5
<1>6. ASSUME NEW t \in Allocators, Tracer!Lock(t) PROVE TracerIInv'
  BY <1>6 DEF Tracer!Lock
<1> QED BY <1>1, <1>2, <1>3, <1>4, <1>5, <1>6, AppendEntryKeeps DEF Tracer!Next, Tracer!AppendStep

\* The trace is empty at the start.
LEMMA TracerStart == Tracer!Init => TracerIInv
<1> SUFFICES ASSUME Tracer!Init PROVE TracerIInv OBVIOUS
<1>1. used \in 0..BufferSize BY FilesAssumption DEF Tracer!Init
<1>2. /\ buffer \in Seq(EntrySizes) /\ blocks \in Seq(EntrySizes) /\ appended \in Seq(EntrySizes)
      /\ blocks \o buffer = appended
  BY DEF Tracer!Init
<1> QED BY <1>1, <1>2, FilesAssumption
        DEF Tracer!Init, TracerIInv, Tracer!TypeOK, Tracer!TraceIsWhole

-----------------------------------------------------------------------------
\* The archives, the icon and the trace together.
FilesIInv == ZipIInv /\ IconIInv /\ TracerIInv

\* The three, which share no variable, hold in every state of every behaviour.
LEMMA FilesStay == MCSpec => []FilesIInv
<1>1. MCInit => FilesIInv BY ZipStart, IconStart, TracerStart DEF MCInit, FilesIInv
<1>2. ASSUME FilesIInv,
             [MCNext]_<<subject, vars, pointerVars, cacheVars, methodVars, numberVars,
                    zipVars, iconVars, tracerVars>>
      PROVE  FilesIInv'
  <2>1. Zip!Next \/ UNCHANGED zipVars BY <1>2 DEF MCNext
  <2>2. Icon!Next \/ UNCHANGED iconVars BY <1>2 DEF MCNext
  <2>3. Tracer!Next \/ UNCHANGED tracerVars BY <1>2 DEF MCNext
  <2> QED BY <1>2, <2>1, <2>2, <2>3, ZipStepKeeps, IconStep, TracerStep DEF FilesIInv
<1> QED BY <1>1, <1>2, PTL DEF MCSpec

\* For every set of files, icons and allocating threads and every size: what is read
\* from an archive is the file asked for and its failure can be seen, an archive
\* without an error has all files, the digest is that of the icon displayed and no
\* temporary file stays; and each entry of a trace is handed to fwrite() once and in
\* order, what that drops being told to nobody (zlib_help.h, custom_app_icon_mac.mm,
\* base_linux_allocation_tracer.cpp).
THEOREM FilesAlwaysWhole == MCSpec => FilesAreWhole
<1>1. FilesIInv =>
        /\ Zip!TypeOK /\ Zip!BytesAreWritten /\ Zip!ContentIsAsked /\ Zip!ArchiveIsWhole
        /\ Icon!TypeOK /\ Icon!ResultIsCurrent /\ Icon!DigestIsDisplayed /\ Icon!TempsRemoved
        /\ Tracer!TypeOK /\ Tracer!TraceIsWhole
  BY ZipFit, IconFit DEF FilesIInv, ZipIInv, IconIInv, TracerIInv
<1>2. FilesIInv /\ [MCNext]_<<subject, vars, pointerVars, cacheVars, methodVars, numberVars,
                    zipVars, iconVars, tracerVars>> =>
        [(part = "read" /\ content'.of = NoMember /\ content' # content)
           => Zip!Failed' \/ short']_(Zip!vars)
  <2> SUFFICES ASSUME FilesIInv, MCNext, part = "read", content'.of = NoMember, content' # content
               PROVE  Zip!Failed' \/ short'
    BY DEF zipVars
  <2>1. Zip!Next BY DEF MCNext, zipVars
  <2> QED BY <2>1, NothingTold DEF FilesIInv
<1>3. MCSpec => Zip!NothingIsToldAsError
  BY <1>2, FilesStay, PTL DEF Zip!NothingIsToldAsError, MCSpec
<1> QED BY <1>1, <1>3, FilesStay, PTL DEF FilesAreWhole
=============================================================================
