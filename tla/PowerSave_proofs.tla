-------------------------- MODULE PowerSave_proofs --------------------------
(***************************************************************************)
(* For any blockers, descriptions, windows and number of portal objects,   *)
(* of PowerSaveBlocker: if blockers are destroyed on the thread on which   *)
(* windows die, the platform's request follows the set of blockers, always *)
(* belongs to one of them, and is never doubled. Of PowerSavePortal: no    *)
(* request that can be closed is left with the portal. And of the two as   *)
(* it composes them, each step of which is one of each or a stutter: when  *)
(* all calls have arrived, the portal inhibits exactly if there is a       *)
(* blocker, or for what cannot be closed. Of XSettings and SystemWatchers, *)
(* as MCPowerSave has them beside: for any settings, callbacks and bounds, *)
(* what was told once all signals are read is what there is. Of            *)
(* MediaControls and PlayerControls: what other programs and the system    *)
(* show of the player is what the application plays, and what is asked for *)
(* reaches it once.                                                        *)
(***************************************************************************)
EXTENDS MCPowerSave, SequenceTheorems, FiniteSetTheorems, TLAPS

-----------------------------------------------------------------------------
(* PowerSaveBlocker: the queue of calls *)

\* A call that alternates with the last one may be queued.
LEMMA AppendCall ==
  ASSUME NEW q \in Seq(Calls), NEW c \in Calls, NEW bl \in Calls,
         Alternates(bl, q), c # None <=> LastOf(bl, q) = None
  PROVE  /\ Append(q, c) \in Seq(Calls)
         /\ LastOf(bl, Append(q, c)) = c
         /\ Alternates(bl, Append(q, c))
<1> DEFINE r == Append(q, c)
<1>1. /\ r \in Seq(Calls) /\ r # <<>> /\ Len(r) = Len(q) + 1 /\ Len(q) \in Nat
      /\ \A i \in 1 .. Len(q) : r[i] = q[i]
      /\ r[Len(q) + 1] = c
  BY AppendProperties, LenProperties
<1>e. q = <<>> <=> Len(q) = 0
  BY EmptySeq, LenProperties
<1> HIDE DEF r
<1>2. LastOf(bl, r) = c
  BY <1>1 DEF LastOf
<1>3. r[1] # None <=> bl = None
  BY <1>1, <1>e DEF Alternates, LastOf
<1>4. ASSUME NEW i \in 1 .. Len(r) - 1
      PROVE  r[i + 1] # None <=> r[i] = None
  <2>1. CASE i < Len(q)
    BY <1>1, <1>4, <2>1 DEF Alternates
  <2>2. CASE i = Len(q)
    BY <1>1, <1>e, <1>4, <2>2 DEF LastOf
  <2> QED BY <1>1, <1>4, <2>1, <2>2
<1> QED BY <1>1, <1>2, <1>3, <1>4 DEF Alternates, r

\* Performing the first call changes neither the last one nor the alternation.
LEMMA PerformCall ==
  ASSUME NEW q \in Seq(Calls), q # <<>>, NEW bl \in Calls, Alternates(bl, q)
  PROVE  /\ Head(q) \in Calls /\ Tail(q) \in Seq(Calls)
         /\ LastOf(Head(q), Tail(q)) = LastOf(bl, q)
         /\ Alternates(Head(q), Tail(q))
<1> DEFINE t == Tail(q)
<1>1. /\ Head(q) \in Calls /\ t \in Seq(Calls) /\ Len(t) = Len(q) - 1
      /\ \A i \in 1 .. Len(t) : t[i] = q[i + 1]
      /\ Head(q) = q[1] /\ Len(q) \in Nat /\ Len(q) # 0
  BY HeadTailProperties, EmptySeq, LenProperties
<1>e. t = <<>> <=> Len(t) = 0
  BY <1>1, EmptySeq, LenProperties
<1> HIDE DEF t
<1>2. LastOf(Head(q), t) = LastOf(bl, q)
  BY <1>1, <1>e DEF LastOf
<1>3. t # <<>> => (t[1] # None <=> Head(q) = None)
  BY <1>1, <1>e DEF Alternates
<1>4. ASSUME NEW i \in 1 .. Len(t) - 1
      PROVE  t[i + 1] # None <=> t[i] = None
  BY <1>1, <1>4 DEF Alternates
<1> QED BY <1>1, <1>2, <1>3, <1>4 DEF Alternates, t

-----------------------------------------------------------------------------
(* The inductive invariant: the set's name has an owner also while the     *)
(* owner's own Remove() is under way.                                      *)

Owns(b) == desc[b] = setDesc /\ window(b) = Current(setWin)
Present == IF removing = None THEN list ELSE list \cup {removing}

OwnerInv == Present # {} => \E b \in Present : Owns(b)
CallInv  == LastCall = (IF Present = {} THEN None ELSE setDesc)
ReadInv  == removing # None => readWin = Current(setWin)
BlockersInv     == TypeOK /\ OwnerInv /\ CallInv /\ ReadInv /\ BlockAfterUnblock

\* Nothing blocks at first.
LEMMA BlockersInitially == Init => BlockersInv
<1> SUFFICES ASSUME Init PROVE BlockersInv
  OBVIOUS
<1>1. TypeOK
  BY EmptySeq DEF Init, TypeOK, Calls
<1>2. OwnerInv /\ CallInv /\ ReadInv
  BY DEF Init, OwnerInv, CallInv, ReadInv, Present, LastCall, LastOf
<1>3. BlockAfterUnblock
  BY EmptySeq DEF Init, BlockAfterUnblock, Alternates
<1> QED BY <1>1, <1>2, <1>3 DEF BlockersInv

\* A blocker's construction keeps the invariant.
LEMMA AddStep == ASSUME BlockersInv, NEW b \in Blockers, Add(b) PROVE BlockersInv'
<1> USE ConstantsAssumption
<1>1. desc[b] \in Descriptions /\ desc[b] # None /\ desc[b] \in Calls
      /\ window(b) \in Windows \cup {None} /\ removing = None /\ removing' = None
      /\ Present = list /\ Present' = list \cup {b}
  BY DEF Add, Calls, window, Current, Present, BlockersInv, TypeOK
<1>2. CASE list = {}
  <2>1. LastOf(blocked, calls) = None
    BY <1>1, <1>2 DEF BlockersInv, CallInv, LastCall
  <2>2. calls' = Append(calls, desc[b]) /\ setDesc' = desc[b] /\ setWin' = window(b)
        /\ UNCHANGED <<alive, blocked>>
    BY <1>2 DEF Add, Use
  <2>3. /\ calls' \in Seq(Calls) /\ LastCall' = desc[b] /\ BlockAfterUnblock'
    BY <1>1, <2>1, <2>2, AppendCall DEF BlockersInv, TypeOK, BlockAfterUnblock, LastCall
  <2>4. TypeOK'
    BY <1>1, <2>2, <2>3 DEF Add, BlockersInv, TypeOK, Calls
  <2>5. Owns(b)'
    BY <1>1, <2>2 DEF Owns, window, Current
  <2> QED BY <1>1, <2>2, <2>3, <2>4, <2>5 DEF BlockersInv, OwnerInv, CallInv, ReadInv
<1>3. CASE list # {}
  <2>1. UNCHANGED <<alive, set, calls, removing, readWin, blocked>>
    BY <1>3 DEF Add
  <2>2. TypeOK' /\ BlockAfterUnblock'
    BY <1>1, <2>1 DEF Add, BlockersInv, TypeOK, set, BlockAfterUnblock, Alternates
  <2>3. OwnerInv'
    BY <1>1, <1>3, <2>1 DEF BlockersInv, OwnerInv, Owns, window, Current, set
  <2>4. CallInv' /\ ReadInv'
    BY <1>1, <1>3, <2>1 DEF BlockersInv, CallInv, LastCall, ReadInv, set
  <2> QED BY <2>2, <2>3, <2>4 DEF BlockersInv
<1> QED BY <1>2, <1>3

\* The first half of its destruction keeps it.
LEMMA RemoveStep == ASSUME BlockersInv, NEW b \in Blockers, Remove(b) PROVE BlockersInv'
<1> USE ConstantsAssumption
<1>1. /\ removing = None /\ removing' = b /\ b # None /\ Present' = Present
      /\ UNCHANGED <<alive, set, calls, blocked>> /\ readWin' = Current(setWin)
  BY DEF Remove, Present
<1>2. TypeOK'
  BY <1>1 DEF Remove, BlockersInv, TypeOK, set, Current
<1>3. OwnerInv' /\ CallInv' /\ ReadInv' /\ BlockAfterUnblock'
  BY <1>1 DEF BlockersInv, OwnerInv, CallInv, ReadInv, BlockAfterUnblock, Alternates,
              LastCall, Owns, window, Current, set
<1> QED BY <1>2, <1>3 DEF BlockersInv

\* The second half keeps it, given that no window died between them.
LEMMA FinishStep == ASSUME BlockersInv, NEW b \in Blockers, Finish(b) PROVE BlockersInv'
<1> USE ConstantsAssumption
<1>1. /\ removing = b /\ removing' = None /\ readWin' = None /\ b # None
      /\ Present = list \cup {b} /\ Present' = list /\ list' = list
      /\ UNCHANGED <<alive, blocked>> /\ b \notin list
  BY DEF Finish, Present, BlockersInv, TypeOK
<1>2. readWin = Current(setWin) /\ LastCall = setDesc /\ setDesc \in Descriptions
  BY <1>1 DEF BlockersInv, ReadInv, CallInv, OwnerInv, Owns, TypeOK
<1>3. ReadInv'
  BY <1>1 DEF ReadInv
<1>4. CASE Differs(b) /\ UNCHANGED <<set, calls>>
  <2>1. ~Owns(b)
    BY <1>2, <1>4 DEF Differs, Owns
  <2>2. \E o \in list : Owns(o)
    BY <1>1, <2>1 DEF BlockersInv, OwnerInv
  <2>3. OwnerInv' /\ CallInv' /\ BlockAfterUnblock'
    BY <1>1, <1>2, <1>4, <2>2 DEF BlockersInv, OwnerInv, CallInv, BlockAfterUnblock,
       Alternates, LastCall, Owns, window, Current, set
  <2>4. TypeOK'
    BY <1>1, <1>4 DEF BlockersInv, TypeOK, set
  <2> QED BY <1>3, <2>3, <2>4 DEF BlockersInv
<1>5. /\ Append(calls, None) \in Seq(Calls)
      /\ LastOf(blocked, Append(calls, None)) = None
      /\ Alternates(blocked, Append(calls, None))
  BY <1>2, AppendCall DEF BlockersInv, TypeOK, BlockAfterUnblock, LastCall, Calls
<1>6. CASE list = {} /\ calls' = Append(calls, None) /\ UNCHANGED set
  <2>1. TypeOK'
    BY <1>1, <1>5, <1>6 DEF BlockersInv, TypeOK, set
  <2>2. OwnerInv' /\ CallInv' /\ BlockAfterUnblock'
    BY <1>1, <1>5, <1>6 DEF OwnerInv, CallInv, LastCall, BlockAfterUnblock
  <2> QED BY <1>3, <2>1, <2>2 DEF BlockersInv
<1>7. ASSUME NEW u \in Usable, Use(u),
             calls' = Append(Append(calls, None), desc[u])
      PROVE  BlockersInv'
  <2>1. u \in list /\ u \in Blockers
    BY DEF Usable, Good, BlockersInv, TypeOK
  <2>2. desc[u] \in Calls /\ desc[u] # None
        /\ window(u) \in Windows \cup {None}
    BY <2>1 DEF Calls, window, Current, BlockersInv, TypeOK
  <2>3. calls' \in Seq(Calls) /\ LastCall' = desc[u] /\ BlockAfterUnblock'
    BY <1>1, <1>5, <1>7, <2>2, AppendCall
       DEF BlockersInv, TypeOK, LastCall, BlockAfterUnblock
  <2>4. TypeOK'
    BY <1>1, <1>7, <2>2, <2>3 DEF BlockersInv, TypeOK, Use
  <2>5. Owns(u)'
    BY <1>1, <1>7, <2>1, <2>2 DEF Owns, Use, window, Current
  <2>6. OwnerInv' /\ CallInv'
    BY <1>1, <1>7, <2>1, <2>3, <2>5 DEF OwnerInv, CallInv, Use
  <2> QED BY <1>3, <2>3, <2>4, <2>6 DEF BlockersInv
<1> QED BY <1>4, <1>6, <1>7 DEF Finish

\* The main thread's performing of a call keeps it.
LEMMA PerformStep == ASSUME BlockersInv, Perform PROVE BlockersInv'
<1>1. /\ calls' \in Seq(Calls) /\ blocked' \in Calls
      /\ LastCall' = LastCall /\ BlockAfterUnblock'
  BY PerformCall DEF Perform, BlockersInv, TypeOK, LastCall, BlockAfterUnblock
<1>2. TypeOK'
  BY <1>1 DEF Perform, BlockersInv, TypeOK, set
<1>3. OwnerInv' /\ CallInv' /\ ReadInv'
  BY <1>1 DEF Perform, BlockersInv, OwnerInv, CallInv, ReadInv, Present, Owns, window,
              Current, set
<1> QED BY <1>1, <1>2, <1>3 DEF BlockersInv

\* A window's death nulls the set's pointer and its owner's together.
LEMMA WindowStep ==
  ASSUME MainOnly, BlockersInv, NEW w \in Windows, WindowDies(w)
  PROVE  BlockersInv'
<1> USE ConstantsAssumption
<1>1. /\ removing = None /\ removing' = None /\ alive' = alive \ {w}
      /\ UNCHANGED <<list, set, readWin, calls, blocked>>
      /\ Present' = Present
  BY DEF WindowDies, Present
<1>2. TypeOK'
  BY <1>1 DEF BlockersInv, TypeOK, set
<1>6. ReadInv'
  BY <1>1 DEF ReadInv
<1>5. CallInv' /\ BlockAfterUnblock'
  BY <1>1 DEF BlockersInv, CallInv, LastCall, BlockAfterUnblock, Alternates, set
<1>3. ASSUME NEW b \in Blockers, Owns(b) PROVE Owns(b)'
  BY <1>1, <1>3 DEF Owns, window, Current, BlockersInv, TypeOK, set
<1>4. OwnerInv'
  BY <1>1, <1>3 DEF BlockersInv, OwnerInv, Present, TypeOK
<1> QED BY <1>2, <1>4, <1>5, <1>6 DEF BlockersInv

\* Every step keeps it, if blockers are destroyed on the main thread.
LEMMA BlockersNext == ASSUME MainOnly PROVE BlockersInv /\ [Next]_vars => BlockersInv'
<1>1. BlockersInv /\ UNCHANGED vars => BlockersInv'
  BY DEF BlockersInv, vars, set, TypeOK, OwnerInv, CallInv, ReadInv, BlockAfterUnblock,
         Alternates, LastCall, Present, Owns, window, Current
<1> QED BY <1>1, AddStep, RemoveStep, FinishStep, PerformStep, WindowStep DEF Next

-----------------------------------------------------------------------------
\* While windows die on the thread that destroys blockers, the platform blocks
\* exactly while there is a blocker, in the name of one that exists, and
\* BlockPowerSave() is never called while it blocks.
THEOREM RequestFollowsBlockers ==
  MainOnly => (Spec => [](TypeOK /\ BlockedWhileNeeded /\ RequestHasOwner
                            /\ BlockAfterUnblock))
<1> SUFFICES ASSUME MainOnly
             PROVE  Spec => [](TypeOK /\ BlockedWhileNeeded /\ RequestHasOwner
                                 /\ BlockAfterUnblock)
  OBVIOUS
<1>1. BlockersInv => TypeOK /\ BlockedWhileNeeded /\ RequestHasOwner /\ BlockAfterUnblock
  BY DEF BlockersInv, BlockedWhileNeeded, RequestHasOwner, OwnerInv, CallInv, Present, Owns
<1>2. BlockersInv /\ [Next]_vars => BlockersInv'
  BY BlockersNext
<1> QED BY <1>1, <1>2, BlockersInitially, PTL DEF Spec

-----------------------------------------------------------------------------
(* PowerSavePortal.  NothingLeaks speaks of quiet states only; the         *)
(* invariant behind it says of every other state what is still on its way  *)
(* for each request.                                                       *)

In(c, q) == \E k \in DOMAIN q : q[k] = c
InWire(c) == In(c, wire)

\* Objects that were not made have done nothing.
NotMade == \A i \in Objects : i > made => stage[i] = "start"

\* What was never sent is not on the wire.
OnlySent ==
  \A i \in Objects : /\ ~WasSent(i) => ~InWire(Inhibit(i))
                     /\ ~hasRequest(i) => ~InWire(Close(i))

\* A request that outlived its object will be closed, if it can be: its Close is
\* on the wire, or its Response, whose handler closes it again, is to come.
WillClose ==
  \A i \in active : i # instance => InWire(Close(i)) \/ i \in responses \/ Unclosable(i)

\* The request of the object that exists is on its way or in force, as are those
\* that cannot be closed, and nobody closes them.
WillInhibit ==
  \A i \in Objects : (i = instance /\ hasRequest(i)) \/ Unclosable(i) =>
    /\ InWire(Inhibit(i)) \/ i \in handling \/ i \in active
    /\ ~InWire(Close(i))

Pending == NotMade /\ OnlySent /\ WillClose /\ WillInhibit
PortalInv == PortalTypeOK /\ Pending

-----------------------------------------------------------------------------
\* The two calls of all objects are different calls: Inhibit() and Close().
LEMMA CallsDiffer ==
  ASSUME NEW i \in Objects, NEW j \in Objects
  PROVE  /\ Inhibit(i) \in Messages /\ Close(i) \in Messages
         /\ Inhibit(i) # Close(j)
         /\ (Inhibit(i) = Inhibit(j) => i = j) /\ (Close(i) = Close(j) => i = j)
BY DEF Inhibit, Close, Messages

\* What a call put on the wire adds to it.
LEMMA Sent ==
  ASSUME NEW S, NEW q \in Seq(S), NEW c \in S, NEW d
  PROVE  /\ Append(q, c) \in Seq(S)
         /\ In(d, Append(q, c)) <=> In(d, q) \/ d = c
<1>1. /\ Append(q, c) \in Seq(S) /\ Len(Append(q, c)) = Len(q) + 1
      /\ \A k \in 1 .. Len(q) : Append(q, c)[k] = q[k]
      /\ Append(q, c)[Len(q) + 1] = c /\ Len(q) \in Nat
      /\ DOMAIN q = 1 .. Len(q) /\ DOMAIN Append(q, c) = 1 .. Len(q) + 1
  OBVIOUS
<1>2. \A k \in 1 .. Len(q) + 1 : k \in 1 .. Len(q) \/ k = Len(q) + 1
  BY <1>1
<1>3. 1 .. Len(q) \subseteq 1 .. Len(q) + 1 /\ Len(q) + 1 \in 1 .. Len(q) + 1
  BY <1>1
<1> QED BY <1>1, <1>2, <1>3 DEF In

\* What a call taken off the wire leaves on it.
LEMMA Taken ==
  ASSUME NEW S, NEW q \in Seq(S), q # <<>>, NEW d
  PROVE  /\ Tail(q) \in Seq(S) /\ Head(q) \in S /\ In(Head(q), q)
         /\ In(d, Tail(q)) => In(d, q)
         /\ In(d, q) => In(d, Tail(q)) \/ d = Head(q)
<1>1. /\ Tail(q) \in Seq(S) /\ Head(q) \in S /\ Len(q) \in Nat \ {0}
      /\ Len(Tail(q)) = Len(q) - 1 /\ Head(q) = q[1]
      /\ DOMAIN q = 1 .. Len(q) /\ DOMAIN Tail(q) = 1 .. Len(q) - 1
      /\ \A k \in 1 .. Len(q) - 1 : Tail(q)[k] = q[k + 1]
  OBVIOUS
<1>2. 1 \in 1 .. Len(q) /\ \A k \in 1 .. Len(q) - 1 : k + 1 \in 1 .. Len(q)
  BY <1>1
<1>3. ASSUME NEW k \in 1 .. Len(q), k # 1
      PROVE  k - 1 \in 1 .. Len(q) - 1 /\ (k - 1) + 1 = k
  BY <1>1, <1>3
<1>4. In(d, q) => In(d, Tail(q)) \/ d = Head(q)
  <2> SUFFICES ASSUME NEW k \in 1 .. Len(q), q[k] = d, d # Head(q)
               PROVE  In(d, Tail(q))
    BY <1>1 DEF In
  <2>1. k # 1 BY <1>1
  <2>2. k - 1 \in 1 .. Len(q) - 1 /\ Tail(q)[k - 1] = q[k] BY <1>1, <1>3, <2>1
  <2> QED BY <1>1, <2>2 DEF In
<1> QED BY <1>1, <1>2, <1>4 DEF In

-----------------------------------------------------------------------------
\* Nothing is pending when the program starts.
LEMMA PortalInitially == PortalInit => PortalInv
BY NAssumption DEF PortalInit, PortalInv, PortalTypeOK, Pending, NotMade, OnlySent, WillClose,
   WillInhibit, InWire, In, hasRequest, WasSent, Unclosable, Objects

\* Every step keeps it.
LEMMA PortalNextInv == PortalInv /\ [PortalNext]_portalVars => PortalInv'
<1> SUFFICES ASSUME PortalInv, [PortalNext]_portalVars PROVE PortalInv' OBVIOUS
<1> USE NAssumption DEF PortalInv, Pending
<1>t. /\ made \in 0 .. N /\ instance \in 0 .. made /\ N \in Nat
      /\ stage \in [Objects -> {"start", "request", "failed", "sent", "unclosable"}]
      /\ wire \in Seq(Messages)
      /\ handling \cup active \subseteq {i \in Objects : WasSent(i)}
      /\ responses \subseteq {i \in Objects : hasRequest(i)}
      /\ \A i \in Objects : (WasSent(i) <=> hasRequest(i) \/ Unclosable(i))
  BY DEF PortalTypeOK, WasSent
<1>a. ASSUME Prevent PROVE PortalInv'
  <2>1. made' = made + 1 /\ instance' = made + 1 /\ made + 1 \in Objects
        /\ stage[made + 1] = "start" /\ instance = 0
    BY <1>a, <1>t DEF Prevent, Objects, NotMade
  <2>u. UNCHANGED <<stage, wire, handling, active, responses>> BY <1>a DEF Prevent
  <2>2. PortalTypeOK' BY <1>t, <2>1, <2>u DEF PortalTypeOK, Objects, hasRequest, WasSent, Unclosable
  <2>3. NotMade' BY <2>1, <2>u, <1>t DEF NotMade, Objects
  <2>4. OnlySent' BY <2>u DEF OnlySent, hasRequest, WasSent, Unclosable, InWire
  <2>5. WillClose'
    BY <2>u, <2>1, <1>t DEF WillClose, InWire, hasRequest, WasSent, Unclosable, Objects
  <2>6. WillInhibit' BY <2>u, <2>1, <1>t DEF WillInhibit, InWire, hasRequest, WasSent, Unclosable
  <2> QED BY <2>2, <2>3, <2>4, <2>5, <2>6
<1>b. ASSUME Allow PROVE PortalInv'
  <2>u. UNCHANGED <<made, stage, handling, active, responses>>
        /\ instance' = 0 /\ instance \in Objects
    BY <1>b, <1>t DEF Allow, Objects
  <2>1. CASE hasRequest(instance)
    <3>1. wire' = Append(wire, Close(instance)) BY <1>b, <2>1 DEF Allow
    <3>2. wire' \in Seq(Messages)
          /\ \A d : InWire(d)' <=> InWire(d) \/ d = Close(instance)
      BY <3>1, <1>t, <2>u, CallsDiffer, Sent DEF InWire
    <3>3. PortalTypeOK' BY <1>t, <2>u, <3>2 DEF PortalTypeOK, hasRequest, WasSent, Unclosable, Objects
    <3>4. NotMade' BY <2>u DEF NotMade
    <3>5. OnlySent' BY <2>1, <2>u, <3>2, CallsDiffer DEF OnlySent, hasRequest, WasSent, Unclosable
    <3>6. WillClose' BY <2>u, <3>2 DEF WillClose, hasRequest, WasSent, Unclosable
    <3>7. WillInhibit' 
      BY <2>1, <2>u, <3>2, CallsDiffer DEF WillInhibit, Objects, hasRequest, Unclosable
    <3> QED BY <3>3, <3>4, <3>5, <3>6, <3>7
  <2>2. CASE ~hasRequest(instance)
    <3>1. wire' = wire BY <1>b, <2>2 DEF Allow
    <3>3. PortalTypeOK' BY <1>t, <2>u, <3>1 DEF PortalTypeOK, hasRequest, WasSent, Unclosable, Objects
    <3>4. NotMade' BY <2>u DEF NotMade
    <3>5. OnlySent' BY <2>u, <3>1 DEF OnlySent, hasRequest, WasSent, Unclosable, InWire
    <3>6. WillClose'
      BY <1>t, <2>u, <2>2, <3>1 DEF WillClose, InWire, hasRequest, WasSent, Unclosable
    <3>7. WillInhibit' BY <2>u, <3>1 DEF WillInhibit, InWire, Objects, hasRequest, Unclosable
    <3> QED BY <3>3, <3>4, <3>5, <3>6, <3>7
  <2> QED BY <2>1, <2>2
<1>c. ASSUME NEW i \in Objects, ProxyReady(i) PROVE PortalInv'
  <2>u. UNCHANGED <<made, instance, wire, handling, active, responses>>
    BY <1>c DEF ProxyReady
  <2>1. /\ stage' \in [Objects -> {"start", "request", "failed", "sent", "unclosable"}]
        /\ \A j \in Objects : /\ (hasRequest(j)' <=> hasRequest(j))
                              /\ (Unclosable(j)' <=> Unclosable(j))
                              /\ (WasSent(j)' <=> WasSent(j))
        /\ \A j \in Objects : j # i => stage'[j] = stage[j]
        /\ i <= made
    BY <1>c, <1>t DEF ProxyReady, hasRequest, WasSent, Unclosable
  <2>2. PortalTypeOK' BY <1>t, <2>u, <2>1 DEF PortalTypeOK
  <2>3. NotMade' BY <2>u, <2>1, <1>t DEF NotMade, Objects
  <2>4. OnlySent' BY <2>u, <2>1 DEF OnlySent, InWire
  <2>5. WillClose' BY <2>u, <2>1, <1>t DEF WillClose, InWire
  <2>6. WillInhibit' BY <2>u, <2>1 DEF WillInhibit, InWire
  <2> QED BY <2>2, <2>3, <2>4, <2>5, <2>6
<1>d. ASSUME NEW i \in Objects, RequestReady(i) PROVE PortalInv'
  <2>u. UNCHANGED <<made, instance, handling, active, responses>>
        /\ instance = i /\ stage[i] = "request" /\ ~WasSent(i)
        /\ wire' = Append(wire, Inhibit(i))
    BY <1>d DEF RequestReady, hasRequest, WasSent, Unclosable
  <2>1. /\ stage' \in [Objects -> {"start", "request", "failed", "sent", "unclosable"}]
        /\ \A j \in Objects : /\ j # i => (hasRequest(j)' <=> hasRequest(j))
                              /\ j # i => (Unclosable(j)' <=> Unclosable(j))
                              /\ (WasSent(j)' <=> WasSent(j) \/ j = i)
                              /\ hasRequest(j) => j # i
        /\ WasSent(i)' /\ (hasRequest(i)' \/ Unclosable(i)')
        /\ \A j \in Objects : j # i => stage'[j] = stage[j]
        /\ i <= made
    BY <1>d, <1>t DEF RequestReady, hasRequest, WasSent, Unclosable
  <2>w. wire' \in Seq(Messages) /\ \A d : InWire(d)' <=> InWire(d) \/ d = Inhibit(i)
    BY <2>u, <1>t, CallsDiffer, Sent DEF InWire
  <2>2. PortalTypeOK'
    BY <1>t, <2>u, <2>1, <2>w DEF PortalTypeOK
  <2>3. NotMade' BY <2>u, <2>1, <1>t DEF NotMade, Objects
  <2>4. OnlySent' BY <2>w, <2>1, CallsDiffer DEF OnlySent
  <2>5. WillClose' BY <2>u, <2>w, <2>1, <1>t DEF WillClose
  <2>6. WillInhibit'
    BY <2>u, <2>w, <2>1, CallsDiffer DEF WillInhibit, OnlySent
  <2> QED BY <2>2, <2>3, <2>4, <2>5, <2>6
<1>e. ASSUME NEW i \in Objects, Response(i) PROVE PortalInv'
  <2>u. UNCHANGED <<made, instance, stage, handling, active>>
        /\ i \in responses /\ responses' = responses \ {i} /\ hasRequest(i)
    BY <1>e, <1>t DEF Response
  <2>1. CASE instance # i
    <3>1. wire' = Append(wire, Close(i)) BY <1>e, <2>1 DEF Response
    <3>2. wire' \in Seq(Messages) /\ \A d : InWire(d)' <=> InWire(d) \/ d = Close(i)
      BY <3>1, <1>t, CallsDiffer, Sent DEF InWire
    <3>3. PortalTypeOK' BY <1>t, <2>u, <3>2 DEF PortalTypeOK, hasRequest, WasSent, Unclosable
    <3>4. NotMade' BY <2>u DEF NotMade
    <3>5. OnlySent' BY <2>u, <3>2, CallsDiffer DEF OnlySent, hasRequest, WasSent, Unclosable
    <3>6. WillClose' BY <2>u, <3>2 DEF WillClose, hasRequest, WasSent, Unclosable
    <3>7. WillInhibit' BY <2>u, <2>1, <3>2, CallsDiffer DEF WillInhibit, hasRequest, WasSent, Unclosable
    <3> QED BY <3>3, <3>4, <3>5, <3>6, <3>7
  <2>2. CASE instance = i
    <3>1. wire' = wire BY <1>e, <2>2 DEF Response
    <3>3. PortalTypeOK' BY <1>t, <2>u, <3>1 DEF PortalTypeOK, hasRequest, WasSent, Unclosable
    <3>4. NotMade' BY <2>u DEF NotMade
    <3>5. OnlySent' BY <2>u, <3>1 DEF OnlySent, hasRequest, WasSent, Unclosable, InWire
    <3>6. WillClose'
      BY <2>u, <2>2, <3>1 DEF WillClose, InWire, hasRequest, WasSent, Unclosable
    <3>7. WillInhibit' BY <2>u, <3>1 DEF WillInhibit, hasRequest, WasSent, Unclosable, InWire
    <3> QED BY <3>3, <3>4, <3>5, <3>6, <3>7
  <2> QED BY <2>1, <2>2
<1>f. ASSUME PortalTakes PROVE PortalInv'
  <2>u. UNCHANGED <<made, instance, stage, responses>> /\ wire # <<>>
        /\ wire' = Tail(wire)
    BY <1>f DEF PortalTakes
  <2>w. /\ wire' \in Seq(Messages) /\ InWire(Head(wire))
        /\ \A d : InWire(d)' => InWire(d)
        /\ \A d : InWire(d) => InWire(d)' \/ d = Head(wire)
    BY <2>u, <1>t, Taken DEF InWire
  <2>n. NotMade' BY <2>u DEF NotMade
  <2>o. OnlySent' BY <2>u, <2>w DEF OnlySent, hasRequest, WasSent, Unclosable
  <2>1. ASSUME NEW i \in Objects, Head(wire) = Inhibit(i),
               handling' = handling \cup {i}, active' = active
        PROVE  PortalInv'
    <3>1. WasSent(i) BY <2>1, <2>w DEF OnlySent
    <3>2. PortalTypeOK' BY <1>t, <2>u, <2>w, <2>1, <3>1 DEF PortalTypeOK, hasRequest, WasSent, Unclosable
    <3>3. WillClose'
      BY <1>t, <2>u, <2>w, <2>1, CallsDiffer DEF WillClose, hasRequest, WasSent, Unclosable
    <3>4. WillInhibit' BY <2>u, <2>w, <2>1, CallsDiffer DEF WillInhibit, hasRequest, WasSent, Unclosable
    <3> QED BY <2>n, <2>o, <3>2, <3>3, <3>4
  <2>2. ASSUME NEW i \in Objects, Head(wire) = Close(i),
               handling' = handling, active' = active \ {i}
        PROVE  PortalInv'
    <3>1. hasRequest(i) BY <2>2, <2>w DEF OnlySent
    <3>2. PortalTypeOK' BY <1>t, <2>u, <2>w, <2>2 DEF PortalTypeOK, hasRequest, WasSent, Unclosable
    <3>3. WillClose'
      BY <1>t, <2>u, <2>w, <2>2, CallsDiffer DEF WillClose, hasRequest, WasSent, Unclosable
    <3>4. WillInhibit' BY <3>1, <2>u, <2>w, <2>2, CallsDiffer DEF WillInhibit, hasRequest, WasSent, Unclosable
    <3> QED BY <2>n, <2>o, <3>2, <3>3, <3>4
  <2> QED BY <1>f, <2>1, <2>2 DEF PortalTakes
<1>g. ASSUME NEW i \in Objects, PortalFinishes(i) PROVE PortalInv'
  <2>u. UNCHANGED <<made, instance, stage, wire>> /\ i \in handling
        /\ handling' = handling \ {i} /\ active' = active \cup {i}
        /\ responses' = IF hasRequest(i) THEN responses \cup {i} ELSE responses
    BY <1>g DEF PortalFinishes
  <2>r. hasRequest(i) \/ Unclosable(i) BY <1>t, <2>u
  <2>s. responses' \subseteq {j \in Objects : hasRequest(j)} /\ (hasRequest(i) => i \in responses')
        /\ responses \subseteq responses'
    BY <1>t, <2>u
  <2>2. PortalTypeOK' BY <1>t, <2>u, <2>s DEF PortalTypeOK, hasRequest, WasSent, Unclosable
  <2>3. NotMade' BY <2>u DEF NotMade
  <2>4. OnlySent' BY <2>u DEF OnlySent, InWire, hasRequest, WasSent, Unclosable
  <2>5. WillClose' BY <2>u, <2>r, <2>s DEF WillClose, InWire, hasRequest, Unclosable
  <2>6. WillInhibit' BY <2>u DEF WillInhibit, InWire, hasRequest, WasSent, Unclosable
  <2> QED BY <2>2, <2>3, <2>4, <2>5, <2>6
<1>h. ASSUME UNCHANGED portalVars PROVE PortalInv'
  BY <1>h DEF portalVars, PortalTypeOK, NotMade, OnlySent, WillClose, WillInhibit, InWire, hasRequest, WasSent, Unclosable
<1> QED BY <1>a, <1>b, <1>c, <1>d, <1>e, <1>f, <1>g, <1>h DEF PortalNext, Portal, Callbacks

\* In a quiet state nothing is on its way, so that PortalInv leaves no choice.
LEMMA PortalInvNothingLeaks == PortalInv => NothingLeaks
<1> SUFFICES ASSUME PortalInv, wire = <<>>, handling = {}, responses = {}
             PROVE  active = {i \in Objects : (i = instance /\ hasRequest(i)) \/ Unclosable(i)}
  BY DEF NothingLeaks
<1>1. \A c : ~InWire(c) BY DEF InWire, In
<1>2. active \subseteq {i \in Objects : hasRequest(i) \/ Unclosable(i)}
  BY DEF PortalInv, PortalTypeOK, WasSent
<1>3. \A i \in active : i = instance \/ Unclosable(i) BY <1>1 DEF PortalInv, Pending, WillClose
<1>4. \A i \in Objects : (i = instance /\ hasRequest(i)) \/ Unclosable(i) => i \in active
  BY <1>1 DEF PortalInv, Pending, WillInhibit
<1> QED BY <1>2, <1>3, <1>4

\* PortalInhibit leaves no request with the portal that it could close: whatever
\* the number of objects, and however the portal's answers and the objects'
\* deaths interleave, what is in force in the end is the request of the object
\* that exists, and exactly those of objects that got no proxy of theirs.
THEOREM NoRequestLeaks == PortalSpec => []NothingLeaks
<1>1. PortalSpec => []PortalInv BY PortalInitially, PortalNextInv, PTL DEF PortalSpec
<1> QED BY <1>1, PortalInvNothingLeaks, PTL

-----------------------------------------------------------------------------
(* PowerSavePortal, with the blockers *)

\* A step of the composition is a step of the blockers, or leaves them alone.
LEMMA StepOfBlockers == [PowerSaveNext]_PowerSaveVars => [Next]_vars
BY DEF PowerSaveNext, PowerSaveVars, Blocking, OnMain, Next

\* And it is a step of the portal and its objects, or leaves those alone.
LEMMA StepOfPortal == [PowerSaveNext]_PowerSaveVars => [PortalNext]_portalVars
BY DEF PowerSaveNext, PowerSaveVars, Blocking, OnMain, PortalPreventDisplaySleep, Answers,
   PortalNext

\* The composition implements both of its parts: whatever holds of either part
\* in any surroundings holds of it where the other is the surroundings.
THEOREM PartsAreImplemented == PowerSaveSpec => Spec /\ PortalSpec
<1>1. PowerSaveInit => Init /\ PortalInit BY DEF PowerSaveInit
<1> QED BY <1>1, StepOfBlockers, StepOfPortal, PTL DEF PowerSaveSpec, Spec, PortalSpec

\* What connects the parts: there is an object exactly while the last call that
\* was performed blocks, and it is the last one made.
Connected == /\ instance # 0 <=> blocked # None
             /\ instance # 0 => instance = made

\* Nothing blocks at first, and there is no object.
LEMMA ConnectedInitially == PowerSaveInit => Connected
BY DEF PowerSaveInit, Init, PortalInit, Connected

\* A performed call makes or destroys the object, and no other step does.
LEMMA ConnectedNext ==
  Connected /\ PortalTypeOK /\ [PowerSaveNext]_PowerSaveVars => Connected'
<1> SUFFICES ASSUME Connected, PortalTypeOK, [PowerSaveNext]_PowerSaveVars
             PROVE  Connected'
  OBVIOUS
<1>1. CASE OnMain
  <2>1. blocked' = Head(calls) BY <1>1 DEF OnMain, Perform
  <2>2. CASE (Head(calls) # None) <=> instance = 0
    <3>1. CASE Head(calls) # None
      <4>1. Prevent BY <1>1, <2>2, <3>1 DEF OnMain, PortalPreventDisplaySleep
      <4> QED BY <4>1, <3>1, <2>1 DEF Prevent, Connected, PortalTypeOK
    <3>2. CASE Head(calls) = None
      <4>1. Allow BY <1>1, <2>2, <3>2 DEF OnMain, PortalPreventDisplaySleep
      <4> QED BY <4>1, <3>2, <2>1 DEF Allow, Connected
    <3> QED BY <3>1, <3>2
  <2>3. CASE ~((Head(calls) # None) <=> instance = 0)
    <3>1. UNCHANGED portalVars BY <1>1, <2>3 DEF OnMain, PortalPreventDisplaySleep
    <3> QED BY <3>1, <2>1, <2>3 DEF portalVars, Connected
  <2> QED BY <2>2, <2>3
<1>2. CASE Blocking
  BY <1>2 DEF Blocking, Add, Remove, Finish, WindowDies, portalVars, Connected
<1>3. CASE Answers /\ UNCHANGED vars
  BY <1>3 DEF Answers, Portal, PortalTakes, PortalFinishes, Callbacks, ProxyReady,
     RequestReady, Response, vars, Connected
<1>4. CASE UNCHANGED PowerSaveVars
  BY <1>4 DEF PowerSaveVars, vars, portalVars, Connected
<1> QED BY <1>1, <1>2, <1>3, <1>4 DEF PowerSaveNext

\* Once all is settled the last call is the one in force, it follows the
\* blockers, its object is the last one made, and the portal has its request.
LEMMA SettledScreen ==
  BlockersInv /\ BlockedWhileNeeded /\ NothingLeaks /\ Connected => ScreenFollowsBlockers
<1> SUFFICES ASSUME BlockersInv, BlockedWhileNeeded, NothingLeaks, Connected, Settled
             PROVE  active = {i \in Objects : \/ list # {} /\ i = made /\ hasRequest(i)
                                             \/ Unclosable(i)}
  BY DEF ScreenFollowsBlockers
<1>1. active = {i \in Objects : (i = instance /\ hasRequest(i)) \/ Unclosable(i)}
  BY DEF NothingLeaks, Settled
<1>2. blocked = (IF list = {} THEN None ELSE setDesc)
  BY DEF BlockedWhileNeeded, Settled, LastCall, LastOf
<1>3. list # {} => setDesc # None
  BY ConstantsAssumption DEF BlockersInv, OwnerInv, Owns, Present, TypeOK, Settled
<1>4. list # {} <=> instance # 0 BY <1>2, <1>3 DEF Connected
<1>5. \A i \in Objects : i = instance <=> list # {} /\ i = made
  BY <1>4, NAssumption DEF Connected, Objects
<1> QED BY <1>1, <1>5

\* The blockers' variables keep their types, wherever blockers are destroyed.
LEMMA BlockersTypes == TypeOK /\ [Next]_vars => TypeOK'
<1> SUFFICES ASSUME TypeOK, [Next]_vars PROVE TypeOK' OBVIOUS
<1> USE ConstantsAssumption DEF TypeOK
<1>c. /\ None \in Calls
      /\ \A b \in Blockers : /\ desc[b] \in Calls /\ window(b) \in Windows \cup {None}
                            /\ b # None
  BY DEF Calls, window, Current
<1>r. Current(setWin) \in Windows \cup {None} BY DEF Current
<1>q. \A q \in Seq(Calls), d \in Calls : Append(q, d) \in Seq(Calls)
  BY AppendProperties
<1>1. ASSUME NEW b \in Blockers, Add(b) PROVE TypeOK'
  BY <1>1, <1>c, <1>q DEF Add, Use, set
<1>2. ASSUME NEW b \in Blockers, Remove(b) PROVE TypeOK'
  BY <1>2, <1>c, <1>r DEF Remove, set
<1>3. ASSUME NEW b \in Blockers, Finish(b) PROVE TypeOK'
  <2>u. /\ removing' = None /\ readWin' = None /\ UNCHANGED <<alive, list, blocked>>
    BY <1>3 DEF Finish
  <2>1. CASE UNCHANGED set /\ calls' \in {calls, Append(calls, None)}
    BY <2>1, <2>u, <1>c, <1>q DEF set
  <2>2. ASSUME NEW u \in list, Use(u), calls' = Append(Append(calls, None), desc[u])
        PROVE  TypeOK'
    <3>1. u \in Blockers /\ calls' \in Seq(Calls) BY <2>2, <1>c, <1>q
    <3> QED BY <3>1, <2>2, <2>u, <1>c DEF Use
  <2> QED BY <1>3, <2>1, <2>2 DEF Finish, Usable, Good, set
<1>4. CASE Perform
  BY <1>4, HeadTailProperties DEF Perform, set
<1>5. ASSUME NEW w \in Windows, WindowDies(w) PROVE TypeOK'
  BY <1>5 DEF WindowDies, set
<1>6. CASE UNCHANGED vars BY <1>6 DEF vars, set
<1> QED BY <1>1, <1>2, <1>3, <1>4, <1>5, <1>6 DEF Next

\* The variables of both parts keep their types, on whatever threads blockers
\* are destroyed.
THEOREM PowerSaveTypes == PowerSaveSpec => []PowerSaveTypeOK
<1>1. Init => TypeOK BY BlockersInitially DEF BlockersInv
<1>2. Spec => []TypeOK BY <1>1, BlockersTypes, PTL DEF Spec
<1>3. PortalSpec => []PortalInv
  BY PortalInitially, PortalNextInv, PTL DEF PortalSpec
<1>4. TypeOK /\ PortalInv => PowerSaveTypeOK
  BY DEF PortalInv, PowerSaveTypeOK
<1> QED BY <1>2, <1>3, <1>4, PartsAreImplemented, PTL

\* From the blockers' count to the portal: the request has an owner whose
\* window it names, the platform is never told twice to block or to stop, and
\* when all has arrived the portal inhibits exactly if there is a blocker, for
\* the last object, if that got through to it.
THEOREM ScreenIsKept == MainOnly => (PowerSaveSpec => []RequestSound)
<1> SUFFICES ASSUME MainOnly PROVE PowerSaveSpec => []RequestSound OBVIOUS
<1>1. Spec => []BlockersInv BY BlockersInitially, BlockersNext, PTL DEF Spec
<1>2. PortalSpec => []PortalInv
  BY PortalInitially, PortalNextInv, PTL DEF PortalSpec
<1>3. BlockersInv => BlockedWhileNeeded /\ RequestHasOwner /\ BlockAfterUnblock
  BY DEF BlockersInv, BlockedWhileNeeded, RequestHasOwner, OwnerInv, CallInv, Present, Owns
<1>4. PortalInv => PortalTypeOK /\ NothingLeaks
  BY PortalInvNothingLeaks DEF PortalInv
<1>5. PowerSaveSpec => []Connected
  BY <1>2, <1>4, PartsAreImplemented, ConnectedInitially, ConnectedNext, PTL
  DEF PowerSaveSpec
<1>6. BlockersInv /\ PortalInv /\ Connected => RequestSound
  BY <1>3, <1>4, SettledScreen DEF RequestSound
<1> QED BY <1>1, <1>2, <1>5, <1>6, PartsAreImplemented, PTL

-----------------------------------------------------------------------------
(* XSettings: the copy of the manager's settings *)

Elements == [value : Settings!Serials, serial : Settings!Serials, links : SUBSET Subscribers]
Published == [value : Settings!Serials, serial : Settings!Serials]
Registrations == [name : SettingNames, known : Settings!Serials]

\* A setting has no serial above the last one given, nor has the copy of it above
\* the published one; what was read last is what there is.
CopyFollows ==
  /\ \A p \in DOMAIN published :
       published[p].value = published[p].serial /\ published[p].serial \in 1 .. lastSerial
  /\ xsettings = "initialized" =>
       /\ \A p \in DOMAIN settings :
            settings[p].value = settings[p].serial /\ settings[p].serial <= lastSerial
       /\ \A p \in DOMAIN published :
            p \in DOMAIN settings => settings[p].serial <= published[p].serial
       /\ notifies = 0 => \A p \in DOMAIN published :
            p \in DOMAIN settings /\ settings[p].serial = published[p].serial

\* A live callback is linked to the element of its setting.
CallbacksLinked ==
  \A c \in Settings!Live :
    /\ registered[c].name \in DOMAIN settings
    /\ c \in settings[registered[c].name].links
    /\ registered[c].known = settings[registered[c].name].value

\* One that is linked after its lifetime is one whose element may have moved.
LinksLate == \A p \in DOMAIN settings : settings[p].links \ Settings!Live \subseteq stale

XSettingsIInv ==
  /\ Settings!TypeOK
  /\ xsettings = "none" => ~keepers /\ Settings!Live = {} /\ DOMAIN settings = {}
  /\ CopyFollows /\ CallbacksLinked /\ LinksLate /\ calledDead \subseteq stale

LEMMA NothingThere == DOMAIN <<>> = {}
BY EmptySeq, LenProperties

LEMMA InitXSettings == Settings!Init => XSettingsIInv
<1> SUFFICES ASSUME Settings!Init PROVE XSettingsIInv OBVIOUS
<1>1. /\ DOMAIN published = {} /\ DOMAIN settings = {} /\ DOMAIN registered = {}
      /\ lastSerial = 0 /\ restarted = FALSE /\ notifies = 0 /\ xsettings = "none"
      /\ keepers = FALSE /\ stale = {} /\ calledDead = {}
  BY NothingThere DEF Settings!Init
<1>2. Settings!TypeOK
  <2>1. 0 \in 0 .. MaxSerial /\ 0 \in 0 .. MaxNotifies BY DesktopAssumption
  <2>2. \A p : p \notin DOMAIN published /\ p \notin DOMAIN settings /\ p \notin DOMAIN registered
    BY <1>1
  <2>3. /\ DOMAIN published \subseteq SettingNames /\ DOMAIN settings \subseteq SettingNames
        /\ DOMAIN registered \subseteq Subscribers /\ stale \union calledDead \subseteq Subscribers
    BY <1>1
  <2> QED BY <1>1, <2>1, <2>2, <2>3 DEF Settings!TypeOK, Settings!Live
<1>3. CopyFollows BY <1>1 DEF CopyFollows
<1> QED BY <1>1, <1>2, <1>3 DEF XSettingsIInv, Settings!Live, CallbacksLinked, LinksLate

\* An element that is updated has the higher serial, its value and the same links.
LEMMA UpdatedElement ==
  ASSUME NEW e \in Elements, NEW s \in Published
  PROVE  LET u == Settings!Updated(e, s)
         IN /\ u \in Elements /\ u.links = e.links
            /\ s.serial <= e.serial => u = e
            /\ s.serial > e.serial => u.serial = s.serial /\ u.value = s.value
BY DesktopAssumption DEF Settings!Updated, Elements, Published, Settings!Serials, Settings!Unset

\* Reading the property keeps the types and every link, and follows what is published.
LEMMA PopulatedMap ==
  ASSUME XSettingsIInv, xsettings \in {"none", "initialized"}
  PROVE  LET m == Settings!Populated(settings)
         IN /\ DOMAIN m = DOMAIN settings \union DOMAIN published
            /\ \A p \in DOMAIN m : m[p] \in Elements
            /\ \A p \in DOMAIN settings : m[p].links = settings[p].links
            /\ \A p \in DOMAIN settings :
                 m[p].serial = settings[p].serial => m[p] = settings[p]
            /\ \A p \in DOMAIN m \ DOMAIN settings : m[p].links = {}
            /\ \A p \in DOMAIN m : m[p].value = m[p].serial /\ m[p].serial <= lastSerial
            /\ \A p \in DOMAIN published : m[p].serial = published[p].serial
<1> DEFINE m == Settings!Populated(settings)
<1>t. /\ \A p \in DOMAIN published : published[p] \in Published
      /\ \A p \in DOMAIN settings : settings[p] \in Elements
      /\ lastSerial \in Nat
  BY DEF XSettingsIInv, Settings!TypeOK, Elements, Published
<1>n. /\ Settings!Missing \in Elements /\ Settings!Missing.links = {}
      /\ Settings!Missing.serial = -1
  BY DesktopAssumption
  DEF Settings!Missing, Elements, Settings!Serials, Settings!Unset
<1>c. /\ \A p \in DOMAIN published :
           published[p].value = published[p].serial /\ published[p].serial \in 1 .. lastSerial
      /\ \A p \in DOMAIN settings :
           settings[p].value = settings[p].serial /\ settings[p].serial <= lastSerial
      /\ \A p \in DOMAIN published :
           p \in DOMAIN settings => settings[p].serial <= published[p].serial
  BY DEF XSettingsIInv, CopyFollows
<1>1. DOMAIN m = DOMAIN settings \union DOMAIN published
  BY DEF Settings!Populated
<1>2. ASSUME NEW p \in DOMAIN published, p \in DOMAIN settings
      PROVE  m[p] = Settings!Updated(settings[p], published[p])
  BY <1>2 DEF Settings!Populated, Settings!Element
<1>3. ASSUME NEW p \in DOMAIN published, p \notin DOMAIN settings
      PROVE  m[p] = Settings!Updated(Settings!Missing, published[p])
  BY <1>3 DEF Settings!Populated, Settings!Element
<1>4. ASSUME NEW p \in DOMAIN settings, p \notin DOMAIN published
      PROVE  m[p] = settings[p]
  BY <1>4 DEF Settings!Populated
<1> HIDE DEF m
<1>5. ASSUME NEW p \in DOMAIN published, p \in DOMAIN settings
      PROVE  /\ m[p] \in Elements /\ m[p].links = settings[p].links
             /\ m[p].serial = settings[p].serial => m[p] = settings[p]
             /\ m[p].value = m[p].serial /\ m[p].serial <= lastSerial
             /\ m[p].serial = published[p].serial
  <2>1. settings[p].serial \in Int /\ published[p].serial \in Int
    BY <1>5, <1>t DEF Elements, Published, Settings!Serials, Settings!Unset
  <2> QED BY <1>5, <1>t, <1>c, <1>2, <2>1, UpdatedElement
<1>6. ASSUME NEW p \in DOMAIN published, p \notin DOMAIN settings
      PROVE  /\ m[p] \in Elements /\ m[p].links = {}
             /\ m[p].value = m[p].serial /\ m[p].serial <= lastSerial
             /\ m[p].serial = published[p].serial
  <2>1. published[p].serial \in 1 .. lastSerial BY <1>c
  <2>2. published[p].serial > Settings!Missing.serial /\ published[p].serial <= lastSerial
    BY <2>1, <1>n, <1>t
  <2>3. published[p] \in Published /\ published[p].value = published[p].serial
    BY <1>t, <1>c
  <2> QED BY <1>6, <1>3, <1>n, <2>2, <2>3, UpdatedElement
<1> QED BY <1>1, <1>4, <1>5, <1>6, <1>t, <1>c DEF m

\* Callbacks of settings that changed are told the value, those that are late too.
LEMMA PopulateKeeps ==
  ASSUME XSettingsIInv, Settings!Populate, UNCHANGED <<published, lastSerial, restarted>>,
         xsettings \in {"none", "initialized"}, xsettings' = "initialized",
         keepers' \in BOOLEAN, notifies' \in 0 .. MaxNotifies
  PROVE  XSettingsIInv'
<1> DEFINE m == Settings!Populated(settings)
<1>m. /\ DOMAIN m = DOMAIN settings \union DOMAIN published
      /\ \A p \in DOMAIN m : m[p] \in Elements
      /\ \A p \in DOMAIN settings : m[p].links = settings[p].links
      /\ \A p \in DOMAIN settings :
           m[p].serial = settings[p].serial => m[p] = settings[p]
      /\ \A p \in DOMAIN m \ DOMAIN settings : m[p].links = {}
      /\ \A p \in DOMAIN m : m[p].value = m[p].serial /\ m[p].serial <= lastSerial
      /\ \A p \in DOMAIN published : m[p].serial = published[p].serial
  BY PopulatedMap
<1> HIDE DEF m
<1>s. settings' = m BY DEF Settings!Populate, m
<1> DEFINE called == Settings!CalledBy(settings, settings')
<1>c. /\ called \subseteq Subscribers
      /\ \A c \in Subscribers, p \in DOMAIN settings :
           c \in settings[p].links /\ m[p].serial # settings[p].serial => c \in called
      /\ \A c \in called : \E p \in DOMAIN settings : c \in settings[p].links
  <2>1. called = Settings!CalledBy(settings, m) BY <1>s
  <2>2. called = {c \in Subscribers : \E p \in DOMAIN settings :
                    c \in settings[p].links /\ m[p].serial # settings[p].serial}
    BY <2>1 DEF Settings!CalledBy
  <2> QED BY <2>2, <1>m
<1>r. /\ DOMAIN registered' = DOMAIN registered
      /\ \A c \in DOMAIN registered :
           registered'[c] = IF c \in called
                            THEN [registered[c] EXCEPT !.known = m[registered[c].name].value]
                            ELSE registered[c]
      /\ calledDead' = calledDead \union (called \ DOMAIN registered)
  BY <1>s DEF Settings!Populate, Settings!Live
<1>l. stale' = (IF DOMAIN settings' # DOMAIN settings
                THEN stale \union DOMAIN registered ELSE stale)
  BY DEF Settings!Populate, Settings!Live
<1> HIDE DEF called
<1>t. /\ DOMAIN registered \subseteq Subscribers
      /\ \A c \in DOMAIN registered : registered[c] \in Registrations
      /\ DOMAIN published \subseteq SettingNames /\ DOMAIN settings \subseteq SettingNames
      /\ stale \subseteq Subscribers /\ calledDead \subseteq Subscribers
  BY DEF XSettingsIInv, Settings!TypeOK, Settings!Live, Registrations
<1>k. ASSUME NEW c \in DOMAIN registered
      PROVE  /\ registered'[c] \in Registrations
             /\ registered'[c].name = registered[c].name
             /\ registered[c].name \in DOMAIN m
             /\ c \in m[registered[c].name].links
             /\ registered'[c].known = m[registered[c].name].value
  <2> DEFINE p == registered[c].name
  <2>1. /\ p \in DOMAIN settings /\ c \in settings[p].links
        /\ registered[c].known = settings[p].value
    BY DEF XSettingsIInv, CallbacksLinked, Settings!Live
  <2>2. m[p].value \in Settings!Serials BY <2>1, <1>m DEF Elements
  <2>3. CASE c \in called
    BY <2>1, <2>2, <2>3, <1>m, <1>r, <1>t DEF Registrations
  <2>4. CASE c \notin called
    <3>1. m[p] = settings[p] BY <2>1, <2>4, <1>c, <1>m, <1>t
    <3> QED BY <2>1, <2>4, <3>1, <1>m, <1>r, <1>t
  <2> QED BY <2>3, <2>4
<1>1. Settings!TypeOK'
  <2>1. stale' \subseteq Subscribers /\ calledDead' \subseteq Subscribers
    BY <1>l, <1>t, <1>r, <1>c
  <2>2. /\ DOMAIN settings' \subseteq SettingNames
        /\ \A p \in DOMAIN settings' : settings'[p] \in Elements
    BY <1>s, <1>m, <1>t
  <2>3. /\ DOMAIN registered' \subseteq Subscribers
        /\ \A c \in DOMAIN registered' : registered'[c] \in Registrations
    BY <1>r, <1>t, <1>k
  <2> QED BY <2>1, <2>2, <2>3
    DEF XSettingsIInv, Settings!TypeOK, Settings!Live, Settings!Serials, Elements, Registrations
<1>2. CopyFollows'
  BY <1>s, <1>m DEF XSettingsIInv, CopyFollows
<1>3. CallbacksLinked'
  BY <1>s, <1>k, <1>r DEF CallbacksLinked, Settings!Live
<1>4. LinksLate'
  <2>1. \A p \in DOMAIN m : m[p].links \ DOMAIN registered \subseteq stale
    BY <1>m DEF XSettingsIInv, LinksLate, Settings!Live
  <2> QED BY <1>s, <1>l, <1>r, <2>1 DEF LinksLate, Settings!Live
<1>5. calledDead' \subseteq stale'
  <2>1. called \ DOMAIN registered \subseteq stale
    BY <1>c DEF XSettingsIInv, LinksLate, Settings!Live
  <2> QED BY <1>l, <1>r, <2>1 DEF XSettingsIInv
<1> QED BY <1>1, <1>2, <1>3, <1>4, <1>5 DEF XSettingsIInv

LEMMA InstanceStep == XSettingsIInv /\ Settings!Instance => XSettingsIInv'
<1> SUFFICES ASSUME XSettingsIInv, Settings!Instance PROVE XSettingsIInv' OBVIOUS
<1>1. CASE xsettings = "none" /\ xsettings' = "initialized" /\ notifies' = 0 /\ Settings!Populate
  BY <1>1, PopulateKeeps, DesktopAssumption DEF Settings!Instance, Settings!managerVars
<1>2. CASE /\ xsettings' = "not" \/ (xsettings # "none" /\ xsettings' = xsettings)
           /\ UNCHANGED <<notifies, settings, registered, stale, calledDead>>
  BY <1>2
  DEF Settings!Instance, Settings!managerVars, XSettingsIInv, Settings!TypeOK, Settings!Serials,
      Settings!Live, CopyFollows, CallbacksLinked, LinksLate
<1> QED BY <1>1, <1>2 DEF Settings!Instance

LEMMA PropertyNotifyStep == XSettingsIInv /\ Settings!PropertyNotify => XSettingsIInv'
BY PopulateKeeps, DesktopAssumption
DEF Settings!PropertyNotify, Settings!managerVars, XSettingsIInv, Settings!TypeOK

\* Without a holder and without callbacks nothing is left.
LEMMA FreedAll ==
  ASSUME XSettingsIInv, UNCHANGED <<published, lastSerial, restarted, stale, calledDead>>,
         xsettings' = "none", DOMAIN settings' = {}, notifies' = 0,
         keepers' = FALSE, DOMAIN registered' = {}
  PROVE  XSettingsIInv'
<1>1. Settings!TypeOK'
  <2>1. /\ DOMAIN published' \subseteq SettingNames
        /\ \A p \in DOMAIN published' : published'[p] \in Published
        /\ lastSerial' \in 0 .. MaxSerial /\ restarted' \in BOOLEAN
        /\ stale' \union calledDead' \subseteq Subscribers
    BY DEF XSettingsIInv, Settings!TypeOK, Published
  <2>2. notifies' \in 0 .. MaxNotifies BY DesktopAssumption
  <2> QED BY <2>1, <2>2 DEF Settings!TypeOK, Settings!Serials, Settings!Live, Published
<1> QED BY <1>1
  DEF XSettingsIInv, Settings!Live, CopyFollows, CallbacksLinked, LinksLate

LEMMA DropStep == XSettingsIInv /\ Settings!Drop => XSettingsIInv'
<1> SUFFICES ASSUME XSettingsIInv, Settings!Drop PROVE XSettingsIInv' OBVIOUS
<1>1. CASE Settings!Live # {}
  BY <1>1
  DEF Settings!Drop, Settings!Freed, Settings!managerVars, XSettingsIInv, Settings!TypeOK,
      Settings!Serials, Settings!Live, CopyFollows, CallbacksLinked, LinksLate
<1>2. CASE Settings!Live = {}
  BY <1>2, FreedAll, NothingThere DEF Settings!Drop, Settings!Freed, Settings!managerVars, Settings!Live
<1> QED BY <1>1, <1>2

\* A setting inserted is an element like others, with no value and no links.
LEMMA InsertedMap ==
  ASSUME XSettingsIInv, NEW p \in SettingNames
  PROVE  LET m == Settings!Inserted(settings, p)
         IN /\ DOMAIN m = DOMAIN settings \union {p}
            /\ \A q \in DOMAIN m : m[q] \in Elements
            /\ \A q \in DOMAIN settings : m[q] = settings[q]
            /\ p \notin DOMAIN settings =>
                 m[p].value = -1 /\ m[p].serial = -1 /\ m[p].links = {}
            /\ m[p] = Settings!Element(settings, p)
BY DesktopAssumption
DEF Settings!Inserted, Settings!Element, Settings!Missing, Settings!Unset, Settings!Serials,
    Elements, XSettingsIInv, Settings!TypeOK

\* setting() is only asked before anything that CopyFollows compares is missed.
LEMMA SettingStep ==
  ASSUME XSettingsIInv, NEW p \in SettingNames, Settings!Setting(p)
  PROVE  XSettingsIInv'
<1> DEFINE m == Settings!Inserted(settings, p)
<1>m. /\ DOMAIN m = DOMAIN settings \union {p}
      /\ \A q \in DOMAIN m : m[q] \in Elements
      /\ \A q \in DOMAIN settings : m[q] = settings[q]
      /\ p \notin DOMAIN settings =>
           m[p].value = -1 /\ m[p].serial = -1 /\ m[p].links = {}
  BY InsertedMap
<1> HIDE DEF m
<1>s. /\ settings' = m /\ p \notin DOMAIN settings /\ keepers
      /\ stale' = stale \union Settings!Live
      /\ UNCHANGED <<published, lastSerial, restarted, notifies, xsettings, keepers,
                     registered, calledDead>>
  BY DEF Settings!Setting, Settings!managerVars, m
<1>1. Settings!TypeOK'
  BY <1>m, <1>s DEF XSettingsIInv, Settings!TypeOK, Settings!Serials, Settings!Live, Elements
<1>2. CopyFollows'
  <2>1. \A q \in DOMAIN published : published[q].serial \in 1 .. lastSerial
    BY DEF XSettingsIInv, CopyFollows
  <2>2. lastSerial \in Nat BY DEF XSettingsIInv, Settings!TypeOK
  <2> QED BY <1>m, <1>s, <2>1, <2>2 DEF XSettingsIInv, CopyFollows
<1>3. CallbacksLinked'
  BY <1>m, <1>s DEF XSettingsIInv, CallbacksLinked, Settings!Live
<1>4. LinksLate'
  BY <1>m, <1>s DEF XSettingsIInv, LinksLate, Settings!Live
<1> QED BY <1>s, <1>1, <1>2, <1>3, <1>4 DEF XSettingsIInv

LEMMA RegisterStep ==
  ASSUME XSettingsIInv, NEW p \in SettingNames, NEW c \in Subscribers,
         Settings!RegisterCallbackForProperty(c, p)
  PROVE  XSettingsIInv'
<1> DEFINE m == Settings!Inserted(settings, p)
<1>m. /\ DOMAIN m = DOMAIN settings \union {p}
      /\ \A q \in DOMAIN m : m[q] \in Elements
      /\ \A q \in DOMAIN settings : m[q] = settings[q]
      /\ p \notin DOMAIN settings =>
           m[p].value = -1 /\ m[p].serial = -1 /\ m[p].links = {}
      /\ m[p] = Settings!Element(settings, p)
  BY InsertedMap
<1>e. settings' = [m EXCEPT ![p].links = @ \union {c}]
  BY DEF Settings!RegisterCallbackForProperty
<1> HIDE DEF m
<1>s. /\ DOMAIN settings' = DOMAIN m /\ p \in DOMAIN m
      /\ \A q \in DOMAIN m : q # p => settings'[q] = m[q]
      /\ settings'[p] \in Elements
      /\ settings'[p].value = m[p].value /\ settings'[p].serial = m[p].serial
      /\ settings'[p].links = m[p].links \union {c}
  BY <1>e, <1>m DEF Elements
<1>r. /\ keepers /\ c \notin DOMAIN registered
      /\ DOMAIN registered' = DOMAIN registered \union {c}
      /\ registered'[c] = [name |-> p, known |-> m[p].value]
      /\ \A x \in DOMAIN registered : registered'[x] = registered[x]
      /\ stale' = (IF p \in DOMAIN settings THEN stale ELSE stale \union DOMAIN registered) \ {c}
      /\ calledDead' = calledDead \ {c}
      /\ UNCHANGED <<published, lastSerial, restarted, notifies, xsettings, keepers>>
  BY <1>m DEF Settings!RegisterCallbackForProperty, Settings!managerVars, Settings!Live
<1>1. Settings!TypeOK'
  <2>1. /\ DOMAIN settings' \subseteq SettingNames
        /\ \A q \in DOMAIN settings' : settings'[q] \in Elements
    BY <1>m, <1>s DEF XSettingsIInv, Settings!TypeOK
  <2>2. /\ DOMAIN registered' \subseteq Subscribers
        /\ \A x \in DOMAIN registered' : registered'[x] \in Registrations
    <3>1. registered'[c] \in Registrations
      BY <1>m, <1>s, <1>r DEF Elements, Registrations
    <3> QED BY <3>1, <1>r DEF XSettingsIInv, Settings!TypeOK, Settings!Live, Registrations
  <2>3. stale' \subseteq Subscribers /\ calledDead' \subseteq Subscribers
    BY <1>r DEF XSettingsIInv, Settings!TypeOK, Settings!Live
  <2> QED BY <2>1, <2>2, <2>3, <1>r
    DEF XSettingsIInv, Settings!TypeOK, Settings!Live, Settings!Serials, Elements, Registrations
<1>2. CopyFollows'
  <2>1. \A q \in DOMAIN published : published[q].serial \in 1 .. lastSerial
    BY DEF XSettingsIInv, CopyFollows
  <2>2. lastSerial \in Nat BY DEF XSettingsIInv, Settings!TypeOK
  <2>3. \A q \in DOMAIN settings' :
          settings'[q].value = m[q].value /\ settings'[q].serial = m[q].serial
    BY <1>s
  <2> QED BY <1>m, <1>s, <1>r, <2>1, <2>2, <2>3 DEF XSettingsIInv, CopyFollows
<1>3. CallbacksLinked'
  <2>1. \A q \in DOMAIN settings :
          /\ q \in DOMAIN settings' /\ settings'[q].value = settings[q].value
          /\ settings[q].links \subseteq settings'[q].links
    BY <1>m, <1>s
  <2>2. ASSUME NEW x \in DOMAIN registered
        PROVE  /\ registered'[x].name \in DOMAIN settings'
               /\ x \in settings'[registered'[x].name].links
               /\ registered'[x].known = settings'[registered'[x].name].value
    BY <2>1, <2>2, <1>r DEF XSettingsIInv, CallbacksLinked, Settings!Live
  <2> QED BY <2>2, <1>s, <1>r DEF CallbacksLinked, Settings!Live
<1>4. LinksLate'
  <2>1. ASSUME NEW q \in DOMAIN settings'
        PROVE  settings'[q].links \ DOMAIN registered' \subseteq stale'
    <3>1. settings'[q].links \subseteq m[q].links \union {c} BY <1>s, <2>1
    <3>2. m[q].links \ DOMAIN registered \subseteq stale
      BY <1>m, <1>s, <2>1 DEF XSettingsIInv, LinksLate, Settings!Live
    <3> QED BY <3>1, <3>2, <1>r
  <2> QED BY <2>1 DEF LinksLate, Settings!Live
<1> QED BY <1>r, <1>s, <1>1, <1>2, <1>3, <1>4 DEF XSettingsIInv

LEMMA UnregisterStep ==
  ASSUME XSettingsIInv, NEW c \in Subscribers, Settings!Unregister(c)
  PROVE  XSettingsIInv'
<1>u. /\ c \in DOMAIN registered
      /\ DOMAIN registered' = DOMAIN registered \ {c}
      /\ \A x \in DOMAIN registered' : registered'[x] = registered[x]
      /\ UNCHANGED <<published, lastSerial, restarted, keepers, stale, calledDead>>
  BY DEF Settings!Unregister, Settings!managerVars, Settings!Live
<1>1. CASE ~keepers /\ Settings!Live = {c}
  BY <1>1, <1>u, FreedAll, NothingThere
  DEF Settings!Unregister, Settings!Freed, Settings!Live, XSettingsIInv, Settings!TypeOK
<1>2. CASE keepers \/ Settings!Live # {c}
  <2>1. /\ Settings!Erase(c) /\ UNCHANGED <<xsettings, notifies>>
    BY <1>2 DEF Settings!Unregister, Settings!Erase
  <2>2. /\ DOMAIN settings' = DOMAIN settings
        /\ \A p \in DOMAIN settings :
             /\ settings'[p] \in Elements
             /\ settings'[p].value = settings[p].value
             /\ settings'[p].serial = settings[p].serial
             /\ settings'[p].links \subseteq settings[p].links
             /\ settings[p].links \ {c} \subseteq settings'[p].links
             /\ c \in settings'[p].links => c \in stale
    <3> DEFINE erased == [p \in DOMAIN settings |-> [settings[p] EXCEPT !.links = @ \ {c}]]
    <3>1. \A p \in DOMAIN settings : settings[p] \in Elements
      BY DEF XSettingsIInv, Settings!TypeOK, Elements
    <3>2. \A p \in DOMAIN settings :
            /\ erased[p] \in Elements
            /\ erased[p].value = settings[p].value /\ erased[p].serial = settings[p].serial
            /\ erased[p].links = settings[p].links \ {c}
      BY <3>1 DEF Elements
    <3>3. settings' = erased \/ (settings' = settings /\ c \in stale)
      BY <2>1 DEF Settings!Erase
    <3>4. CASE settings' = erased
      <4>1. DOMAIN settings' = DOMAIN settings BY <3>4
      <4> HIDE DEF erased
      <4> QED BY <3>2, <3>4, <4>1
    <3>5. CASE settings' = settings /\ c \in stale BY <3>1, <3>5
    <3> QED BY <3>3, <3>4, <3>5
  <2>3. Settings!TypeOK'
    BY <1>u, <2>1, <2>2
    DEF XSettingsIInv, Settings!TypeOK, Settings!Live, Settings!Serials, Elements
  <2>4. CopyFollows'
    BY <1>u, <2>1, <2>2 DEF XSettingsIInv, CopyFollows
  <2>5. CallbacksLinked'
    BY <1>u, <2>2 DEF XSettingsIInv, CallbacksLinked, Settings!Live
  <2>6. LinksLate'
    BY <1>u, <2>2 DEF XSettingsIInv, LinksLate, Settings!Live
  <2>7. xsettings' = "none" => ~keepers' /\ Settings!Live' = {} /\ DOMAIN settings' = {}
    BY <1>u, <2>1, <2>2 DEF XSettingsIInv, Settings!Live
  <2> QED BY <1>u, <2>3, <2>4, <2>5, <2>6, <2>7 DEF XSettingsIInv
<1> QED BY <1>1, <1>2

\* What the manager does leaves the copy behind, but says so.
LEMMA ManagerStep ==
  ASSUME XSettingsIInv,
         \/ \E p \in SettingNames : Settings!Publish(p) \/ Settings!Withdraw(p)
         \/ Settings!Restart
  PROVE  XSettingsIInv'
<1>t. Settings!TypeOK /\ CopyFollows BY DEF XSettingsIInv
<1>1. ASSUME NEW p \in SettingNames, Settings!Publish(p) PROVE XSettingsIInv'
  <2>1. /\ lastSerial' = lastSerial + 1 /\ lastSerial' \in 1 .. MaxSerial
        /\ UNCHANGED <<restarted, xsettings, keepers, settings, registered, stale, calledDead>>
        /\ notifies' \in 0 .. MaxNotifies
        /\ xsettings = "initialized" => notifies' > 0
    BY <1>1, <1>t, DesktopAssumption DEF Settings!Publish, Settings!Notify, Settings!TypeOK
  <2>2. /\ DOMAIN published' = DOMAIN published \union {p}
        /\ published'[p].value = lastSerial' /\ published'[p].serial = lastSerial'
        /\ published'[p] \in Published
        /\ \A q \in DOMAIN published : q # p => published'[q] = published[q]
    BY <1>1, <2>1 DEF Settings!Publish, Published, Settings!Serials, Settings!Unset
  <2>3. Settings!TypeOK'
    BY <1>t, <2>1, <2>2 DEF Settings!TypeOK, Published, Settings!Serials, Settings!Live
  <2>4. CopyFollows'
    <3>1. /\ lastSerial \in Nat
          /\ \A q \in DOMAIN settings : settings[q].serial \in Int
      BY <1>t DEF Settings!TypeOK, Settings!Serials, Settings!Unset
    <3>2. \A q \in DOMAIN published' :
            published'[q].value = published'[q].serial /\ published'[q].serial \in 1 .. lastSerial'
      BY <1>t, <2>1, <2>2, <3>1 DEF CopyFollows
    <3>3. ASSUME xsettings = "initialized"
          PROVE  /\ \A q \in DOMAIN settings :
                      settings[q].value = settings[q].serial /\ settings[q].serial <= lastSerial'
                 /\ \A q \in DOMAIN published' :
                      q \in DOMAIN settings => settings[q].serial <= published'[q].serial
      BY <1>t, <2>1, <2>2, <3>1, <3>3 DEF CopyFollows
    <3> QED BY <2>1, <3>2, <3>3 DEF CopyFollows
  <2> QED BY <2>1, <2>3, <2>4
    DEF XSettingsIInv, CallbacksLinked, LinksLate, Settings!Live
<1>2. ASSUME NEW p \in SettingNames, Settings!Withdraw(p) PROVE XSettingsIInv'
  <2>1. /\ UNCHANGED <<lastSerial, restarted, xsettings, keepers, settings, registered,
                       stale, calledDead>>
        /\ notifies' \in 0 .. MaxNotifies
        /\ xsettings = "initialized" => notifies' > 0
    BY <1>2, <1>t, DesktopAssumption DEF Settings!Withdraw, Settings!Notify, Settings!TypeOK
  <2>2. /\ DOMAIN published' \subseteq DOMAIN published
        /\ \A q \in DOMAIN published' : published'[q] = published[q]
    BY <1>2 DEF Settings!Withdraw
  <2>3. Settings!TypeOK'
    BY <1>t, <2>1, <2>2 DEF Settings!TypeOK, Settings!Serials, Settings!Live
  <2>4. CopyFollows' BY <1>t, <2>1, <2>2 DEF CopyFollows
  <2> QED BY <2>1, <2>3, <2>4
    DEF XSettingsIInv, CallbacksLinked, LinksLate, Settings!Live
<1>3. CASE Settings!Restart
  <2>1. DOMAIN published' = {} BY <1>3, NothingThere DEF Settings!Restart
  <2> QED BY <1>3, <1>t, <2>1, DesktopAssumption
    DEF Settings!Restart, XSettingsIInv, Settings!TypeOK, Settings!Serials, Settings!Live,
        CopyFollows, CallbacksLinked, LinksLate
<1> QED BY <1>1, <1>2, <1>3

LEMMA NextXSettings == XSettingsIInv /\ [Settings!Next]_xsettingsVars => XSettingsIInv'
<1> SUFFICES ASSUME XSettingsIInv, [Settings!Next]_xsettingsVars PROVE XSettingsIInv' OBVIOUS
<1>1. CASE UNCHANGED xsettingsVars
  BY <1>1
  DEF xsettingsVars, XSettingsIInv, Settings!TypeOK, Settings!Serials, Settings!Live,
      CopyFollows, CallbacksLinked, LinksLate
<1>2. CASE Settings!Next
  BY <1>2, InstanceStep, PropertyNotifyStep, DropStep, SettingStep, RegisterStep,
     UnregisterStep, ManagerStep DEF Settings!Next
<1> QED BY <1>1, <1>2

LEMMA XSettingsKnown ==
  XSettingsIInv => /\ Settings!TypeOK /\ Settings!SettingsFollow /\ Settings!CallbacksKnow
                   /\ Settings!NoDeadCallback
BY DEF XSettingsIInv, CopyFollows, CallbacksLinked, Settings!SettingsFollow,
   Settings!CallbacksKnow, Settings!NoDeadCallback

-----------------------------------------------------------------------------
(* SystemWatchers: what was heard last, and what is on its way *)

\* What a watcher will have heard once it reads its signals, if it has v.
LastHeard(signals, v) == IF signals = <<>> THEN v ELSE signals[Len(signals)]

ServiceOn == service.owned /\ service.enabled
Modes == {"x11", "qt", "always", "win"}
MakingStages == {"none", "making", "ready", "failed"}

\* The state is the one of the proxy, which will have heard what the service has;
\* without a proxy a change was missed, is on its way, or there is no service.
ScreenIInv ==
  /\ mode \in Modes /\ serviceWatcher \in MakingStages
  /\ service \in [owned : BOOLEAN, enabled : BOOLEAN]
  /\ status \in [on : BOOLEAN, none : BOOLEAN]
  /\ statusSignals \in Seq(BOOLEAN) /\ ownerSignals \in 0 .. MaxSignals
  /\ _isActive \in BOOLEAN /\ missed \in BOOLEAN
  /\ mode # "x11" => serviceWatcher = "none"
  /\ serviceWatcher = "none" => status.none /\ ownerSignals = 0
  /\ mode = "qt" => _isActive = service.enabled
  /\ mode = "always" => _isActive
  /\ status.none => ~status.on /\ statusSignals = <<>>
  /\ serviceWatcher # "none" =>
       /\ _isActive = status.on
       /\ ~status.none => LastHeard(statusSignals, status.on) = ServiceOn
       /\ status.none /\ ~missed /\ ownerSignals = 0 /\ serviceWatcher # "failed"
            => ~service.owned

\* A check that counts is on its way exactly while one is awaited, and a timer
\* or a check waits only while accessibility is active.
CheckIInv ==
  /\ {_qaccessibleActive, reader, _checking, _timer} \subseteq BOOLEAN
  /\ _checkGeneration \in 0 .. MaxGenerations
  /\ checks \subseteq [generation : 0 .. MaxGenerations,
                       found : {Watchers!NotYet, "found", "no"}]
  /\ mode # "win" => checks = {} /\ ~_timer /\ ~_checking /\ ~_qaccessibleActive
  /\ mode = "win" /\ _isActive => _qaccessibleActive
  /\ _qaccessibleActive <=> _checking \/ _timer
  /\ \A c \in checks : c.generation <= _checkGeneration
  /\ _checking <=> \E c \in checks : c.generation = _checkGeneration
  /\ \A c, d \in checks :
       c.generation = _checkGeneration /\ d.generation = _checkGeneration => c = d

\* A setting is heard of once the watcher is ready, and read when it is made.
SettingIInv ==
  /\ settingWatcher \in MakingStages /\ settingSignals \in Seq(BOOLEAN)
  /\ setting \in BOOLEAN /\ known \in BOOLEAN /\ settingMissed \in BOOLEAN
  /\ settingWatcher # "ready" => settingSignals = <<>>
  /\ settingWatcher # "none" /\ ~settingMissed => LastHeard(settingSignals, known) = setting

Batteries == [saver : BOOLEAN, present : BOOLEAN, draining : BOOLEAN, critical : BOOLEAN,
              low : BOOLEAN]

\* With no signal to read, what a thread read and did not assign is what there is,
\* and so is the value if no thread has read.
PowerIInv ==
  /\ platform \in {"linux", "win", "mac"} /\ battery \in Batteries
  /\ powerSignals \in 0 .. MaxSignals /\ threadSignals \in 0 .. MaxSignals
  /\ observed \in BOOLEAN /\ raced \in BOOLEAN
  /\ _value \in {"unknown", "on", "off"} /\ reading \in {"unknown", "on", "off"}
  /\ platform # "mac" => threadSignals = 0
  /\ ~observed => _value = "unknown" /\ reading = "unknown"
  /\ powerSignals = 0 /\ threadSignals = 0 /\ ~raced =>
       Watchers!Enabled = (IF reading = "unknown" THEN _value ELSE reading)

WatchersIInv == ScreenIInv /\ CheckIInv /\ SettingIInv /\ PowerIInv

LEMMA HeardAppended ==
  ASSUME NEW q \in Seq(BOOLEAN), NEW v \in BOOLEAN, NEW x \in BOOLEAN
  PROVE  /\ Append(q, x) \in Seq(BOOLEAN) /\ Append(q, x) # <<>>
         /\ LastHeard(Append(q, x), v) = x
BY AppendProperties DEF LastHeard

LEMMA HeardRead ==
  ASSUME NEW q \in Seq(BOOLEAN), q # <<>>, NEW v \in BOOLEAN
  PROVE  /\ Head(q) \in BOOLEAN /\ Tail(q) \in Seq(BOOLEAN)
         /\ LastHeard(Tail(q), Head(q)) = LastHeard(q, v)
<1> DEFINE t == Tail(q)
           h == Head(q)
<1>1. /\ h \in BOOLEAN /\ t \in Seq(BOOLEAN) /\ Len(t) = Len(q) - 1
      /\ \A i \in 1 .. Len(t) : t[i] = q[i + 1]
      /\ h = q[1] /\ Len(q) \in Nat /\ Len(q) # 0
  BY HeadTailProperties, EmptySeq, LenProperties
<1> HIDE DEF t, h
<1>e. t = <<>> <=> Len(t) = 0 BY <1>1, EmptySeq, LenProperties
<1>2. t = <<>> <=> Len(q) = 1 BY <1>1, <1>e
<1>3. LastHeard(q, v) = q[Len(q)] BY DEF LastHeard
<1>4. LastHeard(t, h) = q[Len(q)]
  <2>1. CASE t = <<>> BY <1>1, <1>2, <2>1 DEF LastHeard
  <2>2. CASE t # <<>>
    <3>1. Len(t) \in 1 .. Len(t) /\ Len(t) + 1 = Len(q) BY <1>1, <1>2, <2>2
    <3>2. LastHeard(t, h) = t[Len(t)] BY <2>2 DEF LastHeard
    <3> QED BY <1>1, <3>1, <3>2
  <2> QED BY <2>1, <2>2
<1> QED BY <1>1, <1>3, <1>4 DEF t, h

\* A proxy is made for a service, and reads what it has, or is not.
LEMMA Refreshed ==
  ASSUME ScreenIInv, Watchers!Refresh
  PROVE  /\ status' \in [on : BOOLEAN, none : BOOLEAN] /\ statusSignals' = <<>>
         /\ missed' \in BOOLEAN
         /\ status'.none => ~status'.on /\ (missed' \/ ~service.owned)
         /\ ~status'.none => service.owned /\ status'.on = service.enabled
<1> DEFINE noStatus == [on |-> FALSE, none |-> TRUE]
<1>1. /\ status' = noStatus \/ (service.owned /\ status' = [on |-> service.enabled, none |-> FALSE])
      /\ statusSignals' = <<>> /\ missed' = (service.owned /\ status' = noStatus)
  BY DEF Watchers!Refresh, Watchers!Status, Watchers!NoStatus
<1>2. service.owned \in BOOLEAN /\ service.enabled \in BOOLEAN BY DEF ScreenIInv
<1>3. CASE status' = noStatus BY <1>1, <1>2, <1>3
<1>4. CASE service.owned /\ status' = [on |-> service.enabled, none |-> FALSE]
  <2>1. status' # noStatus /\ ~status'.none /\ status'.on = service.enabled BY <1>4
  <2>2. status' \in [on : BOOLEAN, none : BOOLEAN] BY <1>2, <1>4
  <2> QED BY <1>1, <1>4, <2>1, <2>2
<1> QED BY <1>1, <1>3, <1>4

\* Whatever was missed, the state is what the proxy has read, if there is one.
LEMMA RefreshKnown ==
  ASSUME ScreenIInv, Watchers!Refresh, mode = "x11", UNCHANGED <<mode, service>>,
         serviceWatcher' \in MakingStages \ {"none"}, ownerSignals' \in 0 .. MaxSignals,
         _isActive' = status'.on
  PROVE  ScreenIInv'
<1>1. /\ status' \in [on : BOOLEAN, none : BOOLEAN] /\ statusSignals' = <<>>
      /\ missed' \in BOOLEAN
      /\ status'.none => ~status'.on /\ (missed' \/ ~service.owned)
      /\ ~status'.none => service.owned /\ status'.on = service.enabled
  BY Refreshed
<1>2. statusSignals' \in Seq(BOOLEAN) /\ _isActive' \in BOOLEAN BY <1>1, EmptySeq
<1>3. ~status'.none => LastHeard(statusSignals', status'.on) = ServiceOn'
  <2>1. LastHeard(statusSignals', status'.on) = status'.on BY <1>1 DEF LastHeard
  <2> QED BY <1>1, <2>1 DEF ScreenIInv, ServiceOn
<1> QED BY <1>1, <1>2, <1>3 DEF ScreenIInv

\* Steps that leave the checks, or those that no check comes with.
LEMMA NoChecks ==
  ASSUME CheckIInv, mode' = mode, UNCHANGED Watchers!checkVars, mode # "win" \/ _isActive' = _isActive
  PROVE  CheckIInv'
BY DEF CheckIInv, Watchers!checkVars

LEMMA ConstructStep == ScreenIInv /\ CheckIInv /\ Watchers!Construct => ScreenIInv' /\ CheckIInv'
<1> SUFFICES ASSUME ScreenIInv, CheckIInv, Watchers!Construct PROVE ScreenIInv' /\ CheckIInv'
  OBVIOUS
<1>1. /\ Watchers!Refresh /\ mode = "x11" /\ serviceWatcher = "none"
      /\ serviceWatcher' = "making" /\ _isActive' = status'.on
      /\ UNCHANGED <<mode, service, ownerSignals, Watchers!checkVars>>
  BY DEF Watchers!Construct, Watchers!checkVars
<1>2. CheckIInv' BY <1>1, NoChecks
<1>3. ownerSignals' \in 0 .. MaxSignals BY <1>1 DEF ScreenIInv
<1> QED BY <1>1, <1>2, <1>3, RefreshKnown DEF MakingStages

LEMMA ServiceWatcherMadeStep ==
  ScreenIInv /\ CheckIInv /\ Watchers!ServiceWatcherMade => ScreenIInv' /\ CheckIInv'
<1> SUFFICES ASSUME ScreenIInv, CheckIInv, Watchers!ServiceWatcherMade
             PROVE  ScreenIInv' /\ CheckIInv'
  OBVIOUS
<1>1. /\ serviceWatcher = "making" /\ serviceWatcher' \in {"ready", "failed"}
      /\ UNCHANGED <<mode, service, ownerSignals, status, statusSignals, _isActive, missed,
                     Watchers!checkVars>>
  BY DEF Watchers!ServiceWatcherMade, Watchers!checkVars
<1>2. CheckIInv' BY <1>1, NoChecks
<1> QED BY <1>1, <1>2 DEF ScreenIInv, ServiceOn, MakingStages

\* A proxy that is there hears of the change, and without one the change is
\* signalled or missed.
LEMMA OwnerChangesStep ==
  ScreenIInv /\ CheckIInv /\ Watchers!OwnerChanges => ScreenIInv' /\ CheckIInv'
<1> SUFFICES ASSUME ScreenIInv, CheckIInv, Watchers!OwnerChanges
             PROVE  ScreenIInv' /\ CheckIInv'
  OBVIOUS
<1> DEFINE serves == service'.owned /\ service'.enabled
<1>1. /\ mode \in {"x11", "always"} /\ ownerSignals < MaxSignals
      /\ service' \in [owned : BOOLEAN, enabled : BOOLEAN]
      /\ IF serviceWatcher = "ready"
         THEN ownerSignals' = ownerSignals + 1 /\ missed' = missed
         ELSE /\ missed' = (missed \/ (serviceWatcher # "none" /\ status.none))
              /\ ownerSignals' = ownerSignals
      /\ statusSignals' = IF status.none THEN statusSignals ELSE Append(statusSignals, serves)
      /\ UNCHANGED <<mode, serviceWatcher, status, _isActive, Watchers!checkVars>>
  BY DEF Watchers!OwnerChanges, Watchers!checkVars
<1>2. CheckIInv' BY <1>1, NoChecks
<1>3. serves \in BOOLEAN /\ serves = ServiceOn' BY <1>1 DEF ServiceOn
<1> HIDE DEF serves
<1>4. /\ statusSignals' \in Seq(BOOLEAN)
      /\ ~status.none => LastHeard(statusSignals', status.on) = ServiceOn'
  BY <1>1, <1>3, HeardAppended DEF ScreenIInv
<1>5. ownerSignals' \in 0 .. MaxSignals /\ missed' \in BOOLEAN
  BY <1>1, DesktopAssumption DEF ScreenIInv
<1>6. /\ serviceWatcher = "none" => ownerSignals' = 0
      /\ status.none => statusSignals' = <<>>
      /\ serviceWatcher # "none" /\ status.none /\ ~missed' /\ serviceWatcher # "failed"
           => ownerSignals' > 0
  BY <1>1, DesktopAssumption DEF ScreenIInv, MakingStages
<1> QED BY <1>1, <1>2, <1>4, <1>5, <1>6 DEF ScreenIInv, MakingStages

LEMMA EnabledChangesStep ==
  ScreenIInv /\ CheckIInv /\ Watchers!EnabledChanges => ScreenIInv' /\ CheckIInv'
<1> SUFFICES ASSUME ScreenIInv, CheckIInv, Watchers!EnabledChanges
             PROVE  ScreenIInv' /\ CheckIInv'
  OBVIOUS
<1>1. /\ mode \in {"x11", "always"} /\ service.owned
      /\ service' = [service EXCEPT !.enabled = ~@]
      /\ statusSignals' = IF status.none THEN statusSignals
                          ELSE Append(statusSignals, service'.enabled)
      /\ UNCHANGED <<mode, serviceWatcher, ownerSignals, status, _isActive, missed, Watchers!checkVars>>
  BY DEF Watchers!EnabledChanges, Watchers!checkVars
<1>2. CheckIInv' BY <1>1, NoChecks
<1>3. /\ service' \in [owned : BOOLEAN, enabled : BOOLEAN] /\ service'.owned = service.owned
      /\ service'.enabled \in BOOLEAN
  BY <1>1 DEF ScreenIInv
<1>4. service'.enabled = ServiceOn'
  <2>1. service'.owned BY <1>1, <1>3
  <2> QED BY <2>1, <1>3 DEF ServiceOn
<1>5. /\ statusSignals' \in Seq(BOOLEAN)
      /\ ~status.none => LastHeard(statusSignals', status.on) = ServiceOn'
  BY <1>1, <1>3, <1>4, HeardAppended DEF ScreenIInv
<1> QED BY <1>1, <1>2, <1>3, <1>5 DEF ScreenIInv

LEMMA OwnerChangedStep ==
  ScreenIInv /\ CheckIInv /\ Watchers!OwnerChanged => ScreenIInv' /\ CheckIInv'
<1> SUFFICES ASSUME ScreenIInv, CheckIInv, Watchers!OwnerChanged
             PROVE  ScreenIInv' /\ CheckIInv'
  OBVIOUS
<1>1. /\ Watchers!Refresh /\ ownerSignals > 0 /\ ownerSignals' = ownerSignals - 1
      /\ _isActive' = status'.on
      /\ UNCHANGED <<mode, serviceWatcher, service, Watchers!checkVars>>
  BY DEF Watchers!OwnerChanged, Watchers!checkVars
<1>2. /\ serviceWatcher' \in MakingStages \ {"none"} /\ mode = "x11"
      /\ ownerSignals' \in 0 .. MaxSignals
  BY <1>1, DesktopAssumption DEF ScreenIInv
<1>3. CheckIInv' BY <1>1, <1>2, NoChecks
<1> QED BY <1>1, <1>2, <1>3, RefreshKnown

LEMMA StatusChangedStep ==
  ScreenIInv /\ CheckIInv /\ Watchers!StatusChanged => ScreenIInv' /\ CheckIInv'
<1> SUFFICES ASSUME ScreenIInv, CheckIInv, Watchers!StatusChanged
             PROVE  ScreenIInv' /\ CheckIInv'
  OBVIOUS
<1> DEFINE h == Head(statusSignals)
<1>1. /\ statusSignals # <<>> /\ statusSignals' = Tail(statusSignals)
      /\ status' = [on |-> h, none |-> FALSE] /\ _isActive' = status'.on
      /\ UNCHANGED <<mode, serviceWatcher, service, ownerSignals, missed, Watchers!checkVars>>
  BY DEF Watchers!StatusChanged, Watchers!Status, Watchers!checkVars
<1>2. ~status.none /\ serviceWatcher # "none" /\ mode = "x11"
  BY <1>1 DEF ScreenIInv
<1>3. /\ h \in BOOLEAN /\ statusSignals' \in Seq(BOOLEAN)
      /\ LastHeard(statusSignals', h) = LastHeard(statusSignals, status.on)
  BY <1>1, HeardRead DEF ScreenIInv
<1> HIDE DEF h
<1>4. /\ status' \in [on : BOOLEAN, none : BOOLEAN] /\ status'.on = h /\ ~status'.none
  BY <1>1, <1>3
<1>5. LastHeard(statusSignals', status'.on) = ServiceOn'
  BY <1>1, <1>2, <1>3, <1>4 DEF ScreenIInv, ServiceOn
<1>6. CheckIInv' BY <1>1, <1>2, NoChecks
<1> QED BY <1>1, <1>2, <1>3, <1>4, <1>5, <1>6 DEF ScreenIInv

LEMMA AccessibilityStep ==
  ScreenIInv /\ CheckIInv /\ Watchers!AccessibilityActiveChanged => ScreenIInv' /\ CheckIInv'
<1> SUFFICES ASSUME ScreenIInv, CheckIInv, Watchers!AccessibilityActiveChanged
             PROVE  ScreenIInv' /\ CheckIInv'
  OBVIOUS
<1>1. /\ mode = "qt" /\ service' = [service EXCEPT !.enabled = ~@]
      /\ _isActive' = service'.enabled
      /\ UNCHANGED <<mode, serviceWatcher, ownerSignals, status, statusSignals, missed, Watchers!checkVars>>
  BY DEF Watchers!AccessibilityActiveChanged, Watchers!checkVars
<1>2. CheckIInv' BY <1>1, NoChecks
<1>3. service' \in [owned : BOOLEAN, enabled : BOOLEAN] /\ service'.enabled \in BOOLEAN
  BY <1>1 DEF ScreenIInv
<1> QED BY <1>1, <1>2, <1>3 DEF ScreenIInv

-----------------------------------------------------------------------------
(* SystemWatchers: the processes of Windows *)

\* What the checks do changes nothing else of screen readers.
LEMMA ChecksAlone ==
  ASSUME ScreenIInv, mode = "win" \/ _isActive' = _isActive, _isActive' \in BOOLEAN,
         UNCHANGED <<mode, serviceWatcher, service, ownerSignals, status, statusSignals, missed>>
  PROVE  ScreenIInv'
BY DEF ScreenIInv, ServiceOn

\* A check is begun unless one is awaited.
LEMMA StartCheckStep ==
  ASSUME CheckIInv, Watchers!StartCheck(_checkGeneration), mode = "win",
         UNCHANGED <<mode, _isActive, reader, _checkGeneration>>,
         _qaccessibleActive' = TRUE, _timer' \in BOOLEAN
  PROVE  CheckIInv'
<1> DEFINE c == [generation |-> _checkGeneration, found |-> Watchers!NotYet]
<1>1. /\ _checking' = TRUE
      /\ checks' = IF _checking THEN checks ELSE checks \union {c}
  BY DEF Watchers!StartCheck
<1>2. /\ c \in [generation : 0 .. MaxGenerations, found : {Watchers!NotYet, "found", "no"}]
      /\ c.generation = _checkGeneration
  BY DEF CheckIInv
<1> HIDE DEF c
<1>3. _checkGeneration \in Nat BY DesktopAssumption DEF CheckIInv
<1> QED BY <1>1, <1>2, <1>3 DEF CheckIInv

LEMMA ActivatedStep ==
  ScreenIInv /\ CheckIInv /\ Watchers!Activated => ScreenIInv' /\ CheckIInv'
<1> SUFFICES ASSUME ScreenIInv, CheckIInv, Watchers!Activated PROVE ScreenIInv' /\ CheckIInv'
  OBVIOUS
<1>1. /\ mode = "win" /\ _qaccessibleActive' = TRUE /\ Watchers!StartCheck(_checkGeneration)
      /\ UNCHANGED <<mode, serviceWatcher, service, ownerSignals, status, statusSignals, missed,
                     _isActive, reader, _timer, _checkGeneration>>
  BY DEF Watchers!Activated, Watchers!screenVars
<1>2. _timer' \in BOOLEAN /\ _isActive' \in BOOLEAN BY <1>1 DEF CheckIInv, ScreenIInv
<1> QED BY <1>1, <1>2, StartCheckStep, ChecksAlone

LEMMA CheckTimerStep ==
  ScreenIInv /\ CheckIInv /\ Watchers!CheckTimerFires => ScreenIInv' /\ CheckIInv'
<1> SUFFICES ASSUME ScreenIInv, CheckIInv, Watchers!CheckTimerFires
             PROVE  ScreenIInv' /\ CheckIInv'
  OBVIOUS
<1>1. /\ _timer /\ _timer' = FALSE /\ Watchers!StartCheck(_checkGeneration)
      /\ UNCHANGED <<mode, serviceWatcher, service, ownerSignals, status, statusSignals, missed,
                     _isActive, reader, _qaccessibleActive, _checkGeneration>>
  BY DEF Watchers!CheckTimerFires, Watchers!screenVars
<1>2. mode = "win" /\ _qaccessibleActive' = TRUE /\ _isActive' \in BOOLEAN
  BY <1>1 DEF CheckIInv, ScreenIInv
<1> QED BY <1>1, <1>2, StartCheckStep, ChecksAlone

\* No check of an earlier generation counts.
LEMMA DeactivatedStep ==
  ScreenIInv /\ CheckIInv /\ Watchers!Deactivated => ScreenIInv' /\ CheckIInv'
<1> SUFFICES ASSUME ScreenIInv, CheckIInv, Watchers!Deactivated
             PROVE  ScreenIInv' /\ CheckIInv'
  OBVIOUS
<1>1. /\ mode = "win" /\ _checkGeneration < MaxGenerations
      /\ _qaccessibleActive' = FALSE /\ _timer' = FALSE
      /\ _checkGeneration' = _checkGeneration + 1
      /\ _checking' = FALSE /\ _isActive' = FALSE
      /\ UNCHANGED <<mode, serviceWatcher, service, ownerSignals, status, statusSignals, missed,
                     reader, checks>>
  BY DEF Watchers!Deactivated
<1>2. ScreenIInv' BY <1>1, ChecksAlone
<1>3. /\ _checkGeneration \in Nat /\ _checkGeneration' \in 0 .. MaxGenerations
      /\ \A c \in checks : c.generation \in Nat /\ c.generation <= _checkGeneration
  BY <1>1, DesktopAssumption DEF CheckIInv
<1>4. \A c \in checks : c.generation <= _checkGeneration' /\ c.generation # _checkGeneration'
  BY <1>1, <1>3
<1> QED BY <1>1, <1>2, <1>3, <1>4 DEF CheckIInv

LEMMA FindStep ==
  ASSUME ScreenIInv, CheckIInv, NEW c \in checks, Watchers!FindRunningReader(c)
  PROVE  ScreenIInv' /\ CheckIInv'
<1> DEFINE d == [c EXCEPT !.found = IF reader THEN "found" ELSE "no"]
<1>1. /\ checks' = (checks \ {c}) \union {d}
      /\ UNCHANGED <<mode, serviceWatcher, service, ownerSignals, status, statusSignals, missed,
                     _isActive, _qaccessibleActive, reader, _checking, _timer, _checkGeneration>>
  BY DEF Watchers!FindRunningReader, Watchers!screenVars
<1>2. /\ d \in [generation : 0 .. MaxGenerations, found : {Watchers!NotYet, "found", "no"}]
      /\ d.generation = c.generation
  BY DEF CheckIInv
<1> HIDE DEF d
<1>3. ScreenIInv' BY <1>1, ChecksAlone DEF ScreenIInv
<1> QED BY <1>1, <1>2, <1>3 DEF CheckIInv

LEMMA AnswerStep ==
  ASSUME ScreenIInv, CheckIInv, NEW c \in checks, Watchers!Answer(c)
  PROVE  ScreenIInv' /\ CheckIInv'
<1>1. /\ checks' = checks \ {c}
      /\ IF c.generation # _checkGeneration THEN UNCHANGED <<_timer, _checking, _isActive>>
         ELSE /\ _timer' = (_timer \/ _qaccessibleActive)
              /\ _checking' = FALSE /\ _isActive' = (c.found = "found")
      /\ UNCHANGED <<mode, serviceWatcher, service, ownerSignals, status, statusSignals, missed,
                     _qaccessibleActive, reader, _checkGeneration>>
  BY DEF Watchers!Answer
<1>2. mode = "win" /\ _isActive' \in BOOLEAN BY <1>1 DEF CheckIInv, ScreenIInv
<1>3. ScreenIInv' BY <1>1, <1>2, ChecksAlone
<1>4. CASE c.generation # _checkGeneration
  BY <1>1, <1>3, <1>4 DEF CheckIInv
<1>5. CASE c.generation = _checkGeneration
  <2>1. _checking /\ _qaccessibleActive BY <1>5 DEF CheckIInv
  <2>2. \A e \in checks' : e.generation # _checkGeneration BY <1>1, <1>5 DEF CheckIInv
  <2> QED BY <1>1, <1>2, <1>3, <1>5, <2>1, <2>2 DEF CheckIInv
<1> QED BY <1>4, <1>5

LEMMA ReaderChangesStep ==
  ScreenIInv /\ CheckIInv /\ Watchers!ReaderChanges => ScreenIInv' /\ CheckIInv'
<1> SUFFICES ASSUME ScreenIInv, CheckIInv, Watchers!ReaderChanges
             PROVE  ScreenIInv' /\ CheckIInv'
  OBVIOUS
<1>1. /\ reader' = ~reader
      /\ UNCHANGED <<mode, serviceWatcher, service, ownerSignals, status, statusSignals, missed,
                     _isActive, _qaccessibleActive, _checking, _timer, _checkGeneration, checks>>
  BY DEF Watchers!ReaderChanges, Watchers!screenVars
<1>2. ScreenIInv' BY <1>1, ChecksAlone DEF ScreenIInv
<1> QED BY <1>1, <1>2 DEF CheckIInv

-----------------------------------------------------------------------------
(* SystemWatchers: a setting of the desktop *)

LEMMA SettingSteps ==
  ASSUME SettingIInv,
         \/ Watchers!SettingWatcher \/ Watchers!SettingWatcherMade
         \/ Watchers!SettingChanges \/ Watchers!SettingChanged
  PROVE  SettingIInv'
<1>1. CASE Watchers!SettingWatcher
  BY <1>1 DEF Watchers!SettingWatcher, SettingIInv, LastHeard, MakingStages
<1>2. CASE Watchers!SettingWatcherMade
  BY <1>2 DEF Watchers!SettingWatcherMade, SettingIInv, MakingStages
<1>3. CASE Watchers!SettingChanges
  <2>1. /\ setting' = ~setting
        /\ IF settingWatcher = "ready"
           THEN settingSignals' = Append(settingSignals, setting') /\ UNCHANGED settingMissed
           ELSE /\ settingMissed' = (settingMissed \/ settingWatcher # "none")
                /\ UNCHANGED settingSignals
        /\ UNCHANGED <<settingWatcher, known>>
    BY <1>3 DEF Watchers!SettingChanges
  <2>2. setting' \in BOOLEAN /\ settingMissed' \in BOOLEAN BY <2>1 DEF SettingIInv
  <2>3. CASE settingWatcher = "ready"
    <3>1. /\ settingSignals' \in Seq(BOOLEAN)
          /\ LastHeard(settingSignals', known) = setting'
      BY <2>1, <2>2, <2>3, HeardAppended DEF SettingIInv
    <3> QED BY <2>1, <2>2, <2>3, <3>1 DEF SettingIInv
  <2>4. CASE settingWatcher # "ready"
    BY <2>1, <2>2, <2>4 DEF SettingIInv
  <2> QED BY <2>3, <2>4
<1>4. CASE Watchers!SettingChanged
  <2>1. /\ settingSignals # <<>> /\ settingSignals' = Tail(settingSignals)
        /\ known' = Head(settingSignals)
        /\ UNCHANGED <<settingWatcher, setting, settingMissed>>
    BY <1>4 DEF Watchers!SettingChanged
  <2>2. /\ known' \in BOOLEAN /\ settingSignals' \in Seq(BOOLEAN)
        /\ LastHeard(settingSignals', known') = LastHeard(settingSignals, known)
    BY <2>1, HeardRead DEF SettingIInv
  <2> QED BY <2>1, <2>2 DEF SettingIInv
<1> QED BY <1>1, <1>2, <1>3, <1>4

-----------------------------------------------------------------------------
(* SystemWatchers: the battery saver *)

LEMMA BatteryToggled ==
  ASSUME battery \in Batteries,
         NEW f \in {"saver", "present", "draining", "critical", "low"},
         battery' = [battery EXCEPT ![f] = ~@]
  PROVE  battery' \in Batteries
<1>1. CASE f = "saver" BY <1>1 DEF Batteries
<1>2. CASE f = "present" BY <1>2 DEF Batteries
<1>3. CASE f = "draining" BY <1>3 DEF Batteries
<1>4. CASE f = "critical" BY <1>4 DEF Batteries
<1>5. CASE f = "low" BY <1>5 DEF Batteries
<1> QED BY <1>1, <1>2, <1>3, <1>4, <1>5

\* What enabled() can be: on macOS a system that is observed is known.
LEMMA EnabledIs ==
  PowerIInv => /\ Watchers!Enabled \in {"unknown", "on", "off"}
               /\ ~observed => Watchers!Enabled = "unknown"
               /\ observed /\ platform = "mac" => Watchers!Enabled # "unknown"
BY DEF PowerIInv, Watchers!Enabled, Watchers!Unknown

LEMMA PowerSteps ==
  ASSUME PowerIInv,
         \/ Watchers!BatteryChanges \/ Watchers!BatteryNotified
         \/ Watchers!ThreadReads \/ Watchers!ThreadAssigns
  PROVE  PowerIInv'
<1>e. /\ Watchers!Enabled \in {"unknown", "on", "off"}
      /\ ~observed => Watchers!Enabled = "unknown"
      /\ observed /\ platform = "mac" => Watchers!Enabled # "unknown"
  BY EnabledIs
<1>1. CASE Watchers!BatteryChanges
  <2>1. PICK f \in Watchers!Fields[platform] :
          /\ battery' = [battery EXCEPT ![f] = ~@]
          /\ IF platform = "mac" /\ f \in {"saver", "critical"}
             THEN threadSignals' = threadSignals + 1 /\ UNCHANGED powerSignals
             ELSE powerSignals' = powerSignals + 1 /\ UNCHANGED threadSignals
    BY <1>1 DEF Watchers!BatteryChanges
  <2>2. /\ powerSignals' <= MaxSignals /\ threadSignals' <= MaxSignals
        /\ UNCHANGED <<platform, observed, reading, raced, _value>>
    BY <1>1 DEF Watchers!BatteryChanges
  <2>3. f \in {"saver", "present", "draining", "critical", "low"}
    BY DEF Watchers!Fields, PowerIInv
  <2>4. battery' \in Batteries BY <2>1, <2>3, BatteryToggled DEF PowerIInv
  <2>5. /\ powerSignals' \in 0 .. MaxSignals /\ threadSignals' \in 0 .. MaxSignals
        /\ powerSignals' # 0 \/ threadSignals' # 0
        /\ platform # "mac" => threadSignals' = 0
    BY <2>1, <2>2, DesktopAssumption DEF PowerIInv
  <2> QED BY <2>2, <2>4, <2>5 DEF PowerIInv
<1>2. CASE Watchers!BatteryNotified
  <2>1. /\ powerSignals > 0 /\ powerSignals' = powerSignals - 1
        /\ IF observed THEN _value' = Watchers!Enabled ELSE UNCHANGED _value
        /\ raced' = (reading # "unknown")
        /\ UNCHANGED <<platform, observed, battery, threadSignals, reading>>
    BY <1>2 DEF Watchers!BatteryNotified, Watchers!Unknown
  <2>2. powerSignals' \in 0 .. MaxSignals BY <2>1, DesktopAssumption DEF PowerIInv
  <2>3. Watchers!Enabled' = Watchers!Enabled BY <2>1 DEF Watchers!Enabled
  <2>4. ~raced' => Watchers!Enabled' = _value' /\ reading' = "unknown"
    BY <1>e, <2>1, <2>3 DEF PowerIInv
  <2> QED BY <1>e, <2>1, <2>2, <2>4 DEF PowerIInv
<1>3. CASE Watchers!ThreadReads
  <2>1. /\ threadSignals > 0 /\ reading = "unknown" /\ threadSignals' = threadSignals - 1
        /\ IF observed THEN reading' = Watchers!Enabled ELSE UNCHANGED reading
        /\ UNCHANGED <<platform, observed, battery, powerSignals, raced, _value>>
    BY <1>3 DEF Watchers!ThreadReads, Watchers!Unknown
  <2>2. threadSignals' \in 0 .. MaxSignals /\ platform = "mac"
    BY <2>1, DesktopAssumption DEF PowerIInv
  <2>3. Watchers!Enabled' = Watchers!Enabled BY <2>1 DEF Watchers!Enabled
  <2>4. Watchers!Enabled' = (IF reading' = "unknown" THEN _value' ELSE reading')
    BY <1>e, <2>1, <2>2, <2>3 DEF PowerIInv
  <2>5. /\ reading' \in {"unknown", "on", "off"}
        /\ ~observed => reading' = "unknown"
    BY <1>e, <2>1
  <2> QED BY <2>1, <2>2, <2>4, <2>5 DEF PowerIInv
<1>4. CASE Watchers!ThreadAssigns
  <2>1. /\ reading # "unknown" /\ _value' = reading /\ reading' = "unknown"
        /\ UNCHANGED <<platform, observed, battery, powerSignals, threadSignals, raced>>
    BY <1>4 DEF Watchers!ThreadAssigns, Watchers!Unknown
  <2>2. Watchers!Enabled' = Watchers!Enabled BY <2>1 DEF Watchers!Enabled
  <2> QED BY <2>1, <2>2 DEF PowerIInv
<1> QED BY <1>1, <1>2, <1>3, <1>4

-----------------------------------------------------------------------------
(* SystemWatchers: all of them *)

LEMMA InitWatchers == Watchers!Init => WatchersIInv
<1> SUFFICES ASSUME Watchers!Init PROVE WatchersIInv OBVIOUS
<1>1. ScreenIInv
  <2>1. /\ Watchers!InitScreen /\ ~missed /\ status = [on |-> FALSE, none |-> TRUE]
        /\ ownerSignals = 0 /\ statusSignals = <<>> /\ serviceWatcher = "none"
    BY DEF Watchers!Init, Watchers!InitScreen, Watchers!NoStatus
  <2>2. /\ mode \in Modes /\ service \in [owned : BOOLEAN, enabled : BOOLEAN]
        /\ _isActive = (mode = "always" \/ (mode = "qt" /\ service.enabled))
    BY <2>1 DEF Watchers!InitScreen, Modes
  <2>3. statusSignals \in Seq(BOOLEAN) /\ ownerSignals \in 0 .. MaxSignals
    BY <2>1, EmptySeq, DesktopAssumption
  <2>4. status \in [on : BOOLEAN, none : BOOLEAN] /\ status.none /\ ~status.on
    BY <2>1
  <2>5. /\ mode = "qt" => _isActive = service.enabled
        /\ _isActive \in BOOLEAN /\ missed \in BOOLEAN
    <3>1. missed = FALSE BY DEF Watchers!Init, Watchers!InitScreen
    <3> QED BY <2>2, <3>1
  <2> QED BY <2>1, <2>2, <2>3, <2>4, <2>5 DEF ScreenIInv, MakingStages
<1>2. CheckIInv
  <2> DEFINE c == [generation |-> 0, found |-> Watchers!NotYet]
  <2>1. /\ _qaccessibleActive \in (IF mode = "win" THEN BOOLEAN ELSE {FALSE})
        /\ reader = FALSE /\ _timer = FALSE /\ _checkGeneration = 0
        /\ _checking = _qaccessibleActive /\ checks = IF _checking THEN {c} ELSE {}
    BY DEF Watchers!Init, Watchers!InitCheck
  <2>2. mode = "win" => ~_isActive
    BY DEF Watchers!Init, Watchers!InitScreen
  <2>3. /\ 0 \in 0 .. MaxGenerations /\ c.generation = 0
        /\ c \in [generation : 0 .. MaxGenerations, found : {Watchers!NotYet, "found", "no"}]
    BY DesktopAssumption
  <2> HIDE DEF c
  <2>4. CASE _checking
    <3>1. /\ mode = "win" /\ _qaccessibleActive = TRUE /\ _checking = TRUE
          /\ \A e : e \in checks <=> e = c
      BY <2>1, <2>4
    <3>2. reader = FALSE /\ _timer = FALSE /\ _checkGeneration = 0 BY <2>1
    <3>3. {_qaccessibleActive, reader, _checking, _timer} \subseteq BOOLEAN BY <3>1, <3>2
    <3>4. /\ checks \subseteq [generation : 0 .. MaxGenerations,
                               found : {Watchers!NotYet, "found", "no"}]
          /\ \A d \in checks : d.generation = 0 /\ d = c
          /\ \E d \in checks : d.generation = 0
      BY <2>3, <3>1
    <3> QED BY <2>3, <3>1, <3>2, <3>3, <3>4 DEF CheckIInv
  <2>5. CASE ~_checking
    <3>1. checks = {} /\ _qaccessibleActive = FALSE BY <2>1, <2>5
    <3> QED BY <2>1, <2>2, <2>3, <2>5, <3>1 DEF CheckIInv
  <2> QED BY <2>4, <2>5
<1>3. SettingIInv
  BY EmptySeq DEF Watchers!Init, Watchers!InitSetting, SettingIInv, MakingStages
<1>4. PowerIInv
  <2>1. Watchers!InitPower BY DEF Watchers!Init
  <2>2. /\ platform \in {"linux", "win", "mac"} /\ battery \in Batteries
        /\ powerSignals = 0 /\ threadSignals = 0 /\ observed \in BOOLEAN
        /\ raced = FALSE /\ reading = "unknown" /\ _value = Watchers!Enabled
    BY <2>1 DEF Watchers!InitPower, Watchers!Unknown, Batteries
  <2>3. /\ Watchers!Enabled \in {"unknown", "on", "off"}
        /\ ~observed => Watchers!Enabled = "unknown"
    BY DEF Watchers!Enabled, Watchers!Unknown
  <2>4. 0 \in 0 .. MaxSignals BY DesktopAssumption
  <2> QED BY <2>2, <2>3, <2>4 DEF PowerIInv
<1> QED BY <1>1, <1>2, <1>3, <1>4 DEF WatchersIInv

\* What each part changes is its own.
ScreenSteps ==
  \/ Watchers!Construct \/ Watchers!ServiceWatcherMade \/ Watchers!OwnerChanges
  \/ Watchers!EnabledChanges \/ Watchers!OwnerChanged \/ Watchers!StatusChanged
  \/ Watchers!AccessibilityActiveChanged
  \/ Watchers!Activated \/ Watchers!Deactivated \/ Watchers!CheckTimerFires
  \/ Watchers!ReaderChanges
  \/ \E c \in checks : Watchers!FindRunningReader(c) \/ Watchers!Answer(c)

LEMMA ScreenIsAlone ==
  ScreenSteps => UNCHANGED <<Watchers!settingVars, Watchers!powerVars>>
BY DEF ScreenSteps, Watchers!Construct, Watchers!ServiceWatcherMade, Watchers!OwnerChanges,
   Watchers!EnabledChanges, Watchers!OwnerChanged, Watchers!StatusChanged,
   Watchers!AccessibilityActiveChanged, Watchers!Activated, Watchers!Deactivated,
   Watchers!CheckTimerFires, Watchers!ReaderChanges, Watchers!FindRunningReader,
   Watchers!Answer

LEMMA NextWatchers == WatchersIInv /\ [Watchers!Next]_watcherVars => WatchersIInv'
<1> SUFFICES ASSUME WatchersIInv, [Watchers!Next]_watcherVars PROVE WatchersIInv' OBVIOUS
<1>s. UNCHANGED Watchers!settingVars => SettingIInv'
  BY DEF WatchersIInv, SettingIInv, Watchers!settingVars
<1>p. UNCHANGED Watchers!powerVars => PowerIInv'
  BY DEF WatchersIInv, PowerIInv, Watchers!powerVars, Watchers!Enabled
<1>r. UNCHANGED <<Watchers!screenVars, Watchers!checkVars>> => ScreenIInv' /\ CheckIInv'
  BY DEF WatchersIInv, ScreenIInv, ServiceOn, CheckIInv, Watchers!screenVars, Watchers!checkVars
<1>1. CASE UNCHANGED watcherVars
  BY <1>1, <1>s, <1>p, <1>r
  DEF WatchersIInv, watcherVars, Watchers!screenVars, Watchers!checkVars,
      Watchers!settingVars, Watchers!powerVars
<1>2. CASE ScreenSteps
  <2>1. ScreenIInv' /\ CheckIInv'
    BY <1>2, ConstructStep, ServiceWatcherMadeStep, OwnerChangesStep, EnabledChangesStep,
       OwnerChangedStep, StatusChangedStep, AccessibilityStep, ActivatedStep, DeactivatedStep,
       CheckTimerStep, ReaderChangesStep, FindStep, AnswerStep DEF ScreenSteps, WatchersIInv
  <2> QED BY <1>2, <2>1, <1>s, <1>p, ScreenIsAlone DEF WatchersIInv
<1>3. CASE \/ Watchers!SettingWatcher \/ Watchers!SettingWatcherMade
           \/ Watchers!SettingChanges \/ Watchers!SettingChanged
  <2>1. UNCHANGED <<Watchers!screenVars, Watchers!checkVars, Watchers!powerVars>>
    BY <1>3 DEF Watchers!SettingWatcher, Watchers!SettingWatcherMade, Watchers!SettingChanges,
       Watchers!SettingChanged
  <2> QED BY <1>3, <2>1, <1>p, <1>r, SettingSteps DEF WatchersIInv
<1>4. CASE \/ Watchers!BatteryChanges \/ Watchers!BatteryNotified
           \/ Watchers!ThreadReads \/ Watchers!ThreadAssigns
  <2>1. UNCHANGED <<Watchers!screenVars, Watchers!checkVars, Watchers!settingVars>>
    BY <1>4 DEF Watchers!BatteryChanges, Watchers!BatteryNotified, Watchers!ThreadReads,
       Watchers!ThreadAssigns
  <2> QED BY <1>4, <2>1, <1>s, <1>r, PowerSteps DEF WatchersIInv
<1> QED BY <1>1, <1>2, <1>3, <1>4 DEF Watchers!Next, ScreenSteps

LEMMA WatchersKnow ==
  WatchersIInv => /\ Watchers!TypeOK /\ Watchers!ScreenReaderKnown /\ Watchers!CheckingGoesOn
                  /\ Watchers!SettingKnown /\ Watchers!PowerSaverKnown
<1> SUFFICES ASSUME WatchersIInv
             PROVE  /\ Watchers!TypeOK /\ Watchers!ScreenReaderKnown
                    /\ Watchers!CheckingGoesOn /\ Watchers!SettingKnown
                    /\ Watchers!PowerSaverKnown
  OBVIOUS
<1>1. Watchers!TypeOK
  BY DEF WatchersIInv, ScreenIInv, CheckIInv, SettingIInv, PowerIInv, Watchers!TypeOK,
     Modes, MakingStages, Watchers!Unknown
<1>2. Watchers!ScreenReaderKnown
  BY DEF WatchersIInv, ScreenIInv, LastHeard, ServiceOn, Watchers!ScreenReaderKnown, Modes
<1>3. Watchers!CheckingGoesOn
  BY DEF WatchersIInv, CheckIInv, Watchers!CheckingGoesOn
<1>4. Watchers!SettingKnown
  BY DEF WatchersIInv, SettingIInv, LastHeard, Watchers!SettingKnown
<1>5. Watchers!PowerSaverKnown
  BY DEF WatchersIInv, PowerIInv, Watchers!PowerSaverKnown, Watchers!Unknown
<1> QED BY <1>1, <1>2, <1>3, <1>4, <1>5

-----------------------------------------------------------------------------
(* MCPowerSave: what follows the desktop's state, beside the blockers *)

DesktopIInv == XSettingsIInv /\ WatchersIInv

\* A step is one of the subject, the others stand still.
LEMMA DesktopSteps ==
  [MCNext]_MCVars => [[Settings!Next]_xsettingsVars /\ [Watchers!Next]_watcherVars]_MCVars
BY DEF MCNext

LEMMA SpecDesktop == MCSpec => []DesktopIInv
<1>1. MCInit => DesktopIInv
  BY InitXSettings, InitWatchers DEF MCInit, DesktopIInv
<1>2. DesktopIInv /\ [[Settings!Next]_xsettingsVars /\ [Watchers!Next]_watcherVars]_MCVars
        => DesktopIInv'
  <2> SUFFICES ASSUME DesktopIInv,
                      [[Settings!Next]_xsettingsVars /\ [Watchers!Next]_watcherVars]_MCVars
               PROVE  DesktopIInv'
    OBVIOUS
  <2>1. [Settings!Next]_xsettingsVars /\ [Watchers!Next]_watcherVars BY DEF MCVars
  <2> QED BY <2>1, NextXSettings, NextWatchers DEF DesktopIInv
<1> QED BY <1>1, <1>2, DesktopSteps, PTL DEF MCSpec

\* For any settings, callbacks and signals, in whatever order they arrive and
\* checks are overtaken: once all that was signalled is read, XSettings and its
\* callbacks have what the manager published, and screen readers, the setting and
\* the battery saver are known as they are, unless a change came before the
\* watcher was ready; no callback is called after its lifetime but a stale one.
THEOREM DesktopKnown == MCSpec => []DesktopIsKnown
<1>1. DesktopIInv => DesktopIsKnown
  BY XSettingsKnown, WatchersKnow DEF DesktopIInv, DesktopIsKnown
<1> QED BY <1>1, SpecDesktop, PTL

-----------------------------------------------------------------------------
(***************************************************************************)
(* MediaControls.  The length that others see is the duration that seeks   *)
(* are divided by, or there is none.                                       *)
(***************************************************************************)
MediaIInv ==
  /\ Media!TypeOK /\ Media!PropertiesAgree /\ Media!MetadataIsApps
  /\ metadata.length \in {Media!NoTime, duration}

\* Microseconds are an integer, and those of an int unless they overflow it.
LEMMA MicroFacts ==
  /\ \A x \in Times \union {0} : wraps \in BOOLEAN => Media!Micro(x) \in Int
  /\ \A x \in Times : Media!Micro(x) = Factor * x \/ Media!Overflows(x)
<1>1. ASSUME NEW x \in Times \union {0}
      PROVE  /\ Factor * x \in Int /\ Media!Wrapped(Factor * x) \in Int
             /\ 0 <= Factor * x
             /\ Factor * x < Half => Media!Wrapped(Factor * x) = Factor * x
  <2>1. x \in Nat /\ Factor \in Nat BY PlayerAssumption
  <2> DEFINE y == Factor * x
  <2>2. y \in Nat BY <2>1
  <2> HIDE DEF y
  <2>3. Media!Wrapped(y) \in Int BY <2>2, PlayerAssumption DEF Media!Wrapped
  <2>4. ASSUME y < Half PROVE Media!Wrapped(y) = y
    <3>1. /\ y + Half \in Nat /\ 2 * Half \in Nat \ {0} /\ y + Half < 2 * Half
      BY <2>2, <2>4, PlayerAssumption
    <3>2. (y + Half) % (2 * Half) = y + Half BY <3>1
    <3> QED BY <2>2, <3>2, PlayerAssumption DEF Media!Wrapped
  <2> QED BY <2>2, <2>3, <2>4 DEF y
<1> QED BY <1>1, PlayerAssumption DEF Media!Micro, Media!Overflows

\* A jump is from one integer to another.
LEMMA SetFacts ==
  ASSUME NEW m, NEW was \in Int, NEW p \in Int,
         m \in [loop : Loops \union {UnknownLoop}, shuffle : BOOLEAN, volume : Volumes,
                position : Int, heard : Int]
  PROVE  /\ Media!Set(m, was, p) \in
              [loop : Loops \union {UnknownLoop}, shuffle : BOOLEAN, volume : Volumes,
               position : Int, heard : Int]
         /\ Media!Set(m, was, p).loop = m.loop
         /\ Media!Set(m, was, p).shuffle = m.shuffle
         /\ Media!Set(m, was, p).volume = m.volume
         /\ Media!Set(m, was, p).position = p
         /\ Media!Set(m, was, p).heard = IF Media!Jumps(was, p) THEN p ELSE m.heard
BY DEF Media!Set

\* To read the position sets it to that of the application.
LEMMA ReadFacts ==
  ASSUME MediaIInv, NEW m,
         m \in [loop : Loops \union {UnknownLoop}, shuffle : BOOLEAN, volume : Volumes,
                position : Int, heard : Int]
  PROVE  LET is == Media!Micro(app.position)
             r  == Media!Read(m)
         IN /\ is \in Int
            /\ r \in [loop : Loops \union {UnknownLoop}, shuffle : BOOLEAN, volume : Volumes,
                      position : Int, heard : Int]
            /\ r.loop = m.loop /\ r.shuffle = m.shuffle /\ r.volume = m.volume
            /\ r.position = is
            /\ r.heard = IF Media!Jumps(m.position, is) THEN is ELSE m.heard
<1>1. Media!Micro(app.position) \in Int BY MicroFacts DEF MediaIInv, Media!TypeOK
<1>2. m.position \in Int OBVIOUS
<1> QED BY <1>1, <1>2, SetFacts DEF Media!Read

\* setPosition() reads the position around what it sets: a jump is told.
LEMMA SetPositionWell ==
  ASSUME MediaIInv, Media!SetPosition
  PROVE  /\ MediaIInv'
         /\ Media!Jumps(mpris.position, mpris.position') => mpris'.heard = mpris'.position
<1> DEFINE is   == Media!Micro(app.position)
           was  == Media!Read(mpris)
           mid  == [was EXCEPT !.position = is]
           done == Media!Read(mid)
           R    == [loop : Loops \union {UnknownLoop}, shuffle : BOOLEAN, volume : Volumes,
                    position : Int, heard : Int]
<1>1. /\ is \in Int /\ was \in R
      /\ was.loop = mpris.loop /\ was.shuffle = mpris.shuffle /\ was.volume = mpris.volume
      /\ was.position = is
      /\ was.heard = IF Media!Jumps(mpris.position, is) THEN is ELSE mpris.heard
  BY ReadFacts DEF MediaIInv, Media!TypeOK
<1>2. mpris' = Media!Set(done, was.position, done.position)
      /\ UNCHANGED <<owned, wraps, app, metadata, duration, wanted>>
  BY DEF Media!SetPosition
<1> HIDE DEF was, is
<1>3. /\ mid \in R /\ mid.loop = was.loop /\ mid.shuffle = was.shuffle
      /\ mid.volume = was.volume /\ mid.position = is /\ mid.heard = was.heard
  BY <1>1
<1> HIDE DEF mid
<1>4. /\ done \in R /\ done.loop = mid.loop /\ done.shuffle = mid.shuffle
      /\ done.volume = mid.volume /\ done.position = is
      /\ done.heard = IF Media!Jumps(mid.position, is) THEN is ELSE mid.heard
  BY <1>3, ReadFacts DEF is
<1> HIDE DEF done
<1>5. ~Media!Jumps(is, is) BY <1>1, PlayerAssumption DEF Media!Jumps
<1>6. /\ mpris' \in R /\ mpris'.loop = done.loop /\ mpris'.shuffle = done.shuffle
      /\ mpris'.volume = done.volume /\ mpris'.position = is
      /\ mpris'.heard = done.heard
  <2>1. was.position \in Int /\ done.position \in Int BY <1>1, <1>4
  <2> HIDE DEF R
  <2> QED BY <1>1, <1>2, <1>4, <1>5, <2>1, SetFacts DEF R
<1>7. MediaIInv'
  BY <1>1, <1>2, <1>3, <1>4, <1>6
  DEF MediaIInv, Media!TypeOK, Media!PropertiesAgree, Media!MetadataIsApps
<1> QED BY <1>1, <1>3, <1>4, <1>5, <1>6, <1>7

\* So does another program that reads it, and hears of the jump.
LEMMA OtherGetsWell ==
  ASSUME MediaIInv, Media!OtherGets
  PROVE  /\ MediaIInv'
         /\ Media!Jumps(mpris.position, mpris.position') => mpris'.heard = mpris'.position
<1>1. /\ mpris' = Media!Read(mpris)
      /\ UNCHANGED <<owned, wraps, app, metadata, duration, wanted>>
  BY DEF Media!OtherGets
<1>2. mpris \in [loop : Loops \union {UnknownLoop}, shuffle : BOOLEAN, volume : Volumes,
                 position : Int, heard : Int]
  BY DEF MediaIInv, Media!TypeOK
<1>3. LET is == Media!Micro(app.position)
      IN /\ is \in Int
         /\ mpris' \in [loop : Loops \union {UnknownLoop}, shuffle : BOOLEAN, volume : Volumes,
                        position : Int, heard : Int]
         /\ mpris'.loop = mpris.loop /\ mpris'.shuffle = mpris.shuffle
         /\ mpris'.volume = mpris.volume /\ mpris'.position = is
         /\ mpris'.heard = IF Media!Jumps(mpris.position, is) THEN is ELSE mpris.heard
  BY <1>1, <1>2, ReadFacts
<1>4. MediaIInv'
  BY <1>1, <1>3 DEF MediaIInv, Media!TypeOK, Media!PropertiesAgree, Media!MetadataIsApps
<1> QED BY <1>3, <1>4

\* What changes a property leaves the position.
LEMMA PropertySteps ==
  ASSUME MediaIInv, Media!Change \/ Media!OtherSets
  PROVE  MediaIInv' /\ mpris'.position = mpris.position
<1> USE DEF MediaIInv, Media!TypeOK, Media!PropertiesAgree, Media!MetadataIsApps
<1>1. ASSUME NEW loop \in Loops, Media!SetLoopStatus(loop),
             UNCHANGED <<owned, wraps, metadata, duration, wanted>>
      PROVE  MediaIInv' /\ mpris'.position = mpris.position
  BY <1>1 DEF Media!SetLoopStatus, Media!LoopTold
<1>2. ASSUME NEW volume \in Volumes, Media!SetVolume(volume),
             UNCHANGED <<owned, wraps, metadata, duration, wanted>>
      PROVE  MediaIInv' /\ mpris'.position = mpris.position
  BY <1>2 DEF Media!SetVolume, Media!VolumeTold
<1>3. ASSUME NEW shuffle \in BOOLEAN, Media!SetShuffle(shuffle),
             UNCHANGED <<owned, wraps, metadata, duration, wanted>>
      PROVE  MediaIInv' /\ mpris'.position = mpris.position
  BY <1>3 DEF Media!SetShuffle
<1>4. ASSUME NEW loop \in Loops \union {UnknownLoop},
             app' = Media!LoopTold(app, loop), mpris' = [mpris EXCEPT !.loop = loop],
             UNCHANGED <<owned, wraps, metadata, duration, wanted>>
      PROVE  MediaIInv' /\ mpris'.position = mpris.position
  BY <1>4 DEF Media!LoopTold
<1>5. ASSUME NEW volume \in Volumes,
             app' = Media!VolumeTold(app, volume), mpris' = [mpris EXCEPT !.volume = volume],
             UNCHANGED <<owned, wraps, metadata, duration, wanted>>
      PROVE  MediaIInv' /\ mpris'.position = mpris.position
  BY <1>5 DEF Media!VolumeTold
<1>6. ASSUME app' = Media!ShuffleTold(app), mpris' = [mpris EXCEPT !.shuffle = app'.shuffle],
             UNCHANGED <<owned, wraps, metadata, duration, wanted>>
      PROVE  MediaIInv' /\ mpris'.position = mpris.position
  <2>1. PICK flipped \in BOOLEAN : flipped = ~app.shuffle BY Zenon
  <2>2. app' = [app EXCEPT !.shuffle = flipped] /\ mpris' = [mpris EXCEPT !.shuffle = flipped]
    <3>1. app' = [app EXCEPT !.shuffle = flipped] BY <1>6, <2>1 DEF Media!ShuffleTold
    <3>2. app'.shuffle = flipped BY <3>1
    <3> QED BY <1>6, <3>1, <3>2
  <2> QED BY <1>6, <2>2
<1> HIDE DEF MediaIInv, Media!TypeOK, Media!PropertiesAgree, Media!MetadataIsApps
<1> QED BY <1>1, <1>2, <1>3, <1>4, <1>5, <1>6 DEF Media!Change, Media!OtherSets

\* The others change neither the properties nor the position that others see.
LEMMA MetadataSteps ==
  ASSUME MediaIInv,
         \/ Media!SetEnabled \/ Media!SetNames \/ Media!ClearMetadata
         \/ \E t \in Times : Media!SetDuration(t) \/ Media!Move(t)
  PROVE  MediaIInv' /\ UNCHANGED mpris
<1> USE DEF MediaIInv, Media!TypeOK, Media!PropertiesAgree, Media!MetadataIsApps, Media!Members
<1>1. CASE Media!SetEnabled BY <1>1 DEF Media!SetEnabled
<1>2. CASE Media!SetNames
  <2>1. PICK m \in Media!Members, n \in Names \union {Media!NoName} :
          /\ metadata' = [metadata EXCEPT ![m] = n]
          /\ wanted' = [wanted EXCEPT ![m] = n]
          /\ UNCHANGED <<owned, wraps, app, mpris, duration>>
    BY <1>2 DEF Media!SetNames
  <2>2. CASE m = "title" BY <2>1, <2>2
  <2>3. CASE m = "artUrl" BY <2>1, <2>3
  <2> QED BY <2>2, <2>3
<1>3. CASE Media!ClearMetadata
  BY <1>3 DEF Media!ClearMetadata, Media!Cleared, Media!NoTime
<1>4. ASSUME NEW t \in Times, Media!SetDuration(t) PROVE MediaIInv' /\ UNCHANGED mpris
  <2>1. Media!Micro(t) \in Int /\ (Media!Micro(t) = Factor * t \/ Media!Overflows(t))
    BY MicroFacts
  <2>2. t # Media!NoTime BY PlayerAssumption DEF Media!NoTime
  <2>3. Media!Overflows(t)' = Media!Overflows(t) BY DEF Media!Overflows
  <2> QED BY <1>4, <2>1, <2>2, <2>3 DEF Media!SetDuration
<1>5. ASSUME NEW t \in Times, Media!Move(t) PROVE MediaIInv' /\ UNCHANGED mpris
  BY <1>5 DEF Media!Move
<1> QED BY <1>1, <1>2, <1>3, <1>4, <1>5

\* Every step preserves the invariant and tells of a jump.
LEMMA MediaStep ==
  ASSUME MediaIInv, [Media!Next]_mediaVars
  PROVE  /\ MediaIInv'
         /\ Media!Jumps(mpris.position, mpris.position') => mpris'.heard = mpris'.position
<1>1. ASSUME mpris'.position = mpris.position
      PROVE  ~Media!Jumps(mpris.position, mpris.position')
  BY <1>1, PlayerAssumption DEF Media!Jumps, MediaIInv, Media!TypeOK
<1>2. CASE UNCHANGED mediaVars
  <2>1. MediaIInv'
    BY <1>2 DEF mediaVars, MediaIInv, Media!TypeOK, Media!PropertiesAgree, Media!MetadataIsApps
  <2> QED BY <1>1, <1>2, <2>1 DEF mediaVars
<1>3. CASE Media!Change \/ Media!OtherSets BY <1>1, <1>3, PropertySteps
<1>4. CASE Media!SetPosition BY <1>4, SetPositionWell
<1>5. CASE Media!OtherGets BY <1>5, OtherGetsWell
<1>6. CASE \/ Media!SetEnabled \/ Media!SetNames \/ Media!ClearMetadata
           \/ \E t \in Times : Media!SetDuration(t) \/ Media!Move(t)
  BY <1>1, <1>6, MetadataSteps
<1> QED BY <1>2, <1>3, <1>4, <1>5, <1>6 DEF Media!Next

\* Nothing is played at the start.
LEMMA MediaStart == Media!Init => MediaIInv
<1> SUFFICES ASSUME Media!Init PROVE MediaIInv OBVIOUS
<1>1. Media!TypeOK /\ Media!PropertiesAgree
  <2>1. /\ app = [loop |-> "None", shuffle |-> FALSE, volume |-> 0, position |-> 0]
        /\ mpris = [loop |-> "None", shuffle |-> FALSE, volume |-> 0, position |-> 0, heard |-> 0]
        /\ "None" \in Loops /\ 0 \in Volumes
    BY PlayerAssumption DEF Media!Init
  <2>2. /\ app \in [loop : Loops, shuffle : BOOLEAN, volume : Volumes,
                   position : Times \union {0}]
        /\ mpris \in [loop : Loops \union {UnknownLoop}, shuffle : BOOLEAN,
                     volume : Volumes, position : Int, heard : Int]
    BY <2>1
  <2>3. /\ metadata = Media!Cleared /\ wanted = Media!Cleared /\ duration = 0
        /\ owned = FALSE /\ wraps \in BOOLEAN
    BY DEF Media!Init
  <2>4. /\ Media!Cleared \in [title : Names \union {Media!NoName},
                             artUrl : Names \union {Media!NoName}, length : Int]
        /\ Media!Cleared \in [title : Names \union {Media!NoName},
                             artUrl : Names \union {Media!NoName},
                             length : Times \union {Media!NoTime}]
    BY DEF Media!Cleared, Media!NoTime
  <2>5. owned \in BOOLEAN BY <2>3
  <2>6. wraps \in BOOLEAN BY <2>3
  <2>7. duration \in Int BY <2>3
  <2>8. metadata \in [title : Names \union {Media!NoName},
                             artUrl : Names \union {Media!NoName}, length : Int]
      BY <2>3, <2>4
  <2>9. wanted \in [title : Names \union {Media!NoName},
                             artUrl : Names \union {Media!NoName},
                             length : Times \union {Media!NoTime}]
      BY <2>3, <2>4
  <2>10. Media!TypeOK BY <2>2, <2>5, <2>6, <2>7, <2>8, <2>9 DEF Media!TypeOK
  <2> QED BY <2>1, <2>10 DEF Media!PropertiesAgree
<1>2. metadata = wanted /\ metadata.length = Media!NoTime
  BY DEF Media!Init, Media!Cleared
<1>3. Media!MetadataIsApps BY <1>2 DEF Media!MetadataIsApps
<1> QED BY <1>1, <1>2, <1>3 DEF MediaIInv

\* A seek asks for a part, up to 1, of the duration.
LEMMA MediaFits == MediaIInv => Media!SeekIsPart
<1> SUFFICES ASSUME MediaIInv, NEW p \in 0 .. metadata.length
             PROVE  p <= duration
  BY DEF Media!SeekIsPart, Media!SeekRequest
<1> QED BY DEF MediaIInv, Media!TypeOK, Media!NoTime

-----------------------------------------------------------------------------
(***************************************************************************)
(* PlayerControls of macOS.  While the controls are off, the last state of *)
(* a command is what the application asked for; and the last posted call   *)
(* is about the controls as they are, unless the dictionary is untold.     *)
(***************************************************************************)
MacIInv ==
  /\ {on, playing, untold} \subseteq BOOLEAN
  /\ center \in [Player!AllCommands -> BOOLEAN] /\ last \in [Player!AllCommands -> BOOLEAN]
  /\ asked \in [Commands -> BOOLEAN] /\ lost \subseteq Commands
  /\ {info, shown} \subseteq Player!Infos /\ rate \in Rates /\ posted \in Seq(BOOLEAN)
  /\ playerAlive => \A c \in Commands \ lost :
                      /\ center[c] <=> on /\ asked[c]
                      /\ ~on => (last[c] <=> asked[c])
  /\ posted = <<>> =>
       /\ ~on => shown = Player!Nothing
       /\ ~untold => shown = IF on /\ info.duration # 0 THEN info ELSE Player!Nothing
  /\ posted # <<>> =>
       /\ ~on => ~posted[Len(posted)]
       /\ ~untold => (posted[Len(posted)] <=> on /\ info.duration # 0)

\* What is posted is the last to run.
LEMMA PostedLast ==
  ASSUME NEW q \in Seq(BOOLEAN), NEW b \in BOOLEAN
  PROVE  /\ Append(q, b) \in Seq(BOOLEAN) /\ Append(q, b) # <<>>
         /\ Append(q, b)[Len(Append(q, b))] = b
BY AppendProperties, LenProperties

\* The first call runs: the only one, or the last stays the last.
LEMMA PostedTail ==
  ASSUME NEW q \in Seq(BOOLEAN), q # <<>>
  PROVE  /\ Tail(q) \in Seq(BOOLEAN) /\ Head(q) \in BOOLEAN
         /\ Tail(q) = <<>> => Head(q) = q[Len(q)]
         /\ Tail(q) # <<>> => Tail(q)[Len(Tail(q))] = q[Len(q)]
<1>1. /\ Head(q) \in BOOLEAN /\ Tail(q) \in Seq(BOOLEAN) /\ Len(Tail(q)) = Len(q) - 1
      /\ \A i \in 1 .. Len(Tail(q)) : Tail(q)[i] = q[i + 1]
      /\ Len(q) \in Nat \ {0} /\ Head(q) = q[1]
  BY HeadTailProperties, EmptySeq
<1>2. Tail(q) = <<>> => Len(q) = 1
  <2>1. Tail(q) = <<>> => Len(Tail(q)) = 0 BY EmptySeq, Zenon
  <2> QED BY <1>1, <2>1
<1>3. Tail(q) # <<>> => Len(Tail(q)) \in Nat \ {0} BY <1>1, EmptySeq
<1> QED BY <1>1, <1>2, <1>3

\* updateDisplay() posts a call about the controls as they are.
LEMMA DisplayUpdated ==
  ASSUME MacIInv, Player!UpdateDisplay, on' \in BOOLEAN, info' \in Player!Infos
  PROVE  /\ posted' \in Seq(BOOLEAN) /\ posted' # <<>> /\ untold' = FALSE
         /\ posted'[Len(posted')] <=> on' /\ info'.duration # 0
<1> DEFINE b == on' /\ info'.duration # 0
<1>1. b \in BOOLEAN OBVIOUS
<1>2. posted' = Append(posted, b) /\ untold' = FALSE BY DEF Player!UpdateDisplay
<1>3. posted \in Seq(BOOLEAN) BY DEF MacIInv
<1> HIDE DEF b
<1>4. posted' \in Seq(BOOLEAN) /\ posted' # <<>> /\ posted'[Len(posted')] = b
  BY <1>1, <1>2, <1>3, PostedLast
<1> QED BY <1>2, <1>4 DEF b

\* Together: what posts and leaves the commands keeps the invariant.
LEMMA UpdateKeeps ==
  ASSUME MacIInv, Player!UpdateDisplay, on' \in BOOLEAN, info' \in Player!Infos,
         playing' \in BOOLEAN, rate' \in Rates, shown' = shown, 
         center' \in [Player!AllCommands -> BOOLEAN], last' \in [Player!AllCommands -> BOOLEAN],
         asked' \in [Commands -> BOOLEAN], lost' \subseteq Commands,
         playerAlive' => \A c \in Commands \ lost' :
                      /\ center'[c] <=> on' /\ asked'[c]
                      /\ ~on' => (last'[c] <=> asked'[c])
  PROVE  MacIInv'
<1>1. /\ posted' \in Seq(BOOLEAN) /\ posted' # <<>> /\ untold' = FALSE
      /\ posted'[Len(posted')] <=> on' /\ info'.duration # 0
  BY DisplayUpdated
<1> QED BY <1>1 DEF MacIInv, Player!Infos

\* The commands of the center when the controls are switched.
LEMMA SwitchWell ==
  ASSUME MacIInv, NEW v \in BOOLEAN, Player!Enable(v), playerAlive' => playerAlive,
         playerAlive' => v = ~on
  PROVE  MacIInv'
<1>1. /\ on' = v /\ UNCHANGED <<asked, lost, info, playing, rate, shown>>
      /\ Player!UpdateDisplay
      /\ IF v THEN Player!CommandsInit /\ UNCHANGED last ELSE Player!CommandsCleared
  BY DEF Player!Enable
<1>2. \A c \in Commands : c \in Player!AllCommands /\ c # Player!Skips
  BY PlayerAssumption DEF Player!AllCommands, Player!Skips
<1>3. CASE v
  <2>1. /\ center' = [c \in Player!AllCommands |-> c = Player!Skips \/ last[c]]
        /\ UNCHANGED last
    BY <1>1, <1>3 DEF Player!CommandsInit
  <2>2. center' \in [Player!AllCommands -> BOOLEAN] BY <2>1
  <2>3. ASSUME NEW c \in Commands \ lost', playerAlive'
        PROVE  /\ center'[c] <=> on' /\ asked'[c]
               /\ ~on' => (last'[c] <=> asked'[c])
    <3>1. center'[c] <=> last[c] BY <1>2, <2>1
    <3>2. last[c] <=> asked[c] BY <1>1, <1>3, <2>3 DEF MacIInv
    <3> QED BY <1>1, <1>3, <3>1, <3>2
  <2> QED BY <1>1, <2>1, <2>2, <2>3, UpdateKeeps DEF MacIInv
<1>4. CASE ~v
  <2>1. last' = center /\ center' = [c \in Player!AllCommands |-> FALSE]
    BY <1>1, <1>4 DEF Player!CommandsCleared
  <2>2. center' \in [Player!AllCommands -> BOOLEAN] BY <2>1
  <2>3. ASSUME NEW c \in Commands \ lost', playerAlive'
        PROVE  /\ center'[c] <=> on' /\ asked'[c]
               /\ ~on' => (last'[c] <=> asked'[c])
    <3>1. ~center'[c] BY <1>2, <2>1
    <3>2. center[c] <=> asked[c] BY <1>1, <1>4, <2>3 DEF MacIInv
    <3> QED BY <1>1, <1>4, <2>1, <3>1, <3>2
  <2> QED BY <1>1, <2>1, <2>2, <2>3, UpdateKeeps DEF MacIInv
<1> QED BY <1>3, <1>4

\* A posted call runs and shows the dictionary as it is then.
LEMMA ShowsKeeps ==
  ASSUME MacIInv, Player!Shows
  PROVE  MacIInv'
<1>1. /\ posted # <<>> /\ posted \in Seq(BOOLEAN)
      /\ shown' = IF Head(posted) THEN info ELSE Player!Nothing
      /\ posted' = Tail(posted)
      /\ UNCHANGED <<playerAlive, on, center, last, asked, lost, info, playing, rate, untold>>
  BY DEF Player!Shows, MacIInv
<1>2. /\ posted' \in Seq(BOOLEAN) /\ Head(posted) \in BOOLEAN
      /\ posted' = <<>> => Head(posted) = posted[Len(posted)]
      /\ posted' # <<>> => posted'[Len(posted')] = posted[Len(posted)]
  BY <1>1, PostedTail
<1>3. Player!Nothing \in Player!Infos
  BY DEF Player!Nothing, Player!Infos
<1>4. shown' \in Player!Infos BY <1>1, <1>3 DEF MacIInv
<1> QED BY <1>1, <1>2, <1>4 DEF MacIInv, Player!Infos

\* What is set while the controls are off is lost, not mixed up.
LEMMA CommandKeeps ==
  ASSUME MacIInv, NEW c \in Commands, NEW v \in BOOLEAN, Player!SetCommand(c, v)
  PROVE  MacIInv'
<1>1. /\ center' = [center EXCEPT ![c] = v]
      /\ asked' = [asked EXCEPT ![c] = v]
      /\ lost' = IF on THEN lost \ {c} ELSE lost \union {c}
      /\ UNCHANGED <<playerAlive, on, last, info, playing, rate, untold, posted, shown>>
  BY DEF Player!SetCommand
<1>2. center' \in [Player!AllCommands -> BOOLEAN] /\ asked' \in [Commands -> BOOLEAN]
  BY <1>1 DEF MacIInv
<1>3. lost' \subseteq Commands BY <1>1 DEF MacIInv
<1>4. ASSUME NEW d \in Commands \ lost', playerAlive
      PROVE  /\ center'[d] <=> on /\ asked'[d]
             /\ ~on => (last[d] <=> asked'[d])
  <2>1. d \in Player!AllCommands BY DEF Player!AllCommands
  <2>2. CASE d = c BY <1>1, <2>1, <2>2, <1>4 DEF MacIInv
  <2>3. CASE d # c
    <3>1. d \notin lost BY <1>1, <1>4, <2>3
    <3> QED BY <1>1, <1>4, <2>1, <2>3, <3>1 DEF MacIInv
  <2> QED BY <2>2, <2>3
<1> QED BY <1>1, <1>2, <1>3, <1>4 DEF MacIInv

\* The dictionary changes and is posted, or is untold.
LEMMA InfoKeeps ==
  ASSUME MacIInv,
         \/ Player!ChangeInfo \/ Player!Tell
         \/ \E v \in BOOLEAN : Player!SetPlaybackStatus(v)
         \/ \E r \in Rates : Player!SetPlaybackRate(r)
         \/ \E t \in Thumbnails \union {NoThumbnail} : Player!SetArt(t)
  PROVE  MacIInv'
<1>a. info \in Player!Infos /\ rate \in Rates BY DEF MacIInv
<1>1. CASE Player!ChangeInfo
  <2>1. /\ info' \in Player!Infos /\ untold' = TRUE
        /\ UNCHANGED <<playerAlive, on, center, last, asked, lost, playing, rate, posted, shown>>
    BY <1>1, <1>a, PlayerAssumption DEF Player!ChangeInfo, Player!Infos
  <2> QED BY <2>1 DEF MacIInv
<1>2. CASE Player!Tell
  <2>1. /\ UNCHANGED <<playerAlive, on, center, last, asked, lost, info, playing, rate, shown>>
        /\ Player!UpdateDisplay
    BY <1>2 DEF Player!Tell
  <2> QED BY <2>1, UpdateKeeps DEF MacIInv
<1>3. ASSUME NEW v \in BOOLEAN, Player!SetPlaybackStatus(v) PROVE MacIInv'
  <2>1. /\ playing' = v /\ info' \in Player!Infos
        /\ UNCHANGED <<playerAlive, on, center, last, asked, lost, rate, shown>>
        /\ Player!UpdateDisplay
    BY <1>3, <1>a DEF Player!SetPlaybackStatus, Player!Infos
  <2> QED BY <2>1, UpdateKeeps DEF MacIInv
<1>4. ASSUME NEW r \in Rates, Player!SetPlaybackRate(r) PROVE MacIInv'
  <2>1. /\ rate' = r
        /\ UNCHANGED <<playerAlive, on, center, last, asked, lost, playing, shown>>
    BY <1>4 DEF Player!SetPlaybackRate
  <2>2. CASE playing
    <3>1. info' \in Player!Infos /\ Player!UpdateDisplay
      BY <1>4, <1>a, <2>2 DEF Player!SetPlaybackRate, Player!Infos
    <3> QED BY <2>1, <3>1, UpdateKeeps DEF MacIInv
  <2>3. CASE ~playing
    <3>1. UNCHANGED <<info, posted, untold>> BY <1>4, <2>3 DEF Player!SetPlaybackRate
    <3> QED BY <2>1, <3>1 DEF MacIInv
  <2> QED BY <2>2, <2>3
<1>5. ASSUME NEW t \in Thumbnails \union {NoThumbnail}, Player!SetArt(t) PROVE MacIInv'
  <2>1. /\ info' \in Player!Infos
        /\ UNCHANGED <<playerAlive, on, center, last, asked, lost, playing, rate, shown>>
        /\ Player!UpdateDisplay
    BY <1>5, <1>a DEF Player!SetArt, Player!Infos
  <2> QED BY <2>1, UpdateKeeps DEF MacIInv
<1> QED BY <1>1, <1>2, <1>3, <1>4, <1>5

\* ~SystemMediaControls() switches the controls off.
LEMMA MacDestroyKeeps ==
  ASSUME MacIInv, Player!MacDestroy
  PROVE  MacIInv'
<1>1. playerAlive' = FALSE BY DEF Player!MacDestroy
<1>2. CASE on BY <1>1, <1>2, SwitchWell DEF Player!MacDestroy
<1>3. CASE ~on
  <2>1. /\ last' = center /\ center' = [c \in Player!AllCommands |-> FALSE]
        /\ UNCHANGED <<on, asked, lost, info, playing, rate, untold, posted, shown>>
    BY <1>3 DEF Player!MacDestroy, Player!CommandsCleared
  <2> QED BY <1>1, <2>1 DEF MacIInv
<1> QED BY <1>2, <1>3

\* Every step on macOS.
LEMMA MacStep ==
  ASSUME MacIInv, Player!MacNext
  PROVE  MacIInv'
<1>1. CASE Player!SetEnabled
  <2>1. on \in BOOLEAN BY DEF MacIInv
  <2>2. Player!Enable(~on) /\ UNCHANGED playerAlive BY <1>1 DEF Player!SetEnabled
  <2> QED BY <2>1, <2>2, SwitchWell
<1> QED BY <1>1, ShowsKeeps, CommandKeeps, InfoKeeps, MacDestroyKeeps DEF Player!MacNext

\* The controls begin switched off, with an empty dictionary.
LEMMA MacStart == Player!Init => MacIInv
<1> SUFFICES ASSUME Player!Init PROVE MacIInv OBVIOUS
<1>1. \A c \in Commands : c \in Player!AllCommands /\ c # Player!Skips
  BY PlayerAssumption DEF Player!AllCommands, Player!Skips
<1>2. /\ center = [c \in Player!AllCommands |-> c = Player!Skips]
      /\ last = [c \in Player!AllCommands |-> FALSE] /\ asked = [c \in Commands |-> FALSE]
      /\ lost = {} /\ info = [Player!Nothing EXCEPT !.rate = 1] /\ rate = 1
      /\ on = FALSE /\ playing = FALSE /\ untold = FALSE /\ posted = <<>>
      /\ shown = Player!Nothing
  BY DEF Player!Init
<1>3. /\ Player!Nothing \in Player!Infos /\ info \in Player!Infos
  BY <1>2, PlayerAssumption DEF Player!Nothing, Player!Infos
<1>4. \A c \in Commands : ~center[c] /\ ~last[c] /\ ~asked[c] BY <1>1, <1>2
<1>5. center \in [Player!AllCommands -> BOOLEAN] /\ last \in [Player!AllCommands -> BOOLEAN]
  BY <1>2
<1>6. /\ asked \in [Commands -> BOOLEAN] /\ lost = {} /\ rate \in Rates
      /\ on = FALSE /\ playing = FALSE /\ untold = FALSE /\ posted = <<>>
      /\ posted \in Seq(BOOLEAN) /\ shown = Player!Nothing
  BY <1>2, PlayerAssumption
<1> QED BY <1>3, <1>4, <1>5, <1>6 DEF MacIInv

\* The invariant in the words of the checked properties.
LEMMA MacFits == MacIInv => Player!CommandsFollow /\ Player!DisplayFollows
<1> SUFFICES ASSUME MacIInv PROVE Player!CommandsFollow /\ Player!DisplayFollows OBVIOUS
<1>1. Player!DisplayFollows BY DEF MacIInv, Player!DisplayFollows
<1>2. ASSUME playerAlive, NEW c \in Commands \ lost PROVE center[c] = (on /\ asked[c])
  <2>1. center[c] \in BOOLEAN BY DEF MacIInv, Player!AllCommands
  <2>2. center[c] <=> on /\ asked[c] BY <1>2 DEF MacIInv
  <2> QED BY <2>1, <2>2
<1> QED BY <1>1, <1>2 DEF Player!CommandsFollow

-----------------------------------------------------------------------------
(***************************************************************************)
(* PlayerControls of Windows.  But for an init() that failed halfway: the  *)
(* controls that are ready, and only they, have one handler, and none is   *)
(* left by the destructor.  A store that is not the last one is outdated.  *)
(***************************************************************************)
WinTypes ==
  /\ player \in {"mac", "win"}
  /\ playerAlive \in BOOLEAN /\ ready \in BOOLEAN /\ half \in BOOLEAN
  /\ late \in BOOLEAN /\ left \in BOOLEAN /\ ruined \in BOOLEAN
  /\ handlers \subseteq 1..MaxInits /\ token \in 0..MaxInits /\ inits \in 0..MaxInits
  /\ presses \in Nat /\ commands \in Nat /\ fired \in Nat /\ stored \in 0..MaxStores
  /\ stores \subseteq [n : 1..MaxStores, what : Thumbnails]
  /\ thumbnail \in Thumbnails \union {NoThumbnail}
  /\ displayed \in Thumbnails \union {NoThumbnail}
  /\ wantedThumbnail \in Thumbnails \union {NoThumbnail}

HandlersIInv ==
  /\ ~half /\ playerAlive =>
       IF ready THEN token # 0 /\ handlers = {token} ELSE token = 0 /\ handlers = {}
  /\ ~half /\ ~playerAlive =>
       handlers = {} /\ (commands > 0 \/ stores # {} \/ ruined => left)
  /\ player = "mac" =>
       handlers = {} /\ token = 0 /\ commands = 0 /\ stores = {} /\ ~ruined
  /\ ~half => fired + commands <= presses

StoresIInv ==
  /\ \A s \in stores : s.n <= stored /\ (s.n = stored => s.what = wantedThumbnail)
  /\ late \/ displayed = wantedThumbnail \/ \E s \in stores : s.n = stored

WinIInv == WinTypes /\ HandlersIInv /\ StoresIInv

\* The registrations are finite, at most one if nothing failed halfway.
LEMMA HandlersCounted ==
  ASSUME WinIInv
  PROVE  /\ Player!Cardinality(handlers) \in Nat
         /\ ~half => Player!Cardinality(handlers) <= 1
<1>1. \A S : Player!Cardinality(S) = Cardinality(S)
  BY DEF Player!Cardinality, Cardinality, Player!IsFiniteSet, IsFiniteSet
<1>2. IsFiniteSet(handlers)
  <2>1. handlers \subseteq 1..MaxInits BY DEF WinIInv, WinTypes
  <2>2. IsFiniteSet(1..MaxInits) BY PlayerAssumption, FS_Interval
  <2> QED BY <2>1, <2>2, FS_Subset
<1>3. Cardinality(handlers) \in Nat BY <1>2, FS_CardinalityType
<1>4. ASSUME ~half PROVE Cardinality(handlers) <= 1
  <2>1. handlers = {} \/ handlers = {token} BY <1>4 DEF WinIInv, HandlersIInv
  <2>2. CASE handlers = {}
    <3>1. Cardinality(handlers) = 0 BY <2>2, FS_EmptySet
    <3> QED BY <3>1
  <2>3. CASE handlers = {token}
    <3>1. Cardinality(handlers) = 1 BY <2>3, FS_Singleton
    <3> QED BY <3>1
  <2> QED BY <2>1, <2>2, <2>3
<1> QED BY <1>1, <1>3, <1>4

\* init() of Windows: the handler registered, halfway or not at all.
LEMMA WinInitKeeps ==
  ASSUME WinIInv, player = "win", playerAlive, Player!WinInit
  PROVE  WinIInv'
<1>1. /\ ~ready /\ inits < MaxInits /\ inits' = inits + 1
      /\ UNCHANGED <<player, playerAlive, presses, commands, fired, stores, stored,
                     thumbnail, displayed, wantedThumbnail, late, left, ruined>>
  BY DEF Player!WinInit
<1>2. inits \in Nat /\ MaxInits \in Nat BY PlayerAssumption DEF WinIInv, WinTypes
<1>3. inits' \in 0..MaxInits BY <1>1, <1>2
<1>4. /\ player' \in {"mac", "win"} /\ presses' \in Nat /\ commands' \in Nat /\ fired' \in Nat
      /\ stored' \in 0..MaxStores /\ stores' \subseteq [n : 1..MaxStores, what : Thumbnails]
      /\ thumbnail' \in Thumbnails \union {NoThumbnail}
      /\ displayed' \in Thumbnails \union {NoThumbnail}
      /\ wantedThumbnail' \in Thumbnails \union {NoThumbnail}
  BY <1>1 DEF WinIInv, WinTypes
<1>5. playerAlive' \in BOOLEAN /\ late' \in BOOLEAN /\ left' \in BOOLEAN /\ ruined' \in BOOLEAN
  BY <1>1 DEF WinIInv, WinTypes
<1>6. half \in BOOLEAN /\ handlers \subseteq 1..MaxInits /\ token \in 0..MaxInits
  BY DEF WinIInv, WinTypes
<1>7. CASE UNCHANGED <<handlers, token>> /\ ready' = FALSE /\ half' = half
  <2>1. ready' \in BOOLEAN /\ half' \in BOOLEAN BY <1>7, <1>6
  <2>2. WinTypes' BY <1>7, <1>3, <1>4, <1>5, <1>6, <2>1 DEF WinTypes
  <2>3. HandlersIInv' BY <1>1, <1>2, <1>7 DEF WinIInv, WinTypes, HandlersIInv
  <2>4. StoresIInv' BY <1>1, <1>2, <1>7 DEF WinIInv, StoresIInv
  <2> QED BY <2>2, <2>3, <2>4 DEF WinIInv
<1>8. CASE /\ token' = inits + 1 /\ handlers' = handlers \union {inits + 1}
           /\ \/ ready' = FALSE /\ half' = TRUE
              \/ ready' = TRUE /\ half' = half
  <2>1. /\ inits + 1 \in 1..MaxInits /\ inits + 1 # 0 BY <1>1, <1>2
  <2>2. ~half => handlers = {} BY <1>1 DEF WinIInv, HandlersIInv
  <2>3. handlers' \subseteq 1..MaxInits /\ token' \in 0..MaxInits
    <3>1. inits + 1 \in 0..MaxInits BY <2>1
    <3>2. (handlers \union {inits + 1}) \subseteq 1..MaxInits BY <1>6, <2>1, Zenon
    <3> QED BY <1>8, <3>1, <3>2, Zenon
  <2>4. ready' \in BOOLEAN /\ half' \in BOOLEAN BY <1>8, <1>6
  <2>5. WinTypes' BY <1>3, <1>4, <1>5, <2>3, <2>4 DEF WinTypes
  <2>6. HandlersIInv' BY <1>1, <1>8, <2>1, <2>2 DEF WinIInv, WinTypes, HandlersIInv
  <2>7. StoresIInv' BY <1>1, <1>8, <2>1, <2>2 DEF WinIInv, StoresIInv
  <2> QED BY <2>5, <2>6, <2>7 DEF WinIInv
<1> QED BY <1>7, <1>8, <1>6 DEF Player!WinInit

\* A button pressed is a command of each handler.
LEMMA PressKeeps ==
  ASSUME WinIInv, player = "win", Player!Press
  PROVE  WinIInv'
<1>1. /\ handlers # {} /\ presses' = presses + 1
      /\ commands' = commands + Player!Cardinality(handlers)
      /\ UNCHANGED <<player, playerAlive, ready, handlers, token, inits, half, fired, stores,
                     stored, thumbnail, displayed, wantedThumbnail, late, left, ruined>>
  BY DEF Player!Press
<1>2. DEFINE n == Player!Cardinality(handlers)
<1>3. n \in Nat /\ (~half => n <= 1) BY HandlersCounted
<1>4. commands' = commands + n BY <1>1
<1> HIDE DEF n
<1>5. presses \in Nat /\ commands \in Nat /\ fired \in Nat BY DEF WinIInv, WinTypes
<1>6. presses' \in Nat /\ commands' \in Nat /\ (~half => fired + commands' <= presses')
  BY <1>1, <1>3, <1>4, <1>5 DEF WinIInv, WinTypes, HandlersIInv, StoresIInv
<1> QED BY <1>1, <1>6 DEF WinIInv, WinTypes, HandlersIInv, StoresIInv

\* A command of a press arrives on the main thread.
LEMMA FireKeeps ==
  ASSUME WinIInv, player = "win", ~ruined, Player!Fire
  PROVE  WinIInv'
<1>1. /\ commands > 0 /\ commands' = commands - 1
      /\ IF playerAlive THEN fired' = fired + 1 /\ UNCHANGED ruined
         ELSE ruined' = TRUE /\ UNCHANGED fired
      /\ UNCHANGED <<player, playerAlive, ready, handlers, token, inits, half, presses, stores,
                     stored, thumbnail, displayed, wantedThumbnail, late, left>>
  BY DEF Player!Fire
<1>2. presses \in Nat /\ commands \in Nat /\ fired \in Nat BY DEF WinIInv, WinTypes
<1>3. commands' \in Nat /\ fired' \in Nat BY <1>1, <1>2
<1>4. ~half => fired' + commands' <= presses BY <1>1, <1>2 DEF WinIInv, HandlersIInv
<1> QED BY <1>1, <1>3, <1>4 DEF WinIInv, WinTypes, HandlersIInv, StoresIInv

\* A new store is the last one.
LEMMA SetThumbnailKeeps ==
  ASSUME WinIInv, player = "win", playerAlive, NEW t \in Thumbnails, Player!SetThumbnail(t)
  PROVE  WinIInv'
<1> DEFINE new == [n |-> stored + 1, what |-> t]
<1>1. /\ stored < MaxStores /\ stored' = stored + 1
      /\ stores' = stores \union {new} /\ wantedThumbnail' = t
      /\ UNCHANGED <<player, playerAlive, ready, handlers, token, inits, half, presses, commands,
                     fired, thumbnail, displayed, late, left, ruined>>
  BY DEF Player!SetThumbnail
<1>2. stored \in Nat /\ MaxStores \in Nat BY PlayerAssumption DEF WinIInv, WinTypes
<1>3. new \in [n : 1..MaxStores, what : Thumbnails] /\ new.n = stored' /\ new.what = t
  BY <1>1, <1>2
<1> HIDE DEF new
<1>4. stores' \subseteq [n : 1..MaxStores, what : Thumbnails] BY <1>1, <1>3 DEF WinIInv, WinTypes
<1>5. ASSUME NEW s \in stores'
      PROVE  s.n <= stored' /\ (s.n = stored' => s.what = wantedThumbnail')
  <2>1. CASE s = new BY <1>1, <1>2, <1>3, <2>1
  <2>2. CASE s \in stores
    <3>1. s.n <= stored /\ s.n \in Int BY <2>2 DEF WinIInv, WinTypes, HandlersIInv, StoresIInv
    <3> QED BY <1>1, <1>2, <3>1
  <2> QED BY <1>1, <2>1, <2>2
<1>6. \E s \in stores' : s.n = stored' BY <1>1, <1>3
<1>7. /\ stored' \in 0..MaxStores
      /\ {thumbnail, displayed, wantedThumbnail}' \subseteq Thumbnails \union {NoThumbnail}
  BY <1>1, <1>2 DEF WinIInv, WinTypes, HandlersIInv, StoresIInv
<1> QED BY <1>1, <1>4, <1>5, <1>6, <1>7 DEF WinIInv, WinTypes, HandlersIInv, StoresIInv

\* The end of a store that is not the last is late.
LEMMA StoredKeeps ==
  ASSUME WinIInv, player = "win", ~ruined, NEW s \in stores, NEW completed \in BOOLEAN,
         Player!Stored(s, completed)
  PROVE  WinIInv'
<1>1. /\ stores' = stores \ {s}
      /\ late' = (late \/ ~completed \/ s.n # stored)
      /\ IF completed THEN thumbnail' = s.what /\ displayed' = s.what
         ELSE UNCHANGED <<thumbnail, displayed>>
      /\ ruined' = (ruined \/ (completed /\ ~playerAlive))
      /\ UNCHANGED <<player, playerAlive, ready, handlers, token, inits, half, presses, commands,
                     fired, stored, wantedThumbnail, left>>
  BY DEF Player!Stored
<1>2. s.what \in Thumbnails BY DEF WinIInv, WinTypes
<1>3. /\ {thumbnail, displayed, wantedThumbnail}' \subseteq Thumbnails \union {NoThumbnail}
      /\ late' \in BOOLEAN /\ ruined' \in BOOLEAN
  BY <1>1, <1>2 DEF WinIInv, WinTypes, HandlersIInv, StoresIInv
<1>4. late' \/ displayed' = wantedThumbnail' BY <1>1 DEF WinIInv, StoresIInv
<1>5. player # "mac" OBVIOUS
<1>6. stores # {} OBVIOUS
<1>7. ~half /\ ~playerAlive => handlers = {} /\ left BY <1>6 DEF WinIInv, HandlersIInv
<1>8. \A d \in stores' : d \in stores BY <1>1
<1> QED BY <1>1, <1>3, <1>4, <1>5, <1>7, <1>8 DEF WinIInv, WinTypes, HandlersIInv, StoresIInv

\* A clear makes every store on its way outdated.
LEMMA ClearThumbnailKeeps ==
  ASSUME WinIInv, player = "win", playerAlive, Player!ClearThumbnail
  PROVE  WinIInv'
<1>1. /\ stored < MaxStores /\ stored' = stored + 1
      /\ thumbnail' = NoThumbnail /\ displayed' = NoThumbnail /\ wantedThumbnail' = NoThumbnail
      /\ UNCHANGED <<player, playerAlive, ready, handlers, token, inits, half, presses, commands,
                     fired, stores, late, left, ruined>>
  BY DEF Player!ClearThumbnail
<1>2. stored \in Nat /\ MaxStores \in Nat /\ stored' \in 0..MaxStores
  BY <1>1, PlayerAssumption DEF WinIInv, WinTypes
<1>3. \A s \in stores : s.n <= stored' /\ s.n # stored'
  <2> SUFFICES ASSUME NEW s \in stores PROVE s.n <= stored' /\ s.n # stored' OBVIOUS
  <2>1. s.n <= stored /\ s.n \in Int BY DEF WinIInv, WinTypes, HandlersIInv, StoresIInv
  <2> QED BY <1>1, <1>2, <2>1
<1> QED BY <1>1, <1>2, <1>3 DEF WinIInv, WinTypes, HandlersIInv, StoresIInv

\* ~SystemMediaControls() takes its handler away.
LEMMA WinDestroyKeeps ==
  ASSUME WinIInv, player = "win", playerAlive, Player!WinDestroy
  PROVE  WinIInv'
<1>1. /\ playerAlive' = FALSE
      /\ handlers' = handlers \ {token} /\ token' = 0
      /\ ruined' = (token # 0 /\ ~ready)
      /\ left' = (commands > 0 \/ stores # {})
      /\ UNCHANGED <<player, ready, inits, half, presses, commands, fired, stores, stored,
                     thumbnail, displayed, wantedThumbnail, late>>
  BY DEF Player!WinDestroy
<1>2. ~half => handlers' = {} /\ ~ruined' BY <1>1 DEF WinIInv, HandlersIInv
<1>3. /\ handlers' \subseteq 1..MaxInits /\ token' \in 0..MaxInits
      /\ ruined' \in BOOLEAN /\ left' \in BOOLEAN
  BY <1>1, PlayerAssumption DEF WinIInv, WinTypes
<1> QED BY <1>1, <1>2, <1>3 DEF WinIInv, WinTypes, HandlersIInv, StoresIInv

\* The steps on macOS change of all this only that the controls are destroyed.
LEMMA MacLeavesWin ==
  ASSUME WinIInv, Player!MacNext
  PROVE  WinIInv'
<1>1. /\ player = "mac" /\ UNCHANGED player
      /\ playerAlive' = playerAlive \/ playerAlive' = FALSE
      /\ UNCHANGED Player!winVars
  BY DEF Player!MacNext, Player!Shows, Player!SetEnabled, Player!Enable, Player!ChangeInfo,
         Player!Tell, Player!MacDestroy, Player!SetPlaybackStatus, Player!SetCommand,
         Player!SetPlaybackRate, Player!SetArt
<1>2. WinTypes' BY <1>1 DEF WinIInv, WinTypes, Player!winVars
<1>3. HandlersIInv' BY <1>1 DEF WinIInv, WinTypes, HandlersIInv, Player!winVars
<1>4. StoresIInv' BY <1>1 DEF WinIInv, StoresIInv, Player!winVars
<1> QED BY <1>2, <1>3, <1>4 DEF WinIInv

\* And those on Windows leave the dictionary and the center.
LEMMA WinLeavesMac ==
  ASSUME MacIInv, Player!WinNext
  PROVE  MacIInv'
<1>1. UNCHANGED Player!macVars /\ (playerAlive' => playerAlive)
  BY DEF Player!WinNext, Player!Press, Player!Fire, Player!Stored, Player!WinInit,
         Player!ClearThumbnail, Player!WinDestroy, Player!SetThumbnail
<1> QED BY <1>1 DEF MacIInv, Player!macVars

\* Every step on Windows.
LEMMA WinStep ==
  ASSUME WinIInv, Player!WinNext
  PROVE  WinIInv'
BY PressKeeps, FireKeeps, StoredKeeps, WinInitKeeps, ClearThumbnailKeeps, WinDestroyKeeps,
   SetThumbnailKeeps DEF Player!WinNext

\* Nothing is registered or stored at the start.
LEMMA WinStart == Player!Init => WinIInv
<1> SUFFICES ASSUME Player!Init PROVE WinIInv OBVIOUS
<1>1. WinTypes
  <2>1. player \in {"mac", "win"} BY DEF Player!Init
  <2>2. playerAlive \in BOOLEAN /\ ready \in BOOLEAN /\ half \in BOOLEAN
    BY DEF Player!Init
  <2>3. late \in BOOLEAN /\ left \in BOOLEAN /\ ruined \in BOOLEAN
    BY DEF Player!Init
  <2>4. handlers \subseteq 1..MaxInits /\ token \in 0..MaxInits /\ inits \in 0..MaxInits
    BY PlayerAssumption DEF Player!Init
  <2>5. presses \in Nat /\ commands \in Nat /\ fired \in Nat /\ stored \in 0..MaxStores
    BY PlayerAssumption DEF Player!Init
  <2>6. stores \subseteq [n : 1..MaxStores, what : Thumbnails]
    BY DEF Player!Init
  <2>7. /\ thumbnail \in Thumbnails \union {NoThumbnail}
        /\ displayed \in Thumbnails \union {NoThumbnail}
        /\ wantedThumbnail \in Thumbnails \union {NoThumbnail}
    BY DEF Player!Init
  <2> QED BY <2>1, <2>2, <2>3, <2>4, <2>5, <2>6, <2>7 DEF WinTypes
<1>2. HandlersIInv BY DEF Player!Init, HandlersIInv
<1>3. StoresIInv BY DEF Player!Init, StoresIInv
<1> QED BY <1>1, <1>2, <1>3 DEF WinIInv

\* The invariant in the words of the checked properties.
LEMMA WinFits ==
  WinIInv => Player!PressIsOneCommand /\ Player!DestroyedInPeace /\ Player!ThumbnailIsLast
BY DEF WinIInv, WinTypes, HandlersIInv, StoresIInv, Player!PressIsOneCommand,
       Player!DestroyedInPeace, Player!ThumbnailIsLast

-----------------------------------------------------------------------------
(* MCPowerSave: the players of the three platforms *)

PlayerIInv == MediaIInv /\ MacIInv /\ WinIInv

\* With the type invariants of the two parts.
LEMMA PlayerTyped == PlayerIInv => Player!TypeOK
BY DEF PlayerIInv, MacIInv, WinIInv, WinTypes, Player!TypeOK

\* Every step of the main thread is one of the player's parts or leaves them.
LEMMA PlayerStep ==
  ASSUME PlayerIInv, [MCNext]_MCVars
  PROVE  /\ PlayerIInv'
         /\ Media!Jumps(mpris.position, mpris.position') => mpris'.heard = mpris'.position
<1>1. [Media!Next]_mediaVars /\ [Player!Next]_playerVars BY DEF MCNext, MCVars
<1>2. MacIInv' /\ WinIInv'
  <2>1. CASE UNCHANGED playerVars
    BY <2>1 DEF playerVars, PlayerIInv, MacIInv, WinIInv, WinTypes, HandlersIInv, StoresIInv
  <2>2. CASE Player!Next
    BY <2>2, MacStep, WinStep, MacLeavesWin, WinLeavesMac DEF Player!Next, PlayerIInv
  <2> QED BY <1>1, <2>1, <2>2
<1> QED BY <1>1, <1>2, MediaStep DEF PlayerIInv

\* The invariant holds in every state of every behaviour.
LEMMA SpecPlayer == MCSpec => []PlayerIInv
<1>1. MCInit => PlayerIInv BY MediaStart, MacStart, WinStart DEF MCInit, PlayerIInv
<1>2. PlayerIInv /\ [MCNext]_MCVars => PlayerIInv' BY PlayerStep
<1> QED BY <1>1, <1>2, PTL DEF MCSpec

\* For any loop statuses, volumes, names, times, commands, rates and bounds: other
\* programs see what the application plays, hear of a jump of the position and seek
\* within the duration; macOS shows the dictionary and enables the commands that the
\* application wants; and on Windows a press is one command, nothing uses destroyed
\* controls and the last thumbnail stays (system_media_controls_linux.cpp, _mac.mm,
\* _win.cpp).
THEOREM PlayerAlwaysShown == MCSpec => PlayerIsShown
<1>1. PlayerIInv =>
        /\ Media!TypeOK /\ Media!PropertiesAgree /\ Media!MetadataIsApps /\ Media!SeekIsPart
        /\ Player!TypeOK /\ Player!CommandsFollow /\ Player!DisplayFollows
        /\ Player!PressIsOneCommand /\ Player!DestroyedInPeace /\ Player!ThumbnailIsLast
  BY PlayerTyped, MediaFits, MacFits, WinFits DEF PlayerIInv, MediaIInv
<1>2. PlayerIInv /\ [MCNext]_MCVars =>
        [Media!Jumps(mpris.position, mpris.position')
           => mpris'.heard = mpris'.position]_(Media!vars)
  BY PlayerStep
<1>3. MCSpec => Media!JumpIsHeard
  BY <1>2, SpecPlayer, PTL DEF Media!JumpIsHeard, MCSpec
<1> QED BY <1>1, <1>3, SpecPlayer, PTL DEF PlayerIsShown
=============================================================================
