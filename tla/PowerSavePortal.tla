-------------------------- MODULE PowerSavePortal --------------------------
(***************************************************************************)
(* PortalInhibit of base_power_save_blocker_linux.cpp: one object per      *)
(* request to the desktop's Inhibit portal.  It makes two D-Bus proxies    *)
(* asynchronously, in callbacks guarded by its own lifetime, connects to   *)
(* the request's Response signal and only then sends Inhibit; destroyed,   *)
(* it closes the request. A second proxy that could not be made is not     *)
(* looked at: Inhibit is sent and nobody closes it. The portal (external)  *)
(* handles a call while it takes the next: a Close that finds no finished  *)
(* request is lost, which the Response handler makes up for. At the end    *)
(* the portal is composed with the blockers of one type: what              *)
(* PowerSaveBlocker posts to the main thread makes and destroys the        *)
(* PortalInhibit objects.                                                  *)
(***************************************************************************)
EXTENDS PowerSaveBlocker

CONSTANTS N           \* bound: PortalInhibit objects, made one after another

ASSUME NAssumption == N \in Nat \ {0}

VARIABLES
  made,      \* objects made so far; object i is the i-th
  instance,  \* `instance`: the object that exists, or 0
  stage,     \* of each object: what its callbacks have reached
  wire,      \* calls on their way to the portal, in order
  handling,  \* requests the portal is setting up
  active,    \* requests the portal inhibits for
  responses  \* Response signals on their way

portalVars == <<made, instance, stage, wire, handling, active, responses>>

Objects == 1 .. N
Inhibit(i) == <<"inhibit", i>>
Close(i)   == <<"close", i>>
\* _request is not null; and Inhibit was sent all the same although it is.
hasRequest(i) == stage[i] = "sent"
Unclosable(i) == stage[i] = "unclosable"
WasSent(i) == hasRequest(i) \/ Unclosable(i)

-----------------------------------------------------------------------------
\* PortalPreventDisplaySleep(true), and the constructor.
Prevent ==
  /\ instance = 0 /\ made < N
  /\ made' = made + 1 /\ instance' = made + 1
  /\ UNCHANGED <<stage, wire, handling, active, responses>>

\* PortalPreventDisplaySleep(false), and the destructor.
AllowMutant ==
  /\ instance # 0 /\ instance' = 0
  /\ UNCHANGED <<made, stage, wire, handling, active, responses>>

Allow ==
  /\ instance # 0 /\ instance' = 0
  /\ wire' = IF hasRequest(instance) THEN Append(wire, Close(instance)) ELSE wire
  /\ UNCHANGED <<made, stage, handling, active, responses>>

\* InhibitProxy::new_for_bus() is done, with a proxy or without.
ProxyReady(i) ==
  /\ instance = i /\ stage[i] = "start"
  /\ stage' \in {[stage EXCEPT ![i] = s] : s \in {"request", "failed"}}
  /\ UNCHANGED <<made, instance, wire, handling, active, responses>>

\* RequestProxy::new_() is done: _request is what new_finish() returned, null if it
\* failed, and Inhibit is sent.
RequestReady(i) ==
  /\ instance = i /\ stage[i] = "request"
  /\ stage' \in {[stage EXCEPT ![i] = s] : s \in {"sent", "unclosable"}}
  /\ wire' = Append(wire, Inhibit(i))
  /\ UNCHANGED <<made, instance, handling, active, responses>>

\* The Response handler: the object may be gone by now.
ResponseMutant(i) ==
  /\ i \in responses /\ responses' = responses \ {i}
  /\ UNCHANGED <<made, instance, stage, wire, handling, active>>

Response(i) ==
  /\ i \in responses /\ responses' = responses \ {i}
  /\ wire' = IF instance # i THEN Append(wire, Close(i)) ELSE wire
  /\ UNCHANGED <<made, instance, stage, handling, active>>

-----------------------------------------------------------------------------
\* The portal takes a call, and finishes one that it took.
PortalTakes ==
  /\ wire # <<>> /\ wire' = Tail(wire)
  /\ \E i \in Objects :
       \/ /\ Head(wire) = Inhibit(i)
          /\ handling' = handling \cup {i} /\ UNCHANGED active
       \/ /\ Head(wire) = Close(i)
          /\ active' = active \ {i} /\ UNCHANGED handling
  /\ UNCHANGED <<made, instance, stage, responses>>

\* Its signal reaches who has connected to it.
PortalFinishes(i) ==
  /\ i \in handling /\ handling' = handling \ {i}
  /\ active' = active \cup {i}
  /\ responses' = IF hasRequest(i) THEN responses \cup {i} ELSE responses
  /\ UNCHANGED <<made, instance, stage, wire>>

-----------------------------------------------------------------------------
PortalInit ==
  /\ made = 0 /\ instance = 0 /\ stage = [i \in Objects |-> "start"]
  /\ wire = <<>> /\ handling = {} /\ active = {} /\ responses = {}

Callbacks(i) == ProxyReady(i) \/ RequestReady(i) \/ Response(i)
Portal == PortalTakes \/ \E i \in Objects : PortalFinishes(i)

PortalNext == \/ Prevent \/ Allow \/ Portal
              \/ \E i \in Objects : Callbacks(i)

PortalSpec == PortalInit /\ [][PortalNext]_portalVars

-----------------------------------------------------------------------------
Messages == {Inhibit(i) : i \in Objects} \cup {Close(i) : i \in Objects}

\* The type invariant: the portal deals only with requests that were sent.
PortalTypeOK ==
  /\ made \in 0 .. N /\ instance \in 0 .. made
  /\ stage \in [Objects -> {"start", "request", "failed", "sent", "unclosable"}]
  /\ wire \in Seq(Messages)
  /\ handling \cup active \subseteq {i \in Objects : WasSent(i)}
  /\ responses \subseteq {i \in Objects : hasRequest(i)}

\* Whenever all calls are handled and all signals taken, the portal inhibits
\* for the object that exists, if it got so far, and of the others for exactly
\* those whose _request is null, as line 106 does not check: these leak, and no
\* other is left behind, not even one closed before the portal had set it up.
NothingLeaks ==
  wire = <<>> /\ handling = {} /\ responses = {} =>
    active = {i \in Objects : (i = instance /\ hasRequest(i)) \/ Unclosable(i)}

\* The screen may sleep again, for good, after an object is destroyed whose
\* request could be made.
Ends == \A i \in Objects :
          (made >= i /\ instance # i /\ ~Unclosable(i)) ~> [](i \notin active)
-----------------------------------------------------------------------------
(* The blockers together with Linux's platform calls. *)

\* PortalPreventDisplaySleep(): a second true, or a second false, is ignored.
PortalPreventDisplaySleep(prevent) ==
  IF prevent <=> instance = 0
  THEN IF prevent THEN Prevent ELSE Allow
  ELSE UNCHANGED portalVars

\* BlockPowerSave() and UnblockPowerSave() reach the main thread.
OnMain == Perform /\ PortalPreventDisplaySleep(Head(calls) # None)

Blocking ==
  /\ \/ \E b \in Blockers : Add(b) \/ Remove(b) \/ Finish(b)
     \/ \E w \in Windows : WindowDies(w)
  /\ UNCHANGED portalVars

Answers == Portal \/ \E i \in Objects : Callbacks(i)

PowerSaveVars == <<vars, portalVars>>
PowerSaveInit == Init /\ PortalInit
PowerSaveNext == Blocking \/ OnMain \/ (Answers /\ UNCHANGED vars)

\* The main loop runs what is posted to it, D-Bus delivers and the portal answers.
PowerSaveFairness ==
  /\ WF_PowerSaveVars(OnMain)
  /\ WF_PowerSaveVars(PortalTakes /\ UNCHANGED vars)
  /\ \A i \in Objects : /\ WF_PowerSaveVars(PortalFinishes(i) /\ UNCHANGED vars)
                        /\ WF_PowerSaveVars(Callbacks(i) /\ UNCHANGED vars)
PowerSaveSpec == PowerSaveInit /\ [][PowerSaveNext]_PowerSaveVars /\ PowerSaveFairness

-----------------------------------------------------------------------------
\* Nothing is on its way between the blockers, the main thread and the portal.
Settled ==
  /\ removing = None /\ calls = <<>>
  /\ wire = <<>> /\ handling = {} /\ responses = {}

\* The type invariant of both parts.
PowerSaveTypeOK == TypeOK /\ PortalTypeOK

\* When all calls have arrived the portal inhibits for one request exactly if
\* there is a blocker and its object got through to the portal, and for those
\* that nobody can close: the blockers' count, the order of the posted calls and
\* the portal's races end together.
ScreenFollowsBlockers ==
  Settled => active = {i \in Objects : \/ list # {} /\ i = made /\ hasRequest(i)
                                       \/ Unclosable(i)}

\* The request to the platform has an owner that lives, as its window does, is
\* the latest of the posted calls, and ends as the portal's.
RequestSound == RequestHasOwner /\ BlockAfterUnblock /\ ScreenFollowsBlockers
=============================================================================
