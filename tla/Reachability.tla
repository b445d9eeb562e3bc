---------------------------- MODULE Reachability ----------------------------
(***************************************************************************)
(* NetworkReachability of base/network_reachability.cpp, over the helper   *)
(* of the platform (base/platform/win/base_network_reachability_win.cpp)   *)
(* or, without one, over Qt.  The helper is told of changes on a thread of *)
(* COM, the owner creates and destroys the instance on the main thread.    *)
(***************************************************************************)
EXTENDS Naturals, Sequences

CONSTANTS
  MaxFlips,     \* bound of the changes of the network
  MaxHolders    \* bound of the shared_ptrs of the instance

VARIABLES
  online,       \* the network itself
  flips,        \* the number of its changes
  stage,        \* of the instance: see Stages
  connectivity, \* what start() read with GetConnectivity
  available,    \* Private::available; the helper's variable while there is one
  holders,      \* shared_ptrs of the instance
  notices,      \* changes that COM or Qt has yet to tell
  overtaken     \* the last notice was told before start() assigns what it had read

vars == <<online, flips, stage, connectivity, available, holders, notices, overtaken>>

Stages == {"none", "created", "advised", "read", "helper", "qt", "fixed"}

\* Whom changes are told: events that COM was given with Advise, or Qt's
\* information.
Subscribed == stage \in {"advised", "read", "helper", "qt"}

-----------------------------------------------------------------------------
\* Instance() locks the weak_ptr, and makes the instance if it is gone.
Instance ==
  /\ holders < MaxHolders /\ stage \in {"none", "helper", "qt", "fixed"}
  /\ holders' = holders + 1
  /\ IF holders = 0
     THEN stage' = "created" /\ available' = TRUE /\ overtaken' = FALSE
     ELSE UNCHANGED <<stage, available, overtaken>>
  /\ UNCHANGED <<online, flips, connectivity, notices>>

\* start(): Advise, then GetConnectivity, then the assignment.
Advise ==
  /\ stage = "created" /\ stage' = "advised"
  /\ UNCHANGED <<online, flips, connectivity, available, holders, notices, overtaken>>

GetConnectivity ==
  /\ stage = "advised" /\ stage' = "read" /\ connectivity' = online
  /\ UNCHANGED <<online, flips, available, holders, notices, overtaken>>

Started ==
  /\ stage = "read" /\ stage' = "helper" /\ available' = connectivity
  /\ UNCHANGED <<online, flips, connectivity, holders, notices, overtaken>>

\* There is no helper, or a call of its start() fails and it finishes: Qt's
\* information is used, if it loads.  Events that Unadvise leaves with COM keep
\* themselves alive and set a variable that nobody reads.
Fallback ==
  \E loads \in BOOLEAN :
    /\ stage \in {"created", "advised"}
    /\ stage' = IF loads THEN "qt" ELSE "fixed"
    /\ available' = IF loads THEN online ELSE TRUE
    /\ notices' = <<>> /\ overtaken' = FALSE
    /\ UNCHANGED <<online, flips, connectivity, holders>>

\* The last shared_ptr goes: the lifetime, then the helper, which finishes.
Release ==
  /\ holders > 0 /\ stage \in {"helper", "qt", "fixed"} /\ holders' = holders - 1
  /\ IF holders > 1 THEN UNCHANGED <<stage, notices>>
                    ELSE stage' = "none" /\ notices' = <<>>
  /\ UNCHANGED <<online, flips, connectivity, available, overtaken>>

-----------------------------------------------------------------------------
\* The network changes, and whoever subscribed will be told.
Flip ==
  /\ flips < MaxFlips /\ flips' = flips + 1
  /\ online' = ~online
  /\ notices' = IF Subscribed THEN Append(notices, ~online) ELSE notices
  /\ UNCHANGED <<stage, connectivity, available, holders, overtaken>>

\* ConnectivityChanged, on COM's thread, or reachabilityChanged.
Told ==
  /\ notices # <<>> /\ notices' = Tail(notices)
  /\ available' = Head(notices) /\ overtaken' = (stage = "read")
  /\ UNCHANGED <<online, flips, stage, connectivity, holders>>

-----------------------------------------------------------------------------
Init ==
  /\ online \in BOOLEAN /\ flips = 0 /\ stage = "none" /\ connectivity = FALSE
  /\ available = TRUE /\ holders = 0 /\ notices = <<>>
  /\ overtaken = FALSE

Next ==
  \/ Instance \/ Advise \/ GetConnectivity \/ Started \/ Fallback \/ Release
  \/ Flip \/ Told
Spec == Init /\ [][Next]_vars
Fairness == WF_vars(Told)

-----------------------------------------------------------------------------
\* The type invariant; while there are shared_ptrs there is one instance.
TypeOK ==
  /\ online \in BOOLEAN /\ flips \in 0 .. MaxFlips /\ stage \in Stages
  /\ connectivity \in BOOLEAN /\ available \in BOOLEAN /\ holders \in 0 .. MaxHolders
  /\ notices \in Seq(BOOLEAN) /\ overtaken \in BOOLEAN
  /\ holders = 0 <=> stage = "none"

\* Once all notices are told, available is what the network is: no change
\* between subscribing and reading is missed.  The exception is the one the
\* code leaves: a change told between GetConnectivity and the assignment is
\* overwritten by the older value.
AvailabilityFollows ==
  stage \in {"helper", "qt"} /\ notices = <<>> /\ ~overtaken => available = online
=============================================================================
