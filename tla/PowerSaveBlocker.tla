------------------------- MODULE PowerSaveBlocker -------------------------
(***************************************************************************)
(* base::PowerSaveBlocker (power_save_blocker.cpp): all blockers of one    *)
(* type share one request to the platform, made in the name of one of      *)
(* them.  Blockers come and go on any thread under a mutex; their windows  *)
(* die on the main thread, without it, and every QPointer to a dead window *)
(* reads as null from then on.  BlockPowerSave() and UnblockPowerSave()    *)
(* are posted to the main thread (crl::on_main) and performed in order.    *)
(***************************************************************************)
EXTENDS Integers, Sequences, FiniteSets

CONSTANTS
  Blockers,      \* PowerSaveBlocker objects of one type
  Descriptions, Windows,
  None,          \* a null window, no request
  desc, win,     \* _description and _window of each blocker
  MainOnly,      \* blockers are destroyed on the main thread only
  MaxCalls       \* bound: platform calls that are queued

ASSUME ConstantsAssumption ==
  /\ None \notin Windows /\ None \notin Blockers /\ None \notin Descriptions
  /\ desc \in [Blockers -> Descriptions]
  /\ win \in [Blockers -> Windows \cup {None}]
  /\ MainOnly \in BOOLEAN /\ MaxCalls \in Nat

VARIABLES
  alive,         \* the windows that exist
  list,          \* BlockersSet::list
  setDesc,       \* BlockersSet::description
  setWin,        \* BlockersSet::window, as last assigned
  removing,      \* the blocker whose Remove() holds Mutex, or None
  readWin,       \* what Remove() has read of set.window
  calls,         \* platform calls not performed yet: a description, or None
  blocked        \* what the platform blocks for: a description, or None

set  == <<setDesc, setWin>>
vars == <<alive, list, set, removing, readWin, calls, blocked>>

\* What a QPointer<QWindow> holds.
Current(w) == IF w \in alive THEN w ELSE None
window(b) == Current(win[b])

UseMutant(b) == setDesc' = desc[b] /\ UNCHANGED setWin
Use(b) == setDesc' = desc[b] /\ setWin' = window(b)

-----------------------------------------------------------------------------
\* Add(), in the constructor.
Add(b) ==
  /\ removing = None /\ b \notin list /\ win[b] \in alive \cup {None}
  /\ Len(calls) < MaxCalls
  /\ list' = list \cup {b}
  /\ IF list = {} THEN Use(b) /\ calls' = Append(calls, desc[b])
                  ELSE UNCHANGED <<set, calls>>
  /\ UNCHANGED <<alive, removing, readWin, blocked>>

\* Remove(), in the destructor, up to the read of set.window ...
RemoveMutant(b) ==
  /\ removing = None /\ b \in list /\ Len(calls) + 1 < MaxCalls
  /\ removing' = b /\ readWin' = Current(setWin)
  /\ UNCHANGED <<alive, list, set, calls, blocked>>

Remove(b) ==
  /\ removing = None /\ b \in list /\ Len(calls) + 1 < MaxCalls
  /\ list' = list \ {b} /\ removing' = b /\ readWin' = Current(setWin)
  /\ UNCHANGED <<alive, set, calls, blocked>>

\* ... and from the read of blocker->window() on.
Differs(b) == setDesc # desc[b] \/ readWin # window(b)

\* The first blocker with a window, or else the first: the list is sorted by
\* address, so that any of them may be the first.
Good == {b \in list : window(b) # None}
Usable == IF Good # {} THEN Good ELSE list

FinishMutant(b) ==
  /\ removing = b /\ removing' = None /\ readWin' = None
  /\ \/ /\ Differs(b) /\ UNCHANGED calls
     \/ /\ ~Differs(b) /\ calls' = Append(calls, None)
  /\ UNCHANGED <<alive, list, set, blocked>>

Finish(b) ==
  /\ removing = b /\ removing' = None /\ readWin' = None
  /\ \/ /\ Differs(b) /\ UNCHANGED <<set, calls>>
     \/ /\ ~Differs(b) /\ list = {}
        /\ calls' = Append(calls, None)
        /\ UNCHANGED set
     \/ /\ ~Differs(b)
        /\ \E u \in Usable : /\ Use(u)
                             /\ calls' = Append(Append(calls, None), desc[u])
  /\ UNCHANGED <<alive, list, blocked>>

Perform ==
  /\ calls # <<>> /\ blocked' = Head(calls) /\ calls' = Tail(calls)
  /\ UNCHANGED <<alive, list, set, removing, readWin>>

WindowDies(w) ==
  /\ w \in alive
  /\ MainOnly => removing = None
  /\ alive' = alive \ {w}
  /\ UNCHANGED <<list, set, removing, readWin, calls, blocked>>

-----------------------------------------------------------------------------
Init ==
  /\ alive = Windows /\ list = {} /\ setDesc = None /\ setWin = None
  /\ removing = None /\ readWin = None /\ calls = <<>> /\ blocked = None

Next == \/ \E b \in Blockers : Add(b) \/ Remove(b) \/ Finish(b)
        \/ Perform
        \/ \E w \in Windows : WindowDies(w)

Spec == Init /\ [][Next]_vars

-----------------------------------------------------------------------------
Calls == Descriptions \cup {None}

\* The type invariant: a blocker that is being removed has left the list.
TypeOK ==
  /\ alive \subseteq Windows /\ list \subseteq Blockers
  /\ setDesc \in Calls /\ setWin \in Windows \cup {None}
  /\ removing \in (Blockers \ list) \cup {None} /\ readWin \in Windows \cup {None}
  /\ calls \in Seq(Calls) /\ blocked \in Calls

\* The last of the calls q made after bl was performed.
LastOf(bl, q) == IF q = <<>> THEN bl ELSE q[Len(q)]
LastCall == LastOf(blocked, calls)

\* Outside Add() and Remove(), the platform is told to block exactly while
\* there is a blocker, in the name the set holds: no blocker's destruction
\* leaves the screen awake, and none lets it sleep under another blocker.
BlockedWhileNeeded ==
  removing = None => LastCall = (IF list = {} THEN None ELSE setDesc)

\* The name the request was made in is that of a blocker that still exists,
\* although windows die without a notice to the set.
RequestHasOwner ==
  removing = None /\ list # {} =>
    \E b \in list : desc[b] = setDesc /\ window(b) = Current(setWin)

\* Each call of q blocks exactly if the one before it, bl at first, does not.
Alternates(bl, q) ==
  /\ q # <<>> => (q[1] # None <=> bl = None)
  /\ \A i \in 1 .. Len(q) - 1 : q[i + 1] # None <=> q[i] = None

\* Expects(!GlobalHandles[...]) in the platform's BlockPowerSave(): it is only
\* called while nothing is blocked, and UnblockPowerSave() while something is.
BlockAfterUnblock == Alternates(blocked, calls)
=============================================================================
