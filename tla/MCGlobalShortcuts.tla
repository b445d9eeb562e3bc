------------------------ MODULE MCGlobalShortcuts ------------------------
(***************************************************************************)
(* Model checking of GlobalShortcuts, with two shortcuts that share a key, *)
(* and on X11 of what feeds it and others: X11Hook, and XcbConnection with *)
(* its shared events.  They share no state here, so that each behaviour is *)
(* one of them, the subject, the others standing still.                    *)
(***************************************************************************)
EXTENDS GlobalShortcuts
CONSTANTS keyA, keyB, keyC, shortcutAB, shortcutBC,
          HookKeys, MaxReplies, MaxInReply,                   \* see X11Hook
          XcbUsers, Bits, PropertyChange, MaxWire, MaxMasks   \* see XcbConnection
MCKeysOf == (shortcutAB :> <<keyA, keyB>>) @@ (shortcutBC :> <<keyC, keyB>>)

ASSUME HooksAssumption ==
  /\ "left_or_wheel" \notin HookKeys /\ MaxReplies \in Nat /\ MaxInReply \in Nat \ {0}
  /\ PropertyChange \in Bits /\ MaxWire \in Nat

VARIABLES
  subject,
  recorder, x11Callback, replies, keysDown, x11Told, unseen,
  connection, holders, handlers, notifier, wire, mask, masks, loops, toldFailed, dropped

x11Vars  == <<recorder, x11Callback, replies, keysDown, x11Told, unseen>>
xcbVars  == <<connection, holders, handlers, notifier, wire, mask, masks, loops,
              toldFailed, dropped>>

X11 == INSTANCE X11Hook
Xcb == INSTANCE XcbConnection

MCInit ==
  /\ subject \in {"shortcuts", "x11", "xcb"}
  /\ Init /\ X11!Init /\ Xcb!Init

MCNext ==
  /\ UNCHANGED subject
  /\ \/ subject = "shortcuts" /\ Next
     \/ subject = "x11" /\ X11!Next
     \/ subject = "xcb" /\ Xcb!Next
  /\ subject # "shortcuts" => UNCHANGED vars
  /\ subject # "x11" => UNCHANGED x11Vars
  /\ subject # "xcb" => UNCHANGED xcbVars

MCVars == <<subject, vars, x11Vars, xcbVars>>

MCSpec == /\ MCInit /\ [][MCNext]_MCVars
          /\ WF_vars(ManagerStep) /\ Xcb!Fairness

-----------------------------------------------------------------------------
\* The type invariants of all.
TypesOK == TypeOK /\ X11!TypeOK /\ Xcb!TypeOK

\* What the X11 hook told is down is down, whatever came before Start() or was
\* dropped on the way; handlers of X11 events are called while they live, and the
\* root window's event mask has what each user added.
EventsReachUsers ==
  X11!ToldIsTrue /\ Xcb!HandlersAreServed /\ Xcb!MaskHasAdded

\* A press that was told is told to end, and GetTimestamp() returns from its
\* nested loop.
EndsAreTold == ReleaseIsTold /\ Xcb!TimestampReturns
=============================================================================
