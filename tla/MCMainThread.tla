---------------------------- MODULE MCMainThread ----------------------------
(***************************************************************************)
(* Model checking of what the main thread does from its event loop:        *)
(* Options, with one toggle, one number, and a key that an older or newer  *)
(* version wrote; SingleQueuedInvokation, Timer, ConfirmQuit,              *)
(* InstanceCommands, DesktopLaunch, and ThreadHooks, whose Stop() waits    *)
(* for another thread; and the containers FlatSet and FlatMap.  They share *)
(* no state, so that each behaviour is one of them, the subject, the       *)
(* others standing still; Timer is two of them, for timers and delayed     *)
(* calls share nothing either.                                             *)
(***************************************************************************)
EXTENDS Options, Containers, TLC

CONSTANTS
  Callers,                        \* threads that use SingleQueuedInvokation
  TimerTimeouts, Sleeps, MaxTicks, MaxSleeps, Calls, Ids, NoId, \* see Timer
  ShowDuration, Fuzz,             \* see ConfirmQuit
  Senders, MaxSends, MaxReplies,  \* see InstanceCommands
  Launches, Waits, Windows, NoWindow, Protocols, \* see DesktopLaunch
  MaxHooks, PlainKeys, PairedKeys, MaxTaps            \* see ThreadHooks

ASSUME EventsAssumption ==
  /\ TimerTimeouts \subseteq Nat /\ Sleeps \subseteq Nat
  /\ MaxTicks \in Nat /\ MaxSleeps \in Nat /\ NoId \notin Ids
  /\ Fuzz \in Nat \ {0} /\ ShowDuration \in Nat /\ Fuzz < ShowDuration
  /\ MaxSends \in Nat /\ MaxReplies \in Nat
  /\ NoWindow \notin Windows /\ MaxHooks \in Nat /\ MaxTaps \in Nat

VARIABLES
  subject,
  _pending, unseen, calling, queued, running,
  prompt, active, each, _adjusted, _timeout, nextIn, left, qtInterval,
  adjustPosted, elapsed, fires, sleeps, called, callId, callLeft,
  modal, keysDown, keyUp, sinceAttempt, untilTarget, pumpLeft, willQuit,
  windows, quit, held, doubleTap,
  connected, accepted, sends, toPrimary, data, fired, replies, toSender,
  received, dones,
  asked, step, waitsOn, focus, visible, wayland, requests, stranded, doubtful,
  openings, entries, defaultIs, fileMatches, registered, registry, handles, torn, bereft,
  hookSystem, winMain, ThreadHandle, ThreadEvent, winCallback, winThread, quitPosted,
  GlobalHookKeyboard, GlobalHookMouse, nullCalled, made, macOwner, EventPort,
  ThreadRunLoop, tapThread, stopRequested, tooEarly, macCallback, nullCall, macDown,
  macTold, macUnseen, taps

queueVars   == <<_pending, unseen, calling, queued, running>>
timerVars   == <<prompt, active, each, _adjusted, _timeout, nextIn, left, qtInterval,
                 adjustPosted, elapsed, fires, sleeps>>
callVars    == <<called, callId, callLeft>>
quitVars    == <<modal, keysDown, keyUp, sinceAttempt, untilTarget, pumpLeft, willQuit,
                 windows, quit, held, doubleTap>>
commandVars == <<connected, accepted, sends, toPrimary, data, fired, replies, toSender,
                 received, dones>>
launchVars  == <<asked, step, waitsOn, focus, visible, wayland, requests, stranded,
                 doubtful, openings, entries, defaultIs, fileMatches, registered,
                 registry, handles, torn, bereft>>
hookVars    == <<hookSystem, winMain, ThreadHandle, ThreadEvent, winCallback, winThread,
                 quitPosted, GlobalHookKeyboard, GlobalHookMouse, nullCalled, made, macOwner,
                 EventPort, ThreadRunLoop, tapThread, stopRequested, tooEarly, macCallback,
                 nullCall, macDown, macTold, macUnseen, taps>>

Call      == INSTANCE SingleQueuedInvokation WITH Threads <- Callers
OneThread == INSTANCE Timer
Quit      == INSTANCE ConfirmQuit WITH left <- untilTarget
Commands  == INSTANCE InstanceCommands
Launch    == INSTANCE DesktopLaunch
Hooks     == INSTANCE ThreadHooks

MCInit ==
  /\ subject \in {"options", "set", "map", "call", "timer", "calls",
                  "quit", "commands", "launch", "hooks"}
  /\ subject # "set" => items = <<>> /\ setUnique = FALSE
  /\ subject # "map" => pairs = <<>> /\ mapUnique = FALSE
  /\ subject # "timer" => prompt = TRUE
  /\ subject # "launch" => asked = "registry"
  /\ subject # "hooks" => hookSystem = "win"
  /\ Init /\ Set!Init /\ Map!Init /\ Call!Init /\ OneThread!Init
  /\ Quit!Init /\ Commands!Init /\ Launch!Init /\ Hooks!Init

MCNext ==
  /\ UNCHANGED subject
  /\ \/ subject = "options" /\ Next
     \/ subject = "set" /\ Set!Next
     \/ subject = "map" /\ Map!Next
     \/ subject = "call" /\ Call!Next
     \/ subject \in {"timer", "calls"} /\ OneThread!Next
     \/ subject = "quit" /\ Quit!Next
     \/ subject = "commands" /\ Commands!Next
     \/ subject = "launch" /\ Launch!Next
     \/ subject = "hooks" /\ Hooks!Next
  /\ subject # "options" => UNCHANGED vars
  /\ subject # "set" => UNCHANGED setVars
  /\ subject # "map" => UNCHANGED mapVars
  /\ subject # "call" => UNCHANGED queueVars
  /\ subject # "timer" => UNCHANGED timerVars
  /\ subject # "calls" => UNCHANGED callVars
  /\ subject # "quit" => UNCHANGED quitVars
  /\ subject # "commands" => UNCHANGED commandVars
  /\ subject # "launch" => UNCHANGED launchVars
  /\ subject # "hooks" => UNCHANGED hookVars

MCSpec == /\ MCInit
          /\ [][MCNext]_<<subject, vars, setVars, mapVars, queueVars, timerVars, callVars,
                          quitVars, commandVars, launchVars, hookVars>>
          /\ WF_vars(Disk) /\ WF_vars(Fill) /\ Call!Fairness
          /\ OneThread!Fairness /\ Quit!Fairness /\ Commands!Fairness
          /\ Launch!Fairness /\ Hooks!Fairness

MCJson == {"true", "false", "zero", "one", "half"}
MCKindOf == [j \in MCJson |-> CASE j \in {"true", "false"} -> "bool"
                               [] j \in {"zero", "one"} -> "int"
                               [] OTHER -> "double"]
MCKind == [o \in {"toggle", "number"} |-> IF o = "toggle" THEN "bool" ELSE "int"]
MCDefault == [o \in {"toggle", "number"} |-> IF o = "toggle" THEN "false" ELSE "one"]

-----------------------------------------------------------------------------
\* The type invariants of all.
TypesOK ==
  /\ TypeOK /\ Set!TypeOK /\ Map!TypeOK /\ Call!TypeOK /\ OneThread!TypeOK
  /\ Quit!TypeOK /\ Commands!TypeOK /\ Launch!TypeOK /\ Hooks!TypeOK

\* Containers are sorted, whatever is done to them, as their searches rely on.
ContainersSorted == Set!Sorted /\ Map!Sorted

\* A flat_set or flat_multi_set is a set or a bag of items: no operation loses,
\* keeps or finds what it should not.  A flat_map or flat_multi_map keeps for
\* each key the values put for it, in their order, and every operation is about
\* the key it is called with.
ContainersImplement == /\ [][subject = "set" => Set!Implements]_setVars
                       /\ [][subject = "map" => Map!Implements]_mapVars

\* A timer of one thread is never early and on time again after a sleep, only a
\* confirmed hold or double tap quits, commands and their answers are whole.
EventsAreTrue ==
  /\ OneThread!TimerNeverEarly /\ OneThread!TimerOnTime
  /\ Quit!QuitIsConfirmed /\ Commands!CommandsWhole /\ Commands!DoneIsAnswered

\* A folder opens once, schemes stay ours, the registry is left whole; and no
\* hook calls a ProcessCallback that is not set or tells of keys what is not so.
DesktopIsServed ==
  /\ Launch!OpenedOnce /\ Launch!SchemeIsOurs /\ Launch!RegistryIsWhole
  /\ Hooks!HooksHaveCallback /\ Hooks!TapHasCallback /\ Hooks!MacToldIsTrue

\* Options are written, every call() is answered by a run of the callback that
\* reads its data, delayed calls run, the question whether to quit ends,
\* commands are fired, launches come to their end, and Stop() of a hook returns.
WorkEnds ==
  /\ WritesCome /\ Call!CallsAnswered /\ OneThread!CallsRun /\ Quit!AttemptEnds /\ Commands!CommandsArrive
  /\ Launch!LaunchEnds /\ Hooks!StopReturns /\ Hooks!MacStopReturns
=============================================================================
