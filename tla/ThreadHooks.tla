------------------------------ MODULE ThreadHooks ------------------------------
(***************************************************************************)
(* The hooks of global shortcuts that a thread of their own reads.  On     *)
(* Windows Start() makes a thread that installs a keyboard and a mouse     *)
(* hook and runs a message loop, in which they call ProcessCallback;       *)
(* Stop() posts WM_QUIT to it and waits.  On macOS Start() makes an event  *)
(* tap and a thread whose run loop reads it; Stop() stops the run loop and *)
(* joins.  Stopping a run loop that does not run has no effect.  The left  *)
(* and the right modifier of a pair share a flag.                          *)
(***************************************************************************)
EXTENDS Naturals

CONSTANTS MaxHooks,          \* bound on the threads that are made on Windows
          PlainKeys, PairedKeys,  \* keys; modifiers that come left and right
          MaxTaps            \* bound on the taps that are made on macOS

VARIABLES
  hookSystem,         \* "win" or "mac"
  \* Windows
  winMain,            \* "idle", or where the owner is in Stop()
  ThreadHandle,       \* there is a thread
  ThreadEvent,        \* "none", "unset" or "set"
  winCallback,        \* ProcessCallback is set
  winThread,          \* "none", "new", "queue", "hooks", "loop", "leaving", "ended"
  quitPosted,
  GlobalHookKeyboard, GlobalHookMouse,
  nullCalled,         \* a hook called a ProcessCallback that was not set
  made,
  \* macOS
  macOwner,        \* "idle", "joining" in Stop(), or "crashed"
  EventPort,       \* the tap is there, with its source
  ThreadRunLoop,   \* "null", "loop", or "freed" when its thread is gone
  tapThread,       \* "none", "new", "known", "running" or "done"
  stopRequested,   \* of the run loop that runs
  tooEarly,        \* CFRunLoopStop() was called and the loop did not run yet
  macCallback,     \* ProcessCallback is set
  nullCall,        \* it was called and was not
  macDown,         \* keys that are down
  macTold,         \* keys the callback was last told are down
  macUnseen,       \* keys of which it was last told something else
  taps

winVars == <<winMain, ThreadHandle, ThreadEvent, winCallback, winThread, quitPosted,
             GlobalHookKeyboard, GlobalHookMouse, nullCalled, made>>
macVars == <<macOwner, EventPort, ThreadRunLoop, tapThread, stopRequested, tooEarly,
             macCallback, nullCall, macDown, macTold, macUnseen, taps>>
vars == <<hookSystem, winVars, macVars>>
ownerVars == <<winMain, ThreadHandle, winCallback, made>>
keyVars == <<macDown, macTold, macUnseen>>

Modifiers == PairedKeys \X {"left", "right"}
MacKeys == (PlainKeys \X {"only"}) \union Modifiers

WinInit ==
        /\ winMain = "idle" /\ ThreadHandle = FALSE /\ ThreadEvent = "none"
        /\ winCallback = FALSE /\ winThread = "none" /\ quitPosted = FALSE
        /\ GlobalHookKeyboard = FALSE /\ GlobalHookMouse = FALSE
        /\ nullCalled = FALSE /\ made = 0

MacInit ==
        /\ macOwner = "idle" /\ EventPort = FALSE /\ ThreadRunLoop = "null"
        /\ tapThread = "none" /\ stopRequested = FALSE /\ tooEarly = FALSE
        /\ macCallback = FALSE /\ nullCall = FALSE /\ taps = 0
        /\ macDown = {} /\ macTold = {} /\ macUnseen = {}

Init == hookSystem \in {"win", "mac"} /\ WinInit /\ MacInit

-----------------------------------------------------------------------------
\* The owner on Windows.

\* CreateEvent() and CreateThread() may fail: all is as it was then.
Start ==
  /\ winMain = "idle" /\ ~ThreadHandle /\ made < MaxHooks
  /\ \/ /\ ThreadHandle' = TRUE /\ ThreadEvent' = "unset" /\ winCallback' = TRUE
        /\ winThread' = "new" /\ made' = made + 1
     \/ UNCHANGED <<ThreadHandle, ThreadEvent, winCallback, winThread, made>>
  /\ quitPosted' = FALSE
  /\ UNCHANGED <<winMain, GlobalHookKeyboard, GlobalHookMouse, nullCalled>>

\* Stop() after a Start() that failed returns at once.
Stop ==
  /\ winMain = "idle" /\ ThreadHandle
  /\ winMain' = "waitEvent"
  /\ UNCHANGED <<ThreadHandle, ThreadEvent, winCallback, winThread, quitPosted,
                 GlobalHookKeyboard, GlobalHookMouse, nullCalled, made>>

\* PostThreadMessage() reaches a thread that has a queue.
PostQuit ==
  /\ winMain = "waitEvent" /\ ThreadEvent = "set"
  /\ winMain' = "waitThread"
  /\ quitPosted' = (winThread \in {"queue", "hooks", "loop"})
  /\ UNCHANGED <<ThreadHandle, ThreadEvent, winCallback, winThread,
                 GlobalHookKeyboard, GlobalHookMouse, nullCalled, made>>

ThreadGone ==
  /\ winMain = "waitThread" /\ winThread = "ended"
  /\ winMain' = "idle" /\ ThreadHandle' = FALSE /\ ThreadEvent' = "none"
  /\ winCallback' = FALSE /\ winThread' = "none"
  /\ UNCHANGED <<quitPosted, GlobalHookKeyboard, GlobalHookMouse, nullCalled, made>>

-----------------------------------------------------------------------------
\* RunThread().

Thread(from, to) == winThread = from /\ winThread' = to /\ UNCHANGED ownerVars

\* PeekMessage() makes the queue, then the event is set.
MakeQueue ==
  /\ Thread("new", "queue")
  /\ ThreadEvent' = "set"
  /\ UNCHANGED <<quitPosted, GlobalHookKeyboard, GlobalHookMouse, nullCalled>>

HookKeyboard ==
  /\ Thread("queue", "hooks")
  /\ GlobalHookKeyboard' \in BOOLEAN
  /\ UNCHANGED <<ThreadEvent, quitPosted, GlobalHookMouse, nullCalled>>

\* With one of the two missing the thread does not enter its loop.
HookMouse ==
  /\ winThread = "hooks"
  /\ GlobalHookMouse' \in BOOLEAN
  /\ winThread' = IF GlobalHookKeyboard /\ GlobalHookMouse' THEN "loop" ELSE "leaving"
  /\ UNCHANGED <<ownerVars, ThreadEvent, quitPosted, GlobalHookKeyboard, nullCalled>>

\* LowLevelKeyboardProc() and LowLevelMouseProc(), from GetMessage().
Hooked ==
  /\ winThread = "loop" /\ GlobalHookKeyboard
  /\ nullCalled' = (nullCalled \/ ~winCallback)
  /\ UNCHANGED <<ownerVars, ThreadEvent, winThread, quitPosted,
                 GlobalHookKeyboard, GlobalHookMouse>>

Quit ==
  /\ Thread("loop", "leaving") /\ quitPosted
  /\ UNCHANGED <<ThreadEvent, quitPosted, GlobalHookKeyboard, GlobalHookMouse, nullCalled>>

\* The guard unhooks what was hooked.
Unhook ==
  /\ Thread("leaving", "ended")
  /\ GlobalHookKeyboard' = FALSE /\ GlobalHookMouse' = FALSE
  /\ UNCHANGED <<ThreadEvent, quitPosted, nullCalled>>

-----------------------------------------------------------------------------
\* The owner on macOS.

\* Without the tap or its source all is as it was.
MacStart ==
  /\ macOwner = "idle" /\ ~EventPort /\ taps < MaxTaps
  /\ EventPort' \in BOOLEAN
  /\ macCallback' = EventPort'
  /\ tapThread' = IF EventPort' THEN "new" ELSE "none"
  /\ taps' = taps + 1 /\ stopRequested' = FALSE /\ tooEarly' = FALSE
  /\ macTold' = {} /\ macUnseen' = macDown
  /\ UNCHANGED <<macOwner, ThreadRunLoop, nullCall, macDown>>

\* CFRunLoopStop(ThreadRunLoop), before the thread set it or after it ended
\* crashes or does nothing, and before CFRunLoopRun() does nothing.
MacStop ==
  /\ macOwner = "idle" /\ EventPort
  /\ LET unset == tapThread = "new"
     IN macOwner' \in IF unset THEN {"crashed", "joining"} ELSE {"joining"}
  /\ stopRequested' = (tapThread = "running")
  /\ tooEarly' = (tapThread # "running")
  /\ UNCHANGED <<EventPort, ThreadRunLoop, tapThread, macCallback, nullCall, keyVars, taps>>

\* Thread.join(), then the tap, its source and the callback go.
MacJoined ==
  /\ macOwner = "joining" /\ tapThread = "done"
  /\ macOwner' = "idle" /\ EventPort' = FALSE /\ macCallback' = FALSE
  /\ tapThread' = "none"
  /\ UNCHANGED <<ThreadRunLoop, stopRequested, tooEarly, nullCall, keyVars, taps>>

-----------------------------------------------------------------------------
\* The thread of Start().

KnowLoop ==
  /\ tapThread = "new" /\ tapThread' = "known" /\ ThreadRunLoop' = "loop"
  /\ UNCHANGED <<macOwner, EventPort, stopRequested, tooEarly, macCallback, nullCall,
                 keyVars, taps>>

RunLoop ==
  /\ tapThread = "known" /\ tapThread' = "running"
  /\ UNCHANGED <<macOwner, EventPort, ThreadRunLoop, stopRequested, tooEarly,
                 macCallback, nullCall, keyVars, taps>>

LeaveLoop ==
  /\ tapThread = "running" /\ stopRequested
  /\ tapThread' = "done" /\ ThreadRunLoop' = "freed"
  /\ UNCHANGED <<macOwner, EventPort, stopRequested, tooEarly, macCallback, nullCall,
                 keyVars, taps>>

\* A key goes up or down.  ProcessKeyEvent() tells of a modifier what the flag
\* of its pair says, so that one released while the other is held is told down.
Flag(k, down) == \E m \in down : k \in Modifiers /\ m \in Modifiers /\ m[1] = k[1]
SaidDown(k, down) == IF k \in Modifiers THEN Flag(k, down) ELSE k \in down

Toggle(k) ==
  /\ LET down == IF k \in macDown THEN macDown \ {k} ELSE macDown \union {k}
     IN /\ macDown' = down
        /\ IF tapThread = "running"
           THEN /\ nullCall' = (nullCall \/ ~macCallback)
                /\ macTold' = IF SaidDown(k, down) THEN macTold \union {k} ELSE macTold \ {k}
                /\ macUnseen' = IF SaidDown(k, down) = (k \in down)
                                THEN macUnseen \ {k} ELSE macUnseen \union {k}
           ELSE /\ macUnseen' = macUnseen \union {k}
                /\ UNCHANGED <<nullCall, macTold>>
  /\ UNCHANGED <<macOwner, EventPort, ThreadRunLoop, tapThread, stopRequested,
                 tooEarly, macCallback, taps>>

-----------------------------------------------------------------------------
RunThread == MakeQueue \/ HookKeyboard \/ HookMouse \/ Quit \/ Unhook
WinNext == Start \/ Stop \/ PostQuit \/ ThreadGone \/ RunThread \/ Hooked

TapThread == KnowLoop \/ RunLoop \/ LeaveLoop
MacNext == MacStart \/ MacStop \/ MacJoined \/ TapThread \/ \E k \in MacKeys : Toggle(k)

Win(A) == hookSystem = "win" /\ A /\ UNCHANGED <<hookSystem, macVars>>
Mac(A) == hookSystem = "mac" /\ macOwner # "crashed" /\ A /\ UNCHANGED <<hookSystem, winVars>>
Next == Win(WinNext) \/ Mac(MacNext)

\* Both threads run, and who waits for one goes on when it has ended.
Fairness == /\ WF_vars(Win(RunThread)) /\ WF_vars(Win(PostQuit \/ ThreadGone))
            /\ WF_vars(Mac(TapThread)) /\ WF_vars(Mac(MacJoined))
Spec == Init /\ [][Next]_vars /\ Fairness

-----------------------------------------------------------------------------
TypeOK ==
  /\ hookSystem \in {"win", "mac"}
  /\ winMain \in {"idle", "waitEvent", "waitThread"}
  /\ ThreadEvent \in {"none", "unset", "set"}
  /\ winThread \in {"none", "new", "queue", "hooks", "loop", "leaving", "ended"}
  /\ ThreadHandle \in BOOLEAN /\ winCallback \in BOOLEAN /\ quitPosted \in BOOLEAN
  /\ GlobalHookKeyboard \in BOOLEAN /\ GlobalHookMouse \in BOOLEAN /\ nullCalled \in BOOLEAN
  /\ macOwner \in {"idle", "joining", "crashed"}
  /\ ThreadRunLoop \in {"null", "loop", "freed"}
  /\ tapThread \in {"none", "new", "known", "running", "done"}
  /\ EventPort \in BOOLEAN /\ stopRequested \in BOOLEAN /\ tooEarly \in BOOLEAN
  /\ macCallback \in BOOLEAN /\ nullCall \in BOOLEAN
  /\ macDown \subseteq MacKeys /\ macTold \subseteq MacKeys /\ macUnseen \subseteq MacKeys

\* The hooks never call a callback that was taken away, and are not left in
\* when the thread is gone, also when only one of them could be installed.
HooksHaveCallback ==
  /\ ~nullCalled
  /\ GlobalHookKeyboard \/ GlobalHookMouse => ThreadHandle /\ winCallback

\* Stop() returns, however far the thread has come when it is called.
StopReturns == winMain # "idle" ~> winMain = "idle"

\* The tap is read only while its callback is there, and Stop() finds a run loop
\* of this thread, not of the one before, once the loop runs.
TapHasCallback ==
  /\ ~nullCall
  /\ tapThread = "running" => EventPort /\ macCallback /\ ThreadRunLoop = "loop"

\* The callback knows which keys are down, except a key that changed while the
\* tap was not read and a modifier released while its pair's other one is held.
MacToldIsTrue == tapThread = "running" => macTold \ macUnseen = macDown \ macUnseen

\* Stop() returns if it was called when the run loop ran; called earlier it
\* waits for ever, or crashes.
MacStopReturns == macOwner = "joining" /\ ~tooEarly ~> macOwner = "idle"
===============================================================================
