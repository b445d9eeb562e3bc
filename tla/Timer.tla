-------------------------------- MODULE Timer --------------------------------
(***************************************************************************)
(* base::Timer, a callback on a Qt timer, and DelayedCallTimer, callbacks  *)
(* by the id of their Qt timer.  Times are relative to now: nextIn is how  *)
(* far _next lies ahead of crl::now(), left is what the Qt timer, which    *)
(* does not count sleep, has left.  The timers are precise; a coarse one   *)
(* may be off by a twentieth.                                              *)
(***************************************************************************)
EXTENDS Integers, FiniteSets

CONSTANTS
  TimerTimeouts, \* of callOnce(), callEach() and call()
  Sleeps,        \* how far crl::now() jumps after a sleep
  MaxTicks,      \* bound on the time since a start
  MaxSleeps,     \* bound on the sleeps
  Calls,         \* of DelayedCallTimer
  Ids, NoId      \* of its Qt timers

VARIABLES
  prompt,       \* events are served before time passes
  active,       \* _timerId is not 0
  each,         \* _repeat is Interval
  _adjusted,
  _timeout,
  nextIn,       \* _next - crl::now()
  left,         \* what the Qt timer has left
  qtInterval,   \* what the Qt timer was started with
  adjustPosted, \* adjust() is queued
  elapsed,      \* crl::now() since the start
  fires,        \* calls of the callback since the start
  sleeps,       \* so far
  called,       \* [Calls -> "new", "waiting", "ran", "cancelled" or "robbed"]
  callId,       \* [Calls -> the id call() returned], kept by who called
  callLeft      \* [Calls -> what its Qt timer has left]

timerVars == <<active, each, _adjusted, _timeout, nextIn, left, qtInterval, elapsed, fires>>
callVars  == <<called, callId, callLeft>>
vars      == <<prompt, timerVars, adjustPosted, sleeps, callVars>>

Init ==
  /\ prompt \in BOOLEAN /\ adjustPosted = FALSE /\ sleeps = 0
  /\ active = FALSE /\ each = FALSE /\ _adjusted = FALSE /\ _timeout = 0
  /\ nextIn = 0 /\ left = 0 /\ qtInterval = 0 /\ elapsed = 0 /\ fires = 0
  /\ called = [c \in Calls |-> "new"] /\ callId = [c \in Calls |-> NoId]
  /\ callLeft = [c \in Calls |-> 0]

\* remainingTime() of an active timer.
Remaining == IF nextIn > 0 THEN nextIn ELSE 0

-----------------------------------------------------------------------------
\* callOnce() and callEach(): start().
Start(timeout, repeats) ==
  /\ active' = TRUE /\ each' = repeats /\ _adjusted' = FALSE /\ _timeout' = timeout
  /\ nextIn' = timeout /\ left' = timeout /\ qtInterval' = timeout
  /\ elapsed' = 0 /\ fires' = 0
  /\ UNCHANGED <<prompt, adjustPosted, sleeps, callVars>>

Cancelled == /\ active' = FALSE /\ nextIn' = 0 /\ left' = 0 /\ qtInterval' = 0
             /\ elapsed' = 0 /\ fires' = 0 /\ _adjusted' = FALSE
Cancel ==
  /\ active /\ Cancelled
  /\ UNCHANGED <<prompt, each, _timeout, adjustPosted, sleeps, callVars>>

\* CheckLocalTime() after a sleep: the clock jumps, and Adjust() queues adjust()
\* for every Timer.  A DelayedCallTimer is not adjusted.
Sleep(d) ==
  /\ sleeps < MaxSleeps /\ elapsed + d <= MaxTicks
  /\ sleeps' = sleeps + 1 /\ adjustPosted' = TRUE
  /\ nextIn' = IF active THEN nextIn - d ELSE 0
  /\ elapsed' = IF active THEN elapsed + d ELSE 0
  /\ UNCHANGED <<prompt, active, each, _adjusted, _timeout, left, qtInterval, fires, callVars>>

\* adjust(): the Qt timer is started again for what remains.
Adjust ==
  /\ adjustPosted /\ adjustPosted' = FALSE
  /\ IF active
     THEN left' = Remaining /\ qtInterval' = Remaining /\ _adjusted' = TRUE
     ELSE UNCHANGED <<left, qtInterval, _adjusted>>
  /\ UNCHANGED <<prompt, active, each, _timeout, nextIn, elapsed, fires, sleeps, callVars>>

\* A Qt timer that repeats keeps its schedule, and drops what it missed.
QtNext == IF left + qtInterval < 0 THEN qtInterval ELSE left + qtInterval

\* timerEvent(), and the callback, whose own calls are steps after it.  fires is
\* not counted for a timeout of 0.
Fired == fires' = IF _timeout = 0 THEN fires ELSE fires + 1
Unchanging == UNCHANGED <<prompt, active, each, _timeout, elapsed, adjustPosted, sleeps, callVars>>
TimerEvent ==
  /\ active /\ left <= 0
  /\ \/ /\ each /\ _adjusted /\ _adjusted' = FALSE
        /\ nextIn' = _timeout /\ left' = _timeout /\ qtInterval' = _timeout
        /\ Fired /\ Unchanging
     \/ /\ each /\ ~_adjusted
        /\ nextIn' = _timeout /\ left' = QtNext
        /\ Fired /\ UNCHANGED <<_adjusted, qtInterval>> /\ Unchanging
     \/ /\ ~each /\ Cancelled
        /\ UNCHANGED <<prompt, each, _timeout, adjustPosted, sleeps, callVars>>

-----------------------------------------------------------------------------
\* DelayedCallTimer.

Waiting == {c \in Calls : called[c] = "waiting"}
InUse == {callId[c] : c \in Waiting}

\* call(): the Qt timer's id may be one that was in use before.
Call(c, timeout) ==
  /\ called[c] = "new"
  /\ \E id \in Ids \ InUse : callId' = [callId EXCEPT ![c] = id]
  /\ called' = [called EXCEPT ![c] = "waiting"]
  /\ callLeft' = [callLeft EXCEPT ![c] = timeout]
  /\ UNCHANGED <<prompt, timerVars, adjustPosted, sleeps>>

\* cancel() by the caller of c, also when its call was made already: the call
\* that has the id now is the one it cancels.
CancelCall(c) ==
  /\ callId[c] # NoId
  /\ called' = [d \in Calls |-> IF d \in Waiting /\ callId[d] = callId[c]
                                THEN IF d = c THEN "cancelled" ELSE "robbed"
                                ELSE called[d]]
  /\ callId' = [callId EXCEPT ![c] = NoId]
  /\ UNCHANGED <<prompt, timerVars, adjustPosted, sleeps, callLeft>>

\* timerEvent(): the callback is taken out before it is called.
CallEvent(c) ==
  /\ c \in Waiting /\ callLeft[c] <= 0
  /\ called' = [called EXCEPT ![c] = "ran"]
  /\ UNCHANGED <<prompt, timerVars, adjustPosted, sleeps, callId, callLeft>>

\* Its own time, for what is asked of it is that it comes.
CallTick(c) ==
  /\ c \in Waiting /\ callLeft[c] > 0
  /\ callLeft' = [callLeft EXCEPT ![c] = @ - 1]
  /\ UNCHANGED <<prompt, timerVars, adjustPosted, sleeps, called, callId>>

-----------------------------------------------------------------------------
\* Time passes.  A prompt thread has served what was due.
Ready == (active /\ left <= 0) \/ adjustPosted
Tick ==
  /\ prompt => ~Ready
  /\ elapsed < MaxTicks
  /\ nextIn' = IF active THEN nextIn - 1 ELSE 0
  /\ left' = IF active THEN left - 1 ELSE 0
  /\ elapsed' = IF active THEN elapsed + 1 ELSE 0
  /\ UNCHANGED <<prompt, active, each, _adjusted, _timeout, qtInterval, adjustPosted, fires,
                 sleeps, callVars>>

Next ==
  \/ \E t \in TimerTimeouts : \/ \E repeats \in BOOLEAN : Start(t, repeats)
                              \/ \E c \in Calls : Call(c, t)
  \/ Cancel \/ Adjust \/ TimerEvent \/ Tick
  \/ \E d \in Sleeps : Sleep(d)
  \/ \E c \in Calls : CallEvent(c) \/ CallTick(c) \/ CancelCall(c)

\* Time passes, and the event loop serves every timer of a call.
Fairness == \A c \in Calls : WF_vars(CallEvent(c) \/ CallTick(c))
Spec == Init /\ [][Next]_vars /\ Fairness

-----------------------------------------------------------------------------
States == {"new", "waiting", "ran", "cancelled", "robbed"}
TypeOK ==
  /\ prompt \in BOOLEAN /\ active \in BOOLEAN /\ each \in BOOLEAN
  /\ _adjusted \in BOOLEAN /\ adjustPosted \in BOOLEAN
  /\ _timeout \in TimerTimeouts \union {0}
  /\ elapsed \in 0..MaxTicks /\ sleeps \in 0..MaxSleeps /\ fires \in Nat
  /\ nextIn \in Int /\ left \in Int /\ qtInterval \in Nat
  /\ called \in [Calls -> States] /\ callId \in [Calls -> Ids \union {NoId}]
  /\ callLeft \in [Calls -> Nat]

\* A timer fires no more often than its timeout, whatever restarts its Qt timer.
TimerNeverEarly == fires * _timeout <= elapsed

\* With a prompt thread the Qt timer and the clock agree once adjust() has run:
\* a timer goes off when it is due, also after a sleep.
TimerOnTime == prompt /\ active /\ ~adjustPosted => left = Remaining

\* Ids are of one call at a time, and a delayed call runs unless it is cancelled,
\* by its caller or by one who kept an id that was given again.
CallsRun ==
  \A c \in Calls : called[c] = "waiting" ~> called[c] \in {"ran", "cancelled", "robbed"}
=============================================================================
