-------------------------- MODULE MainThread_proofs --------------------------
(***************************************************************************)
(* What the main thread does from its event loop, for every set of         *)
(* timeouts, sleeps, calls, instances, launches and keys: timers are never *)
(* early and, on a prompt thread, on time, only a confirmed attempt quits, *)
(* commands are whole and answered; a folder opens once, url schemes and   *)
(* the registry are as they should be, and no hook calls a callback that   *)
(* is not set; and containers stay sorted and implement the abstract ones, *)
(* as long as modify() moves an item past one other at most.               *)
(***************************************************************************)
EXTENDS MCMainThread, SequenceTheorems, FiniteSetTheorems, TLAPS

-----------------------------------------------------------------------------
(***************************************************************************)
(* Timer.  The callback after the ones that ran is not due before the Qt   *)
(* timer goes off, nor before _next: so that neither a schedule the Qt     *)
(* timer keeps nor a restart for what remains makes it early.              *)
(***************************************************************************)
Spent == fires * _timeout

FlagsTyped ==
  /\ prompt \in BOOLEAN /\ active \in BOOLEAN /\ each \in BOOLEAN
  /\ _adjusted \in BOOLEAN /\ adjustPosted \in BOOLEAN
TimesTyped ==
  /\ _timeout \in TimerTimeouts \union {0}
  /\ elapsed \in 0..MaxTicks /\ sleeps \in 0..MaxSleeps /\ fires \in Nat
  /\ nextIn \in Int /\ left \in Int /\ qtInterval \in Nat
TimerTyped == FlagsTyped /\ TimesTyped
CallsTyped ==
  /\ called \in [Calls -> OneThread!States] /\ callId \in [Calls -> Ids \union {NoId}]
  /\ callLeft \in [Calls -> Nat]

TimerIInv ==
  /\ TimerTyped /\ CallsTyped
  /\ IF active THEN Spent <= elapsed ELSE Spent = 0 /\ elapsed = 0
  /\ active => Spent + _timeout <= elapsed + left /\ Spent + _timeout <= elapsed + nextIn
  /\ active /\ ~_adjusted => qtInterval = _timeout
  /\ prompt /\ active => left >= 0 /\ (~adjustPosted => left = OneThread!Remaining)

(***************************************************************************)
(* ConfirmQuit.  While the keys are held, what is left until targetDate    *)
(* and the time since the attempt are one whole, and a round that has      *)
(* confirmed it has waited long enough.                                    *)
(***************************************************************************)
QuitIInv ==
  /\ Quit!TypeOK
  /\ Quit!QuitIsConfirmed
  /\ modal # "no" => quit = "none"
  /\ modal = "doubleTap" => doubleTap
  /\ modal = "hold" => /\ untilTarget = ShowDuration - held /\ ~doubleTap
                       /\ willQuit => held > ShowDuration - Fuzz

(***************************************************************************)
(* InstanceCommands.  What was read and what was not yet, one after the    *)
(* other, is whole messages, of which every second part is the end.  What  *)
(* is fired, or answered, is no more than what was read.                   *)
(***************************************************************************)
Streams == Seq(Commands!AllParts)

Parted(parts, before) ==
  \A i \in 1 .. Len(parts) : parts[i] = "end" <=> (before + i) % 2 = 0
Whole(read, unread, n) ==
  /\ Parted(read, 0) /\ Parted(unread, Len(read))
  /\ Len(read) + Len(unread) = 2 * n

Rising(out, most) ==
  /\ out \in Seq(1..MaxSends)
  /\ \A i \in 1 .. Len(out) : 2 * out[i] <= most /\ (i > 1 => out[i - 1] < out[i])
WellRead(n, read, unread, out) ==
  /\ Whole(read, unread, n) /\ Rising(out, Len(read))
  /\ read # <<>> /\ Len(read) % 2 = 0 => out # <<>> /\ 2 * out[Len(out)] = Len(read)

Answers(m, unread, got, calls) ==
  /\ Whole(got, unread, m) /\ 2 * calls <= Len(got)
  /\ got # <<>> /\ Len(got) % 2 = 0 => calls > 0
WellAnswered(n, m, unread, got, calls) ==
  /\ got \in Seq(Streams) /\ calls \in Seq(Nat) /\ Len(got) = n /\ Len(calls) = n
  /\ \A i \in 2 .. n : got[i] = <<>> /\ calls[i] = 0
  /\ IF n = 0 THEN m = 0 /\ unread = <<>> ELSE Answers(m, unread, got[1], calls[1])

Session(s) ==
  IF connected[s]
  THEN /\ WellRead(sends[s], data[s], toPrimary[s], fired[s])
       /\ WellAnswered(sends[s], replies[s], toSender[s], received[s], dones[s])
  ELSE /\ ~accepted[s] /\ replies[s] = 0 /\ data[s] = <<>> /\ toPrimary[s] = <<>>
       /\ fired[s] = <<>> /\ toSender[s] = <<>> /\ received[s] = <<>> /\ dones[s] = <<>>

CommandsTyped ==
  /\ connected \in [Senders -> BOOLEAN] /\ accepted \in [Senders -> BOOLEAN]
  /\ sends \in [Senders -> 0..MaxSends] /\ replies \in [Senders -> 0..MaxReplies]
  /\ toPrimary \in [Senders -> Streams] /\ toSender \in [Senders -> Streams]
  /\ data \in [Senders -> Streams]
  /\ DOMAIN fired = Senders /\ DOMAIN received = Senders /\ DOMAIN dones = Senders

CommandsIInv ==
  /\ CommandsTyped
  /\ \A s \in Senders : (accepted[s] => connected[s]) /\ Session(s)

EventsIInv == TimerIInv /\ QuitIInv /\ CommandsIInv

-----------------------------------------------------------------------------
(***************************************************************************)
(* DesktopLaunch.  A call that has not ended and leaves no doubt has       *)
(* opened nothing yet, and who waits on a window is at a step that needs a *)
(* token.                                                                  *)
(***************************************************************************)
LaunchTyped ==
  /\ step \in [Launches -> Launch!AsksToken \union
                 {"notCalled", "managerProxy", "portalProxy", "managerCall", "portalCall", "done"}]
  /\ waitsOn \in [Launches -> Windows \union {NoWindow}]
  /\ focus \in Windows \union {NoWindow} /\ visible \subseteq Windows /\ wayland \in BOOLEAN
  /\ requests \in [Windows -> Nat]
  /\ stranded \subseteq Launches /\ doubtful \subseteq Launches
  /\ openings \in [Launches -> SUBSET {"manager", "portal", "url"}]
ShowIInv ==
  /\ LaunchTyped /\ Launch!OpenedOnce
  /\ \A l \in Launch!Shows : step[l] # "waitToken"
  /\ \A l \in Launch!Shows \ doubtful : step[l] # "done" => openings[l] = {}
  /\ \A l \in Launches : waitsOn[l] # NoWindow => step[l] \in Launch!AsksToken
SchemeIInv ==
  /\ fileMatches \in BOOLEAN /\ registered \in BOOLEAN
  /\ entries \in 0..1 /\ defaultIs \in {"entry", "desktopFile", "other"}
  /\ registered => Launch!Check
RegistryIInv ==
  /\ registry \subseteq UNION {Launch!Written(p) : p \in Protocols}
  /\ handles \subseteq Protocols /\ torn \subseteq Protocols /\ bereft \subseteq Protocols
  /\ Launch!RegistryIsWhole
LaunchIInv == asked \in {"launch", "scheme", "registry"} /\ ShowIInv /\ SchemeIInv /\ RegistryIInv

(***************************************************************************)
(* ThreadHooks.  A hook is in, or a tap read, only at the steps of a       *)
(* thread that the owner has made and not yet waited for.                  *)
(***************************************************************************)
WinIInv ==
  /\ winMain \in {"idle", "waitEvent", "waitThread"}
  /\ ThreadEvent \in {"none", "unset", "set"}
  /\ winThread \in {"none", "new", "queue", "hooks", "loop", "leaving", "ended"}
  /\ ThreadHandle \in BOOLEAN /\ winCallback \in BOOLEAN /\ quitPosted \in BOOLEAN
  /\ GlobalHookKeyboard \in BOOLEAN /\ GlobalHookMouse \in BOOLEAN /\ nullCalled \in BOOLEAN
  /\ ThreadHandle <=> winThread # "none"
  /\ winThread # "none" => winCallback
  /\ GlobalHookKeyboard => winThread \in {"hooks", "loop", "leaving"}
  /\ GlobalHookMouse => winThread \in {"loop", "leaving"}
  /\ ~nullCalled
TapIInv ==
  /\ macOwner \in {"idle", "joining", "crashed"}
  /\ ThreadRunLoop \in {"null", "loop", "freed"}
  /\ tapThread \in {"none", "new", "known", "running", "done"}
  /\ EventPort \in BOOLEAN /\ stopRequested \in BOOLEAN /\ tooEarly \in BOOLEAN
  /\ macCallback \in BOOLEAN /\ nullCall \in BOOLEAN
  /\ tapThread # "none" => EventPort /\ macCallback
  /\ tapThread \in {"known", "running"} => ThreadRunLoop = "loop"
  /\ ~nullCall
KeysIInv ==
  /\ macDown \subseteq Hooks!MacKeys /\ macTold \subseteq Hooks!MacKeys
  /\ macUnseen \subseteq Hooks!MacKeys
  /\ macTold \ macUnseen = macDown \ macUnseen
HooksIInv == hookSystem \in {"win", "mac"} /\ WinIInv /\ TapIInv /\ KeysIInv

DesktopIInv == LaunchIInv /\ HooksIInv

-----------------------------------------------------------------------------
\* One more call of the callback takes one timeout more.
LEMMA SpentFacts ==
  ASSUME TimerTyped
  PROVE  /\ Spent \in Nat
         /\ UNCHANGED <<fires, _timeout>> => Spent' = Spent
         /\ fires' = 0 /\ _timeout' \in Nat => Spent' = 0
         /\ OneThread!Fired /\ UNCHANGED _timeout => Spent' = Spent + _timeout
<1>1. _timeout \in Nat /\ fires \in Nat
  BY EventsAssumption DEF TimerTyped, FlagsTyped, TimesTyped
<1>2. ASSUME NEW n \in Nat, NEW t \in Nat
      PROVE  n * t \in Nat /\ (n + 1) * t = n * t + t /\ 0 * t = 0 /\ n * 0 = 0
  OBVIOUS
<1>3. Spent \in Nat
  BY <1>1, <1>2 DEF Spent
<1>4. OneThread!Fired /\ UNCHANGED _timeout => Spent' = Spent + _timeout
  <2>1. CASE _timeout = 0
    BY <1>1, <1>2, <2>1 DEF Spent, OneThread!Fired
  <2>2. CASE _timeout # 0
    BY <1>1, <1>2, <2>2 DEF Spent, OneThread!Fired
  <2> QED BY <2>1, <2>2
<1> QED BY <1>1, <1>2, <1>3, <1>4 DEF Spent

\* The types of the timer, as numbers.
LEMMA TimerFacts ==
  ASSUME TimerTyped
  PROVE  /\ _timeout \in Nat /\ elapsed \in Nat /\ elapsed <= MaxTicks
         /\ sleeps \in Nat /\ sleeps <= MaxSleeps /\ fires \in Nat
         /\ nextIn \in Int /\ left \in Int /\ qtInterval \in Nat
         /\ MaxTicks \in Nat /\ MaxSleeps \in Nat /\ Spent \in Nat
         /\ OneThread!Remaining \in Nat /\ OneThread!Remaining >= nextIn
BY SpentFacts, EventsAssumption DEF TimerTyped, FlagsTyped, TimesTyped, OneThread!Remaining

\* What the timer does leaves the delayed calls alone.
LEMMA CallsStayTyped == CallsTyped /\ UNCHANGED OneThread!callVars => CallsTyped'
BY DEF CallsTyped, OneThread!callVars, OneThread!States

LEMMA TimerTypes == TimerIInv => OneThread!TypeOK
BY DEF TimerIInv, TimerTyped, FlagsTyped, TimesTyped, CallsTyped, OneThread!TypeOK

\* A timer that is started again has all its timeout to wait.
LEMMA StartKeeps ==
  ASSUME TimerIInv, NEW t \in TimerTimeouts, NEW repeats \in BOOLEAN,
         OneThread!Start(t, repeats)
  PROVE  TimerIInv'
<1>1. t \in Nat /\ TimerTyped /\ CallsTyped
  BY EventsAssumption DEF TimerIInv
<1>2. /\ active' = TRUE /\ each' = repeats /\ _adjusted' = FALSE /\ _timeout' = t
      /\ nextIn' = t /\ left' = t /\ qtInterval' = t /\ elapsed' = 0 /\ fires' = 0
      /\ UNCHANGED <<prompt, adjustPosted, sleeps>> /\ UNCHANGED OneThread!callVars
  BY DEF OneThread!Start
<1>3. Spent' = 0
  BY <1>1, <1>2, SpentFacts
<1>4. elapsed' \in 0..MaxTicks
  BY <1>2, EventsAssumption
<1>5. TimerTyped' /\ CallsTyped'
  <2>1. FlagsTyped'
    BY <1>1, <1>2, Zenon DEF TimerTyped, FlagsTyped
  <2>2. TimesTyped'
    BY <1>1, <1>2, <1>4 DEF TimerTyped, TimesTyped
  <2> QED BY <1>1, <1>2, <2>1, <2>2, CallsStayTyped DEF TimerTyped
<1> QED BY <1>1, <1>2, <1>3, <1>5 DEF TimerIInv, OneThread!Remaining

LEMMA CancelledKeeps ==
  ASSUME TimerIInv, OneThread!Cancelled, UNCHANGED OneThread!callVars,
         UNCHANGED <<prompt, each, _timeout, adjustPosted, sleeps>>
  PROVE  TimerIInv'
<1>1. TimerTyped /\ CallsTyped
  BY DEF TimerIInv
<1>2. /\ active' = FALSE /\ nextIn' = 0 /\ left' = 0 /\ qtInterval' = 0
      /\ elapsed' = 0 /\ fires' = 0 /\ _adjusted' = FALSE
  BY DEF OneThread!Cancelled
<1>3. Spent' = 0
  BY <1>1, <1>2, SpentFacts, TimerFacts
<1>4. elapsed' \in 0..MaxTicks
  BY <1>2, EventsAssumption
<1>5. TimerTyped' /\ CallsTyped'
  <2>1. FlagsTyped'
    BY <1>1, <1>2, Zenon DEF TimerTyped, FlagsTyped
  <2>2. TimesTyped'
    BY <1>1, <1>2, <1>4 DEF TimerTyped, TimesTyped
  <2> QED BY <1>1, <1>2, <2>1, <2>2, CallsStayTyped DEF TimerTyped
<1> QED BY <1>2, <1>3, <1>5 DEF TimerIInv

\* A sleep only brings _next nearer by what passed.
LEMMA SleepKeeps ==
  ASSUME TimerIInv, NEW d \in Sleeps, OneThread!Sleep(d)
  PROVE  TimerIInv'
<1>1. d \in Nat /\ TimerTyped /\ CallsTyped
  BY EventsAssumption DEF TimerIInv
<1>2. /\ sleeps < MaxSleeps /\ elapsed + d <= MaxTicks
      /\ sleeps' = sleeps + 1 /\ adjustPosted' = TRUE
      /\ nextIn' = (IF active THEN nextIn - d ELSE 0)
      /\ elapsed' = (IF active THEN elapsed + d ELSE 0)
      /\ UNCHANGED <<prompt, active, each, _adjusted, _timeout, left, qtInterval, fires>>
      /\ UNCHANGED OneThread!callVars
  BY DEF OneThread!Sleep
<1>3. Spent' = Spent
  BY <1>1, <1>2, SpentFacts
<1>4. elapsed' \in 0..MaxTicks /\ sleeps' \in 0..MaxSleeps /\ nextIn' \in Int
  BY <1>1, <1>2, TimerFacts
<1>5. TimerTyped' /\ CallsTyped'
  <2>1. FlagsTyped'
    BY <1>1, <1>2, Zenon DEF TimerTyped, FlagsTyped
  <2>2. TimesTyped'
    BY <1>1, <1>2, <1>4 DEF TimerTyped, TimesTyped
  <2> QED BY <1>1, <1>2, <2>1, <2>2, CallsStayTyped DEF TimerTyped
<1>6. CASE active
  <2>1. Spent' <= elapsed' /\ Spent' + _timeout' <= elapsed' + left'
    BY <1>1, <1>2, <1>3, <1>6, TimerFacts DEF TimerIInv
  <2>2. Spent' + _timeout' <= elapsed' + nextIn'
    BY <1>1, <1>2, <1>3, <1>6, TimerFacts DEF TimerIInv
  <2>3. /\ ~_adjusted' => qtInterval' = _timeout'
        /\ prompt' => left' >= 0
        /\ active' /\ adjustPosted'
    BY <1>2, <1>6 DEF TimerIInv
  <2> QED BY <1>5, <2>1, <2>2, <2>3 DEF TimerIInv
<1>7. CASE ~active
  BY <1>2, <1>3, <1>5, <1>7 DEF TimerIInv
<1> QED BY <1>6, <1>7

LEMMA AdjustKeeps ==
  ASSUME TimerIInv, OneThread!Adjust
  PROVE  TimerIInv'
<1>1. TimerTyped /\ CallsTyped
  BY DEF TimerIInv
<1>2. /\ ~adjustPosted'
      /\ IF active THEN left' = OneThread!Remaining /\ qtInterval' = OneThread!Remaining
                        /\ _adjusted' = TRUE
                   ELSE UNCHANGED <<left, qtInterval, _adjusted>>
      /\ UNCHANGED <<prompt, active, each, _timeout, nextIn, elapsed, fires, sleeps>>
      /\ UNCHANGED OneThread!callVars
      /\ adjustPosted' = FALSE
  BY DEF OneThread!Adjust
<1>3. Spent' = Spent /\ OneThread!Remaining' = OneThread!Remaining
  BY <1>1, <1>2, SpentFacts DEF OneThread!Remaining
<1>4. left' \in Int /\ qtInterval' \in Nat /\ _adjusted' \in BOOLEAN
  <2>1. CASE active
    BY <1>1, <1>2, <2>1, TimerFacts
  <2>2. CASE ~active
    BY <1>1, <1>2, <2>2 DEF TimerTyped, FlagsTyped, TimesTyped
  <2> QED BY <2>1, <2>2
<1>5. TimerTyped' /\ CallsTyped'
  <2>1. FlagsTyped'
    BY <1>1, <1>2, Zenon DEF TimerTyped, FlagsTyped
  <2>2. TimesTyped'
    BY <1>1, <1>2, <1>4 DEF TimerTyped, TimesTyped
  <2> QED BY <1>1, <1>2, <2>1, <2>2, CallsStayTyped DEF TimerTyped
<1>6. CASE active
  <2>1. left' = OneThread!Remaining /\ _adjusted'
    BY <1>2, <1>6
  <2>2. Spent' + _timeout' <= elapsed' + left' /\ Spent' + _timeout' <= elapsed' + nextIn'
    BY <1>1, <1>2, <1>3, <1>6, <2>1, TimerFacts DEF TimerIInv
  <2>3. Spent' <= elapsed' /\ left' >= 0
    BY <1>1, <1>2, <1>3, <1>6, <2>1, TimerFacts DEF TimerIInv
  <2> QED BY <1>2, <1>3, <1>5, <1>6, <2>1, <2>2, <2>3 DEF TimerIInv
<1>7. CASE ~active
  BY <1>2, <1>3, <1>5, <1>7 DEF TimerIInv
<1> QED BY <1>6, <1>7

\* When the callback runs its time has come, and the next one is a timeout away:
\* on the schedule of the Qt timer or, after an adjust(), by one started anew.
LEMMA TimerEventKeeps ==
  ASSUME TimerIInv, OneThread!TimerEvent
  PROVE  TimerIInv'
<1>1. TimerTyped /\ CallsTyped /\ active /\ left <= 0 /\ Spent + _timeout <= elapsed + left
  BY DEF TimerIInv, OneThread!TimerEvent
<1>2. CASE ~each
  <2>1. /\ OneThread!Cancelled /\ UNCHANGED OneThread!callVars
        /\ UNCHANGED <<prompt, each, _timeout, adjustPosted, sleeps>>
    BY <1>2 DEF OneThread!TimerEvent
  <2> QED BY <2>1, CancelledKeeps
<1>3. CASE each
  <2> DEFINE next == IF _adjusted THEN _timeout ELSE OneThread!QtNext
  <2>1. /\ UNCHANGED <<prompt, active, each, _timeout, elapsed, adjustPosted, sleeps>>
        /\ UNCHANGED OneThread!callVars
        /\ _adjusted' = FALSE /\ nextIn' = _timeout /\ left' = next
        /\ qtInterval' = _timeout /\ OneThread!Fired
    <3>1. CASE _adjusted
      BY <1>3, <1>1, <3>1
         DEF TimerIInv, OneThread!TimerEvent, OneThread!Unchanging, OneThread!callVars
    <3>2. CASE ~_adjusted
      BY <1>3, <1>1, <3>2
         DEF TimerIInv, TimerTyped, FlagsTyped, TimesTyped, OneThread!TimerEvent, OneThread!Unchanging,
             OneThread!callVars
    <3> QED BY <3>1, <3>2
  <2>2. next \in Int /\ next >= IF left + _timeout < 0 THEN _timeout ELSE left + _timeout
    BY <1>1, TimerFacts DEF TimerIInv, OneThread!QtNext
  <2>3. left = 0 => next = _timeout
    BY <1>1, TimerFacts DEF TimerIInv, OneThread!QtNext
  <2>4. prompt => left = 0
    BY <1>1, TimerFacts DEF TimerIInv
  <2> HIDE DEF next
  <2>5. Spent' = Spent + _timeout
    BY <1>1, <2>1, SpentFacts
  <2>6. fires' \in Nat
    BY <1>1, <2>1, TimerFacts DEF OneThread!Fired
  <2>7. TimerTyped' /\ CallsTyped'
    <3>1. FlagsTyped'
      BY <1>1, <2>1, Zenon DEF TimerTyped, FlagsTyped
    <3>2. TimesTyped'
      BY <1>1, <2>1, <2>2, <2>6, TimerFacts DEF TimerTyped, TimesTyped
    <3> QED BY <1>1, <2>1, <3>1, <3>2, CallsStayTyped DEF TimerTyped
  <2>8. /\ Spent' <= elapsed'
        /\ Spent' + _timeout' <= elapsed' + left' /\ Spent' + _timeout' <= elapsed' + nextIn'
    BY <1>1, <2>1, <2>2, <2>5, TimerFacts
  <2>9. prompt => left' = _timeout /\ _timeout >= 0 /\ OneThread!Remaining' = _timeout
    BY <1>1, <2>1, <2>3, <2>4, TimerFacts DEF OneThread!Remaining
  <2> QED BY <1>1, <2>1, <2>7, <2>8, <2>9 DEF TimerIInv
<1>4. each \in BOOLEAN
  BY <1>1 DEF TimerTyped, FlagsTyped, TimesTyped
<1> QED BY <1>2, <1>3, <1>4

LEMMA TickKeeps ==
  ASSUME TimerIInv, OneThread!Tick
  PROVE  TimerIInv'
<1>1. TimerTyped /\ CallsTyped
  BY DEF TimerIInv
<1>2. /\ prompt => ~OneThread!Ready
      /\ elapsed < MaxTicks
      /\ nextIn' = (IF active THEN nextIn - 1 ELSE 0)
      /\ left' = (IF active THEN left - 1 ELSE 0)
      /\ elapsed' = (IF active THEN elapsed + 1 ELSE 0)
      /\ UNCHANGED <<prompt, active, each, _adjusted, _timeout, qtInterval, adjustPosted,
                     fires, sleeps>>
      /\ UNCHANGED OneThread!callVars
  BY DEF OneThread!Tick
<1>3. Spent' = Spent
  BY <1>1, <1>2, SpentFacts
<1>4. elapsed' \in 0..MaxTicks /\ nextIn' \in Int /\ left' \in Int
  BY <1>1, <1>2, TimerFacts
<1>5. TimerTyped' /\ CallsTyped'
  <2>1. FlagsTyped'
    BY <1>1, <1>2, Zenon DEF TimerTyped, FlagsTyped
  <2>2. TimesTyped'
    BY <1>1, <1>2, <1>4 DEF TimerTyped, TimesTyped
  <2> QED BY <1>1, <1>2, <2>1, <2>2, CallsStayTyped DEF TimerTyped
<1>6. CASE active
  <2>1. /\ Spent' <= elapsed'
        /\ Spent' + _timeout' <= elapsed' + left' /\ Spent' + _timeout' <= elapsed' + nextIn'
    BY <1>1, <1>2, <1>3, <1>6, TimerFacts DEF TimerIInv
  <2>2. prompt => left > 0 /\ ~adjustPosted /\ left = OneThread!Remaining
    BY <1>1, <1>2, <1>6, TimerFacts DEF TimerIInv, OneThread!Ready
  <2>3. prompt => left' >= 0 /\ left' = OneThread!Remaining'
    BY <1>1, <1>2, <1>6, <2>2, TimerFacts DEF OneThread!Remaining
  <2> QED BY <1>2, <1>5, <1>6, <2>1, <2>3 DEF TimerIInv
<1>7. CASE ~active
  BY <1>2, <1>3, <1>5, <1>7 DEF TimerIInv
<1> QED BY <1>6, <1>7

\* A delayed call is no business of the timer.
LEMMA CallsKeepTimer ==
  ASSUME TimerIInv, UNCHANGED timerVars,
         UNCHANGED callVars \/ \E c \in Calls :
           \/ \E t \in TimerTimeouts : OneThread!Call(c, t)
           \/ OneThread!CallEvent(c) \/ OneThread!CallTick(c) \/ OneThread!CancelCall(c)
  PROVE  TimerIInv'
<1>1. TimerTyped /\ CallsTyped /\ TimerTimeouts \subseteq Nat
  BY EventsAssumption DEF TimerIInv
<1>2. ASSUME NEW c \in Calls, NEW t \in TimerTimeouts, OneThread!Call(c, t)
      PROVE  CallsTyped'
  BY <1>1, <1>2 DEF OneThread!Call, CallsTyped, OneThread!States
<1>3. ASSUME NEW c \in Calls, OneThread!CallEvent(c) PROVE CallsTyped'
  BY <1>1, <1>3 DEF OneThread!CallEvent, CallsTyped, OneThread!States
<1>4. ASSUME NEW c \in Calls, OneThread!CallTick(c) PROVE CallsTyped'
  BY <1>1, <1>4 DEF OneThread!CallTick, OneThread!Waiting, CallsTyped, OneThread!States
<1>5. ASSUME NEW c \in Calls, OneThread!CancelCall(c) PROVE CallsTyped'
  BY <1>1, <1>5 DEF OneThread!CancelCall, CallsTyped, OneThread!States
<1>6. UNCHANGED callVars => CallsTyped'
  BY <1>1 DEF callVars, CallsTyped, OneThread!States
<1>7. CallsTyped'
  BY <1>2, <1>3, <1>4, <1>5, <1>6
<1>8. TimerTyped'
  BY <1>1 DEF TimerTyped, FlagsTyped, TimesTyped, timerVars
<1>9. Spent' = Spent /\ OneThread!Remaining' = OneThread!Remaining
  BY DEF Spent, OneThread!Remaining, timerVars
<1> QED BY <1>7, <1>8, <1>9 DEF TimerIInv, timerVars

LEMMA TimerStep ==
  ASSUME TimerIInv, OneThread!Next \/ (UNCHANGED timerVars /\ UNCHANGED callVars)
  PROVE  TimerIInv'
<1>1. ASSUME NEW c \in Calls,
             \/ \E t \in TimerTimeouts : OneThread!Call(c, t)
             \/ OneThread!CallEvent(c) \/ OneThread!CallTick(c) \/ OneThread!CancelCall(c)
      PROVE  UNCHANGED timerVars
  BY <1>1 DEF OneThread!Call, OneThread!CallEvent, OneThread!CallTick, OneThread!CancelCall,
              timerVars, OneThread!timerVars
<1>2. OneThread!Cancel => TimerIInv'
  BY CancelledKeeps DEF OneThread!Cancel
<1>3. CASE OneThread!Next
  BY <1>3, <1>1, <1>2, StartKeeps, SleepKeeps, AdjustKeeps, TimerEventKeeps,
     TickKeeps, CallsKeepTimer
     DEF OneThread!Next
<1> QED BY <1>3, CallsKeepTimer

LEMMA TimerStart == OneThread!Init => TimerIInv
<1> SUFFICES ASSUME OneThread!Init PROVE TimerIInv OBVIOUS
<1>1. CallsTyped
  BY DEF OneThread!Init, CallsTyped, OneThread!States
<1>2. TimerTyped
  <2>1. FlagsTyped
    BY Zenon DEF OneThread!Init, FlagsTyped
  <2>2. TimesTyped
    BY EventsAssumption DEF OneThread!Init, TimesTyped
  <2> QED BY <2>1, <2>2 DEF TimerTyped
<1> QED BY <1>1, <1>2 DEF OneThread!Init, TimerIInv, Spent

-----------------------------------------------------------------------------
LEMMA QuitFacts ==
  ASSUME Quit!TypeOK
  PROVE  /\ ShowDuration \in Nat /\ Fuzz \in Nat /\ Fuzz > 0 /\ Fuzz < ShowDuration
         /\ untilTarget \in Nat /\ untilTarget <= ShowDuration
         /\ held \in Nat /\ held <= ShowDuration
         /\ pumpLeft \in Nat /\ pumpLeft <= ShowDuration - Fuzz
         /\ sinceAttempt \in Int /\ sinceAttempt >= -1 /\ sinceAttempt <= Fuzz
BY EventsAssumption DEF Quit!TypeOK, Quit!Never

\* An attempt begins, soon after another one or with all of its time left.
LEMMA PressQKeeps == ASSUME QuitIInv, Quit!PressQ PROVE QuitIInv'
<1>1. Quit!TypeOK /\ Fuzz \in Nat /\ ShowDuration \in Nat /\ Fuzz < ShowDuration /\ Fuzz > 0
  BY EventsAssumption DEF QuitIInv
<1>2. /\ modal = "no" /\ keysDown' = TRUE /\ keyUp' = FALSE /\ quit' = "none" /\ held' = 0
      /\ doubleTap' = Quit!Recent
  BY DEF Quit!PressQ
<1>3. Quit!Recent \in BOOLEAN
  BY DEF Quit!Recent
<1>4. CASE Quit!Recent
  <2>1. /\ modal' = "doubleTap" /\ windows' = "hidden" /\ doubleTap' = TRUE
        /\ UNCHANGED <<sinceAttempt, untilTarget, pumpLeft, willQuit>>
    BY <1>2, <1>4 DEF Quit!PressQ
  <2>2. /\ sinceAttempt' \in Quit!Never .. Fuzz /\ untilTarget' \in 0 .. ShowDuration
        /\ held' \in 0 .. ShowDuration /\ pumpLeft' \in 0 .. (ShowDuration - Fuzz)
    BY <1>1, <1>2, <2>1 DEF Quit!Never, Quit!TypeOK
  <2>3. Quit!TypeOK'
    BY <1>1, <1>2, <2>1, <2>2 DEF Quit!TypeOK
  <2> QED BY <1>2, <2>1, <2>3 DEF QuitIInv, Quit!QuitIsConfirmed
<1>5. CASE ~Quit!Recent
  <2>1. /\ modal' = "hold" /\ windows' = "panel" /\ sinceAttempt' = 0
        /\ untilTarget' = ShowDuration /\ pumpLeft' = ShowDuration - Fuzz
        /\ willQuit' = FALSE /\ doubleTap' = FALSE
    BY <1>2, <1>5 DEF Quit!PressQ
  <2>2. /\ sinceAttempt' \in Quit!Never .. Fuzz /\ untilTarget' \in 0 .. ShowDuration
        /\ held' \in 0 .. ShowDuration /\ pumpLeft' \in 0 .. (ShowDuration - Fuzz)
    BY <1>1, <1>2, <2>1 DEF Quit!Never
  <2>3. Quit!TypeOK'
    BY <1>1, <1>2, <2>1, <2>2 DEF Quit!TypeOK
  <2>4. untilTarget' = ShowDuration - held'
    BY <1>1, <1>2, <2>1
  <2> QED BY <1>2, <2>1, <2>3, <2>4 DEF QuitIInv, Quit!QuitIsConfirmed
<1> QED BY <1>3, <1>4, <1>5

LEMMA ReleaseKeeps == ASSUME QuitIInv, Quit!Release PROVE QuitIInv'
BY DEF QuitIInv, Quit!TypeOK, Quit!QuitIsConfirmed, Quit!Release, Quit!Never

LEMMA DoubleTappedKeeps == ASSUME QuitIInv, Quit!DoubleTapped PROVE QuitIInv'
BY DEF QuitIInv, Quit!TypeOK, Quit!QuitIsConfirmed, Quit!DoubleTapped, Quit!Never

\* A round ends the attempt if the keys were let go: confirmed if and only if
\* they were held for longer than one wait.
LEMMA RoundKeeps == ASSUME QuitIInv, Quit!Round PROVE QuitIInv'
<1>1. /\ Quit!TypeOK /\ modal = "hold" /\ untilTarget = ShowDuration - held /\ ~doubleTap
      /\ (willQuit => held > ShowDuration - Fuzz) /\ quit = "none"
  BY DEF QuitIInv, Quit!Round
<1>2. /\ willQuit' = Quit!Confirmed /\ pumpLeft' = ShowDuration - Fuzz
      /\ UNCHANGED <<keysDown, sinceAttempt, untilTarget, held, doubleTap>>
  BY DEF Quit!Round
<1>3. Quit!Confirmed \in BOOLEAN /\ (Quit!Confirmed <=> held > ShowDuration - Fuzz)
  BY <1>1, QuitFacts DEF Quit!Confirmed, Quit!TypeOK
<1>4. pumpLeft' \in 0 .. (ShowDuration - Fuzz)
  BY <1>1, <1>2, QuitFacts
<1>5. CASE keyUp
  <2>1. /\ keyUp' = FALSE /\ modal' = "no"
        /\ quit' = (IF Quit!Confirmed THEN "yes" ELSE "no")
        /\ windows' = (IF Quit!Confirmed THEN "hidden" ELSE "shown")
    BY <1>5 DEF Quit!Round
  <2>2. Quit!TypeOK'
    BY <1>1, <1>2, <1>3, <1>4, <2>1 DEF Quit!TypeOK, Quit!Never
  <2>3. Quit!QuitIsConfirmed'
    BY <1>1, <1>2, <1>3, <2>1, QuitFacts DEF Quit!QuitIsConfirmed
  <2> QED BY <2>1, <2>2, <2>3 DEF QuitIInv
<1>6. CASE ~keyUp
  <2>1. /\ windows' = (IF Quit!Confirmed THEN "hidden" ELSE windows)
        /\ UNCHANGED <<keyUp, modal, quit>>
    BY <1>6 DEF Quit!Round
  <2>2. Quit!TypeOK'
    BY <1>1, <1>2, <1>3, <1>4, <2>1 DEF Quit!TypeOK, Quit!Never
  <2> QED BY <1>1, <1>2, <1>3, <2>1, <2>2 DEF QuitIInv, Quit!QuitIsConfirmed
<1> QED BY <1>1, <1>5, <1>6 DEF Quit!TypeOK

LEMMA QuitTickKeeps == ASSUME QuitIInv, Quit!Tick PROVE QuitIInv'
<1>1. Quit!TypeOK
  BY DEF QuitIInv
<1>2. /\ UNCHANGED <<modal, keysDown, keyUp, willQuit, windows, quit, doubleTap>>
      /\ untilTarget' = (IF untilTarget > 0 THEN untilTarget - 1 ELSE 0)
      /\ pumpLeft' = (IF pumpLeft > 0 THEN pumpLeft - 1 ELSE 0)
      /\ held' = (IF modal # "no" /\ held < ShowDuration THEN held + 1 ELSE held)
      /\ sinceAttempt' = IF sinceAttempt \in 0..(Fuzz - 1) THEN sinceAttempt + 1 ELSE sinceAttempt
  BY DEF Quit!Tick, Quit!Less
<1>3. /\ sinceAttempt' \in Quit!Never .. Fuzz /\ untilTarget' \in 0 .. ShowDuration
      /\ held' \in 0 .. ShowDuration /\ pumpLeft' \in 0 .. (ShowDuration - Fuzz)
  BY <1>1, <1>2, QuitFacts DEF Quit!Never
<1>4. Quit!TypeOK'
  BY <1>1, <1>2, <1>3 DEF Quit!TypeOK
<1>5. CASE modal = "no"
  BY <1>2, <1>4, <1>5 DEF QuitIInv, Quit!QuitIsConfirmed
<1>6. CASE modal # "no"
  <2>1. modal = "hold" => untilTarget' = ShowDuration - held' /\ held' >= held
    BY <1>1, <1>2, <1>6, QuitFacts DEF QuitIInv
  <2>2. modal = "hold" /\ willQuit => held' > ShowDuration - Fuzz
    BY <1>1, <1>2, <1>3, <1>6, <2>1, QuitFacts DEF QuitIInv
  <2> QED BY <1>2, <1>4, <1>6, <2>1, <2>2 DEF QuitIInv, Quit!QuitIsConfirmed
<1> QED BY <1>5, <1>6

LEMMA QuitStep == ASSUME QuitIInv, Quit!Next \/ UNCHANGED quitVars PROVE QuitIInv'
<1>1. UNCHANGED quitVars => QuitIInv'
  BY DEF QuitIInv, Quit!TypeOK, Quit!QuitIsConfirmed, Quit!Never, quitVars
<1> QED BY <1>1, PressQKeeps, ReleaseKeeps, DoubleTappedKeeps, RoundKeeps, QuitTickKeeps
        DEF Quit!Next

LEMMA QuitStart == Quit!Init => QuitIInv
<1> SUFFICES ASSUME Quit!Init PROVE QuitIInv OBVIOUS
<1>1. /\ sinceAttempt \in Quit!Never .. Fuzz /\ untilTarget \in 0 .. ShowDuration
      /\ held \in 0 .. ShowDuration /\ pumpLeft \in 0 .. (ShowDuration - Fuzz)
  BY EventsAssumption DEF Quit!Init, Quit!Never
<1>2. Quit!TypeOK
  BY <1>1, Zenon DEF Quit!Init, Quit!TypeOK
<1> QED BY <1>2 DEF Quit!Init, QuitIInv, Quit!QuitIsConfirmed
-----------------------------------------------------------------------------
LEMMA CommandsCardinality == \A S : Commands!Cardinality(S) = Cardinality(S)
BY DEF Commands!Cardinality, Cardinality

\* The parts that end a message are every second one.
LEMMA EndsHalf ==
  ASSUME NEW parts \in Streams, Parted(parts, 0)
  PROVE  /\ Commands!Ends(parts) = Len(parts) \div 2
         /\ Commands!Decoded(parts) <=> parts # <<>> /\ Len(parts) % 2 = 0
<1> DEFINE n == Len(parts)
           half == n \div 2
           ends == {i \in DOMAIN parts : parts[i] = "end"}
           twice == [j \in 1 .. half |-> 2 * j]
<1>1. n \in Nat /\ half \in Nat /\ DOMAIN parts = 1 .. n /\ 2 * half <= n /\ n <= 2 * half + 1
  BY DEF Streams
<1>2. ends = {i \in 1 .. n : i % 2 = 0}
  BY <1>1 DEF Parted
<1>3. \A i \in 1 .. n : i % 2 = 0 => \E j \in 1 .. half : i = 2 * j
  <2> SUFFICES ASSUME NEW i \in 1 .. n, i % 2 = 0 PROVE \E j \in 1 .. half : i = 2 * j
    OBVIOUS
  <2>1. i \div 2 \in Nat /\ i = 2 * (i \div 2) /\ i \in Nat /\ i >= 1 /\ i <= n
    BY <1>1
  <2> HIDE DEF n, half
  <2>2. i \div 2 \in 1 .. half
    BY <1>1, <2>1
  <2> QED BY <2>1, <2>2
<1>4. \A j \in 1 .. half : 2 * j \in ends
  <2> SUFFICES ASSUME NEW j \in 1 .. half PROVE 2 * j \in ends OBVIOUS
  <2>1. j \in Nat /\ 1 <= j /\ j <= half /\ (2 * j) % 2 = 0 /\ 2 * j \in Nat
    BY <1>1
  <2> HIDE DEF n, half
  <2> QED BY <1>1, <1>2, <2>1
<1>5. twice \in Bijection(1 .. half, ends)
  <2> HIDE DEF ends, half, n
  <2>1. twice \in [1 .. half -> ends]
    BY <1>4
  <2>2. \A i, j \in 1 .. half : twice[i] = twice[j] => i = j
    BY <1>1
  <2>3. \A e \in ends : \E j \in 1 .. half : twice[j] = e
    BY <1>2, <1>3
  <2> HIDE DEF twice
  <2> QED BY <2>1, <2>2, <2>3 DEF Bijection, Injection, Surjection, IsInjective
<1>6. IsFiniteSet(1 .. half) /\ Cardinality(1 .. half) = half
  <2> HIDE DEF half
  <2>1. 1 \in Int /\ half \in Int /\ (IF 1 > half THEN 0 ELSE half - 1 + 1) = half
    BY <1>1
  <2> QED BY <2>1, FS_Interval
<1>7. Cardinality(ends) = half
  <2> HIDE DEF ends, half, twice
  <2> QED BY <1>5, <1>6, FS_Bijection DEF ExistsBijection
<1>8. Commands!Ends(parts) = half
  BY <1>7, CommandsCardinality, Zenon DEF Commands!Ends
<1>9. Commands!Decoded(parts) <=> parts # <<>> /\ n % 2 = 0
  <2>1. CASE parts = <<>>
    BY <2>1 DEF Commands!Decoded
  <2>2. CASE parts # <<>>
    <3>1. n \in 1 .. n
      BY <1>1, <2>2 DEF Streams
    <3>2. parts[n] = "end" <=> n % 2 = 0
      BY <1>1, <3>1 DEF Parted
    <3> QED BY <2>2, <3>2 DEF Commands!Decoded, Commands!Last
  <2> QED BY <2>1, <2>2
<1> QED BY <1>8, <1>9

\* Reading takes parts from the one to the other and changes none.
LEMMA ReadStaysWhole ==
  ASSUME NEW read \in Streams, NEW unread \in Streams, NEW n \in Nat,
         Whole(read, unread, n), NEW k \in 1 .. Len(unread)
  PROVE  /\ Whole(read \o SubSeq(unread, 1, k), SubSeq(unread, k + 1, Len(unread)), n)
         /\ read \o SubSeq(unread, 1, k) \in Streams
         /\ SubSeq(unread, k + 1, Len(unread)) \in Streams
         /\ Len(read \o SubSeq(unread, 1, k)) = Len(read) + k
<1> DEFINE now == SubSeq(unread, 1, k)
           rest == SubSeq(unread, k + 1, Len(unread))
<1>1. /\ Len(read) \in Nat /\ Len(unread) \in Nat /\ k \in Nat /\ 1 <= k /\ k <= Len(unread)
  BY DEF Streams
<1>2. now \in Streams /\ Len(now) = k /\ \A i \in 1 .. k : now[i] = unread[i]
  BY <1>1 DEF Streams
<1>3. rest \in Streams /\ Len(rest) = Len(unread) - k
      /\ \A i \in 1 .. Len(unread) - k : rest[i] = unread[k + i]
  BY <1>1 DEF Streams
<1> HIDE DEF now, rest
<1>4. /\ read \o now \in Streams /\ Len(read \o now) = Len(read) + k
      /\ \A i \in 1 .. Len(read) + k :
           (read \o now)[i] = IF i <= Len(read) THEN read[i] ELSE now[i - Len(read)]
  BY <1>1, <1>2 DEF Streams
<1>5. Parted(read \o now, 0)
  <2> SUFFICES ASSUME NEW i \in 1 .. Len(read) + k
               PROVE  (read \o now)[i] = "end" <=> i % 2 = 0
    BY <1>1, <1>4 DEF Parted
  <2>1. CASE i <= Len(read)
    BY <1>1, <1>4, <2>1 DEF Whole, Parted
  <2>2. CASE i > Len(read)
    <3>1. i - Len(read) \in 1 .. k /\ i - Len(read) \in 1 .. Len(unread)
          /\ Len(read) + (i - Len(read)) = i
      BY <1>1, <2>2
    <3>2. (read \o now)[i] = unread[i - Len(read)]
      BY <1>1, <1>2, <1>4, <2>2, <3>1
    <3> QED BY <3>1, <3>2 DEF Whole, Parted
  <2>3. i <= Len(read) \/ i > Len(read)
    BY <1>1
  <2> QED BY <2>1, <2>2, <2>3, Zenon
<1>6. Parted(rest, Len(read) + k)
  <2> SUFFICES ASSUME NEW i \in 1 .. Len(unread) - k
               PROVE  rest[i] = "end" <=> ((Len(read) + k) + i) % 2 = 0
    BY <1>3 DEF Parted
  <2>1. k + i \in 1 .. Len(unread) /\ Len(read) + (k + i) = (Len(read) + k) + i
    BY <1>1
  <2>2. rest[i] = unread[k + i]
    BY <1>3
  <2> QED BY <2>1, <2>2 DEF Whole, Parted
<1>7. Len(read \o now) + Len(rest) = 2 * n
  <2>1. Len(read) + Len(unread) = 2 * n /\ Len(read \o now) = Len(read) + k
        /\ Len(rest) = Len(unread) - k
    BY <1>3, <1>4 DEF Whole
  <2> HIDE <1>3, <1>4
  <2> QED BY <1>1, <2>1
<1> QED BY <1>3, <1>4, <1>5, <1>6, <1>7 DEF now, rest, Whole

\* What is written after whole messages is one more.
LEMMA SendStaysWhole ==
  ASSUME NEW read \in Streams, NEW unread \in Streams, NEW n \in Nat, Whole(read, unread, n)
  PROVE  Whole(read, unread \o Commands!Parts, n + 1) /\ unread \o Commands!Parts \in Streams
<1> DEFINE more == unread \o Commands!Parts
<1>1. /\ Len(read) \in Nat /\ Len(unread) \in Nat
      /\ Commands!Parts \in Streams /\ Len(Commands!Parts) = 2
      /\ Commands!Parts[1] = "part" /\ Commands!Parts[2] = "end"
  BY DEF Streams, Commands!Parts, Commands!AllParts
<1>2. /\ more \in Streams /\ Len(more) = Len(unread) + 2
      /\ \A i \in 1 .. Len(unread) + 2 :
           more[i] = IF i <= Len(unread) THEN unread[i] ELSE Commands!Parts[i - Len(unread)]
  <2>1. unread \in Seq(Commands!AllParts) /\ Commands!Parts \in Seq(Commands!AllParts)
    BY <1>1 DEF Streams
  <2>2. Len(unread) + Len(Commands!Parts) = Len(unread) + 2
    BY <1>1
  <2> QED BY <2>1, <2>2, ConcatProperties DEF Streams
<1>3. Len(read) + Len(more) = 2 * (n + 1)
  BY <1>1, <1>2 DEF Whole
<1>4. Parted(more, Len(read))
  <2> SUFFICES ASSUME NEW i \in 1 .. Len(unread) + 2
               PROVE  more[i] = "end" <=> (Len(read) + i) % 2 = 0
    BY <1>2 DEF Parted
  <2> HIDE DEF more
  <2>1. CASE i <= Len(unread)
    BY <1>1, <1>2, <2>1 DEF Whole, Parted
  <2>2. CASE i = Len(unread) + 1
    <3>1. more[i] = "part"
      BY <1>1, <1>2, <2>2
    <3>2. Len(read) + i = 2 * n + 1
      BY <1>1, <2>2 DEF Whole
    <3>3. (2 * n + 1) % 2 = 1
      OBVIOUS
    <3> QED BY <3>1, <3>2, <3>3
  <2>3. CASE i = Len(unread) + 2
    <3>1. more[i] = "end"
      BY <1>1, <1>2, <2>3
    <3>2. Len(read) + i = 2 * (n + 1)
      BY <1>1, <2>3 DEF Whole
    <3>3. (2 * (n + 1)) % 2 = 0
      OBVIOUS
    <3> QED BY <3>1, <3>2, <3>3
  <2> QED BY <1>1, <2>1, <2>2, <2>3
<1> QED BY <1>2, <1>3, <1>4 DEF Whole

LEMMA SendStaysRead ==
  ASSUME NEW read \in Streams, NEW unread \in Streams, NEW n \in Nat, NEW out,
         WellRead(n, read, unread, out)
  PROVE  WellRead(n + 1, read, unread \o Commands!Parts, out)
BY SendStaysWhole DEF WellRead

Fires(out, parts) ==
  IF Commands!Decoded(parts) THEN Append(out, Commands!Ends(parts)) ELSE out

\* What is fired is how many commands were read, whenever their last one is whole.
LEMMA FiringStaysRising ==
  ASSUME NEW before \in Nat, NEW after \in Streams, NEW rest \in Streams,
         NEW n \in 0 .. MaxSends, Whole(after, rest, n), Len(after) > before,
         NEW out, Rising(out, before)
  PROVE  WellRead(n, after, rest, Fires(out, after))
<1> DEFINE half == Len(after) \div 2
           more == Append(out, half)
<1>1. /\ n \in Nat /\ n <= MaxSends /\ MaxSends \in Nat
      /\ Len(after) \in Nat /\ Len(rest) \in Nat
      /\ Len(after) + Len(rest) = 2 * n
  BY EventsAssumption DEF Streams, Whole
<1>2. after # <<>>
  BY <1>1
<1>3. /\ Commands!Ends(after) = half
      /\ Commands!Decoded(after) <=> Len(after) % 2 = 0
  BY <1>2, EndsHalf DEF Whole
<1>4. out \in Seq(1..MaxSends) /\ Len(out) \in Nat
  BY DEF Rising
<1>5. ASSUME NEW i \in 1 .. Len(out)
      PROVE  out[i] \in Nat /\ 2 * out[i] <= before /\ (i > 1 => out[i - 1] < out[i])
  <2>1. out[i] \in 1 .. MaxSends
    BY <1>4, ElementOfSeq
  <2>2. 2 * out[i] <= before /\ (i > 1 => out[i - 1] < out[i])
    BY DEF Rising
  <2>3. out[i] \in Nat
    BY <2>1
  <2> QED BY <2>2, <2>3
<1>6. CASE Len(after) % 2 = 0
  <2>1. half \in Nat /\ 2 * half = Len(after) /\ half >= 1 /\ half <= n
    BY <1>1, <1>6
  <2>2. Fires(out, after) = more
    BY <1>3, <1>6 DEF Fires
  <2> HIDE DEF half
  <2>3. half \in 1 .. MaxSends
    BY <1>1, <2>1
  <2>4. /\ more \in Seq(1..MaxSends) /\ Len(more) = Len(out) + 1 /\ more[Len(out) + 1] = half
        /\ \A i \in 1 .. Len(out) : more[i] = out[i]
    BY <1>4, <2>3, AppendProperties
  <2> HIDE DEF more
  <2>5. ASSUME NEW i \in 1 .. Len(more)
        PROVE  2 * more[i] <= Len(after) /\ (i > 1 => more[i - 1] < more[i])
    <3>1. Len(more) = Len(out) + 1 /\ Len(out) \in Nat
      BY <1>4, <2>4
    <3>2. CASE i = Len(out) + 1
      <4>1. more[i] = half
        BY <2>4, <3>2
      <4>2. 2 * more[i] <= Len(after)
        BY <1>1, <2>1, <4>1
      <4>3. ASSUME i > 1 PROVE more[i - 1] < more[i]
        <5>1. Len(out) \in 1 .. Len(out) /\ i - 1 = Len(out)
          BY <3>1, <3>2, <4>3
        <5>2. more[i - 1] = out[Len(out)]
          BY <2>4, <5>1
        <5>3. out[Len(out)] \in Nat /\ 2 * out[Len(out)] <= before
          BY <1>5, <5>1
        <5>4. out[Len(out)] < half
          <6>1. /\ out[Len(out)] \in Nat /\ before \in Nat /\ Len(after) \in Nat
                /\ before < Len(after) /\ Len(after) = 2 * half /\ half \in Nat
            BY <1>1, <2>1, <2>3, <5>3
          <6> QED BY <5>3, <6>1
        <5> QED BY <4>1, <5>2, <5>4
      <4> QED BY <4>2, <4>3
    <3>3. CASE i # Len(out) + 1
      <4>1. i \in 1 .. Len(out) /\ (i > 1 => i - 1 \in 1 .. Len(out))
        BY <3>1, <3>3
      <4>2. more[i] = out[i] /\ (i > 1 => more[i - 1] = out[i - 1])
        BY <2>4, <4>1
      <4>3. out[i] \in Nat /\ 2 * out[i] <= before /\ (i > 1 => out[i - 1] < out[i])
        BY <1>5, <4>1
      <4>4. 2 * out[i] <= Len(after)
        BY <1>1, <4>3
      <4> QED BY <4>2, <4>3, <4>4
    <3> QED BY <3>2, <3>3
  <2>6. more # <<>> /\ 2 * more[Len(more)] = Len(after)
    <3>1. Len(more) = Len(out) + 1 /\ Len(out) \in Nat /\ more[Len(more)] = half
      BY <1>4, <2>4
    <3>2. more # <<>>
      BY <3>1
    <3> QED BY <2>1, <3>1, <3>2
  <2>7. Rising(more, Len(after))
    BY <2>4, <2>5 DEF Rising
  <2> QED BY <2>2, <2>6, <2>7 DEF WellRead
<1>7. CASE Len(after) % 2 # 0
  <2>1. Fires(out, after) = out
    BY <1>3, <1>7 DEF Fires
  <2>2. ASSUME NEW i \in 1 .. Len(out) PROVE 2 * out[i] <= Len(after)
    <3>1. out[i] \in Nat /\ 2 * out[i] <= before
      BY <1>5
    <3> QED BY <1>1, <3>1
  <2>3. Rising(out, Len(after))
    BY <1>4, <1>5, <2>2 DEF Rising
  <2> QED BY <1>7, <2>1, <2>3 DEF WellRead
<1> QED BY <1>6, <1>7

LEMMA FiredWasSent ==
  ASSUME NEW n \in Nat, NEW read \in Streams, NEW unread \in Streams, NEW out,
         WellRead(n, read, unread, out), out # <<>>
  PROVE  n # 0
<1>1. /\ Len(read) \in Nat /\ Len(unread) \in Nat /\ Len(read) + Len(unread) = 2 * n
      /\ out \in Seq(1 .. MaxSends) /\ \A i \in 1 .. Len(out) : 2 * out[i] <= Len(read)
  BY DEF WellRead, Whole, Rising, Streams
<1>2. 1 \in 1 .. Len(out)
  BY <1>1
<1>3. out[1] \in 1 .. MaxSends
  BY <1>1, <1>2, ElementOfSeq
<1>4. out[1] \in Nat /\ out[1] >= 1 /\ 2 * out[1] <= Len(read)
  BY <1>1, <1>2, <1>3
<1>5. \A a, b, c \in Nat : a + b = 2 * n /\ c >= 1 /\ 2 * c <= a => n # 0
  OBVIOUS
<1> QED BY <1>1, <1>4, <1>5

-----------------------------------------------------------------------------
\* One send() more has one handler more, that has read nothing.
LEMMA SendStaysAnswered ==
  ASSUME NEW n \in Nat, NEW m \in Nat, NEW unread \in Streams, NEW got, NEW calls,
         WellAnswered(n, m, unread, got, calls)
  PROVE  WellAnswered(n + 1, m, unread, Append(got, <<>>), Append(calls, 0))
<1> DEFINE got2 == Append(got, <<>>)
           calls2 == Append(calls, 0)
<1>1. /\ got \in Seq(Streams) /\ calls \in Seq(Nat) /\ Len(got) = n /\ Len(calls) = n
      /\ \A i \in 2 .. n : got[i] = <<>> /\ calls[i] = 0
  BY DEF WellAnswered
<1>2. <<>> \in Streams /\ 0 \in Nat
  BY DEF Streams
<1>3. /\ got2 \in Seq(Streams) /\ Len(got2) = n + 1 /\ got2[n + 1] = <<>>
      /\ \A i \in 1 .. n : got2[i] = got[i]
  BY <1>1, <1>2, AppendProperties
<1>4. /\ calls2 \in Seq(Nat) /\ Len(calls2) = n + 1 /\ calls2[n + 1] = 0
      /\ \A i \in 1 .. n : calls2[i] = calls[i]
  BY <1>1, <1>2, AppendProperties
<1> HIDE DEF got2, calls2
<1>5. ASSUME NEW i \in 2 .. n + 1 PROVE got2[i] = <<>> /\ calls2[i] = 0
  <2>1. CASE i = n + 1
    BY <1>3, <1>4, <2>1
  <2>2. CASE i # n + 1
    <3>1. i \in 1 .. n /\ i \in 2 .. n
      BY <2>2
    <3> QED BY <1>1, <1>3, <1>4, <3>1
  <2> QED BY <2>1, <2>2
<1>6. Answers(m, unread, got2[1], calls2[1])
  <2>1. CASE n = 0
    <3>1. got2[1] = <<>> /\ calls2[1] = 0 /\ unread = <<>> /\ m = 0
      BY <1>3, <1>4, <2>1 DEF WellAnswered
    <3>2. Answers(0, <<>>, <<>>, 0)
      BY DEF Answers, Whole, Parted
    <3> QED BY <3>1, <3>2
  <2>2. CASE n # 0
    <3>1. got2[1] = got[1] /\ calls2[1] = calls[1]
      BY <1>3, <1>4, <2>2
    <3>2. Answers(m, unread, got[1], calls[1])
      BY <2>2 DEF WellAnswered
    <3> QED BY <3>1, <3>2
  <2> QED BY <2>1, <2>2
<1>7. n + 1 # 0
  OBVIOUS
<1>8. WellAnswered(n + 1, m, unread, got2, calls2)
  BY <1>3, <1>4, <1>5, <1>6, <1>7 DEF WellAnswered
<1> QED BY <1>8 DEF got2, calls2

LEMMA ReplyStaysAnswered ==
  ASSUME NEW n \in Nat, NEW m \in Nat, NEW unread \in Streams, NEW got, NEW calls,
         WellAnswered(n, m, unread, got, calls), n # 0
  PROVE  WellAnswered(n, m + 1, unread \o Commands!Parts, got, calls)
<1>1. got \in Seq(Streams) /\ Len(got) = n /\ Answers(m, unread, got[1], calls[1])
  BY DEF WellAnswered
<1>2. got[1] \in Streams
  BY <1>1
<1>3. Whole(got[1], unread \o Commands!Parts, m + 1)
  BY <1>1, <1>2, SendStaysWhole DEF Answers
<1>4. Answers(m + 1, unread \o Commands!Parts, got[1], calls[1])
  BY <1>1, <1>3 DEF Answers
<1> QED BY <1>4 DEF WellAnswered

Counts(calls, got) ==
  [i \in DOMAIN calls |-> IF Commands!Decoded(got[i]) THEN calls[i] + 1 ELSE calls[i]]

\* The first handler counts a reply only when one more has come to its end.
LEMMA ReadStaysAnswered ==
  ASSUME NEW n \in Nat, NEW m \in Nat, NEW unread \in Streams, NEW got, NEW calls,
         WellAnswered(n, m, unread, got, calls), NEW k \in 1 .. Len(unread)
  PROVE  LET got2 == [got EXCEPT ![1] = @ \o SubSeq(unread, 1, k)]
         IN  WellAnswered(n, m, SubSeq(unread, k + 1, Len(unread)), got2, Counts(calls, got2))
<1> DEFINE got2 == [got EXCEPT ![1] = @ \o SubSeq(unread, 1, k)]
           now == got[1] \o SubSeq(unread, 1, k)
           rest == SubSeq(unread, k + 1, Len(unread))
           calls2 == Counts(calls, got2)
<1>1. Len(unread) \in Nat /\ k \in Nat /\ k >= 1 /\ k <= Len(unread) /\ unread # <<>>
  BY DEF Streams
<1>2. /\ got \in Seq(Streams) /\ calls \in Seq(Nat) /\ n # 0 /\ Len(got) = n /\ Len(calls) = n
      /\ \A i \in 2 .. n : got[i] = <<>> /\ calls[i] = 0
      /\ Answers(m, unread, got[1], calls[1])
  BY <1>1 DEF WellAnswered
<1>3. DOMAIN got = 1 .. n /\ DOMAIN calls = 1 .. n /\ 1 \in 1 .. n
  BY <1>2
<1>4. /\ got[1] \in Streams /\ calls[1] \in Nat /\ Whole(got[1], unread, m)
      /\ 2 * calls[1] <= Len(got[1]) /\ Len(got[1]) \in Nat
  BY <1>2, <1>3 DEF Answers, Streams
<1>5. Whole(now, rest, m) /\ now \in Streams /\ Len(now) = Len(got[1]) + k
  BY <1>4, ReadStaysWhole
<1>6. got2 = [i \in 1 .. n |-> IF i = 1 THEN now ELSE got[i]]
  BY <1>3
<1> HIDE DEF got2, now, rest
<1>7. now # <<>> /\ Len(now) \in Nat
  BY <1>1, <1>4, <1>5
<1>8. got2[1] = now /\ \A i \in 2 .. n : got2[i] = <<>>
  BY <1>2, <1>3, <1>6
<1>9. got2 \in Seq(Streams) /\ Len(got2) = n
  <2>1. \A i \in 1 .. n : got[i] \in Streams
    BY <1>2
  <2>2. \A i \in 1 .. n : (IF i = 1 THEN now ELSE got[i]) \in Streams
    BY <1>5, <2>1
  <2> HIDE <1>5
  <2> QED BY <1>6, <2>2
<1>10. Commands!Decoded(now) <=> Len(now) % 2 = 0
  BY <1>5, <1>7, EndsHalf DEF Whole
<1>11. ~Commands!Decoded(<<>>)
  BY DEF Commands!Decoded
<1>12. calls2 = [i \in 1 .. n |-> IF Commands!Decoded(got2[i]) THEN calls[i] + 1 ELSE calls[i]]
  BY <1>3 DEF Counts
<1> HIDE DEF calls2
<1>13. /\ calls2[1] = IF Len(now) % 2 = 0 THEN calls[1] + 1 ELSE calls[1]
       /\ \A i \in 2 .. n : calls2[i] = 0
  <2>1. calls2[1] = IF Len(now) % 2 = 0 THEN calls[1] + 1 ELSE calls[1]
    BY <1>3, <1>8, <1>10, <1>12
  <2>2. ASSUME NEW i \in 2 .. n PROVE calls2[i] = 0
    <3>1. i \in 1 .. n /\ calls[i] = 0 /\ got2[i] = <<>>
      BY <1>2, <1>8
    <3> QED BY <1>11, <1>12, <3>1
  <2> QED BY <2>1, <2>2
<1>14. calls2 \in Seq(Nat) /\ Len(calls2) = n
  <2>1. \A i \in 1 .. n : calls[i] \in Nat
    BY <1>2
  <2>2. \A i \in 1 .. n : (IF Commands!Decoded(got2[i]) THEN calls[i] + 1 ELSE calls[i]) \in Nat
    BY <2>1
  <2> QED BY <1>12, <2>2
<1>15. Answers(m, rest, now, calls2[1])
  <2>1. CASE Len(now) % 2 = 0
    <3>1. calls2[1] = calls[1] + 1
      BY <1>13, <2>1
    <3>2. 2 * calls[1] < Len(now) /\ Len(now) = 2 * (Len(now) \div 2) /\ Len(now) \div 2 \in Nat
      <4>1. 2 * calls[1] < Len(now)
        BY <1>1, <1>4, <1>5
      <4>2. \A l \in Nat : l % 2 = 0 => l = 2 * (l \div 2) /\ l \div 2 \in Nat
        OBVIOUS
      <4> QED BY <1>7, <2>1, <4>1, <4>2
    <3>3. 2 * (calls[1] + 1) <= Len(now) /\ calls[1] + 1 > 0
      BY <1>4, <3>2
    <3> QED BY <1>5, <3>1, <3>3 DEF Answers
  <2>2. CASE Len(now) % 2 # 0
    <3>1. calls2[1] = calls[1]
      BY <1>13, <2>2
    <3>2. 2 * calls[1] <= Len(now)
      BY <1>1, <1>4, <1>5
    <3> QED BY <1>5, <2>2, <3>1, <3>2 DEF Answers
  <2> QED BY <2>1, <2>2
<1>16. WellAnswered(n, m, rest, got2, calls2)
  BY <1>2, <1>8, <1>9, <1>13, <1>14, <1>15 DEF WellAnswered
<1> QED BY <1>16 DEF got2, rest, calls2

-----------------------------------------------------------------------------
\* Nothing of it changed: the session is what it was.
SameSession(s) ==
  /\ connected'[s] = connected[s] /\ accepted'[s] = accepted[s] /\ sends'[s] = sends[s]
  /\ toPrimary'[s] = toPrimary[s] /\ data'[s] = data[s] /\ fired'[s] = fired[s]
  /\ replies'[s] = replies[s] /\ toSender'[s] = toSender[s]
  /\ received'[s] = received[s] /\ dones'[s] = dones[s]

WellServed(s) == (accepted[s] => connected[s]) /\ Session(s)

LEMMA SameStays == ASSUME NEW s, WellServed(s), SameSession(s) PROVE WellServed(s)'
BY DEF WellServed, Session, SameSession

LEMMA SessionFacts ==
  ASSUME CommandsTyped, NEW s \in Senders, WellServed(s)
  PROVE  /\ sends[s] \in 0 .. MaxSends /\ sends[s] \in Nat /\ replies[s] \in Nat
         /\ toPrimary[s] \in Streams /\ data[s] \in Streams /\ toSender[s] \in Streams
         /\ connected[s] =>
              /\ WellRead(sends[s], data[s], toPrimary[s], fired[s])
              /\ WellAnswered(sends[s], replies[s], toSender[s], received[s], dones[s])
BY EventsAssumption DEF CommandsTyped, WellServed, Session

\* A step of one sender's session leaves the other ones alone.
LEMMA OthersStay ==
  ASSUME CommandsIInv, CommandsTyped', NEW s \in Senders, WellServed(s)',
         \A t \in Senders \ {s} : SameSession(t)
  PROVE  CommandsIInv'
BY SameStays DEF CommandsIInv, WellServed

LEMMA ConnectKeeps ==
  ASSUME CommandsIInv, NEW s \in Senders, Commands!Connect(s) PROVE CommandsIInv'
<1>1. /\ CommandsTyped /\ WellServed(s) /\ ~connected[s] /\ sends[s] = 0
      /\ connected' = [connected EXCEPT ![s] = TRUE]
      /\ UNCHANGED <<accepted, sends, toPrimary, data, fired, replies, toSender, received, dones>>
  BY DEF CommandsIInv, WellServed, Commands!Connect
<1>2. CommandsTyped' /\ connected'[s] = TRUE
  BY <1>1 DEF CommandsTyped
<1>3. WellRead(0, <<>>, <<>>, <<>>)
  BY DEF WellRead, Whole, Parted, Rising
<1>4. WellAnswered(0, 0, <<>>, <<>>, <<>>)
  BY DEF WellAnswered
<1>5. WellServed(s)'
  BY <1>1, <1>2, <1>3, <1>4 DEF WellServed, Session
<1>6. \A t \in Senders \ {s} : SameSession(t)
  BY <1>1 DEF CommandsTyped, SameSession
<1> QED BY <1>2, <1>5, <1>6, OthersStay

LEMMA NewInstanceKeeps ==
  ASSUME CommandsIInv, Commands!NewInstanceConnected PROVE CommandsIInv'
<1>1. /\ CommandsTyped /\ accepted' = connected
      /\ UNCHANGED <<connected, sends, toPrimary, data, fired, replies, toSender, received, dones>>
  BY DEF CommandsIInv, Commands!NewInstanceConnected
<1>2. CommandsTyped'
  BY <1>1 DEF CommandsTyped
<1> QED BY <1>1, <1>2 DEF CommandsIInv, Session

LEMMA SendKeeps ==
  ASSUME CommandsIInv, NEW s \in Senders, Commands!Send(s) PROVE CommandsIInv'
<1>1. /\ CommandsTyped /\ WellServed(s) /\ connected[s] /\ sends[s] < MaxSends
      /\ sends' = [sends EXCEPT ![s] = @ + 1]
      /\ toPrimary' = [toPrimary EXCEPT ![s] = @ \o Commands!Parts]
      /\ received' = [received EXCEPT ![s] = Append(@, <<>>)]
      /\ dones' = [dones EXCEPT ![s] = Append(@, 0)]
      /\ UNCHANGED <<connected, accepted, data, fired, replies, toSender>>
  BY DEF CommandsIInv, WellServed, Commands!Send
<1>2. /\ sends[s] \in Nat /\ replies[s] \in Nat /\ sends[s] + 1 \in 0 .. MaxSends
      /\ toPrimary[s] \in Streams /\ data[s] \in Streams /\ toSender[s] \in Streams
      /\ WellRead(sends[s], data[s], toPrimary[s], fired[s])
      /\ WellAnswered(sends[s], replies[s], toSender[s], received[s], dones[s])
  BY <1>1, SessionFacts, EventsAssumption
<1>3. /\ sends'[s] = sends[s] + 1 /\ toPrimary'[s] = toPrimary[s] \o Commands!Parts
      /\ received'[s] = Append(received[s], <<>>) /\ dones'[s] = Append(dones[s], 0)
  BY <1>1 DEF CommandsTyped
<1>4. WellRead(sends[s], data[s], toPrimary[s], fired[s]) => Whole(data[s], toPrimary[s], sends[s])
  BY DEF WellRead
<1>5. CommandsTyped'
  <2>1. toPrimary[s] \o Commands!Parts \in Streams
    BY <1>2, <1>4, SendStaysWhole
  <2>2. toPrimary' \in [Senders -> Streams] /\ sends' \in [Senders -> 0 .. MaxSends]
    BY <1>1, <1>2, <2>1 DEF CommandsTyped
  <2> QED BY <1>1, <2>2 DEF CommandsTyped
<1>6. WellServed(s)'
  <2>1. WellRead(sends[s] + 1, data[s], toPrimary[s] \o Commands!Parts, fired[s])
    BY <1>2, SendStaysRead
  <2>2. WellAnswered(sends[s] + 1, replies[s], toSender[s],
                     Append(received[s], <<>>), Append(dones[s], 0))
    BY <1>2, SendStaysAnswered
  <2> QED BY <1>1, <1>3, <2>1, <2>2 DEF WellServed, Session
<1>7. \A t \in Senders \ {s} : SameSession(t)
  BY <1>1 DEF CommandsTyped, SameSession
<1> QED BY <1>5, <1>6, <1>7, OthersStay

LEMMA ReadClientKeeps ==
  ASSUME CommandsIInv, NEW s \in Senders, Commands!ReadClient(s) PROVE CommandsIInv'
<1>1. /\ CommandsTyped /\ WellServed(s) /\ connected[s]
      /\ UNCHANGED <<connected, accepted, sends, replies, toSender, received, dones>>
  BY DEF CommandsIInv, WellServed, Commands!ReadClient
<1>2. PICK n \in 1 .. Len(toPrimary[s]) :
        /\ toPrimary' = [toPrimary EXCEPT ![s] = SubSeq(@, n + 1, Len(@))]
        /\ data' = [data EXCEPT ![s] = @ \o SubSeq(toPrimary[s], 1, n)]
  BY DEF Commands!ReadClient
<1>3. /\ sends[s] \in 0 .. MaxSends /\ sends[s] \in Nat
      /\ toPrimary[s] \in Streams /\ data[s] \in Streams
      /\ WellRead(sends[s], data[s], toPrimary[s], fired[s])
      /\ WellAnswered(sends[s], replies[s], toSender[s], received[s], dones[s])
  BY <1>1, SessionFacts
<1> DEFINE after == data[s] \o SubSeq(toPrimary[s], 1, n)
           rest  == SubSeq(toPrimary[s], n + 1, Len(toPrimary[s]))
<1>4. data'[s] = after /\ toPrimary'[s] = rest
  BY <1>1, <1>2 DEF CommandsTyped
<1>5. /\ Whole(after, rest, sends[s]) /\ after \in Streams /\ rest \in Streams
      /\ Len(after) = Len(data[s]) + n
  BY <1>3, ReadStaysWhole DEF WellRead
<1>6. CommandsTyped' /\ fired'[s] = Fires(fired[s], after)
      /\ \A t \in Senders \ {s} : fired'[t] = fired[t]
  <2>1. toPrimary' \in [Senders -> Streams] /\ data' \in [Senders -> Streams]
    BY <1>1, <1>2, <1>5 DEF CommandsTyped
  <2>2. fired' = IF Commands!Decoded(data'[s])
                 THEN [fired EXCEPT ![s] = Append(@, Commands!Ends(data'[s]))] ELSE fired
    BY DEF Commands!ReadClient
  <2>3. /\ DOMAIN fired' = Senders /\ fired'[s] = Fires(fired[s], after)
        /\ \A t \in Senders \ {s} : fired'[t] = fired[t]
    BY <1>1, <1>4, <2>2 DEF CommandsTyped, Fires
  <2> QED BY <1>1, <2>1, <2>3 DEF CommandsTyped
<1> HIDE DEF after, rest
<1>7. Len(data[s]) \in Nat /\ Len(after) > Len(data[s])
  <2>1. Len(data[s]) \in Nat /\ n \in Nat /\ n >= 1
    BY <1>3 DEF Streams
  <2> QED BY <1>5, <2>1
<1>8. WellRead(sends[s], after, rest, Fires(fired[s], after))
  <2>1. Rising(fired[s], Len(data[s])) BY <1>3 DEF WellRead
  <2> QED BY <1>3, <1>5, <1>7, <2>1, FiringStaysRising
<1>9. WellServed(s)'
  BY <1>1, <1>3, <1>4, <1>6, <1>8 DEF WellServed, Session
<1>10. \A t \in Senders \ {s} : SameSession(t)
  BY <1>1, <1>2, <1>6 DEF CommandsTyped, SameSession
<1> QED BY <1>6, <1>9, <1>10, OthersStay

LEMMA CommandsReplyKeeps ==
  ASSUME CommandsIInv, NEW s \in Senders, Commands!Reply(s) PROVE CommandsIInv'
<1>1. /\ CommandsTyped /\ WellServed(s) /\ connected[s] /\ fired[s] # <<>>
      /\ replies[s] < MaxReplies
      /\ replies' = [replies EXCEPT ![s] = @ + 1]
      /\ toSender' = [toSender EXCEPT ![s] = @ \o Commands!Parts]
      /\ UNCHANGED <<connected, accepted, sends, toPrimary, data, fired, received, dones>>
  BY DEF CommandsIInv, WellServed, Commands!Reply
<1>2. /\ sends[s] \in Nat /\ replies[s] \in Nat /\ replies[s] + 1 \in 0 .. MaxReplies
      /\ toPrimary[s] \in Streams /\ data[s] \in Streams /\ toSender[s] \in Streams
      /\ WellRead(sends[s], data[s], toPrimary[s], fired[s])
      /\ WellAnswered(sends[s], replies[s], toSender[s], received[s], dones[s])
  <2>1. replies[s] \in 0 .. MaxReplies
    BY <1>1 DEF CommandsTyped
  <2> QED BY <1>1, <2>1, SessionFacts, EventsAssumption
<1>3. replies'[s] = replies[s] + 1 /\ toSender'[s] = toSender[s] \o Commands!Parts
  BY <1>1 DEF CommandsTyped
<1>4. sends[s] # 0
  BY <1>1, <1>2, FiredWasSent
<1>5. WellAnswered(sends[s], replies[s] + 1, toSender[s] \o Commands!Parts, received[s], dones[s])
  BY <1>2, <1>4, ReplyStaysAnswered
<1>6. toSender[s] \o Commands!Parts \in Streams
  <2>1. /\ received[s] \in Seq(Streams) /\ Len(received[s]) = sends[s]
        /\ Answers(replies[s], toSender[s], received[s][1], dones[s][1])
    BY <1>2, <1>4 DEF WellAnswered
  <2>2. received[s][1] \in Streams
    <3>1. 1 \in 1 .. Len(received[s])
      BY <1>2, <1>4, <2>1
    <3> QED BY <2>1, <3>1, ElementOfSeq
  <2> QED BY <1>2, <2>1, <2>2, SendStaysWhole DEF Answers
<1>7. CommandsTyped'
  <2>1. toSender' \in [Senders -> Streams] /\ replies' \in [Senders -> 0 .. MaxReplies]
    BY <1>1, <1>2, <1>6 DEF CommandsTyped
  <2> QED BY <1>1, <2>1 DEF CommandsTyped
<1>8. WellServed(s)'
  BY <1>1, <1>2, <1>3, <1>5 DEF WellServed, Session
<1>9. \A t \in Senders \ {s} : SameSession(t)
  BY <1>1 DEF CommandsTyped, SameSession
<1> QED BY <1>7, <1>8, <1>9, OthersStay

LEMMA ReadReplyKeeps ==
  ASSUME CommandsIInv, NEW s \in Senders, Commands!ReadReply(s) PROVE CommandsIInv'
<1>1. /\ CommandsTyped /\ WellServed(s) /\ connected[s]
      /\ UNCHANGED <<connected, accepted, sends, toPrimary, data, fired, replies>>
  BY DEF CommandsIInv, WellServed, Commands!ReadReply
<1>2. PICK n \in 1 .. Len(toSender[s]) :
        /\ toSender' = [toSender EXCEPT ![s] = SubSeq(@, n + 1, Len(@))]
        /\ received' = [received EXCEPT ![s][1] = @ \o SubSeq(toSender[s], 1, n)]
  BY DEF Commands!ReadReply
<1>3. /\ sends[s] \in Nat /\ replies[s] \in Nat /\ toSender[s] \in Streams
      /\ WellRead(sends[s], data[s], toPrimary[s], fired[s])
      /\ WellAnswered(sends[s], replies[s], toSender[s], received[s], dones[s])
  BY <1>1, SessionFacts
<1> DEFINE got2 == [received[s] EXCEPT ![1] = @ \o SubSeq(toSender[s], 1, n)]
           rest == SubSeq(toSender[s], n + 1, Len(toSender[s]))
<1>4. WellAnswered(sends[s], replies[s], rest, got2, Counts(dones[s], got2))
  BY <1>3, ReadStaysAnswered
<1>5. toSender'[s] = rest /\ received'[s] = got2 /\ DOMAIN received' = Senders
      /\ \A t \in Senders \ {s} : received'[t] = received[t] /\ toSender'[t] = toSender[t]
  BY <1>1, <1>2 DEF CommandsTyped
<1>6. /\ DOMAIN dones' = Senders /\ dones'[s] = Counts(dones[s], got2)
      /\ \A t \in Senders \ {s} : dones'[t] = dones[t]
  <2>1. dones' = [dones EXCEPT ![s] = [i \in DOMAIN @ |->
                    IF Commands!Decoded(received'[s][i]) THEN @[i] + 1 ELSE @[i]]]
    BY DEF Commands!ReadReply
  <2>2. dones' = [dones EXCEPT ![s] = Counts(dones[s], received'[s])]
    BY <2>1 DEF Counts
  <2> QED BY <1>1, <1>5, <2>2 DEF CommandsTyped
<1>7. rest \in Streams
  BY <1>3 DEF Streams
<1>8. CommandsTyped'
  <2>1. toSender' \in [Senders -> Streams]
    BY <1>1, <1>2, <1>7 DEF CommandsTyped
  <2> QED BY <1>1, <1>5, <1>6, <2>1 DEF CommandsTyped
<1> HIDE DEF got2, rest
<1>9. WellServed(s)'
  BY <1>1, <1>3, <1>4, <1>5, <1>6 DEF WellServed, Session
<1>10. \A t \in Senders \ {s} : SameSession(t)
  BY <1>1, <1>5, <1>6 DEF SameSession
<1> QED BY <1>8, <1>9, <1>10, OthersStay

LEMMA DisconnectKeeps ==
  ASSUME CommandsIInv, NEW s \in Senders, Commands!Disconnect(s) PROVE CommandsIInv'
<1>1. /\ CommandsTyped
      /\ connected' = [connected EXCEPT ![s] = FALSE]
      /\ accepted' = [accepted EXCEPT ![s] = FALSE]
      /\ sends' = [sends EXCEPT ![s] = MaxSends]
      /\ toPrimary' = [toPrimary EXCEPT ![s] = <<>>] /\ data' = [data EXCEPT ![s] = <<>>]
      /\ fired' = [fired EXCEPT ![s] = <<>>] /\ replies' = [replies EXCEPT ![s] = 0]
      /\ toSender' = [toSender EXCEPT ![s] = <<>>] /\ received' = [received EXCEPT ![s] = <<>>]
      /\ dones' = [dones EXCEPT ![s] = <<>>]
  BY DEF CommandsIInv, Commands!Disconnect
<1>2. <<>> \in Streams /\ MaxSends \in 0 .. MaxSends /\ 0 \in 0 .. MaxReplies
  BY EventsAssumption DEF Streams
<1>3. CommandsTyped'
  BY <1>1, <1>2 DEF CommandsTyped
<1>4. /\ connected'[s] = FALSE /\ accepted'[s] = FALSE
      /\ toPrimary'[s] = <<>> /\ data'[s] = <<>> /\ fired'[s] = <<>> /\ replies'[s] = 0
      /\ toSender'[s] = <<>> /\ received'[s] = <<>> /\ dones'[s] = <<>>
  BY <1>1 DEF CommandsTyped
<1>5. WellServed(s)'
  BY <1>4 DEF WellServed, Session
<1>6. \A t \in Senders \ {s} : SameSession(t)
  BY <1>1 DEF CommandsTyped, SameSession
<1> QED BY <1>3, <1>5, <1>6, OthersStay

LEMMA CommandsStep ==
  ASSUME CommandsIInv, Commands!Next \/ UNCHANGED commandVars PROVE CommandsIInv'
<1>1. UNCHANGED commandVars => CommandsIInv'
  BY DEF CommandsIInv, CommandsTyped, Session, commandVars
<1> QED BY <1>1, NewInstanceKeeps, ConnectKeeps, SendKeeps, ReadClientKeeps,
           CommandsReplyKeeps, ReadReplyKeeps, DisconnectKeeps DEF Commands!Next

LEMMA CommandsStart == Commands!Init => CommandsIInv
<1> SUFFICES ASSUME Commands!Init PROVE CommandsIInv OBVIOUS
<1>1. <<>> \in Streams /\ 0 \in 0 .. MaxSends /\ 0 \in 0 .. MaxReplies
  BY EventsAssumption DEF Streams
<1>2. CommandsTyped
  BY <1>1 DEF Commands!Init, CommandsTyped
<1> QED BY <1>2 DEF Commands!Init, CommandsIInv, Session

LEMMA CommandsTypes == CommandsIInv => Commands!TypeOK
<1> SUFFICES ASSUME CommandsIInv, NEW s \in Senders
             PROVE  /\ accepted[s] => connected[s]
                    /\ sends[s] \in 0..MaxSends /\ replies[s] \in 0..MaxReplies
                    /\ {toPrimary[s], toSender[s], data[s]} \subseteq Seq(Commands!AllParts)
                    /\ fired[s] \in Seq(1..MaxSends)
                    /\ received[s] \in Seq(Seq(Commands!AllParts)) /\ dones[s] \in Seq(Nat)
  BY DEF CommandsIInv, CommandsTyped, Commands!TypeOK
<1>1. /\ accepted[s] => connected[s]
      /\ sends[s] \in 0..MaxSends /\ replies[s] \in 0..MaxReplies
      /\ toPrimary[s] \in Streams /\ toSender[s] \in Streams /\ data[s] \in Streams
      /\ Session(s)
  BY DEF CommandsIInv, CommandsTyped
<1>2. CASE connected[s]
  BY <1>1, <1>2 DEF Session, WellRead, Rising, WellAnswered, Streams
<1>3. CASE ~connected[s]
  <2>1. fired[s] = <<>> /\ received[s] = <<>> /\ dones[s] = <<>>
    BY <1>1, <1>3 DEF Session
  <2>2. \A S : <<>> \in Seq(S)
    OBVIOUS
  <2> QED BY <1>1, <2>1, <2>2 DEF Streams
<1> QED BY <1>2, <1>3

\* All of a sender's commands are fired when all that it wrote is read, and none
\* of its calls is told of a reply that was not sent.
LEMMA CommandsServe ==
  ASSUME CommandsIInv PROVE Commands!CommandsWhole /\ Commands!DoneIsAnswered
<1>1. CommandsTyped /\ \A s \in Senders : WellServed(s)
  BY DEF CommandsIInv, WellServed
<1>2. ASSUME NEW s \in Senders
      PROVE  /\ \A i \in DOMAIN fired[s] : i > 1 => fired[s][i - 1] < fired[s][i]
             /\ accepted[s] /\ toPrimary[s] = <<>> /\ sends[s] > 0 =>
                  fired[s] # <<>> /\ fired[s][Len(fired[s])] = sends[s]
             /\ \A i \in DOMAIN dones[s] : dones[s][i] <= (IF i = 1 THEN replies[s] ELSE 0)
             /\ replies[s] > 0 /\ toSender[s] = <<>> => dones[s][1] > 0
  <2>1. CASE ~connected[s]
    BY <1>1, <2>1 DEF WellServed, Session
  <2>2. CASE connected[s]
    <3>1. /\ sends[s] \in Nat /\ replies[s] \in Nat /\ toSender[s] \in Streams
          /\ toPrimary[s] \in Streams /\ data[s] \in Streams
          /\ WellRead(sends[s], data[s], toPrimary[s], fired[s])
          /\ WellAnswered(sends[s], replies[s], toSender[s], received[s], dones[s])
      BY <1>1, <2>2, SessionFacts
    <3>2. \A i \in DOMAIN fired[s] : i > 1 => fired[s][i - 1] < fired[s][i]
      <4>1. Rising(fired[s], Len(data[s])) BY <3>1 DEF WellRead
      <4>2. fired[s] \in Seq(1..MaxSends) BY <4>1 DEF Rising
      <4>3. DOMAIN fired[s] = 1 .. Len(fired[s]) BY <4>2, LenProperties
      <4> QED BY <4>1, <4>3 DEF Rising
    <3>3. ASSUME toPrimary[s] = <<>>, sends[s] > 0
          PROVE  fired[s] # <<>> /\ fired[s][Len(fired[s])] = sends[s]
      <4>1. Len(data[s]) = 2 * sends[s] /\ Len(data[s]) \in Nat
        BY <3>1, <3>3 DEF WellRead, Whole, Streams
      <4>2. Len(data[s]) % 2 = 0 /\ data[s] # <<>>
        BY <3>1, <3>3, <4>1
      <4>3. fired[s] # <<>> /\ 2 * fired[s][Len(fired[s])] = Len(data[s])
            /\ fired[s] \in Seq(1 .. MaxSends)
        BY <3>1, <4>2 DEF WellRead, Rising
      <4>4. Len(fired[s]) \in 1 .. Len(fired[s])
        BY <4>3
      <4>5. fired[s][Len(fired[s])] \in 1 .. MaxSends
        BY <4>3, <4>4, ElementOfSeq
      <4>6. fired[s][Len(fired[s])] \in Nat
        BY <4>5
      <4> QED BY <3>1, <4>1, <4>3, <4>6
    <3>4. /\ dones[s] \in Seq(Nat) /\ received[s] \in Seq(Streams)
          /\ Len(dones[s]) = sends[s] /\ Len(received[s]) = sends[s]
          /\ \A i \in 2 .. sends[s] : dones[s][i] = 0
          /\ sends[s] = 0 => replies[s] = 0
          /\ sends[s] # 0 => Answers(replies[s], toSender[s], received[s][1], dones[s][1])
      BY <3>1 DEF WellAnswered
    <3>5. ASSUME sends[s] # 0
          PROVE  /\ dones[s][1] <= replies[s]
                 /\ replies[s] > 0 /\ toSender[s] = <<>> => dones[s][1] > 0
      <4>1. 1 \in 1 .. Len(received[s]) /\ 1 \in 1 .. Len(dones[s])
        BY <3>1, <3>4, <3>5
      <4>2. received[s][1] \in Streams /\ dones[s][1] \in Nat
        BY <3>4, <4>1, ElementOfSeq
      <4>3. /\ Len(received[s][1]) \in Nat /\ Len(toSender[s]) \in Nat
        BY <3>1, <4>2 DEF Streams
      <4>4. /\ Len(received[s][1]) + Len(toSender[s]) = 2 * replies[s]
            /\ 2 * dones[s][1] <= Len(received[s][1])
            /\ received[s][1] # <<>> /\ Len(received[s][1]) % 2 = 0 => dones[s][1] > 0
        BY <3>4, <3>5 DEF Answers, Whole
      <4>5. dones[s][1] <= replies[s]
        <5>1. \A a, b, c, r \in Nat : a + b = 2 * r /\ 2 * c <= a => c <= r
          OBVIOUS
        <5> QED BY <3>1, <4>2, <4>3, <4>4, <5>1
      <4>6. ASSUME replies[s] > 0, toSender[s] = <<>> PROVE dones[s][1] > 0
        <5>1. Len(received[s][1]) = 2 * replies[s]
          BY <4>3, <4>4, <4>6
        <5>2. Len(received[s][1]) % 2 = 0 /\ received[s][1] # <<>>
          BY <3>1, <4>6, <5>1
        <5> QED BY <4>4, <5>2
      <4> QED BY <4>5, <4>6
    <3>6. \A i \in DOMAIN dones[s] : dones[s][i] <= (IF i = 1 THEN replies[s] ELSE 0)
      <4> SUFFICES ASSUME NEW i \in DOMAIN dones[s]
                   PROVE  dones[s][i] <= (IF i = 1 THEN replies[s] ELSE 0)
        OBVIOUS
      <4>1. i \in 1 .. sends[s] /\ sends[s] # 0
        BY <3>1, <3>4
      <4>2. CASE i = 1
        BY <3>5, <4>1, <4>2
      <4>3. CASE i # 1
        <5>1. i \in 2 .. sends[s]
          BY <3>1, <4>1, <4>3
        <5>2. dones[s][i] = 0
          BY <3>4, <5>1
        <5> QED BY <4>3, <5>2
      <4> QED BY <4>2, <4>3
    <3>7. replies[s] > 0 /\ toSender[s] = <<>> => dones[s][1] > 0
      BY <3>1, <3>4, <3>5
    <3> QED BY <3>2, <3>3, <3>6, <3>7
  <2> QED BY <2>1, <2>2
<1> QED BY <1>2 DEF Commands!CommandsWhole, Commands!DoneIsAnswered, Commands!Last
-----------------------------------------------------------------------------
LEMMA LaunchCardinality == \A S : Launch!Cardinality(S) = Cardinality(S)
BY DEF Launch!Cardinality, Cardinality

LEMMA OneAtMost == Launch!Cardinality({}) <= 1 /\ \A x : Launch!Cardinality({x}) <= 1
<1>1. Cardinality({}) = 0
  BY FS_EmptySet
<1>2. ASSUME NEW x PROVE Cardinality({x}) = 1
  BY FS_Singleton
<1>3. Launch!Cardinality({}) = 0 /\ \A x : Launch!Cardinality({x}) = 1
  BY <1>1, <1>2, LaunchCardinality, Zenon
<1>4. Launch!Cardinality({}) <= 1
  BY <1>3
<1>5. ASSUME NEW x PROVE Launch!Cardinality({x}) <= 1
  <2>1. Launch!Cardinality({x}) = 1
    BY <1>3
  <2> HIDE <1>3
  <2> QED BY <2>1
<1> QED BY <1>4, <1>5, Zenon

\* A step of one call that opens nothing.
LEMMA GoKeeps ==
  ASSUME ShowIInv, NEW l \in Launches, NEW to, Launch!Go(l, to), step[l] # "done",
         to \in Launch!AsksToken \union {"managerProxy", "portalProxy", "managerCall",
                                         "portalCall", "done"},
         l \in Launch!Shows => to \notin {"waitToken", "done"},
         waitsOn[l] = NoWindow,
         UNCHANGED <<waitsOn, focus, visible, wayland, requests, stranded, doubtful, openings>>
  PROVE  ShowIInv'
<1>1. LaunchTyped /\ step' = [step EXCEPT ![l] = to]
  BY DEF ShowIInv, Launch!Go
<1>2. LaunchTyped'
  BY <1>1 DEF LaunchTyped
<1>3. \A k \in Launches : step'[k] = IF k = l THEN to ELSE step[k]
  BY <1>1 DEF LaunchTyped
<1>4. Launch!OpenedOnce'
  BY <1>3 DEF ShowIInv, Launch!OpenedOnce, Launch!Shows
<1> QED BY <1>1, <1>2, <1>3, <1>4 DEF ShowIInv, Launch!Shows

\* A step of one call that opens the folder, and is its last or leaves a doubt.
LEMMA OpenedKeeps ==
  ASSUME ShowIInv, NEW l \in Launches, NEW to, Launch!Go(l, to),
         NEW by \in {"manager", "portal", "url"},
         \/ openings' = [openings EXCEPT ![l] = @ \union {by}]
         \/ openings' = [openings EXCEPT ![l] = @ \union {"portal", "url"}],
         \/ /\ to = "done" /\ UNCHANGED doubtful
            /\ openings' = [openings EXCEPT ![l] = @ \union {by}]
         \/ to \in {"done", "portalProxy"} /\ doubtful' = doubtful \union {l},
         waitsOn[l] = NoWindow, step[l] # "done",
         UNCHANGED <<waitsOn, focus, visible, wayland, requests, stranded>>
  PROVE  ShowIInv'
<1>1. LaunchTyped /\ step' = [step EXCEPT ![l] = to]
  BY DEF ShowIInv, Launch!Go
<1>2. PICK more \in SUBSET {"manager", "portal", "url"} :
        /\ openings' = [openings EXCEPT ![l] = @ \union more] /\ more # {}
        /\ l \notin doubtful' => more = {by}
  <2>1. CASE openings' = [openings EXCEPT ![l] = @ \union {by}]
    BY <2>1
  <2>2. CASE openings' = [openings EXCEPT ![l] = @ \union {"portal", "url"}]
    <3>1. CASE l \in doubtful'
      BY <2>2, <3>1
    <3>2. CASE l \notin doubtful'
      BY <3>2
    <3> QED BY <3>1, <3>2
  <2> QED BY <2>1, <2>2
<1>3. /\ \A k \in Launches : step'[k] = IF k = l THEN to ELSE step[k]
      /\ \A k \in Launches : openings'[k] = IF k = l THEN openings[l] \union more ELSE openings[k]
      /\ doubtful \subseteq doubtful' /\ doubtful' \subseteq doubtful \union {l}
      /\ to \in {"done", "portalProxy"}
  BY <1>1, <1>2 DEF LaunchTyped
<1>4. LaunchTyped'
  <2>1. openings' \in [Launches -> SUBSET {"manager", "portal", "url"}]
    BY <1>1, <1>2 DEF LaunchTyped
  <2>2. step' \in [Launches -> Launch!AsksToken \union
                 {"notCalled", "managerProxy", "portalProxy", "managerCall", "portalCall", "done"}]
    BY <1>1, <1>3 DEF LaunchTyped
  <2> QED BY <1>1, <1>3, <2>1, <2>2 DEF LaunchTyped
<1>5. l \in Launch!Shows \ doubtful' => openings'[l] = {by} /\ to = "done"
  <2>1. l \in Launch!Shows \ doubtful => openings[l] = {}
    BY DEF ShowIInv
  <2> QED BY <1>2, <1>3, <2>1
<1>6. Launch!OpenedOnce'
  <2>1. Launch!OpenedOnce
    BY DEF ShowIInv
  <2>2. ASSUME NEW k \in Launch!Shows \ doubtful' PROVE Launch!Cardinality(openings'[k]) <= 1
    <3>1. CASE k = l
      BY <1>5, <3>1, OneAtMost
    <3>2. CASE k # l
      BY <1>3, <2>1, <3>2 DEF Launch!OpenedOnce, Launch!Shows
    <3> QED BY <3>1, <3>2
  <2>3. ASSUME NEW k \in Launch!Shows, step'[k] = "done" PROVE openings'[k] # {}
    BY <1>2, <1>3, <2>1, <2>3 DEF Launch!OpenedOnce, Launch!Shows
  <2> QED BY <2>1, <2>2, <2>3 DEF Launch!OpenedOnce, Launch!Shows
<1> QED BY <1>3, <1>4, <1>5, <1>6 DEF ShowIInv, Launch!Shows

\* Whoever waits for a token is told, as long as the window lives.
LEMMA AfterFacts ==
  /\ Launch!After("managerToken") = "managerCall" /\ Launch!After("portalToken") = "portalCall"
  /\ Launch!After("waitToken") = "done"
  /\ Launch!AsksToken = {"managerToken", "portalToken", "waitToken"}
BY DEF Launch!After, Launch!AsksToken

LEMMA RunWithTokenKeeps ==
  ASSUME ShowIInv, NEW l \in Launches, Launch!RunWithXdgActivationToken(l) PROVE ShowIInv'
<1>1. /\ LaunchTyped /\ Launch!OpenedOnce /\ waitsOn[l] = NoWindow
      /\ step[l] \in Launch!AsksToken
      /\ UNCHANGED <<focus, visible, wayland, stranded, doubtful, openings>>
  BY DEF ShowIInv, Launch!RunWithXdgActivationToken
<1>2. CASE focus # NoWindow /\ wayland
  <2>1. /\ waitsOn' = [waitsOn EXCEPT ![l] = focus]
        /\ requests' = [requests EXCEPT ![focus] = @ + 1] /\ UNCHANGED step
    BY <1>2 DEF Launch!RunWithXdgActivationToken
  <2>2. focus \in Windows /\ requests[focus] \in Nat
    BY <1>1, <1>2 DEF LaunchTyped
  <2>3. LaunchTyped'
    BY <1>1, <2>1, <2>2 DEF LaunchTyped
  <2>4. /\ \A k \in Launches : waitsOn'[k] = IF k = l THEN focus ELSE waitsOn[k]
        /\ \A w \in Windows : requests'[w] = IF w = focus THEN requests[w] + 1 ELSE requests[w]
    BY <1>1, <2>1, <2>2 DEF LaunchTyped
  <2>5. \A k \in Launches : waitsOn'[k] # NoWindow => requests'[waitsOn'[k]] > 0
    <3> SUFFICES ASSUME NEW k \in Launches, waitsOn'[k] # NoWindow
                 PROVE  requests'[waitsOn'[k]] > 0
      OBVIOUS
    <3>1. CASE k = l
      BY <2>2, <2>4, <3>1
    <3>2. CASE k # l
      <4>1. waitsOn[k] \in Windows /\ requests[waitsOn[k]] > 0 /\ requests[waitsOn[k]] \in Nat
        BY <1>1, <2>4, <3>2 DEF LaunchTyped, Launch!OpenedOnce
      <4> QED BY <2>4, <3>2, <4>1
    <3> QED BY <3>1, <3>2
  <2>6. Launch!OpenedOnce'
    BY <1>1, <2>1, <2>5 DEF Launch!OpenedOnce
  <2> QED BY <1>1, <2>1, <2>3, <2>4, <2>6 DEF ShowIInv
<1>3. CASE ~(focus # NoWindow /\ wayland)
  <2>1. Launch!Go(l, Launch!After(step[l])) /\ UNCHANGED <<waitsOn, requests>>
    BY <1>3 DEF Launch!RunWithXdgActivationToken
  <2>2. step[l] # "done" /\ (l \in Launch!Shows => step[l] # "waitToken")
    BY <1>1, AfterFacts DEF ShowIInv
  <2>3. /\ Launch!After(step[l]) \in {"managerCall", "portalCall", "done"}
        /\ l \in Launch!Shows => Launch!After(step[l]) \notin {"waitToken", "done"}
    BY <1>1, <2>2, AfterFacts
  <2> QED BY <1>1, <2>1, <2>2, <2>3, GoKeeps
<1> QED BY <1>2, <1>3

LEMMA TokenCreatedKeeps ==
  ASSUME ShowIInv, NEW w \in Windows, Launch!TokenCreated(w) PROVE ShowIInv'
<1>1. /\ LaunchTyped /\ Launch!OpenedOnce /\ requests[w] > 0
      /\ requests' = [requests EXCEPT ![w] = @ - 1]
      /\ UNCHANGED <<focus, visible, wayland, stranded, doubtful, openings>>
  BY DEF ShowIInv, Launch!TokenCreated
<1>2. /\ step' = [l \in Launches |-> IF waitsOn[l] = w THEN Launch!After(step[l]) ELSE step[l]]
      /\ waitsOn' = [l \in Launches |-> IF waitsOn[l] = w THEN NoWindow ELSE waitsOn[l]]
  BY DEF Launch!TokenCreated, Launch!Takers
<1>3. w # NoWindow /\ \A l \in Launches : waitsOn[l] = w => step[l] \in Launch!AsksToken
  BY EventsAssumption DEF ShowIInv
<1>4. \A l \in Launches : waitsOn[l] = w =>
        /\ step'[l] \in {"managerCall", "portalCall", "done"}
        /\ l \in Launch!Shows => step'[l] # "done"
  BY <1>2, <1>3, AfterFacts DEF ShowIInv, Launch!Shows
<1>5. LaunchTyped'
  <2>1. requests' \in [Windows -> Nat]
    BY <1>1 DEF LaunchTyped
  <2>2. waitsOn' \in [Launches -> Windows \union {NoWindow}]
    BY <1>1, <1>2 DEF LaunchTyped
  <2>3. step' \in [Launches -> Launch!AsksToken \union
                 {"notCalled", "managerProxy", "portalProxy", "managerCall", "portalCall", "done"}]
    BY <1>1, <1>2, <1>4 DEF LaunchTyped
  <2> QED BY <1>1, <2>1, <2>2, <2>3 DEF LaunchTyped
<1>6. \A l \in Launches : waitsOn'[l] # NoWindow => requests'[waitsOn'[l]] > 0
  <2> SUFFICES ASSUME NEW l \in Launches, waitsOn'[l] # NoWindow
               PROVE  requests'[waitsOn'[l]] > 0
    OBVIOUS
  <2>1. waitsOn[l] # w /\ waitsOn'[l] = waitsOn[l] /\ waitsOn[l] \in Windows
    BY <1>1, <1>2 DEF LaunchTyped
  <2>2. requests'[waitsOn[l]] = requests[waitsOn[l]] /\ requests[waitsOn[l]] > 0
    BY <1>1, <2>1 DEF LaunchTyped, Launch!OpenedOnce
  <2> QED BY <2>1, <2>2
<1>7. \A l \in Launches : waitsOn[l] # w => step'[l] = step[l] /\ waitsOn'[l] = waitsOn[l]
  BY <1>2
<1>8. Launch!OpenedOnce'
  BY <1>1, <1>4, <1>6, <1>7 DEF Launch!OpenedOnce, Launch!Shows
<1>9. \A l \in Launch!Shows \ doubtful' : step'[l] # "done" => openings'[l] = {}
  <2> SUFFICES ASSUME NEW l \in Launch!Shows \ doubtful, step'[l] # "done"
               PROVE  openings[l] = {}
    BY <1>1
  <2>1. step[l] # "done"
    BY <1>3, <1>7, AfterFacts DEF Launch!Shows
  <2> QED BY <2>1 DEF ShowIInv
<1>10. \A l \in Launch!Shows : step'[l] # "waitToken"
  BY <1>4, <1>7 DEF ShowIInv, Launch!Shows
<1>11. \A l \in Launches : waitsOn'[l] # NoWindow => step'[l] \in Launch!AsksToken
  BY <1>2, <1>7 DEF ShowIInv
<1> QED BY <1>5, <1>8, <1>9, <1>10, <1>11 DEF ShowIInv

LEMMA WindowDiesKeeps ==
  ASSUME ShowIInv, NEW w \in Windows, Launch!WindowDies(w) PROVE ShowIInv'
<1>1. /\ LaunchTyped /\ Launch!OpenedOnce
      /\ visible' = visible \ {w} /\ focus' = (IF focus = w THEN NoWindow ELSE focus)
      /\ requests' = [requests EXCEPT ![w] = 0]
      /\ UNCHANGED <<step, wayland, doubtful, openings>>
  BY DEF ShowIInv, Launch!WindowDies
<1>2. /\ waitsOn' = [l \in Launches |-> IF waitsOn[l] = w THEN NoWindow ELSE waitsOn[l]]
      /\ stranded' = stranded \union {l \in Launches : waitsOn[l] = w}
  BY DEF Launch!WindowDies, Launch!Takers
<1>3. LaunchTyped'
  <2>1. requests' \in [Windows -> Nat]
    BY <1>1 DEF LaunchTyped
  <2>2. waitsOn' \in [Launches -> Windows \union {NoWindow}]
    BY <1>1, <1>2 DEF LaunchTyped
  <2> QED BY <1>1, <1>2, <2>1, <2>2 DEF LaunchTyped
<1>4. \A l \in Launches : waitsOn'[l] # NoWindow => requests'[waitsOn'[l]] > 0
  <2> SUFFICES ASSUME NEW l \in Launches, waitsOn'[l] # NoWindow
               PROVE  requests'[waitsOn'[l]] > 0
    OBVIOUS
  <2>1. waitsOn[l] # w /\ waitsOn'[l] = waitsOn[l] /\ waitsOn[l] \in Windows
    BY <1>1, <1>2 DEF LaunchTyped
  <2>2. requests'[waitsOn[l]] = requests[waitsOn[l]] /\ requests[waitsOn[l]] > 0
    BY <1>1, <2>1 DEF LaunchTyped, Launch!OpenedOnce
  <2> QED BY <2>1, <2>2
<1>5. Launch!OpenedOnce'
  BY <1>1, <1>4 DEF Launch!OpenedOnce
<1>6. \A l \in Launches : waitsOn'[l] # NoWindow => step'[l] \in Launch!AsksToken
  BY <1>1, <1>2 DEF ShowIInv
<1> QED BY <1>1, <1>3, <1>5, <1>6 DEF ShowIInv

LEMMA LaunchNextKeeps == ASSUME ShowIInv, Launch!LaunchNext PROVE ShowIInv'
<1>1. ASSUME NEW l \in Launches PROVE Launch!Go(l, "done") => step'[l] = "done"
  BY <1>1 DEF ShowIInv, LaunchTyped, Launch!Go
<1>2. ASSUME NEW l \in Launches, step[l] \notin Launch!AsksToken PROVE waitsOn[l] = NoWindow
  BY <1>2 DEF ShowIInv
<1>3. ASSUME NEW l \in Launches, Launch!ShowInFolder(l) PROVE ShowIInv'
  BY <1>2, <1>3, GoKeeps DEF Launch!ShowInFolder, Launch!AsksToken
<1>4. ASSUME NEW l \in Launches, Launch!XdgActivationToken(l) PROVE ShowIInv'
  BY <1>2, <1>4, GoKeeps DEF Launch!XdgActivationToken, Launch!AsksToken, Launch!Shows
<1>5. ASSUME NEW l \in Launches, Launch!ManagerProxy(l) PROVE ShowIInv'
  <2>1. step[l] = "managerProxy" /\ waitsOn[l] = NoWindow
    BY <1>2, <1>5 DEF Launch!ManagerProxy, Launch!AsksToken
  <2>2. PICK s \in {"managerToken", "portalProxy"} : Launch!Go(l, s)
    BY <1>5 DEF Launch!ManagerProxy
  <2> QED BY <1>5, <2>1, <2>2, GoKeeps DEF Launch!ManagerProxy, Launch!AsksToken
<1>6. ASSUME NEW l \in Launches, Launch!PortalProxy(l) PROVE ShowIInv'
  <2>1. step[l] = "portalProxy" /\ waitsOn[l] = NoWindow
        /\ UNCHANGED <<waitsOn, focus, visible, wayland, requests, stranded, doubtful>>
    BY <1>2, <1>6 DEF Launch!PortalProxy, Launch!AsksToken
  <2>2. CASE Launch!Go(l, "portalToken") /\ UNCHANGED openings
    BY <2>1, <2>2, GoKeeps DEF Launch!AsksToken
  <2>3. CASE Launch!Go(l, "done") /\ Launch!Opened(l, "url")
    BY <2>1, <2>3, OpenedKeeps DEF Launch!Opened
  <2> QED BY <1>6, <2>2, <2>3 DEF Launch!PortalProxy
<1>7. ASSUME NEW l \in Launches, Launch!ManagerAnswers(l) PROVE ShowIInv'
  <2>1. step[l] = "managerCall" /\ waitsOn[l] = NoWindow
        /\ UNCHANGED <<waitsOn, focus, visible, wayland, requests, stranded>>
    BY <1>2, <1>7 DEF Launch!ManagerAnswers, Launch!AsksToken
  <2>2. CASE Launch!Go(l, "done") /\ Launch!Opened(l, "manager") /\ UNCHANGED doubtful
    BY <2>1, <2>2, OpenedKeeps DEF Launch!Opened
  <2>3. CASE Launch!Go(l, "portalProxy") /\ UNCHANGED <<openings, doubtful>>
    BY <2>1, <2>3, GoKeeps
  <2>4. CASE /\ Launch!Go(l, "portalProxy") /\ Launch!Opened(l, "manager")
             /\ doubtful' = doubtful \union {l}
    BY <2>1, <2>4, OpenedKeeps DEF Launch!Opened
  <2> QED BY <1>7, <2>2, <2>3, <2>4 DEF Launch!ManagerAnswers
<1>8. ASSUME NEW l \in Launches, Launch!PortalAnswers(l) PROVE ShowIInv'
  <2>1. step[l] = "portalCall" /\ waitsOn[l] = NoWindow /\ Launch!Go(l, "done")
        /\ UNCHANGED <<waitsOn, focus, visible, wayland, requests, stranded>>
    BY <1>2, <1>8 DEF Launch!PortalAnswers, Launch!AsksToken
  <2>2. CASE Launch!Opened(l, "portal") /\ UNCHANGED doubtful
    BY <2>1, <2>2, OpenedKeeps DEF Launch!Opened
  <2>3. CASE Launch!Opened(l, "url") /\ UNCHANGED doubtful
    BY <2>1, <2>3, OpenedKeeps DEF Launch!Opened
  <2>4. CASE /\ openings' = [openings EXCEPT ![l] = @ \union {"portal", "url"}]
             /\ doubtful' = doubtful \union {l}
    BY <2>1, <2>4, OpenedKeeps
  <2> QED BY <1>8, <2>2, <2>3, <2>4 DEF Launch!PortalAnswers
<1>9. ASSUME NEW w \in Windows, Launch!WindowShows(w) PROVE ShowIInv'
  BY <1>9 DEF ShowIInv, LaunchTyped, Launch!OpenedOnce, Launch!WindowShows
<1>10. ASSUME Launch!FocusMoves PROVE ShowIInv'
  BY <1>10 DEF ShowIInv, LaunchTyped, Launch!OpenedOnce, Launch!FocusMoves
<1> QED BY <1>3, <1>4, <1>5, <1>6, <1>7, <1>8, <1>9, <1>10, RunWithTokenKeeps,
           TokenCreatedKeeps, WindowDiesKeeps DEF Launch!LaunchNext, Launch!Proceed

-----------------------------------------------------------------------------
LEMMA SchemeKeeps == ASSUME SchemeIInv, Launch!SchemeNext PROVE SchemeIInv'
<1>0. 0 \in 0..1 /\ 1 \in 0..1
  OBVIOUS
<1>1. CASE Launch!Register
  <2>1. UNCHANGED fileMatches
    BY <1>1 DEF Launch!Register
  <2>2. CASE Launch!Check
    <3>1. registered' = TRUE /\ UNCHANGED <<entries, defaultIs>>
      BY <1>1, <2>2 DEF Launch!Register
    <3> QED BY <2>1, <2>2, <3>1 DEF SchemeIInv, Launch!Check
  <2>3. CASE ~Launch!Check
    <3>1. \/ fileMatches /\ defaultIs' = "desktopFile" /\ entries' = 0 /\ registered' = TRUE
          \/ ~fileMatches /\ defaultIs' = "entry" /\ entries' = 1 /\ registered' = TRUE
          \/ defaultIs' = "other" /\ entries' = 0 /\ registered' = FALSE
      BY <1>1, <2>3 DEF Launch!Register
    <3> QED BY <1>0, <2>1, <3>1, Zenon DEF SchemeIInv, Launch!Check
  <2> QED BY <2>2, <2>3
<1>2. CASE Launch!Unregister
  <2>1. /\ entries' = 0 /\ registered' = FALSE /\ UNCHANGED fileMatches
        /\ defaultIs' \in {"other", defaultIs}
    BY <1>2 DEF Launch!Unregister
  <2> QED BY <1>0, <2>1, Zenon DEF SchemeIInv, Launch!Check
<1>3. CASE Launch!OtherRegisters
  BY <1>3 DEF Launch!OtherRegisters, SchemeIInv, Launch!Check
<1>4. CASE Launch!FileChanges
  BY <1>4 DEF Launch!FileChanges, SchemeIInv, Launch!Check
<1> QED BY <1>1, <1>2, <1>3, <1>4 DEF Launch!SchemeNext

\* What is written for a protocol, and what of it no other one's writing has.
LEMMA WrittenFacts ==
  ASSUME NEW p
  PROVE  /\ Launch!Written(p) = {<<"class", p>>, <<"capabilities", "shared">>,
                                 <<"association", p>>, <<"application", "shared">>,
                                 <<"legacy", p>>}
         /\ Launch!Own(p) = {<<"class", p>>, <<"association", p>>, <<"legacy", p>>}
         /\ Len(Launch!Keys(p)) = 5
         /\ \A n \in 0..5 : {Launch!Keys(p)[i] : i \in 1..n} \subseteq Launch!Written(p)
         /\ {Launch!Keys(p)[i] : i \in 1..5} = Launch!Written(p)
<1>1. /\ DOMAIN Launch!Keys(p) = 1..5 /\ Len(Launch!Keys(p)) = 5
      /\ Launch!Keys(p)[1] = <<"class", p>>
      /\ Launch!Keys(p)[2] = <<"capabilities", "shared">>
      /\ Launch!Keys(p)[3] = <<"association", p>>
      /\ Launch!Keys(p)[4] = <<"application", "shared">>
      /\ Launch!Keys(p)[5] = <<"legacy", p>>
  BY DEF Launch!Keys, Launch!Shared
<1>2. Launch!Written(p) = {Launch!Keys(p)[i] : i \in 1..5}
  BY <1>1 DEF Launch!Written
<1>3. 1..5 = {1, 2, 3, 4, 5}
  OBVIOUS
<1>4. Launch!Written(p) = {<<"class", p>>, <<"capabilities", "shared">>, <<"association", p>>,
                           <<"application", "shared">>, <<"legacy", p>>}
  BY <1>1, <1>2, <1>3
<1>5. Launch!Own(p) = {<<"class", p>>, <<"association", p>>, <<"legacy", p>>}
  BY <1>4 DEF Launch!Own, Launch!Shared
<1>6. \A n \in 0..5 : {Launch!Keys(p)[i] : i \in 1..n} \subseteq Launch!Written(p)
  BY <1>2
<1> QED BY <1>1, <1>2, <1>4, <1>5, <1>6

LEMMA RegisterKeeps ==
  ASSUME RegistryIInv, NEW p \in Protocols, Launch!RegisterInRegistry(p) PROVE RegistryIInv'
<1>1. PICK n \in 0..5 :
        /\ registry' = registry \union {Launch!Keys(p)[i] : i \in 1..n}
        /\ IF n = 5
           THEN handles' = handles \union {p} /\ torn' = torn \ {p} /\ bereft' = bereft \ {p}
           ELSE torn' = torn \union {p} /\ UNCHANGED <<handles, bereft>>
  <2>1. Len(Launch!Keys(p)) = 5
    BY WrittenFacts
  <2> QED BY <2>1, Zenon DEF Launch!RegisterInRegistry
<1>2. PICK new \in SUBSET Launch!Written(p) :
        registry' = registry \union new /\ (n = 5 => new = Launch!Written(p))
  BY <1>1, WrittenFacts
<1>3. /\ registry' \subseteq UNION {Launch!Written(q) : q \in Protocols}
      /\ handles' \subseteq Protocols /\ torn' \subseteq Protocols /\ bereft' \subseteq Protocols
  BY <1>1, <1>2 DEF RegistryIInv
<1>4. \A q \in handles' : Launch!CheckRegistry(q)'
  BY <1>1, <1>2 DEF RegistryIInv, Launch!RegistryIsWhole, Launch!CheckRegistry
<1>5. ASSUME NEW q \in Protocols \ (torn' \union bereft')
      PROVE  Launch!CheckRegistry(q)' \/ Launch!Own(q) \intersect registry' = {}
  <2>1. CASE q = p
    BY <1>1, <1>2, <1>5, <2>1 DEF Launch!CheckRegistry
  <2>2. CASE q # p
    <3>1. q \in Protocols \ (torn \union bereft)
      BY <1>1, <1>5, <2>2
    <3>2. CASE Launch!CheckRegistry(q)
      BY <1>2, <3>2 DEF Launch!CheckRegistry
    <3>3. CASE Launch!Own(q) \intersect registry = {}
      <4>1. Launch!Own(q) \intersect Launch!Written(p) = {}
        BY <2>2, WrittenFacts
      <4> QED BY <1>2, <3>3, <4>1
    <3> QED BY <3>1, <3>2, <3>3 DEF RegistryIInv, Launch!RegistryIsWhole
  <2> QED BY <2>1, <2>2
<1> QED BY <1>3, <1>4, <1>5 DEF RegistryIInv, Launch!RegistryIsWhole, Launch!Own

LEMMA UnregisterKeeps ==
  ASSUME RegistryIInv, NEW p \in Protocols, Launch!UnregisterFromRegistry(p)
  PROVE  RegistryIInv'
<1>1. CASE Launch!CheckRegistry(p)
  <2>1. PICK kept \in SUBSET Launch!Written(p) :
          /\ registry' = registry \ ((Launch!Written(p) \union
               (IF <<"association", p>> \in kept THEN {} ELSE Launch!Associations)) \ kept)
          /\ torn' = IF kept = {} THEN torn \ {p} ELSE torn \union {p}
          /\ bereft' = Protocols \ {p}
    BY <1>1 DEF Launch!UnregisterFromRegistry
  <2>2. handles' = {} /\ registry' \subseteq registry
    BY <2>1 DEF Launch!UnregisterFromRegistry
  <2>3. ASSUME NEW q \in Protocols \ (torn' \union bereft')
        PROVE  Launch!Own(q) \intersect registry' = {}
    <3>1. q = p /\ kept = {}
      BY <2>1, <2>3
    <3>2. Launch!Own(p) \subseteq Launch!Written(p)
      BY DEF Launch!Own
    <3> QED BY <2>1, <3>1, <3>2
  <2>4. torn' \subseteq Protocols /\ bereft' \subseteq Protocols
    BY <2>1 DEF RegistryIInv
  <2> QED BY <2>2, <2>3, <2>4 DEF RegistryIInv, Launch!RegistryIsWhole, Launch!Own
<1>2. CASE ~Launch!CheckRegistry(p)
  <2>1. UNCHANGED <<registry, torn, bereft>> /\ handles' = {}
    BY <1>2 DEF Launch!UnregisterFromRegistry
  <2> QED BY <2>1 DEF RegistryIInv, Launch!RegistryIsWhole, Launch!Own, Launch!CheckRegistry
<1> QED BY <1>1, <1>2

-----------------------------------------------------------------------------
LEMMA LaunchStep == ASSUME LaunchIInv, Launch!Next \/ UNCHANGED launchVars PROVE LaunchIInv'
<1>1. UNCHANGED Launch!launchVars => ShowIInv'
  BY DEF LaunchIInv, ShowIInv, LaunchTyped, Launch!OpenedOnce, Launch!launchVars
<1>2. UNCHANGED Launch!schemeVars => SchemeIInv'
  BY DEF LaunchIInv, SchemeIInv, Launch!Check, Launch!schemeVars
<1>3. UNCHANGED Launch!registryVars => RegistryIInv'
  BY DEF LaunchIInv, RegistryIInv, Launch!RegistryIsWhole, Launch!CheckRegistry, Launch!Own,
         Launch!registryVars
<1>4. UNCHANGED launchVars =>
        UNCHANGED <<asked, Launch!launchVars, Launch!schemeVars, Launch!registryVars>>
  BY DEF launchVars, Launch!launchVars, Launch!schemeVars, Launch!registryVars
<1>5. Launch!LaunchNext => UNCHANGED Launch!schemeVars
  BY DEF Launch!LaunchNext, Launch!ShowInFolder, Launch!XdgActivationToken, Launch!Proceed,
         Launch!ManagerProxy, Launch!PortalProxy, Launch!ManagerAnswers, Launch!PortalAnswers,
         Launch!RunWithXdgActivationToken, Launch!TokenCreated, Launch!WindowShows,
         Launch!WindowDies, Launch!FocusMoves, Launch!schemeVars
<1>6. Launch!SchemeNext => UNCHANGED Launch!launchVars
  BY DEF Launch!SchemeNext, Launch!Register, Launch!Unregister, Launch!OtherRegisters,
         Launch!FileChanges
<1>7. Launch!RegistryNext =>
        RegistryIInv' /\ UNCHANGED Launch!launchVars /\ UNCHANGED Launch!schemeVars
  BY RegisterKeeps, UnregisterKeeps DEF LaunchIInv, Launch!RegistryNext,
     Launch!RegisterInRegistry, Launch!UnregisterFromRegistry
<1> QED BY <1>1, <1>2, <1>3, <1>4, <1>5, <1>6, <1>7, LaunchNextKeeps, SchemeKeeps
        DEF LaunchIInv, Launch!Next

LEMMA LaunchStart == Launch!Init => LaunchIInv
<1> SUFFICES ASSUME Launch!Init PROVE LaunchIInv OBVIOUS
<1>1. LaunchTyped
  BY DEF Launch!Init, LaunchTyped
<1>2. Launch!OpenedOnce
  BY OneAtMost DEF Launch!Init, Launch!OpenedOnce, Launch!Shows
<1>3. ShowIInv
  BY <1>1, <1>2 DEF Launch!Init, ShowIInv, Launch!Shows
<1>4. SchemeIInv
  <2>1. registered = FALSE /\ fileMatches \in BOOLEAN /\ entries = 0 /\ defaultIs = "other"
    BY DEF Launch!Init
  <2>2. entries \in 0..1
    BY <2>1
  <2> QED BY <2>1, <2>2, Zenon DEF SchemeIInv
<1>5. RegistryIInv
  BY DEF Launch!Init, RegistryIInv, Launch!RegistryIsWhole
<1> QED BY <1>3, <1>4, <1>5 DEF Launch!Init, LaunchIInv

LEMMA LaunchServes ==
  LaunchIInv => /\ Launch!TypeOK
                /\ Launch!OpenedOnce /\ Launch!SchemeIsOurs /\ Launch!RegistryIsWhole
<1> SUFFICES ASSUME LaunchIInv
             PROVE  /\ Launch!TypeOK
                    /\ Launch!OpenedOnce /\ Launch!SchemeIsOurs /\ Launch!RegistryIsWhole
  OBVIOUS
<1>1. Launch!TypeOK
  BY DEF LaunchIInv, ShowIInv, LaunchTyped, SchemeIInv, RegistryIInv, Launch!TypeOK
<1>2. Launch!SchemeIsOurs
  BY DEF LaunchIInv, SchemeIInv, Launch!SchemeIsOurs
<1> QED BY <1>1, <1>2 DEF LaunchIInv, ShowIInv, RegistryIInv
-----------------------------------------------------------------------------
\* Windows: the thread has its callback for as long as there is a thread.
LEMMA WinKeeps == ASSUME WinIInv, Hooks!WinNext PROVE WinIInv'
<1> USE DEF WinIInv
<1>1. CASE Hooks!Start
  <2>1. CASE UNCHANGED <<ThreadHandle, ThreadEvent, winCallback, winThread, made>>
    BY <1>1, <2>1, Zenon DEF Hooks!Start
  <2>2. CASE /\ ThreadHandle' = TRUE /\ ThreadEvent' = "unset" /\ winCallback' = TRUE
             /\ winThread' = "new"
    <3>1. quitPosted' = FALSE /\ winThread = "none"
          /\ UNCHANGED <<winMain, GlobalHookKeyboard, GlobalHookMouse, nullCalled>>
      BY <1>1 DEF Hooks!Start
    <3> QED BY <2>2, <3>1, Zenon
  <2> QED BY <1>1, <2>1, <2>2 DEF Hooks!Start
<1>2. CASE Hooks!Stop
  BY <1>2, Zenon DEF Hooks!Stop
<1>3. CASE Hooks!PostQuit
  BY <1>3 DEF Hooks!PostQuit
<1>4. CASE Hooks!ThreadGone
  BY <1>4 DEF Hooks!ThreadGone
<1>5. CASE Hooks!MakeQueue
  BY <1>5 DEF Hooks!MakeQueue, Hooks!Thread, Hooks!ownerVars
<1>6. CASE Hooks!HookKeyboard
  BY <1>6 DEF Hooks!HookKeyboard, Hooks!Thread, Hooks!ownerVars
<1>7. CASE Hooks!HookMouse
  BY <1>7 DEF Hooks!HookMouse, Hooks!ownerVars
<1>8. CASE Hooks!Quit
  BY <1>8 DEF Hooks!Quit, Hooks!Thread, Hooks!ownerVars
<1>9. CASE Hooks!Unhook
  <2>1. /\ winThread = "leaving" /\ winThread' = "ended"
        /\ GlobalHookKeyboard' = FALSE /\ GlobalHookMouse' = FALSE
        /\ UNCHANGED <<winMain, ThreadHandle, winCallback, ThreadEvent, quitPosted, nullCalled>>
    BY <1>9 DEF Hooks!Unhook, Hooks!Thread, Hooks!ownerVars
  <2> QED BY <2>1, Zenon
<1>10. CASE Hooks!Hooked
  BY <1>10 DEF Hooks!Hooked, Hooks!ownerVars
<1> HIDE DEF WinIInv
<1> QED BY <1>1, <1>2, <1>3, <1>4, <1>5, <1>6, <1>7, <1>8, <1>9, <1>10
        DEF Hooks!WinNext, Hooks!RunThread

\* macOS: the tap is read between the start of its thread and its end, and a key
\* that the callback was told of is told as it is, or unseen.
LEMMA ToggleKeeps ==
  ASSUME TapIInv, KeysIInv, NEW k \in Hooks!MacKeys, Hooks!Toggle(k)
  PROVE  TapIInv' /\ KeysIInv'
<1> DEFINE down == IF k \in macDown THEN macDown \ {k} ELSE macDown \union {k}
           said == Hooks!SaidDown(k, down)
<1>1. /\ macDown' = down
      /\ UNCHANGED <<macOwner, EventPort, ThreadRunLoop, tapThread, stopRequested, tooEarly,
                     macCallback>>
  BY DEF Hooks!Toggle
<1>2. TapIInv'
  <2>1. CASE tapThread = "running"
    <3>1. nullCall' = (nullCall \/ ~macCallback)
      BY <2>1 DEF Hooks!Toggle
    <3>2. macCallback = TRUE /\ nullCall = FALSE
      BY <2>1 DEF TapIInv
    <3> QED BY <1>1, <3>1, <3>2 DEF TapIInv
  <2>2. CASE tapThread # "running"
    BY <1>1, <2>2 DEF TapIInv, Hooks!Toggle
  <2> QED BY <2>1, <2>2
<1>3. KeysIInv'
  <2>1. CASE tapThread = "running"
    <3>1. /\ macTold' = IF said THEN macTold \union {k} ELSE macTold \ {k}
          /\ macUnseen' = IF said = (k \in down) THEN macUnseen \ {k} ELSE macUnseen \union {k}
      BY <2>1 DEF Hooks!Toggle
    <3>2. CASE said = (k \in down)
      <4>1. k \in macDown' <=> k \in macTold'
        BY <1>1, <3>1, <3>2 DEF Hooks!SaidDown, Hooks!Flag
      <4> QED BY <1>1, <3>1, <3>2, <4>1 DEF KeysIInv
    <3>3. CASE said # (k \in down)
      BY <1>1, <3>1, <3>3 DEF KeysIInv
    <3> QED BY <3>2, <3>3
  <2>2. CASE tapThread # "running"
    BY <1>1, <2>2 DEF KeysIInv, Hooks!Toggle
  <2> QED BY <2>1, <2>2
<1> QED BY <1>2, <1>3

LEMMA MacKeeps == ASSUME TapIInv, KeysIInv, Hooks!MacNext PROVE TapIInv' /\ KeysIInv'
<1>1. CASE Hooks!MacStart
  <2>1. KeysIInv'
    BY <1>1 DEF KeysIInv, Hooks!MacStart
  <2>2. TapIInv'
    BY <1>1, Zenon DEF TapIInv, Hooks!MacStart
  <2> QED BY <2>1, <2>2
<1>2. CASE Hooks!MacStop
  BY <1>2 DEF TapIInv, KeysIInv, Hooks!MacStop, Hooks!keyVars
<1>3. CASE Hooks!MacJoined
  <2>1. KeysIInv'
    BY <1>3 DEF KeysIInv, Hooks!MacJoined, Hooks!keyVars
  <2>2. TapIInv'
    BY <1>3, Zenon DEF TapIInv, Hooks!MacJoined
  <2> QED BY <2>1, <2>2
<1>4. CASE Hooks!TapThread
  BY <1>4 DEF TapIInv, KeysIInv, Hooks!TapThread, Hooks!KnowLoop, Hooks!RunLoop,
              Hooks!LeaveLoop, Hooks!keyVars
<1>5. ASSUME NEW k \in Hooks!MacKeys, Hooks!Toggle(k) PROVE TapIInv' /\ KeysIInv'
  BY <1>5, ToggleKeeps
<1> QED BY <1>1, <1>2, <1>3, <1>4, <1>5 DEF Hooks!MacNext

LEMMA HooksStep == ASSUME HooksIInv, Hooks!Next \/ UNCHANGED hookVars PROVE HooksIInv'
<1>1. UNCHANGED Hooks!winVars => WinIInv'
  BY DEF HooksIInv, WinIInv, Hooks!winVars
<1>2. UNCHANGED Hooks!macVars => TapIInv' /\ KeysIInv'
  BY DEF HooksIInv, TapIInv, KeysIInv, Hooks!macVars
<1>3. UNCHANGED hookVars => UNCHANGED <<hookSystem, Hooks!winVars, Hooks!macVars>>
  BY DEF hookVars, Hooks!winVars, Hooks!macVars
<1> QED BY <1>1, <1>2, <1>3, WinKeeps, MacKeeps DEF HooksIInv, Hooks!Next, Hooks!Win, Hooks!Mac

LEMMA HooksStart == Hooks!Init => HooksIInv
<1> SUFFICES ASSUME Hooks!Init PROVE HooksIInv OBVIOUS
<1>1. WinIInv
  BY Zenon DEF Hooks!Init, Hooks!WinInit, WinIInv
<1>2. TapIInv
  BY Zenon DEF Hooks!Init, Hooks!MacInit, TapIInv
<1>3. KeysIInv
  BY DEF Hooks!Init, Hooks!MacInit, KeysIInv
<1> QED BY <1>1, <1>2, <1>3 DEF Hooks!Init, HooksIInv

LEMMA HooksServe ==
  HooksIInv => /\ Hooks!TypeOK
               /\ Hooks!HooksHaveCallback /\ Hooks!TapHasCallback /\ Hooks!MacToldIsTrue
<1> SUFFICES ASSUME HooksIInv
             PROVE  /\ Hooks!TypeOK
                    /\ Hooks!HooksHaveCallback /\ Hooks!TapHasCallback /\ Hooks!MacToldIsTrue
  OBVIOUS
<1>1. Hooks!TypeOK
  BY DEF HooksIInv, WinIInv, TapIInv, KeysIInv, Hooks!TypeOK
<1>2. Hooks!HooksHaveCallback
  BY DEF HooksIInv, WinIInv, Hooks!HooksHaveCallback
<1>3. Hooks!TapHasCallback
  BY DEF HooksIInv, TapIInv, Hooks!TapHasCallback
<1>4. Hooks!MacToldIsTrue
  BY DEF HooksIInv, KeysIInv, Hooks!MacToldIsTrue
<1> QED BY <1>1, <1>2, <1>3, <1>4
-----------------------------------------------------------------------------
(***************************************************************************)
(* SingleQueuedInvokation.  While _pending is 1 there is one lambda, or    *)
(* one thread that is about to queue it.                                   *)
(***************************************************************************)
CallIInv ==
  /\ _pending \in {0, 1} /\ running \in BOOLEAN /\ unseen \subseteq Callers /\ queued \in 0..1
  /\ calling \in [Callers -> {"idle", "enter", "won"}]
  /\ \A t, u \in Call!Winners : t = u
  /\ Call!Winners # {} => queued = 0
  /\ _pending = 1 <=> Call!Winners # {} \/ queued = 1

LEMMA CallStep ==
  ASSUME CallIInv, Call!Next \/ UNCHANGED queueVars PROVE CallIInv'
<1>1. CASE Call!Start \/ Call!Callback \/ UNCHANGED queueVars
  <2>1. Call!Winners' = Call!Winners
    BY <1>1 DEF Call!Start, Call!Callback, queueVars, Call!Winners
  <2>2. CASE Call!Start
    <3>1. Call!Winners = {} /\ queued = 1 BY <2>2 DEF CallIInv, Call!Start
    <3>2. queued' = 0 /\ _pending' = 0 BY <2>2, <3>1 DEF Call!Start
    <3> QED BY <2>1, <2>2, <3>1, <3>2 DEF CallIInv, Call!Start
  <2>3. CASE Call!Callback BY <2>1, <2>3 DEF CallIInv, Call!Callback
  <2>4. CASE UNCHANGED queueVars BY <2>1, <2>4 DEF CallIInv, queueVars
  <2> QED BY <1>1, <2>2, <2>3, <2>4
<1>2. ASSUME NEW t \in Callers, Call!Write(t) PROVE CallIInv'
  <2>1. Call!Winners' = Call!Winners BY <1>2 DEF CallIInv, Call!Write, Call!Winners
  <2> QED BY <1>2, <2>1 DEF CallIInv, Call!Write
<1>3. ASSUME NEW t \in Callers, Call!TestAndSet(t) PROVE CallIInv'
  <2>1. Call!Winners' = IF _pending = 0 THEN Call!Winners \union {t} ELSE Call!Winners
    BY <1>3 DEF CallIInv, Call!TestAndSet, Call!Winners
  <2> QED BY <1>3, <2>1 DEF CallIInv, Call!TestAndSet
<1>4. ASSUME NEW t \in Callers, Call!Invoke(t) PROVE CallIInv'
  <2>1. t \in Call!Winners /\ Call!Winners' = Call!Winners \ {t}
    BY <1>4 DEF CallIInv, Call!Invoke, Call!Winners
  <2>2. Call!Winners' = {} BY <2>1 DEF CallIInv
  <2> QED BY <1>4, <2>1, <2>2 DEF CallIInv, Call!Invoke
<1> QED BY <1>1, <1>2, <1>3, <1>4 DEF Call!Next, Call!Thread

LEMMA CallStart == Call!Init => CallIInv
<1> SUFFICES ASSUME Call!Init PROVE CallIInv OBVIOUS
<1>1. Call!Winners = {} BY DEF Call!Init, Call!Winners
<1>2. calling \in [Callers -> {"idle", "enter", "won"}] BY DEF Call!Init
<1>3. _pending = 0 /\ unseen = {} /\ queued = 0 /\ running = FALSE BY DEF Call!Init
<1>4. _pending \in {0, 1} /\ running \in BOOLEAN /\ unseen \subseteq Callers /\ queued \in 0..1
  <2>1. _pending \in {0, 1} /\ queued \in 0..1 BY <1>3
  <2>2. running \in BOOLEAN BY <1>3, Zenon
  <2>3. unseen \subseteq Callers BY <1>3
  <2> QED BY <2>1, <2>2, <2>3
<1>5. /\ \A t, u \in Call!Winners : t = u
      /\ Call!Winners # {} => queued = 0
      /\ _pending = 1 <=> Call!Winners # {} \/ queued = 1
  BY <1>1, <1>3
<1> QED BY <1>2, <1>4, <1>5, Zenon DEF CallIInv

LEMMA CallServes == CallIInv => Call!TypeOK
<1> SUFFICES ASSUME CallIInv PROVE Call!TypeOK OBVIOUS
<1>1. Call!Cardinality(Call!Winners) = Cardinality(Call!Winners)
  BY DEF Call!Cardinality, Cardinality
<1>2. CASE Call!Winners = {}
  <2>1. Cardinality(Call!Winners) = 0 BY <1>2, FS_EmptySet
  <2> QED BY <1>1, <1>2, <2>1 DEF CallIInv, Call!TypeOK
<1>3. CASE Call!Winners # {}
  <2>1. PICK t : Call!Winners = {t}
    <3>1. PICK t : t \in Call!Winners BY <1>3
    <3>2. \A u \in Call!Winners : u = t BY <3>1 DEF CallIInv
    <3>3. Call!Winners = {t} BY <3>1, <3>2
    <3> QED BY <3>3
  <2>2. Cardinality(Call!Winners) = 1 BY <2>1, FS_Singleton
  <2> QED BY <1>1, <1>3, <2>2 DEF CallIInv, Call!TypeOK
<1> QED BY <1>2, <1>3

-----------------------------------------------------------------------------
(***************************************************************************)
(* All of them together, each of which is alone in a behaviour.            *)
(***************************************************************************)
allVars == <<subject, vars, setVars, mapVars, queueVars, timerVars, callVars, quitVars,
             commandVars, launchVars, hookVars>>

LEMMA MCParts ==
  ASSUME [MCNext]_allVars
  PROVE  /\ Next \/ UNCHANGED vars
         /\ Set!Next \/ UNCHANGED setVars
         /\ Map!Next \/ UNCHANGED mapVars
         /\ Call!Next \/ UNCHANGED queueVars
         /\ OneThread!Next \/ (UNCHANGED timerVars /\ UNCHANGED callVars)
         /\ Quit!Next \/ UNCHANGED quitVars
         /\ Commands!Next \/ UNCHANGED commandVars
         /\ Launch!Next \/ UNCHANGED launchVars
         /\ Hooks!Next \/ UNCHANGED hookVars
<1>1. CASE MCNext
  BY <1>1, Zenon DEF MCNext
<1>2. CASE UNCHANGED allVars
  BY <1>2 DEF allVars
<1> QED BY <1>1, <1>2

LEMMA EventsStay == MCSpec => []EventsIInv
<1>1. MCInit => EventsIInv
  BY TimerStart, QuitStart, CommandsStart DEF MCInit, EventsIInv
<1>2. EventsIInv /\ [MCNext]_allVars => EventsIInv'
  BY MCParts, TimerStep, QuitStep, CommandsStep DEF EventsIInv
<1> QED BY <1>1, <1>2, PTL DEF MCSpec, allVars

LEMMA DesktopStays == MCSpec => []DesktopIInv
<1>1. MCInit => DesktopIInv
  BY LaunchStart, HooksStart DEF MCInit, DesktopIInv
<1>2. DesktopIInv /\ [MCNext]_allVars => DesktopIInv'
  BY MCParts, LaunchStep, HooksStep DEF DesktopIInv
<1> QED BY <1>1, <1>2, PTL DEF MCSpec, allVars

\* A timer of one thread never fires more often than its timeouts have passed, also
\* when adjust() restarts it after a sleep, and a prompt thread has it on time; the
\* application of macOS quits only for a hold that was long enough or for a double
\* tap; and commands of secondary instances are fired whole, in their order, and
\* their done() is called for a reply that came.
THEOREM EventsAlwaysTrue == MCSpec => []EventsAreTrue
<1>1. TimerIInv => OneThread!TimerNeverEarly /\ OneThread!TimerOnTime
  <2> SUFFICES ASSUME TimerIInv PROVE OneThread!TimerNeverEarly /\ OneThread!TimerOnTime
    OBVIOUS
  <2>1. Spent <= elapsed
    BY TimerFacts DEF TimerIInv
  <2> QED BY <2>1 DEF TimerIInv, Spent, OneThread!TimerNeverEarly, OneThread!TimerOnTime
<1>2. EventsIInv => EventsAreTrue
  BY <1>1, CommandsServe DEF EventsIInv, QuitIInv, EventsAreTrue
<1> QED BY <1>2, EventsStay, PTL

\* A folder that is to be shown opens once unless an answer came too late, a url
\* scheme that was registered stays ours until somebody takes it, the registry has
\* all of a protocol or nothing of it; and no hook of a thread calls a callback that
\* Stop() took away, stays in when its thread is gone, or tells of a key what is not.
THEOREM DesktopAlwaysServed == MCSpec => []DesktopIsServed
<1>1. DesktopIInv => DesktopIsServed
  BY LaunchServes, HooksServe DEF DesktopIInv, DesktopIsServed
<1> QED BY <1>1, DesktopStays, PTL

ContainersIInv == SetIInv /\ MapIInv

LEMMA ContainersStay == ASSUME MaxPassed <= 1 PROVE MCSpec => []ContainersIInv
<1>1. MCInit => ContainersIInv
  BY SetStart, MapStart DEF MCInit, ContainersIInv
<1>2. ContainersIInv /\ [MCNext]_allVars => ContainersIInv'
  BY MCParts, SetStep, MapStep DEF ContainersIInv
<1> QED BY <1>1, <1>2, PTL DEF MCSpec, allVars

LEMMA QueueStays == MCSpec => []CallIInv
<1>1. MCInit => CallIInv
  BY CallStart DEF MCInit
<1>2. CallIInv /\ [MCNext]_allVars => CallIInv'
  BY MCParts, CallStep
<1> QED BY <1>1, <1>2, PTL DEF MCSpec, allVars

LEMMA OptionsStay == MCSpec => []SavedInv
<1>1. MCInit => SavedInv
  BY StartsSaved DEF MCInit
<1>2. SavedInv /\ [MCNext]_allVars => SavedInv'
  <2> SUFFICES ASSUME SavedInv, [MCNext]_allVars PROVE SavedInv'
    OBVIOUS
  <2>1. [Next]_vars BY MCParts
  <2> QED BY <2>1, NextSaves
<1> QED BY <1>1, <1>2, PTL DEF MCSpec, allVars

\* Whatever is inserted, removed, taken, merged or modified, the vectors of a flat_set
\* and of a flat_map are sorted, with no item or key twice: every bisection searches
\* what it may search.  modify() must not move an item past more than one other.
THEOREM ContainersStaySorted == ASSUME MaxPassed <= 1 PROVE MCSpec => []ContainersSorted
<1>1. ContainersIInv => ContainersSorted
  BY SetServes, MapServes DEF ContainersIInv, ContainersSorted
<1> QED BY <1>1, ContainersStay, PTL

\* Every operation of a flat_set or flat_multi_set does to a bag of items, and every
\* one of a flat_map or flat_multi_map to the values of each key, what the abstract
\* container does, and returns what that returns: the bisections, the cuts, sort and
\* unique of merge(), and the walk of modify() lose, keep and find nothing they should
\* not.  modify() must not move an item past more than one other.
THEOREM ContainersRefine == ASSUME MaxPassed <= 1 PROVE MCSpec => ContainersImplement
<1>1. ContainersIInv => Set!Implements /\ Map!Implements
  BY SetImplements, MapImplements DEF ContainersIInv
<1>2. ContainersIInv => [subject = "set" => Set!Implements]_setVars
  BY <1>1
<1>3. ContainersIInv => [subject = "map" => Map!Implements]_mapVars
  BY <1>1
<1> QED BY <1>2, <1>3, ContainersStay, PTL DEF ContainersImplement

\* Each option keeps a value of its own type and has one delayed call at most, what
\* flat_sets and flat_maps hold are items and pairs, one lambda is queued while _pending
\* is 1, and timers, attempts to quit, commands, launches and hooks have their states.
THEOREM MainThreadTypes == ASSUME MaxPassed <= 1 PROVE MCSpec => []TypesOK
<1> DEFINE AllIInv == SavedInv /\ ContainersIInv /\ CallIInv /\ EventsIInv /\ DesktopIInv
<1>1. AllIInv => TypesOK
  <2> SUFFICES ASSUME AllIInv PROVE TypesOK
    OBVIOUS
  <2>1. TypeOK
    BY DEF SavedInv
  <2>2. Set!TypeOK /\ Map!TypeOK
    BY SetServes, MapServes DEF ContainersIInv
  <2>3. Call!TypeOK
    BY CallServes
  <2>4. OneThread!TypeOK /\ Quit!TypeOK
    BY TimerTypes DEF EventsIInv, QuitIInv
  <2>5. Commands!TypeOK
    BY CommandsTypes DEF EventsIInv
  <2>6. Launch!TypeOK /\ Hooks!TypeOK
    BY LaunchServes, HooksServe DEF DesktopIInv
  <2> QED BY <2>1, <2>2, <2>3, <2>4, <2>5, <2>6 DEF TypesOK
<1>2. MCSpec => []AllIInv
  BY OptionsStay, ContainersStay, QueueStays, EventsStay, DesktopStays, PTL
<1> QED BY <1>1, <1>2, PTL
=============================================================================
