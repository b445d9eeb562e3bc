-------------------------- MODULE ConcurrentTimer --------------------------
(***************************************************************************)
(* base::ConcurrentTimer (concurrent_timer.h, concurrent_timer.cpp) with   *)
(* the binary_guard handles it hands to other threads (binary_guard.h).    *)
(*                                                                         *)
(* Three threads take part.  The OWNER queue runs the timer's methods, its *)
(* callback and the tasks posted through _runner.  The TIMER thread of     *)
(* ConcurrentTimerEnvironment runs the TimerObject: its posted events, its *)
(* Qt timer and the adjust signal.  The MAIN thread reports clock jumps    *)
(* and destroys the environment.  A handler of the owner is one step, cut  *)
(* only where start() has posted and not yet set _next; a method run by    *)
(* the timer thread is cut between the guard's load and the post to the    *)
(* owner, where the owner may run.                                         *)
(*                                                                         *)
(* Time is relative: due is how far _next lies ahead of crl::now(), qt how *)
(* long the Qt timer has left.  A sleep moves crl::now() and not qt.       *)
(***************************************************************************)
EXTENDS Integers, Sequences, FiniteSets

CONSTANTS
  Guards,       \* the atomic<bool> cells that binary_guard may allocate
  None,         \* a null handle, a Qt timer that is not started
  Timeouts,     \* the timeouts callOnce and callEach are given
  Jumps,        \* how far a sleep moves crl::now()
  MaxStarts,    \* bound: calls of callOnce and callEach
  MaxAdjusts    \* bound: clock jumps

ASSUME ConstantsAssumption ==
  /\ None \notin Guards /\ None \notin Nat
  /\ Timeouts \subseteq Nat
  /\ Jumps \subseteq Nat \ {0}
  /\ MaxStarts \in Nat /\ MaxAdjusts \in Nat

VARIABLES
  cell,         \* per cell: "free", or how many of its two handles are left
  running,      \* _running: the cell it holds, or None
  repeat,       \* _repeat
  adjusted,     \* _adjusted
  timeout,      \* _timeout
  due,          \* _next - crl::now(), 0 once _next is past
  starting,     \* the owner is in start(), between its post and its _next
  owner,        \* the owner queue: "idle", in the "callback", timer "gone"
  ohold,        \* the handle of the task the owner is running, or None
  tasks,        \* what _runner has queued for the owner
  object,       \* the TimerObject: "none", "live" or "deleted"
  events,       \* its posted CallDelayedEvents (Qt::HighEventPriority)
  low,          \* normal priority: "adjust" signals, "delete" (deleteLater)
  next,         \* TimerObject::_next: the cell its method guards, or None
  qt,           \* time the Qt timer has left, or None if _timerId is 0
  thread,       \* the timer thread: "idle", "check", "post" or "finished"
  thold,        \* the handle inside the method the thread runs, or None
  env,          \* the environment: "up", "quit", "released" or "down"
  starts,       \* calls of callOnce and callEach so far
  adjusts,      \* clock jumps so far
  owed,         \* history: a start has neither fired nor been cancelled
  early,        \* history: how much of its timeout is left on crl::now()
  wantEach      \* history: the last call was callEach, and none cancelled it

ownerVars  == <<running, repeat, adjusted, timeout, due, starting, owner, ohold>>
threadVars == <<next, qt, thread, thold>>
queueVars  == <<tasks, events, low>>
bounds     == <<starts, adjusts>>
vars == <<cell, ownerVars, threadVars, queueVars, object, env, bounds,
          owed, early, wantEach>>
history == <<owed, early, wantEach>>

Modes == {"Interval", "SingleShot"}   \* enum class Repeat

Fire(g) == [kind |-> "fire", guard |-> g]
Adjust  == [kind |-> "adjust", guard |-> None]

-----------------------------------------------------------------------------
(* binary_guard *)

AliveMutant(g) == g # None
Alive(g) == g # None /\ cell[g] = "both"

\* destroy() of one handle: the first clears the flag, the second deletes.
DestroyedMutant(c, g) == IF g = None THEN c ELSE [c EXCEPT ![g] = "one"]
Destroyed(c, g) ==
  IF g = None THEN c
  ELSE [c EXCEPT ![g] = IF @ = "both" THEN "one" ELSE "free"]

\* make_guard(): drop the old handle, then both handles of a new cell.
GuardedMutant(c, g) == [c EXCEPT ![g] = "both"]
Guarded(c, g) == [Destroyed(c, running) EXCEPT ![g] = "both"]

\* Several handles dropped at once, when their holders are deleted.
AllDestroyed(c, gs) ==
  [g \in Guards |->
    IF g \notin gs THEN c[g] ELSE IF c[g] = "both" THEN "one" ELSE "free"]

FreeCells == {g \in Guards : cell[g] = "free"}

IsActive == Alive(running)

-----------------------------------------------------------------------------
(* The owner queue *)

\* cancelAndSchedule(): a new guard, a method holding it, one event.  Without
\* a TimerObject the event is dropped and the method's handle with it.
CancelAndSchedule(t, g) ==
  /\ running' = g
  /\ IF object = "none"
       THEN /\ cell' = Destroyed(Guarded(cell, g), g)
            /\ UNCHANGED events
       ELSE /\ cell' = Guarded(cell, g)
            /\ events' = Append(events, [timeout |-> t, guard |-> g])

\* start() up to its post: the caller names the timeout and the repeat mode.
DoStart(t, r, g) ==
  /\ repeat' = r /\ adjusted' = FALSE /\ timeout' = t /\ starting' = TRUE
  /\ CancelAndSchedule(t, g)
  /\ owed' = TRUE /\ early' = t
  /\ UNCHANGED due

\* The rest of it, which reads crl::now() after the post.
SetNext ==
  /\ starting
  /\ due' = timeout /\ starting' = FALSE
  /\ UNCHANGED <<cell, running, repeat, adjusted, timeout, owner, ohold, threadVars,
                 queueVars, object, env, bounds, history>>

Start(t, r, g) ==
  /\ owner # "gone" /\ ~starting /\ starts < MaxStarts
  /\ DoStart(t, r, g)
  /\ starts' = starts + 1
  /\ wantEach' = (r = "Interval")
  /\ UNCHANGED <<owner, ohold, tasks, low, threadVars, object, env, adjusts>>

\* cancel(): _running = {} leaves no handle, so isActive() is false right
\* after it and the branch that would post a CancelTimerEvent is never taken.
Cancel ==
  /\ owner # "gone" /\ ~starting /\ running # None
  /\ cell' = Destroyed(cell, running)
  /\ running' = None
  /\ owed' = FALSE /\ wantEach' = FALSE
  /\ UNCHANGED <<repeat, adjusted, timeout, due, starting, owner, ohold, threadVars,
                 queueVars, object, env, bounds, early>>

\* The handles that go with the TimerObject and the events posted to it.
ObjectHandles == ({next} \ {None}) \cup {events[i].guard : i \in DOMAIN events}

\* ~TimerObjectWrap: if (Environment).
DefersDelete == env \in {"up", "quit"}

DeleteObject(c) ==
  /\ object' = "deleted" /\ next' = None /\ qt' = None /\ events' = <<>>
  /\ cell' = AllDestroyed(c, ObjectHandles)

\* ~ConcurrentTimer and ~TimerObjectWrap.  With an Environment the object is
\* left to its thread, without one it is deleted here.
DestroyTimer ==
  /\ owner = "idle" /\ ~starting
  /\ owner' = "gone" /\ running' = None
  /\ owed' = FALSE /\ wantEach' = FALSE
  /\ LET c == Destroyed(cell, running)
     IN  \/ /\ object = "live" /\ DefersDelete
            /\ low' = Append(low, "delete")
            /\ cell' = c
            /\ UNCHANGED <<object, next, qt, events>>
         \/ /\ object = "live" /\ ~DefersDelete
            /\ DeleteObject(c)
            /\ UNCHANGED low
         \/ /\ object = "none"
            /\ cell' = c
            /\ UNCHANGED <<object, next, qt, events, low>>
  /\ UNCHANGED <<repeat, adjusted, timeout, due, starting, ohold, tasks, thread, thold,
                 env, bounds, early>>

\* A queued task whose guard is dead does nothing and drops its handle.
RunStaleFire ==
  /\ owner # "callback" /\ ~starting /\ tasks # <<>> /\ Head(tasks).kind = "fire"
  /\ ~Alive(Head(tasks).guard)
  /\ cell' = Destroyed(cell, Head(tasks).guard)
  /\ tasks' = Tail(tasks)
  /\ UNCHANGED <<ownerVars, threadVars, events, low, object, env, bounds, history>>

\* timerEvent() up to the call of _callback, one disjunct per branch.
RunFire(g) ==
  /\ owner = "idle" /\ ~starting /\ tasks # <<>> /\ Head(tasks).kind = "fire"
  /\ Alive(Head(tasks).guard)
  /\ owner' = "callback" /\ ohold' = Head(tasks).guard
  /\ tasks' = Tail(tasks)
  /\ \/ /\ repeat = "Interval" /\ adjusted
        /\ DoStart(timeout, repeat, g)
     \/ /\ repeat = "Interval" /\ ~adjusted
        /\ due' = timeout
        /\ owed' = FALSE
        /\ UNCHANGED <<cell, running, repeat, adjusted, timeout, starting, events, early>>
     \/ /\ repeat = "SingleShot"
        /\ cell' = Destroyed(cell, running) /\ running' = None
        /\ owed' = FALSE
        /\ UNCHANGED <<repeat, adjusted, timeout, due, starting, events, early>>
  /\ UNCHANGED <<low, threadVars, object, env, bounds, wantEach>>

\* _callback returns and the task dies with the handle it held.
EndFire ==
  /\ owner = "callback" /\ ~starting
  /\ owner' = "idle" /\ ohold' = None
  /\ cell' = Destroyed(cell, ohold)
  /\ UNCHANGED <<running, repeat, adjusted, timeout, due, starting, threadVars,
                 queueVars, object, env, bounds, history>>

\* The adjuster's task: nothing once _guard expired, else adjust().
RunAdjust(g) ==
  /\ owner # "callback" /\ ~starting /\ tasks # <<>> /\ Head(tasks).kind = "adjust"
  /\ tasks' = Tail(tasks)
  /\ \/ /\ owner = "idle" /\ IsActive
        /\ CancelAndSchedule(due, g)
        /\ adjusted' = TRUE
     \/ /\ owner = "gone" \/ ~IsActive
        /\ UNCHANGED <<cell, running, events, adjusted>>
  /\ UNCHANGED <<repeat, timeout, due, starting, owner, ohold, low, threadVars, object,
                 env, bounds, history>>

OwnerTask == SetNext \/ RunStaleFire \/ EndFire \/ \E g \in FreeCells : RunFire(g) \/ RunAdjust(g)

-----------------------------------------------------------------------------
(* The timer thread *)

\* callDelayed(): cancel() the previous method, then start a Qt timer or run
\* the new method at once.
CallDelayed ==
  /\ thread = "idle" /\ events # <<>>
  /\ LET e == Head(events)
     IN  /\ cell' = Destroyed(cell, next)
         /\ events' = Tail(events)
         /\ \/ /\ e.timeout > 0
               /\ next' = e.guard /\ qt' = e.timeout
               /\ UNCHANGED <<thread, thold>>
            \/ /\ e.timeout = 0
               /\ next' = None /\ qt' = None
               /\ thread' = "check" /\ thold' = e.guard
  /\ UNCHANGED <<ownerVars, tasks, low, object, env, bounds, history>>

\* callNow(): the Qt timer went off; it is killed and its method run.
CallNow ==
  /\ thread = "idle" /\ qt = 0
  /\ thread' = "check" /\ thold' = next
  /\ next' = None /\ qt' = None
  /\ UNCHANGED <<cell, ownerVars, queueVars, object, env, bounds, history>>

\* The method of cancelAndSchedule(), first half: if (!guard) return.
CheckGuard ==
  /\ thread = "check"
  /\ \/ /\ Alive(thold)
        /\ thread' = "post"
        /\ UNCHANGED <<cell, thold>>
     \/ /\ ~Alive(thold)
        /\ cell' = Destroyed(cell, thold)
        /\ thread' = "idle" /\ thold' = None
  /\ UNCHANGED <<ownerVars, next, qt, queueVars, object, env, bounds, history>>

\* Second half: runner(...) takes the handle along.
PostFire ==
  /\ thread = "post"
  /\ tasks' = Append(tasks, Fire(thold))
  /\ thread' = "idle" /\ thold' = None
  /\ UNCHANGED <<cell, ownerVars, next, qt, events, low, object, env, bounds,
                 history>>

\* Normal-priority events wait until no CallDelayedEvent is left.
TakeAdjust ==
  /\ thread = "idle" /\ events = <<>> /\ low # <<>> /\ Head(low) = "adjust"
  /\ low' = Tail(low)
  /\ tasks' = IF object = "live" THEN Append(tasks, Adjust) ELSE tasks
  /\ UNCHANGED <<cell, ownerVars, threadVars, events, object, env, bounds,
                 history>>

TakeDelete ==
  /\ thread = "idle" /\ events = <<>> /\ low # <<>> /\ Head(low) = "delete"
  /\ low' = Tail(low)
  /\ DeleteObject(cell)
  /\ UNCHANGED <<ownerVars, tasks, thread, thold, env, bounds, history>>

\* The event loop stops after quit(); QThread serves deferred deletes last.
FinishThread ==
  /\ thread = "idle" /\ env \in {"quit", "released"}
  /\ thread' = "finished"
  /\ \/ /\ \E i \in DOMAIN low : low[i] = "delete"
        /\ low' = <<>>
        /\ DeleteObject(cell)
     \/ /\ \A i \in DOMAIN low : low[i] # "delete"
        /\ UNCHANGED <<low, cell, object, next, qt, events>>
  /\ UNCHANGED <<ownerVars, tasks, thold, env, bounds, history>>

ThreadStep == CallDelayed \/ CallNow \/ CheckGuard \/ PostFire
                \/ TakeAdjust \/ TakeDelete \/ FinishThread

-----------------------------------------------------------------------------
(* The main thread and the clocks *)

LessMutant(a, b) == a - b
Less(a, b) == IF a > b THEN a - b ELSE 0

\* ConcurrentTimerEnvironment::Adjust(): only while there is an Environment.
AdjustedMutant(q) == q
Adjusted(q) == IF env = "up" THEN Append(q, "adjust") ELSE q

\* CheckLocalTime() after a sleep of d: crl::adjust_time() has moved
\* crl::now(), and ConcurrentTimerEnvironment::Adjust() signals the thread.
CheckLocalTime(d) ==
  /\ env \in {"up", "down"} /\ adjusts < MaxAdjusts
  /\ adjusts' = adjusts + 1
  /\ due' = Less(due, d) /\ early' = Less(early, d)
  /\ low' = Adjusted(low)
  /\ UNCHANGED <<cell, running, repeat, adjusted, timeout, starting, owner, ohold,
                 threadVars, tasks, events, object, env, starts, owed, wantEach>>

Tick ==
  /\ due > 0 \/ early > 0 \/ qt \notin {None, 0}
  /\ due' = Less(due, 1) /\ early' = Less(early, 1)
  /\ qt' = IF qt = None THEN None ELSE Less(qt, 1)
  /\ UNCHANGED <<cell, running, repeat, adjusted, timeout, starting, owner, ohold, next,
                 thread, thold, queueVars, object, env, bounds, owed, wantEach>>

\* ~ConcurrentTimerEnvironment: quit(), release(), wait().
EnvQuit    == env = "up"       /\ env' = "quit"
EnvRelease == env = "quit"     /\ env' = "released"
EnvWait    == env = "released" /\ thread = "finished" /\ env' = "down"
EnvStep ==
  /\ EnvQuit \/ EnvRelease \/ EnvWait
  /\ UNCHANGED <<cell, ownerVars, threadVars, queueVars, object, bounds, history>>

-----------------------------------------------------------------------------
Init ==
  /\ cell = [g \in Guards |-> "free"]
  /\ running = None /\ repeat = "Interval" /\ adjusted = FALSE
  /\ timeout = 0 /\ due = 0 /\ starting = FALSE /\ owner = "idle" /\ ohold = None
  /\ tasks = <<>> /\ events = <<>> /\ low = <<>>
  /\ object \in {"none", "live"}
  /\ next = None /\ qt = None /\ thread = "idle" /\ thold = None
  /\ env = "up" /\ starts = 0 /\ adjusts = 0
  /\ owed = FALSE /\ early = 0 /\ wantEach = FALSE

OwnerCall ==
  \/ \E t \in Timeouts, r \in Modes, g \in FreeCells :
        Start(t, r, g)
  \/ Cancel
  \/ DestroyTimer

Next ==
  \/ OwnerCall
  \/ OwnerTask
  \/ ThreadStep
  \/ \E d \in Jumps : CheckLocalTime(d)
  \/ Tick
  \/ EnvStep

Spec == Init /\ [][Next]_vars

\* The two event loops run what is queued for them, and time passes; nobody
\* is obliged to start, cancel or destroy anything.
Fairness == WF_vars(OwnerTask) /\ WF_vars(ThreadStep) /\ WF_vars(Tick)
FairSpec == Spec /\ Fairness

\* Both threads serve their queues faster than one unit of time.
Quiet == /\ owner # "callback" /\ ~starting /\ tasks = <<>> /\ events = <<>>
         /\ \A i \in DOMAIN low : low[i] # "adjust"
         /\ thread = "idle" /\ qt # 0
UrgentNext ==
  \/ OwnerCall \/ OwnerTask \/ ThreadStep
  \/ \E d \in Jumps : CheckLocalTime(d)
  \/ Tick /\ Quiet

-----------------------------------------------------------------------------
Cells == {"free", "one", "both"}
Handle == Guards \cup {None}

TaskType == [kind : {"fire", "adjust"}, guard : Handle]
EventType == [timeout : Nat, guard : Guards]

OwnerTypeOK ==
  /\ running \in Handle /\ repeat \in Modes /\ adjusted \in BOOLEAN
  /\ timeout \in Nat /\ due \in Nat /\ starting \in BOOLEAN
  /\ owner \in {"idle", "callback", "gone"} /\ ohold \in Handle
ThreadTypeOK ==
  /\ next \in Handle /\ qt \in Nat \cup {None}
  /\ thread \in {"idle", "check", "post", "finished"} /\ thold \in Handle
QueuesTypeOK ==
  /\ tasks \in Seq(TaskType) /\ events \in Seq(EventType)
  /\ low \in Seq({"adjust", "delete"})
SharedTypeOK ==
  /\ cell \in [Guards -> Cells]
  /\ object \in {"none", "live", "deleted"}
  /\ env \in {"up", "quit", "released", "down"}
BoundsTypeOK ==
  /\ starts \in 0..MaxStarts /\ adjusts \in 0..MaxAdjusts
  /\ owed \in BOOLEAN /\ early \in Nat /\ wantEach \in BOOLEAN
\* The type invariant.
TypeOK ==
  OwnerTypeOK /\ ThreadTypeOK /\ QueuesTypeOK /\ SharedTypeOK /\ BoundsTypeOK

\* A callback begins.
Fires == owner = "idle" /\ owner' = "callback"

\* Every callback answers a start that was neither answered nor cancelled
\* since: no callback after cancel(), after ~ConcurrentTimer or for a start
\* that a later one replaced, and a single shot runs once, however the
\* method in flight interleaves with the owner (both guard checks of
\* cancelAndSchedule, concurrent_timer.cpp:314).
FiresOnlyWhenOwed == [][Fires => owed]_vars

\* No callback begins before crl::now() has come the whole timeout of its start
\* further since start() posted it (not since _next, which start() sets later:
\* concurrent_timer.cpp:296-297), across restarts, adjusts and clock jumps.
NeverEarly == [][Fires => early = 0]_vars

\* The handles somebody still holds.
TaskHandles   == {tasks[i].guard : i \in DOMAIN tasks} \ {None}
MethodHandles == ObjectHandles \cup TaskHandles \cup ({thold, ohold} \ {None})

\* binary_guard's protocol with its two handles: no handle points at a
\* deleted cell, none is leaked once both are gone, and the flag is up
\* exactly while the timer and one method hold the cell.
GuardCellsSafe ==
  /\ \A g \in MethodHandles \cup ({running} \ {None}) : cell[g] # "free"
  /\ \A g \in Guards :
       cell[g] # "free" => g \in MethodHandles \/ g = running
  /\ \A g \in Guards :
       cell[g] = "both" <=> (g \in MethodHandles /\ g = running)

\* A start is answered or withdrawn, as long as the environment stands: no
\* event, task or adjust loses the timer.
OwedIsServed ==
  (owed /\ object = "live" /\ env = "up") ~> (~owed \/ env # "up")

\* A destroyed timer's TimerObject is deleted, if the environment stands.
ObjectReclaimed ==
  (owner = "gone" /\ object = "live") ~> (object = "deleted" \/ env # "up")

\* callEach() declares an interval timer (Repeat::Interval next to
\* Repeat::SingleShot): until it is cancelled it stays active.
IntervalStaysActive ==
  wantEach /\ object = "live" /\ owner = "idle" /\ env = "up" => IsActive
=============================================================================
