------------------------------ MODULE Unixtime ------------------------------
(***************************************************************************)
(* base::unixtime (unixtime.cpp): the shift from the local clock to the    *)
(* server's, and from that to the clock of an http answer.  update() and   *)
(* http_update() work on atomics one at a time, on any thread.  A time is  *)
(* represented by its distance from the local clock, which is taken not to *)
(* move during a call.                                                     *)
(***************************************************************************)
EXTENDS Integers, Sequences

CONSTANTS
  Threads,
  ForcedTimes, Times, HttpTimes,  \* arguments of update() and http_update()
  MaxUpdates                      \* bound: updates queued to the main thread

kIgnoreTimeDifference == 3

VARIABLES
  ValueUpdated, ValueShift, HttpValueValid, HttpValueShift,
  pc,          \* of each thread: the statement it is at, or "idle"
  arg,         \* what its call was given as now
  loaded,      \* what it loaded from ValueShift: old, or the current shift
  _lock,       \* the thread that holds MsgIdManager::_lock, or "none"
  _startShift, \* the shift that _startId was made with
  posted,      \* updates posted to the main thread
  told         \* the shift that subscribers to updates() saw last

shifts == <<ValueUpdated, ValueShift>>
http   == <<HttpValueValid, HttpValueShift>>
ids    == <<_lock, _startShift>>
main   == <<posted, told>>
calls  == <<arg, loaded>>
vars   == <<shifts, http, ids, main, pc, calls>>

goto(t, l) == pc' = [pc EXCEPT ![t] = l]
at(t, l) == pc[t] = l

-----------------------------------------------------------------------------
\* update()
update(t, now, force) ==
  /\ at(t, "idle") /\ posted < MaxUpdates
  /\ arg' = [arg EXCEPT ![t] = now]
  /\ \/ force /\ ValueUpdated' = TRUE /\ goto(t, "exchange")
     \/ ~force /\ ~ValueUpdated /\ goto(t, "ignore") /\ UNCHANGED ValueUpdated
  /\ UNCHANGED <<ValueShift, http, ids, main, loaded>>

Difference(a, b) == IF a > b THEN a - b ELSE b - a

Ignore(t) ==
  /\ at(t, "ignore")
  /\ goto(t, IF Difference(arg[t], ValueShift) < kIgnoreTimeDifference
             THEN "idle" ELSE "compare")
  /\ UNCHANGED <<shifts, http, ids, main, calls>>

Compare(t) ==
  /\ at(t, "compare") /\ ValueUpdated' = TRUE
  /\ goto(t, IF ValueUpdated THEN "idle" ELSE "exchange")
  /\ UNCHANGED <<ValueShift, http, ids, main, calls>>

Exchange(t) ==
  /\ at(t, "exchange") /\ goto(t, "http_shift")
  /\ loaded' = [loaded EXCEPT ![t] = ValueShift] /\ ValueShift' = arg[t]
  /\ UNCHANGED <<ValueUpdated, http, ids, main, arg>>

HttpShift(t) ==
  /\ at(t, "http_shift") /\ goto(t, "http_valid") /\ HttpValueShift' = 0
  /\ UNCHANGED <<shifts, HttpValueValid, ids, main, calls>>

HttpValid(t) ==
  /\ at(t, "http_valid") /\ HttpValueValid' = FALSE
  /\ goto(t, IF loaded[t] = arg[t] THEN "idle" ELSE "lock")
  /\ UNCHANGED <<shifts, HttpValueShift, ids, main, calls>>

\* MsgIdManager::update() takes the lock and initialize() calls now().
LockMutant(t) ==
  /\ at(t, "lock") /\ _lock = "none" /\ _lock' = t
  /\ goto(t, "initialize") /\ loaded' = [loaded EXCEPT ![t] = arg[t]]
  /\ UNCHANGED <<shifts, http, _startShift, main, arg>>

Lock(t) ==
  /\ at(t, "lock") /\ _lock = "none" /\ _lock' = t
  /\ goto(t, "initialize") /\ loaded' = [loaded EXCEPT ![t] = ValueShift]
  /\ UNCHANGED <<shifts, http, _startShift, main, arg>>

InitializeMutant(t) ==
  /\ at(t, "initialize") /\ _startShift' = loaded[t] /\ goto(t, "post")
  /\ UNCHANGED <<shifts, http, _lock, main, calls>>

Initialize(t) ==
  /\ at(t, "initialize") /\ _startShift' = loaded[t] /\ _lock' = "none"
  /\ goto(t, "post")
  /\ UNCHANGED <<shifts, http, main, calls>>

Post(t) ==
  /\ at(t, "post") /\ posted' = posted + 1 /\ goto(t, "idle")
  /\ UNCHANGED <<shifts, http, ids, told, calls>>

\* The main thread fires UpdatesStream(), and subscribers call now().
Fire ==
  /\ posted > 0 /\ posted' = posted - 1 /\ told' = ValueShift
  /\ UNCHANGED <<shifts, http, ids, pc, calls>>

-----------------------------------------------------------------------------
\* http_update() and http_invalidate()
http_update(t, now) ==
  /\ at(t, "idle") /\ goto(t, "http_store")
  /\ arg' = [arg EXCEPT ![t] = now]
  /\ loaded' = [loaded EXCEPT ![t] = ValueShift]
  /\ UNCHANGED <<shifts, http, ids, main>>

HttpStore(t) ==
  /\ at(t, "http_store") /\ HttpValueShift' = arg[t] - loaded[t]
  /\ goto(t, "http_done")
  /\ UNCHANGED <<shifts, HttpValueValid, ids, main, calls>>

HttpDone(t) ==
  /\ at(t, "http_done") /\ HttpValueValid' = TRUE /\ goto(t, "idle")
  /\ UNCHANGED <<shifts, HttpValueShift, ids, main, calls>>

http_invalidate ==
  /\ HttpValueValid' = FALSE
  /\ UNCHANGED <<shifts, HttpValueShift, ids, main, pc, calls>>

http_now == ValueShift + HttpValueShift

-----------------------------------------------------------------------------
Init == /\ ValueUpdated = FALSE /\ ValueShift = 0
        /\ HttpValueValid = FALSE /\ HttpValueShift = 0
        /\ pc = [t \in Threads |-> "idle"] /\ arg = [t \in Threads |-> 0]
        /\ loaded = [t \in Threads |-> 0]
        /\ _lock = "none" /\ _startShift = 0 /\ posted = 0 /\ told = 0

Next == \/ \E t \in Threads :
             \/ \E now \in Times : update(t, now, FALSE)
             \/ \E now \in ForcedTimes : update(t, now, TRUE)
             \/ \E now \in HttpTimes : http_update(t, now)
             \/ Ignore(t) \/ Compare(t) \/ Exchange(t) \/ HttpShift(t) \/ HttpValid(t)
             \/ Lock(t) \/ Initialize(t) \/ Post(t) \/ HttpStore(t) \/ HttpDone(t)
        \/ Fire \/ http_invalidate

Spec == Init /\ [][Next]_vars

-----------------------------------------------------------------------------
\* The type invariant: the lock is held exactly by the thread that initializes.
TypeOK ==
  /\ ValueUpdated \in BOOLEAN /\ HttpValueValid \in BOOLEAN
  /\ ValueShift \in Times \cup ForcedTimes \cup {0}
  /\ _startShift \in Times \cup ForcedTimes \cup {0}
  /\ HttpValueShift \in Int /\ posted \in Nat
  /\ told \in Times \cup ForcedTimes \cup {0}
  /\ _lock \in Threads \cup {"none"}
  /\ \A t \in Threads : at(t, "initialize") <=> _lock = t

Updating(t) == pc[t] \in {"http_shift", "http_valid", "lock", "initialize"}
Busy(t) == ~at(t, "idle")

\* When no update() is between its exchange and its end, message ids are made
\* from the shift in force: the last to initialize saw the last exchange.
IdsFollowShift == (\A t \in Threads : ~Updating(t)) => _startShift = ValueShift

\* Subscribers know the shift in force once all that was posted was fired.
SubscribersTold ==
  posted = 0 /\ (\A t \in Threads : ~Busy(t)) => told = ValueShift

\* With no call in progress, a valid http time is an answer's, whatever updates
\* of the other clock came before it.
HttpNowIsHttp ==
  HttpValueValid /\ (\A t \in Threads : ~Busy(t)) => http_now \in HttpTimes
=============================================================================
