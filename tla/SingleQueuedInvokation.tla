----------------------- MODULE SingleQueuedInvokation -----------------------
(***************************************************************************)
(* SingleQueuedInvokation (invoke_queued.h): call(), on any thread, makes  *)
(* the callback run on the object's thread, and calls made before it runs  *)
(* share that run.  What callers have to tell it is data they write before *)
(* call() and the callback reads (external, read and written one at a      *)
(* time: the model is sequentially consistent).                            *)
(***************************************************************************)
EXTENDS Integers, FiniteSets

CONSTANTS Threads     \* that call call()

VARIABLES
  _pending,   \* 0 or 1
  unseen,     \* threads with data no callback has read
  calling,    \* threads in call(), and how far: "idle", "enter", "won"
  queued,     \* lambdas queued to the object's thread
  running     \* the lambda passed its testAndSetRelease, _callback is next

vars == <<_pending, unseen, calling, queued, running>>

\* New data, and call().
Write(t) ==
  /\ calling[t] = "idle"
  /\ unseen' = unseen \cup {t} /\ calling' = [calling EXCEPT ![t] = "enter"]
  /\ UNCHANGED <<_pending, queued, running>>

TestAndSet(t) ==
  /\ calling[t] = "enter" /\ _pending' = 1
  /\ calling' = [calling EXCEPT ![t] = IF _pending = 0 THEN "won" ELSE "idle"]
  /\ UNCHANGED <<unseen, queued, running>>

Invoke(t) ==
  /\ calling[t] = "won" /\ calling' = [calling EXCEPT ![t] = "idle"]
  /\ queued' = queued + 1
  /\ UNCHANGED <<_pending, unseen, running>>

\* The lambda, and the callback that it runs if _pending was 1.
StartMutant ==
  /\ ~running /\ queued > 0 /\ queued' = queued - 1
  /\ running' = (_pending = 1)
  /\ UNCHANGED <<_pending, unseen, calling>>

Start ==
  /\ ~running /\ queued > 0 /\ queued' = queued - 1
  /\ running' = (_pending = 1) /\ _pending' = 0
  /\ UNCHANGED <<unseen, calling>>

Callback ==
  /\ running /\ running' = FALSE /\ unseen' = {}
  /\ UNCHANGED <<_pending, calling, queued>>

Init == /\ _pending = 0 /\ unseen = {} /\ queued = 0 /\ running = FALSE
        /\ calling = [t \in Threads |-> "idle"]

Thread(t) == TestAndSet(t) \/ Invoke(t)
Next == Start \/ Callback \/ \E t \in Threads : Write(t) \/ Thread(t)

\* Threads finish their calls and the object's thread runs its queue.
Fairness == /\ WF_vars(Start) /\ WF_vars(Callback)
            /\ \A t \in Threads : WF_vars(Thread(t))

Spec == Init /\ [][Next]_vars /\ Fairness

-----------------------------------------------------------------------------
Winners == {t \in Threads : calling[t] = "won"}

\* The type invariant: while _pending is 1 exactly one lambda is queued or
\* about to be, and none while it is 0.
TypeOK ==
  /\ _pending \in {0, 1} /\ running \in BOOLEAN
  /\ unseen \subseteq Threads
  /\ calling \in [Threads -> {"idle", "enter", "won"}]
  /\ queued \in 0 .. 1 /\ queued + Cardinality(Winners) = _pending

\* Every call is answered by a run of the callback that reads its data.
CallsAnswered == \A t \in Threads : t \in unseen ~> t \notin unseen
=============================================================================
