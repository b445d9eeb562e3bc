-------------------------- MODULE GlobalShortcuts --------------------------
(***************************************************************************)
(* base::GlobalShortcutManagerGeneric (global_shortcuts_generic.cpp): the  *)
(* platform's hook queues key events for the manager, process() matches    *)
(* them against the watchlist or records a new shortcut, and then runs the *)
(* callbacks, which may call the manager again.                            *)
(*                                                                         *)
(* A shortcut stands for its GlobalShortcutValueGeneric, KeysOf gives its  *)
(* descriptors in the order they were recorded.                            *)
(***************************************************************************)
EXTENDS Integers, Sequences, FiniteSets, SequencesExt

CONSTANTS
  Keys,            \* descriptors of keys and mouse buttons
  Shortcuts, KeysOf,
  ShortcutLimit,   \* kShortcutLimit
  MaxEvents        \* bound: key events of the user

ASSUME ConstantsAssumption ==
  /\ \A s \in Shortcuts : KeysOf[s] \in Seq(Keys) /\ KeysOf[s] # <<>>
  /\ ShortcutLimit \in Nat \ {0} /\ MaxEvents \in Nat

VARIABLES
  held,            \* the keys the user holds down
  queue,           \* process() invocations queued by schedule()
  down,            \* _down
  watchlist,       \* _watchlist, the shortcuts of it
  pressed,         \* _pressed
  recording,       \* _recording
  recordingDown, recordingUp,
  calls,           \* the rest of process()'s scheduled callbacks
  events,          \* key events so far
  told,            \* history: shortcuts whose callback last got true
  seen,            \* history: keys down by the events processed so far
  chord,           \* history: seen right after the last press recorded
  careful          \* history: all stopped and recorded as Careful... says

managerVars == <<down, watchlist, pressed, recording, recordingDown, recordingUp>>
vars == <<held, queue, managerVars, calls, events, told, seen, chord, careful>>

-----------------------------------------------------------------------------
(* The hook: ScheduleForAll() and schedule() *)

\* A press, or its repetition while the key is held.
KeyDown(k) ==
  /\ events < MaxEvents /\ events' = events + 1
  /\ held' = held \cup {k}
  /\ queue' = Append(queue, [key |-> k, down |-> TRUE])
  /\ UNCHANGED <<managerVars, calls, told, seen, chord, careful>>

KeyUp(k) ==
  /\ k \in held /\ held' = held \ {k}
  /\ queue' = Append(queue, [key |-> k, down |-> FALSE])
  /\ UNCHANGED <<managerVars, calls, events, told, seen, chord, careful>>

-----------------------------------------------------------------------------
(* process() *)

\* The two sorted walks of Matches() find every descriptor in _down.
MatchesMutant(s, d) == ToSet(KeysOf[s]) \cap d # {}
Matches(s, d) == Len(KeysOf[s]) <= Cardinality(d) /\ ToSet(KeysOf[s]) \subseteq d

\* ranges::contains(_pressed, shortcut).
IsPressedMutant(s) == FALSE
IsPressed(s) == s \in ToSet(pressed)

\* The elements of q that are in S, in their order.
Only(q, S) ==
  LET chosen == {i \in DOMAIN q : q[i] \in S}
  IN  [n \in 1 .. Cardinality(chosen) |->
         q[CHOOSE i \in chosen : Cardinality({j \in chosen : j <= i}) = n]]

NewlyPressed(d) == Only(watchlist, {s \in Shortcuts : ~IsPressed(s) /\ Matches(s, d)})

ReleasedByMutant(k) == Only(pressed, {s \in Shortcuts : KeysOf[s][1] = k})
ReleasedBy(k) == Only(pressed, {s \in Shortcuts : k \in ToSet(KeysOf[s])})

Calls(shortcuts, v) == [i \in DOMAIN shortcuts |-> [shortcut |-> shortcuts[i], down |-> v]]

\* process() takes the next event, once the callbacks of the last have run.
Take(k, v) ==
  /\ calls = <<>> /\ queue # <<>> /\ Head(queue) = [key |-> k, down |-> v]
  /\ queue' = Tail(queue)
  /\ seen' = IF v THEN seen \cup {k} ELSE seen \ {k}
  /\ UNCHANGED <<held, watchlist, events, told>>

ProcessPress(k) ==
  /\ Take(k, TRUE) /\ ~recording
  /\ down' = down \cup {k}
  /\ pressed' = pressed \o NewlyPressed(down')
  /\ calls' = Calls(NewlyPressed(down'), TRUE)
  /\ UNCHANGED <<recording, recordingDown, recordingUp, chord, careful>>

ProcessRelease(k) ==
  /\ Take(k, FALSE) /\ ~recording
  /\ down' = down \ {k}
  /\ pressed' = Only(pressed, Shortcuts \ ToSet(ReleasedBy(k)))
  /\ calls' = Calls(ReleasedBy(k), FALSE)
  /\ UNCHANGED <<recording, recordingDown, recordingUp, chord, careful>>

\* The scheduled callbacks run in order, after process() is done with _pressed.
RunCallback ==
  /\ calls # <<>> /\ calls' = Tail(calls)
  /\ told' = IF Head(calls).down THEN told \cup {Head(calls).shortcut}
                                 ELSE told \ {Head(calls).shortcut}
  /\ UNCHANGED <<held, queue, managerVars, events, seen, chord, careful>>

-----------------------------------------------------------------------------
(* processRecording() *)

\* finishRecording() and stopRecording() reset the same members.
ResetRecording == recording' = FALSE /\ recordingDown' = <<>> /\ recordingUp' = {}

\* A press first drops the keys that have come up since the last one.
StillDown(k) == Only(recordingDown, Keys \ (recordingUp \ {k}))

RecordPress(k) ==
  /\ Take(k, TRUE) /\ recording
  /\ chord' = seen'
  /\ LET keys == IF k \in ToSet(StillDown(k)) THEN StillDown(k)
                                              ELSE Append(StillDown(k), k)
     IN  \/ /\ keys # recordingDown /\ Len(keys) = ShortcutLimit
            /\ ResetRecording
         \/ /\ keys = recordingDown \/ Len(keys) # ShortcutLimit
            /\ recordingDown' = keys /\ recordingUp' = {}
            /\ UNCHANGED recording
  /\ UNCHANGED <<down, pressed, calls, careful>>

RecordRelease(k) ==
  /\ Take(k, FALSE) /\ recording
  /\ down' = down \ {k}
  /\ LET up == recordingUp \cup {k}
     IN  \/ /\ k \in ToSet(recordingDown) /\ Cardinality(up) = Len(recordingDown)
            /\ ResetRecording
         \/ /\ k \in ToSet(recordingDown) /\ Cardinality(up) # Len(recordingDown)
            /\ recordingUp' = up
            /\ UNCHANGED <<recording, recordingDown>>
         \/ /\ k \notin ToSet(recordingDown)
            /\ UNCHANGED <<recording, recordingDown, recordingUp>>
  /\ UNCHANGED <<pressed, calls, chord, careful>>

ManagerStep ==
  \/ RunCallback
  \/ \E k \in Keys : \/ ProcessPress(k) \/ ProcessRelease(k)
                     \/ RecordPress(k) \/ RecordRelease(k)

-----------------------------------------------------------------------------
(* The application's calls, also made from a callback *)

CarefulRecord == pressed = <<>> /\ calls = <<>>

StartRecording ==
  /\ careful' = (careful /\ CarefulRecord)
  /\ recording' = TRUE /\ recordingDown' = <<>> /\ recordingUp' = {}
  /\ UNCHANGED <<held, queue, down, watchlist, pressed, calls, events, told,
                 seen, chord>>

StopRecording ==
  /\ recording /\ ResetRecording
  /\ UNCHANGED <<held, queue, down, watchlist, pressed, calls, events, told,
                 seen, chord, careful>>

\* For a shortcut that is watched only the callback is replaced.
StartWatching(s) ==
  /\ s \notin ToSet(watchlist) /\ watchlist' = Append(watchlist, s)
  /\ UNCHANGED <<held, queue, down, pressed, recording, recordingDown,
                 recordingUp, calls, events, told, seen, chord, careful>>

\* _pressed.erase(find(...), end(_pressed)): the shortcut and all after it.
BeforeInMutant(s, q) == q
BeforeIn(s, q) ==
  IF s \in ToSet(q) THEN SubSeq(q, 1, (CHOOSE i \in DOMAIN q : q[i] = s) - 1) ELSE q

CarefulStop(s) ==
  calls = <<>> /\ (IsPressed(s) => s = Last(pressed))

StopWatching(s) ==
  /\ s \in ToSet(watchlist)
  /\ careful' = (careful /\ CarefulStop(s))
  /\ watchlist' = Only(watchlist, Shortcuts \ {s})
  /\ pressed' = BeforeIn(s, pressed)
  /\ told' = told \ {s}
  /\ UNCHANGED <<held, queue, down, recording, recordingDown, recordingUp,
                 calls, events, seen, chord>>

-----------------------------------------------------------------------------
Init ==
  /\ held = {} /\ queue = <<>> /\ down = {} /\ watchlist = <<>> /\ pressed = <<>>
  /\ recording = FALSE /\ recordingDown = <<>> /\ recordingUp = {} /\ calls = <<>>
  /\ events = 0 /\ told = {} /\ seen = {} /\ chord = {} /\ careful = TRUE

Application ==
  \/ StartRecording \/ StopRecording
  \/ \E s \in Shortcuts : StartWatching(s) \/ StopWatching(s)

Next == \/ \E k \in Keys : KeyDown(k) \/ KeyUp(k)
        \/ ManagerStep \/ Application

Spec == Init /\ [][Next]_vars

\* The manager's event loop runs.
FairSpec == Spec /\ WF_vars(ManagerStep)

-----------------------------------------------------------------------------
Distinct(q) == Cardinality(ToSet(q)) = Len(q)

\* The type invariant: no shortcut is watched twice or pressed twice.
TypeOK ==
  /\ held \subseteq Keys /\ down \subseteq Keys /\ seen \subseteq Keys /\ chord \subseteq Keys
  /\ queue \in Seq([key : Keys, down : BOOLEAN]) /\ events \in 0..MaxEvents
  /\ watchlist \in Seq(Shortcuts) /\ pressed \in Seq(Shortcuts) /\ told \subseteq Shortcuts
  /\ Distinct(watchlist) /\ Distinct(pressed)
  /\ recording \in BOOLEAN /\ recordingDown \in Seq(Keys) /\ recordingUp \subseteq Keys
  /\ calls \in Seq([shortcut : Shortcuts, down : BOOLEAN]) /\ careful \in BOOLEAN

\* Assert(j != end(_watchlist)) in process(): a release finds the watch of
\* every pressed shortcut, whatever was stopped and recorded before.
PressedAreWatched == ToSet(pressed) \subseteq ToSet(watchlist)

\* Assert(_recordingUp.size() <= _recordingDown.size()), and what finishing
\* relies on: no key twice, never kShortcutLimit keys nor all of them up.  What
\* is recorded is a chord: its keys were all down together right after the last
\* press, however presses and releases were mixed.
RecordingSound ==
  /\ recordingUp \subseteq ToSet(recordingDown) /\ Distinct(recordingDown)
  /\ recordingDown # <<>> => recording /\ recordingUp # ToSet(recordingDown)
  /\ Len(recordingDown) < ShortcutLimit
  /\ ToSet(recordingDown) \subseteq chord

\* What process() asserts: every pressed shortcut is watched, and what is
\* recorded is a chord, in whatever order the application and the keys come.
AssertsHold == PressedAreWatched /\ RecordingSound

\* Between two events the pressed shortcuts are those whose callback was told
\* so, and all their keys are down: no press or release is told twice or not
\* at all (with the callers' care that stopWatching() and recording need).
PressedAreHeld ==
  careful /\ calls = <<>> => /\ ToSet(pressed) = told
                             /\ \A s \in told : ToSet(KeysOf[s]) \subseteq down

\* A shortcut that was told true is told false once a key of it is up (with
\* the same care).
ReleaseIsTold ==
  \A s \in Shortcuts :
    (s \in told /\ ~(ToSet(KeysOf[s]) \subseteq held)) ~> (s \notin told \/ ~careful)
=============================================================================
