----------------------------- MODULE ConfirmQuit -----------------------------
(***************************************************************************)
(* ConfirmQuitPanelController on macOS: the application quits when Cmd+Q   *)
(* is held long enough, or is pressed twice in a short time, and not       *)
(* before the keys are let go.  The panel's life is not modelled.          *)
(***************************************************************************)
EXTENDS Naturals, Integers

CONSTANTS ShowDuration,  \* kShowDuration, in units of time
          Fuzz           \* kTimeDeltaFuzzFactor, less than it

VARIABLES
  modal,        \* "no", "hold" or "doubleTap": the loop that pumps events
  keysDown,     \* Cmd+Q is
  keyUp,        \* a KeyUp event is queued
  sinceAttempt, \* time since lastQuitAttempt, up to Fuzz; Never without one
  left,         \* until targetDate
  pumpLeft,     \* until waitDate
  willQuit,
  windows,      \* of the application: "shown", "hidden" or "panel" with it
  quit,         \* the answer: "none", "yes" or "no"
  held,         \* time since the attempt began, up to ShowDuration
  doubleTap     \* the attempt came soon after another

vars == <<modal, keysDown, keyUp, sinceAttempt, left, pumpLeft, willQuit, windows, quit,
          held, doubleTap>>

Never == -1
Init == /\ modal = "no" /\ keysDown = FALSE /\ keyUp = FALSE /\ sinceAttempt = Never
        /\ left = 0 /\ pumpLeft = 0 /\ willQuit = FALSE /\ windows = "shown"
        /\ quit = "none" /\ held = 0 /\ doubleTap = FALSE

\* Cmd+Q, again for as long as it repeats: runModalLoopForApplication.
Recent == sinceAttempt # Never /\ sinceAttempt < Fuzz
PressQ ==
  /\ modal = "no" /\ quit # "yes"
  /\ keysDown' = TRUE /\ keyUp' = FALSE /\ quit' = "none" /\ held' = 0
  /\ doubleTap' = Recent
  /\ IF Recent
     THEN /\ modal' = "doubleTap" /\ windows' = "hidden"
          /\ UNCHANGED <<sinceAttempt, left, pumpLeft, willQuit>>
     ELSE /\ modal' = "hold" /\ windows' = "panel" /\ sinceAttempt' = 0
          /\ left' = ShowDuration /\ pumpLeft' = ShowDuration - Fuzz
          /\ willQuit' = FALSE

\* KeyUp of any key is what the loops wait for.
Release ==
  /\ keysDown /\ keysDown' = FALSE /\ keyUp' = TRUE
  /\ UNCHANGED <<modal, sinceAttempt, left, pumpLeft, willQuit, windows, quit, held, doubleTap>>

\* The double tap quits when the keys are let go.
DoubleTapped ==
  /\ modal = "doubleTap" /\ keyUp
  /\ modal' = "no" /\ keyUp' = FALSE /\ quit' = "yes"
  /\ UNCHANGED <<keysDown, sinceAttempt, left, pumpLeft, willQuit, windows, held, doubleTap>>

\* A round of the loop: the pump returned an event or waited enough, and the quit
\* is confirmed once less than Fuzz is left, also by the round of the event.
Confirmed == willQuit \/ left < Fuzz
Round ==
  /\ modal = "hold" /\ (keyUp \/ pumpLeft = 0)
  /\ willQuit' = Confirmed
  /\ pumpLeft' = ShowDuration - Fuzz
  /\ IF keyUp
     THEN /\ keyUp' = FALSE /\ modal' = "no"
          /\ quit' = IF Confirmed THEN "yes" ELSE "no"
          /\ windows' = IF Confirmed THEN "hidden" ELSE "shown"
     ELSE /\ windows' = IF Confirmed THEN "hidden" ELSE windows
          /\ UNCHANGED <<keyUp, modal, quit>>
  /\ UNCHANGED <<keysDown, sinceAttempt, left, held, doubleTap>>

\* Time; the loop is woken when the event or the wait's end comes.
Less(n) == IF n > 0 THEN n - 1 ELSE 0
Tick ==
  /\ ~(modal = "hold" /\ (keyUp \/ pumpLeft = 0)) /\ ~(modal = "doubleTap" /\ keyUp)
  /\ sinceAttempt' = IF sinceAttempt \in 0..(Fuzz - 1) THEN sinceAttempt + 1 ELSE sinceAttempt
  /\ left' = Less(left) /\ pumpLeft' = Less(pumpLeft)
  /\ held' = IF modal # "no" /\ held < ShowDuration THEN held + 1 ELSE held
  /\ UNCHANGED <<modal, keysDown, keyUp, willQuit, windows, quit, doubleTap>>

Next == PressQ \/ Release \/ DoubleTapped \/ Round \/ Tick
Fairness == WF_vars(DoubleTapped \/ Round)
Spec == Init /\ [][Next]_vars /\ Fairness

-----------------------------------------------------------------------------
TypeOK ==
  /\ modal \in {"no", "hold", "doubleTap"} /\ quit \in {"none", "yes", "no"}
  /\ windows \in {"shown", "hidden", "panel"}
  /\ keysDown \in BOOLEAN /\ keyUp \in BOOLEAN /\ willQuit \in BOOLEAN
  /\ doubleTap \in BOOLEAN /\ sinceAttempt \in Never..Fuzz
  /\ left \in 0..ShowDuration /\ held \in 0..ShowDuration
  /\ pumpLeft \in 0..(ShowDuration - Fuzz)

\* The application quits if the keys were held for longer than one wait, or were
\* pressed again in time, and not otherwise.
QuitIsConfirmed ==
  /\ quit = "yes" => doubleTap \/ held > ShowDuration - Fuzz
  /\ quit = "no"  => ~doubleTap /\ held <= ShowDuration - Fuzz
  /\ windows = "hidden" /\ modal = "no" => quit = "yes"

\* An attempt whose keys were let go is answered.
AttemptEnds == modal # "no" /\ keyUp ~> modal = "no"
=============================================================================
