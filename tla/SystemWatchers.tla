----------------------------- MODULE SystemWatchers -----------------------------
(***************************************************************************)
(* What the library follows of the system's state: whether a screen reader *)
(* is on (by signals of D-Bus or by Qt on Linux, by looking for its        *)
(* process on Windows), a setting of the desktop portal, and whether power *)
(* is saved.  Both watchers of D-Bus are made by a call that answers later *)
(* and hear nothing before; on Windows the processes are read on another   *)
(* thread; and macOS notifies of some changes on threads of its own.       *)
(***************************************************************************)
EXTENDS Naturals, Sequences, SequencesExt

CONSTANTS
  MaxSignals,      \* bound on the signals of a kind not read
  MaxGenerations   \* and on how often accessibility is switched off on Windows

VARIABLES
  watched,         \* which of the three this is about
  mode,            \* how screen readers are found: "x11", "qt", "always" or "win"
  serviceWatcher,  \* "none", "making", "ready" or "failed"
  service,         \* the service of accessibility: [owned, enabled]
  ownerSignals,    \* NameOwnerChanged signals not read
  status,          \* what the proxy of it has: "none", TRUE or FALSE
  statusSignals,   \* values it was told and did not read
  _isActive,
  missed,          \* an owner changed before the watcher was ready, or the
                   \* proxy could not be made
  _qaccessibleActive, reader,          \* on Windows; a reader's process runs
  _checking, _timer, _checkGeneration,
  checks,          \* on their way through the other thread: [generation, found]
  settingWatcher, setting, settingSignals, known, settingMissed,
  platform, observed,   \* changes are notified: a monitor, a handle, an observer
  battery, powerSignals, threadSignals,
  reading,         \* what a thread of the system read and did not assign
  raced,           \* and was overtaken in
  _value

screenVars  == <<mode, serviceWatcher, service, ownerSignals, status, statusSignals,
                 _isActive, missed>>
checkVars   == <<_qaccessibleActive, reader, _checking, _timer, _checkGeneration, checks>>
settingVars == <<settingWatcher, setting, settingSignals, known, settingMissed>>
powerVars   == <<platform, observed, battery, powerSignals, threadSignals, reading, raced, _value>>
vars        == <<watched, screenVars, checkVars, settingVars, powerVars>>

NoStatus == [on |-> FALSE, none |-> TRUE]
Status(on) == [on |-> on, none |-> FALSE]

-----------------------------------------------------------------------------
\* refreshStatusProxy(): the name is asked for its owner and a proxy is made,
\* which reads the property and hears what changes from now on.
RefreshMutant ==
  /\ status' \in IF service.owned THEN {Status(service.enabled), NoStatus} ELSE {status}
  /\ statusSignals' = <<>>
  /\ missed' = (service.owned /\ status' = NoStatus)
Refresh ==
  /\ status' \in IF service.owned THEN {Status(service.enabled), NoStatus} ELSE {NoStatus}
  /\ statusSignals' = <<>>
  /\ missed' = (service.owned /\ status' = NoStatus)

InitScreen ==
  /\ mode \in {"x11", "qt", "always", "win"}
  /\ service \in [owned : BOOLEAN, enabled : BOOLEAN]
  /\ serviceWatcher = "none" /\ ownerSignals = 0 /\ statusSignals = <<>>
  /\ status = NoStatus /\ missed = FALSE
  /\ _isActive = (mode = "always" \/ (mode = "qt" /\ service.enabled))

\* The rest of the constructor: with a connection the watcher is begun, and the
\* state is read.
Construct ==
  /\ mode = "x11" /\ serviceWatcher = "none"
  /\ serviceWatcher' = "making"
  /\ Refresh /\ _isActive' = status'.on
  /\ UNCHANGED <<mode, service, ownerSignals, checkVars, settingVars, powerVars>>

\* The callback of DBusProxy::new_(), which may fail.
ServiceWatcherMade ==
  /\ serviceWatcher = "making" /\ serviceWatcher' \in {"ready", "failed"}
  /\ UNCHANGED <<mode, service, ownerSignals, status, statusSignals, _isActive,
                 missed, checkVars, settingVars, powerVars>>

\* The service appears, goes or is replaced by another (external).  A proxy that
\* is there hears it too.
OwnerChanges ==
  /\ mode \in {"x11", "always"} /\ ownerSignals < MaxSignals /\ Len(statusSignals) < MaxSignals
  /\ service' \in [owned : BOOLEAN, enabled : BOOLEAN]
  /\ service.owned \/ service'.owned
  /\ IF serviceWatcher = "ready"
     THEN ownerSignals' = ownerSignals + 1 /\ UNCHANGED missed
     ELSE /\ missed' = (missed \/ (serviceWatcher # "none" /\ status.none))
          /\ UNCHANGED ownerSignals
  /\ statusSignals' = IF status.none THEN statusSignals
                      ELSE Append(statusSignals, service'.owned /\ service'.enabled)
  /\ UNCHANGED <<mode, serviceWatcher, status, _isActive, checkVars, settingVars, powerVars>>

\* The screen reader goes on or off (external).
EnabledChanges ==
  /\ mode \in {"x11", "always"} /\ service.owned /\ Len(statusSignals) < MaxSignals
  /\ service' = [service EXCEPT !.enabled = ~@]
  /\ statusSignals' = IF status.none THEN statusSignals
                      ELSE Append(statusSignals, service'.enabled)
  /\ UNCHANGED <<mode, serviceWatcher, ownerSignals, status, _isActive, missed,
                 checkVars, settingVars, powerVars>>

\* The callback of the watcher: refreshStatusProxy(), then updateActive().
OwnerChanged ==
  /\ ownerSignals > 0 /\ ownerSignals' = ownerSignals - 1
  /\ Refresh /\ _isActive' = status'.on
  /\ UNCHANGED <<mode, serviceWatcher, service, checkVars, settingVars, powerVars>>

\* The proxy reads a signal and notifies: updateActive().
StatusChanged ==
  /\ statusSignals # <<>> /\ statusSignals' = Tail(statusSignals)
  /\ status' = Status(Head(statusSignals)) /\ _isActive' = status'.on
  /\ UNCHANGED <<mode, serviceWatcher, service, ownerSignals, missed, checkVars,
                 settingVars, powerVars>>

\* Without X11 Qt tells, at once.
AccessibilityActiveChanged ==
  /\ mode = "qt" /\ service' = [service EXCEPT !.enabled = ~@]
  /\ _isActive' = service'.enabled
  /\ UNCHANGED <<mode, serviceWatcher, ownerSignals, status, statusSignals, missed,
                 checkVars, settingVars, powerVars>>

-----------------------------------------------------------------------------
\* Windows: while accessibility is active the processes are read every 5 seconds.
NotYet == "pending"

\* startCheck(), given the generation.
StartCheck(generation) ==
  /\ _checking' = TRUE
  /\ checks' = IF _checking THEN checks
               ELSE checks \union {[generation |-> generation, found |-> NotYet]}

\* The constructor of WinScreenReaderState.
InitCheck ==
  /\ _qaccessibleActive \in (IF mode = "win" THEN BOOLEAN ELSE {FALSE})
  /\ reader = FALSE /\ _timer = FALSE /\ _checkGeneration = 0
  /\ _checking = _qaccessibleActive
  /\ checks = IF _checking THEN {[generation |-> 0, found |-> NotYet]} ELSE {}

Activated ==
  /\ mode = "win" /\ _qaccessibleActive' = TRUE
  /\ StartCheck(_checkGeneration)
  /\ UNCHANGED <<screenVars, reader, _timer, _checkGeneration, settingVars, powerVars>>
Deactivated ==
  /\ mode = "win" /\ _checkGeneration < MaxGenerations
  /\ _qaccessibleActive' = FALSE /\ _timer' = FALSE
  /\ _checkGeneration' = _checkGeneration + 1
  /\ _checking' = FALSE /\ _isActive' = FALSE
  /\ UNCHANGED <<mode, serviceWatcher, service, ownerSignals, status, statusSignals, missed,
                 reader, checks, settingVars, powerVars>>
CheckTimerFires ==
  /\ _timer /\ _timer' = FALSE
  /\ StartCheck(_checkGeneration)
  /\ UNCHANGED <<screenVars, _qaccessibleActive, reader, _checkGeneration, settingVars, powerVars>>

\* A reader is started or ends (external).
ReaderChanges ==
  /\ mode = "win" /\ reader' = ~reader
  /\ UNCHANGED <<screenVars, _qaccessibleActive, _checking, _timer, _checkGeneration, checks,
                 settingVars, powerVars>>

\* FindRunningReader() on another thread, and its answer on the main one: the answer
\* of an earlier generation changes nothing.
FindRunningReader(c) ==
  /\ c.found = NotYet
  /\ checks' = (checks \ {c}) \union {[c EXCEPT !.found = IF reader THEN "found" ELSE "no"]}
  /\ UNCHANGED <<screenVars, _qaccessibleActive, reader, _checking, _timer, _checkGeneration,
                 settingVars, powerVars>>
Answer(c) ==
  /\ c.found # NotYet /\ checks' = checks \ {c}
  /\ IF c.generation # _checkGeneration THEN UNCHANGED <<_timer, _checking, _isActive>>
     ELSE /\ _timer' = (_timer \/ _qaccessibleActive)
          /\ _checking' = FALSE /\ _isActive' = (c.found = "found")
  /\ UNCHANGED <<mode, serviceWatcher, service, ownerSignals, status, statusSignals, missed,
                 _qaccessibleActive, reader, _checkGeneration, settingVars, powerVars>>

-----------------------------------------------------------------------------
\* A setting: its user makes the watcher and reads it with ReadSetting().
InitSetting == /\ settingWatcher = "none" /\ setting \in BOOLEAN /\ settingSignals = <<>>
               /\ known \in BOOLEAN /\ settingMissed = FALSE

SettingWatcher ==
  /\ settingWatcher = "none" /\ settingWatcher' = "making"
  /\ known' = setting
  /\ UNCHANGED <<screenVars, checkVars, setting, settingSignals, settingMissed, powerVars>>
SettingWatcherMade ==
  /\ settingWatcher = "making" /\ settingWatcher' \in {"ready", "failed"}
  /\ UNCHANGED <<screenVars, checkVars, setting, settingSignals, known, settingMissed, powerVars>>
SettingChanges ==
  /\ Len(settingSignals) < MaxSignals /\ setting' = ~setting
  /\ IF settingWatcher = "ready"
     THEN settingSignals' = Append(settingSignals, setting') /\ UNCHANGED settingMissed
     ELSE /\ settingMissed' = (settingMissed \/ settingWatcher # "none")
          /\ UNCHANGED settingSignals
  /\ UNCHANGED <<screenVars, checkVars, settingWatcher, known, powerVars>>
SettingChanged ==
  /\ settingSignals # <<>> /\ settingSignals' = Tail(settingSignals)
  /\ known' = Head(settingSignals)
  /\ UNCHANGED <<screenVars, checkVars, settingWatcher, setting, settingMissed, powerVars>>

-----------------------------------------------------------------------------
\* BatterySaving: what enabled() of each platform makes of the system's state.
Unknown == "unknown"
Enabled ==
  IF ~observed \/ (platform = "win" /\ ~battery.present) THEN Unknown
  ELSE IF battery.saver
          \/ /\ platform = "mac" /\ battery.present /\ battery.draining
             /\ battery.critical \/ battery.low
       THEN "on" ELSE "off"

\* The constructors: only Windows observes without a battery, and a library or a
\* registration may be missing on Linux and Windows.
Fields == [linux |-> {"saver"}, win |-> {"saver", "present"},
           mac |-> {"saver", "present", "draining", "critical", "low"}]
InitPower ==
  /\ platform \in {"linux", "win", "mac"} /\ observed \in BOOLEAN
  /\ battery = [saver |-> FALSE, present |-> TRUE, draining |-> FALSE, critical |-> FALSE, low |-> FALSE]
  /\ powerSignals = 0 /\ threadSignals = 0 /\ reading = Unknown /\ raced = FALSE
  /\ _value = Enabled

\* The state changes and is notified of: on macOS that of the low power mode and of
\* the heat come on a thread of the system, the others by the run loop (external).
BatteryChanges ==
  /\ \E f \in Fields[platform] :
       /\ battery' = [battery EXCEPT ![f] = ~@]
       /\ IF platform = "mac" /\ f \in {"saver", "critical"}
          THEN threadSignals' = threadSignals + 1 /\ UNCHANGED powerSignals
          ELSE powerSignals' = powerSignals + 1 /\ UNCHANGED threadSignals
  /\ powerSignals' <= MaxSignals /\ threadSignals' <= MaxSignals
  /\ UNCHANGED <<screenVars, checkVars, settingVars, platform, observed, reading, raced, _value>>

\* The callback, on the main thread, reads what it is by then and assigns it.
BatteryNotified ==
  /\ powerSignals > 0 /\ powerSignals' = powerSignals - 1
  /\ IF observed THEN _value' = Enabled ELSE UNCHANGED _value
  /\ raced' = (reading # Unknown)
  /\ UNCHANGED <<screenVars, checkVars, settingVars, platform, observed, battery, threadSignals, reading>>

\* On a thread of the system it reads and assigns, and the main thread may assign
\* between.
ThreadReads ==
  /\ threadSignals > 0 /\ reading = Unknown
  /\ threadSignals' = threadSignals - 1
  /\ IF observed THEN reading' = Enabled ELSE UNCHANGED reading
  /\ UNCHANGED <<screenVars, checkVars, settingVars, platform, observed, battery, powerSignals, raced, _value>>
ThreadAssigns ==
  /\ reading # Unknown
  /\ _value' = reading /\ reading' = Unknown
  /\ UNCHANGED <<screenVars, checkVars, settingVars, platform, observed, battery, powerSignals,
                 threadSignals, raced>>

-----------------------------------------------------------------------------
Init ==
  /\ watched \in {"screen", "setting", "power"}
  /\ InitScreen /\ InitCheck /\ InitSetting /\ InitPower
  /\ watched # "screen" \/ mode = "win" => ~service.owned /\ ~service.enabled
  /\ watched # "screen" => mode = "always"
  /\ watched # "setting" => ~setting /\ ~known
  /\ watched # "power" => platform = "linux" /\ ~observed
Next ==
  /\ UNCHANGED watched
  /\ \/ /\ watched = "screen"
        /\ \/ Construct \/ ServiceWatcherMade \/ OwnerChanges \/ EnabledChanges
           \/ OwnerChanged \/ StatusChanged \/ AccessibilityActiveChanged
           \/ Activated \/ Deactivated \/ CheckTimerFires \/ ReaderChanges
           \/ \E c \in checks : FindRunningReader(c) \/ Answer(c)
     \/ /\ watched = "setting"
        /\ SettingWatcher \/ SettingWatcherMade \/ SettingChanges \/ SettingChanged
     \/ /\ watched = "power"
        /\ BatteryChanges \/ BatteryNotified \/ ThreadReads \/ ThreadAssigns

Spec == Init /\ [][Next]_vars

-----------------------------------------------------------------------------
TypeOK ==
  /\ mode \in {"x11", "qt", "always", "win"}
  /\ {serviceWatcher, settingWatcher} \subseteq {"none", "making", "ready", "failed"}
  /\ service \in [owned : BOOLEAN, enabled : BOOLEAN]
  /\ status \in [on : BOOLEAN, none : BOOLEAN]
  /\ statusSignals \in Seq(BOOLEAN) /\ settingSignals \in Seq(BOOLEAN)
  /\ {ownerSignals, powerSignals, threadSignals} \subseteq 0..MaxSignals
  /\ {_isActive, missed, setting, known, settingMissed, observed, raced,
      _qaccessibleActive, reader, _checking, _timer} \subseteq BOOLEAN
  /\ _checkGeneration \in 0..MaxGenerations
  /\ checks \subseteq [generation : 0..MaxGenerations, found : {NotYet, "found", "no"}]
  /\ {_value, reading} \subseteq {Unknown, "on", "off"}

\* Once all signals are read the state is that of the service, unless its owner
\* appeared before the watcher was ready and after the constructor asked for it,
\* or the proxy could not be made.
ScreenReaderKnown ==
  CASE mode = "x11" ->
         serviceWatcher # "none" /\ ~missed /\ ownerSignals = 0 /\ statusSignals = <<>>
         /\ (serviceWatcher = "failed" => ~status.none)
           => _isActive = (service.owned /\ service.enabled)
    [] mode = "qt" -> _isActive = service.enabled
    [] mode = "always" -> _isActive
    [] OTHER -> TRUE

\* On Windows, however checks, timers and switches overtake each other: no reader is
\* known while accessibility is not active; while it is, a check is on its way or
\* the timer of the next one is; and never two checks whose answer counts.
CheckingGoesOn ==
  LET current == {c \in checks : c.generation = _checkGeneration} IN
  /\ _isActive /\ mode = "win" => _qaccessibleActive
  /\ _qaccessibleActive => _checking \/ _timer
  /\ _checking <=> current # {}
  /\ \A c, d \in current : c = d

\* Likewise what the user of a SettingWatcher knows, unless the setting changed
\* before the watcher was ready and after it was read.
SettingKnown ==
  settingWatcher = "ready" /\ ~settingMissed /\ settingSignals = <<>> => known = setting

\* And the value of BatterySaving, unless the thread of a notification of macOS was
\* overtaken by the main thread.
PowerSaverKnown ==
  powerSignals = 0 /\ threadSignals = 0 /\ reading = Unknown /\ ~raced => _value = Enabled
=============================================================================
