---------------------------- MODULE MCPowerSave ----------------------------
(***************************************************************************)
(* Model checking of PowerSavePortal, with blockers that share a           *)
(* description, a window, both or none; and of what else follows the       *)
(* desktop's state on the main thread: XSettings, SystemWatchers,          *)
(* MediaControls of Linux and PlayerControls of macOS and Windows. They    *)
(* share no state, so that each behaviour is one of them, the subject, the *)
(* others standing still.                                                  *)
(***************************************************************************)
EXTENDS PowerSavePortal, TLC
CONSTANTS b1, b2, b3, b4, w1, w2, d1, d2,
          SettingNames, Subscribers, MaxSerial, MaxNotifies,   \* see XSettings
          MaxSignals, MaxGenerations,                          \* see SystemWatchers
          Loops, UnknownLoop, Volumes, Names, Times, Factor, Half,  \* see MediaControls
          Commands, Durations, Rates, Thumbnails, NoThumbnail,      \* see PlayerControls
          MaxPosted, MaxPresses, MaxStores, MaxInits
MCDesc == b1 :> d1 @@ b2 :> d1 @@ b3 :> d1 @@ b4 :> d2
MCWin  == b1 :> w1 @@ b2 :> w2 @@ b3 :> None @@ b4 :> w1

ASSUME DesktopAssumption ==
  MaxSerial \in Nat /\ MaxNotifies \in Nat /\ MaxSignals \in Nat /\ MaxGenerations \in Nat

\* A player begins without a loop, silent and at the normal rate; a time is an int.
ASSUME PlayerAssumption ==
  /\ "None" \in Loops /\ 0 \in Volumes /\ 1 \in Rates
  /\ Half \in Nat \ {0} /\ Times \subseteq 0 .. Half - 1 /\ Factor \in Nat
  /\ "skips" \notin Commands
  /\ MaxPosted \in Nat /\ MaxPresses \in Nat /\ MaxStores \in Nat /\ MaxInits \in Nat

VARIABLES
  subject,
  published, lastSerial, restarted, notifies, xsettings, keepers, settings, registered,
  stale, calledDead,
  watched, mode, serviceWatcher, service, ownerSignals, status, statusSignals, _isActive,
  missed, _qaccessibleActive, reader, _checking, _timer, _checkGeneration, checks,
  settingWatcher, setting, settingSignals, known, settingMissed, platform, observed,
  battery, powerSignals, threadSignals, reading, raced, _value,
  owned, wraps, app, mpris, metadata, duration, wanted,
  player, playerAlive, on, center, last, asked, lost, info, playing, rate, untold, posted,
  shown, ready, handlers, token, half, inits, presses, commands, fired, stores, stored,
  thumbnail, displayed, wantedThumbnail, late, left, ruined

xsettingsVars == <<published, lastSerial, restarted, notifies, xsettings, keepers,
                   settings, registered, stale, calledDead>>
watcherVars   == <<watched, mode, serviceWatcher, service, ownerSignals, status,
                   statusSignals, _isActive, missed, _qaccessibleActive, reader, _checking,
                   _timer, _checkGeneration, checks, settingWatcher, setting,
                   settingSignals, known, settingMissed, platform, observed, battery,
                   powerSignals, threadSignals, reading, raced, _value>>
mediaVars     == <<owned, wraps, app, mpris, metadata, duration, wanted>>
playerVars    == <<player, playerAlive, on, center, last, asked, lost, info, playing, rate,
                   untold, posted, shown, ready, handlers, token, half, inits, presses,
                   commands, fired, stores, stored, thumbnail, displayed, wantedThumbnail,
                   late, left, ruined>>

Settings == INSTANCE XSettings
Watchers == INSTANCE SystemWatchers
Media    == INSTANCE MediaControls
Player   == INSTANCE PlayerControls WITH
              platform <- player, alive <- playerAlive, wanted <- wantedThumbnail

MCInit ==
  /\ subject \in {"power", "xsettings", "watchers", "media", "player"}
  /\ subject # "watchers" => watched = "setting" /\ setting = FALSE /\ known = FALSE
  /\ subject # "media" => wraps = FALSE
  /\ subject # "player" => player = "mac"
  /\ PowerSaveInit /\ Settings!Init /\ Watchers!Init /\ Media!Init /\ Player!Init

MCNext ==
  /\ UNCHANGED subject
  /\ \/ subject = "power" /\ PowerSaveNext
     \/ subject = "xsettings" /\ Settings!Next
     \/ subject = "watchers" /\ Watchers!Next
     \/ subject = "media" /\ Media!Next
     \/ subject = "player" /\ Player!Next
  /\ subject # "power" => UNCHANGED PowerSaveVars
  /\ subject # "xsettings" => UNCHANGED xsettingsVars
  /\ subject # "watchers" => UNCHANGED watcherVars
  /\ subject # "media" => UNCHANGED mediaVars
  /\ subject # "player" => UNCHANGED playerVars

MCVars == <<subject, PowerSaveVars, xsettingsVars, watcherVars, mediaVars, playerVars>>

MCSpec == /\ MCInit /\ [][MCNext]_MCVars
          /\ PowerSaveFairness

-----------------------------------------------------------------------------
\* What the application was told is what the system has, unless a change came
\* before it could be heard: settings and their callbacks, screen readers,
\* dark mode and the battery saver.
DesktopIsKnown ==
  /\ Settings!TypeOK /\ Settings!SettingsFollow /\ Settings!CallbacksKnow
  /\ Settings!NoDeadCallback
  /\ Watchers!TypeOK /\ Watchers!ScreenReaderKnown /\ Watchers!CheckingGoesOn
  /\ Watchers!SettingKnown /\ Watchers!PowerSaverKnown

\* What others see of the player is what the application plays, and what they
\* ask for is what it is told, once; nothing uses the controls when they are gone.
PlayerIsShown ==
  /\ [](/\ Media!TypeOK /\ Media!PropertiesAgree /\ Media!MetadataIsApps
        /\ Media!SeekIsPart
        /\ Player!TypeOK /\ Player!CommandsFollow /\ Player!DisplayFollows
        /\ Player!PressIsOneCommand /\ Player!DestroyedInPeace /\ Player!ThumbnailIsLast)
  /\ Media!JumpIsHeard
=============================================================================
