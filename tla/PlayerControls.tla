---------------------------- MODULE PlayerControls ----------------------------
(***************************************************************************)
(* SystemMediaControls on macOS and on Windows.  What macOS shows is the   *)
(* application's dictionary as it is when a call posted to the main thread *)
(* runs, and its commands are enabled in a center that the controls share  *)
(* with the system.  On Windows a button is pressed, and a thumbnail       *)
(* stored, on other threads.                                               *)
(***************************************************************************)
EXTENDS Integers, Sequences, FiniteSets

CONSTANTS Commands,   \* those that setIs...Enabled() set
          Durations, Rates, Thumbnails, NoThumbnail,
          MaxPosted, MaxPresses, MaxStores, MaxInits

VARIABLES
  platform, alive,
  \* macOS
  on,         \* _private->enabled
  center,     \* of each command, and of the skips: whether it is enabled
  last,       \* its lastEnabled
  asked,      \* of each command, what the application set last
  lost,       \* those it set while the controls were off
  info,       \* the dictionary
  playing,    \* the playback state is Playing
  rate,       \* playbackRate
  untold,     \* the dictionary changed and updateDisplay() was not called
  posted,     \* calls on their way to the main thread: whether with the dictionary
  shown,
  \* Windows
  ready,      \* initialized
  handlers,   \* the ButtonPressed registrations, numbered
  token,      \* eventToken, 0 for none
  inits,      \* init() calls, and whether one failed with its handler registered
  half,
  presses, commands, fired,  \* presses, those posted to the main thread, those fired
  stores,     \* thumbnails being stored, numbered
  stored,     \* the number of the last one, or of what cleared them after
  thumbnail,  \* of the display updater, and what Update() made the system show
  displayed,
  wanted,     \* the thumbnail the application set last
  late,       \* a store ended after a newer one, or after a clear, or failed
  left,       \* what was on its way when the controls were destroyed
  ruined      \* what is destroyed, or null, was used

macVars == <<on, center, last, asked, lost, info, playing, rate, untold, posted, shown>>
winVars == <<ready, handlers, token, inits, half, presses, commands, fired,
             stores, stored, thumbnail, displayed, wanted, late, left, ruined>>
vars == <<platform, alive, macVars, winVars>>

Skips == "skips"
AllCommands == Commands \union {Skips}
Nothing == [duration |-> 0, rate |-> -1, art |-> NoThumbnail]   \* nil

\* initCommands() and clearCommands().
CommandsInit == center' = [c \in AllCommands |-> c = Skips \/ last[c]]
CommandsCleared ==
  /\ last' = center
  /\ center' = [c \in AllCommands |-> FALSE]

Init ==
  /\ platform \in {"mac", "win"} /\ alive = TRUE
  /\ on = FALSE /\ center = [c \in AllCommands |-> c = Skips]
  /\ last = [c \in AllCommands |-> FALSE] /\ asked = [c \in Commands |-> FALSE] /\ lost = {}
  /\ info = [Nothing EXCEPT !.rate = 1] /\ playing = FALSE /\ rate = 1
  /\ untold = FALSE /\ posted = <<>> /\ shown = Nothing
  /\ ready = FALSE /\ handlers = {} /\ token = 0 /\ inits = 0 /\ half = FALSE
  /\ presses = 0 /\ commands = 0 /\ fired = 0
  /\ stores = {} /\ stored = 0 /\ thumbnail = NoThumbnail /\ displayed = NoThumbnail
  /\ wanted = NoThumbnail
  /\ late = FALSE /\ left = FALSE /\ ruined = FALSE

-----------------------------------------------------------------------------
\* macOS, where all of this runs on the main thread.

UpdateDisplay ==
  /\ Len(posted) < MaxPosted
  /\ posted' = Append(posted, on' /\ info'.duration # 0)
  /\ untold' = FALSE

Shows ==
  /\ posted # <<>>
  /\ shown' = IF Head(posted) THEN info ELSE Nothing
  /\ posted' = Tail(posted)
  /\ UNCHANGED <<platform, alive, on, center, last, asked, lost, info, playing, rate, untold, winVars>>

\* setEnabled(), which the destructor calls too.
Enable(v) ==
  /\ on' = v
  /\ IF v THEN CommandsInit /\ UNCHANGED last ELSE CommandsCleared
  /\ UNCHANGED <<asked, lost, info, playing, rate, shown, winVars>>
  /\ UpdateDisplay
SetEnabled ==
  /\ Enable(~on)
  /\ UNCHANGED <<platform, alive>>

\* setIs...Enabled() asks nothing about the controls, and initCommands() will
\* write over what is set while they are off.
SetCommandMutant(c, v) ==
  /\ center' = [center EXCEPT ![c] = v /\ last[c]]
  /\ asked' = [asked EXCEPT ![c] = v]
  /\ lost' = IF on THEN lost \ {c} ELSE lost \union {c}
  /\ UNCHANGED <<platform, alive, on, last, info, playing, rate, untold, posted, shown, winVars>>
SetCommand(c, v) ==
  /\ center' = [center EXCEPT ![c] = v]
  /\ asked' = [asked EXCEPT ![c] = v]
  /\ lost' = IF on THEN lost \ {c} ELSE lost \union {c}
  /\ UNCHANGED <<platform, alive, on, last, info, playing, rate, untold, posted, shown, winVars>>

\* The rate of the dictionary is that of the playback, 0 while it stands.
SetPlaybackStatus(v) ==
  /\ playing' = v
  /\ info' = [info EXCEPT !.rate = IF v THEN rate ELSE 0]
  /\ UNCHANGED <<platform, alive, on, center, last, asked, lost, rate, shown, winVars>>
  /\ UpdateDisplay
SetPlaybackRate(r) ==
  /\ rate' = r
  /\ UNCHANGED <<platform, alive, on, center, last, asked, lost, playing, shown, winVars>>
  /\ IF playing THEN info' = [info EXCEPT !.rate = r] /\ UpdateDisplay
     ELSE UNCHANGED <<info, posted, untold>>

\* setThumbnail() and clearThumbnail() tell the system.
SetArt(t) ==
  /\ info' = [info EXCEPT !.art = t]
  /\ UNCHANGED <<platform, alive, on, center, last, asked, lost, playing, rate, shown, winVars>>
  /\ UpdateDisplay

\* setTitle(), setArtist(), setDuration(), setPosition() and clearMetadata() wait
\* for updateDisplay().  The artwork is not cleared.
ChangeInfo ==
  /\ \/ \E d \in Durations : info' = [info EXCEPT !.duration = d]
     \/ info' = [info EXCEPT !.duration = 0, !.rate = 1]
  /\ untold' = TRUE
  /\ UNCHANGED <<platform, alive, on, center, last, asked, lost, playing, rate, posted, shown, winVars>>

\* updateDisplay() of the application; init() has cleared the metadata.
Tell ==
  /\ UNCHANGED <<platform, alive, on, center, last, asked, lost, info, playing, rate, shown, winVars>>
  /\ UpdateDisplay

\* ~SystemMediaControls() releases the handler, which clears its commands once
\* more; the dictionary lives as long as a posted call does.
MacDestroy ==
  /\ alive' = FALSE /\ platform' = platform
  /\ IF on THEN Enable(FALSE)
     ELSE /\ CommandsCleared
          /\ UNCHANGED <<on, asked, lost, info, playing, rate, untold, posted, shown, winVars>>

MacNext ==
  /\ platform = "mac"
  /\ \/ Shows
     \/ /\ alive
        /\ \/ SetEnabled \/ ChangeInfo \/ Tell \/ MacDestroy
           \/ \E v \in BOOLEAN : SetPlaybackStatus(v) \/ \E c \in Commands : SetCommand(c, v)
           \/ \E r \in Rates : SetPlaybackRate(r)
           \/ \E t \in Thumbnails \union {NoThumbnail} : SetArt(t)

-----------------------------------------------------------------------------
\* Windows.

\* init() may fail before it registers the handler of the buttons, after it has
\* (of the things that may throw only the first is not undone), or not at all.
\* After a failure it may be called again.
WinInit ==
  /\ ~ready /\ inits < MaxInits /\ inits' = inits + 1
  /\ \E end \in {"not registered", "registered", "done"} :
       /\ IF end = "not registered" THEN UNCHANGED <<handlers, token>>
          ELSE token' = inits + 1 /\ handlers' = handlers \union {inits + 1}
       /\ ready' = (end = "done")
       /\ half' = (half \/ end = "registered")
  /\ UNCHANGED <<platform, alive, macVars, presses, commands, fired, stores, stored,
                 thumbnail, displayed, wanted, late, left, ruined>>

\* Each handler posts a command from a thread of the system.
Press ==
  /\ handlers # {} /\ presses < MaxPresses
  /\ presses' = presses + 1
  /\ commands' = commands + Cardinality(handlers)
  /\ UNCHANGED <<platform, alive, macVars, ready, handlers, token, inits, half, fired, stores,
                 stored, thumbnail, displayed, wanted, late, left, ruined>>
Fire ==
  /\ commands > 0 /\ commands' = commands - 1
  /\ IF alive THEN fired' = fired + 1 /\ UNCHANGED ruined
     ELSE ruined' = TRUE /\ UNCHANGED fired
  /\ UNCHANGED <<platform, alive, macVars, ready, handlers, token, inits, half, presses, stores,
                 stored, thumbnail, displayed, wanted, late, left>>

\* setThumbnail() starts a store that ends on some thread, in any order.
SetThumbnail(t) ==
  /\ ready /\ stored < MaxStores
  /\ stored' = stored + 1
  /\ stores' = stores \union {[n |-> stored + 1, what |-> t]} /\ wanted' = t
  /\ UNCHANGED <<platform, alive, macVars, ready, handlers, token, inits, half, presses, commands,
                 fired, thumbnail, displayed, late, left, ruined>>
Stored(s, completed) ==
  /\ stores' = stores \ {s}
  /\ late' = (late \/ ~completed \/ s.n # stored)
  /\ IF completed THEN thumbnail' = s.what /\ displayed' = s.what
     ELSE UNCHANGED <<thumbnail, displayed>>
  /\ ruined' = (ruined \/ (completed /\ ~alive))
  /\ UNCHANGED <<platform, alive, macVars, ready, handlers, token, inits, half, presses, commands,
                 fired, stored, wanted, left>>

\* clearThumbnail() updates what is displayed, and clearMetadata() leaves that to
\* updateDisplay(), here the next step of the application.  A store goes on.
ClearThumbnail ==
  /\ ready /\ stored < MaxStores
  /\ stored' = stored + 1
  /\ thumbnail' = NoThumbnail /\ displayed' = NoThumbnail /\ wanted' = NoThumbnail
  /\ UNCHANGED <<platform, alive, macVars, ready, handlers, token, inits, half, presses, commands,
                 fired, stores, late, left, ruined>>

\* ~SystemMediaControls(): with the handler registered and no display updater
\* yet, clearMetadata() calls into null.
WinDestroy ==
  /\ alive' = FALSE
  /\ handlers' = handlers \ {token} /\ token' = 0
  /\ ruined' = (token # 0 /\ ~ready)
  /\ left' = (commands > 0 \/ stores # {})
  /\ UNCHANGED <<platform, macVars, ready, inits, half, presses, commands, fired, stores, stored, thumbnail,
                 displayed, wanted, late>>

WinNext ==
  /\ platform = "win" /\ ~ruined
  /\ \/ Press \/ Fire
     \/ \E s \in stores, completed \in BOOLEAN : Stored(s, completed)
     \/ /\ alive
        /\ \/ WinInit \/ ClearThumbnail \/ WinDestroy
           \/ \E t \in Thumbnails : SetThumbnail(t)

Next == MacNext \/ WinNext
Spec == Init /\ [][Next]_vars

-----------------------------------------------------------------------------
Infos == [duration : Durations \union {0}, rate : Rates \union {-1, 0, 1},
          art : Thumbnails \union {NoThumbnail}]
TypeOK ==
  /\ platform \in {"mac", "win"}
  /\ {alive, on, playing, untold, ready, half, late, left, ruined} \subseteq BOOLEAN
  /\ center \in [AllCommands -> BOOLEAN] /\ last \in [AllCommands -> BOOLEAN]
  /\ asked \in [Commands -> BOOLEAN] /\ lost \subseteq Commands
  /\ {info, shown} \subseteq Infos /\ rate \in Rates /\ posted \in Seq(BOOLEAN)
  /\ handlers \subseteq 1..MaxInits /\ token \in 0..MaxInits /\ inits \in 0..MaxInits
  /\ {presses, commands, fired} \subseteq Nat /\ stored \in 0..MaxStores
  /\ stores \subseteq [n : 1..MaxStores, what : Thumbnails]
  /\ {thumbnail, displayed, wanted} \subseteq Thumbnails \union {NoThumbnail}

\* However often the controls are switched off and on, a command is enabled just
\* while they are on and the application wants it so, unless it said so while they
\* were off: that is lost when they are switched on, and holds until then.
CommandsFollow ==
  alive => \A c \in Commands \ lost : center[c] = (on /\ asked[c])

\* When the posted calls have run, macOS shows nothing if the controls are off or
\* the duration is 0, and the dictionary otherwise: with what was set after the
\* call was posted, but without what was set after it ran.
DisplayFollows ==
  posted = <<>> =>
    /\ ~on => shown = Nothing
    /\ ~untold => shown = IF on /\ info.duration # 0 THEN info ELSE Nothing

\* A press is one command, but for an init() that failed after it registered its
\* handler and was called again, which keeps the first handler.
PressIsOneCommand == ~half => fired + commands <= presses

\* Nothing is used after the controls are destroyed, and no handler stays, but
\* for that failure, and for presses and stores on their way meanwhile.
DestroyedInPeace == ~alive /\ ~half => handlers = {} /\ (ruined => left)

\* When no thumbnail is being stored, what is displayed is the last one the
\* application set or its clearing, unless a store failed or was overtaken.
ThumbnailIsLast == ready /\ stores = {} /\ ~late => displayed = wanted
=============================================================================
