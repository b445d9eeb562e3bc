---------------------------- MODULE MediaControls ----------------------------
(***************************************************************************)
(* SystemMediaControls on Linux: a player that other programs see and set  *)
(* over D-Bus (MPRIS).  A property that changes, whoever set it, is told   *)
(* to the application, which does what is asked and sets the property to   *)
(* what it has then, all within one call.  The units of time are           *)
(* multiplied in ints, which are those from -Half to Half - 1 here.        *)
(***************************************************************************)
EXTENDS Integers

CONSTANTS Loops,        \* the loop statuses that have a command
          UnknownLoop,  \* any other string
          Volumes, Names,
          Times,        \* durations and positions of the application
          Factor,       \* microseconds of one of them, 1000 in the code
          Half          \* an int is below it, 2^31 in the code

VARIABLES
  owned,     \* ownId: the name is owned and the object is exported
  wraps,     \* what the build does when an int overflows, or it is wider
  app,       \* what the application plays
  mpris,     \* the properties that others see
  metadata,  \* one of them, whose members may be absent
  duration,  \* of PlayerData
  wanted     \* what the application set of the metadata since they were cleared

vars == <<owned, wraps, app, mpris, metadata, duration, wanted>>

NoName == "no name"
NoTime == -1
Members == {"title", "artUrl"}   \* the artist is like the title
Cleared == [title |-> NoName, artUrl |-> NoName, length |-> NoTime]

\* duration * 1000 and position * 1000, whose overflow is undefined.
Wrapped(x) == ((x + Half) % (2 * Half)) - Half
Micro(x) == IF wraps THEN Wrapped(Factor * x) ELSE Factor * x
Overflows(x) == Factor * x >= Half

Init ==
  /\ owned = FALSE /\ wraps \in BOOLEAN
  /\ app = [loop |-> "None", shuffle |-> FALSE, volume |-> 0, position |-> 0]
  /\ mpris = [loop |-> "None", shuffle |-> FALSE, volume |-> 0, position |-> 0, heard |-> 0]
  /\ metadata = Cleared /\ duration = 0 /\ wanted = Cleared

-----------------------------------------------------------------------------
\* The application.

\* init() and deinit(): without a connection nothing is owned.
SetEnabled ==
  /\ owned' \in BOOLEAN
  /\ UNCHANGED <<wraps, app, mpris, metadata, duration, wanted>>

\* What the application does when a property is told to it, and what it has
\* then: the loop status and the volume are set, Command::Shuffle toggles.
LoopTold(a, loop) == IF loop \in Loops THEN [a EXCEPT !.loop = loop] ELSE a
VolumeTold(a, volume) == [a EXCEPT !.volume = volume]
ShuffleTold(a) == [a EXCEPT !.shuffle = ~@]

\* The setters notify, and so are told to the application again: nothing is set
\* that is set already, and setShuffle() is not told at all.
SetLoopStatus(loop) ==
  /\ app' = LoopTold([app EXCEPT !.loop = loop], loop)
  /\ mpris' = [mpris EXCEPT !.loop = loop]
SetVolume(volume) ==
  /\ app' = VolumeTold([app EXCEPT !.volume = volume], volume)
  /\ mpris' = [mpris EXCEPT !.volume = volume]
SetShuffle(shuffle) ==
  /\ app' = [app EXCEPT !.shuffle = shuffle]
  /\ mpris' = [mpris EXCEPT !.shuffle = shuffle]

Change ==
  /\ \/ \E loop \in Loops : SetLoopStatus(loop)
     \/ \E volume \in Volumes : SetVolume(volume)
     \/ \E shuffle \in BOOLEAN : SetShuffle(shuffle)
  /\ UNCHANGED <<owned, wraps, metadata, duration, wanted>>

\* setTitle(), setThumbnail() and clearThumbnail(): one member of the metadata
\* as they are.
SetNames ==
  /\ \E m \in Members, n \in Names \union {NoName} :
       /\ n = NoName => m = "artUrl"
       /\ metadata' = [metadata EXCEPT ![m] = n]
       /\ wanted' = [wanted EXCEPT ![m] = n]
  /\ UNCHANGED <<owned, wraps, app, mpris, duration>>

SetDuration(d) ==
  /\ duration' = Micro(d)
  /\ metadata' = [metadata EXCEPT !.length = Micro(d)]
  /\ wanted' = [wanted EXCEPT !.length = d]
  /\ UNCHANGED <<owned, wraps, app, mpris>>

\* clearMetadata() keeps the duration that seeks are divided by.
ClearMetadata ==
  /\ metadata' = Cleared /\ wanted' = Cleared
  /\ UNCHANGED <<owned, wraps, app, mpris, duration>>

\* Playback, or a seek, that setPosition() did not tell yet.
Move(p) ==
  /\ app' = [app EXCEPT !.position = p]
  /\ UNCHANGED <<owned, wraps, mpris, metadata, duration, wanted>>

\* The position is set to p: a jump from where it was is told to the others, who
\* heard the member heard last.
Jumps(was, is) == was - is > Factor \/ is - was > Factor
Set(m, was, p) ==
  [m EXCEPT !.position = p, !.heard = IF Jumps(was, p) THEN p ELSE @]

\* To read the position makes the application set it, in a call within, which
\* does not ask again (_updating), and so tells of the jump itself.
Read(m) == Set(m, m.position, Micro(app.position))

\* setPosition() reads it before and after it sets it.
SetPosition ==
  /\ LET was == Read(mpris)
         is  == Read([was EXCEPT !.position = Micro(app.position)])
     IN mpris' = Set(is, was.position, is.position)
  /\ UNCHANGED <<owned, wraps, app, metadata, duration, wanted>>

-----------------------------------------------------------------------------
\* Others, over D-Bus.

\* They set a property: the notification tells the application, which sets what
\* it has then and is not told again, for it is the same, or for inSetShuffle.
OtherSets ==
  /\ owned
  /\ \/ \E loop \in Loops \union {UnknownLoop} :
          /\ loop # mpris.loop
          /\ app' = LoopTold(app, loop)
          /\ mpris' = [mpris EXCEPT !.loop = loop]
     \/ \E volume \in Volumes \ {mpris.volume} :
          /\ app' = VolumeTold(app, volume)
          /\ mpris' = [mpris EXCEPT !.volume = volume]
     \/ /\ app' = ShuffleTold(app)
        /\ mpris' = [mpris EXCEPT !.shuffle = app'.shuffle]
  /\ UNCHANGED <<owned, wraps, metadata, duration, wanted>>

\* They read the position, or seek from where it is, which reads it.
OtherGets ==
  /\ owned
  /\ mpris' = Read(mpris)
  /\ UNCHANGED <<owned, wraps, app, metadata, duration, wanted>>

\* What the application is asked for when they set the position: a part of the
\* duration.
SeekRequest(p) == [position |-> p, duration |-> duration]

Next ==
  \/ SetEnabled \/ Change \/ SetNames \/ ClearMetadata \/ SetPosition
  \/ OtherSets \/ OtherGets
  \/ \E t \in Times : SetDuration(t) \/ Move(t)

Spec == Init /\ [][Next]_vars

-----------------------------------------------------------------------------
TypeOK ==
  /\ owned \in BOOLEAN /\ wraps \in BOOLEAN /\ duration \in Int
  /\ app \in [loop : Loops, shuffle : BOOLEAN, volume : Volumes, position : Times \union {0}]
  /\ mpris \in [loop : Loops \union {UnknownLoop}, shuffle : BOOLEAN, volume : Volumes,
                position : Int, heard : Int]
  /\ metadata \in [title : Names \union {NoName}, artUrl : Names \union {NoName}, length : Int]
  /\ wanted \in [title : Names \union {NoName}, artUrl : Names \union {NoName},
                 length : Times \union {NoTime}]

\* Others see what the application plays, and the application plays what they
\* set, except a loop status it has no command for: no setting echoes.
PropertiesAgree ==
  /\ mpris.loop # UnknownLoop => mpris.loop = app.loop
  /\ mpris.shuffle = app.shuffle /\ mpris.volume = app.volume

\* The metadata are what the application set since it cleared them, unless the
\* length in microseconds overflows an int (from 36 minutes).
MetadataIsApps ==
  /\ \A m \in Members : metadata[m] = wanted[m]
  /\ IF wanted.length = NoTime THEN metadata.length = NoTime
     ELSE metadata.length = Factor * wanted.length \/ Overflows(wanted.length)

\* A position within the length that others see is asked for as a part, from 0
\* to 1, of the duration, but for a length of 0, which it is divided by.
SeekIsPart ==
  \A p \in 0..metadata.length :
    SeekRequest(p).position <= SeekRequest(p).duration

\* A jump of the position is told to the others, by the call within if the outer
\* one sees no difference any more.
JumpIsHeard ==
  [][Jumps(mpris.position, mpris.position') => mpris'.heard = mpris'.position]_vars
=============================================================================
