------------------------------ MODULE Options ------------------------------
(***************************************************************************)
(* base::options (options.cpp): experimental options that are read from a  *)
(* json file by init(), set or imported at run time, and written back by   *)
(* one delayed call at a time (call_delayed.cpp), or by the guard that is  *)
(* destroyed at exit.  The program may crash at any moment, also between   *)
(* the truncation of the file and the write, and files may fail to open.   *)
(* A file and an imported text are functions from keys to json values, an  *)
(* absent key being mapped to Absent.                                      *)
(***************************************************************************)
EXTENDS Integers, FiniteSets, TLAPS

CONSTANTS
  Names,         \* the options
  Unknown,       \* a key that is no option of this version
  Json,          \* json values; kindOf is their type, and int that of a whole number
  kindOf, kind,  \* kind[o] is the type of option o
  default, Zero, \* toInt() of a number that is not whole is Zero
  Absent, Broken \* no value; a file that is no json object

Keys == Names \cup {Unknown}
Objects == [Keys -> Json \cup {Absent}]
Typed(o) == {j \in Json : kindOf[j] = kind[o]}

ASSUME ConstantsAssumption ==
  /\ Unknown \notin Names /\ Absent \notin Json /\ Broken \notin Objects
  /\ default \in [Names -> Json] /\ Zero \in Json /\ kindOf[Zero] = "int"
  /\ \A o \in Names : default[o] \in Typed(o) /\ kind[o] # "double"

VARIABLES
  phase,           \* what the program does, see Phases
  value,           \* _value of each option
  LocalPath,       \* whether it is set
  WriteScheduled,
  delayed,         \* delayed calls of Write() that are to come
  file,
  failed           \* the file did not open when last read or written

vars == <<phase, value, LocalPath, WriteScheduled, delayed, file, failed>>

-----------------------------------------------------------------------------
Empty == [k \in Keys |-> Absent]
Serialize(v) ==
  [k \in Keys |-> IF k \in Names /\ v[k] # default[k] THEN v[k] ELSE Absent]

\* The value Read() gives an option, from a json value or from its own.
ReadValueMutant(o, j, current) == IF j = Absent THEN current ELSE j
ReadValue(o, j, current) ==
  IF j = Absent THEN current
  ELSE IF j \in Typed(o) THEN j
  ELSE IF kind[o] = "int" /\ kindOf[j] = "double" THEN Zero
  ELSE current

\* What Read() makes of the file f, all options having their defaults.
Load(f) ==
  IF f = Broken THEN default ELSE [o \in Names |-> ReadValue(o, f[o], default[o])]

\* set() on the options of S, in any order.
Schedule(S) ==
  IF S # {} /\ ~WriteScheduled /\ LocalPath
  THEN /\ WriteScheduled' = TRUE
       /\ delayed' = IF phase = "finished" THEN delayed ELSE delayed + 1
  ELSE UNCHANGED <<WriteScheduled, delayed>>

\* Options are set after init(), by the main thread, until the program ends.
Alive == phase \in {"running", "finished"}

set(o, v) ==
  /\ Alive /\ value' = [value EXCEPT ![o] = v]
  /\ Schedule({o})
  /\ UNCHANGED <<phase, LocalPath, file, failed>>

Changed == {o \in Names : value[o] # default[o]}

reset ==
  /\ Alive /\ value' = default /\ Schedule(Changed)
  /\ UNCHANGED <<phase, LocalPath, file, failed>>

\* deserialize(), which imports all of the text or nothing.
Imported(json) == {o \in Names : json[o] # Absent}

deserializeMutant(json) ==
  /\ Alive
  /\ \A o \in Imported(json) : json[o] \in Typed(o)
  /\ value' = [o \in Names |-> IF o \in Imported(json) THEN json[o] ELSE default[o]]
  /\ Schedule(Imported(json))
  /\ UNCHANGED <<phase, LocalPath, file, failed>>

deserialize(json) ==
  /\ Alive
  /\ \A o \in Imported(json) : json[o] \in Typed(o)
  /\ value' = [o \in Names |-> IF o \in Imported(json) THEN json[o] ELSE default[o]]
  /\ Schedule(Changed \cup Imported(json))
  /\ UNCHANGED <<phase, LocalPath, file, failed>>

-----------------------------------------------------------------------------
\* The options are constructed ...
Start ==
  /\ phase = "off" /\ phase' = "started"
  /\ value' = default /\ LocalPath' = FALSE /\ WriteScheduled' = FALSE
  /\ delayed' = 0 /\ failed' = FALSE
  /\ UNCHANGED file

\* ... and init() reads the file, if it is given a path and the file opens.
init(path, opens) ==
  /\ phase = "started" /\ phase' = "running" /\ LocalPath' = path
  /\ value' = IF path /\ opens THEN Load(file) ELSE value
  /\ failed' = (path /\ ~opens)
  /\ UNCHANGED <<WriteScheduled, delayed, file>>

\* Write(), then the program is in the phase next: an empty object removes
\* the file, another truncates it, to be filled in a phase of its own.
Write(opens, next, fill) ==
  \/ /\ ~(WriteScheduled /\ LocalPath) /\ phase' = next
     /\ UNCHANGED <<WriteScheduled, file, failed>>
  \/ /\ WriteScheduled /\ LocalPath /\ WriteScheduled' = FALSE
     /\ failed' = ~opens
     /\ \/ ~opens /\ phase' = next /\ UNCHANGED file
        \/ opens /\ Changed = {} /\ phase' = next /\ file' = Empty
        \/ opens /\ Changed # {} /\ phase' = fill /\ file' = Broken

Fill ==
  /\ phase \in {"writing", "leaving"} /\ file' = Serialize(value)
  /\ phase' = IF phase = "writing" THEN "running" ELSE "exited"
  /\ UNCHANGED <<value, LocalPath, WriteScheduled, delayed, failed>>

\* The delayed call.
Timeout(opens) ==
  /\ phase = "running" /\ delayed > 0 /\ delayed' = delayed - 1
  /\ Write(opens, "running", "writing")
  /\ UNCHANGED <<value, LocalPath>>

\* QCoreApplication::aboutToQuit, from when call_delayed() calls no more ...
Finish ==
  /\ phase = "running" /\ phase' = "finished"
  /\ UNCHANGED <<value, LocalPath, WriteScheduled, delayed, file, failed>>

\* ... and the exit, which destroys init()'s guard.
Exit(opens) ==
  /\ phase = "finished" /\ delayed' = 0
  /\ Write(opens, "exited", "leaving")
  /\ UNCHANGED <<value, LocalPath>>

\* Nothing but the file outlives the program.
Gone ==
  /\ phase' = "off" /\ value' = default
  /\ LocalPath' = FALSE /\ WriteScheduled' = FALSE /\ delayed' = 0 /\ failed' = FALSE

\* A crash, or the end of what exited.
Crash == phase # "off" /\ Gone /\ UNCHANGED file

\* Somebody edits the file, or another version of the program wrote it.
Edit(f) ==
  /\ phase = "off" /\ file' = f
  /\ UNCHANGED <<phase, value, LocalPath, WriteScheduled, delayed, failed>>

-----------------------------------------------------------------------------
Init == /\ phase = "off" /\ value = default /\ file = Empty
        /\ LocalPath = FALSE /\ WriteScheduled = FALSE /\ delayed = 0 /\ failed = FALSE

Disk == \E opens \in BOOLEAN : Timeout(opens) \/ Exit(opens)

Next == \/ \E o \in Names : \E v \in Typed(o) : set(o, v)
        \/ reset \/ \E json \in [Names -> Json \cup {Absent}] : deserialize(json)
        \/ Start \/ Disk \/ Fill \/ Finish \/ Crash
        \/ \E path, opens \in BOOLEAN : init(path, opens)
        \/ \E f \in Objects \cup {Broken} : Edit(f)

Spec == Init /\ [][Next]_vars

\* The main loop runs its timers, and a program that quits exits.
FairSpec == Spec /\ WF_vars(Disk) /\ WF_vars(Fill)

-----------------------------------------------------------------------------
Phases == {"off",       \* not running, or crashed
           "started",   \* before init()
           "running",
           "writing",   \* in Write(), with the file truncated
           "finished",  \* after aboutToQuit
           "leaving",   \* in Write() at exit, with the file truncated
           "exited"}

\* The type invariant: every option keeps a value of its own type, whatever was
\* imported or read, and at most one call of Write() is to come.
TypeOK ==
  /\ phase \in Phases
  /\ value \in [Names -> Json] /\ \A o \in Names : value[o] \in Typed(o)
  /\ LocalPath \in BOOLEAN /\ WriteScheduled \in BOOLEAN /\ delayed \in 0 .. 1
  /\ file \in Objects \cup {Broken} /\ failed \in BOOLEAN

\* Unless a write is scheduled or the disk refused, what is on disk would be
\* read back as what the options are: no set, reset or import is forgotten.
\* A scheduled write has its one delayed call until the program quits, and a
\* clean exit leaves none scheduled.
Saved ==
  /\ LocalPath /\ ~failed /\ ~WriteScheduled
       /\ phase \in {"running", "finished", "exited"} => Load(file) = value
  /\ phase \in {"running", "writing"} => (WriteScheduled <=> delayed = 1)
  /\ phase = "exited" => ~WriteScheduled

\* A write that was scheduled is made, or tried, unless the program crashes:
\* also one that was scheduled too late for call_delayed().
WritesCome == WriteScheduled ~> (~WriteScheduled \/ phase = "off")
-----------------------------------------------------------------------------
\* Saved with what it rests on: before init() nothing is scheduled, what is
\* scheduled has a path to go to, and a file is truncated only by a write that
\* will fill it.
SavedInv ==
  /\ TypeOK /\ Saved
  /\ phase \in {"off", "started"} => ~LocalPath
  /\ WriteScheduled => LocalPath
  /\ phase \in {"off", "started"} => delayed = 0
  /\ phase \in {"writing", "leaving"} => LocalPath /\ ~WriteScheduled /\ ~failed
  /\ phase = "leaving" => delayed = 0

\* Options of every type are read back as values of that type.
LEMMA ReadTyped ==
  ASSUME NEW o \in Names, NEW j, NEW v \in Typed(o), j \in Json \cup {Absent}
  PROVE  ReadValue(o, j, v) \in Typed(o)
BY ConstantsAssumption DEF ReadValue, Typed

\* So are all of them, from any object and from a file that does not parse.
LEMMA LoadTyped ==
  ASSUME NEW f \in Objects \cup {Broken}
  PROVE  Load(f) \in [Names -> Json] /\ \A o \in Names : Load(f)[o] \in Typed(o)
<1> DEFINE g == [o \in Names |-> ReadValue(o, f[o], default[o])]
<1>1. CASE f = Broken
  BY <1>1, ConstantsAssumption DEF Load
<1>2. CASE f # Broken
  <2>1. \A o \in Names : g[o] \in Typed(o)
    BY <1>2, ReadTyped, ConstantsAssumption DEF Objects, Keys
  <2>2. g \in [Names -> Json]
    BY <2>1 DEF Typed
  <2> QED BY <1>2, <2>1, <2>2 DEF Load
<1> QED BY <1>1, <1>2

\* What is written is an object, and is read back as what it was.
LEMMA RoundTrip ==
  ASSUME NEW v \in [Names -> Json], \A o \in Names : v[o] \in Typed(o)
  PROVE  Serialize(v) \in Objects /\ Load(Serialize(v)) = v
<1>1. Serialize(v) \in Objects
  BY DEF Serialize, Objects, Keys
<1>2. Serialize(v) # Broken
  BY <1>1, ConstantsAssumption
<1>3. ASSUME NEW o \in Names PROVE ReadValue(o, Serialize(v)[o], default[o]) = v[o]
  BY ConstantsAssumption DEF Serialize, Keys, ReadValue, Typed
<1> QED BY <1>1, <1>2, <1>3 DEF Load

\* An empty file's object leaves the defaults.
LEMMA EmptyIsDefault == Empty \in Objects /\ Load(Empty) = default
<1>1. Empty \in Objects
  BY DEF Empty, Objects
<1>2. Empty # Broken
  BY <1>1, ConstantsAssumption
<1>3. ASSUME NEW o \in Names PROVE ReadValue(o, Empty[o], default[o]) = default[o]
  BY DEF Empty, Keys, ReadValue
<1> QED BY <1>1, <1>2, <1>3, ConstantsAssumption DEF Load

\* Setting options of S, in whatever way, schedules their write.
LEMMA Scheduled ==
  ASSUME SavedInv, Alive, NEW S, Schedule(S), S = {} => value' = value,
         value' \in [Names -> Json], \A o \in Names : value'[o] \in Typed(o),
         UNCHANGED <<phase, LocalPath, file, failed>>
  PROVE  SavedInv'
<1>1. CASE S # {} /\ ~WriteScheduled /\ LocalPath
  BY <1>1 DEF SavedInv, TypeOK, Saved, Alive, Schedule, Phases
<1>2. CASE ~(S # {} /\ ~WriteScheduled /\ LocalPath)
  <2>1. UNCHANGED <<WriteScheduled, delayed>>
    BY <1>2 DEF Schedule
  <2>2. LocalPath /\ ~WriteScheduled => value' = value
    BY <1>2
  <2> QED BY <2>1, <2>2 DEF SavedInv, TypeOK, Saved
<1> QED BY <1>1, <1>2

\* Write() makes, tries or leaves a write, and truncates only what it will fill.
LEMMA Written ==
  ASSUME SavedInv, NEW opens \in BOOLEAN, UNCHANGED <<value, LocalPath>>,
         \/ /\ phase = "running" /\ delayed > 0 /\ delayed' = delayed - 1
            /\ Write(opens, "running", "writing")
         \/ /\ phase = "finished" /\ delayed' = 0
            /\ Write(opens, "exited", "leaving")
  PROVE  SavedInv'
<1>1. Changed = {} => value = default
  BY ConstantsAssumption DEF Changed, SavedInv, TypeOK
<1>2. Empty \in Objects /\ Load(Empty) = default
  BY EmptyIsDefault
<1>3. CASE ~(WriteScheduled /\ LocalPath)
  BY <1>3 DEF Write, SavedInv, TypeOK, Saved, Phases
<1>4. CASE WriteScheduled /\ LocalPath
  <2>1. /\ WriteScheduled' = FALSE /\ failed' \in BOOLEAN
        /\ \/ failed' /\ phase' \in {"running", "exited"} /\ file' = file
           \/ ~failed' /\ phase' \in {"running", "exited"}
              /\ file' \in Objects /\ Load(file') = value
           \/ ~failed' /\ phase' \in {"writing", "leaving"} /\ file' = Broken
    BY <1>1, <1>2, <1>4 DEF Write
  <2>2. delayed' = 0
    BY <1>4 DEF SavedInv, TypeOK, Saved
  <2>3. TypeOK'
    <3>1. phase' \in Phases
      BY <2>1 DEF Phases
    <3>2. file' \in Objects \cup {Broken}
      BY <2>1 DEF SavedInv, TypeOK
    <3>3. value' \in [Names -> Json] /\ \A o \in Names : value'[o] \in Typed(o)
      BY DEF SavedInv, TypeOK
    <3>4. WriteScheduled' \in BOOLEAN
      BY <2>1
    <3>5. delayed' \in 0 .. 1
      BY <2>2
    <3>6. LocalPath' \in BOOLEAN
      BY DEF SavedInv, TypeOK
    <3> QED BY <2>1, <3>1, <3>2, <3>3, <3>4, <3>5, <3>6 DEF TypeOK
  <2>4. Saved'
    BY <2>1, <2>2 DEF Saved
  <2> QED BY <2>1, <2>2, <2>3, <2>4, <1>4 DEF SavedInv
<1> QED BY <1>3, <1>4

\* One case per action: those that set call Scheduled, those that write Written.
LEMMA NextSaves == SavedInv /\ [Next]_vars => SavedInv'
<1> SUFFICES ASSUME SavedInv, [Next]_vars PROVE SavedInv'
  OBVIOUS
<1>1. ASSUME NEW o \in Names, NEW v \in Typed(o), set(o, v) PROVE SavedInv'
  <2>1. /\ value' \in [Names -> Json] /\ \A p \in Names : value'[p] \in Typed(p)
    BY <1>1 DEF set, SavedInv, TypeOK, Typed
  <2> QED BY <1>1, <2>1, Scheduled DEF set
<1>2. CASE reset
  <2>1. Changed = {} => value' = value
    BY <1>2, ConstantsAssumption DEF reset, Changed, SavedInv, TypeOK
  <2> QED BY <1>2, <2>1, Scheduled, ConstantsAssumption DEF reset
<1>3. ASSUME NEW json, deserialize(json) PROVE SavedInv'
  <2>1. Changed \cup Imported(json) = {} => value' = value
    BY <1>3, ConstantsAssumption DEF deserialize, Changed, Imported, SavedInv, TypeOK
  <2>2. /\ value' \in [Names -> Json] /\ \A p \in Names : value'[p] \in Typed(p)
    BY <1>3, ConstantsAssumption DEF deserialize, Imported, Typed
  <2> QED BY <1>3, <2>1, <2>2, Scheduled DEF deserialize
<1>4. CASE Start
  BY <1>4, ConstantsAssumption DEF Start, SavedInv, TypeOK, Saved, Phases
<1>5. CASE Disk
  BY <1>5, Written DEF Disk, Timeout, Exit
<1>6. CASE Fill
  <2>1. Serialize(value) \in Objects /\ Load(Serialize(value)) = value
    BY RoundTrip DEF SavedInv, TypeOK
  <2> QED BY <1>6, <2>1 DEF Fill, SavedInv, TypeOK, Saved, Phases
<1>7. CASE Finish
  BY <1>7 DEF Finish, SavedInv, TypeOK, Saved, Phases
<1>8. CASE Crash
  <2>1. value' \in [Names -> Json] /\ \A o \in Names : value'[o] \in Typed(o)
    BY <1>8, ConstantsAssumption DEF Crash, Gone
  <2>2. TypeOK'
    <3>1. phase' \in Phases /\ delayed' \in 0 .. 1
      BY <1>8 DEF Crash, Gone, Phases
    <3>2. /\ LocalPath' \in BOOLEAN /\ WriteScheduled' \in BOOLEAN /\ failed' \in BOOLEAN
          /\ file' \in Objects \cup {Broken}
      BY <1>8 DEF Crash, Gone, SavedInv, TypeOK
    <3> QED BY <2>1, <3>1, <3>2 DEF TypeOK
  <2> QED BY <1>8, <2>2 DEF Crash, Gone, SavedInv, Saved
<1>9. ASSUME NEW path \in BOOLEAN, NEW opens \in BOOLEAN, init(path, opens)
      PROVE SavedInv'
  <2>1. Load(file) \in [Names -> Json] /\ \A o \in Names : Load(file)[o] \in Typed(o)
    BY LoadTyped DEF SavedInv, TypeOK
  <2> QED BY <1>9, <2>1 DEF init, SavedInv, TypeOK, Saved, Phases
<1>10. ASSUME NEW f \in Objects \cup {Broken}, Edit(f) PROVE SavedInv'
  BY <1>10 DEF Edit, SavedInv, TypeOK, Saved
<1>11. CASE UNCHANGED vars
  BY <1>11 DEF vars, SavedInv, TypeOK, Saved
<1> QED BY <1>1, <1>2, <1>3, <1>4, <1>5, <1>6, <1>7, <1>8, <1>9, <1>10, <1>11 DEF Next

LEMMA StartsSaved == Init => SavedInv
<1> SUFFICES ASSUME Init PROVE SavedInv
  OBVIOUS
<1>1. TypeOK
  <2>1. phase \in Phases
    BY DEF Init, Phases
  <2>2. value \in [Names -> Json] /\ \A o \in Names : value[o] \in Typed(o)
    BY ConstantsAssumption DEF Init
  <2>3. LocalPath \in BOOLEAN /\ WriteScheduled \in BOOLEAN /\ failed \in BOOLEAN
    BY DEF Init
  <2>4. delayed \in 0 .. 1
    BY DEF Init
  <2>5. file \in Objects \cup {Broken}
    BY EmptyIsDefault DEF Init
  <2> QED BY <2>1, <2>2, <2>3, <2>4, <2>5 DEF TypeOK
<1> QED BY <1>1 DEF Init, SavedInv, Saved

\* Whatever the options, their types and the values of the file: no set, reset
\* or import is forgotten, and every write that is scheduled has its call.
THEOREM NothingForgotten == Spec => []Saved
<1>1. SavedInv => Saved
  BY DEF SavedInv
<1> QED BY <1>1, StartsSaved, NextSaves, PTL DEF Spec
=============================================================================
