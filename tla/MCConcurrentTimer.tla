------------------------ MODULE MCConcurrentTimer ------------------------
(***************************************************************************)
(* Model checking of the classes that an owner has to use one call at a    *)
(* time: ConcurrentTimer, whose other thread is its own, QtPointers,       *)
(* LastUsedCache, VirtualMethod, BigNum, ZipFile and CustomAppIcon; and of *)
(* AllocationTracer.  They share no state, so that each behaviour is one   *)
(* of them, the subject, the others standing still.  With the subject      *)
(* "urgent" both threads of ConcurrentTimer serve their queues faster than *)
(* one unit of time.                                                       *)
(***************************************************************************)
EXTENDS ConcurrentTimer, TLC

CONSTANTS
  Entries, MaxUps,           \* see LastUsedCache
  Classes, ParentOf, NoParent, Overrides, DefaultCall, MaxDispatches, \* see VirtualMethod
  NumberNames, Words, MaxAbs, \* see BigNum
  QObjects, Unique, Scoped, Weak, Null,           \* see QtPointers
  Members, NotThere, NoMember, MaxBytes, MaxSteps, \* see ZipFile
  Icons, NoIcon, MaxDeaths,                        \* see CustomAppIcon
  Allocators, NoThread, EntrySizes, BufferSize, MaxEntries \* see AllocationTracer

ASSUME LookupsAssumption ==
  /\ IsFiniteSet(Entries) /\ MaxUps \in Nat /\ MaxDispatches \in Nat
  /\ MaxAbs \in Nat /\ Words \subseteq 0..MaxAbs

\* A pointer is of one class, what stands for nothing is no object, file, icon or
\* thread, a digest is no error, and an entry of the trace fits into the buffer.
ASSUME FilesAssumption ==
  /\ Unique \intersect Scoped = {} /\ (Unique \union Scoped) \intersect Weak = {}
  /\ Null \notin QObjects /\ NotThere \notin Members /\ NoMember \notin Members
  /\ MaxBytes \in Nat /\ MaxSteps \in Nat /\ MaxDeaths \in Nat
  /\ Icons \intersect {NoIcon, "nullopt", "0", "true", "false"} = {}
  /\ NoThread \notin Allocators /\ BufferSize \in Nat /\ EntrySizes \subseteq 1..BufferSize

VARIABLES
  subject,
  holds, living, parent, deferred, loose, forgotten,
  _queue, _map, lastUse, ups, taken,
  childEntries, tableIndex, overrideMap, table, fired, dispatched, calls,
  data, _failed, meant, lost,
  part, bytes, position, dataError, ignored, handle, zipError, currentMember, content, short,
  archive, accepted, steps,
  attr, iconFile, fork, dock, temps, pc, setting, before, result, deaths, halfway,
  loggers, file, buffer, used, blocks, missing, tracerMutex, logging, appended, finishing

pointerVars == <<holds, living, parent, deferred, loose, forgotten>>
cacheVars   == <<_queue, _map, lastUse, ups, taken>>
methodVars  == <<childEntries, tableIndex, overrideMap, table, fired, dispatched, calls>>
numberVars  == <<data, _failed, meant, lost>>
zipVars     == <<part, bytes, position, dataError, ignored, handle, zipError,
                 currentMember, content, short, archive, accepted, steps>>
iconVars    == <<attr, iconFile, fork, dock, temps, pc, setting, before, result, deaths,
                 halfway>>
tracerVars  == <<loggers, file, buffer, used, blocks, missing, tracerMutex, logging,
                 appended, finishing>>

\* Four classes, of which one derives another that derives a third, and methods
\* for pairs of them.
MCParentOf == "root" :> NoParent @@ "mid" :> "root" @@ "leaf" :> "mid" @@ "other" :> "root"
MCClasses  == DOMAIN MCParentOf
MCOverrides == {<<"mid", "root">>, <<"root", "leaf">>, <<"other", "other">>}

Pointers == INSTANCE QtPointers
Cache    == INSTANCE LastUsedCache WITH NoEntry <- None
Methods  == INSTANCE VirtualMethod WITH Null <- None
Numbers  == INSTANCE BigNum WITH Numbers <- NumberNames
Zip      == INSTANCE ZipFile
Icon     == INSTANCE CustomAppIcon WITH file <- iconFile
Tracer   == INSTANCE AllocationTracer

\* Classes have no cycles, and one that derives from two others derives one of
\* them from the other.
ASSUME MethodsAssumption ==
  /\ IsFiniteSet(Classes) /\ Overrides \subseteq Classes \X Classes
  /\ None \notin Overrides \union {DefaultCall} /\ DefaultCall \notin Overrides
  /\ \A c \in Classes :
       /\ c \in Methods!Parents[c]
       /\ \A d, e \in Classes :
            /\ d \in Methods!Parents[c] /\ e \in Methods!Parents[d] => e \in Methods!Parents[c]
            /\ d \in Methods!Parents[c] /\ e \in Methods!Parents[c]
                 => d \in Methods!Parents[e] \/ e \in Methods!Parents[d]
            /\ d \in Methods!Parents[c] /\ c \in Methods!Parents[d] => c = d

MCInit ==
  /\ subject \in {"timer", "urgent", "pointers", "cache", "methods", "numbers", "zip",
                  "icon", "tracer"}
  /\ subject \notin {"timer", "urgent"} => object = "none"
  /\ subject # "zip" => part = "memory"
  /\ subject # "icon" => attr = "none"
  /\ Init /\ Pointers!Init /\ Cache!Init /\ Methods!Init /\ Numbers!Init /\ Zip!Init
  /\ Icon!Init /\ Tracer!Init

MCNext ==
  /\ UNCHANGED subject
  /\ \/ subject = "timer" /\ Next
     \/ subject = "urgent" /\ UrgentNext
     \/ subject = "pointers" /\ Pointers!Next
     \/ subject = "cache" /\ Cache!Next
     \/ subject = "methods" /\ Methods!Next
     \/ subject = "numbers" /\ Numbers!Next
     \/ subject = "zip" /\ Zip!Next
     \/ subject = "icon" /\ Icon!Next
     \/ subject = "tracer" /\ Tracer!Next
  /\ subject \notin {"timer", "urgent"} => UNCHANGED vars
  /\ subject # "pointers" => UNCHANGED pointerVars
  /\ subject # "cache" => UNCHANGED cacheVars
  /\ subject # "methods" => UNCHANGED methodVars
  /\ subject # "numbers" => UNCHANGED numberVars
  /\ subject # "zip" => UNCHANGED zipVars
  /\ subject # "icon" => UNCHANGED iconVars
  /\ subject # "tracer" => UNCHANGED tracerVars

MCSpec == /\ MCInit
          /\ [][MCNext]_<<subject, vars, pointerVars, cacheVars, methodVars, numberVars,
                          zipVars, iconVars, tracerVars>>
          /\ Fairness

-----------------------------------------------------------------------------
\* Every start is called back unless it is cancelled or replaced, and every
\* object of a timer goes once its timer did.  With both loops faster than the
\* clock no callback is late: the clock does not tick past a due start, even
\* after a jump (adjust() reschedules it).
TimerIsServed ==
  /\ OwedIsServed /\ ObjectReclaimed
  /\ [][subject = "urgent" /\ Tick =>
          ~(owed /\ object = "live" /\ env = "up" /\ due = 0)]_vars

\* A QObject has one owner and one that will delete it, also when its parent
\* goes first, and an object_ptr that goes out of scope spares other's children.
OneOwnerDeletes ==
  /\ [](Pointers!TypeOK /\ Pointers!OneOwner /\ Pointers!SomeoneDeletes)
  /\ Pointers!ScopeSparesChildren

\* Lookups find what they should: the map of a cache points into its list, the
\* oldest first; a call of a virtual_method goes to the override of its arguments'
\* classes and, where no earlier call has filled an entry on its way, to the
\* nearest that fits, the default if none does; and a BigNum has the value it was
\* set to or has failed.
LookupsFit ==
  /\ Cache!TypeOK /\ Cache!MapFollowsList /\ Cache!OldestFirst
  /\ Methods!TypeOK /\ Methods!EntriesOrdered /\ Methods!DispatchFits
  /\ Numbers!TypeOK /\ Numbers!ValueIsMeant

\* What files hold: what is read from an archive is the file asked for or there is
\* an error to see, an archive without an error has all files, a digest is that of
\* the icon shown and no temporary file stays; and a trace is handed to fwrite()
\* entry by entry, once, though what that drops is not known.
FilesAreWhole ==
  /\ [](/\ Zip!TypeOK /\ Zip!BytesAreWritten /\ Zip!ContentIsAsked /\ Zip!ArchiveIsWhole
        /\ Icon!TypeOK /\ Icon!ResultIsCurrent /\ Icon!DigestIsDisplayed /\ Icon!TempsRemoved
        /\ Tracer!TypeOK /\ Tracer!TraceIsWhole)
  /\ Zip!NothingIsToldAsError
=============================================================================
