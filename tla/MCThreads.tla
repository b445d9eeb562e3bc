----------------------------- MODULE MCThreads -----------------------------
(***************************************************************************)
(* Model checking of what any thread may use: WeakPtr, Unixtime, MsgIds,   *)
(* RuntimeComposer, CrashReport and Reachability.  They share no state, so *)
(* that each behaviour is one of them, the subject, the others standing    *)
(* still.  In the "alone" subject no two calls overlap.                    *)
(***************************************************************************)
EXTENDS WeakPtr

CONSTANTS Threads,                                   \* see Unixtime and MsgIds
          ForcedTimes, Times, HttpTimes, MaxUpdates, \* see Unixtime
          On, Back, MaxCounter, MaxIds,              \* see MsgIds
          MinStartId, MaxStartId,
          Types, Users, Composers, Nothing, IndexLimit, \* see RuntimeComposer
          Contents, Initial, MaxThrows,
          Crashing, MainThread, Signals, Nobody, MaxRuns, \* see CrashReport
          MaxFlips, MaxHolders                       \* see Reachability

ASSUME ThreadsAssumption ==
  /\ Times \cup ForcedTimes \cup HttpTimes \subseteq Int /\ "none" \notin Threads
  /\ On \subseteq Nat /\ Back \subseteq Nat
  /\ Initial \in Contents /\ IndexLimit \in Nat /\ Nothing \notin Types
  /\ \A S \in SUBSET Types : Nothing \notin [S -> Contents]
  /\ Nobody \notin Crashing \cup {MainThread}
  /\ MaxRuns \in Nat /\ MaxFlips \in Nat /\ MaxHolders \in Nat

VARIABLES
  subject,
  ValueUpdated, ValueShift, HttpValueValid, HttpValueShift, pc, arg, loaded,
  _lock, _startShift, posted, told,
  nanoseconds, _startCounter, _startId, _incrementedPart, idPc, read, start,
  last, issued, count, movedBack, lastBack,
  RuntimeComponentIndexLast, MyIndex, RuntimeComponentWraps, asking, metadatas, raced,
  composer, maskOf, lost, throws, wrecked,
  alive, runs, catching, installed, crashPc, caught, defaulted, CrashLogged, fatal,
  ReportingThreadId, ReportingMutex, AnnotationsMutex, Annotations, ReportFileNo,
  SkipWriteReportHeader, ReportingHeaderWritten, header, report, final, _previousReport,
  online, flips, stage, connectivity, available, holders, notices, overtaken

clockVars == <<ValueUpdated, ValueShift, HttpValueValid, HttpValueShift, pc,
               arg, loaded, _lock, _startShift, posted, told>>
idVars    == <<nanoseconds, _startCounter, _startId, _incrementedPart, idPc,
               read, start, last, issued, count, movedBack, lastBack>>
layoutVars == <<RuntimeComponentIndexLast, MyIndex, RuntimeComponentWraps, asking,
                metadatas, raced, composer, maskOf, lost, throws, wrecked>>
crashVars == <<alive, runs, catching, installed, crashPc, caught, defaulted,
               CrashLogged, fatal, ReportingThreadId, ReportingMutex, AnnotationsMutex,
               Annotations, ReportFileNo, SkipWriteReportHeader, ReportingHeaderWritten,
               header, report, final, _previousReport>>
netVars   == <<online, flips, stage, connectivity, available, holders, notices, overtaken>>

Clock == INSTANCE Unixtime
Ids   == INSTANCE MsgIds WITH pc <- idPc, counter <- nanoseconds
Layout == INSTANCE RuntimeComposer
Report == INSTANCE CrashReport
Net    == INSTANCE Reachability

MCInit ==
  /\ subject \in {"weak_ptr", "unixtime", "unixtime_alone", "msgids", "layout", "crash",
                  "network"}
  /\ subject # "network" => online = TRUE
  /\ Init /\ Clock!Init /\ Ids!Init /\ Layout!Init /\ Report!Init /\ Net!Init

MCNext ==
  /\ UNCHANGED subject
  /\ \/ subject = "weak_ptr" /\ Next
     \/ subject \in {"unixtime", "unixtime_alone"} /\ Clock!Next
     \/ subject = "msgids" /\ Ids!Next
     \/ subject = "layout" /\ Layout!Next
     \/ subject = "crash" /\ Report!Next
     \/ subject = "network" /\ Net!Next
  /\ subject # "weak_ptr" => UNCHANGED vars
  /\ subject \notin {"unixtime", "unixtime_alone"} => UNCHANGED clockVars
  /\ subject = "unixtime_alone" =>
       \A t, u \in Threads : pc'[t] # "idle" /\ pc'[u] # "idle" => t = u
  /\ subject # "msgids" => UNCHANGED idVars
  /\ subject # "layout" => UNCHANGED layoutVars
  /\ subject # "crash" => UNCHANGED crashVars
  /\ subject # "network" => UNCHANGED netVars

MCVars == <<subject, vars, clockVars, idVars, layoutVars, crashVars, netVars>>

MCSpec == MCInit /\ [][MCNext]_MCVars /\ Report!Fairness

-----------------------------------------------------------------------------
\* The type invariants of all.
TypesOK ==
  /\ TypeOK /\ Clock!TypeOK /\ Ids!TypeOK
  /\ Layout!TypeOK /\ Report!TypeOK /\ Net!TypeOK

\* With no update() under way message ids are made from the shift in force;
\* subscribers know it once all that was posted was fired; and a valid http time
\* is an answer's, for calls that do not overlap.  So does the availability
\* of the network follow the last change told.
LatestPrevails ==
  /\ Clock!IdsFollowShift /\ Clock!SubscribersTold
  /\ subject = "unixtime_alone" => Clock!HttpNowIsHttp
  /\ Net!AvailabilityFollows

\* A thread's ids grow, whatever other threads are given and while update() moves
\* their start, but for what it moved the start back.
IdsIncrease == [][subject = "msgids" => Ids!Grows]_idVars

\* Components have bits of their own in every mask, an object has those its
\* mask says, and those that stay keep what they hold when others come, go or throw.
LayoutsHold ==
  /\ [](Layout!BitsDistinct /\ Layout!HasItsMask)
  /\ Layout!ContentsKept

\* The report is of one crash and has what was annotated before it, as far as it
\* could be written; its owner keeps out while a handler writes, it survives until
\* the next run has read it, and a crash comes to its end.
CrashIsReported ==
  /\ [](Report!ReportIsWhole /\ Report!HandlerExcludesOwner)
  /\ Report!ReportSurvives /\ Report!CrashEnds
=============================================================================
