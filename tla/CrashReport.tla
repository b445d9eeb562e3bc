----------------------------- MODULE CrashReport -----------------------------
(***************************************************************************)
(* base::CrashReportWriter: one process at a time, run after run.  A       *)
(* crash of any thread is caught by the dump handler, while there is one,  *)
(* or by SignalHandler, which writes the header with the annotations and a *)
(* line about the crash; then the thread runs into its crash again and the *)
(* process dies.  The owner closes and removes the report when it quits,   *)
(* and reads the report of the previous run when it starts.  Opening the   *)
(* report, writing to it and removing it may each fail.                    *)
(***************************************************************************)
EXTENDS Naturals, Sequences

CONSTANTS Crashing,  \* threads other than the main one
          MainThread,
          Signals,   \* the signals sigaction() is called for
          Nobody,
          MaxRuns

VARIABLES
  alive,               \* "off", "up", "quitting", "removing" or "dead"
  runs,
  crashPc,             \* thread -> where it is
  caught,              \* thread -> its signal, or -1 from the dump handler
  defaulted,           \* signals whose handler is the default
  catching,            \* BreakpadExceptionHandler is there
  installed,           \* the handlers for memory and for Qt's messages are there
  CrashLogged, ReportingThreadId, ReportingMutex, AnnotationsMutex,
  Annotations,         \* the thread whose text is under "QtFatal", or Nobody
  ReportFileNo, SkipWriteReportHeader, ReportingHeaderWritten,
  header,              \* Annotations, as copied to the buffer of the header
  report,              \* the file "report"
  final,               \* the file written next to the dump
  _previousReport,
  fatal                \* history: threads that had a fatal message of Qt

processVars == <<alive, runs, catching, installed>>
threadVars  == <<crashPc, caught, defaulted, CrashLogged, fatal>>
lockVars    == <<ReportingThreadId, ReportingMutex, AnnotationsMutex>>
headerVars  == <<Annotations, ReportFileNo, SkipWriteReportHeader,
                 ReportingHeaderWritten, header>>
diskVars    == <<report, final, _previousReport>>
vars == <<processVars, threadVars, lockVars, headerVars, diskVars>>

AllThreads == Crashing \union {MainThread}
Running == alive \in {"up", "quitting", "removing"}
\* A file is there or not, and has lines: a header and the line of a crash.
Absent == [there |-> FALSE, lines |-> <<>>]
Empty == [there |-> TRUE, lines |-> <<>>]
Dumped == "dump"
At(t, where) == Running /\ crashPc[t] = where
Go(t, where) == crashPc' = [crashPc EXCEPT ![t] = where]

\* What is there after start(), in each run.  It sets handlers only when the
\* report could be opened and locked.
Fresh(opened) ==
  /\ installed' = opened /\ ReportFileNo' = opened
  /\ defaulted' = IF opened THEN {} ELSE Signals
  /\ crashPc' = [t \in AllThreads |-> "run"]
  /\ caught' = [t \in AllThreads |-> Nobody]
  /\ CrashLogged' = FALSE /\ fatal' = {}
  /\ ReportingThreadId' = Nobody /\ ReportingMutex' = Nobody
  /\ AnnotationsMutex' = Nobody /\ Annotations' = Nobody /\ header' = Nobody
  /\ SkipWriteReportHeader' = FALSE /\ ReportingHeaderWritten' = FALSE

Init ==
  /\ alive = "off" /\ runs = 0 /\ catching = FALSE /\ installed = FALSE
  /\ crashPc = [t \in AllThreads |-> "run"]
  /\ caught = [t \in AllThreads |-> Nobody]
  /\ defaulted = {} /\ CrashLogged = FALSE /\ fatal = {}
  /\ ReportingThreadId = Nobody /\ ReportingMutex = Nobody
  /\ AnnotationsMutex = Nobody /\ Annotations = Nobody /\ header = Nobody
  /\ ReportFileNo = FALSE
  /\ SkipWriteReportHeader = FALSE /\ ReportingHeaderWritten = FALSE
  /\ report = Absent /\ final = Absent /\ _previousReport = Absent

-----------------------------------------------------------------------------
\* The owner, on the main thread.

\* Constructor and start(): the previous report is read before openReport()
\* truncates the file, sets the signal handlers and startCatching() the other.
\* The file may not open, or open and not be locked: then only startCatching().
start(withDumps, opened) ==
  /\ alive \in {"off", "dead"} /\ runs < MaxRuns
  /\ alive' = "up" /\ runs' = runs + 1 /\ catching' = withDumps
  /\ _previousReport' = report /\ final' = Absent
  /\ report' = Empty \/ (~opened /\ report' = report)
  /\ Fresh(opened)

\* finishCatching() in the destructor: the handlers of openReport() are back.
finishCatching ==
  /\ alive = "up" /\ At(MainThread, "run")
  /\ alive' = "quitting" /\ catching' = FALSE
  /\ UNCHANGED <<runs, installed, threadVars, lockVars, headerVars, diskVars>>

\* closeReport() up to lock.unlock().
closeReport ==
  /\ alive = "quitting" /\ At(MainThread, "run") /\ ReportingMutex = Nobody
  /\ alive' = "removing" /\ SkipWriteReportHeader' = TRUE
  /\ UNCHANGED <<runs, catching, installed, threadVars, lockVars, Annotations,
                 ReportFileNo, ReportingHeaderWritten, header, diskVars>>

\* The rest of closeReport(), where remove() may fail, and the process exits.
RemoveReport ==
  /\ alive = "removing" /\ At(MainThread, "run")
  /\ alive' = "off" /\ report' \in {report, Absent} /\ ReportFileNo' = FALSE
  /\ UNCHANGED <<runs, catching, installed, threadVars, lockVars, Annotations, final,
                 SkipWriteReportHeader, ReportingHeaderWritten, header,
                 _previousReport>>

-----------------------------------------------------------------------------
\* Any thread.  crashPc after AddAnnotation() is "run", or "fault" when the
\* message handler calls Unexpected() for a fatal message of Qt.

\* Of the annotations only the fatal message is told apart; emplace() keeps the
\* text that is there.
AddAnnotation(t, key) ==
  /\ At(t, "run") /\ AnnotationsMutex = Nobody
  /\ AnnotationsMutex' = t
  /\ IF key = "QtFatal"
     THEN /\ installed /\ Go(t, "fatal") /\ fatal' = fatal \union {t}
          /\ Annotations' = IF Annotations = Nobody THEN t ELSE Annotations
     ELSE Go(t, "annotate") /\ UNCHANGED <<fatal, Annotations>>
  /\ UNCHANGED <<processVars, caught, defaulted, CrashLogged, ReportingThreadId,
                 ReportingMutex, ReportFileNo, SkipWriteReportHeader,
                 ReportingHeaderWritten, header, diskVars>>

Annotated(t) ==
  /\ At(t, "annotate") \/ At(t, "fatal")
  /\ AnnotationsMutex' = Nobody
  /\ Go(t, IF crashPc[t] = "fatal" THEN "fault" ELSE "run")
  /\ UNCHANGED <<processVars, caught, defaulted, CrashLogged, fatal,
                 ReportingThreadId, ReportingMutex, headerVars, diskVars>>

\* A thread faults: on its own, in AddAnnotation(), when no memory is left
\* (the new handler gives the reserve back and calls Unexpected()), or again
\* after the handler returned.  SA_RESETHAND: a signal is handled once.
Fault(t, s) ==
  /\ At(t, "run") \/ At(t, "annotate") \/ At(t, "fatal") \/ At(t, "fault")
  /\ IF catching
     THEN /\ caught' = [caught EXCEPT ![t] = Dumped] /\ Go(t, "dump")
          /\ UNCHANGED <<alive, defaulted>>
     ELSE IF s \notin defaulted
     THEN /\ caught' = [caught EXCEPT ![t] = s] /\ Go(t, "handler")
          /\ defaulted' = defaulted \union {s}
          /\ UNCHANGED alive
     ELSE alive' = "dead" /\ UNCHANGED <<crashPc, caught, defaulted>>
  /\ UNCHANGED <<runs, catching, installed, CrashLogged, fatal, lockVars, headerVars,
                 diskVars>>

\* DumpCallback(), under the mutex of the dump handler's library.
DumpCallback(t) ==
  /\ At(t, "dump") /\ \A u \in AllThreads : caught[u] = Dumped => crashPc[u] = "dump"
  /\ CrashLogged' = TRUE
  /\ Go(t, IF CrashLogged THEN "return" ELSE "handler")
  /\ UNCHANGED <<processVars, caught, defaulted, fatal, lockVars, headerVars, diskVars>>

\* The handler has returned: the faulting instruction runs again, or the dump
\* handler's library ends the process.
Return(t) ==
  /\ At(t, "return")
  /\ alive' = "dead"
  /\ UNCHANGED <<runs, catching, installed, threadVars, lockVars, headerVars, diskVars>>

-----------------------------------------------------------------------------
\* SignalHandler().

SkipsReport == SkipWriteReportHeader \/ ~ReportFileNo

\* Up to the test of ReportFileNo; a thread that is reporting returns at once.
SignalHandlerMutant(t) ==
  /\ At(t, "handler") /\ ReportingMutex = Nobody
  /\ ReportingThreadId' = t
  /\ ReportingMutex' = t
  /\ Go(t, IF SkipsReport THEN "return"
           ELSE IF ReportingHeaderWritten THEN "write" ELSE "header")
  /\ UNCHANGED <<processVars, caught, defaulted, CrashLogged, fatal,
                 AnnotationsMutex, headerVars, diskVars>>
SignalHandler(t) ==
  /\ At(t, "handler") /\ ReportingMutex = Nobody
  /\ ReportingThreadId' = t
  /\ ReportingMutex' = IF SkipsReport THEN Nobody ELSE t
  /\ Go(t, IF SkipsReport THEN "return"
           ELSE IF ReportingHeaderWritten THEN "write" ELSE "header")
  /\ UNCHANGED <<processVars, caught, defaulted, CrashLogged, fatal,
                 AnnotationsMutex, headerVars, diskVars>>

\* The annotations that are there go to the buffer, under their own mutex.
WriteHeader(t) ==
  /\ At(t, "header") /\ AnnotationsMutex = Nobody
  /\ ReportingHeaderWritten' = TRUE /\ header' = Annotations
  /\ Go(t, "write")
  /\ UNCHANGED <<processVars, caught, defaulted, CrashLogged, fatal, lockVars,
                 Annotations, ReportFileNo, SkipWriteReportHeader, diskVars>>

\* The handler itself faults with another signal, for which ReportingThreadId
\* makes it return at once: the process dies with nothing written.
FaultInHandler(t) ==
  /\ At(t, "header") \/ At(t, "write")
  /\ alive' = "dead"
  /\ UNCHANGED <<runs, catching, installed, threadVars, lockVars, headerVars, diskVars>>

\* The line about a crash of t, and what of the buffer a write() may write.
Line(t) == [thread |-> t, fatal |-> t \in fatal]
Prefixes(t) == {<<>>, <<header>>, <<header, Line(t)>>}

\* The buffer, with the line about the crash, is written to the report, and to
\* the file beside the dump, which may not open.  No write() is looked after.
WriteReport(t) ==
  /\ At(t, "write")
  /\ \E written \in Prefixes(t) :
       report' = [there |-> report.there, lines |-> report.lines \o written]
  /\ \/ final' = final
     \/ /\ caught[t] = Dumped
        /\ \E written \in Prefixes(t) :
             final' = [there |-> TRUE, lines |-> written]
  /\ ReportFileNo' = FALSE
  /\ ReportingThreadId' = Nobody /\ ReportingMutex' = Nobody
  /\ Go(t, "return")
  /\ UNCHANGED <<processVars, caught, defaulted, CrashLogged, fatal, AnnotationsMutex,
                 Annotations, SkipWriteReportHeader, ReportingHeaderWritten, header,
                 _previousReport>>

-----------------------------------------------------------------------------
Owner == \/ \E dumps, opened \in BOOLEAN : start(dumps, opened)
         \/ finishCatching \/ closeReport \/ RemoveReport

\* What a thread that has something to do does.
Works(t) == \/ Annotated(t) \/ DumpCallback(t) \/ Return(t) \/ SignalHandler(t)
            \/ WriteHeader(t) \/ WriteReport(t)
            \/ crashPc[t] = "fault" /\ \E s \in Signals : Fault(t, s)

Next == \/ Owner
        \/ \E t \in AllThreads :
             \/ Works(t) \/ FaultInHandler(t)
             \/ \E key \in {"app", "QtFatal"} : AddAnnotation(t, key)
             \/ \E s \in Signals : Fault(t, s)

\* A thread that waits for the annotations' mutex gets it, however often other
\* threads add theirs.
Fairness == \A t \in AllThreads : WF_vars(Works(t)) /\ SF_vars(WriteHeader(t))
Spec == Init /\ [][Next]_vars /\ Fairness

-----------------------------------------------------------------------------
TypeOK ==
  /\ alive \in {"off", "up", "quitting", "removing", "dead"}
  /\ runs \in 0..MaxRuns
  /\ crashPc \in [AllThreads -> {"run", "annotate", "fatal", "fault", "dump",
                                 "handler", "header", "write", "return"}]
  /\ caught \in [AllThreads -> Signals \union {Nobody, Dumped}]
  /\ defaulted \subseteq Signals
  /\ {catching, installed, CrashLogged, ReportFileNo, SkipWriteReportHeader,
      ReportingHeaderWritten} \subseteq BOOLEAN
  /\ {ReportingThreadId, ReportingMutex, AnnotationsMutex, Annotations, header}
       \subseteq AllThreads \union {Nobody}
  /\ fatal \subseteq AllThreads

\* The report, on disk or beside the dump, is of one crash: the annotations at the
\* time of the header and then the line of the thread, or the beginning of that
\* when write() failed or was short; and the two files never disagree.  When the
\* thread crashed for a fatal message of Qt, there is one in its report, though
\* emplace() keeps another thread's that came before.
ReportIsWhole ==
  /\ \A lines \in {report.lines, final.lines} :
       /\ Len(lines) <= 2
       /\ Len(lines) = 2 /\ lines[2].fatal => lines[1] # Nobody
  /\ report.lines # <<>> /\ final.lines # <<>> => report.lines[1] = final.lines[1]

\* Nobody holds the report's mutex and is not in the handler, and no handler
\* writes once the owner passed its test of SkipWriteReportHeader.
HandlerExcludesOwner ==
  /\ \A t \in AllThreads :
       (Running /\ crashPc[t] \in {"header", "write"}) <=> (Running /\ ReportingMutex = t)
  /\ alive = "removing" => ReportingMutex = Nobody

\* A report goes only when the owner quits or when the next run has read it.
ReportSurvives ==
  [][report.lines # <<>> /\ report' # report =>
       RemoveReport \/ _previousReport' = report]_vars

Crashed(t) == crashPc[t] \in {"dump", "handler", "header", "write", "return"}

\* A thread that faulted while it held the mutex of the annotations.
HoldsAnnotations == \E t \in AllThreads : Crashed(t) /\ AnnotationsMutex = t

\* Every crash ends the process, unless a thread crashed in AddAnnotation():
\* the handler then waits for a mutex that nobody gives back.
CrashEnds ==
  (\E t \in AllThreads : Running /\ Crashed(t)) ~> (~Running \/ HoldsAnnotations)
=============================================================================
