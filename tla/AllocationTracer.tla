-------------------------- MODULE AllocationTracer --------------------------
(***************************************************************************)
(* base/platform/linux/base_linux_allocation_tracer.cpp: the loggers that  *)
(* the allocator calls on every thread, the buffer they fill under Mutex,  *)
(* and its blocks in the file.  The allocator itself and stdio, which is   *)
(* taken not to allocate inside of fwrite(), are external.                 *)
(***************************************************************************)
EXTENDS Naturals, Sequences

CONSTANTS
  Allocators,   \* the threads that allocate and free
  NoThread,
  EntrySizes,   \* sizes of the entries of MallocLogger, ReallocLogger, FreeLogger
  BufferSize,   \* kBufferSize
  MaxEntries    \* bound of the entries

VARIABLES
  loggers,      \* InstallLoggers() was called, RemoveLoggers() was not
  file,         \* File: "none", "failed", "open", "closed"
  buffer,       \* the entries between Buffer and Data
  used,         \* Data - Buffer
  blocks,       \* the entries that were handed to fwrite()
  missing,      \* the places in blocks of those that it did not write
  tracerMutex,  \* who has Mutex
  logging,      \* the entry each thread is in a logger with, 0 for none
  appended,     \* the entries AppendEntry took, in order
  finishing     \* FinishAllocationTracer() is past RemoveLoggers()

vars == <<loggers, file, buffer, used, blocks, missing, tracerMutex, logging, appended, finishing>>

-----------------------------------------------------------------------------
\* SetAllocationTracerPath, once; the file may not open.
SetAllocationTracerPath ==
  \E opened \in BOOLEAN :
    /\ file = "none"
    /\ file' = (IF opened THEN "open" ELSE "failed") /\ loggers' = opened
    /\ UNCHANGED <<buffer, used, blocks, missing, tracerMutex, logging, appended,
                   finishing>>

\* The allocator finds a logger and calls it: the entry is made before Mutex.
Logger(t) ==
  /\ loggers /\ logging[t] = 0 /\ Len(appended) < MaxEntries
  /\ \E size \in EntrySizes : logging' = [logging EXCEPT ![t] = size]
  /\ UNCHANGED <<loggers, file, buffer, used, blocks, missing, tracerMutex, appended,
                 finishing>>

Lock(t) ==
  /\ logging[t] # 0 /\ tracerMutex = NoThread /\ tracerMutex' = t
  /\ UNCHANGED <<loggers, file, buffer, used, blocks, missing, logging, appended,
                 finishing>>

\* fwrite() of what is in the buffer may write a part of it or nothing, and what
\* it returns is not looked at: the rest is dropped.
WriteBlock ==
  \E written \in 0..Len(buffer) :
    /\ blocks' = blocks \o buffer
    /\ missing' = missing \cup {Len(blocks) + i : i \in written + 1..Len(buffer)}

\* The rest of AppendEntry: nothing without a file, and WriteBlock() first if
\* the entry does not fit.
AppendEntry(t) ==
  LET full == used + logging[t] > BufferSize
  IN /\ tracerMutex = t /\ tracerMutex' = NoThread
     /\ logging' = [logging EXCEPT ![t] = 0]
     /\ IF file # "open" THEN UNCHANGED <<buffer, used, blocks, missing, appended>>
        ELSE /\ IF full THEN WriteBlock ELSE UNCHANGED <<blocks, missing>>
             /\ buffer' = IF full THEN <<logging[t]>> ELSE Append(buffer, logging[t])
             /\ used' = (IF full THEN 0 ELSE used) + logging[t]
             /\ appended' = Append(appended, logging[t])
     /\ UNCHANGED <<loggers, file, finishing>>

\* FinishAllocationTracer: RemoveLoggers(), then the rest under Mutex.  Threads
\* may still be on their way into AppendEntry.
RemoveLoggers ==
  /\ file = "open" /\ ~finishing
  /\ loggers' = FALSE /\ finishing' = TRUE
  /\ UNCHANGED <<file, buffer, used, blocks, missing, tracerMutex, logging, appended>>

FinishAllocationTracer ==
  /\ finishing /\ file = "open" /\ tracerMutex = NoThread
  /\ WriteBlock /\ buffer' = <<>> /\ used' = 0 /\ file' = "closed"
  /\ UNCHANGED <<loggers, tracerMutex, logging, appended, finishing>>

-----------------------------------------------------------------------------
Init ==
  /\ loggers = FALSE /\ file = "none" /\ buffer = <<>> /\ used = 0 /\ blocks = <<>>
  /\ missing = {}
  /\ tracerMutex = NoThread /\ logging = [t \in Allocators |-> 0]
  /\ appended = <<>> /\ finishing = FALSE

AppendStep(t) == Lock(t) \/ AppendEntry(t)
Next ==
  \/ SetAllocationTracerPath \/ RemoveLoggers \/ FinishAllocationTracer
  \/ \E t \in Allocators : Logger(t) \/ AppendStep(t)
Spec == Init /\ [][Next]_vars

-----------------------------------------------------------------------------
\* The type invariant.
TypeOK ==
  /\ loggers \in BOOLEAN /\ file \in {"none", "open", "failed", "closed"}
  /\ buffer \in Seq(EntrySizes) /\ used \in 0..BufferSize /\ blocks \in Seq(EntrySizes)
  /\ tracerMutex \in Allocators \cup {NoThread}
  /\ logging \in [Allocators -> EntrySizes \cup {0}]
  /\ missing \subseteq DOMAIN blocks
  /\ appended \in Seq(EntrySizes) /\ finishing \in BOOLEAN

\* Each entry that a logger appended is handed to fwrite() or in the buffer once,
\* in the order of the appends, and once the file is closed everything was handed
\* over, whichever threads were inside a logger then.  The file has what fwrite()
\* did not drop (missing), and nobody is told of that.
TraceIsWhole ==
  /\ blocks \o buffer = appended
  /\ file = "closed" => buffer = <<>>
=============================================================================
