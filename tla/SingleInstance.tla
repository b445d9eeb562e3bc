-------------------------- MODULE SingleInstance --------------------------
(***************************************************************************)
(* base::SingleInstance (single_instance.cpp) over base::FileLock with     *)
(* POSIX record locks (file_lock_posix.cpp): processes that start at the   *)
(* same time, are killed by each other, crash, and exit.  A step is one    *)
(* system call that other processes can see.                               *)
(*                                                                         *)
(* The lock file is a PATH naming an inode, a lock belongs to the inode.   *)
(* The local socket is a name too: it stays behind when its process dies,  *)
(* and then QLocalServer::listen() finds it in use: CleanName() removes    *)
(* the bare name from the working directory, which is not where the socket *)
(* is.                                                                     *)
(***************************************************************************)
EXTENDS Integers, FiniteSets, TLAPS

CONSTANTS
  Procs,        \* the processes
  Foreign,      \* those of another user, which kill() may not signal
  Inodes,       \* the inodes the lock file's path may name
  None

ASSUME ConstantsAssumption ==
  /\ Foreign \subseteq Procs
  /\ None \notin Procs /\ None \notin Inodes

VARIABLES
  phase,        \* how far each process is, see Phases
  peer,         \* the process it is connected to, or is killing, or None
  fd,           \* the inode its _lockFile is open on, or None
  holder,       \* per inode: the process that has it locked, or None
  path,         \* the inode the lock file's path names, or None
  sock,         \* the process whose listen() made the socket, or None
  server        \* its _server: "none", "listening" or "closed"

vars == <<phase, peer, fd, holder, path, sock, server>>

Phases == {"off", "connecting", "secondary", "error", "opened", "killing",
           "locked", "cleaned", "primary", "failed",
           "unlocked", "unlinked", "closed", "dead"}

Become(p, s) == phase' = [phase EXCEPT ![p] = s]

-----------------------------------------------------------------------------
(* start(): connect to a running instance *)

Start(p) ==
  /\ phase[p] = "off" /\ Become(p, "connecting")
  /\ UNCHANGED <<peer, fd, holder, path, sock, server>>

Reachable(q) == q # None /\ server[q] = "listening"

Connect(p) ==
  /\ phase[p] = "connecting"
  /\ \/ /\ sock # None /\ Reachable(sock)
        /\ Become(p, "secondary") /\ peer' = [peer EXCEPT ![p] = sock]
     \/ /\ sock = None \/ ~Reachable(sock)
        /\ Become(p, "error") /\ UNCHANGED peer
  /\ UNCHANGED <<fd, holder, path, sock, server>>

DisconnectedMutant(p) == FALSE

\* The disconnected signal: handleError() as after a failed connection.
Disconnected(p) ==
  /\ phase[p] = "secondary" /\ ~Reachable(peer[p])
  /\ Become(p, "error") /\ peer' = [peer EXCEPT ![p] = None]
  /\ UNCHANGED <<fd, holder, path, sock, server>>

-----------------------------------------------------------------------------
(* handleError(): closeExisting(), that is FileLock::lock(), then listen() *)

FreshInodes == {i \in Inodes : path # i /\ \A q \in Procs : fd[q] # i}

OpenLockFileMutant(p) ==
  /\ phase[p] = "error" /\ Become(p, "opened")
  /\ fd' = [fd EXCEPT ![p] = path]
  /\ UNCHANGED <<path, peer, holder, sock, server>>

\* file.open(WriteOnly) creates the file if the path names none.
OpenLockFile(p) ==
  /\ phase[p] = "error"
  /\ \/ /\ path # None /\ fd' = [fd EXCEPT ![p] = path] /\ Become(p, "opened")
        /\ UNCHANGED path
     \/ /\ path = None
        /\ \E i \in FreshInodes : path' = i /\ fd' = [fd EXCEPT ![p] = i]
        /\ Become(p, "opened")
     \/ /\ Become(p, "failed") /\ UNCHANGED <<fd, path>>
  /\ UNCHANGED <<peer, holder, sock, server>>

\* Lock::Acquire(): F_SETLK, and F_GETLK for the pid when it is taken.
AcquireMutant(p) ==
  /\ phase[p] = "opened"
  /\ holder' = [holder EXCEPT ![fd[p]] = p] /\ Become(p, "locked")
  /\ UNCHANGED <<peer, fd, path, sock, server>>

Acquire(p) ==
  /\ phase[p] = "opened"
  /\ \/ /\ holder[fd[p]] = None
        /\ holder' = [holder EXCEPT ![fd[p]] = p] /\ Become(p, "locked")
        /\ UNCHANGED peer
     \/ /\ holder[fd[p]] # None
        /\ peer' = [peer EXCEPT ![p] = holder[fd[p]]] /\ Become(p, "killing")
        /\ UNCHANGED holder
  /\ UNCHANGED <<fd, path, sock, server>>

KillProcessMutant(p) ==
  /\ phase[p] = "killing" /\ phase[peer[p]] = "dead" /\ Become(p, "opened")
  /\ peer' = [peer EXCEPT ![p] = None]
  /\ UNCHANGED <<fd, holder, path, sock, server>>

\* KillProcess(): signals until ESRCH, and gives up on any other error.
KillProcess(p) ==
  /\ phase[p] = "killing"
  /\ \/ phase[peer[p]] = "dead" /\ Become(p, "opened")
     \/ phase[peer[p]] # "dead" /\ peer[p] \in Foreign /\ Become(p, "failed")
  /\ peer' = [peer EXCEPT ![p] = None]
  /\ UNCHANGED <<fd, holder, path, sock, server>>

CleanNameMutant(p) ==
  /\ phase[p] = "locked" /\ Become(p, "cleaned") /\ sock' = None
  /\ UNCHANGED <<peer, fd, holder, path, server>>

\* QFile(name).remove() of the bare name: the socket's path stays.
CleanName(p) ==
  /\ phase[p] = "locked" /\ Become(p, "cleaned")
  /\ UNCHANGED <<peer, fd, holder, path, sock, server>>

ListenMutant(p) ==
  /\ phase[p] = "cleaned" /\ Become(p, "primary") /\ sock' = p
  /\ server' = [server EXCEPT ![p] = "listening"]
  /\ UNCHANGED <<peer, fd, holder, path>>

\* _server.listen(_name): bind() refuses a name that exists.
Listen(p) ==
  /\ phase[p] = "cleaned"
  /\ \/ /\ sock = None /\ sock' = p
        /\ server' = [server EXCEPT ![p] = "listening"]
        /\ Become(p, "primary")
     \/ /\ sock # None /\ Become(p, "failed")
        /\ UNCHANGED <<sock, server>>
  /\ UNCHANGED <<peer, fd, holder, path>>

-----------------------------------------------------------------------------
(* ~SingleInstance, and the ends that run no destructor *)

Locked(p) == fd[p] # None /\ holder[fd[p]] = p

\* clearSocket(), then clearLock(): unlock() and close() first ...
Unlock(p) ==
  /\ phase[p] \in {"connecting", "secondary", "primary", "failed"}
  /\ Become(p, IF Locked(p) THEN "unlocked" ELSE "unlinked")
  /\ holder' = [i \in Inodes |-> IF holder[i] = p THEN None ELSE holder[i]]
  /\ peer' = [peer EXCEPT ![p] = None] /\ fd' = [fd EXCEPT ![p] = None]
  /\ UNCHANGED <<path, sock, server>>

\* ... and remove() of whatever the path names by then.
Unlink(p) ==
  /\ phase[p] = "unlocked" /\ Become(p, "unlinked")
  /\ path' = None
  /\ UNCHANGED <<peer, fd, holder, sock, server>>

\* ~QLocalServer closes the socket, then removes its name.
CloseServer(p) ==
  /\ phase[p] = "unlinked" /\ Become(p, "closed")
  /\ server' = [server EXCEPT ![p] = IF @ = "listening" THEN "closed" ELSE @]
  /\ UNCHANGED <<peer, fd, holder, path, sock>>

RemoveName(p) ==
  /\ phase[p] = "closed" /\ Become(p, "dead")
  /\ sock' = IF server[p] = "closed" THEN None ELSE sock
  /\ UNCHANGED <<peer, fd, holder, path, server>>

ExitStep(p) == Unlock(p) \/ Unlink(p) \/ CloseServer(p) \/ RemoveName(p)

\* A crash or a signal: the kernel drops the locks and closes the sockets.
Die(p) ==
  /\ phase[p] \notin {"off", "dead"} /\ Become(p, "dead")
  /\ holder' = [i \in Inodes |-> IF holder[i] = p THEN None ELSE holder[i]]
  /\ peer' = [peer EXCEPT ![p] = None] /\ fd' = [fd EXCEPT ![p] = None]
  /\ server' = [server EXCEPT ![p] = IF @ = "listening" THEN "closed" ELSE @]
  /\ UNCHANGED <<path, sock>>

-----------------------------------------------------------------------------
Init ==
  /\ phase = [p \in Procs |-> "off"] /\ peer = [p \in Procs |-> None]
  /\ fd = [p \in Procs |-> None] /\ holder = [i \in Inodes |-> None]
  /\ path \in Inodes \cup {None}
  /\ sock = None /\ server = [p \in Procs |-> "none"]

StartStep(p) ==
  \/ Connect(p) \/ Disconnected(p) \/ OpenLockFile(p) \/ Acquire(p)
  \/ KillProcess(p) \/ CleanName(p) \/ Listen(p)

Next == \E p \in Procs : Start(p) \/ StartStep(p) \/ ExitStep(p) \/ Die(p)
Spec == Init /\ [][Next]_vars

\* No process leaves through ~SingleInstance: they run, crash or are killed.
NextNoExit == \E p \in Procs : Start(p) \/ StartStep(p) \/ Die(p)
CrashSpec == Init /\ [][NextNoExit]_vars

\* A process that is being killed dies (SIGKILL after 50 signals), and each
\* process goes on with its own start and its own exit.
Doomed(p) == p \notin Foreign /\ \E q \in Procs : phase[q] = "killing" /\ peer[q] = p
Fairness == \A p \in Procs : /\ WF_vars(StartStep(p))
                             /\ WF_vars(Doomed(p) /\ Die(p))
FairCrashSpec == CrashSpec /\ Fairness
FairSpec == Spec /\ Fairness /\ \A p \in Procs : WF_vars(phase[p] \in
              {"unlocked", "unlinked", "closed"} /\ ExitStep(p))

-----------------------------------------------------------------------------
\* The type invariant: whoever has the lock, or tries it, has the file open.
TypeOK ==
  /\ phase \in [Procs -> Phases] /\ peer \in [Procs -> Procs \cup {None}]
  /\ fd \in [Procs -> Inodes \cup {None}]
  /\ holder \in [Inodes -> Procs \cup {None}]
  /\ path \in Inodes \cup {None} /\ sock \in Procs \cup {None}
  /\ server \in [Procs -> {"none", "listening", "closed"}]
  /\ \A p \in Procs :
       phase[p] \in {"opened", "killing", "locked", "cleaned", "primary"}
         => fd[p] # None

\* One process at most of those that still run is primary or, having taken the
\* lock, on its way to be: whoever started at the same time and was killed for it,
\* no two of them clean the name and listen at once.
OnePrimary ==
  \A p, q \in Procs :
    {phase[p], phase[q]} \subseteq {"locked", "cleaned", "primary"} => p = q

\* A process that took the lock meets the socket of a dead instance at most,
\* whatever it raced with: listen() never fails because of one that still runs.
OnlyTheDeadKeepTheName ==
  [][\A p \in Procs : phase[p] = "cleaned" /\ phase'[p] = "failed"
       => sock # None /\ phase[sock] = "dead"]_vars

\* A primary is the one that new processes reach through the name.
PrimaryOwnsName == \A p \in Procs : phase[p] = "primary" => sock = p

\* However the starts, kills and crashes interleave, the survivors settle:
\* primary, failed, or connected to the primary.
Settled ==
  \A p \in Procs :
    /\ phase[p] \in {"off", "dead", "failed", "primary", "secondary"}
    /\ phase[p] = "secondary" => phase[peer[p]] = "primary"
Converges == <>[]Settled

\* Every start calls primary(), secondary() or fail(), unless its process ends.
StartResolves ==
  \A p \in Procs : phase[p] = "connecting" ~>
    phase[p] \in {"primary", "secondary", "failed", "unlinked", "closed", "dead"}

-----------------------------------------------------------------------------
(***************************************************************************)
(* Theorems: one primary at a time, for any number of processes, by two    *)
(* arguments.  As long as nobody unlinks the lock file, the record lock is *)
(* enough.  With clean exits it is not, and then the socket's name is,     *)
(* because CleanName() leaves it alone.                                    *)
(***************************************************************************)
Locking   == {"opened", "killing", "locked", "cleaned", "primary"}
Holding   == {"locked", "cleaned", "primary"}
Unserved  == {"off", "connecting", "secondary", "error"} \cup (Locking \ {"primary"})

-----------------------------------------------------------------------------
(* Types *)

\* Before any process starts, the types hold.
LEMMA InitType == Init => TypeOK
BY DEF Init, TypeOK, Phases

\* One lemma for Next, of which NextNoExit is a part.
LEMMA NextType == TypeOK /\ [Next]_vars => TypeOK'
<1> SUFFICES ASSUME TypeOK, [Next]_vars PROVE TypeOK'
  OBVIOUS
<1> USE ConstantsAssumption DEF TypeOK, Become, Phases
<1>1. ASSUME NEW p \in Procs, Start(p) PROVE TypeOK'
  BY <1>1 DEF Start
<1>2. ASSUME NEW p \in Procs, Connect(p) PROVE TypeOK'
  BY <1>2 DEF Connect
<1>3. ASSUME NEW p \in Procs, Disconnected(p) PROVE TypeOK'
  BY <1>3 DEF Disconnected
<1>4. ASSUME NEW p \in Procs, OpenLockFile(p) PROVE TypeOK'
  BY <1>4 DEF OpenLockFile, FreshInodes
<1>5. ASSUME NEW p \in Procs, Acquire(p) PROVE TypeOK'
  BY <1>5 DEF Acquire
<1>6. ASSUME NEW p \in Procs, KillProcess(p) PROVE TypeOK'
  BY <1>6 DEF KillProcess
<1>7. ASSUME NEW p \in Procs, CleanName(p) PROVE TypeOK'
  BY <1>7 DEF CleanName
<1>8. ASSUME NEW p \in Procs, Listen(p) PROVE TypeOK'
  BY <1>8 DEF Listen
<1>9. ASSUME NEW p \in Procs, Unlock(p) PROVE TypeOK'
  BY <1>9 DEF Unlock
<1>10. ASSUME NEW p \in Procs, Unlink(p) PROVE TypeOK'
  BY <1>10 DEF Unlink
<1>11. ASSUME NEW p \in Procs, CloseServer(p) PROVE TypeOK'
  BY <1>11 DEF CloseServer
<1>12. ASSUME NEW p \in Procs, RemoveName(p) PROVE TypeOK'
  BY <1>12 DEF RemoveName
<1>13. ASSUME NEW p \in Procs, Die(p) PROVE TypeOK'
  BY <1>13 DEF Die
<1>14. CASE UNCHANGED vars
  BY <1>14 DEF vars
<1> QED BY <1>1, <1>2, <1>3, <1>4, <1>5, <1>6, <1>7, <1>8, <1>9, <1>10, <1>11,
           <1>12, <1>13, <1>14 DEF Next, StartStep, ExitStep

\* A step without a clean exit is a step of the specification.
LEMMA NoExitIsNext == NextNoExit => Next
BY DEF NextNoExit, Next

\* Whatever processes do, also when they exit, who has the lock or tries it has
\* the lock file open, and every variable keeps its type.
THEOREM LockersHaveTheFile == Spec => []TypeOK
BY InitType, NextType, PTL DEF Spec

-----------------------------------------------------------------------------
(* The lock's argument *)

\* Everyone that opened the lock file has the inode its path still names, and
\* from locking on a process is that inode's holder.
LockInv ==
  \A p \in Procs :
    /\ phase[p] \in Locking => fd[p] = path
    /\ phase[p] \in Holding => holder[path] = p

\* Without clean exits a name belongs to a primary or to the dead.
NameInv == sock # None => phase[sock] \in {"primary", "dead"}

\* Every step but a clean exit keeps the lock's and the name's invariants.
LEMMA NextLock ==
  TypeOK /\ LockInv /\ NameInv /\ [NextNoExit]_vars => LockInv' /\ NameInv'
<1> SUFFICES ASSUME TypeOK, LockInv, NameInv, [NextNoExit]_vars
             PROVE  LockInv' /\ NameInv'
  OBVIOUS
<1> USE ConstantsAssumption DEF TypeOK, LockInv, NameInv, Become, Phases, Locking, Holding
<1>1. ASSUME NEW p \in Procs, Start(p) PROVE LockInv' /\ NameInv'
  BY <1>1 DEF Start
<1>2. ASSUME NEW p \in Procs, Connect(p) PROVE LockInv' /\ NameInv'
  BY <1>2 DEF Connect
<1>3. ASSUME NEW p \in Procs, Disconnected(p) PROVE LockInv' /\ NameInv'
  BY <1>3 DEF Disconnected
<1>4. ASSUME NEW p \in Procs, OpenLockFile(p) PROVE LockInv' /\ NameInv'
  <2>1. LockInv'
    BY <1>4 DEF OpenLockFile
  <2>2. NameInv'
    BY <1>4 DEF OpenLockFile
  <2> QED BY <2>1, <2>2
<1>5. ASSUME NEW p \in Procs, Acquire(p) PROVE LockInv' /\ NameInv'
  <2>1. LockInv'
    BY <1>5 DEF Acquire
  <2>2. NameInv'
    BY <1>5 DEF Acquire
  <2> QED BY <2>1, <2>2
<1>6. ASSUME NEW p \in Procs, KillProcess(p) PROVE LockInv' /\ NameInv'
  BY <1>6 DEF KillProcess
<1>7. ASSUME NEW p \in Procs, CleanName(p) PROVE LockInv' /\ NameInv'
  BY <1>7 DEF CleanName
<1>8. ASSUME NEW p \in Procs, Listen(p) PROVE LockInv' /\ NameInv'
  BY <1>8 DEF Listen
<1>9. ASSUME NEW p \in Procs, Die(p) PROVE LockInv' /\ NameInv'
  BY <1>9 DEF Die
<1>10. CASE UNCHANGED vars
  BY <1>10 DEF vars
<1> QED BY <1>1, <1>2, <1>3, <1>4, <1>5, <1>6, <1>7, <1>8, <1>9, <1>10
        DEF NextNoExit, StartStep

\* They hold throughout, whatever processes crash.
LEMMA LockInvariance == CrashSpec => [](TypeOK /\ LockInv /\ NameInv)
<1>1. Init => TypeOK /\ LockInv /\ NameInv
  BY InitType DEF Init, LockInv, NameInv, Locking, Holding
<1>2. TypeOK /\ LockInv /\ NameInv /\ [NextNoExit]_vars
        => (TypeOK /\ LockInv /\ NameInv)'
  BY NextLock, NextType, NoExitIsNext
<1> QED BY <1>1, <1>2, PTL DEF CrashSpec

\* Without clean exits the lock admits one process to what it protects.
THEOREM LockAdmitsOnePrimary == CrashSpec => []OnePrimary
<1>1. TypeOK /\ LockInv /\ NameInv => OnePrimary
  BY DEF LockInv, Holding, OnePrimary
<1> QED BY <1>1, LockInvariance, PTL

\* And who takes it fails to listen only where a dead instance left its socket.
THEOREM LockedNameIsTheDeads == CrashSpec => OnlyTheDeadKeepTheName
<1>1. TypeOK /\ LockInv /\ NameInv /\ [NextNoExit]_vars
        => [\A p \in Procs : phase[p] = "cleaned" /\ phase'[p] = "failed"
              => sock # None /\ phase[sock] = "dead"]_vars
  <2> SUFFICES ASSUME TypeOK, LockInv, NameInv, NextNoExit, NEW p \in Procs,
                      phase[p] = "cleaned", phase'[p] = "failed"
               PROVE  sock # None /\ phase[sock] = "dead"
    BY DEF vars
  <2>1. PICK q \in Procs : Start(q) \/ StartStep(q) \/ Die(q)
    BY DEF NextNoExit
  <2>2. q = p
    BY <2>1 DEF TypeOK, Become, Start, StartStep, Connect, Disconnected,
       OpenLockFile, Acquire, KillProcess, CleanName, Listen, Die
  <2>3. sock # None
    BY <2>1, <2>2 DEF TypeOK, Become, Start, StartStep, Connect, Disconnected,
       OpenLockFile, Acquire, KillProcess, CleanName, Listen, Die
  <2>4. phase[sock] # "primary"
    BY <2>3, ConstantsAssumption DEF TypeOK, LockInv, Holding
  <2> QED BY <2>3, <2>4 DEF NameInv
<1> QED BY <1>1, LockInvariance, PTL DEF CrashSpec, OnlyTheDeadKeepTheName

-----------------------------------------------------------------------------
(* The name's argument *)

\* The name refers to whoever listened last and has not removed it.
SockInv ==
  \A p \in Procs :
    /\ phase[p] \in Unserved => server[p] = "none"
    /\ phase[p] = "primary" => server[p] = "listening"
    /\ server[p] # "none" /\ phase[p] # "dead" => sock = p

\* Every step, clean exits included, keeps the socket's invariant.
LEMMA NextSock == TypeOK /\ SockInv /\ [Next]_vars => SockInv'
<1> SUFFICES ASSUME TypeOK, SockInv, [Next]_vars PROVE SockInv'
  OBVIOUS
<1> USE ConstantsAssumption DEF TypeOK, SockInv, Become, Phases, Unserved, Locking
<1>1. ASSUME NEW p \in Procs, Start(p) PROVE SockInv'
  BY <1>1 DEF Start
<1>2. ASSUME NEW p \in Procs, Connect(p) PROVE SockInv'
  BY <1>2 DEF Connect
<1>3. ASSUME NEW p \in Procs, Disconnected(p) PROVE SockInv'
  BY <1>3 DEF Disconnected
<1>4. ASSUME NEW p \in Procs, OpenLockFile(p) PROVE SockInv'
  BY <1>4 DEF OpenLockFile
<1>5. ASSUME NEW p \in Procs, Acquire(p) PROVE SockInv'
  BY <1>5 DEF Acquire
<1>6. ASSUME NEW p \in Procs, KillProcess(p) PROVE SockInv'
  BY <1>6 DEF KillProcess
<1>7. ASSUME NEW p \in Procs, CleanName(p) PROVE SockInv'
  BY <1>7 DEF CleanName
<1>8. ASSUME NEW p \in Procs, Listen(p) PROVE SockInv'
  BY <1>8 DEF Listen
<1>9. ASSUME NEW p \in Procs, Unlock(p) PROVE SockInv'
  BY <1>9 DEF Unlock
<1>10. ASSUME NEW p \in Procs, Unlink(p) PROVE SockInv'
  BY <1>10 DEF Unlink
<1>11. ASSUME NEW p \in Procs, CloseServer(p) PROVE SockInv'
  BY <1>11 DEF CloseServer
<1>12. ASSUME NEW p \in Procs, RemoveName(p) PROVE SockInv'
  BY <1>12 DEF RemoveName
<1>13. ASSUME NEW p \in Procs, Die(p) PROVE SockInv'
  BY <1>13 DEF Die
<1>14. CASE UNCHANGED vars
  BY <1>14 DEF vars
<1> QED BY <1>1, <1>2, <1>3, <1>4, <1>5, <1>6, <1>7, <1>8, <1>9, <1>10, <1>11,
           <1>12, <1>13, <1>14 DEF Next, StartStep, ExitStep

\* With clean exits too, a primary owns the name, so that it is the only one.
THEOREM NameAdmitsOnePrimary == Spec => []PrimaryOwnsName
<1>1. Init => TypeOK /\ SockInv
  BY InitType DEF Init, SockInv
<1>2. TypeOK /\ SockInv /\ [Next]_vars => (TypeOK /\ SockInv)'
  BY NextSock, NextType
<1>3. TypeOK /\ SockInv => PrimaryOwnsName
  BY DEF SockInv, PrimaryOwnsName
<1> QED BY <1>1, <1>2, <1>3, PTL DEF Spec
=============================================================================
