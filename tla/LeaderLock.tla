------------------------------ MODULE LeaderLock ------------------------------
(***************************************************************************)
(* One leader per machine. Clients and leader processes meet in two names   *)
(* of the file system, leader.lock and leader.sock. The lock file is held   *)
(* by flock, which follows the inode and not the name; the spawner holds it *)
(* while the leader it started binds the socket, and then hands it over.    *)
(* Each system call on a name or on the lock is a step of its own. Any      *)
(* process may die (kill or crash): the kernel frees its flock, and both    *)
(* names stay behind.                                                       *)
(***************************************************************************)
EXTENDS Integers, FiniteSets

CONSTANTS
    Clients,       \* processes that call connect_or_spawn, and reconnect
    Leaders,       \* bound: leader processes alive or remembered at one time
    NoOne,         \* neither
    ClientVersion, \* the binary version of each client
    Versions,      \* the binary versions installed at some time
    FirstRelaunch, \* the first version that understands RelaunchForUpdate
    MaxFaults,     \* bound: crashes, impatient spawners and updates
    MaxStarts      \* bound: leaders started by hand

Procs  == Clients \cup Leaders
\* One inode more than processes: each holds at most one open, and the name is another.
Inodes == 1..Cardinality(Procs) + 1

ASSUME LeaderAssumption ==
    /\ NoOne \notin Procs /\ Clients \cap Leaders = {}
    /\ IsFiniteSet(Procs)
    /\ Versions \subseteq Nat /\ ClientVersion \in [Clients -> Versions] /\ FirstRelaunch \in Nat
    /\ MaxFaults \in Nat /\ MaxStarts \in Nat

VARIABLES
    lockName,  \* the inode leader.lock names, 0 for none
    sockName,  \* the leader whose bind made leader.sock, NoOne for no file
    owner,     \* flock: the process that holds each inode locked
    pid,       \* the pid in the file leader.lock names
    pc,        \* where each process is
    fd,        \* the inode a process has open as its lock file, 0 for none
    peer,      \* the leader a client is connected to, or is evicting
    server,    \* the IPC server of each leader
    cancelled, \* leaders whose shutdown is under way
    version,   \* the binary version of each leader
    faults,    \* faults so far
    starts,    \* leaders started by hand so far
    cleaned    \* history: some process removed the lock file in its Drop

files   == <<lockName, sockName, owner, pid>>
leaderV == <<server, cancelled, version>>
ghosts  == <<faults, starts, cleaned>>
vars    == <<files, pc, fd, peer, leaderV, ghosts>>

Dead       == {"unborn", "dead"}
Alive(p)   == p # NoOne /\ pc[p] \notin Dead
Goto(p, l) == pc' = [pc EXCEPT ![p] = l]
\* should_evict
Older(l, c) == version[l] < ClientVersion[c]

\* A connect and registration at leader.sock would succeed.
Reachable == sockName # NoOne /\ server[sockName] = "on"

\* A server that has not tried to bind yet.
Binding == {"starting", "binding"}

Fault == faults < MaxFaults /\ faults' = faults + 1

-----------------------------------------------------------------------------
(* LeaderLock. *)

FreeInode == CHOOSE i \in Inodes : i # lockName /\ \A p \in Procs : fd[p] # i

\* Mutant: every open makes a file of its own.
OpenNewFile(p) ==
    /\ lockName' = lockName + 1
    /\ fd' = [fd EXCEPT ![p] = lockName + 1]

\* open_lock_file: the inode the name has, or a new empty one.
OpenLockFile(p) ==
    LET i == IF lockName = 0 THEN FreeInode ELSE lockName
    IN  /\ lockName' = i
        /\ fd' = [fd EXCEPT ![p] = i]

Holds(p) == fd[p] # 0 /\ owner[fd[p]] = p

\* Closing the file frees the flock.
Closed(p, own) == [i \in Inodes |-> IF own[i] = p THEN NoOne ELSE own[i]]

\* try_acquire, behind its open: flock without waiting, close on contention.
TryLock(p, won, lost) ==
    IF owner[fd[p]] = NoOne
    THEN /\ owner' = [owner EXCEPT ![fd[p]] = p]
         /\ Goto(p, won)
         /\ UNCHANGED fd
    ELSE /\ fd' = [fd EXCEPT ![p] = 0]
         /\ Goto(p, lost)
         /\ UNCHANGED owner

\* release: unlock and close; Drop will clean nothing up.
Release(p) == /\ owner' = Closed(p, owner)
              /\ fd' = [fd EXCEPT ![p] = 0]

\* Drop while was_leader: the names go first, whatever they name by now.
DropUnlinksLock(p) ==
    /\ pc[p] = "drop"
    /\ lockName' = 0
    /\ pid' = NoOne
    /\ cleaned' = TRUE
    /\ Goto(p, "dropSocket")
    /\ UNCHANGED <<sockName, owner, fd, peer, leaderV, faults, starts>>

DropUnlinksSocket(p) ==
    /\ pc[p] = "dropSocket"
    /\ sockName' = NoOne
    /\ Release(p)
    /\ Goto(p, IF p \in Clients THEN "fast" ELSE "dead")
    /\ server' = IF p \in Leaders THEN [server EXCEPT ![p] = "off"] ELSE server
    /\ UNCHANGED <<lockName, pid, peer, cancelled, version, ghosts>>

-----------------------------------------------------------------------------
(* Death of a process: everything the kernel takes back. *)

\* The processes P die, and p goes on at label `to`.
KillWhile(P, p, to) ==
    /\ pc' = [q \in Procs |-> IF q \in P THEN "dead" ELSE IF q = p THEN to ELSE pc[q]]
    /\ fd' = [q \in Procs |-> IF q \in P THEN 0 ELSE fd[q]]
    /\ owner' = [i \in Inodes |-> IF owner[i] \in P THEN NoOne ELSE owner[i]]
    /\ server' = [l \in Leaders |-> IF l \in P THEN "off" ELSE server[l]]
    /\ peer' = [c \in Clients |-> IF c \in P \cup {p} THEN NoOne ELSE peer[c]]

Crash(p) ==
    /\ Alive(p) /\ Fault
    /\ KillWhile({p}, p, "dead")
    /\ UNCHANGED <<lockName, sockName, pid, cancelled, version, starts, cleaned>>

-----------------------------------------------------------------------------
(* connect_or_spawn. *)

Adopt(c, l) == peer' = [peer EXCEPT ![c] = l]

\* The fast path: a socket, and a pid that is not known to be dead.
FastPath(c) ==
    /\ pc[c] = "fast"
    /\ IF /\ Reachable /\ ~Older(sockName, c)
          /\ pid = NoOne \/ Alive(pid)
       THEN Adopt(c, sockName) /\ Goto(c, "connected")
       ELSE Goto(c, "loop") /\ UNCHANGED peer
    /\ UNCHANGED <<files, fd, leaderV, ghosts>>

TryOpen(c) ==
    /\ pc[c] = "loop"
    /\ OpenLockFile(c)
    /\ Goto(c, "opened")
    /\ UNCHANGED <<sockName, owner, pid, peer, leaderV, ghosts>>

TryAcquire(c) ==
    /\ pc[c] = "opened"
    /\ TryLock(c, "locked", "wait")
    /\ UNCHANGED <<lockName, sockName, pid, peer, leaderV, ghosts>>

\* request_leader_vacate: RelaunchForUpdate to the leader at the other end of the socket,
\* or a signal to the pid in the lock file.
RequestVacate(c, to) ==
    IF version[sockName] >= FirstRelaunch
    THEN /\ cancelled' = cancelled \cup {sockName}
         /\ Goto(c, to)
         /\ peer' = [peer EXCEPT ![c] = IF to = "evicting" THEN pid ELSE NoOne]
         /\ UNCHANGED <<owner, fd, server>>
    ELSE KillWhile({pid} \cap Leaders, c, IF to = "evicting" THEN "cleanup" ELSE to)
         /\ UNCHANGED cancelled

\* With the lock in hand: adopt what a sibling spawned, evict it, or spawn.
AdoptSibling(c) ==
    /\ pc[c] = "locked"
    /\ Reachable /\ Alive(pid) /\ ~Older(sockName, c)
    /\ Release(c)
    /\ Adopt(c, sockName)
    /\ Goto(c, "connected")
    /\ UNCHANGED <<lockName, sockName, pid, leaderV, ghosts>>

EvictLeader(c) ==
    /\ pc[c] = "locked"
    /\ Reachable /\ Alive(pid) /\ Older(sockName, c)
    /\ RequestVacate(c, "evicting")
    /\ UNCHANGED <<lockName, sockName, pid, version, ghosts>>

\* wait_for_pid_exit, and the kill when the leader overruns EVICT_WAIT_TIMEOUT.
Evicted(c) ==
    /\ pc[c] = "evicting"
    /\ KillWhile({peer[c]}, c, "cleanup")
    /\ UNCHANGED <<lockName, sockName, pid, cancelled, version, ghosts>>

NothingToAdopt(c) ==
    /\ pc[c] = "locked"
    /\ ~(Reachable /\ Alive(pid))
    /\ Goto(c, "cleanup")
    /\ UNCHANGED <<files, fd, peer, leaderV, ghosts>>

CleanupSocket(c) ==
    /\ pc[c] = "cleanup"
    /\ sockName' = NoOne
    /\ Goto(c, "spawn")
    /\ UNCHANGED <<lockName, owner, pid, fd, peer, leaderV, ghosts>>

\* A process not born yet; one that died may come back under a pid nobody knows.
Fresh(l) == /\ pc[l] \in Dead
            /\ sockName # l /\ pid # l
            /\ \A c \in Clients : pc[c] \in {"connected", "evicting"} => peer[c] # l

\* A new process runs one of the binaries vs.
Born(l, vs) == /\ cancelled' = cancelled \ {l}
               /\ \E v \in vs : version' = [version EXCEPT ![l] = v]

\* resolve_exe_for_spawn: the client's own binary, or the newer one installed since.
SpawnLeader(c) ==
    /\ pc[c] = "spawn"
    /\ \E l \in Leaders : /\ Fresh(l)
                          /\ pc' = [pc EXCEPT ![c] = "spawned", ![l] = "born"]
                          /\ Born(l, {v \in Versions : v >= ClientVersion[c]})
    /\ UNCHANGED <<files, fd, peer, server, ghosts>>

\* The process cannot be started: the error drops the lock, with its files.
SpawnFails(c) ==
    /\ pc[c] = "spawn"
    /\ \A l \in Leaders : ~Fresh(l)
    /\ Goto(c, "drop")
    /\ UNCHANGED <<files, fd, peer, leaderV, ghosts>>

\* Mutant: the spawner keeps the lock it should hand over.
HandOverNothing(c) ==
    /\ pc[c] = "spawned"
    /\ sockName # NoOne
    /\ Goto(c, "handed")
    /\ UNCHANGED <<files, fd, peer, leaderV, ghosts>>

\* wait_for_listener_ready only looks whether the socket file exists.
HandOver(c) ==
    /\ pc[c] = "spawned"
    /\ sockName # NoOne
    /\ Release(c)
    /\ Goto(c, "handed")
    /\ UNCHANGED <<lockName, sockName, pid, peer, leaderV, ghosts>>

\* SPAWN_WAIT_TIMEOUT: the error drops the lock, with its files.
SpawnTimeout(c) ==
    /\ pc[c] = "spawned" /\ Fault
    /\ Goto(c, "drop")
    /\ UNCHANGED <<files, fd, peer, leaderV, starts, cleaned>>

\* Nobody is left to bind the socket.
SpawnNeverReady(c) ==
    /\ pc[c] = "spawned" /\ sockName = NoOne
    /\ \A l \in Leaders : pc[l] \notin {"born", "tryLock", "writePid", "check", "clean"}
                         /\ server[l] \notin Binding
    /\ Goto(c, "drop")
    /\ UNCHANGED <<files, fd, peer, leaderV, ghosts>>

\* The first connect to the new leader; an error goes to the reconnect loop.
ConnectSpawned(c) ==
    /\ pc[c] = "handed"
    /\ IF Reachable THEN Adopt(c, sockName) /\ Goto(c, "connected")
                    ELSE Goto(c, "fast") /\ UNCHANGED peer
    /\ UNCHANGED <<files, fd, leaderV, ghosts>>

\* wait_for_socket_connectable, while another process holds the lock.
WaitConnects(c) ==
    /\ pc[c] = "wait"
    /\ Reachable /\ ~Older(sockName, c)
    /\ Adopt(c, sockName)
    /\ Goto(c, "connected")
    /\ UNCHANGED <<files, fd, leaderV, ghosts>>

WaitVacates(c) ==
    /\ pc[c] = "wait"
    /\ Reachable /\ Older(sockName, c)
    /\ RequestVacate(c, "loop")
    /\ UNCHANGED <<lockName, sockName, pid, version, ghosts>>

\* The wait times out, or its last connect failed.
WaitFails(c) ==
    /\ pc[c] = "wait" /\ ~Reachable
    /\ Goto(c, IF sockName = NoOne THEN "loop" ELSE "fast")
    /\ UNCHANGED <<files, fd, peer, leaderV, ghosts>>

\* A connection ends with the leader's server, or with the leader.
Disconnected(c) ==
    /\ pc[c] = "connected"
    /\ server[peer[c]] # "on"
    /\ peer' = [peer EXCEPT ![c] = NoOne]
    /\ Goto(c, "fast")
    /\ UNCHANGED <<files, fd, leaderV, ghosts>>

-----------------------------------------------------------------------------
(* run_leader. *)

LeaderOpen(l) ==
    /\ pc[l] = "born"
    /\ OpenLockFile(l)
    /\ Goto(l, "tryLock")
    /\ UNCHANGED <<sockName, owner, pid, peer, leaderV, ghosts>>

LeaderTryAcquire(l) ==
    /\ pc[l] = "tryLock"
    /\ TryLock(l, "writePid", "check")
    /\ UNCHANGED <<lockName, sockName, pid, peer, leaderV, ghosts>>

\* Before the socket is bound, or after the handover.
WritePid(l) ==
    /\ pc[l] = "writePid"
    /\ pid' = IF fd[l] = lockName THEN l ELSE pid
    /\ Goto(l, IF server[l] = "off" THEN "clean" ELSE "leading")
    /\ UNCHANGED <<lockName, sockName, owner, fd, peer, leaderV, ghosts>>

\* Lock held and socket there: another leader is running.
CheckListener(l) ==
    /\ pc[l] = "check"
    /\ Goto(l, IF sockName # NoOne THEN "dead" ELSE "clean")
    /\ UNCHANGED <<files, fd, peer, leaderV, ghosts>>

LeaderCleanup(l) ==
    /\ pc[l] = "clean"
    /\ sockName' = NoOne
    /\ server' = [server EXCEPT ![l] = "starting"]
    /\ Goto(l, "binding")
    /\ UNCHANGED <<lockName, owner, pid, fd, peer, cancelled, version, ghosts>>

\* run_leader_server, a task of its own, removes the socket file once more ...
ServerRemoves(l) ==
    /\ server[l] = "starting"
    /\ sockName' = NoOne
    /\ server' = [server EXCEPT ![l] = "binding"]
    /\ UNCHANGED <<lockName, owner, pid, pc, fd, peer, cancelled, version, ghosts>>

\* ... and binds. When another leader has bound in between, the bind fails and the task ends;
\* run_leader sees a socket and goes on.
Bind(l) ==
    /\ server[l] = "binding"
    /\ IF sockName = NoOne THEN sockName' = l /\ server' = [server EXCEPT ![l] = "on"]
                           ELSE server' = [server EXCEPT ![l] = "gone"] /\ UNCHANGED sockName
    /\ UNCHANGED <<lockName, owner, pid, pc, fd, peer, cancelled, version, ghosts>>

\* The socket exists, anybody's; without the lock the file is opened once, to poll it.
SocketSeen(l) ==
    /\ pc[l] = "binding"
    /\ sockName # NoOne
    /\ IF Holds(l) THEN Goto(l, "leading") /\ UNCHANGED <<lockName, fd>>
                   ELSE Goto(l, "poll") /\ OpenLockFile(l)
    /\ UNCHANGED <<sockName, owner, pid, peer, leaderV, ghosts>>

\* Five seconds without one, in which the server task has run.
SocketNeverSeen(l) ==
    /\ pc[l] = "binding"
    /\ sockName = NoOne /\ server[l] \notin Binding
    /\ IF Holds(l) THEN Goto(l, "drop") /\ UNCHANGED server
                   ELSE Goto(l, "dead") /\ server' = [server EXCEPT ![l] = "off"]
    /\ UNCHANGED <<files, fd, peer, cancelled, version, ghosts>>

\* Mutant: the poll takes over a lock that another leader holds.
PollSteals(l) ==
    /\ pc[l] = "poll"
    /\ owner' = [owner EXCEPT ![fd[l]] = l]
    /\ Goto(l, "writePid")
    /\ UNCHANGED <<lockName, sockName, pid, fd, peer, leaderV, ghosts>>

\* Mutant: the poll counts any answer of the lock as an acquisition.
PollTrusts(l) ==
    /\ pc[l] = "poll"
    /\ Goto(l, "writePid")
    /\ UNCHANGED <<files, fd, peer, leaderV, ghosts>>

Poll(l) ==
    /\ pc[l] = "poll"
    /\ owner[fd[l]] = NoOne
    /\ owner' = [owner EXCEPT ![fd[l]] = l]
    /\ Goto(l, "writePid")
    /\ UNCHANGED <<lockName, sockName, pid, fd, peer, leaderV, ghosts>>

\* Mutant: the lock is awaited without a deadline.
PollForEver(l) == FALSE /\ UNCHANGED vars

\* LEADER_LOCK_TIMEOUT, whoever holds the lock. The server may or may not get to remove the socket.
PollTimeout(l) ==
    /\ pc[l] = "poll"
    /\ owner[fd[l]] # NoOne
    /\ Goto(l, "dead")
    /\ fd' = [fd EXCEPT ![l] = 0]
    /\ server' = [server EXCEPT ![l] = "off"]
    /\ sockName' \in {sockName, NoOne}
    /\ UNCHANGED <<lockName, owner, pid, peer, cancelled, version, ghosts>>

\* The auto-update checker of a leader.
UpdateFound(l) ==
    /\ pc[l] = "leading" /\ l \notin cancelled /\ Fault
    /\ cancelled' = cancelled \cup {l}
    /\ UNCHANGED <<files, pc, fd, peer, server, version, starts, cleaned>>

ServerCloses(l) ==
    /\ l \in cancelled /\ server[l] = "on"
    /\ server' = [server EXCEPT ![l] = "closing"]
    /\ UNCHANGED <<files, pc, fd, peer, cancelled, version, ghosts>>

\* After its finalization the server removes the socket file.
ServerUnlinks(l) ==
    /\ server[l] = "closing"
    /\ server' = [server EXCEPT ![l] = "gone"]
    /\ sockName' = NoOne
    /\ UNCHANGED <<lockName, owner, pid, pc, fd, peer, cancelled, version, ghosts>>

\* Two seconds after the server stopped or the token fired, run_leader returns.
LeaderReturns(l) ==
    /\ pc[l] = "leading" /\ (l \in cancelled \/ server[l] = "gone")
    /\ Goto(l, "drop")
    /\ UNCHANGED <<files, fd, peer, leaderV, ghosts>>

StartByHand(l) ==
    /\ Fresh(l) /\ starts < MaxStarts
    /\ starts' = starts + 1
    /\ Goto(l, "born")
    /\ Born(l, Versions)
    /\ UNCHANGED <<files, fd, peer, server, faults, cleaned>>

-----------------------------------------------------------------------------
ClientStep(c) ==
    \/ FastPath(c) \/ TryOpen(c) \/ TryAcquire(c)
    \/ AdoptSibling(c) \/ EvictLeader(c) \/ Evicted(c) \/ NothingToAdopt(c)
    \/ CleanupSocket(c) \/ SpawnLeader(c) \/ SpawnFails(c) \/ HandOver(c) \/ SpawnNeverReady(c) \/ ConnectSpawned(c)
    \/ WaitConnects(c) \/ WaitVacates(c) \/ WaitFails(c) \/ Disconnected(c)
    \/ DropUnlinksLock(c) \/ DropUnlinksSocket(c)

LeaderStep(l) ==
    \/ LeaderOpen(l) \/ LeaderTryAcquire(l) \/ WritePid(l) \/ CheckListener(l)
    \/ LeaderCleanup(l) \/ SocketSeen(l) \/ SocketNeverSeen(l) \/ Poll(l) \/ PollTimeout(l)
    \/ LeaderReturns(l) \/ DropUnlinksLock(l) \/ DropUnlinksSocket(l)

ServerStep(l) == ServerRemoves(l) \/ Bind(l) \/ ServerCloses(l) \/ ServerUnlinks(l)

Faults ==
    \/ \E p \in Procs : Crash(p)
    \/ \E c \in Clients : SpawnTimeout(c)
    \/ \E l \in Leaders : UpdateFound(l) \/ StartByHand(l)

Init ==
    /\ lockName = 0 /\ sockName = NoOne
    /\ owner = [i \in Inodes |-> NoOne] /\ pid = NoOne
    /\ pc = [p \in Procs |-> IF p \in Clients THEN "fast" ELSE "unborn"]
    /\ fd = [p \in Procs |-> 0]
    /\ peer = [c \in Clients |-> NoOne]
    /\ server = [l \in Leaders |-> "off"]
    /\ cancelled = {} /\ version = [l \in Leaders |-> 0]
    /\ faults = 0 /\ starts = 0 /\ cleaned = FALSE

Next ==
    \/ \E c \in Clients : ClientStep(c)
    \/ \E l \in Leaders : LeaderStep(l) \/ ServerStep(l)
    \/ Faults

Fairness == /\ \A c \in Clients : WF_vars(ClientStep(c))
            /\ \A l \in Leaders : WF_vars(LeaderStep(l)) /\ WF_vars(ServerStep(l))

Spec     == Init /\ [][Next]_vars
FairSpec == Spec /\ Fairness

-----------------------------------------------------------------------------
(* Properties. *)

ClientLabels == {"fast", "loop", "opened", "locked", "evicting", "cleanup", "spawn", "spawned",
                 "handed", "wait", "connected", "drop", "dropSocket", "dead"}
Startup      == {"born", "tryLock", "check", "writePid", "clean", "binding", "poll"}

TypeOK ==
    /\ lockName \in {0} \cup Inodes /\ sockName \in Leaders \cup {NoOne}
    /\ owner \in [Inodes -> Procs \cup {NoOne}] /\ pid \in Leaders \cup {NoOne}
    /\ pc \in [Procs -> ClientLabels \cup Startup \cup {"unborn", "leading"}]
    /\ fd \in [Procs -> {0} \cup Inodes]
    /\ peer \in [Clients -> Leaders \cup {NoOne}]
    /\ server \in [Leaders -> {"off", "on", "closing", "gone"} \cup Binding]
    /\ cancelled \subseteq Leaders /\ version \in [Leaders -> {0} \cup Versions]
    /\ faults \in 0..MaxFaults /\ starts \in 0..MaxStarts /\ cleaned \in BOOLEAN

(***************************************************************************)
(* A leader that got through its startup holds an exclusive lock for its    *)
(* entire lifetime: no release, drop, crash or kill of another takes it.    *)
(***************************************************************************)
LeaderHoldsLock == \A l \in Leaders : pc[l] = "leading" => Holds(l)

(***************************************************************************)
(* Two leaders lead at once only after some process dropped its lock with   *)
(* the files: the name then stands for another inode than the one held.     *)
(***************************************************************************)
SplitOnlyAfterCleanup ==
    cleaned \/ \A l, m \in Leaders : (pc[l] = "leading" /\ pc[m] = "leading") => l = m

(***************************************************************************)
(* A client never keeps the lock: it hands over, adopts, gives up or dies,  *)
(* whatever becomes of the leader it evicts or waits for.                   *)
(***************************************************************************)
ClientLetsGo == \A c \in Clients : Holds(c) ~> ~Holds(c)

(***************************************************************************)
(* A leader process comes to an end of its startup: it leads, or it is      *)
(* gone. No duplicate stays behind to wait for the lock of the first.       *)
(***************************************************************************)
StartupEnds == \A l \in Leaders : (pc[l] \in Startup) ~> (pc[l] \notin Startup)

\* Stated by the module comment of leader/mod.rs: one leader per machine, which manages the
\* agent state while multiple clients communicate with it.
OneLeaderServes ==
    \A c, d \in Clients :
        (/\ pc[c] = "connected" /\ server[peer[c]] = "on"
         /\ pc[d] = "connected" /\ server[peer[d]] = "on") => peer[c] = peer[d]
================================================================================
