--------------------------- MODULE LeaderLock_proofs ---------------------------
(* Proofs about LeaderLock for any number of clients and leaders. *)
EXTENDS LeaderLock, FiniteSetTheorems, FunctionTheorems, TLAPS

\* Where a process has the lock file open: with the lock, without it yet, or with it if at all.
Holding == {"locked", "evicting", "cleanup", "spawn", "spawned", "drop", "dropSocket", "writePid", "leading"}
Asking  == {"opened", "tryLock", "poll"}
Maybe   == {"clean", "binding"}

\* Only the process that has an inode open owns it.
OwnerInv == \A i \in Inodes : owner[i] # NoOne => fd[owner[i]] = i

\* What the label of a process says of its lock.
LabelInv ==
    \A p \in Procs :
        /\ pc[p] \in Holding => Holds(p)
        /\ pc[p] \in Asking  => fd[p] # 0 /\ ~Holds(p)
        /\ pc[p] \in Maybe   => fd[p] = 0 \/ Holds(p)
        /\ pc[p] \notin Holding \cup Asking \cup Maybe => fd[p] = 0

\* Until somebody cleans up, what is open is what the name stands for.
NameInv == ~cleaned => \A p \in Procs : fd[p] \in {0, lockName}

LockInv == OwnerInv /\ LabelInv /\ NameInv

-----------------------------------------------------------------------------
(* Types. *)

\* There are more inodes than processes: a new file always finds one that nobody has open.
LEMMA FreeInodeExists ==
    ASSUME fd \in [Procs -> {0} \cup Inodes], lockName = 0
    PROVE  FreeInode \in Inodes /\ \A p \in Procs : fd[p] # FreeInode
<1> DEFINE n == Cardinality(Procs)
           open == {fd[p] : p \in Procs}
<1>1. IsFiniteSet(Procs) /\ n \in Nat
  BY LeaderAssumption, FS_CardinalityType
<1>2. fd \in Surjection(Procs, open)
  BY DEF Surjection
<1>3. IsFiniteSet(open) /\ Cardinality(open) <= n
  BY <1>1, <1>2, FS_Surjection
<1>4. Cardinality(Inodes) = n + 1
  <2>1. Cardinality(1 .. n + 1) = n + 1
    BY <1>1, FS_Interval, SMT
  <2> QED
    BY <2>1 DEF Inodes
<1>5. ~(Inodes \subseteq open)
  <2>1. Inodes \subseteq open => Cardinality(Inodes) <= Cardinality(open)
    BY <1>3, FS_Subset
  <2>2. Cardinality(open) \in Nat
    BY <1>3, FS_CardinalityType
  <2> HIDE DEF n, open
  <2> QED
    BY <1>1, <1>3, <1>4, <2>1, <2>2
<1>6. \E i \in Inodes : i # lockName /\ \A p \in Procs : fd[p] # i
  BY <1>1, <1>5 DEF Inodes
<1> QED
  BY <1>6 DEF FreeInode

\* open_lock_file: the process has the inode the name stands for, an old one or a new one.
LEMMA OpenLockFileType ==
    ASSUME TypeOK, NEW p \in Procs, OpenLockFile(p)
    PROVE  /\ lockName' \in Inodes
           /\ fd' = [fd EXCEPT ![p] = lockName']
           /\ fd' \in [Procs -> {0} \cup Inodes]
           /\ lockName # 0 => lockName' = lockName
<1>1. CASE lockName = 0
  BY <1>1, FreeInodeExists DEF TypeOK, OpenLockFile
<1>2. CASE lockName # 0
  BY <1>2 DEF TypeOK, OpenLockFile
<1> QED
  BY <1>1, <1>2

LEMMA InodesAreNumbers == Inodes \subseteq Nat /\ 0 \notin Inodes
BY LeaderAssumption, FS_CardinalityType DEF Inodes

\* KillWhile keeps the types: the dead are dead, the one that goes on is at a label.
LEMMA KillType ==
    ASSUME TypeOK, NEW P, NEW p \in Procs, NEW to \in ClientLabels, KillWhile(P, p, to)
    PROVE  /\ pc' \in [Procs -> ClientLabels \cup Startup \cup {"unborn", "leading"}]
           /\ fd' \in [Procs -> {0} \cup Inodes]
           /\ owner' \in [Inodes -> Procs \cup {NoOne}]
           /\ server' \in [Leaders -> {"off", "on", "closing", "gone"} \cup Binding]
           /\ peer' \in [Clients -> Leaders \cup {NoOne}]
<1>1. pc' \in [Procs -> ClientLabels \cup Startup \cup {"unborn", "leading"}]
  BY DEF TypeOK, KillWhile, ClientLabels
<1>2. fd' \in [Procs -> {0} \cup Inodes] /\ owner' \in [Inodes -> Procs \cup {NoOne}]
  BY DEF TypeOK, KillWhile
<1>3. server' \in [Leaders -> {"off", "on", "closing", "gone"} \cup Binding] /\ peer' \in [Clients -> Leaders \cup {NoOne}]
  BY DEF TypeOK, KillWhile
<1> QED
  BY <1>1, <1>2, <1>3

\* A request to vacate asks the leader at the socket, or kills the pid in the file.
LEMMA RequestVacateType ==
    ASSUME TypeOK, NEW c \in Clients, NEW to \in {"evicting", "loop"}, Reachable, RequestVacate(c, to)
    PROVE  /\ pc' \in [Procs -> ClientLabels \cup Startup \cup {"unborn", "leading"}]
           /\ fd' \in [Procs -> {0} \cup Inodes]
           /\ owner' \in [Inodes -> Procs \cup {NoOne}]
           /\ server' \in [Leaders -> {"off", "on", "closing", "gone"} \cup Binding]
           /\ peer' \in [Clients -> Leaders \cup {NoOne}]
           /\ cancelled' \subseteq Leaders
<1>1. CASE version[sockName] >= FirstRelaunch
  BY <1>1 DEF TypeOK, RequestVacate, Reachable, Goto, ClientLabels, Procs
<1>2. CASE ~(version[sockName] >= FirstRelaunch)
  <2>1. c \in Procs /\ (IF to = "evicting" THEN "cleanup" ELSE to) \in ClientLabels
    BY DEF Procs, ClientLabels
  <2>2. /\ KillWhile({pid} \cap Leaders, c, IF to = "evicting" THEN "cleanup" ELSE to)
        /\ UNCHANGED cancelled
    BY <1>2 DEF RequestVacate
  <2> QED
    BY <2>1, <2>2, KillType DEF TypeOK
<1> QED
  BY <1>1, <1>2

\* Every variable of the model keeps its type (lock.rs, mod.rs connect_or_spawn and run_leader).
THEOREM TypeCorrect == Spec => []TypeOK
<1>1. Init => TypeOK
  <2> SUFFICES ASSUME Init PROVE TypeOK
    OBVIOUS
  <2>1. pc \in [Procs -> ClientLabels \cup Startup \cup {"unborn", "leading"}]
    BY DEF Init, ClientLabels
  <2>2. faults \in 0 .. MaxFaults /\ starts \in 0 .. MaxStarts
    BY LeaderAssumption DEF Init
  <2> QED
    BY <2>1, <2>2 DEF Init, TypeOK
<1>2. TypeOK /\ [Next]_vars => TypeOK'
  <2> SUFFICES ASSUME TypeOK, [Next]_vars
               PROVE  TypeOK'
    OBVIOUS
  <2>p. Clients \subseteq Procs /\ Leaders \subseteq Procs
    BY DEF Procs
  <2> USE DEF files, leaderV, ghosts, Goto, Fault
  <2>1. ASSUME NEW c \in Clients, ClientStep(c)
        PROVE  TypeOK'
    <3> USE DEF ClientLabels
    <3>1. CASE FastPath(c)
      BY <2>p, <3>1 DEF TypeOK, FastPath, Adopt, Reachable
    <3>2. CASE TryOpen(c)
      BY <2>p, <3>2, OpenLockFileType DEF TypeOK, TryOpen
    <3>3. CASE TryAcquire(c)
      BY <2>p, <3>3 DEF TypeOK, TryAcquire, TryLock
    <3>4. CASE AdoptSibling(c)
      BY <2>p, <3>4 DEF TypeOK, AdoptSibling, Release, Closed, Adopt, Reachable
    <3>5. CASE EvictLeader(c)
      BY <3>5, RequestVacateType DEF TypeOK, EvictLeader
    <3>6. CASE Evicted(c)
      BY <2>p, <3>6, KillType DEF TypeOK, Evicted
    <3>7. CASE NothingToAdopt(c)
      BY <2>p, <3>7 DEF TypeOK, NothingToAdopt
    <3>8. CASE CleanupSocket(c)
      BY <2>p, <3>8 DEF TypeOK, CleanupSocket
    <3>9. CASE SpawnLeader(c)
      <4>1. PICK l \in Leaders : /\ pc' = [pc EXCEPT ![c] = "spawned", ![l] = "born"]
                                 /\ Born(l, {v \in Versions : v >= ClientVersion[c]})
        BY <3>9 DEF SpawnLeader
      <4>2. pc' \in [Procs -> ClientLabels \cup Startup \cup {"unborn", "leading"}]
        BY <2>p, <4>1 DEF TypeOK, Startup
      <4>3. cancelled' \subseteq Leaders /\ version' \in [Leaders -> {0} \cup Versions]
        BY <4>1 DEF TypeOK, Born
      <4> QED
        BY <3>9, <4>2, <4>3 DEF TypeOK, SpawnLeader
    <3>10. CASE SpawnFails(c)
      BY <2>p, <3>10 DEF TypeOK, SpawnFails
    <3>11. CASE HandOver(c)
      BY <2>p, <3>11 DEF TypeOK, HandOver, Release, Closed
    <3>12. CASE SpawnNeverReady(c)
      BY <2>p, <3>12 DEF TypeOK, SpawnNeverReady
    <3>13. CASE ConnectSpawned(c)
      BY <2>p, <3>13 DEF TypeOK, ConnectSpawned, Adopt, Reachable
    <3>14. CASE WaitConnects(c)
      BY <2>p, <3>14 DEF TypeOK, WaitConnects, Adopt, Reachable
    <3>15. CASE WaitVacates(c)
      BY <3>15, RequestVacateType DEF TypeOK, WaitVacates
    <3>16. CASE WaitFails(c)
      BY <2>p, <3>16 DEF TypeOK, WaitFails
    <3>17. CASE Disconnected(c)
      BY <2>p, <3>17 DEF TypeOK, Disconnected
    <3>18. CASE DropUnlinksLock(c)
      BY <2>p, <3>18 DEF TypeOK, DropUnlinksLock
    <3>19. CASE DropUnlinksSocket(c)
      BY <2>p, <3>19 DEF TypeOK, DropUnlinksSocket, Release, Closed
    <3> QED
      BY <2>1, <3>1, <3>2, <3>3, <3>4, <3>5, <3>6, <3>7, <3>8, <3>9, <3>10, <3>11, <3>12, <3>13,
         <3>14, <3>15, <3>16, <3>17, <3>18, <3>19 DEF ClientStep
  <2>2. ASSUME NEW l \in Leaders, LeaderStep(l)
        PROVE  TypeOK'
    <3> USE DEF Startup, ClientLabels
    <3>1. CASE LeaderOpen(l)
      BY <2>p, <3>1, OpenLockFileType DEF TypeOK, LeaderOpen
    <3>2. CASE LeaderTryAcquire(l)
      BY <2>p, <3>2 DEF TypeOK, LeaderTryAcquire, TryLock
    <3>3. CASE WritePid(l)
      BY <2>p, <3>3 DEF TypeOK, WritePid
    <3>4. CASE CheckListener(l)
      BY <2>p, <3>4 DEF TypeOK, CheckListener
    <3>5. CASE LeaderCleanup(l)
      BY <2>p, <3>5 DEF TypeOK, LeaderCleanup, Binding
    <3>7. CASE SocketSeen(l)
      BY <2>p, <3>7, OpenLockFileType DEF TypeOK, SocketSeen
    <3>8. CASE SocketNeverSeen(l)
      BY <2>p, <3>8 DEF TypeOK, SocketNeverSeen
    <3>9. CASE Poll(l)
      BY <2>p, <3>9 DEF TypeOK, Poll
    <3>10. CASE PollTimeout(l)
      BY <2>p, <3>10 DEF TypeOK, PollTimeout
    <3>11. CASE LeaderReturns(l)
      BY <2>p, <3>11 DEF TypeOK, LeaderReturns
    <3>12. CASE DropUnlinksLock(l)
      BY <2>p, <3>12 DEF TypeOK, DropUnlinksLock
    <3>13. CASE DropUnlinksSocket(l)
      BY <2>p, <3>13 DEF TypeOK, DropUnlinksSocket, Release, Closed
    <3> QED
      BY <2>2, <3>1, <3>2, <3>3, <3>4, <3>5, <3>7, <3>8, <3>9, <3>10, <3>11, <3>12, <3>13
         DEF LeaderStep
  <2>3. ASSUME NEW l \in Leaders, ServerStep(l)
        PROVE  TypeOK'
    BY <2>3 DEF TypeOK, ServerStep, ServerRemoves, Bind, Binding, ServerCloses, ServerUnlinks
  <2>4. CASE Faults
    <3>1. ASSUME NEW p \in Procs, Crash(p)
          PROVE  TypeOK'
      <4>1. faults' \in 0 .. MaxFaults
        BY <3>1, LeaderAssumption DEF TypeOK, Crash
      <4> QED
        BY <3>1, <4>1, KillType DEF TypeOK, Crash, ClientLabels
    <3>2. ASSUME NEW c \in Clients, SpawnTimeout(c)
          PROVE  TypeOK'
      BY <2>p, <3>2, LeaderAssumption DEF TypeOK, SpawnTimeout, ClientLabels
    <3>3. ASSUME NEW l \in Leaders, UpdateFound(l)
          PROVE  TypeOK'
      BY <3>3, LeaderAssumption DEF TypeOK, UpdateFound
    <3>4. ASSUME NEW l \in Leaders, StartByHand(l)
          PROVE  TypeOK'
      <4>1. cancelled' \subseteq Leaders /\ version' \in [Leaders -> {0} \cup Versions]
        BY <3>4 DEF TypeOK, StartByHand, Born
      <4> QED
        BY <2>p, <3>4, <4>1, LeaderAssumption DEF TypeOK, StartByHand, Startup
    <3> QED
      BY <2>4, <3>1, <3>2, <3>3, <3>4 DEF Faults
  <2>5. CASE UNCHANGED vars
    BY <2>5 DEF TypeOK, vars
  <2> QED
    BY <2>1, <2>2, <2>3, <2>4, <2>5 DEF Next
<1> QED
  BY <1>1, <1>2, PTL DEF Spec
-----------------------------------------------------------------------------
(* The lock. *)

\* A process that goes from one label to another and leaves files and locks alone.
LEMMA LabelChange ==
    ASSUME TypeOK, LockInv, UNCHANGED <<owner, fd>>,
           cleaned' \in {cleaned, TRUE}, lockName' = lockName \/ cleaned',
           \A p \in Procs : \/ pc'[p] = pc[p]
                            \/ pc[p] \in Holding /\ pc'[p] \in Holding
                            \/ pc[p] \in Holding \cup Maybe /\ pc'[p] \in Maybe
                            \/ pc[p] \in Maybe /\ pc'[p] \in Holding /\ Holds(p)
                            \/ pc'[p] \notin Holding \cup Asking /\ fd[p] = 0
    PROVE  LockInv'
<1>1. OwnerInv' /\ NameInv'
  BY DEF LockInv, OwnerInv, NameInv
<1>2. LabelInv'
  BY DEF LockInv, LabelInv, Holds, Holding, Asking, Maybe
<1> QED
  BY <1>1, <1>2 DEF LockInv

\* A process without the file opens it.
LEMMA OpenKeepsLockInv ==
    ASSUME TypeOK, LockInv, NEW p \in Procs, fd[p] = 0, OpenLockFile(p),
           NEW to \in Asking, Goto(p, to), UNCHANGED <<owner, cleaned>>
    PROVE  LockInv'
<1>1. /\ lockName' \in Inodes /\ lockName' # 0
      /\ fd' = [fd EXCEPT ![p] = lockName']
      /\ lockName # 0 => lockName' = lockName
  BY OpenLockFileType, InodesAreNumbers
<1>2. OwnerInv'
  BY <1>1, InodesAreNumbers DEF LockInv, OwnerInv, TypeOK
<1>3. ~(owner[lockName'] = p)
  BY <1>1, LeaderAssumption DEF LockInv, OwnerInv
<1>4. LabelInv'
  BY <1>1, <1>3 DEF LockInv, LabelInv, Holds, Goto, TypeOK, Holding, Asking, Maybe
<1>5. NameInv'
  BY <1>1 DEF LockInv, NameInv, TypeOK
<1> QED
  BY <1>2, <1>4, <1>5 DEF LockInv

\* A process that has the file open gets the lock nobody has.
LEMMA LockKeepsLockInv ==
    ASSUME TypeOK, LockInv, NEW p \in Procs, fd[p] # 0, owner[fd[p]] = NoOne,
           owner' = [owner EXCEPT ![fd[p]] = p],
           NEW to \in Holding, Goto(p, to), UNCHANGED <<lockName, fd, cleaned>>
    PROVE  LockInv'
<1>1. fd[p] \in Inodes /\ p # NoOne
  BY LeaderAssumption DEF TypeOK
<1>2. OwnerInv'
  BY <1>1 DEF LockInv, OwnerInv, TypeOK
<1>3. Holds(p)' /\ \A q \in Procs \ {p} : Holds(q)' <=> Holds(q)
  BY <1>1, LeaderAssumption DEF LockInv, OwnerInv, Holds, TypeOK
<1>4. LabelInv'
  BY <1>3 DEF LockInv, LabelInv, Goto, TypeOK, Holding, Asking, Maybe
<1>5. NameInv'
  BY DEF LockInv, NameInv
<1> QED
  BY <1>2, <1>4, <1>5 DEF LockInv

\* A process that does not hold the lock closes the file.
LEMMA CloseKeepsLockInv ==
    ASSUME TypeOK, LockInv, NEW p \in Procs, ~Holds(p), fd' = [fd EXCEPT ![p] = 0],
           NEW to, to \notin Holding \cup Asking, Goto(p, to), UNCHANGED <<lockName, owner, cleaned>>
    PROVE  LockInv'
<1>1. OwnerInv'
  BY LeaderAssumption, InodesAreNumbers DEF LockInv, OwnerInv, Holds, TypeOK
<1>2. \A q \in Procs \ {p} : Holds(q)' <=> Holds(q)
  BY DEF Holds, TypeOK
<1>3. LabelInv'
  BY <1>2 DEF LockInv, LabelInv, Goto, TypeOK
<1>4. NameInv'
  BY DEF LockInv, NameInv, TypeOK
<1> QED
  BY <1>1, <1>3, <1>4 DEF LockInv

\* Closing the file gives the lock up, that of no other process.
LEMMA ReleaseKeepsLockInv ==
    ASSUME TypeOK, LockInv, NEW p \in Procs, Release(p),
           NEW to, to \notin Holding \cup Asking, Goto(p, to), UNCHANGED <<lockName, cleaned>>
    PROVE  LockInv'
<1>1. \A i \in Inodes : owner'[i] # NoOne => owner'[i] = owner[i] /\ owner[i] # p
  BY DEF Release, Closed
<1>2. OwnerInv'
  BY <1>1, InodesAreNumbers DEF LockInv, OwnerInv, Release, TypeOK
<1>3. \A q \in Procs \ {p} : Holds(q)' <=> Holds(q)
  BY LeaderAssumption DEF Holds, Release, Closed, TypeOK
<1>4. LabelInv'
  BY <1>3 DEF LockInv, LabelInv, Goto, Release, TypeOK
<1>5. NameInv'
  BY DEF LockInv, NameInv, Release, TypeOK
<1> QED
  BY <1>2, <1>4, <1>5 DEF LockInv

\* Death takes the locks of the dead and no other; the one that goes on keeps what it has.
LEMMA KillKeepsLockInv ==
    ASSUME TypeOK, LockInv, NEW P, NEW p \in Procs, NEW to, KillWhile(P, p, to),
           p \in P \/ (pc[p] \in Holding /\ to \in Holding)
                   \/ (fd[p] = 0 /\ to \notin Holding \cup Asking),
           UNCHANGED <<lockName, cleaned>>
    PROVE  LockInv'
<1>1. \A i \in Inodes : owner'[i] # NoOne => owner'[i] = owner[i] /\ owner[i] \notin P
  BY DEF KillWhile
<1>2. OwnerInv'
  BY <1>1, InodesAreNumbers DEF LockInv, OwnerInv, KillWhile, TypeOK
<1>3. \A q \in Procs \ P : fd'[q] = fd[q] /\ (Holds(q)' <=> Holds(q))
  BY LeaderAssumption DEF Holds, KillWhile, TypeOK
<1>4. \A q \in Procs \cap P : fd'[q] = 0 /\ pc'[q] = "dead"
  BY DEF KillWhile
<1>5. \A q \in Procs \ P : pc'[q] = IF q = p THEN to ELSE pc[q]
  BY DEF KillWhile
<1>6. LabelInv'
  <2> SUFFICES ASSUME NEW q \in Procs
               PROVE  /\ pc'[q] \in Holding => Holds(q)'
                      /\ pc'[q] \in Asking  => fd'[q] # 0 /\ ~Holds(q)'
                      /\ pc'[q] \in Maybe   => fd'[q] = 0 \/ Holds(q)'
                      /\ pc'[q] \notin Holding \cup Asking \cup Maybe => fd'[q] = 0
    BY DEF LabelInv
  <2>1. CASE q \in P
    BY <1>4, <2>1 DEF Holding, Asking, Maybe
  <2>2. CASE q \notin P /\ q # p
    BY <1>3, <1>5, <2>2 DEF LockInv, LabelInv
  <2>3. CASE q \notin P /\ q = p
    BY <1>3, <1>5, <2>3 DEF LockInv, LabelInv, Holding, Asking, Maybe
  <2> QED
    BY <2>1, <2>2, <2>3
<1>7. NameInv'
  BY <1>3, <1>4 DEF LockInv, NameInv
<1> QED
  BY <1>2, <1>6, <1>7 DEF LockInv

\* Every step keeps what the labels say of the lock.
LEMMA LockInvStep == TypeOK /\ LockInv /\ [Next]_vars => LockInv'
<1> SUFFICES ASSUME TypeOK, LockInv, [Next]_vars
             PROVE  LockInv'
  OBVIOUS
<1>p. Clients \subseteq Procs /\ Leaders \subseteq Procs
  BY DEF Procs
<1>n. \A p \in Procs : /\ pc[p] \in Holding => Holds(p)
                       /\ pc[p] \in Asking => fd[p] # 0 /\ ~Holds(p)
                       /\ pc[p] \in Maybe => fd[p] = 0 \/ Holds(p)
                       /\ pc[p] \notin Holding \cup Asking \cup Maybe => fd[p] = 0
  BY DEF LockInv, LabelInv
<1>t. pc \in [Procs -> ClientLabels \cup Startup \cup {"unborn", "leading"}]
  BY DEF TypeOK
<1> USE DEF files, leaderV, ghosts
<1>1. ASSUME NEW c \in Clients, ClientStep(c)
      PROVE  LockInv'
  <2> USE DEF Holding, Asking, Maybe
  <2>c. c \in Procs
    BY <1>p
  <2>1. CASE FastPath(c)
    <3>1. fd[c] = 0
      BY <1>n, <2>1, <2>c DEF FastPath
    <3> QED
      BY <1>t, <2>1, <2>c, <3>1, LabelChange DEF FastPath, Goto
  <2>2. CASE TryOpen(c)
    BY <1>n, <2>2, <2>c, OpenKeepsLockInv DEF TryOpen
  <2>3. CASE TryAcquire(c)
    <3>1. CASE owner[fd[c]] = NoOne
      BY <1>n, <2>3, <2>c, <3>1, LockKeepsLockInv DEF TryAcquire, TryLock
    <3>2. CASE owner[fd[c]] # NoOne
      BY <1>n, <2>3, <2>c, <3>2, CloseKeepsLockInv DEF TryAcquire, TryLock
    <3> QED
      BY <3>1, <3>2
  <2>4. CASE AdoptSibling(c)
    BY <2>4, <2>c, ReleaseKeepsLockInv DEF AdoptSibling
  <2>5. CASE EvictLeader(c)
    <3>1. CASE version[sockName] >= FirstRelaunch
      BY <1>t, <2>5, <2>c, <3>1, LabelChange DEF EvictLeader, RequestVacate, Goto
    <3>2. CASE ~(version[sockName] >= FirstRelaunch)
      BY <2>5, <2>c, <3>2, KillKeepsLockInv DEF EvictLeader, RequestVacate
    <3> QED
      BY <3>1, <3>2
  <2>6. CASE Evicted(c)
    BY <2>6, <2>c, KillKeepsLockInv DEF Evicted
  <2>7. CASE NothingToAdopt(c)
    BY <1>t, <2>7, <2>c, LabelChange DEF NothingToAdopt, Goto
  <2>8. CASE CleanupSocket(c)
    BY <1>t, <2>8, <2>c, LabelChange DEF CleanupSocket, Goto
  <2>9. CASE SpawnLeader(c)
    <3>1. PICK l \in Leaders : Fresh(l) /\ pc' = [pc EXCEPT ![c] = "spawned", ![l] = "born"]
      BY <2>9 DEF SpawnLeader
    <3>2. fd[l] = 0
      BY <1>n, <1>p, <3>1 DEF Fresh, Dead
    <3> QED
      BY <1>t, <1>p, <2>9, <2>c, <3>1, <3>2, LabelChange DEF SpawnLeader
  <2>10. CASE SpawnFails(c)
    BY <1>t, <2>10, <2>c, LabelChange DEF SpawnFails, Goto
  <2>11. CASE HandOver(c)
    BY <2>11, <2>c, ReleaseKeepsLockInv DEF HandOver
  <2>12. CASE SpawnNeverReady(c)
    BY <1>t, <2>12, <2>c, LabelChange DEF SpawnNeverReady, Goto
  <2>13. CASE ConnectSpawned(c)
    <3>1. fd[c] = 0
      BY <1>n, <2>13, <2>c DEF ConnectSpawned
    <3> QED
      BY <1>t, <2>13, <2>c, <3>1, LabelChange DEF ConnectSpawned, Goto
  <2>14. CASE WaitConnects(c)
    <3>1. fd[c] = 0
      BY <1>n, <2>14, <2>c DEF WaitConnects
    <3> QED
      BY <1>t, <2>14, <2>c, <3>1, LabelChange DEF WaitConnects, Goto
  <2>15. CASE WaitVacates(c)
    <3>0. fd[c] = 0
      BY <1>n, <2>15, <2>c DEF WaitVacates
    <3>1. CASE version[sockName] >= FirstRelaunch
      BY <1>t, <2>15, <2>c, <3>0, <3>1, LabelChange DEF WaitVacates, RequestVacate, Goto
    <3>2. CASE ~(version[sockName] >= FirstRelaunch)
      BY <2>15, <2>c, <3>0, <3>2, KillKeepsLockInv DEF WaitVacates, RequestVacate
    <3> QED
      BY <3>1, <3>2
  <2>16. CASE WaitFails(c)
    <3>1. fd[c] = 0
      BY <1>n, <2>16, <2>c DEF WaitFails
    <3> QED
      BY <1>t, <2>16, <2>c, <3>1, LabelChange DEF WaitFails, Goto
  <2>17. CASE Disconnected(c)
    <3>1. fd[c] = 0
      BY <1>n, <2>17, <2>c DEF Disconnected
    <3> QED
      BY <1>t, <2>17, <2>c, <3>1, LabelChange DEF Disconnected, Goto
  <2>18. CASE DropUnlinksLock(c)
    BY <1>t, <2>18, <2>c, LabelChange DEF DropUnlinksLock, Goto
  <2>19. CASE DropUnlinksSocket(c)
    BY <2>19, <2>c, ReleaseKeepsLockInv DEF DropUnlinksSocket
  <2> QED
    BY <1>1, <2>1, <2>2, <2>3, <2>4, <2>5, <2>6, <2>7, <2>8, <2>9, <2>10, <2>11, <2>12, <2>13,
       <2>14, <2>15, <2>16, <2>17, <2>18, <2>19 DEF ClientStep
<1>2. ASSUME NEW l \in Leaders, LeaderStep(l)
      PROVE  LockInv'
  <2> USE DEF Holding, Asking, Maybe
  <2>l. l \in Procs
    BY <1>p
  <2>1. CASE LeaderOpen(l)
    BY <1>n, <2>1, <2>l, OpenKeepsLockInv DEF LeaderOpen
  <2>2. CASE LeaderTryAcquire(l)
    <3>1. CASE owner[fd[l]] = NoOne
      BY <1>n, <2>2, <2>l, <3>1, LockKeepsLockInv DEF LeaderTryAcquire, TryLock
    <3>2. CASE owner[fd[l]] # NoOne
      BY <1>n, <2>2, <2>l, <3>2, CloseKeepsLockInv DEF LeaderTryAcquire, TryLock
    <3> QED
      BY <3>1, <3>2
  <2>3. CASE WritePid(l)
    BY <1>t, <2>3, <2>l, LabelChange DEF WritePid, Goto
  <2>4. CASE CheckListener(l)
    <3>1. fd[l] = 0
      BY <1>n, <2>4, <2>l DEF CheckListener
    <3> QED
      BY <1>t, <2>4, <2>l, <3>1, LabelChange DEF CheckListener, Goto
  <2>5. CASE LeaderCleanup(l)
    BY <1>t, <2>5, <2>l, LabelChange DEF LeaderCleanup, Goto
  <2>7. CASE SocketSeen(l)
    <3>1. CASE Holds(l)
      BY <1>t, <2>7, <2>l, <3>1, LabelChange DEF SocketSeen, Goto
    <3>2. CASE ~Holds(l)
      BY <1>n, <2>7, <2>l, <3>2, OpenKeepsLockInv DEF SocketSeen
    <3> QED
      BY <3>1, <3>2
  <2>8. CASE SocketNeverSeen(l)
    <3>1. CASE Holds(l)
      BY <1>t, <2>8, <2>l, <3>1, LabelChange DEF SocketNeverSeen, Goto
    <3>2. CASE ~Holds(l)
      <4>1. fd[l] = 0
        BY <1>n, <2>8, <2>l, <3>2 DEF SocketNeverSeen
      <4> QED
        BY <1>t, <2>8, <2>l, <3>2, <4>1, LabelChange DEF SocketNeverSeen, Goto
    <3> QED
      BY <3>1, <3>2
  <2>9. CASE Poll(l)
    BY <1>n, <2>9, <2>l, LockKeepsLockInv DEF Poll
  <2>10. CASE PollTimeout(l)
    BY <1>n, <2>10, <2>l, CloseKeepsLockInv DEF PollTimeout
  <2>11. CASE LeaderReturns(l)
    BY <1>t, <2>11, <2>l, LabelChange DEF LeaderReturns, Goto
  <2>12. CASE DropUnlinksLock(l)
    BY <1>t, <2>12, <2>l, LabelChange DEF DropUnlinksLock, Goto
  <2>13. CASE DropUnlinksSocket(l)
    BY <2>13, <2>l, ReleaseKeepsLockInv DEF DropUnlinksSocket
  <2> QED
    BY <1>2, <2>1, <2>2, <2>3, <2>4, <2>5, <2>7, <2>8, <2>9, <2>10, <2>11, <2>12, <2>13
       DEF LeaderStep
<1>3. ASSUME NEW l \in Leaders, ServerStep(l)
      PROVE  LockInv'
  BY <1>3, LabelChange DEF ServerStep, ServerRemoves, Bind, ServerCloses, ServerUnlinks
<1>4. CASE Faults
  <2>1. ASSUME NEW p \in Procs, Crash(p)
        PROVE  LockInv'
    BY <2>1, KillKeepsLockInv DEF Crash
  <2>2. ASSUME NEW c \in Clients, SpawnTimeout(c)
        PROVE  LockInv'
    BY <1>p, <1>t, <2>2, LabelChange DEF SpawnTimeout, Goto, Fault, Holding
  <2>3. ASSUME NEW l \in Leaders, UpdateFound(l)
        PROVE  LockInv'
    BY <2>3, LabelChange DEF UpdateFound, Fault
  <2>4. ASSUME NEW l \in Leaders, StartByHand(l)
        PROVE  LockInv'
    <3>1. fd[l] = 0
      BY <1>n, <1>p, <2>4 DEF StartByHand, Fresh, Dead, Holding, Asking, Maybe
    <3> QED
      BY <1>p, <1>t, <2>4, <3>1, LabelChange DEF StartByHand, Goto, Holding, Asking
  <2> QED
    BY <1>4, <2>1, <2>2, <2>3, <2>4 DEF Faults
<1>5. CASE UNCHANGED vars
  BY <1>5, LabelChange DEF vars
<1> QED
  BY <1>1, <1>2, <1>3, <1>4, <1>5 DEF Next

\* The labels of all processes tell the truth about the lock, in every reachable state.
THEOREM LockInvariant == Spec => []LockInv
<1>1. Init => LockInv
  BY DEF Init, LockInv, OwnerInv, LabelInv, NameInv, Holding, Asking, Maybe
<1> QED
  BY <1>1, LockInvStep, TypeCorrect, PTL DEF Spec

\* A leader that got through its startup (run_leader) holds an exclusive flock for as long as it
\* leads, however many others start, crash, evict or unlink.
THEOREM LeadersHold == Spec => []LeaderHoldsLock
<1>1. LockInv => LeaderHoldsLock
  BY DEF LockInv, LabelInv, LeaderHoldsLock, Holding, Procs
<1> QED
  BY <1>1, LockInvariant, PTL

\* Two leaders lead at once only after some Drop (lock.rs:322) removed the lock file: until then
\* both would own the inode that the one name stands for.
THEOREM NoSplitWithoutCleanup == Spec => []SplitOnlyAfterCleanup
<1>1. TypeOK /\ LockInv => SplitOnlyAfterCleanup
  BY DEF LockInv, LabelInv, NameInv, Holds, SplitOnlyAfterCleanup, Holding, Procs
<1> QED
  BY <1>1, LockInvariant, TypeCorrect, PTL
================================================================================
