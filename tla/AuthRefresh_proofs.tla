-------------------------- MODULE AuthRefresh_proofs --------------------------
(* Proofs about AuthRefresh for any number of processes, requests and faults. *)
EXTENDS AuthRefresh, FiniteSetTheorems, FunctionTheorems, TLAPS

\* The task has the lock file open and its flock.
Has(t) == fd[t] # 0 /\ owner[fd[t]] = t

\* Labels with the file lock, and labels with it if the wait for it was not in vain.
Keeping == {"identify", "adopt", "live", "readopt", "refresh", "exchange", "exchange2", "rejected",
            "permanent", "escalated", "granted"}
MayKeep == {"reload", "enrichRead", "enrichWrite"}

\* Only the task that has an inode open owns it, and its label says so.
FileInv ==
    /\ \A i \in Inodes : owner[i] # NoOne => fd[owner[i]] = i
    /\ \A t \in Tasks :
           /\ pc[t] \in Keeping   => Has(t)
           /\ pc[t] \in MayKeep   => fd[t] = 0 \/ Has(t)
           /\ pc[t] = "blocked"   => fd[t] # 0 /\ ~Has(t)
           /\ pc[t] \notin Keeping \cup MayKeep \cup {"blocked"} => fd[t] = 0

\* Who relies on the lock has the file the name stands for.
RelyInv == ~excused => \A t \in Tasks : pc[t] \in Relying /\ fd[t] # 0 => fd[t] = lockName

\* The credentials are handed on one by one: all but the newest are spent, the newest is on
\* disk or about to be written, and only the newest is ever sent.
MintInv ==
    ~excused =>
        /\ ~reused
        /\ spent = 1 .. minted - 1
        /\ disk \in 1 .. minted
        /\ \A m \in Managers : mem[m] <= disk
        /\ disk = minted \/ \E t \in Tasks : pc[t] = "granted"
        /\ \A t \in Tasks :
               /\ pc[t] \in {"exchange", "exchange2", "rejected"} => req[t].tried = minted /\ disk = minted
               /\ pc[t] = "granted" => req[t].got = minted
               /\ pc[t] = "enrichWrite" /\ fd[t] # 0 => req[t].got = disk

\* What was refused stays refused, also in the memory of a process.
VerdictInv ==
    /\ \A t \in Tasks : pc[t] \in {"rejected", "permanent"} => ~Good(req[t].tried)
    /\ \A m \in Managers : verdict[m].sticky => ~Good(verdict[m].key)

-----------------------------------------------------------------------------
(* Types. *)

\* There are more inodes than tasks: a new file always finds one that nobody has open.
LEMMA FreeInodeExists ==
    ASSUME fd \in [Tasks -> Inodes \cup {0}], lockName = 0
    PROVE  FreeInode \in Inodes /\ \A t \in Tasks : fd[t] # FreeInode
<1> DEFINE n == Cardinality(Tasks)
           open == {fd[t] : t \in Tasks}
<1>1. IsFiniteSet(Tasks) /\ n \in Nat
  BY AuthAssumption, FS_CardinalityType
<1>2. fd \in Surjection(Tasks, open)
  BY DEF Surjection
<1>3. IsFiniteSet(open) /\ Cardinality(open) <= n
  BY <1>1, <1>2, FS_Surjection
<1>4. Cardinality(Inodes) = n + 1
  <2>1. Cardinality(1 .. n + 1) = n + 1
    BY <1>1, FS_Interval, SMT
  <2> QED
    BY <2>1 DEF Inodes
<1>5. ~(Inodes \subseteq open)
  <2>1. Inodes \subseteq open => Cardinality(Inodes) <= Cardinality(open)
    BY <1>3, FS_Subset
  <2>2. Cardinality(open) \in Nat
    BY <1>3, FS_CardinalityType
  <2> HIDE DEF n, open
  <2> QED
    BY <1>1, <1>3, <1>4, <2>1, <2>2
<1>6. \E i \in Inodes : i # lockName /\ \A t \in Tasks : fd[t] # i
  BY <1>1, <1>5 DEF Inodes
<1> QED
  BY <1>6 DEF FreeInode

LEMMA InodesAreNumbers == Inodes \subseteq Nat /\ 0 \notin Inodes
BY AuthAssumption, FS_CardinalityType DEF Inodes

LEMMA OpenedType ==
    ASSUME TypeOK
    PROVE  Opened \in Inodes /\ Opened # 0 /\ (lockName # 0 => Opened = lockName)
BY FreeInodeExists, InodesAreNumbers DEF TypeOK, Opened

\* The credentials are the numbers from 1 to MaxMint.
LEMMA CredentialTypes ==
    /\ 1 \in Credentials /\ Credentials \subseteq 0 .. MaxMint
    /\ Credentials \subseteq Nat /\ 0 .. MaxMint \subseteq Nat /\ MaxMint \in Nat
BY AuthAssumption DEF Credentials

\* A request keeps its type when one of its fields gets a value of that field's.
LEMMA RequestTypes ==
    ASSUME req \in [Tasks -> Requests], NEW t \in Tasks
    PROVE  /\ \A n \in 1 .. 4 : Set(t, "phase", n) => req' \in [Tasks -> Requests]
           /\ \A k \in 0 .. MaxMint : Set(t, "saw", k) \/ Set(t, "tried", k) \/ Set(t, "got", k)
                                        => req' \in [Tasks -> Requests]
           /\ StartLocking(t, "refresh") \/ StartLocking(t, "relock") => req' \in [Tasks -> Requests]
           /\ [req EXCEPT ![t] = NoRequest] \in [Tasks -> Requests]
           /\ \A k \in 0 .. MaxMint :
                 /\ [req EXCEPT ![t] = Enriching(k)] \in [Tasks -> Requests]
                 /\ [req EXCEPT ![t] = [@ EXCEPT !.want = "reload", !.reason = "rejected", !.saw = k]]
                        \in [Tasks -> Requests]
<1>1. NoRequest \in Requests
  BY CredentialTypes DEF Requests, NoRequest
<1>2. \A k \in 0 .. MaxMint : Enriching(k) \in Requests
  BY <1>1 DEF Requests, Enriching
<1>3. ASSUME NEW n \in 1 .. 4
      PROVE  [req EXCEPT ![t]["phase"] = n] \in [Tasks -> Requests]
  BY DEF Requests
<1>4. ASSUME NEW k \in 0 .. MaxMint
      PROVE  /\ [req EXCEPT ![t]["saw"] = k] \in [Tasks -> Requests]
             /\ [req EXCEPT ![t]["tried"] = k] \in [Tasks -> Requests]
             /\ [req EXCEPT ![t]["got"] = k] \in [Tasks -> Requests]
  BY DEF Requests
<1>5. ASSUME NEW w \in {"refresh", "relock"}
      PROVE  [req EXCEPT ![t].want = w, ![t].phase = 1] \in [Tasks -> Requests]
  <2>1. [req EXCEPT ![t].want = w] \in [Tasks -> Requests]
    BY DEF Requests
  <2>2. \A q \in [Tasks -> Requests] : [q EXCEPT ![t].phase = 1] \in [Tasks -> Requests]
    BY DEF Requests
  <2> QED
    BY <2>1, <2>2
<1>6. \A k \in 0 .. MaxMint : [req EXCEPT ![t] = [@ EXCEPT !.want = "reload", !.reason = "rejected", !.saw = k]]
                            \in [Tasks -> Requests]
  BY DEF Requests
<1>7. \A n \in 1 .. 4 : Set(t, "phase", n) => req' \in [Tasks -> Requests]
  BY <1>3 DEF Set
<1>8. \A k \in 0 .. MaxMint : Set(t, "saw", k) \/ Set(t, "tried", k) \/ Set(t, "got", k)
                              => req' \in [Tasks -> Requests]
  BY <1>4 DEF Set
<1>9. StartLocking(t, "refresh") \/ StartLocking(t, "relock") => req' \in [Tasks -> Requests]
  BY <1>5 DEF StartLocking
<1> QED
  BY <1>1, <1>2, <1>6, <1>7, <1>8, <1>9

\* With the lock a task goes on where it wanted to; Busy and StaleUnlinked lead to another try or
\* to what is done without the lock.
LEMMA LockingLeads ==
    ASSUME TypeOK, NEW t \in Tasks
    PROVE  /\ WithLock[req[t].want] \in {"adopt", "readopt", "reload", "enrichRead"}
           /\ AfterBusy(t) \/ AfterUnlinked(t) =>
                 /\ \E l \in {"open", "try", "timedOut", "quit", "reload", "enrichRead"} : Goto(t, l)
                 /\ UNCHANGED req \/ \E n \in 1 .. 4 : Set(t, "phase", n)
<1>1. req[t].want \in {"refresh", "relock", "reload", "enrich"} /\ req[t].phase \in {1, 2, 3, 4}
  BY DEF TypeOK, Requests
<1>2. /\ WithLock[req[t].want] \in {"adopt", "readopt", "reload", "enrichRead"}
      /\ WithoutLock[req[t].want] \in {"timedOut", "quit", "reload", "enrichRead"}
  BY <1>1 DEF WithLock, WithoutLock
<1>3. /\ AfterBusy(t) => \E l \in {"open", "timedOut", "quit", "reload", "enrichRead"} : Goto(t, l)
      /\ AfterUnlinked(t) => \E l \in {"open", "try", "timedOut", "quit", "reload", "enrichRead"} : Goto(t, l)
  BY <1>1, <1>2 DEF AfterBusy, AfterUnlinked
<1>4. AfterBusy(t) \/ AfterUnlinked(t) => UNCHANGED req \/ \E n \in 1 .. 4 : Set(t, "phase", n)
  <2>1. 2 \in 1 .. 4 /\ 4 \in 1 .. 4
    OBVIOUS
  <2> QED
    BY <1>1, <2>1 DEF AfterBusy, AfterUnlinked
<1> QED
  BY <1>2, <1>3, <1>4

LEMMA LockingTypes ==
    ASSUME TypeOK, NEW t \in Tasks
    PROVE  /\ WithLock[req[t].want] \in Labels
           /\ AfterBusy(t) \/ AfterUnlinked(t) =>
                 pc' \in [Tasks -> Labels] /\ req' \in [Tasks -> Requests]
<1>1. {"adopt", "open", "try", "timedOut", "quit", "readopt", "reload", "enrichRead"} \subseteq Labels
  BY DEF Labels
<1>2. \A l \in Labels : Goto(t, l) => pc' \in [Tasks -> Labels]
  BY DEF TypeOK, Goto
<1>3. \A n \in 1 .. 4 : Set(t, "phase", n) => req' \in [Tasks -> Requests]
  BY RequestTypes DEF TypeOK
<1>4. UNCHANGED req => req' \in [Tasks -> Requests]
  BY DEF TypeOK
<1> QED
  BY <1>1, <1>2, <1>3, <1>4, LockingLeads

\* Where a task goes.
LEMMA Goes ==
    ASSUME TypeOK, NEW t \in Tasks
    PROVE  /\ \A l : Goto(t, l) => pc'[t] = l
           /\ Return(t) => pc'[t] = "idle"
           /\ \A w : StartLocking(t, w) => pc'[t] = "try"
           /\ AfterBusy(t) \/ AfterUnlinked(t) =>
                 pc'[t] \in {"open", "try", "timedOut", "quit", "reload", "enrichRead"}
<1>1. \A l : Goto(t, l) => pc'[t] = l
  BY DEF Goto, TypeOK
<1> QED
  BY <1>1, LockingLeads DEF Return, StartLocking

\* Closing the file, leaving the mutex and returning keep the types.
LEMMA ReturnTypes ==
    ASSUME TypeOK, NEW t \in Tasks
    PROVE  /\ Close(t) => owner' \in [Inodes -> Tasks \cup {NoOne}] /\ fd' \in [Tasks -> Inodes \cup {0}]
           /\ LetGo(t) => /\ owner' \in [Inodes -> Tasks \cup {NoOne}] /\ fd' \in [Tasks -> Inodes \cup {0}]
                          /\ mutex' \in [Managers -> Tasks \cup {NoOne}]
           /\ Return(t) => /\ owner' \in [Inodes -> Tasks \cup {NoOne}] /\ fd' \in [Tasks -> Inodes \cup {0}]
                           /\ mutex' \in [Managers -> Tasks \cup {NoOne}]
                           /\ pc' \in [Tasks -> Labels] /\ req' \in [Tasks -> Requests]
<1>1. Close(t) => owner' \in [Inodes -> Tasks \cup {NoOne}] /\ fd' \in [Tasks -> Inodes \cup {0}]
  BY DEF TypeOK, Close
<1>2. LetGo(t) => mutex' \in [Managers -> Tasks \cup {NoOne}]
  BY DEF TypeOK, LetGo
<1>3. Return(t) => pc' \in [Tasks -> Labels] /\ req' \in [Tasks -> Requests]
  <2>1. [req EXCEPT ![t] = NoRequest] \in [Tasks -> Requests]
    BY RequestTypes DEF TypeOK
  <2>2. Goto(t, "idle") => pc' \in [Tasks -> Labels]
    BY DEF TypeOK, Goto, Labels
  <2> QED
    BY <2>1, <2>2 DEF Return
<1> QED
  BY <1>1, <1>2, <1>3 DEF Return, LetGo

\* What a process knows of credentials are credentials.
LEMMA KnownTypes ==
    ASSUME TypeOK, NEW m \in Managers, NEW r
    PROVE  /\ Current(m) \in 0 .. MaxMint /\ ExpiredAuth(m) \in 0 .. MaxMint
           /\ Resolve(m, r) \in 0 .. MaxMint
BY CredentialTypes DEF TypeOK, Current, ExpiredAuth, Resolve

LEMMA GrantTypes ==
    ASSUME TypeOK, NEW k \in 1 .. MaxMint, Grant(k)
    PROVE  minted' \in Credentials /\ minted + 1 \in 0 .. MaxMint /\ spent' \subseteq Credentials
<1>1. minted \in Nat /\ MaxMint \in Nat /\ minted < MaxMint /\ minted' = minted + 1
  BY CredentialTypes DEF TypeOK, Grant
<1>2. minted + 1 \in 1 .. MaxMint /\ minted + 1 \in 0 .. MaxMint
  BY <1>1
<1>3. spent' \subseteq Credentials
  BY DEF TypeOK, Grant, Credentials
<1> QED
  BY <1>1, <1>2, <1>3 DEF Credentials

LEMMA RememberTypes ==
    ASSUME TypeOK, NEW m \in Managers, NEW k \in 0 .. MaxMint, Remember(m, k)
    PROVE  mem' \in [Managers -> 0 .. MaxMint]
BY DEF TypeOK, Remember

\* No task sends the credential that is none.
SentInv == \A t \in Tasks : pc[t] \in {"exchange", "exchange2"} => req[t].tried # 0

\* A task moves itself: it leaves the labels, requests and open files of the others alone.
LEMMA OthersStay ==
    ASSUME TypeOK, NEW t \in Tasks, Step(t) \/ AnswerLost(t) \/ Request(t) \/ Unauthorized(t),
           NEW u \in Tasks \ {t}
    PROVE  pc'[u] = pc[u] /\ req'[u] = req[u] /\ fd'[u] = fd[u]
<1>g. \A l : Goto(t, l) => pc'[u] = pc[u]
  BY DEF Goto, TypeOK
<1>s. \A f, x : Set(t, f, x) => req'[u] = req[u]
  BY DEF Set, TypeOK
<1>c. Close(t) => fd'[u] = fd[u]
  BY DEF Close, TypeOK
<1>r. Return(t) => pc'[u] = pc[u] /\ req'[u] = req[u] /\ fd'[u] = fd[u]
  BY <1>c, <1>g DEF Return, LetGo, TypeOK
<1>w. \A w : StartLocking(t, w) => pc'[u] = pc[u] /\ req'[u] = req[u]
  BY <1>g DEF StartLocking, TypeOK
<1>o. \A x : fd' = [fd EXCEPT ![t] = x] => fd'[u] = fd[u]
  BY DEF TypeOK
<1>e. \A x : req' = [req EXCEPT ![t] = x] => req'[u] = req[u]
  BY DEF TypeOK
<1>l. AfterBusy(t) \/ AfterUnlinked(t) => pc'[u] = pc[u] /\ req'[u] = req[u]
  BY <1>g, <1>s, LockingLeads
<1>1. CASE Locking(t)
  BY <1>1, <1>g, <1>s, <1>c, <1>o, <1>l
     DEF Locking, TryLock, UnlinkStale, OpenToWait, Wake, WaitTimeout, WaitLeavesThread, IdentifyHolder,
         lockFile, left
<1>2. CASE Refreshing(t)
  <2>1. CASE ReloadFromDisk(t) \/ CheckVerdict(t) \/ TakeRefreshLock(t) \/ AdoptDisk(t) \/ GiveUp(t)
    BY <2>1, <1>g, <1>s, <1>c, <1>r, <1>w
       DEF ReloadFromDisk, CheckVerdict, TakeRefreshLock, AdoptDisk, GiveUp
  <2>2. CASE RevalidateLock(t) \/ Defer(t) \/ ChooseCredential(t) \/ ExchangeGranted(t)
    BY <2>2, <1>g, <1>s, <1>c, <1>r, <1>w
       DEF RevalidateLock, Defer, ChooseCredential, ExchangeGranted
  <2>3. CASE ExchangeRejected(t) \/ ExchangeFails(t) \/ RetryWithDisk(t) \/ PermanentFailure(t)
    BY <2>3, <1>g, <1>s, <1>r DEF ExchangeRejected, ExchangeFails, RetryWithDisk, PermanentFailure
  <2>4. CASE Persist(t) \/ EnrichRead(t) \/ EnrichWrite(t)
    BY <2>4, <1>g, <1>c, <1>r, <1>e DEF Persist, LetGo, EnrichRead, EnrichWrite
  <2> QED
    BY <1>2, <2>1, <2>2, <2>3, <2>4 DEF Refreshing
<1>3. CASE AnswerLost(t) \/ Request(t) \/ Unauthorized(t)
  BY <1>3, <1>g, <1>r, <1>e DEF AnswerLost, Request, Unauthorized
<1> QED
  BY <1>1, <1>2, <1>3 DEF Step

\* Every step keeps the types.
LEMMA TypeStep == TypeOK /\ SentInv /\ [Next]_vars => TypeOK'
<1> SUFFICES ASSUME TypeOK, SentInv, [Next]_vars
             PROVE  TypeOK'
  OBVIOUS
<1>f. Fault => faults' \in 0 .. MaxFaults
  BY AuthAssumption DEF TypeOK, Fault
<1>m. \A t \in Tasks : ManagerOf[t] \in Managers
  BY AuthAssumption
<1> USE DEF provider, managers, lockFile, left
<1>1. ASSUME NEW t \in Tasks, Locking(t)
      PROVE  TypeOK'
  <2>o. OpenLockFile => lockName' \in Inodes \cup {0} /\ stale' \in BOOLEAN /\ lockName' = Opened
    BY OpenedType DEF OpenLockFile, TypeOK
  <2>g. \A l \in Labels : Goto(t, l) => pc' \in [Tasks -> Labels]
    BY DEF TypeOK, Goto
  <2>1. CASE TryLock(t)
    <3>1. CASE Free(Opened)
      BY <2>1, <2>o, <2>g, <3>1, OpenedType DEF TypeOK, TryLock, Labels
    <3>2. CASE ~Free(Opened)
      <4>1. pc' \in [Tasks -> Labels] /\ req' \in [Tasks -> Requests]
        BY <2>1, <2>g, <3>2, LockingTypes DEF TryLock, Labels, TypeOK
      <4> QED
        BY <2>1, <2>o, <3>2, <4>1 DEF TypeOK, TryLock
    <3> QED
      BY <3>1, <3>2
  <2>2. CASE UnlinkStale(t)
    <3>1. pc' \in [Tasks -> Labels] /\ req' \in [Tasks -> Requests]
      BY <2>2, LockingTypes DEF UnlinkStale
    <3> QED
      BY <2>2, <3>1 DEF TypeOK, UnlinkStale
  <2>3. CASE OpenToWait(t)
    BY <2>3, <2>o, <2>g, OpenedType DEF TypeOK, OpenToWait, Labels
  <2>4. CASE Wake(t)
    BY <2>4, <2>g DEF TypeOK, Wake, Labels
  <2>5. CASE WaitTimeout(t)
    <3>1. pc' \in [Tasks -> Labels] /\ req' \in [Tasks -> Requests]
      <4>1. "try" \in Labels /\ 3 \in 1 .. 4 /\ req \in [Tasks -> Requests]
        BY DEF TypeOK, Labels
      <4> QED
        BY <2>5, <2>g, <4>1, RequestTypes DEF WaitTimeout
    <3> QED
      BY <2>5, <3>1 DEF TypeOK, WaitTimeout
  <2>6. CASE IdentifyHolder(t)
    <3>1. pc' \in [Tasks -> Labels] /\ req' \in [Tasks -> Requests]
      <4>1. 1 \in 1 .. 4 /\ req \in [Tasks -> Requests]
        BY DEF TypeOK
      <4> QED
        BY <2>6, <2>g, <4>1, LockingTypes, RequestTypes DEF IdentifyHolder
    <3>2. owner' \in [Inodes -> Tasks \cup {NoOne}] /\ fd' \in [Tasks -> Inodes \cup {0}]
      BY <2>6, ReturnTypes DEF TypeOK, IdentifyHolder
    <3> QED
      BY <2>6, <3>1, <3>2 DEF TypeOK, IdentifyHolder
  <2>7. CASE WaitLeavesThread(t)
    <3>1. pc' \in [Tasks -> Labels] /\ req' \in [Tasks -> Requests]
      <4>1. "try" \in Labels /\ 3 \in 1 .. 4 /\ req \in [Tasks -> Requests]
        BY DEF TypeOK, Labels
      <4> QED
        BY <2>7, <2>g, <4>1, RequestTypes DEF WaitLeavesThread
    <3>2. behind' \subseteq Managers /\ brief' \in Managers \cup {NoOne}
      BY <1>m, <2>7 DEF TypeOK, WaitLeavesThread
    <3> QED
      BY <1>f, <2>7, <3>1, <3>2, ReturnTypes DEF TypeOK, WaitLeavesThread
  <2> QED
    BY <1>1, <2>1, <2>2, <2>3, <2>4, <2>5, <2>6, <2>7 DEF Locking
<1>2. ASSUME NEW t \in Tasks, Refreshing(t)
      PROVE  TypeOK'
  <2> DEFINE m == ManagerOf[t]
  <2>m. m \in Managers
    BY <1>m
  <2> HIDE DEF m
  <2>g. \A l \in Labels : Goto(t, l) => pc' \in [Tasks -> Labels]
    BY DEF TypeOK, Goto
  <2>d. disk \in 0 .. MaxMint /\ (disk > expired => disk \in 0 .. MaxMint)
    BY DEF TypeOK
  <2>r. /\ req[t].got \in 0 .. MaxMint /\ req[t].tried \in 0 .. MaxMint
        /\ Resolve(m, req[t].reason) \in 0 .. MaxMint /\ Current(m) \in 0 .. MaxMint
    BY <2>m, KnownTypes DEF TypeOK, Requests
  <2>1. CASE ReloadFromDisk(t)
    <3>1. pc' \in [Tasks -> Labels] /\ req' \in [Tasks -> Requests]
      BY <2>1, <2>g, ReturnTypes DEF TypeOK, ReloadFromDisk, Labels
    <3>2. /\ owner' \in [Inodes -> Tasks \cup {NoOne}] /\ fd' \in [Tasks -> Inodes \cup {0}]
          /\ mutex' \in [Managers -> Tasks \cup {NoOne}]
      BY <2>1, ReturnTypes DEF TypeOK, ReloadFromDisk
    <3>3. mem' \in [Managers -> 0 .. MaxMint]
      BY <2>1, <2>d, <2>m, RememberTypes DEF TypeOK, ReloadFromDisk, m
    <3> QED
      BY <2>1, <3>1, <3>2, <3>3 DEF TypeOK, ReloadFromDisk
  <2>2. CASE CheckVerdict(t)
    <3>1. pc' \in [Tasks -> Labels] /\ req' \in [Tasks -> Requests]
      BY <2>2, <2>g, <2>r, ReturnTypes, RequestTypes DEF TypeOK, CheckVerdict, Labels, m
    <3>2. /\ owner' \in [Inodes -> Tasks \cup {NoOne}] /\ fd' \in [Tasks -> Inodes \cup {0}]
          /\ mutex' \in [Managers -> Tasks \cup {NoOne}]
      BY <2>2, ReturnTypes DEF TypeOK, CheckVerdict
    <3>3. mem' \in [Managers -> 0 .. MaxMint]
      BY <2>2, <2>d, <2>m, RememberTypes DEF TypeOK, CheckVerdict, m
    <3> QED
      BY <2>2, <3>1, <3>2, <3>3 DEF TypeOK, CheckVerdict
  <2>3. CASE TakeRefreshLock(t)
    <3>1. StartLocking(t, "refresh") => pc' \in [Tasks -> Labels] /\ req' \in [Tasks -> Requests]
      <4>1. StartLocking(t, "refresh") => pc' \in [Tasks -> Labels]
        BY <2>g DEF StartLocking, Labels
      <4> QED
        BY <4>1, RequestTypes DEF TypeOK
    <3>2. mutex' = [mutex EXCEPT ![m] = t] => mutex' \in [Managers -> Tasks \cup {NoOne}]
      BY <2>m DEF TypeOK
    <3> QED
      BY <2>3, <3>1, <3>2, ReturnTypes DEF TypeOK, TakeRefreshLock, m
  <2>4. CASE AdoptDisk(t)
    <3>1. pc' \in [Tasks -> Labels] /\ req' \in [Tasks -> Requests]
      BY <2>4, <2>g, ReturnTypes DEF TypeOK, AdoptDisk, Labels
    <3>2. /\ owner' \in [Inodes -> Tasks \cup {NoOne}] /\ fd' \in [Tasks -> Inodes \cup {0}]
          /\ mutex' \in [Managers -> Tasks \cup {NoOne}]
      BY <2>4, ReturnTypes DEF TypeOK, AdoptDisk
    <3>3. mem' \in [Managers -> 0 .. MaxMint]
      BY <2>4, <2>d, <2>m, RememberTypes DEF TypeOK, AdoptDisk, m
    <3> QED
      BY <2>4, <3>1, <3>2, <3>3 DEF TypeOK, AdoptDisk
  <2>5. CASE GiveUp(t)
    BY <2>5, ReturnTypes DEF TypeOK, GiveUp
  <2>6. CASE RevalidateLock(t)
    <3>1. StartLocking(t, "relock") => pc' \in [Tasks -> Labels] /\ req' \in [Tasks -> Requests]
      <4>1. StartLocking(t, "relock") => pc' \in [Tasks -> Labels]
        BY <2>g DEF StartLocking, Labels
      <4> QED
        BY <4>1, RequestTypes DEF TypeOK
    <3>2. "refresh" \in Labels
      BY DEF Labels
    <3> QED
      BY <2>6, <2>g, <3>1, <3>2, ReturnTypes DEF TypeOK, RevalidateLock
  <2>7. CASE Defer(t)
    BY <2>7, ReturnTypes DEF TypeOK, Defer
  <2>8. CASE ChooseCredential(t)
    <3>1. pc' \in [Tasks -> Labels] /\ req' \in [Tasks -> Requests]
      BY <2>8, <2>g, <2>r, <2>d, ReturnTypes, RequestTypes DEF TypeOK, ChooseCredential, Labels, m
    <3>2. /\ owner' \in [Inodes -> Tasks \cup {NoOne}] /\ fd' \in [Tasks -> Inodes \cup {0}]
          /\ mutex' \in [Managers -> Tasks \cup {NoOne}]
      BY <2>8, ReturnTypes DEF TypeOK, ChooseCredential
    <3> QED
      BY <2>8, <3>1, <3>2 DEF TypeOK, ChooseCredential
  <2>9. CASE ExchangeGranted(t)
    <3>1. minted' \in Credentials /\ minted + 1 \in 0 .. MaxMint /\ spent' \subseteq Credentials
      <4>1. req[t].tried \in 1 .. MaxMint /\ Grant(req[t].tried)
        BY <2>9, <2>r, CredentialTypes DEF SentInv, ExchangeGranted
      <4> QED
        BY <4>1, GrantTypes
    <3>2. pc' \in [Tasks -> Labels] /\ req' \in [Tasks -> Requests]
      BY <2>9, <2>g, <3>1, RequestTypes DEF TypeOK, ExchangeGranted, Labels
    <3> QED
      BY <2>9, <3>1, <3>2 DEF TypeOK, ExchangeGranted, Grant
  <2>10. CASE ExchangeRejected(t)
    <3>1. pc' \in [Tasks -> Labels]
      BY <2>10, <2>g DEF ExchangeRejected, Labels
    <3> QED
      BY <2>10, <3>1 DEF TypeOK, ExchangeRejected
  <2>11. CASE ExchangeFails(t)
    <3>1. pc' \in [Tasks -> Labels] /\ req' \in [Tasks -> Requests]
      BY <2>11, <2>g, ReturnTypes DEF TypeOK, ExchangeFails, Labels
    <3>2. /\ owner' \in [Inodes -> Tasks \cup {NoOne}] /\ fd' \in [Tasks -> Inodes \cup {0}]
          /\ mutex' \in [Managers -> Tasks \cup {NoOne}] /\ faults' \in 0 .. MaxFaults
      BY <1>f, <2>11, ReturnTypes DEF TypeOK, ExchangeFails
    <3> QED
      BY <2>11, <3>1, <3>2 DEF TypeOK, ExchangeFails
  <2>12. CASE RetryWithDisk(t)
    <3>1. pc' \in [Tasks -> Labels] /\ req' \in [Tasks -> Requests]
      BY <2>12, <2>g, <2>d, RequestTypes DEF TypeOK, RetryWithDisk, Labels
    <3> QED
      BY <2>12, <3>1 DEF TypeOK, RetryWithDisk
  <2>13. CASE PermanentFailure(t)
    <3>1. mem' \in [Managers -> 0 .. MaxMint]
      BY <2>13, <2>d, <2>m, RememberTypes DEF TypeOK, PermanentFailure, m
    <3>2. verdict' \in [Managers -> [key : 0 .. MaxMint, sticky : BOOLEAN]]
      <4>1. [key |-> req[t].tried, sticky |-> pc[t] = "permanent"] \in [key : 0 .. MaxMint, sticky : BOOLEAN]
        BY <2>r
      <4>2. \/ UNCHANGED verdict
            \/ verdict' = [verdict EXCEPT ![m] = [key |-> req[t].tried, sticky |-> pc[t] = "permanent"]]
        BY <2>13 DEF PermanentFailure, m
      <4> QED
        BY <2>m, <4>1, <4>2 DEF TypeOK
    <3> QED
      BY <2>13, <3>1, <3>2, ReturnTypes DEF TypeOK, PermanentFailure
  <2>14. CASE Persist(t)
    <3>1. pc' \in [Tasks -> Labels] /\ req' \in [Tasks -> Requests]
      <4>1. "try" \in Labels /\ req \in [Tasks -> Requests]
        BY DEF TypeOK, Labels
      <4> QED
        <5>1. Return(t) \/ (Goto(t, "try") /\ req' = [req EXCEPT ![t] = Enriching(req[t].got)])
          BY <2>14 DEF Persist
        <5>2. [req EXCEPT ![t] = Enriching(req[t].got)] \in [Tasks -> Requests]
          BY <2>r, <4>1, RequestTypes
        <5> QED
          BY <2>g, <4>1, <5>1, <5>2, ReturnTypes
    <3>2. /\ owner' \in [Inodes -> Tasks \cup {NoOne}] /\ fd' \in [Tasks -> Inodes \cup {0}]
          /\ mutex' \in [Managers -> Tasks \cup {NoOne}]
      BY <2>14, ReturnTypes DEF Persist
    <3>3. mem' \in [Managers -> 0 .. MaxMint] /\ disk' \in 0 .. MaxMint /\ faults' \in 0 .. MaxFaults
      BY <1>f, <2>14, <2>m, <2>r, RememberTypes DEF TypeOK, Persist, m
    <3> QED
      BY <2>14, <3>1, <3>2, <3>3 DEF TypeOK, Persist
  <2>15. CASE EnrichRead(t)
    <3>1. pc' \in [Tasks -> Labels] /\ req' \in [Tasks -> Requests]
      BY <2>15, <2>g, ReturnTypes DEF TypeOK, EnrichRead, Labels
    <3>2. /\ owner' \in [Inodes -> Tasks \cup {NoOne}] /\ fd' \in [Tasks -> Inodes \cup {0}]
          /\ mutex' \in [Managers -> Tasks \cup {NoOne}]
      BY <2>15, ReturnTypes DEF TypeOK, EnrichRead
    <3> QED
      BY <2>15, <3>1, <3>2 DEF TypeOK, EnrichRead
  <2>16. CASE EnrichWrite(t)
    <3>1. mem' \in [Managers -> 0 .. MaxMint] /\ disk' \in 0 .. MaxMint /\ excused' \in BOOLEAN
      BY <2>16, <2>m, <2>r, RememberTypes DEF TypeOK, EnrichWrite, m
    <3> QED
      BY <2>16, <3>1, ReturnTypes DEF TypeOK, EnrichWrite
  <2> QED
    BY <1>2, <2>1, <2>2, <2>3, <2>4, <2>5, <2>6, <2>7, <2>8, <2>9, <2>10, <2>11, <2>12, <2>13, <2>14,
       <2>15, <2>16 DEF Refreshing
<1>3. ASSUME NEW t \in Tasks, Request(t) \/ Unauthorized(t) \/ AnswerLost(t)
      PROVE  TypeOK'
  <2>g. \A l \in Labels : Goto(t, l) => pc' \in [Tasks -> Labels]
    BY DEF TypeOK, Goto
  <2>1. CASE Request(t)
    BY <2>1, <2>g DEF TypeOK, Request, Labels
  <2>2. CASE Unauthorized(t)
    <3>1. mem[ManagerOf[t]] \in 0 .. MaxMint
      BY <1>m DEF TypeOK
    <3>2. pc' \in [Tasks -> Labels] /\ req' \in [Tasks -> Requests]
      BY <2>2, <2>g, <3>1, RequestTypes DEF TypeOK, Unauthorized, Labels
    <3> QED
      BY <2>2, <3>2 DEF TypeOK, Unauthorized
  <2>3. CASE AnswerLost(t)
    <3>1. req[t].tried \in 0 .. MaxMint
      BY DEF TypeOK, Requests
    <3>2. minted' \in Credentials /\ spent' \subseteq Credentials
      <4>1. req[t].tried \in 1 .. MaxMint /\ Grant(req[t].tried)
        BY <2>3, <3>1, CredentialTypes DEF SentInv, AnswerLost
      <4> QED
        BY <4>1, GrantTypes
    <3> QED
      BY <1>f, <2>3, <3>2, ReturnTypes DEF TypeOK, AnswerLost, Grant
  <2> QED
    BY <1>3, <2>1, <2>2, <2>3
<1>4. ASSUME NEW m \in Managers, ForceReload(m) \/ Logout(m) \/ VerdictAges(m)
      PROVE  TypeOK'
  <2>1. CASE ForceReload(m)
    BY <2>1, RememberTypes DEF TypeOK, ForceReload
  <2>2. CASE Logout(m)
    <3>1. mem' \in [Managers -> 0 .. MaxMint] /\ disk' \in 0 .. MaxMint
      BY <2>2, RememberTypes, CredentialTypes DEF TypeOK, Logout
    <3> QED
      BY <1>f, <2>2, <3>1, OpenedType DEF TypeOK, Logout
  <2>3. CASE VerdictAges(m)
    BY <2>3, CredentialTypes DEF TypeOK, VerdictAges, NoVerdict
  <2> QED
    BY <1>4, <2>1, <2>2, <2>3
<1>5. ASSUME NEW m \in Managers, Crash(m)
      PROVE  TypeOK'
  <2>1. pc' \in [Tasks -> Labels]
    BY <1>5 DEF TypeOK, Crash, Labels
  <2>2. req' \in [Tasks -> Requests]
    <3>1. NoRequest \in Requests
      BY CredentialTypes DEF Requests, NoRequest
    <3> QED
      BY <1>5, <3>1 DEF TypeOK, Crash
  <2>3. owner' \in [Inodes -> Tasks \cup {NoOne}] /\ fd' \in [Tasks -> Inodes \cup {0}]
    BY <1>5 DEF TypeOK, Crash
  <2>4. /\ mutex' \in [Managers -> Tasks \cup {NoOne}] /\ mem' \in [Managers -> 0 .. MaxMint]
        /\ verdict' \in [Managers -> [key : 0 .. MaxMint, sticky : BOOLEAN]]
    BY <1>5, CredentialTypes DEF TypeOK, Crash, NoVerdict
  <2>5. excused' \in BOOLEAN
    BY <1>5 DEF TypeOK, Crash
  <2> QED
    BY <1>f, <1>5, <2>1, <2>2, <2>3, <2>4, <2>5 DEF TypeOK, Crash
<1>6. CASE InfoAges \/ LeftBehind \/ TokensExpire \/ Revoke
  BY <1>f, <1>6, CredentialTypes
     DEF TypeOK, InfoAges, LeftBehind, LeftLocks, LeftWrites, LeftCloses, TokensExpire, Revoke, Credentials
<1>7. CASE UNCHANGED vars
  BY <1>7 DEF TypeOK, vars
<1> QED
  BY <1>1, <1>2, <1>3, <1>4, <1>5, <1>6, <1>7 DEF Next, Environment, Step

\* Every step keeps it: what a task sends next is the credential it just found.
LEMMA SentStep == TypeOK /\ SentInv /\ [Next]_vars => SentInv'
<1> SUFFICES ASSUME TypeOK, SentInv, [Next]_vars
             PROVE  SentInv'
  OBVIOUS
<1> USE DEF provider, managers, lockFile, left
<1>1. ASSUME NEW t \in Tasks, Step(t) \/ AnswerLost(t) \/ Request(t) \/ Unauthorized(t),
             pc'[t] \in {"exchange", "exchange2"} => req'[t].tried # 0
      PROVE  SentInv'
  BY <1>1, OthersStay DEF SentInv
<1>2. ASSUME NEW t \in Tasks, Step(t) \/ AnswerLost(t) \/ Request(t) \/ Unauthorized(t)
      PROVE  pc'[t] \in {"exchange", "exchange2"} => req'[t].tried # 0
  <2>i. WithLock[req[t].want] \notin {"exchange", "exchange2"}
    BY LockingLeads
  <2>s. \A k \in 0 .. MaxMint : Set(t, "tried", k) => req'[t].tried = k
    BY DEF Set, TypeOK, Requests
  <2>1. CASE Locking(t)
    BY <2>1, Goes, <2>i
       DEF Locking, TryLock, UnlinkStale, OpenToWait, Wake, WaitTimeout, WaitLeavesThread, IdentifyHolder
  <2>2. CASE ChooseCredential(t)
    <3>1. Resolve(ManagerOf[t], req[t].reason) \in 0 .. MaxMint
      BY AuthAssumption, KnownTypes
    <3> QED
      BY <2>2, Goes, <2>s, <3>1 DEF ChooseCredential
  <2>3. CASE RetryWithDisk(t)
    <3>1. disk \in 0 .. MaxMint /\ (disk \in 1 .. expired => disk # 0)
      BY CredentialTypes DEF TypeOK
    <3> QED
      BY <2>3, Goes, <2>s, <3>1 DEF RetryWithDisk
  <2>4. CASE AnswerLost(t)
    BY <2>4, Goes DEF AnswerLost, SentInv
  <2>5. CASE Request(t) \/ Unauthorized(t)
    BY <2>5, Goes DEF Request, Unauthorized
  <2>6. CASE \/ ReloadFromDisk(t) \/ CheckVerdict(t) \/ TakeRefreshLock(t) \/ AdoptDisk(t) \/ GiveUp(t)
             \/ RevalidateLock(t) \/ Defer(t)
    BY <2>6, Goes
       DEF ReloadFromDisk, CheckVerdict, TakeRefreshLock, AdoptDisk, GiveUp, RevalidateLock, Defer
  <2>7. CASE \/ ExchangeGranted(t) \/ ExchangeRejected(t) \/ ExchangeFails(t) \/ PermanentFailure(t)
             \/ Persist(t) \/ EnrichRead(t) \/ EnrichWrite(t)
    BY <2>7, Goes
       DEF ExchangeGranted, ExchangeRejected, ExchangeFails, PermanentFailure, Persist, EnrichRead,
           EnrichWrite
  <2> QED
    BY <1>2, <2>1, <2>2, <2>3, <2>4, <2>5, <2>6, <2>7 DEF Step, Refreshing
<1>3. ASSUME NEW m \in Managers, Crash(m)
      PROVE  SentInv'
  BY <1>3 DEF Crash, SentInv, TypeOK
<1>4. CASE UNCHANGED <<pc, req>>
  BY <1>4 DEF SentInv
<1>5. ASSUME NEW m \in Managers, ForceReload(m) \/ Logout(m) \/ VerdictAges(m)
      PROVE  UNCHANGED <<pc, req>>
  BY <1>5 DEF ForceReload, Logout, VerdictAges
<1>6. InfoAges \/ LeftBehind \/ TokensExpire \/ Revoke \/ UNCHANGED vars => UNCHANGED <<pc, req>>
  BY DEF InfoAges, LeftBehind, LeftLocks, LeftWrites, LeftCloses, TokensExpire, Revoke, vars
<1> QED
  BY <1>1, <1>2, <1>3, <1>4, <1>5, <1>6 DEF Next, Environment

LEMMA Typing == Spec => [](TypeOK /\ SentInv)
<1>1. Init => TypeOK /\ SentInv
  <2> SUFFICES ASSUME Init PROVE TypeOK /\ SentInv
    OBVIOUS
  <2>1. NoRequest \in Requests
    BY CredentialTypes DEF Requests, NoRequest
  <2>2. Enriching(1) \in Requests
    BY <2>1, CredentialTypes DEF Requests, Enriching
  <2>3. 1 \in Inodes
    BY AuthAssumption, FS_CardinalityType DEF Inodes
  <2>4. pc \in [Tasks -> {"try", "idle"}] /\ req \in [Tasks -> Requests]
    BY <2>1, <2>2 DEF Init
  <2>5. pc \in [Tasks -> Labels]
    BY <2>4 DEF Labels
  <2>6. TypeOK
    <3>1. 0 \in 0 .. MaxMint /\ 1 \in 0 .. MaxMint /\ 0 \in 0 .. MaxFaults /\ 1 \in Credentials
      BY CredentialTypes, AuthAssumption
    <3>2. NoVerdict \in [key : 0 .. MaxMint, sticky : BOOLEAN]
      BY <3>1 DEF NoVerdict
    <3> QED
      BY <2>3, <2>4, <2>5, <3>1, <3>2 DEF Init, TypeOK
  <2>7. SentInv
    BY <2>4 DEF SentInv
  <2> QED
    BY <2>6, <2>7
<1> QED
  BY <1>1, TypeStep, SentStep, PTL DEF Spec

\* Every variable of the model keeps its type; the tokens the provider has exchanged are ones it
\* issued (manager.rs refresh_chain, refresh.rs, storage.rs).
THEOREM TypeCorrect == Spec => []TypeOK
BY Typing, PTL
-----------------------------------------------------------------------------
(* The file lock. *)

\* A task that goes on with what it has.
LEMMA LabelKeepsFileInv ==
    ASSUME TypeOK, FileInv, NEW t \in Tasks, NEW l, Goto(t, l), UNCHANGED <<owner, fd>>,
           \/ l \in Keeping /\ Has(t)
           \/ l \in MayKeep /\ (fd[t] = 0 \/ Has(t))
           \/ l \notin Keeping \cup {"blocked"} /\ fd[t] = 0
    PROVE  FileInv'
BY DEF FileInv, Has, Goto, TypeOK, Keeping, MayKeep

\* A task that gets the lock nobody has, on the inode it has open or opens.
LEMMA LockKeepsFileInv ==
    ASSUME TypeOK, FileInv, NEW t \in Tasks, NEW i \in Inodes, owner[i] = NoOne, fd[t] \in {0, i},
           owner' = [owner EXCEPT ![i] = t], fd' = [fd EXCEPT ![t] = i], Goto(t, "identify")
    PROVE  FileInv'
<1>1. t # NoOne /\ 0 \notin Inodes
  BY AuthAssumption, InodesAreNumbers
<1>2. \A j \in Inodes : owner'[j] # NoOne => fd'[owner'[j]] = j
  BY <1>1 DEF FileInv, TypeOK
<1>3. Has(t)' /\ \A u \in Tasks \ {t} : fd'[u] = fd[u] /\ (Has(u)' <=> Has(u))
  <2>1. Has(t)'
    BY <1>1 DEF Has, TypeOK
  <2>2. ASSUME NEW u \in Tasks \ {t}
        PROVE  fd'[u] = fd[u] /\ (Has(u)' <=> Has(u))
    <3>1. fd'[u] = fd[u] /\ fd[u] \in Inodes \cup {0} /\ u # NoOne
      BY AuthAssumption DEF TypeOK
    <3>2. CASE fd[u] = i
      BY <1>1, <3>1, <3>2 DEF Has, TypeOK
    <3>3. CASE fd[u] # i
      BY <3>1, <3>3 DEF Has, TypeOK
    <3> QED
      BY <3>1, <3>2, <3>3
  <2> QED
    BY <2>1, <2>2
<1>4. pc'[t] = "identify" /\ \A u \in Tasks \ {t} : pc'[u] = pc[u]
  BY DEF Goto, TypeOK
<1> QED
  BY <1>2, <1>3, <1>4 DEF FileInv, Keeping, MayKeep

\* A task opens the file to wait for the lock.
LEMMA OpenKeepsFileInv ==
    ASSUME TypeOK, FileInv, NEW t \in Tasks, NEW i \in Inodes, fd[t] = 0,
           fd' = [fd EXCEPT ![t] = i], Goto(t, "blocked"), UNCHANGED owner
    PROVE  FileInv'
<1>1. t # NoOne /\ 0 \notin Inodes
  BY AuthAssumption, InodesAreNumbers
<1>2. owner[i] # t
  BY <1>1 DEF FileInv
<1>3. \A j \in Inodes : owner'[j] # NoOne => fd'[owner'[j]] = j
  BY <1>1 DEF FileInv, TypeOK
<1>4. ~Has(t)' /\ fd'[t] = i /\ \A u \in Tasks \ {t} : fd'[u] = fd[u] /\ (Has(u)' <=> Has(u))
  BY <1>1, <1>2 DEF Has, TypeOK
<1>5. pc'[t] = "blocked" /\ \A u \in Tasks \ {t} : pc'[u] = pc[u]
  BY DEF Goto, TypeOK
<1> QED
  BY <1>1, <1>3, <1>4, <1>5 DEF FileInv, Keeping, MayKeep

\* A task that does not have the lock leaves the file to its thread.
LEMMA LeaveKeepsFileInv ==
    ASSUME TypeOK, FileInv, NEW t \in Tasks, ~Has(t), fd' = [fd EXCEPT ![t] = 0],
           NEW l, l \notin Keeping \cup {"blocked"}, Goto(t, l), UNCHANGED owner
    PROVE  FileInv'
<1>1. t # NoOne /\ 0 \notin Inodes
  BY AuthAssumption, InodesAreNumbers
<1>2. \A j \in Inodes : owner'[j] # NoOne => fd'[owner'[j]] = j
  BY <1>1 DEF FileInv, Has, TypeOK
<1>3. fd'[t] = 0 /\ \A u \in Tasks \ {t} : fd'[u] = fd[u] /\ (Has(u)' <=> Has(u))
  BY <1>1 DEF Has, TypeOK
<1>4. pc'[t] = l /\ \A u \in Tasks \ {t} : pc'[u] = pc[u]
  BY DEF Goto, TypeOK
<1> QED
  BY <1>2, <1>3, <1>4 DEF FileInv

\* Closing the file gives the lock up, that of no other task.
LEMMA CloseKeepsFileInv ==
    ASSUME TypeOK, FileInv, NEW t \in Tasks, Close(t), NEW l, l \notin Keeping \cup {"blocked"}, Goto(t, l)
    PROVE  FileInv'
<1>1. t # NoOne /\ 0 \notin Inodes
  BY AuthAssumption, InodesAreNumbers
<1>2. \A j \in Inodes : owner'[j] # NoOne => owner'[j] = owner[j] /\ owner[j] # t
  BY DEF Close, TypeOK
<1>3. \A j \in Inodes : owner'[j] # NoOne => fd'[owner'[j]] = j
  BY <1>2 DEF FileInv, Close, TypeOK
<1>4. fd'[t] = 0 /\ \A u \in Tasks \ {t} : fd'[u] = fd[u] /\ (Has(u)' <=> Has(u))
  BY <1>1, AuthAssumption DEF Has, Close, TypeOK
<1>5. pc'[t] = l /\ \A u \in Tasks \ {t} : pc'[u] = pc[u]
  BY DEF Goto, TypeOK
<1> QED
  BY <1>3, <1>4, <1>5 DEF FileInv

\* A dead process has nothing open, and no lock of another goes with it.
LEMMA CrashKeepsFileInv ==
    ASSUME TypeOK, FileInv, NEW m \in Managers, Crash(m)
    PROVE  FileInv'
<1> DEFINE T == {t \in Tasks : ManagerOf[t] = m}
<1>1. NoOne \notin Tasks /\ 0 \notin Inodes
  BY AuthAssumption, InodesAreNumbers
<1>2. \A j \in Inodes : owner'[j] # NoOne => owner'[j] = owner[j] /\ owner[j] \notin T
  BY DEF Crash
<1>3. \A j \in Inodes : owner'[j] # NoOne => fd'[owner'[j]] = j
  BY <1>2 DEF FileInv, Crash, TypeOK
<1>4. \A u \in Tasks \ T : pc'[u] = pc[u] /\ fd'[u] = fd[u] /\ (Has(u)' <=> Has(u))
  BY <1>1 DEF Has, Crash, TypeOK
<1>5. \A u \in T : pc'[u] = "idle" /\ fd'[u] = 0
  BY DEF Crash
<1> QED
  BY <1>3, <1>4, <1>5 DEF FileInv, Keeping, MayKeep

\* Every step keeps what the labels say of the file and its lock.
LEMMA FileStep == TypeOK /\ FileInv /\ [Next]_vars => FileInv'
<1> SUFFICES ASSUME TypeOK, FileInv, [Next]_vars
             PROVE  FileInv'
  OBVIOUS
<1>n. \A t \in Tasks :
          /\ pc[t] \in Keeping   => Has(t)
          /\ pc[t] \in MayKeep   => fd[t] = 0 \/ Has(t)
          /\ pc[t] = "blocked"   => fd[t] # 0 /\ ~Has(t)
          /\ pc[t] \notin Keeping \cup MayKeep \cup {"blocked"} => fd[t] = 0
  BY DEF FileInv
<1>t. /\ pc \in [Tasks -> Labels] /\ fd \in [Tasks -> Inodes \cup {0}]
      /\ owner \in [Inodes -> Tasks \cup {NoOne}] /\ 0 \notin Inodes
  BY InodesAreNumbers DEF TypeOK
<1> USE DEF provider, managers, lockFile, left
<1>r. \A t \in Tasks : Return(t) => FileInv'
  BY CloseKeepsFileInv DEF Return, LetGo, Keeping
<1>1. ASSUME NEW t \in Tasks, Locking(t)
      PROVE  FileInv'
  <2>l. /\ AfterBusy(t) \/ AfterUnlinked(t) =>
               \E l \in {"open", "try", "timedOut", "quit", "reload", "enrichRead"} : Goto(t, l)
        /\ WithLock[req[t].want] \in {"adopt", "readopt", "reload", "enrichRead"}
    BY LockingLeads
  <2>b. (AfterBusy(t) \/ AfterUnlinked(t)) /\ fd[t] = 0 /\ UNCHANGED <<owner, fd>> => FileInv'
    <3>1. \A l \in {"open", "try", "timedOut", "quit", "reload", "enrichRead"} :
              l \notin Keeping \cup {"blocked"}
      BY DEF Keeping
    <3> QED
      BY <2>l, <3>1, LabelKeepsFileInv
  <2>1. CASE TryLock(t)
    <3>0. fd[t] = 0
      BY <1>n, <2>1 DEF TryLock, Keeping, MayKeep
    <3>1. CASE Free(Opened)
      BY <2>1, <3>0, <3>1, OpenedType, LockKeepsFileInv DEF TryLock, Free
    <3>2. CASE ~Free(Opened) /\ stale
      BY <2>1, <3>0, <3>2, LabelKeepsFileInv DEF TryLock, Keeping
    <3>3. CASE ~Free(Opened) /\ ~stale
      BY <2>1, <2>b, <3>0, <3>3 DEF TryLock
    <3> QED
      BY <3>1, <3>2, <3>3
  <2>2. CASE UnlinkStale(t)
    <3>0. fd[t] = 0
      BY <1>n, <2>2 DEF UnlinkStale, Keeping, MayKeep
    <3> QED
      BY <2>2, <2>b, <3>0 DEF UnlinkStale
  <2>3. CASE OpenToWait(t)
    <3>0. fd[t] = 0
      BY <1>n, <2>3 DEF OpenToWait, Keeping, MayKeep
    <3> QED
      BY <2>3, <3>0, OpenedType, OpenKeepsFileInv DEF OpenToWait
  <2>4. CASE Wake(t)
    <3>1. fd[t] \in Inodes /\ fd' = [fd EXCEPT ![t] = fd[t]]
      BY <1>n, <1>t, <2>4 DEF Wake
    <3> QED
      BY <2>4, <3>1, LockKeepsFileInv DEF Wake, Free
  <2>5. CASE WaitTimeout(t)
    <3>1. ~Has(t)
      BY <1>n, <2>5 DEF WaitTimeout, Has, Keeping, MayKeep
    <3> QED
      BY <2>5, <3>1, LeaveKeepsFileInv DEF WaitTimeout, Keeping
  <2>6. CASE IdentifyHolder(t)
    <3>0. Has(t)
      BY <1>n, <2>6 DEF IdentifyHolder, Keeping
    <3>1. CASE fd[t] = lockName
      <4>1. \A l \in {"adopt", "readopt", "reload", "enrichRead"} : l \in Keeping \cup MayKeep
        BY DEF Keeping, MayKeep
      <4> QED
        BY <2>6, <2>l, <3>0, <3>1, <4>1, LabelKeepsFileInv DEF IdentifyHolder
    <3>2. CASE fd[t] # lockName
      <4>1. \A l \in {"open", "try", "timedOut", "quit", "reload", "enrichRead"} :
                l \notin Keeping \cup {"blocked"}
        BY DEF Keeping
      <4> QED
        BY <2>6, <2>l, <3>2, <4>1, CloseKeepsFileInv DEF IdentifyHolder
    <3> QED
      BY <3>1, <3>2
  <2>7. CASE WaitLeavesThread(t)
    BY <2>7, CloseKeepsFileInv DEF WaitLeavesThread, Keeping
  <2> QED
    BY <1>1, <2>1, <2>2, <2>3, <2>4, <2>5, <2>6, <2>7 DEF Locking
<1>2. ASSUME NEW t \in Tasks, Refreshing(t)
      PROVE  FileInv'
  <2>g. ASSUME NEW l, Goto(t, l), UNCHANGED <<owner, fd>>,
               \/ pc[t] \in Keeping /\ l \in Keeping \cup MayKeep
               \/ pc[t] \in MayKeep /\ l \in MayKeep
               \/ l \notin Keeping \cup {"blocked"} /\ fd[t] = 0
        PROVE  FileInv'
    BY <1>n, <2>g, LabelKeepsFileInv
  <2>1. CASE ReloadFromDisk(t)
    BY <1>r, <2>1, CloseKeepsFileInv DEF ReloadFromDisk, Keeping
  <2>2. CASE CheckVerdict(t)
    <3>1. fd[t] = 0
      BY <1>n, <2>2 DEF CheckVerdict, Keeping, MayKeep
    <3> QED
      BY <1>r, <2>2, <2>g, <3>1 DEF CheckVerdict, Keeping
  <2>3. CASE TakeRefreshLock(t)
    <3>1. fd[t] = 0
      BY <1>n, <2>3 DEF TakeRefreshLock, Keeping, MayKeep
    <3> QED
      BY <1>r, <2>3, <2>g, <3>1 DEF TakeRefreshLock, StartLocking, Keeping
  <2>4. CASE AdoptDisk(t)
    BY <1>r, <2>4, <2>g DEF AdoptDisk, Keeping
  <2>5. CASE GiveUp(t) \/ Defer(t)
    BY <1>r, <2>5 DEF GiveUp, Defer
  <2>6. CASE RevalidateLock(t)
    BY <2>6, <2>g, CloseKeepsFileInv DEF RevalidateLock, StartLocking, Keeping
  <2>7. CASE ChooseCredential(t)
    BY <1>r, <2>7, <2>g DEF ChooseCredential, Keeping
  <2>8. CASE ExchangeGranted(t) \/ ExchangeRejected(t) \/ RetryWithDisk(t)
    BY <2>8, <2>g DEF ExchangeGranted, ExchangeRejected, RetryWithDisk, Keeping
  <2>9. CASE ExchangeFails(t)
    BY <1>r, <2>9, <2>g DEF ExchangeFails, Keeping
  <2>10. CASE PermanentFailure(t) \/ EnrichWrite(t)
    BY <1>r, <2>10 DEF PermanentFailure, EnrichWrite
  <2>11. CASE Persist(t)
    BY <1>r, <2>11, CloseKeepsFileInv DEF Persist, LetGo, Keeping
  <2>12. CASE EnrichRead(t)
    BY <1>r, <2>12, <2>g DEF EnrichRead, MayKeep
  <2> QED
    BY <1>2, <2>1, <2>2, <2>3, <2>4, <2>5, <2>6, <2>7, <2>8, <2>9, <2>10, <2>11, <2>12 DEF Refreshing
<1>3. ASSUME NEW t \in Tasks, Request(t) \/ Unauthorized(t) \/ AnswerLost(t)
      PROVE  FileInv'
  <2>1. CASE Request(t) \/ Unauthorized(t)
    <3>1. fd[t] = 0
      BY <1>n, <2>1 DEF Request, Unauthorized, Keeping, MayKeep
    <3> QED
      BY <2>1, <3>1, LabelKeepsFileInv DEF Request, Unauthorized, Keeping
  <2>2. CASE AnswerLost(t)
    <3>1. UNCHANGED <<pc, owner, fd>> => FileInv'
      BY DEF FileInv, Has
    <3> QED
      BY <1>r, <2>2, <3>1 DEF AnswerLost
  <2> QED
    BY <1>3, <2>1, <2>2
<1>4. ASSUME UNCHANGED <<pc, owner, fd>>
      PROVE  FileInv'
  BY <1>4 DEF FileInv, Has
<1>5. ASSUME NEW m \in Managers, ForceReload(m) \/ Logout(m) \/ VerdictAges(m)
      PROVE  UNCHANGED <<pc, owner, fd>>
  BY <1>5 DEF ForceReload, Logout, VerdictAges
<1>6. InfoAges \/ LeftBehind \/ TokensExpire \/ Revoke \/ UNCHANGED vars => UNCHANGED <<pc, owner, fd>>
  BY DEF InfoAges, LeftBehind, LeftLocks, LeftWrites, LeftCloses, TokensExpire, Revoke, vars
<1> QED
  BY <1>1, <1>2, <1>3, <1>4, <1>5, <1>6, CrashKeepsFileInv DEF Next, Environment, Step

\* A step of a task that leaves the name alone, or renames it when nobody relies on it.
LEMMA TaskKeepsRelyInv ==
    ASSUME TypeOK, RelyInv, NEW t \in Tasks, Step(t) \/ AnswerLost(t) \/ Request(t) \/ Unauthorized(t),
           excused => excused',
           ~excused' => lockName' = lockName \/ \A u \in Tasks : pc[u] \in Relying => fd[u] = 0,
           pc'[t] \in Relying => \/ fd'[t] \in {0, lockName'}
                                 \/ pc[t] \in Relying /\ fd'[t] = fd[t]
    PROVE  RelyInv'
<1> SUFFICES ASSUME ~excused', NEW u \in Tasks, pc'[u] \in Relying, fd'[u] # 0
             PROVE  fd'[u] = lockName'
  BY DEF RelyInv
<1>1. \A v \in Tasks : pc[v] \in Relying /\ fd[v] # 0 => fd[v] = lockName'
  BY DEF RelyInv
<1>2. CASE u = t
  BY <1>1, <1>2
<1>3. CASE u # t
  BY <1>1, <1>3, OthersStay
<1> QED
  BY <1>2, <1>3

\* Every step keeps it: who cannot see the file any more looks at the lock again, or is excused.
LEMMA RelyStep == TypeOK /\ FileInv /\ RelyInv /\ [Next]_vars => RelyInv'
<1> SUFFICES ASSUME TypeOK, FileInv, RelyInv, [Next]_vars
             PROVE  RelyInv'
  OBVIOUS
<1> USE DEF provider, managers, lockFile, left
<1>o. OpenLockFile /\ ~excused => lockName' = lockName \/ \A u \in Tasks : pc[u] \in Relying => fd[u] = 0
  BY OpenedType DEF OpenLockFile, RelyInv
<1>1. ASSUME NEW t \in Tasks, Locking(t)
      PROVE  RelyInv'
  <2>s. Step(t)
    BY <1>1 DEF Step
  <2>1. CASE TryLock(t)
    <3>1. CASE Free(Opened)
      BY <1>o, <2>s, <2>1, <3>1, Goes, TaskKeepsRelyInv DEF TryLock, Relying
    <3>2. CASE ~Free(Opened)
      <4>1. fd'[t] = 0
        BY <2>1, <3>2 DEF TryLock, FileInv, Keeping, MayKeep
      <4> QED
        BY <1>o, <2>s, <2>1, <4>1, TaskKeepsRelyInv DEF TryLock
    <3> QED
      BY <3>1, <3>2
  <2>2. CASE UnlinkStale(t)
    <3>1. fd'[t] = 0
      BY <2>2 DEF UnlinkStale, FileInv, Keeping, MayKeep
    <3>2. ~excused' => \A u \in Tasks : pc[u] \in Relying => fd[u] = 0
      BY <2>2 DEF UnlinkStale, RelyInv
    <3> QED
      BY <2>s, <2>2, <3>1, <3>2, TaskKeepsRelyInv DEF UnlinkStale
  <2>3. CASE OpenToWait(t)
    BY <1>o, <2>s, <2>3, Goes, TaskKeepsRelyInv DEF OpenToWait, Relying
  <2>4. CASE Wake(t) \/ WaitTimeout(t) \/ WaitLeavesThread(t)
    BY <2>s, <2>4, Goes, TaskKeepsRelyInv DEF Wake, WaitTimeout, WaitLeavesThread, Relying
  <2>5. CASE IdentifyHolder(t)
    <3>1. fd'[t] \in {0, lockName'}
      BY <2>5 DEF IdentifyHolder, Close, TypeOK
    <3> QED
      BY <2>s, <2>5, <3>1, TaskKeepsRelyInv DEF IdentifyHolder
  <2> QED
    BY <1>1, <2>1, <2>2, <2>3, <2>4, <2>5 DEF Locking
<1>2. ASSUME NEW t \in Tasks, Refreshing(t)
      PROVE  RelyInv'
  <2>s. Step(t)
    BY <1>2 DEF Step
  <2>1. ASSUME UNCHANGED lockName, excused => excused', pc'[t] \notin Relying
        PROVE  RelyInv'
    BY <2>s, <2>1, TaskKeepsRelyInv
  <2>2. ASSUME UNCHANGED <<lockName, excused, fd>>, pc[t] \in Relying \/ fd[t] \in {0, lockName}
        PROVE  RelyInv'
    BY <2>s, <2>2, TaskKeepsRelyInv
  <2>3. ASSUME UNCHANGED lockName, excused => excused', Return(t)
        PROVE  RelyInv'
    BY <2>1, <2>3, Goes DEF Relying
  <2>4. CASE ReloadFromDisk(t) \/ CheckVerdict(t) \/ TakeRefreshLock(t) \/ GiveUp(t) \/ Defer(t)
    BY <2>1, <2>3, <2>4, Goes
       DEF ReloadFromDisk, CheckVerdict, TakeRefreshLock, GiveUp, Defer, Relying
  <2>5. CASE AdoptDisk(t)
    BY <2>1, <2>2, <2>3, <2>5, Goes DEF AdoptDisk, Relying
  <2>6. CASE RevalidateLock(t)
    BY <2>1, <2>2, <2>6, Goes DEF RevalidateLock, Relying
  <2>7. CASE ChooseCredential(t) \/ ExchangeFails(t)
    BY <2>1, <2>2, <2>3, <2>7, Goes DEF ChooseCredential, ExchangeFails, Relying
  <2>8. CASE ExchangeGranted(t) \/ ExchangeRejected(t) \/ RetryWithDisk(t)
    BY <2>2, <2>8 DEF ExchangeGranted, ExchangeRejected, RetryWithDisk, Relying
  <2>9. CASE PermanentFailure(t) \/ EnrichWrite(t)
    BY <2>3, <2>9 DEF PermanentFailure, EnrichWrite
  <2>10. CASE Persist(t)
    BY <2>1, <2>3, <2>10, Goes DEF Persist, Relying
  <2>11. CASE EnrichRead(t)
    BY <2>2, <2>3, <2>11 DEF EnrichRead, Relying
  <2> QED
    BY <1>2, <2>4, <2>5, <2>6, <2>7, <2>8, <2>9, <2>10, <2>11 DEF Refreshing
<1>3. ASSUME NEW t \in Tasks, Request(t) \/ Unauthorized(t) \/ AnswerLost(t)
      PROVE  RelyInv'
  <2>1. CASE Request(t) \/ Unauthorized(t)
    <3>1. pc'[t] \notin Relying /\ UNCHANGED <<lockName, excused>>
      BY <2>1, Goes DEF Request, Unauthorized, Relying
    <3> QED
      BY <2>1, <3>1, TaskKeepsRelyInv
  <2>2. CASE AnswerLost(t)
    BY <2>2 DEF AnswerLost, RelyInv
  <2> QED
    BY <1>3, <2>1, <2>2
<1>4. ASSUME NEW m \in Managers, Logout(m)
      PROVE  RelyInv'
  <2>1. excused => excused'
    BY <1>4 DEF Logout
  <2>2. ~excused' => lockName' = lockName \/ \A u \in Tasks : pc[u] \in Relying => fd[u] = 0
    BY <1>4, <2>1, OpenedType DEF Logout, RelyInv
  <2> QED
    BY <1>4, <2>1, <2>2 DEF Logout, RelyInv
<1>5. ASSUME NEW m \in Managers, Crash(m)
      PROVE  RelyInv'
  BY <1>5 DEF Crash, RelyInv, Relying
<1>6. ASSUME UNCHANGED <<pc, fd, lockName, excused>>
      PROVE  RelyInv'
  BY <1>6 DEF RelyInv
<1>7. ASSUME NEW m \in Managers, ForceReload(m) \/ VerdictAges(m)
      PROVE  RelyInv'
  BY <1>6, <1>7 DEF ForceReload, VerdictAges
<1>8. CASE InfoAges \/ LeftBehind \/ TokensExpire \/ Revoke \/ UNCHANGED vars
  BY <1>6, <1>8 DEF InfoAges, LeftBehind, LeftLocks, LeftWrites, LeftCloses, TokensExpire, Revoke, vars
<1> QED
  BY <1>1, <1>2, <1>3, <1>4, <1>5, <1>7, <1>8 DEF Next, Environment, Step
-----------------------------------------------------------------------------
(* The credentials. *)

\* Two tasks never rely on the lock at once.
LEMMA RelyAlone ==
    ASSUME TypeOK, FileInv, RelyInv, ~excused,
           NEW t \in Tasks, pc[t] \in Relying, fd[t] # 0,
           NEW u \in Tasks, pc[u] \in Relying, fd[u] # 0
    PROVE  t = u
<1>1. fd[t] = lockName /\ fd[u] = lockName
  BY DEF RelyInv
<1>2. Relying \subseteq Keeping \cup MayKeep
  BY DEF Relying, Keeping, MayKeep
<1> QED
  BY <1>1, <1>2 DEF FileInv, Has

\* Labels with a credential to send or to store.
Minting == {"exchange", "exchange2", "rejected", "granted", "enrichWrite"}

\* What does not touch the provider, the disk, or the tasks with a credential in hand.
LEMMA QuietKeepsMintInv ==
    ASSUME TypeOK, MintInv, excused => excused',
           ~excused' => /\ UNCHANGED <<minted, spent, reused, disk>>
                        /\ \A m \in Managers : mem'[m] \in {mem[m], 0, disk}
                        /\ \A u \in Tasks : pc[u] = "granted" => pc'[u] = "granted"
                        /\ \A u \in Tasks : \/ pc'[u] \notin Minting
                                            \/ pc'[u] = pc[u] /\ req'[u] = req[u] /\ fd'[u] \in {fd[u], 0}
    PROVE  MintInv'
<1> SUFFICES ASSUME ~excused'
             PROVE  MintInv'
  BY DEF MintInv
<1>1. ~excused
  OBVIOUS
<1>2. minted' = minted /\ spent' = spent /\ reused' = reused /\ disk' = disk
  OBVIOUS
<1>3. ~reused' /\ spent' = 1 .. minted' - 1 /\ disk' \in 1 .. minted'
  BY <1>1, <1>2 DEF MintInv
<1>4. \A m \in Managers : mem'[m] <= disk'
  <2>1. disk \in Nat /\ \A m \in Managers : mem[m] <= disk
    BY <1>1, CredentialTypes DEF MintInv, TypeOK
  <2>2. \A m \in Managers : mem'[m] \in {mem[m], 0, disk}
    OBVIOUS
  <2> QED
    BY <1>2, <2>1, <2>2
<1>5. disk' = minted' \/ \E u \in Tasks : pc'[u] = "granted"
  BY <1>1, <1>2 DEF MintInv
<1>6. ASSUME NEW u \in Tasks
      PROVE  /\ pc'[u] \in {"exchange", "exchange2", "rejected"} => req'[u].tried = minted' /\ disk' = minted'
             /\ pc'[u] = "granted" => req'[u].got = minted'
             /\ pc'[u] = "enrichWrite" /\ fd'[u] # 0 => req'[u].got = disk'
  BY <1>1, <1>2 DEF MintInv, Minting
<1> QED
  BY <1>3, <1>4, <1>5, <1>6 DEF MintInv

\* A task that relies on the lock acts alone: nobody else has a credential in hand.
LEMMA AloneKeepsMintInv ==
    ASSUME TypeOK, FileInv, RelyInv, MintInv,
           NEW t \in Tasks, Step(t), pc[t] \in Relying, fd[t] # 0, ~excused,
           ~reused', minted' \in Nat, spent' = 1 .. minted' - 1, disk' \in 1 .. minted',
           \A m \in Managers : mem'[m] <= disk',
           disk' = minted' \/ pc'[t] = "granted",
           pc'[t] \in {"exchange", "exchange2", "rejected"} => req'[t].tried = minted' /\ disk' = minted',
           pc'[t] = "granted" => req'[t].got = minted',
           pc'[t] = "enrichWrite" => req'[t].got = disk'
    PROVE  MintInv'
<1>1. \A u \in Tasks \ {t} : pc'[u] = pc[u] /\ req'[u] = req[u] /\ fd'[u] = fd[u]
  BY OthersStay
<1>2. \A u \in Tasks \ {t} : pc[u] \in Relying => fd[u] = 0
  BY RelyAlone
<1>3. \A u \in Tasks \ {t} : pc[u] \notin {"exchange", "exchange2", "rejected", "granted"}
  BY <1>2 DEF Relying, FileInv, Has, Keeping
<1>4. \A u \in Tasks \ {t} : pc[u] = "enrichWrite" => fd[u] = 0
  BY <1>2 DEF Relying
<1> QED
  BY <1>1, <1>3, <1>4 DEF MintInv

\* What cannot be undone stays so.
LEMMA ExcusedStays == [Next]_vars => (excused => excused')
<1> SUFFICES ASSUME [Next]_vars, excused
             PROVE  excused'
  OBVIOUS
<1>1. ASSUME NEW t \in Tasks, Locking(t)
      PROVE  excused'
  BY <1>1 DEF Locking, TryLock, UnlinkStale, OpenToWait, Wake, WaitTimeout, WaitLeavesThread, IdentifyHolder
<1>2. ASSUME NEW t \in Tasks, Refreshing(t)
      PROVE  excused'
  BY <1>2 DEF Refreshing, ReloadFromDisk, CheckVerdict, TakeRefreshLock, AdoptDisk, GiveUp, RevalidateLock,
       Defer, ChooseCredential, ExchangeGranted, ExchangeRejected, ExchangeFails, RetryWithDisk,
       PermanentFailure, Persist, EnrichRead, EnrichWrite
<1>3. CASE Environment
  BY <1>3 DEF Environment, Request, Unauthorized, AnswerLost, ForceReload, Logout, VerdictAges, Crash,
       InfoAges, LeftBehind, LeftLocks, LeftWrites, LeftCloses, TokensExpire, Revoke
<1>4. CASE UNCHANGED vars
  BY <1>4 DEF vars
<1> QED
  BY <1>1, <1>2, <1>3, <1>4 DEF Next, Step

\* The disk only gets the newest credential, a process only what is on disk by then.
LEMMA CredentialSteps ==
    ASSUME TypeOK, MintInv, [Next]_vars, ~excused'
    PROVE  /\ ~excused
           /\ disk' \in {disk, minted}
           /\ \A m \in Managers : mem'[m] \in {mem[m], 0, disk'}
<1> USE DEF provider, managers, lockFile, left
<1>e. ~excused
  BY ExcusedStays
<1>m. \A m \in Managers : \A k : Remember(m, k) => \A n \in Managers : mem'[n] \in {mem[n], k}
  BY DEF Remember, TypeOK
<1>n. \A t \in Tasks : ManagerOf[t] \in Managers
  BY AuthAssumption
<1>1. ASSUME NEW t \in Tasks, Locking(t)
      PROVE  UNCHANGED <<disk, mem>>
  BY <1>1 DEF Locking, TryLock, UnlinkStale, OpenToWait, Wake, WaitTimeout, WaitLeavesThread, IdentifyHolder
<1>2. ASSUME NEW t \in Tasks, Refreshing(t)
      PROVE  disk' \in {disk, minted} /\ \A m \in Managers : mem'[m] \in {mem[m], 0, disk'}
  <2>1. CASE \/ ReloadFromDisk(t) \/ CheckVerdict(t) \/ TakeRefreshLock(t) \/ AdoptDisk(t) \/ GiveUp(t)
             \/ RevalidateLock(t) \/ Defer(t)
    BY <1>m, <1>n, <2>1
       DEF ReloadFromDisk, CheckVerdict, TakeRefreshLock, AdoptDisk, GiveUp, RevalidateLock, Defer
  <2>2. CASE \/ ChooseCredential(t) \/ ExchangeGranted(t) \/ ExchangeRejected(t) \/ ExchangeFails(t)
             \/ RetryWithDisk(t) \/ EnrichRead(t)
    BY <2>2
       DEF ChooseCredential, ExchangeGranted, ExchangeRejected, ExchangeFails, RetryWithDisk, EnrichRead
  <2>3. CASE PermanentFailure(t)
    BY <1>m, <1>n, <2>3 DEF PermanentFailure
  <2>4. CASE Persist(t)
    <3>1. disk' = req[t].got /\ req[t].got = minted
      BY <1>e, <2>4 DEF Persist, MintInv
    <3> QED
      BY <1>m, <1>n, <2>4, <3>1 DEF Persist
  <2>5. CASE EnrichWrite(t)
    <3>1. UNCHANGED <<disk, mem>> \/ (disk' = req[t].got /\ req[t].got = disk)
      BY <1>e, <2>5 DEF EnrichWrite, MintInv
    <3> QED
      BY <1>m, <1>n, <2>5, <3>1 DEF EnrichWrite
  <2> QED
    BY <1>2, <2>1, <2>2, <2>3, <2>4, <2>5 DEF Refreshing
<1>3. ASSUME Environment
      PROVE  disk' \in {disk, minted} /\ \A m \in Managers : mem'[m] \in {mem[m], 0, disk'}
  <2>1. ASSUME NEW m \in Managers, ForceReload(m) \/ Logout(m)
        PROVE  disk' = disk /\ \A n \in Managers : mem'[n] \in {mem[n], 0, disk}
    BY <1>e, <1>m, <2>1 DEF ForceReload, Logout
  <2>2. ASSUME NEW m \in Managers, Crash(m)
        PROVE  disk' = disk /\ \A n \in Managers : mem'[n] \in {mem[n], 0, disk}
    BY <2>2 DEF Crash, TypeOK
  <2>3. ASSUME \/ \E t \in Tasks : Request(t) \/ Unauthorized(t) \/ AnswerLost(t)
               \/ \E m \in Managers : VerdictAges(m)
               \/ InfoAges \/ LeftBehind \/ TokensExpire \/ Revoke
        PROVE  UNCHANGED <<disk, mem>>
    BY <2>3
       DEF Request, Unauthorized, AnswerLost, VerdictAges, InfoAges, LeftBehind, LeftLocks, LeftWrites,
           LeftCloses, TokensExpire, Revoke
  <2> QED
    BY <1>e, <1>3, <2>1, <2>2, <2>3 DEF Environment
<1>4. CASE UNCHANGED vars
  BY <1>e, <1>4 DEF vars
<1> QED
  BY <1>e, <1>1, <1>2, <1>3, <1>4 DEF Next, Step

\* What a request has in its fields when one of them is set.
LEMMA SetGives ==
    ASSUME TypeOK, NEW t \in Tasks, NEW k
    PROVE  /\ Set(t, "got", k) => req'[t].got = k /\ req'[t].tried = req[t].tried
           /\ Set(t, "tried", k) => req'[t].tried = k /\ req'[t].got = req[t].got
BY DEF Set, TypeOK, Requests

\* Every step hands the credentials on: the task that relies on the lock spends the newest one
\* and is the only one to store its successor.
LEMMA MintStep == TypeOK /\ FileInv /\ RelyInv /\ MintInv /\ [Next]_vars => MintInv'
<1> SUFFICES ASSUME TypeOK, FileInv, RelyInv, MintInv, [Next]_vars, ~excused'
             PROVE  MintInv'
  BY DEF MintInv
<1> USE DEF provider, managers, lockFile, left
<1>e. ~excused /\ \A m \in Managers : mem'[m] \in {mem[m], 0, disk'}
  BY CredentialSteps
<1>v. /\ ~reused /\ minted \in Nat /\ spent = 1 .. minted - 1 /\ disk \in 1 .. minted
      /\ \A m \in Managers : mem[m] <= disk
  BY <1>e, CredentialTypes DEF MintInv, TypeOK
<1>d. ASSUME NEW t \in Tasks, pc[t] \in Relying, fd[t] # 0, pc[t] # "granted"
      PROVE  disk = minted
  <2>1. \A u \in Tasks : pc[u] = "granted" => pc[u] \in Relying /\ fd[u] # 0
    BY DEF FileInv, Has, Keeping, Relying
  <2> QED
    BY <1>d, <1>e, <2>1, RelyAlone DEF MintInv
<1>q. ASSUME NEW t \in Tasks, Step(t) \/ Request(t) \/ Unauthorized(t), pc[t] # "granted",
             pc'[t] \notin Minting, UNCHANGED <<minted, spent, reused, disk>>
      PROVE  MintInv'
  <2>1. \A m \in Managers : mem'[m] \in {mem[m], 0, disk}
    BY <1>e, <1>q
  <2>2. \A u \in Tasks \ {t} : pc'[u] = pc[u] /\ req'[u] = req[u] /\ fd'[u] = fd[u]
    BY <1>q, OthersStay
  <2>3. \A u \in Tasks : pc[u] = "granted" => pc'[u] = "granted"
    BY <1>q, <2>2
  <2>4. \A u \in Tasks : pc'[u] \notin Minting \/ (pc'[u] = pc[u] /\ req'[u] = req[u] /\ fd'[u] \in {fd[u], 0})
    BY <1>q, <2>2
  <2>5. UNCHANGED <<minted, spent, reused, disk>>
    BY <1>q
  <2> QED
    BY <1>e, <2>1, <2>3, <2>4, <2>5, QuietKeepsMintInv
<1>1. ASSUME NEW t \in Tasks, Locking(t)
      PROVE  MintInv'
  <2>1. pc[t] # "granted" /\ UNCHANGED <<minted, spent, reused, disk>>
    BY <1>1
       DEF Locking, TryLock, UnlinkStale, OpenToWait, Wake, WaitTimeout, WaitLeavesThread, IdentifyHolder
  <2>2. pc'[t] \notin Minting
    <3>1. WithLock[req[t].want] \notin Minting
      BY LockingLeads DEF Minting
    <3> QED
      BY <1>1, <3>1, Goes
         DEF Locking, TryLock, UnlinkStale, OpenToWait, Wake, WaitTimeout, WaitLeavesThread,
             IdentifyHolder, Minting
  <2> QED
    BY <1>1, <1>e, <1>q, <2>1, <2>2 DEF Step
<1>2. ASSUME NEW t \in Tasks, Refreshing(t)
      PROVE  MintInv'
  <2>s. Step(t)
    BY <1>2 DEF Step
  <2>f. pc[t] \in {"refresh", "exchange", "exchange2", "rejected", "granted"} => pc[t] \in Relying /\ fd[t] # 0
    BY DEF FileInv, Has, Keeping, Relying
  <2>1. CASE \/ ReloadFromDisk(t) \/ CheckVerdict(t) \/ TakeRefreshLock(t) \/ AdoptDisk(t) \/ GiveUp(t)
             \/ RevalidateLock(t) \/ Defer(t)
    <3>1. pc'[t] \notin Minting
      BY <2>1, Goes
         DEF ReloadFromDisk, CheckVerdict, TakeRefreshLock, AdoptDisk, GiveUp, RevalidateLock, Defer,
             Minting
    <3> QED
      BY <1>q, <2>s, <2>1, <3>1
         DEF ReloadFromDisk, CheckVerdict, TakeRefreshLock, AdoptDisk, GiveUp, RevalidateLock, Defer
  <2>2. CASE ChooseCredential(t)
    <3>1. disk = minted /\ pc[t] = "refresh"
      BY <1>d, <2>f, <2>2 DEF ChooseCredential
    <3>2. Resolve(ManagerOf[t], req[t].reason) = disk
      BY <1>v DEF Resolve
    <3>3. \/ Set(t, "got", disk) /\ Goto(t, "granted")
          \/ Set(t, "tried", disk) /\ Goto(t, "exchange")
      BY <1>v, <2>2, <3>2 DEF ChooseCredential
    <3>4. \/ pc'[t] = "granted" /\ req'[t].got = minted
          \/ pc'[t] = "exchange" /\ req'[t].tried = minted
      BY <3>1, <3>3, Goes, SetGives
    <3> QED
      BY <1>e, <1>v, <2>f, <2>s, <2>2, <3>1, <3>4, AloneKeepsMintInv DEF ChooseCredential
  <2>3. CASE ExchangeGranted(t)
    <3>1. disk = minted /\ req[t].tried = minted
      BY <1>e, <2>3 DEF ExchangeGranted, MintInv
    <3>2. minted' = minted + 1 /\ spent' = spent \cup {minted} /\ UNCHANGED <<reused, disk, mem>>
      BY <2>3, <3>1 DEF ExchangeGranted, Grant
    <3>3. minted' \in Nat /\ spent' = 1 .. minted' - 1 /\ disk' \in 1 .. minted'
      BY <1>v, <3>2
    <3>4. pc'[t] = "granted" /\ req'[t].got = minted'
      BY <2>3, <3>2, Goes, SetGives DEF ExchangeGranted
    <3>5. pc[t] \in Relying /\ fd[t] # 0
      BY <2>f, <2>3 DEF ExchangeGranted
    <3> QED
      BY <1>e, <1>v, <2>s, <3>2, <3>3, <3>4, <3>5, AloneKeepsMintInv
  <2>4. CASE ExchangeRejected(t)
    <3>1. disk = minted /\ req[t].tried = minted
      BY <1>e, <2>4 DEF ExchangeRejected, MintInv
    <3>2. minted \notin spent
      BY <1>v
    <3>3. ~reused' /\ UNCHANGED <<minted, spent, disk, mem, req>>
      BY <1>v, <2>4, <3>1, <3>2 DEF ExchangeRejected
    <3>4. pc'[t] \in {"rejected", "permanent"}
      BY <2>4, Goes DEF ExchangeRejected
    <3>5. pc[t] \in Relying /\ fd[t] # 0
      BY <2>f, <2>4 DEF ExchangeRejected
    <3> QED
      BY <1>e, <1>v, <2>s, <3>1, <3>3, <3>4, <3>5, AloneKeepsMintInv
  <2>5. CASE ExchangeFails(t) \/ PermanentFailure(t)
    <3>1. pc'[t] \notin Minting
      BY <2>5, Goes DEF ExchangeFails, PermanentFailure, Minting
    <3> QED
      BY <1>q, <2>s, <2>5, <3>1 DEF ExchangeFails, PermanentFailure
  <2>6. CASE RetryWithDisk(t)
    <3>1. disk = req[t].tried
      BY <1>e, <2>6 DEF RetryWithDisk, MintInv
    <3>2. pc'[t] = "permanent"
      BY <2>6, <3>1, Goes DEF RetryWithDisk
    <3> QED
      BY <1>q, <2>s, <2>6, <3>2 DEF RetryWithDisk, Minting
  <2>7. CASE Persist(t)
    <3>1. disk' = req[t].got /\ req[t].got = minted /\ UNCHANGED <<minted, spent, reused>>
      BY <1>e, <2>7 DEF Persist, MintInv
    <3>2. \A m \in Managers : mem'[m] <= disk'
      <4>1. \A m \in Managers : mem'[m] \in {mem[m], 0, minted}
        BY <1>e, <3>1
      <4>2. \A m \in Managers : mem[m] \in Nat
        BY CredentialTypes DEF TypeOK
      <4> QED
        BY <1>v, <3>1, <4>1, <4>2
    <3>3. pc'[t] \in {"idle", "try"}
      BY <2>7, Goes DEF Persist
    <3>4. pc[t] \in Relying /\ fd[t] # 0
      BY <2>f, <2>7 DEF Persist
    <3> QED
      BY <1>e, <1>v, <2>s, <3>1, <3>2, <3>3, <3>4, AloneKeepsMintInv
  <2>8. CASE EnrichRead(t)
    <3>1. CASE disk # req[t].got
      BY <1>q, <2>s, <2>8, <3>1, Goes DEF EnrichRead, Minting
    <3>2. CASE disk = req[t].got
      <4>1. /\ \A u \in Tasks \ {t} : pc'[u] = pc[u] /\ req'[u] = req[u] /\ fd'[u] = fd[u]
            /\ pc'[t] = "enrichWrite" /\ req'[t].got = disk
        BY <2>s, <2>8, <3>2, OthersStay, Goes DEF EnrichRead
      <4>2. UNCHANGED <<minted, spent, reused, disk, mem, excused>> /\ pc[t] # "granted"
        BY <2>8 DEF EnrichRead
      <4> QED
        BY <1>e, <4>1, <4>2 DEF MintInv
    <3> QED
      BY <3>1, <3>2
  <2>9. CASE EnrichWrite(t)
    <3>1. UNCHANGED disk
      BY <1>e, <2>9 DEF EnrichWrite, MintInv
    <3>2. pc'[t] \notin Minting
      BY <2>9, Goes DEF EnrichWrite, Minting
    <3> QED
      BY <1>q, <2>s, <2>9, <3>1, <3>2 DEF EnrichWrite
  <2> QED
    BY <1>2, <2>1, <2>2, <2>3, <2>4, <2>5, <2>6, <2>7, <2>8, <2>9 DEF Refreshing
<1>3. ASSUME NEW t \in Tasks, Request(t) \/ Unauthorized(t) \/ AnswerLost(t)
      PROVE  MintInv'
  <2>1. ~AnswerLost(t)
    BY DEF AnswerLost
  <2>2. pc'[t] \notin Minting
    BY <1>3, <2>1, Goes DEF Request, Unauthorized, Minting
  <2> QED
    BY <1>3, <1>q, <2>1, <2>2 DEF Request, Unauthorized
<1>4. ASSUME NEW m \in Managers, ForceReload(m) \/ Logout(m) \/ VerdictAges(m)
      PROVE  MintInv'
  <2>1. UNCHANGED <<minted, spent, reused, disk, pc, req, fd>>
    BY <1>4 DEF ForceReload, Logout, VerdictAges
  <2> QED
    BY <1>e, <2>1, QuietKeepsMintInv
<1>5. ASSUME NEW m \in Managers, Crash(m)
      PROVE  MintInv'
  <2>1. UNCHANGED <<minted, spent, reused, disk>>
    BY <1>5 DEF Crash
  <2>2. \A u \in Tasks : \/ pc'[u] = "idle" /\ pc[u] # "granted"
                         \/ pc'[u] = pc[u] /\ req'[u] = req[u] /\ fd'[u] = fd[u]
    BY <1>5 DEF Crash
  <2> QED
    BY <1>e, <2>1, <2>2, QuietKeepsMintInv DEF Minting
<1>6. CASE InfoAges \/ LeftBehind \/ TokensExpire \/ Revoke \/ UNCHANGED vars
  <2>1. UNCHANGED <<minted, spent, reused, disk, pc, req, fd>>
    BY <1>6 DEF InfoAges, LeftBehind, LeftLocks, LeftWrites, LeftCloses, TokensExpire, Revoke, vars
  <2> QED
    BY <1>e, <2>1, QuietKeepsMintInv
<1> QED
  BY <1>1, <1>2, <1>3, <1>4, <1>5, <1>6 DEF Next, Environment, Step
-----------------------------------------------------------------------------
(* The verdicts. *)

\* The provider never takes a credential again that it refused.
LEMMA RefusedForGood ==
    ASSUME TypeOK, [Next]_vars, NEW k, ~Good(k)
    PROVE  ~Good(k)'
<1> SUFFICES spent \subseteq spent' /\ (revoked => revoked')
  BY DEF Good
<1> USE DEF provider
<1>g. \A c : Grant(c) => spent \subseteq spent' /\ (revoked => revoked')
  BY DEF Grant
<1>u. UNCHANGED <<spent, revoked>> => spent \subseteq spent' /\ (revoked => revoked')
  OBVIOUS
<1>1. ASSUME NEW t \in Tasks, Locking(t)
      PROVE  UNCHANGED <<spent, revoked>>
  BY <1>1 DEF Locking, TryLock, UnlinkStale, OpenToWait, Wake, WaitTimeout, WaitLeavesThread, IdentifyHolder
<1>2. ASSUME NEW t \in Tasks, Refreshing(t)
      PROVE  spent \subseteq spent' /\ (revoked => revoked')
  <2>1. ASSUME ~ExchangeGranted(t), ~ExchangeRejected(t)
        PROVE  UNCHANGED <<spent, revoked>>
    BY <1>2, <2>1
       DEF Refreshing, ReloadFromDisk, CheckVerdict, TakeRefreshLock, AdoptDisk, GiveUp, RevalidateLock,
           Defer, ChooseCredential, ExchangeFails, RetryWithDisk, PermanentFailure, Persist, EnrichRead,
           EnrichWrite
  <2>2. CASE ExchangeGranted(t)
    BY <1>g, <2>2 DEF ExchangeGranted
  <2>3. CASE ExchangeRejected(t)
    <3>1. UNCHANGED spent /\ (revoked' = revoked \/ revoked' = TRUE)
      BY <2>3 DEF ExchangeRejected
    <3> QED
      BY <3>1
  <2> QED
    BY <1>u, <2>1, <2>2, <2>3
<1>3. ASSUME NEW t \in Tasks, Request(t) \/ Unauthorized(t) \/ AnswerLost(t)
      PROVE  spent \subseteq spent' /\ (revoked => revoked')
  BY <1>g, <1>u, <1>3 DEF Request, Unauthorized, AnswerLost
<1>4. ASSUME NEW m \in Managers, ForceReload(m) \/ Logout(m) \/ VerdictAges(m) \/ Crash(m)
      PROVE  UNCHANGED <<spent, revoked>>
  BY <1>4 DEF ForceReload, Logout, VerdictAges, Crash
<1>5. InfoAges \/ LeftBehind \/ TokensExpire \/ UNCHANGED vars => UNCHANGED <<spent, revoked>>
  BY DEF InfoAges, LeftBehind, LeftLocks, LeftWrites, LeftCloses, TokensExpire, vars
<1>6. Revoke => UNCHANGED spent /\ revoked'
  BY DEF Revoke
<1> QED
  BY <1>u, <1>1, <1>2, <1>3, <1>4, <1>5, <1>6 DEF Next, Environment, Step

\* A step that remembers nothing for good, by a task or a process that was not refused just now.
LEMMA QuietKeepsVerdictInv ==
    ASSUME TypeOK, VerdictInv, [Next]_vars,
           \A u \in Tasks : \/ pc'[u] \notin {"rejected", "permanent"}
                            \/ ~Good(req'[u].tried)
                            \/ pc[u] \in {"rejected", "permanent"} /\ req'[u].tried = req[u].tried,
           \A m \in Managers : verdict'[m].sticky => \/ verdict'[m] = verdict[m]
                                                     \/ ~Good(verdict'[m].key)
    PROVE  VerdictInv'
<1>1. ASSUME NEW k, ~Good(k)
      PROVE  k \in spent' \/ revoked'
  BY <1>1, RefusedForGood DEF Good
<1>2. ASSUME NEW u \in Tasks, pc'[u] \in {"rejected", "permanent"}
      PROVE  req'[u].tried \in spent' \/ revoked'
  BY <1>1, <1>2 DEF VerdictInv
<1>3. ASSUME NEW m \in Managers, verdict'[m].sticky
      PROVE  verdict'[m].key \in spent' \/ revoked'
  BY <1>1, <1>3 DEF VerdictInv
<1> QED
  BY <1>2, <1>3 DEF VerdictInv, Good

\* Every step keeps it: a verdict for good comes from a refusal of the credential it names.
LEMMA VerdictStep == TypeOK /\ VerdictInv /\ [Next]_vars => VerdictInv'
<1> SUFFICES ASSUME TypeOK, VerdictInv, [Next]_vars
             PROVE  VerdictInv'
  OBVIOUS
<1> USE DEF provider, managers, lockFile, left
<1>q. ASSUME NEW t \in Tasks, Step(t) \/ AnswerLost(t) \/ Request(t) \/ Unauthorized(t), UNCHANGED verdict,
             pc'[t] \in {"rejected", "permanent"} =>
                 \/ ~Good(req'[t].tried)
                 \/ pc[t] \in {"rejected", "permanent"} /\ req'[t] = req[t]
      PROVE  VerdictInv'
  <2>1. \A u \in Tasks \ {t} : pc'[u] = pc[u] /\ req'[u] = req[u]
    BY <1>q, OthersStay
  <2> QED
    BY <1>q, <2>1, QuietKeepsVerdictInv
<1>1. ASSUME NEW t \in Tasks, Locking(t)
      PROVE  VerdictInv'
  <2>1. WithLock[req[t].want] \notin {"rejected", "permanent"}
    BY LockingLeads
  <2>2. pc'[t] \notin {"rejected", "permanent"}
    BY <1>1, <2>1, Goes
       DEF Locking, TryLock, UnlinkStale, OpenToWait, Wake, WaitTimeout, WaitLeavesThread, IdentifyHolder
  <2>3. UNCHANGED verdict
    BY <1>1
       DEF Locking, TryLock, UnlinkStale, OpenToWait, Wake, WaitTimeout, WaitLeavesThread, IdentifyHolder
  <2> QED
    BY <1>1, <1>q, <2>2, <2>3 DEF Step
<1>2. ASSUME NEW t \in Tasks, Refreshing(t)
      PROVE  VerdictInv'
  <2>s. Step(t)
    BY <1>2 DEF Step
  <2>1. CASE \/ ReloadFromDisk(t) \/ CheckVerdict(t) \/ TakeRefreshLock(t) \/ AdoptDisk(t) \/ GiveUp(t)
             \/ RevalidateLock(t) \/ Defer(t)
    <3>1. pc'[t] \notin {"rejected", "permanent"}
      BY <2>1, Goes
         DEF ReloadFromDisk, CheckVerdict, TakeRefreshLock, AdoptDisk, GiveUp, RevalidateLock, Defer
    <3>2. UNCHANGED verdict
      BY <2>1 DEF ReloadFromDisk, CheckVerdict, TakeRefreshLock, AdoptDisk, GiveUp, RevalidateLock, Defer
    <3> QED
      BY <1>q, <2>s, <3>1, <3>2
  <2>2. CASE \/ ChooseCredential(t) \/ ExchangeGranted(t) \/ ExchangeFails(t) \/ Persist(t)
             \/ EnrichRead(t) \/ EnrichWrite(t)
    <3>1. pc'[t] \notin {"rejected", "permanent"}
      BY <2>2, Goes
         DEF ChooseCredential, ExchangeGranted, ExchangeFails, Persist, EnrichRead, EnrichWrite
    <3>2. UNCHANGED verdict
      BY <2>2 DEF ChooseCredential, ExchangeGranted, ExchangeFails, Persist, EnrichRead, EnrichWrite
    <3> QED
      BY <1>q, <2>s, <3>1, <3>2
  <2>3. CASE ExchangeRejected(t)
    BY <1>q, <2>s, <2>3 DEF ExchangeRejected
  <2>4. CASE RetryWithDisk(t)
    <3>1. pc'[t] \in {"rejected", "permanent"} => req'[t] = req[t]
      BY <2>4, Goes DEF RetryWithDisk
    <3> QED
      BY <1>q, <2>s, <2>4, <3>1 DEF RetryWithDisk
  <2>5. CASE PermanentFailure(t)
    <3>1. \A u \in Tasks : pc'[u] \in {"rejected", "permanent"} => pc'[u] = pc[u] /\ req'[u] = req[u]
      BY <2>s, <2>5, OthersStay, Goes DEF PermanentFailure
    <3>2. \A m \in Managers :
              verdict'[m].sticky => verdict'[m] = verdict[m] \/ ~Good(verdict'[m].key)
      <4> DEFINE v == [key |-> req[t].tried, sticky |-> pc[t] = "permanent"]
      <4>1. UNCHANGED verdict \/ verdict' = [verdict EXCEPT ![ManagerOf[t]] = v]
        BY <2>5 DEF PermanentFailure
      <4>2. v.sticky => ~Good(v.key)
        BY DEF VerdictInv
      <4> HIDE DEF v
      <4> QED
        BY <4>1, <4>2 DEF TypeOK
    <3> QED
      BY <3>1, <3>2, QuietKeepsVerdictInv
  <2> QED
    BY <1>2, <2>1, <2>2, <2>3, <2>4, <2>5 DEF Refreshing
<1>3. ASSUME NEW t \in Tasks, Request(t) \/ Unauthorized(t)
      PROVE  VerdictInv'
  BY <1>3, <1>q, Goes DEF Request, Unauthorized
<1>4. ASSUME NEW t \in Tasks, AnswerLost(t)
      PROVE  VerdictInv'
  <2>1. UNCHANGED verdict /\ pc'[t] \notin {"rejected", "permanent"}
    BY <1>4, Goes DEF AnswerLost
  <2> QED
    BY <1>4, <1>q, <2>1
<1>5. ASSUME NEW m \in Managers, VerdictAges(m) \/ Crash(m)
      PROVE  VerdictInv'
  <2>1. \A u \in Tasks : pc'[u] \in {"rejected", "permanent"} => pc'[u] = pc[u] /\ req'[u] = req[u]
    BY <1>5 DEF VerdictAges, Crash
  <2>2. \A n \in Managers : verdict'[n].sticky => verdict'[n] = verdict[n]
    BY <1>5 DEF VerdictAges, Crash, NoVerdict, TypeOK
  <2> QED
    BY <2>1, <2>2, QuietKeepsVerdictInv
<1>6. ASSUME UNCHANGED <<pc, req, verdict>>
      PROVE  VerdictInv'
  BY <1>6, QuietKeepsVerdictInv
<1>7. ASSUME NEW m \in Managers, ForceReload(m) \/ Logout(m)
      PROVE  VerdictInv'
  BY <1>6, <1>7 DEF ForceReload, Logout
<1>8. CASE InfoAges \/ LeftBehind \/ TokensExpire \/ Revoke \/ UNCHANGED vars
  BY <1>6, <1>8 DEF InfoAges, LeftBehind, LeftLocks, LeftWrites, LeftCloses, TokensExpire, Revoke, vars
<1> QED
  BY <1>1, <1>2, <1>3, <1>4, <1>5, <1>7, <1>8 DEF Next, Environment, Step

-----------------------------------------------------------------------------
(* The theorems. *)

AuthInv == TypeOK /\ FileInv /\ RelyInv /\ MintInv /\ VerdictInv

\* Every step keeps the four parts together; in the first state nobody has the file open.
LEMMA AuthInvariant == Spec => []AuthInv
<1>1. Init => FileInv /\ RelyInv /\ MintInv /\ VerdictInv
  <2> SUFFICES ASSUME Init
               PROVE  FileInv /\ RelyInv /\ MintInv /\ VerdictInv
    OBVIOUS
  <2>1. \A t \in Tasks : pc[t] \in {"try", "idle"} /\ fd[t] = 0
    BY DEF Init
  <2>2. FileInv /\ RelyInv
    BY <2>1 DEF Init, FileInv, RelyInv, Keeping, MayKeep
  <2>3. MintInv
    BY <2>1 DEF Init, MintInv
  <2>4. VerdictInv
    BY <2>1 DEF Init, VerdictInv, NoVerdict
  <2> QED
    BY <2>2, <2>3, <2>4
<1>2. /\ TypeOK /\ FileInv /\ RelyInv /\ MintInv /\ VerdictInv /\ [Next]_vars
         => FileInv' /\ RelyInv' /\ MintInv' /\ VerdictInv'
  BY FileStep, RelyStep, MintStep, VerdictStep
<1> QED
  BY <1>1, <1>2, TypeCorrect, PTL DEF Spec, AuthInv

\* However many processes, requests and faults: the provider never sees a token twice unless a
\* lock in use was broken or an answer, a write or the entry was lost (refresh_chain,
\* revalidate_lock_or_reacquire, still_live).
THEOREM SpentOnce == Spec => []TokenSpentOnce
<1>1. AuthInv => TokenSpentOnce
  BY DEF AuthInv, MintInv, TokenSpentOnce
<1> QED
  BY <1>1, AuthInvariant, PTL

\* Short of these auth.json has the newest credential, or the one task that owns the file the
\* lock's name stands for is about to write it (update).
THEOREM NewestKept == Spec => []NewestIsKept
<1>1. AuthInv => NewestIsKept
  <2> SUFFICES ASSUME AuthInv, ~excused, NEW t \in Tasks, pc[t] = "granted"
               PROVE  NewestIsKept
    BY DEF AuthInv, MintInv, NewestIsKept
  <2>1. fd[t] # 0 /\ owner[fd[t]] = t
    BY DEF AuthInv, FileInv, Has, Keeping
  <2>2. fd[t] = lockName
    BY <2>1 DEF AuthInv, RelyInv, Relying
  <2> QED
    BY <2>1, <2>2 DEF AuthInv, MintInv, NewestIsKept
<1> QED
  BY <1>1, AuthInvariant, PTL

\* A process that says "log in again" for good says it of a credential the provider would refuse
\* (record_permanent_failure, permanent_failure).
THEOREM StickyVerdictsAreTrue == Spec => []StickyVerdictIsTrue
<1>1. AuthInv => StickyVerdictIsTrue
  BY DEF AuthInv, VerdictInv, StickyVerdictIsTrue
<1> QED
  BY <1>1, AuthInvariant, PTL

\* No step takes the disk or the memory of a process back to an older credential
\* (try_use_disk_token, the sibling-stomp guard of enrichment, force_reload_from_disk).
THEOREM NothingGoesBack == Spec => CredentialsAdvance
<1>1. ASSUME AuthInv, [Next]_vars, ~excused'
      PROVE  disk' >= disk /\ \A m \in Managers : mem'[m] >= mem[m] \/ mem'[m] = 0
  <2>1. ~excused /\ disk' \in {disk, minted} /\ \A m \in Managers : mem'[m] \in {mem[m], 0, disk'}
    BY <1>1, CredentialSteps DEF AuthInv
  <2>2. disk \in Nat /\ minted \in Nat /\ disk <= minted
    BY <1>1, <2>1, CredentialTypes DEF AuthInv, TypeOK, MintInv
  <2>3. \A m \in Managers : mem[m] \in Nat /\ mem[m] <= disk
    BY <1>1, <2>1, CredentialTypes DEF AuthInv, TypeOK, MintInv
  <2> QED
    BY <2>1, <2>2, <2>3
<1> QED
  BY <1>1, AuthInvariant, PTL DEF Spec, CredentialsAdvance
===============================================================================
