------------------------------ MODULE AuthRefresh ------------------------------
(***************************************************************************)
(* Refresh of a rotating credential that several processes share. Each      *)
(* process keeps the credential in memory and in auth.json; whoever         *)
(* refreshes spends the refresh token at the identity provider, which       *)
(* answers with a new pair and takes a second use of the old one for theft. *)
(* A file lock, broken when its holder looks dead or stuck, keeps two        *)
(* processes from spending one token. Credential k is the k-th the provider *)
(* issued: its access token and its refresh token.                          *)
(***************************************************************************)
EXTENDS Integers, FiniteSets

CONSTANTS
    Managers,  \* processes, one AuthManager each
    Tasks,     \* requests of these processes
    ManagerOf, \* the process of each task
    NoOne,     \* no task
    MaxMint,   \* bound: credentials issued
    MaxFaults  \* bound: crashes, lost answers, failed writes, slow holders, threads a wait leaves
               \* behind, revocations, logouts

Inodes      == 1..Cardinality(Tasks) + 1
Credentials == 1..MaxMint

ASSUME AuthAssumption ==
    /\ IsFiniteSet(Tasks) /\ ManagerOf \in [Tasks -> Managers]
    /\ NoOne \notin Tasks \cup Managers
    /\ MaxMint \in Nat \ {0} /\ MaxFaults \in Nat

VARIABLES
    minted,   \* credentials issued so far
    spent,    \* refresh tokens exchanged for a successor
    revoked,  \* the provider takes none of them any more
    reused,   \* history: it has seen one that was already spent
    expired,  \* access tokens up to this one have expired
    disk,     \* the entry in auth.json, 0 for none
    mem,      \* the entry in memory of each process
    verdict,  \* the permanent failure a process remembers: the credential, and for how long
    mutex,    \* refresh_lock of each process
    lockName, \* the inode auth.json.lock names, 0 for none
    owner,    \* flock: the task that holds each inode locked
    stale,    \* the holder info in it: of a dead process, or older than a minute
    behind,   \* processes with a thread that waits for that file beyond its deadline
    brief,    \* the one whose thread has got the lock and is about to close the file
    pc,
    fd,       \* the inode a task has open, 0 for none
    req,      \* the request of a task
    excused,  \* history: something happened that the protocol cannot undo
    faults

provider == <<minted, spent, revoked, reused>>
managers == <<mem, verdict, mutex>>
left     == <<behind, brief>>
lockFile == <<lockName, owner, stale, left>>
vars     == <<provider, expired, disk, managers, lockFile, pc, fd, req, excused, faults>>

\* want: what the file lock is for; phase: of try_lock_auth_file_async, 1, 2, or the two tries
\* 3 and 4 of the last one; reason: RefreshReason; saw: the rejected credential, then the one
\* in memory before the wait; tried: the credential sent; got: the credential to store.
NoRequest == [want |-> "refresh", phase |-> 1, reason |-> "request", saw |-> 0, tried |-> 0, got |-> 0]

Enriching(k) == [NoRequest EXCEPT !.want = "enrich", !.got = k]

Goto(t, l)   == pc' = [pc EXCEPT ![t] = l]
Set(t, f, x) == req' = [req EXCEPT ![t][f] = x]
Fault        == faults < MaxFaults /\ faults' = faults + 1
NoVerdict    == [key |-> 0, sticky |-> FALSE]

-----------------------------------------------------------------------------
(* What a process knows of its credentials. *)

\* current: the entry in memory while it is good.
Current(m) == IF mem[m] > expired THEN mem[m] ELSE 0
\* expired_auth
ExpiredAuth(m) == IF mem[m] > expired THEN 0 ELSE mem[m]

\* resolve_refresh_credential: the disk first, whatever its age.
Resolve(m, r) ==
    CASE disk # 0                          -> disk
      [] disk = 0 /\ ExpiredAuth(m) # 0    -> ExpiredAuth(m)
      [] disk = 0 /\ ExpiredAuth(m) = 0    -> IF r = "rejected" THEN Current(m) ELSE 0

\* permanent_failure: a verdict about the credential a refresh would send.
Failed(m) == verdict[m].key # 0 /\ Resolve(m, "rejected") = verdict[m].key

\* try_use_disk_token
Adoptable(m, r) == disk > expired /\ (r = "rejected" => disk # mem[m])

\* sibling_has_different_refresh_token
SiblingRotated(m) == disk > expired /\ disk # ExpiredAuth(m)

Remember(m, k) == mem' = [mem EXCEPT ![m] = k]

-----------------------------------------------------------------------------
(* The lock file. *)

FreeInode == CHOOSE i \in Inodes : i # lockName /\ \A t \in Tasks : fd[t] # i

\* OpenOptions with create: a new file has a fresh time stamp and no holder info.
Opened  == IF lockName = 0 THEN FreeInode ELSE lockName
OpenLockFile == lockName' = Opened /\ stale' = (stale /\ lockName # 0)
Free(i) == owner[i] = NoOne /\ (i = lockName => brief = NoOne)

\* Closing the file frees the flock.
Close(t) == /\ owner' = [i \in Inodes |-> IF owner[i] = t THEN NoOne ELSE owner[i]]
            /\ fd' = [fd EXCEPT ![t] = 0]

\* Mutant: refresh_lock stays taken.
LetGoOfFile(t) == Close(t) /\ UNCHANGED mutex

\* The locks of a task go when refresh_chain returns.
LetGo(t) == /\ Close(t)
            /\ mutex' = [m \in Managers |-> IF mutex[m] = t THEN NoOne ELSE mutex[m]]

Return(t) == LetGo(t) /\ Goto(t, "idle") /\ req' = [req EXCEPT ![t] = NoRequest]

\* With the lock; and without it after the last phase: refresh looks at the disk once more,
\* the lock-loss path gives up, recovery and enrichment go on.
WithLock    == [refresh |-> "adopt", relock |-> "readopt", reload |-> "reload", enrich |-> "enrichRead"]
WithoutLock == [refresh |-> "timedOut", relock |-> "quit", reload |-> "reload", enrich |-> "enrichRead"]

\* Mutant: phases counted from zero.
StartLockingAtZero(t, w) == Goto(t, "try") /\ req' = [req EXCEPT ![t].want = w, ![t].phase = 0]

StartLocking(t, w) == Goto(t, "try") /\ req' = [req EXCEPT ![t].want = w, ![t].phase = 1]

\* Busy and StaleUnlinked, by phase.
AfterBusy(t) ==
    IF req[t].phase = 1 THEN Goto(t, "open") /\ Set(t, "phase", 2)
                        ELSE Goto(t, WithoutLock[req[t].want]) /\ UNCHANGED req
AfterUnlinked(t) ==
    CASE req[t].phase \in {1, 2} -> Goto(t, "open") /\ Set(t, "phase", 2)
      [] req[t].phase = 3        -> Goto(t, "try") /\ Set(t, "phase", 4)
      [] req[t].phase = 4        -> Goto(t, WithoutLock[req[t].want]) /\ UNCHANGED req

\* try_acquire_once: open, flock without waiting; a busy lock is judged by its holder info.
TryLock(t) ==
    /\ pc[t] = "try"
    /\ OpenLockFile
    /\ IF Free(Opened)
       THEN /\ owner' = [owner EXCEPT ![Opened] = t]
            /\ fd' = [fd EXCEPT ![t] = Opened]
            /\ Goto(t, "identify")
            /\ UNCHANGED req
       ELSE /\ IF stale THEN Goto(t, "unlink") /\ UNCHANGED req ELSE AfterBusy(t)
            /\ UNCHANGED <<owner, fd>>
    /\ UNCHANGED <<provider, expired, disk, managers, left, excused, faults>>

\* Labels between the last look at the lock and the end of its use.
Relying == {"readopt", "refresh", "exchange", "exchange2", "rejected", "granted", "enrichRead", "enrichWrite"}

\* The file the path names by now is removed, whoever holds it.
UnlinkStale(t) ==
    /\ pc[t] = "unlink"
    /\ lockName' = 0 /\ stale' = FALSE
    /\ behind' = {} /\ brief' = NoOne
    /\ excused' = (excused \/ \E u \in Tasks : fd[u] # 0 /\ fd[u] = lockName /\ pc[u] \in Relying)
    /\ IF lockName = 0 THEN AfterBusy(t) ELSE AfterUnlinked(t)
    /\ UNCHANGED <<provider, expired, disk, managers, owner, fd, faults>>

\* blocking_acquire on a thread of its own.
OpenToWait(t) ==
    /\ pc[t] = "open"
    /\ OpenLockFile
    /\ fd' = [fd EXCEPT ![t] = Opened]
    /\ Goto(t, "blocked")
    /\ UNCHANGED <<provider, expired, disk, managers, owner, left, req, excused, faults>>

Wake(t) ==
    /\ pc[t] = "blocked"
    /\ Free(fd[t])
    /\ owner' = [owner EXCEPT ![fd[t]] = t]
    /\ Goto(t, "identify")
    /\ UNCHANGED <<provider, expired, disk, managers, lockName, stale, left, fd, req, excused, faults>>

\* The deadline passes.
WaitTimeout(t) ==
    /\ pc[t] \in {"open", "blocked"}
    /\ fd' = [fd EXCEPT ![t] = 0]
    /\ Goto(t, "try") /\ Set(t, "phase", 3)
    /\ UNCHANGED <<provider, expired, disk, managers, lockFile, excused, faults>>

\* Its thread stays behind, waiting for the lock or just with it; one that waits at an inode
\* without name is in nobody's way, and one that never gets the lock is not followed.
WaitLeavesThread(t) ==
    /\ pc[t] = "blocked" \/ (pc[t] = "identify" /\ req[t].phase = 2)
    /\ fd[t] = lockName /\ Fault
    /\ IF pc[t] = "blocked"
       THEN behind' = behind \cup {ManagerOf[t]} /\ UNCHANGED brief
       ELSE brief' = ManagerOf[t] /\ UNCHANGED behind
    /\ Close(t)
    /\ Goto(t, "try") /\ Set(t, "phase", 3)
    /\ UNCHANGED <<provider, expired, disk, managers, lockName, stale, excused>>

\* It gets the lock, puts its process into the holder info, and the file it returns is dropped.
LeftLocks(m) ==
    /\ m \in behind /\ Free(lockName)
    /\ behind' = behind \ {m} /\ brief' = m
    /\ UNCHANGED <<provider, expired, disk, managers, lockName, owner, stale, pc, fd, req, excused, faults>>

LeftWrites ==
    /\ brief # NoOne /\ stale
    /\ stale' = FALSE
    /\ UNCHANGED <<provider, expired, disk, managers, lockName, owner, left, pc, fd, req, excused, faults>>

LeftCloses ==
    /\ brief # NoOne /\ ~stale
    /\ brief' = NoOne
    /\ UNCHANGED <<provider, expired, disk, managers, lockName, owner, stale, behind, pc, fd, req,
                   excused, faults>>

\* write_holder_info, then inodes_match.
IdentifyHolder(t) ==
    /\ pc[t] = "identify"
    /\ stale' = (stale /\ fd[t] # lockName)
    /\ IF fd[t] = lockName
       THEN Goto(t, WithLock[req[t].want]) /\ Set(t, "phase", 1) /\ UNCHANGED <<owner, fd>>
       ELSE AfterUnlinked(t) /\ Close(t)
    /\ UNCHANGED <<provider, expired, disk, managers, lockName, left, excused, faults>>

-----------------------------------------------------------------------------
(* auth, UnauthorizedRecovery and refresh_chain. *)

\* auth with an expired entry.
Request(t) ==
    /\ pc[t] = "idle" /\ ExpiredAuth(ManagerOf[t]) # 0
    /\ Goto(t, "chain")
    /\ UNCHANGED <<provider, expired, disk, managers, lockFile, fd, req, excused, faults>>

\* The server answers 401 to the credential in memory.
Unauthorized(t) ==
    /\ pc[t] = "idle" /\ mem[ManagerOf[t]] # 0
    /\ Goto(t, "try")
    /\ req' = [req EXCEPT ![t] = [@ EXCEPT !.want = "reload", !.reason = "rejected", !.saw = mem[ManagerOf[t]]]]
    /\ UNCHANGED <<provider, expired, disk, managers, lockFile, fd, excused, faults>>

\* try_reload_from_disk; try_refresh_from_authority: no credential, one minted moments ago, or
\* the chain.
ReloadFromDisk(t) ==
    LET m == ManagerOf[t]
    IN  /\ pc[t] = "reload"
        /\ \/ /\ disk > expired /\ disk # req[t].saw
              /\ Remember(m, disk) /\ Return(t)
           \/ /\ disk <= expired \/ disk = req[t].saw
              /\ mem[m] = 0 \/ Current(m) # 0
              /\ Return(t) /\ UNCHANGED mem
           \/ /\ disk <= expired \/ disk = req[t].saw
              /\ mem[m] # 0
              /\ Close(t) /\ Goto(t, "chain") /\ UNCHANGED <<mem, mutex, req>>
        /\ UNCHANGED <<provider, expired, disk, verdict, lockName, stale, left, excused, faults>>

\* Step 0: a verdict ends the chain; a good token of a sibling is adopted.
CheckVerdict(t) ==
    LET m == ManagerOf[t]
    IN  /\ pc[t] = "chain"
        /\ IF Failed(m)
           THEN /\ IF Adoptable(m, req[t].reason) THEN Remember(m, disk) ELSE UNCHANGED mem
                /\ Return(t)
           ELSE /\ Set(t, "saw", Current(m))
                /\ Goto(t, "mutex")
                /\ UNCHANGED <<mem, mutex, owner, fd>>
        /\ UNCHANGED <<provider, expired, disk, verdict, lockName, stale, left, excused, faults>>

\* Step 1: under refresh_lock, somebody may have refreshed, or failed for good.
TakeRefreshLock(t) ==
    LET m == ManagerOf[t]
    IN  /\ pc[t] = "mutex" /\ mutex[m] = NoOne
        /\ IF \/ Current(m) # 0 /\ (req[t].reason = "request" \/ Current(m) # req[t].saw)
              \/ Failed(m)
           THEN Return(t)
           ELSE /\ mutex' = [mutex EXCEPT ![m] = t]
                /\ StartLocking(t, "refresh")
                /\ UNCHANGED <<owner, fd>>
        /\ UNCHANGED <<provider, expired, disk, mem, verdict, lockName, stale, left, excused, faults>>

\* Step 2, and after a lock loss: a good token on disk ends the chain. Without the lock
\* nothing else may happen.
AdoptDisk(t) ==
    LET m == ManagerOf[t]
    IN  /\ pc[t] \in {"adopt", "readopt", "timedOut"}
        /\ IF Adoptable(m, req[t].reason)
           THEN Remember(m, disk) /\ Return(t)
           ELSE /\ IF pc[t] = "timedOut" THEN Return(t)
                   ELSE /\ Goto(t, IF pc[t] = "adopt" THEN "live" ELSE "refresh")
                        /\ UNCHANGED <<owner, fd, mutex, req>>
                /\ UNCHANGED mem
        /\ UNCHANGED <<provider, expired, disk, verdict, lockName, stale, left, excused, faults>>

GiveUp(t) ==
    /\ pc[t] = "quit"
    /\ Return(t)
    /\ UNCHANGED <<provider, expired, disk, mem, verdict, lockName, stale, left, excused, faults>>

\* Mutant: the lock is taken to be as live as it was.
RevalidateNothing(t) ==
    /\ pc[t] = "live"
    /\ Goto(t, "refresh")
    /\ UNCHANGED <<provider, expired, disk, managers, lockFile, fd, req, excused, faults>>

\* Step 3b, revalidate_lock_or_reacquire.
RevalidateLock(t) ==
    /\ pc[t] = "live"
    /\ IF fd[t] = lockName
       THEN Goto(t, "refresh") /\ UNCHANGED <<owner, fd, req>>
       ELSE Close(t) /\ StartLocking(t, "relock")
    /\ UNCHANGED <<provider, expired, disk, managers, lockName, stale, left, excused, faults>>

\* Steps 3a and 3c: sleep is imminent, or the system is in a dark wake.
Defer(t) ==
    /\ pc[t] \in {"live", "refresh"}
    /\ Return(t)
    /\ UNCHANGED <<provider, expired, disk, mem, verdict, lockName, stale, left, excused, faults>>

-----------------------------------------------------------------------------
(* OidcRefresher. *)

\* A good token on disk that differs from memory, or a credential to send, or none.
ChooseCredential(t) ==
    LET m == ManagerOf[t]
        k == Resolve(m, req[t].reason)
    IN  /\ pc[t] = "refresh"
        /\ \/ /\ disk > expired /\ disk # Current(m)
              /\ Set(t, "got", disk) /\ Goto(t, "granted")
              /\ UNCHANGED <<owner, fd, mutex>>
           \/ /\ disk <= expired \/ disk = Current(m)
              /\ IF k = 0 THEN Return(t)
                 ELSE Set(t, "tried", k) /\ Goto(t, "exchange") /\ UNCHANGED <<owner, fd, mutex>>
        /\ UNCHANGED <<provider, expired, disk, mem, verdict, lockName, stale, left, excused, faults>>

Good(k) == k \notin spent /\ ~revoked

\* The provider exchanges k for a new credential.
Grant(k) == /\ Good(k) /\ minted < MaxMint
            /\ minted' = minted + 1
            /\ spent' = spent \cup {k}
            /\ UNCHANGED <<revoked, reused>>

\* Mutant: the file lock does not outlive the exchange.
ExchangeUnlocks(t) ==
    /\ pc[t] \in {"exchange", "exchange2"}
    /\ Grant(req[t].tried)
    /\ Set(t, "got", minted + 1)
    /\ Goto(t, "granted") /\ Close(t)
    /\ UNCHANGED <<expired, disk, managers, lockName, stale, left, excused, faults>>

ExchangeGranted(t) ==
    /\ pc[t] \in {"exchange", "exchange2"}
    /\ Grant(req[t].tried)
    /\ Set(t, "got", minted + 1)
    /\ Goto(t, "granted")
    /\ UNCHANGED <<expired, disk, managers, lockFile, fd, excused, faults>>

\* invalid_grant; the provider may take the second use of a token for theft.
ExchangeRejected(t) ==
    /\ pc[t] \in {"exchange", "exchange2"}
    /\ ~Good(req[t].tried)
    /\ reused' = (reused \/ req[t].tried \in spent)
    /\ revoked' \in {revoked, TRUE}
    /\ Goto(t, IF pc[t] = "exchange" THEN "rejected" ELSE "permanent")
    /\ UNCHANGED <<minted, spent, expired, disk, managers, lockFile, fd, req, excused, faults>>

\* The provider is not reached. The third failure in a row counts as permanent for a while.
ExchangeFails(t) ==
    /\ \/ pc[t] \in {"exchange", "exchange2"} /\ Return(t) /\ UNCHANGED faults
       \/ pc[t] = "exchange" /\ Fault /\ Goto(t, "escalated") /\ UNCHANGED <<owner, fd, mutex, req>>
    /\ UNCHANGED <<provider, expired, disk, mem, verdict, lockName, stale, left, excused>>

\* The answer is lost: the request fails, or is sent again.
AnswerLost(t) ==
    /\ pc[t] \in {"exchange", "exchange2"}
    /\ Fault /\ Grant(req[t].tried)
    /\ excused' = TRUE
    /\ \/ Return(t)
       \/ UNCHANGED <<pc, owner, fd, mutex, req>>
    /\ UNCHANGED <<expired, disk, mem, verdict, lockName, stale, left>>

\* retry_with_fresh_disk_token
RetryWithDisk(t) ==
    /\ pc[t] = "rejected"
    /\ \/ /\ disk > expired /\ disk # req[t].tried
          /\ Set(t, "got", disk) /\ Goto(t, "granted")
       \/ /\ disk \in 1..expired /\ disk # req[t].tried
          /\ Set(t, "tried", disk) /\ Goto(t, "exchange2")
       \/ /\ disk \in {0, req[t].tried}
          /\ Goto(t, "permanent") /\ UNCHANGED req
    /\ UNCHANGED <<provider, expired, disk, managers, lockFile, fd, excused, faults>>

\* Mutant: every permanent failure is for good.
PermanentForGood(t) ==
    LET m == ManagerOf[t]
    IN  /\ pc[t] \in {"permanent", "escalated"}
        /\ IF Adoptable(m, req[t].reason)
           THEN Remember(m, disk) /\ UNCHANGED verdict
           ELSE /\ verdict' = [verdict EXCEPT ![m] = [key |-> req[t].tried, sticky |-> TRUE]]
                /\ UNCHANGED mem
        /\ Return(t)
        /\ UNCHANGED <<provider, expired, disk, lockName, stale, left, excused, faults>>

\* apply_refresh_outcome of a permanent failure.
PermanentFailure(t) ==
    LET m == ManagerOf[t]
    IN  /\ pc[t] \in {"permanent", "escalated"}
        /\ CASE Adoptable(m, req[t].reason) ->
                    Remember(m, disk) /\ UNCHANGED verdict
             [] ~Adoptable(m, req[t].reason) /\ SiblingRotated(m) ->
                    UNCHANGED <<mem, verdict>>
             [] ~Adoptable(m, req[t].reason) /\ ~SiblingRotated(m) ->
                    /\ verdict' = [verdict EXCEPT ![m] =
                                      [key |-> req[t].tried, sticky |-> pc[t] = "permanent"]]
                    /\ UNCHANGED mem
        /\ Return(t)
        /\ UNCHANGED <<provider, expired, disk, lockName, stale, left, excused, faults>>

\* update: auth.json, then memory whether or not the write succeeded. Enrichment fetches the
\* user's profile on its own and, if it gets one, takes the lock to merge it in.
Persist(t) ==
    /\ pc[t] = "granted"
    /\ \/ disk' = req[t].got /\ UNCHANGED <<excused, faults>>
       \/ Fault /\ excused' = TRUE /\ UNCHANGED disk
    /\ Remember(ManagerOf[t], req[t].got)
    /\ \/ Return(t)
       \/ /\ LetGo(t) /\ Goto(t, "try")
          /\ req' = [req EXCEPT ![t] = Enriching(req[t].got)]
    /\ UNCHANGED <<provider, expired, verdict, lockName, stale, left>>

-----------------------------------------------------------------------------
(* Enrichment, and what else touches the entry. *)

\* Mutant: whatever entry is there.
EnrichReadAny(t) ==
    /\ pc[t] = "enrichRead"
    /\ Goto(t, "enrichWrite")
    /\ UNCHANGED <<provider, expired, disk, managers, lockFile, fd, req, excused, faults>>

\* The sibling-stomp guard: only the entry this refresh wrote.
EnrichRead(t) ==
    /\ pc[t] = "enrichRead"
    /\ IF disk = req[t].got THEN Goto(t, "enrichWrite") /\ UNCHANGED <<owner, fd, mutex, req>>
                            ELSE Return(t)
    /\ UNCHANGED <<provider, expired, disk, mem, verdict, lockName, stale, left, excused, faults>>

\* The merged entry, to disk and then to memory, or neither when the write fails.
EnrichWrite(t) ==
    /\ pc[t] = "enrichWrite"
    /\ \/ /\ disk' = req[t].got
          /\ Remember(ManagerOf[t], req[t].got)
          /\ excused' = (excused \/ fd[t] = 0)
       \/ UNCHANGED <<disk, mem, excused>>
    /\ Return(t)
    /\ UNCHANGED <<provider, expired, verdict, lockName, stale, left, faults>>

\* force_reload_from_disk: what the disk says; with no entry there, nothing, or what is in
\* memory if the file itself is gone.
ForceReload(m) ==
    /\ Remember(m, disk)
    /\ UNCHANGED <<provider, expired, disk, verdict, mutex, lockFile, pc, fd, req, excused, faults>>

\* remove_scope: the entry stays on disk if the lock is taken. When it goes, a sibling is left
\* with whatever it remembers.
Logout(m) ==
    /\ Fault /\ mem[m] # 0
    /\ Remember(m, 0)
    /\ lockName' = Opened
    /\ IF Free(Opened)
       THEN disk' = 0 /\ excused' = TRUE /\ stale' = FALSE
       ELSE UNCHANGED <<disk, excused, stale>>
    /\ UNCHANGED <<provider, expired, verdict, mutex, owner, left, pc, fd, req>>

\* PERMANENT_FAILURE_TTL
VerdictAges(m) ==
    /\ verdict[m].key # 0 /\ ~verdict[m].sticky
    /\ verdict' = [verdict EXCEPT ![m] = NoVerdict]
    /\ UNCHANGED <<provider, expired, disk, mem, mutex, lockFile, pc, fd, req, excused, faults>>

TokensExpire ==
    /\ expired < minted
    /\ expired' = minted
    /\ UNCHANGED <<provider, disk, managers, lockFile, pc, fd, req, excused, faults>>

\* The holder info of the last holder grows old while nobody holds the lock, and is still there
\* when the next one has taken it; his own grows old when he is slow or suspended.
InfoAges ==
    /\ lockName # 0 /\ ~stale /\ brief = NoOne
    /\ IF owner[lockName] = NoOne THEN UNCHANGED faults ELSE Fault
    /\ stale' = TRUE
    /\ UNCHANGED <<provider, expired, disk, managers, lockName, owner, left, pc, fd, req, excused>>

Revoke ==
    /\ Fault /\ ~revoked
    /\ revoked' = TRUE
    /\ UNCHANGED <<minted, spent, reused, expired, disk, managers, lockFile, pc, fd, req, excused>>

\* A process dies and another starts in its place, from the file.
Crash(m) ==
    LET T == {t \in Tasks : ManagerOf[t] = m}
    IN  /\ Fault
        /\ excused' = (excused \/ \E t \in T : pc[t] = "granted")
        /\ pc' = [t \in Tasks |-> IF t \in T THEN "idle" ELSE pc[t]]
        /\ req' = [t \in Tasks |-> IF t \in T THEN NoRequest ELSE req[t]]
        /\ fd' = [t \in Tasks |-> IF t \in T THEN 0 ELSE fd[t]]
        /\ owner' = [i \in Inodes |-> IF owner[i] \in T THEN NoOne ELSE owner[i]]
        /\ mem' = [mem EXCEPT ![m] = disk]
        /\ verdict' = [verdict EXCEPT ![m] = NoVerdict]
        /\ mutex' = [mutex EXCEPT ![m] = NoOne]
        /\ behind' = behind \ {m} /\ brief' = IF brief = m THEN NoOne ELSE brief
        /\ UNCHANGED <<provider, expired, disk, lockName, stale>>

-----------------------------------------------------------------------------
Locking(t) == TryLock(t) \/ UnlinkStale(t) \/ OpenToWait(t) \/ Wake(t) \/ WaitTimeout(t)
              \/ WaitLeavesThread(t) \/ IdentifyHolder(t)

Refreshing(t) ==
    \/ ReloadFromDisk(t) \/ CheckVerdict(t) \/ TakeRefreshLock(t)
    \/ AdoptDisk(t) \/ GiveUp(t) \/ RevalidateLock(t) \/ Defer(t) \/ ChooseCredential(t)
    \/ ExchangeGranted(t) \/ ExchangeRejected(t) \/ ExchangeFails(t)
    \/ RetryWithDisk(t) \/ PermanentFailure(t) \/ Persist(t)
    \/ EnrichRead(t) \/ EnrichWrite(t)

Step(t) == Locking(t) \/ Refreshing(t)

LeftBehind == (\E m \in Managers : LeftLocks(m)) \/ LeftWrites \/ LeftCloses

Environment ==
    \/ \E t \in Tasks : Request(t) \/ Unauthorized(t) \/ AnswerLost(t)
    \/ \E m \in Managers : ForceReload(m) \/ Logout(m) \/ VerdictAges(m) \/ Crash(m)
    \/ LeftBehind
    \/ InfoAges \/ TokensExpire \/ Revoke

\* A login by another process or, with its enrichment still to come, by one of these; the lock
\* file is the one it left behind.
Init ==
    /\ minted = 1 /\ spent = {} /\ revoked = FALSE /\ reused = FALSE
    /\ expired = 0 /\ disk = 1
    /\ mem = [m \in Managers |-> 1]
    /\ verdict = [m \in Managers |-> NoVerdict]
    /\ mutex = [m \in Managers |-> NoOne]
    /\ lockName = 1 /\ owner = [i \in Inodes |-> NoOne]
    /\ stale = TRUE /\ behind = {} /\ brief = NoOne
    /\ fd = [t \in Tasks |-> 0]
    /\ \E E \in {{}} \cup {{t} : t \in Tasks} :
           /\ pc = [t \in Tasks |-> IF t \in E THEN "try" ELSE "idle"]
           /\ req = [t \in Tasks |-> IF t \in E THEN Enriching(1) ELSE NoRequest]
    /\ excused = FALSE /\ faults = 0

Next == (\E t \in Tasks : Step(t)) \/ Environment

Spec     == Init /\ [][Next]_vars
FairSpec == Spec /\ WF_vars(LeftBehind)
                 /\ \A t \in Tasks : SF_vars(Step(t)) /\ SF_vars(WaitTimeout(t))

-----------------------------------------------------------------------------
(* Properties. *)

Labels == {"idle", "try", "unlink", "open", "blocked", "identify", "reload", "chain", "mutex", "adopt",
           "readopt", "timedOut", "quit", "live", "refresh", "exchange", "exchange2", "rejected",
           "permanent", "escalated", "granted", "enrichRead", "enrichWrite"}

Requests == [want : {"refresh", "relock", "reload", "enrich"}, phase : 1..4,
             reason : {"request", "rejected"},
             saw : 0..MaxMint, tried : 0..MaxMint, got : 0..MaxMint]

\* Type invariant.
TypeOK ==
    /\ minted \in Credentials /\ spent \subseteq Credentials
    /\ revoked \in BOOLEAN /\ reused \in BOOLEAN
    /\ expired \in 0..MaxMint /\ disk \in 0..MaxMint
    /\ mem \in [Managers -> 0..MaxMint]
    /\ verdict \in [Managers -> [key : 0..MaxMint, sticky : BOOLEAN]]
    /\ mutex \in [Managers -> Tasks \cup {NoOne}]
    /\ lockName \in Inodes \cup {0} /\ owner \in [Inodes -> Tasks \cup {NoOne}] /\ stale \in BOOLEAN
    /\ behind \subseteq Managers /\ brief \in Managers \cup {NoOne}
    /\ pc \in [Tasks -> Labels] /\ fd \in [Tasks -> Inodes \cup {0}] /\ req \in [Tasks -> Requests]
    /\ excused \in BOOLEAN /\ faults \in 0..MaxFaults

\* The provider is never shown a refresh token it has exchanged already, unless a lock in use
\* was broken, an answer or a write was lost, enrichment wrote without the lock, or a logout
\* took the entry away (manager.rs refresh_chain, storage.rs still_live).
TokenSpentOnce == reused => excused

\* Short of these, auth.json has the newest credential, or the task that holds the lock is
\* about to write it: no process can be left with spent ones only (update, the stomp guard).
NewestIsKept ==
    \/ excused
    \/ disk = minted
    \/ \E t \in Tasks : /\ pc[t] = "granted" /\ req[t].got = minted
                        /\ fd[t] = lockName /\ owner[lockName] = t

\* A remembered "log in again" that never ages is about a credential the provider refuses for
\* good: no process turns its requests away over one that could still be refreshed
\* (record_permanent_failure with the tried key, permanent_failure).
StickyVerdictIsTrue ==
    \A m \in Managers : Failed(m) /\ verdict[m].sticky => ~Good(verdict[m].key)

\* No process and no file goes back to an older credential (try_use_disk_token, enrichment,
\* force_reload_from_disk).
CredentialsAdvance ==
    [][~excused' => /\ disk' >= disk
                    /\ \A m \in Managers : mem'[m] >= mem[m] \/ mem'[m] = 0]_vars

\* Every request ends, whatever the others do with refresh_lock and the file lock.
RequestEnds == \A t \in Tasks : pc[t] # "idle" ~> pc[t] = "idle"

\* "so only one participant ever spends a given refresh token" (manager.rs:1530-1531), said of
\* a run without any fault.
OneSpender == ~reused
================================================================================
