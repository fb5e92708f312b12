--------------------------- MODULE CircuitBreaker ---------------------------
(***************************************************************************)
(* The shared HTTP circuit breaker (crates/common/cf-circuit-breaker): a   *)
(* Closed / Open / HalfOpen machine kept in independent atomics and one    *)
(* mutex-protected sliding window.  There is no lock around a transition:  *)
(* trip() and close() are four separate stores each, so every atomic       *)
(* access is a step of its own here and any two callers may interleave.    *)
(*                                                                         *)
(* A caller runs check(), and when admitted sends its request; it then     *)
(* either calls record() or is cancelled and never records.                *)
(***************************************************************************)
EXTENDS Integers, Sequences, FiniteSets

CONSTANTS
    Threads,            \* callers sharing one breaker handle
    MinSamples,         \* config.min_samples
    RateNum, RateDen,   \* config.error_rate_threshold = RateNum / RateDen
    WindowDuration,     \* config.window_duration, in clock units
    OpenDuration,       \* config.open_duration, in clock units
    HalfOpenMaxProbes,  \* config.half_open_max_probes (clamped to >= 1)
    MaxWindowEntries,   \* MAX_WINDOW_ENTRIES (10_000 in the code)
    CounterModulus,     \* 2^64: half_open_probes is an AtomicUsize that wraps
    MaxTime             \* bound of the exploration: the clock stops here

ASSUME BreakerAssumption ==
    /\ IsFiniteSet(Threads)
    /\ HalfOpenMaxProbes \in Nat \ {0}
    /\ CounterModulus \in Nat
    /\ CounterModulus > HalfOpenMaxProbes + 2 * Cardinality(Threads)

ASSUME BreakerNumbers ==
    /\ MinSamples \in Nat /\ RateNum \in Nat /\ RateDen \in Nat \ {0}
    /\ WindowDuration \in Nat /\ OpenDuration \in Nat
    /\ MaxWindowEntries \in Nat \ {0} /\ MaxTime \in Nat

VARIABLES
    clock,           \* the Clock, in units after `baseline`
    state,           \* the authoritative state
    openedAt,        \* opened_at_millis
    halfOpenProbes,  \* half_open_probes
    probeClaimedAt,  \* probe_claimed_at_millis
    isOpenFast,      \* is_open_fast, the mirror is_open() reads
    window,          \* SlidingWindow.entries, oldest first
    failures,        \* SlidingWindow.failures
    pc,              \* where each caller is
    loc              \* the locals of each caller

probeVars  == <<halfOpenProbes, probeClaimedAt>>
windowVars == <<window, failures>>
vars == <<clock, state, openedAt, probeVars, isOpenFast, windowVars, pc, loc>>

States == {"Closed", "Open", "HalfOpen"}
Times  == 0 .. MaxTime
Sample == [at : Times, failed : BOOLEAN]

\* `now` is the clock reading a caller carries, `seen` the opened_at or
\* probe_claimed_at it loaded, `failed` the outcome it records.
Locals   == [now : Times, seen : Times, failed : BOOLEAN]
NoLocals == [now |-> 0, seen |-> 0, failed |-> FALSE]

Labels == {"idle", "opened_read", "open_cas", "open_mirror", "open_reread",
           "probe_now", "probe_add", "probe_store", "probe_sub",
           "lease_read", "lease_cas", "admitted", "record", "push_closed",
           "push_open", "trip_state", "trip_clock", "trip_opened", "trip_probes",
           "trip_mirror", "close_state", "close_window", "close_probes",
           "close_mirror"}

-----------------------------------------------------------------------------
\* fetch_add(1) and fetch_sub(1) wrap.
WrapInc(n) == IF n = CounterModulus - 1 THEN 0 ELSE n + 1
\* Mutant: fetch_sub does not wrap.
WrapDecBelowZero(n) == n - 1
WrapDec(n) == IF n = 0 THEN CounterModulus - 1 ELSE n - 1

SaturatingSub(a, b) == IF a >= b THEN a - b ELSE 0

FailureCount(w) == Cardinality({i \in DOMAIN w : w[i].failed})

\* How many entries evict() pops: it stops at the first one young enough, so an
\* old entry behind a younger one (two callers pushed out of order) stays.
EvictCount(w, now) ==
    Cardinality({i \in 1 .. Len(w) :
                    \A j \in 1 .. i : w[j].at < now - WindowDuration})

\* SlidingWindow::evict keeps its failure counter in step with what it pops.
Evict(w, f, now) ==
    LET n == EvictCount(w, now)
    IN  [entries  |-> SubSeq(w, n + 1, Len(w)),
         failures |-> f - FailureCount(SubSeq(w, 1, n))]

\* Mutant: push at the cap pops the oldest sample and keeps counting it.
PushKeepsCount(w, f, failed, at) ==
    [entries  |-> Append(IF Len(w) >= MaxWindowEntries THEN Tail(w) ELSE w,
                         [at |-> at, failed |-> failed]),
     failures |-> f + IF failed THEN 1 ELSE 0]

\* SlidingWindow::push drops the oldest sample at the cap.
Push(w, f, failed, at) ==
    LET full  == Len(w) >= MaxWindowEntries
        kept  == IF full THEN Tail(w) ELSE w
        fKept == IF full /\ Head(w).failed THEN f - 1 ELSE f
    IN  [entries  |-> Append(kept, [at |-> at, failed |-> failed]),
         failures |-> fKept + IF failed THEN 1 ELSE 0]

PushEvict(failed, at) ==
    LET p == Push(window, failures, failed, at)
    IN  Evict(p.entries, p.failures, at)

\* sample_count() >= min_samples && error_rate() >= threshold
ShouldTrip(w) ==
    /\ Len(w.entries) >= MinSamples
    /\ IF w.entries = <<>> THEN RateNum = 0
                           ELSE w.failures * RateDen >= RateNum * Len(w.entries)

-----------------------------------------------------------------------------
Init ==
    /\ clock = 0
    /\ state = "Closed"
    /\ openedAt = 0
    /\ halfOpenProbes = 0
    /\ probeClaimedAt = 0
    /\ isOpenFast = FALSE
    /\ window = <<>>
    /\ failures = 0
    /\ pc = [t \in Threads |-> "idle"]
    /\ loc = [t \in Threads |-> NoLocals]

Goto(t, label) == pc' = [pc EXCEPT ![t] = label]
\* A call returned, or reached a point where no local is read again.
Leave(t, label) ==
    /\ Goto(t, label)
    /\ loc' = [loc EXCEPT ![t] = NoLocals]

Tick ==
    /\ clock < MaxTime
    /\ clock' = clock + 1
    /\ UNCHANGED <<state, openedAt, probeVars, isOpenFast, windowVars, pc, loc>>

-----------------------------------------------------------------------------
\* check() dispatches on one load of the state.
AfterStateLoad(s) ==
    CASE s = "Closed"   -> "admitted"
      [] s = "Open"     -> "opened_read"
      [] s = "HalfOpen" -> "probe_now"

Check(t) ==
    /\ pc[t] = "idle"
    /\ Goto(t, AfterStateLoad(state))
    /\ UNCHANGED <<clock, state, openedAt, probeVars, isOpenFast, windowVars, loc>>

CheckOpenLoad(t) ==
    /\ pc[t] = "opened_read"
    /\ loc' = [loc EXCEPT ![t].seen = openedAt]
    /\ Goto(t, "open_cas")
    /\ UNCHANGED <<clock, state, openedAt, probeVars, isOpenFast, windowVars>>


CooledDown(seen) == SaturatingSub(clock, seen) >= OpenDuration

\* The clock read, the comparison and the CAS Open -> HalfOpen.  Reading the
\* clock at the CAS loses nothing: the comparison is monotone in it.
CheckOpenCas(t) ==
    /\ pc[t] = "open_cas"
    /\ \/ /\ ~CooledDown(loc[t].seen)
          /\ Leave(t, "idle")
          /\ UNCHANGED state
       \/ /\ CooledDown(loc[t].seen)
          /\ state = "Open"
          /\ state' = "HalfOpen"
          /\ Leave(t, "open_mirror")
       \/ /\ CooledDown(loc[t].seen)
          /\ state # "Open"
          /\ Leave(t, "open_reread")
          /\ UNCHANGED state
    /\ UNCHANGED <<clock, openedAt, probeVars, isOpenFast, windowVars>>

CheckOpenMirror(t) ==
    /\ pc[t] = "open_mirror"
    /\ isOpenFast' = FALSE
    /\ Goto(t, "probe_now")
    /\ UNCHANGED <<clock, state, openedAt, probeVars, windowVars, loc>>

\* Lost the CAS: the state is loaded again, and Open now means rejection.
CheckOpenReread(t) ==
    /\ pc[t] = "open_reread"
    /\ Goto(t, IF state = "Open" THEN "idle" ELSE AfterStateLoad(state))
    /\ UNCHANGED <<clock, state, openedAt, probeVars, isOpenFast, windowVars, loc>>

-----------------------------------------------------------------------------
\* try_half_open_probe(): clock read, fetch_add, then claim or give back.
ProbeNow(t) ==
    /\ pc[t] = "probe_now"
    /\ loc' = [loc EXCEPT ![t].now = clock]
    /\ Goto(t, "probe_add")
    /\ UNCHANGED <<clock, state, openedAt, probeVars, isOpenFast, windowVars>>

ProbeAdd(t) ==
    /\ pc[t] = "probe_add"
    /\ halfOpenProbes' = WrapInc(halfOpenProbes)
    /\ Goto(t, IF halfOpenProbes < HalfOpenMaxProbes THEN "probe_store"
                                                     ELSE "probe_sub")
    /\ UNCHANGED <<clock, state, openedAt, probeClaimedAt, isOpenFast,
                   windowVars, loc>>

ProbeStore(t) ==
    /\ pc[t] = "probe_store"
    /\ probeClaimedAt' = loc[t].now
    /\ Leave(t, "admitted")
    /\ UNCHANGED <<clock, state, openedAt, halfOpenProbes, isOpenFast, windowVars>>

\* Mutant: a rejected caller keeps its increment.
ProbeSubForgotten(t) ==
    /\ pc[t] = "probe_sub"
    /\ Goto(t, "lease_read")
    /\ UNCHANGED <<clock, state, openedAt, probeVars, isOpenFast, windowVars, loc>>

ProbeSub(t) ==
    /\ pc[t] = "probe_sub"
    /\ halfOpenProbes' = WrapDec(halfOpenProbes)
    /\ Goto(t, "lease_read")
    /\ UNCHANGED <<clock, state, openedAt, probeClaimedAt, isOpenFast,
                   windowVars, loc>>

\* Mutant: a claim is held for ever.
LeaseForEver(now, claimed) == FALSE

LeaseExpired(now, claimed) == SaturatingSub(now, claimed) >= OpenDuration

LeaseRead(t) ==
    /\ pc[t] = "lease_read"
    /\ \/ /\ LeaseExpired(loc[t].now, probeClaimedAt)
          /\ loc' = [loc EXCEPT ![t].seen = probeClaimedAt]
          /\ Goto(t, "lease_cas")
       \/ /\ ~LeaseExpired(loc[t].now, probeClaimedAt)
          /\ Leave(t, "idle")
    /\ UNCHANGED <<clock, state, openedAt, probeVars, isOpenFast, windowVars>>

\* compare_exchange(claimed, now): exactly one caller takes the claim over.
LeaseCas(t) ==
    /\ pc[t] = "lease_cas"
    /\ \/ /\ probeClaimedAt = loc[t].seen
          /\ probeClaimedAt' = loc[t].now
          /\ Leave(t, "admitted")
       \/ /\ probeClaimedAt # loc[t].seen
          /\ Leave(t, "idle")
          /\ UNCHANGED probeClaimedAt
    /\ UNCHANGED <<clock, state, openedAt, halfOpenProbes, isOpenFast, windowVars>>

-----------------------------------------------------------------------------
\* The caller's future is dropped between check() and record().
Cancelled(t) ==
    /\ pc[t] = "admitted"
    /\ Leave(t, "idle")
    /\ UNCHANGED <<clock, state, openedAt, probeVars, isOpenFast, windowVars>>

\* record(outcome): the clock is read before the state is loaded.
Record(t) ==
    /\ pc[t] = "admitted"
    /\ \E failed \in BOOLEAN :
          loc' = [loc EXCEPT ![t] = [NoLocals EXCEPT !.now = clock,
                                                     !.failed = failed]]
    /\ Goto(t, "record")
    /\ UNCHANGED <<clock, state, openedAt, probeVars, isOpenFast, windowVars>>

RecordLoad(t) ==
    /\ pc[t] = "record"
    /\ \/ state = "Closed" /\ Goto(t, "push_closed") /\ UNCHANGED loc
       \/ state = "Open"   /\ Goto(t, "push_open")   /\ UNCHANGED loc
       \/ /\ state = "HalfOpen"
          /\ Leave(t, IF loc[t].failed THEN "trip_state" ELSE "close_state")
    /\ UNCHANGED <<clock, state, openedAt, probeVars, isOpenFast, windowVars>>

\* The window is updated and judged under its mutex; trip() runs after it.
RecordPush(t) ==
    /\ pc[t] \in {"push_closed", "push_open"}
    /\ LET w == PushEvict(loc[t].failed, loc[t].now)
       IN  /\ window' = w.entries
           /\ failures' = w.failures
           /\ Leave(t, IF pc[t] = "push_closed" /\ ShouldTrip(w)
                       THEN "trip_state" ELSE "idle")
    /\ UNCHANGED <<clock, state, openedAt, probeVars, isOpenFast>>

\* error_rate() evicts against the current clock before it reads.
ErrorRate ==
    LET w == Evict(window, failures, clock)
    IN  /\ w.entries # window
        /\ window' = w.entries
        /\ failures' = w.failures
        /\ UNCHANGED <<clock, state, openedAt, probeVars, isOpenFast, pc, loc>>

-----------------------------------------------------------------------------
\* trip(): four stores, in this order; the clock is read before the second.
TripState(t) ==
    /\ pc[t] = "trip_state"
    /\ state' = "Open"
    /\ Goto(t, "trip_clock")
    /\ UNCHANGED <<clock, openedAt, probeVars, isOpenFast, windowVars, loc>>

TripClock(t) ==
    /\ pc[t] = "trip_clock"
    /\ loc' = [loc EXCEPT ![t].now = clock]
    /\ Goto(t, "trip_opened")
    /\ UNCHANGED <<clock, state, openedAt, probeVars, isOpenFast, windowVars>>

TripOpened(t) ==
    /\ pc[t] = "trip_opened"
    /\ openedAt' = loc[t].now
    /\ Leave(t, "trip_probes")
    /\ UNCHANGED <<clock, state, probeVars, isOpenFast, windowVars>>

TripProbes(t) ==
    /\ pc[t] = "trip_probes"
    /\ halfOpenProbes' = 0
    /\ Goto(t, "trip_mirror")
    /\ UNCHANGED <<clock, state, openedAt, probeClaimedAt, isOpenFast,
                   windowVars, loc>>

TripMirror(t) ==
    /\ pc[t] = "trip_mirror"
    /\ isOpenFast' = TRUE
    /\ Goto(t, "idle")
    /\ UNCHANGED <<clock, state, openedAt, probeVars, windowVars, loc>>

\* close(): likewise; the window is cleared under its mutex.
CloseState(t) ==
    /\ pc[t] = "close_state"
    /\ state' = "Closed"
    /\ Goto(t, "close_window")
    /\ UNCHANGED <<clock, openedAt, probeVars, isOpenFast, windowVars, loc>>

CloseWindow(t) ==
    /\ pc[t] = "close_window"
    /\ window' = <<>>
    /\ failures' = 0
    /\ Goto(t, "close_probes")
    /\ UNCHANGED <<clock, state, openedAt, probeVars, isOpenFast, loc>>

CloseProbes(t) ==
    /\ pc[t] = "close_probes"
    /\ halfOpenProbes' = 0
    /\ Goto(t, "close_mirror")
    /\ UNCHANGED <<clock, state, openedAt, probeClaimedAt, isOpenFast,
                   windowVars, loc>>

CloseMirror(t) ==
    /\ pc[t] = "close_mirror"
    /\ isOpenFast' = FALSE
    /\ Goto(t, "idle")
    /\ UNCHANGED <<clock, state, openedAt, probeVars, windowVars, loc>>

-----------------------------------------------------------------------------
CheckCall(t)  == \/ Check(t) \/ CheckOpenLoad(t) \/ CheckOpenCas(t)
                 \/ CheckOpenMirror(t) \/ CheckOpenReread(t)
ProbeCall(t)  == \/ ProbeNow(t) \/ ProbeAdd(t) \/ ProbeStore(t)
                 \/ ProbeSub(t) \/ LeaseRead(t) \/ LeaseCas(t)
RecordCall(t) == Record(t) \/ RecordLoad(t) \/ RecordPush(t)
TripCall(t)   == \/ TripState(t) \/ TripClock(t) \/ TripOpened(t)
                 \/ TripProbes(t) \/ TripMirror(t)
CloseCall(t)  == CloseState(t) \/ CloseWindow(t) \/ CloseProbes(t) \/ CloseMirror(t)

ThreadStep(t) == CheckCall(t) \/ ProbeCall(t) \/ RecordCall(t)
                 \/ TripCall(t) \/ CloseCall(t)

Next == Tick \/ ErrorRate \/ \E t \in Threads : ThreadStep(t) \/ Cancelled(t)

Spec == Init /\ [][Next]_vars

-----------------------------------------------------------------------------
\* Type correctness of every atomic, of the window and of the callers' locals.
TypeOK ==
    /\ clock \in Times
    /\ state \in States
    /\ openedAt \in Times
    /\ halfOpenProbes \in 0 .. CounterModulus - 1
    /\ probeClaimedAt \in Times
    /\ isOpenFast \in BOOLEAN
    /\ window \in Seq(Sample)
    /\ failures \in Int
    /\ pc \in [Threads -> Labels]
    /\ loc \in [Threads -> Locals]

\* The incremental failure counter of the window equals the number of failed
\* samples in it, and the cap holds, whatever evictions, cap pops, clears and
\* out-of-order pushes came before (error_rate() divides these two).
WindowCountExact ==
    /\ failures = FailureCount(window)
    /\ Len(window) <= MaxWindowEntries

\* Callers between the fetch_add that did not admit them and its fetch_sub.
GivingBack == {t \in Threads : pc[t] = "probe_sub"}

\* half_open_probes may wrap below zero (a reset lands between another
\* caller's fetch_add and fetch_sub), but it is never further than the number
\* of callers from the range 0 .. max: the deficit does not accumulate.
ProbeCounterBand ==
    \/ halfOpenProbes <= HalfOpenMaxProbes + Cardinality(Threads)
    \/ halfOpenProbes >= CounterModulus - Cardinality(Threads)

\* The inductive form: pending give-backs are accounted on both sides.
ProbeCounterInv ==
    \/ halfOpenProbes <= HalfOpenMaxProbes + Cardinality(GivingBack)
    \/ halfOpenProbes >= CounterModulus - Cardinality(Threads)
                                        + Cardinality(GivingBack)

-----------------------------------------------------------------------------
\* Fairness: time passes, a running call finishes, and traffic keeps arriving
\* (each caller calls check() again).  Nothing makes an admitted caller record:
\* it may be cancelled every time.
Fairness ==
    /\ WF_vars(Tick)
    /\ \A t \in Threads : /\ WF_vars(ThreadStep(t) /\ pc[t] # "admitted")
                          /\ WF_vars((Record(t) \/ Cancelled(t)))

FairSpec == Spec /\ Fairness

\* Lines 32-39: a probe whose owner never records delays recovery by at most
\* one cool-down.  In HalfOpen, with a cool-down left on the clock, some caller
\* is eventually admitted or the breaker leaves HalfOpen: it never sheds all
\* traffic for good.
NotStranded ==
    (state = "HalfOpen" /\ clock + OpenDuration <= MaxTime)
        ~> (state # "HalfOpen" \/ \E t \in Threads : pc[t] = "admitted")

\* The service is well again: no failure is recorded any more, and those who
\* are admitted report.
WellAgain ==
    /\ <>[](\A t \in Threads : ~loc[t].failed)
    /\ <>[][\A t \in Threads : ~Cancelled(t)]_vars

\* What it waits for lies beyond the exploration: the cool-down of an open
\* breaker, the lease of a claim in a half-open one.
BeyondMaxTime ==
    \/ state = "Open" /\ openedAt + OpenDuration > MaxTime
    \/ state = "HalfOpen" /\ probeClaimedAt + OpenDuration > MaxTime


-----------------------------------------------------------------------------
\* Lines 41-43 call is_open_fast a mirror of `state == Open`.  Once no caller
\* is inside a call, the mirror should agree with the state.
AtRest == \A t \in Threads : pc[t] \in {"idle", "admitted"}
MirrorAgreesAtRest == AtRest => (isOpenFast <=> state = "Open")

\* Lines 211-213: on entry to HalfOpen half_open_probes "is already 0".
ProbesZeroOnHalfOpen ==
    [][state = "Open" /\ state' = "HalfOpen" => halfOpenProbes = 0]_vars

\* check_open() (203-208) admits a probe when open_duration has passed since
\* opened_at: since the last trip, were the stores of trip() one. A check between
\* the first and the second of them (248-254), or with an opened_at it loaded
\* before, cuts the cool-down short.
CoolDownIsKept ==
    [][state = "Open" /\ state' = "HalfOpen" =>
         CooledDown(openedAt) /\ \A t \in Threads : pc[t] \notin {"trip_clock", "trip_opened"}]_vars
=============================================================================
