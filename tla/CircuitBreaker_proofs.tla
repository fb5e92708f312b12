----------------------- MODULE CircuitBreaker_proofs -----------------------
(* Proofs about CircuitBreaker for any number of callers and any tuning.   *)
EXTENDS CircuitBreaker, FunctionTheorems, FiniteSetTheorems, SequenceTheorems, TLAPS

\* FailureCount is a natural number on every window.
LEMMA FailureCountType ==
    ASSUME NEW w \in Seq(Sample)
    PROVE  FailureCount(w) \in Nat
<1>1. DOMAIN w = 1 .. Len(w) /\ Len(w) \in Nat
  OBVIOUS
<1>2. IsFiniteSet(1 .. Len(w))
  BY <1>1, FS_Interval
<1>3. IsFiniteSet({i \in DOMAIN w : w[i].failed})
  BY <1>1, <1>2, FS_Subset, SMT
<1> QED
  BY <1>3, FS_CardinalityType DEF FailureCount

\* evict() never pops more entries than there are.
LEMMA EvictCountType ==
    ASSUME NEW w \in Seq(Sample), NEW now
    PROVE  EvictCount(w, now) \in 0 .. Len(w)
<1> DEFINE old == {i \in 1 .. Len(w) :
                      \A j \in 1 .. i : w[j].at < now - WindowDuration}
<1>1. Len(w) \in Nat
  OBVIOUS
<1>2. IsFiniteSet(1 .. Len(w)) /\ Cardinality(1 .. Len(w)) = Len(w)
  BY <1>1, FS_Interval, SMT
<1>3. old \subseteq 1 .. Len(w)
  OBVIOUS
<1>4. IsFiniteSet(old) /\ Cardinality(old) <= Len(w)
  BY <1>2, <1>3, FS_Subset
<1>5. Cardinality(old) \in Nat
  BY <1>4, FS_CardinalityType
<1> HIDE DEF old
<1>6. Cardinality(old) \in 0 .. Len(w)
  BY <1>1, <1>4, <1>5
<1> QED
  BY <1>6 DEF EvictCount, old

\* evict() leaves a window of samples and an integer counter.
LEMMA EvictType ==
    ASSUME NEW w \in Seq(Sample), NEW f \in Int, NEW now
    PROVE  /\ Evict(w, f, now).entries \in Seq(Sample)
           /\ Evict(w, f, now).failures \in Int
<1> DEFINE n == EvictCount(w, now)
<1>1. n \in 0 .. Len(w) /\ Len(w) \in Nat
  BY EvictCountType
<1> HIDE DEF n
<1>2. SubSeq(w, n + 1, Len(w)) \in Seq(Sample)
  <2>1. \A i \in n + 1 .. Len(w) : w[i] \in Sample
    BY <1>1
  <2> QED
    BY <1>1, <2>1, SubSeqProperties
<1>3. SubSeq(w, 1, n) \in Seq(Sample)
  <2>1. \A i \in 1 .. n : w[i] \in Sample
    BY <1>1
  <2> QED
    BY <1>1, <2>1, SubSeqProperties
<1>4. FailureCount(SubSeq(w, 1, n)) \in Nat
  BY <1>3, FailureCountType
<1> QED
  BY <1>2, <1>4 DEF Evict, n

\* So does a push followed by an eviction.
LEMMA PushEvictType ==
    ASSUME window \in Seq(Sample), failures \in Int,
           NEW failed \in BOOLEAN, NEW at \in Times
    PROVE  /\ PushEvict(failed, at).entries \in Seq(Sample)
           /\ PushEvict(failed, at).failures \in Int
<1> DEFINE s == [at |-> at, failed |-> failed]
           full == Len(window) >= MaxWindowEntries
           kept == IF full THEN Tail(window) ELSE window
           p == Push(window, failures, failed, at)
<1>1. s \in Sample
  BY DEF Sample
<1>2. kept \in Seq(Sample)
  <2>1. CASE full
    <3>1. Len(window) >= 1
      BY <2>1, BreakerNumbers
    <3>2. window # <<>>
      BY <3>1
    <3> QED
      BY <2>1, <3>2, HeadTailProperties
  <2> QED
    BY <2>1
<1>3. Append(kept, s) \in Seq(Sample)
  BY <1>1, <1>2, AppendProperties
<1>4. p.entries \in Seq(Sample) /\ p.failures \in Int
  BY <1>3 DEF Push
<1> HIDE DEF p
<1>5. PushEvict(failed, at) = Evict(p.entries, p.failures, at)
  BY DEF PushEvict, p
<1> QED
  BY <1>4, <1>5, EvictType

\* The counter wraps inside its width.
LEMMA WrapType ==
    ASSUME NEW n \in 0 .. CounterModulus - 1
    PROVE  /\ WrapInc(n) \in 0 .. CounterModulus - 1
           /\ WrapDec(n) \in 0 .. CounterModulus - 1
BY BreakerAssumption, FS_CardinalityType DEF WrapInc, WrapDec

\* The initial and reset values are well typed.
LEMMA ZeroType ==
    0 \in Times /\ 0 \in 0 .. CounterModulus - 1 /\ <<>> \in Seq(Sample)
<1>1. 0 \in Times /\ 0 \in 0 .. CounterModulus - 1
  BY BreakerAssumption, BreakerNumbers, FS_CardinalityType DEF Times
<1>2. <<>> \in Seq(Sample)
  OBVIOUS
<1> QED
  BY <1>1, <1>2

\* What a caller's locals may become keeps their type.
LEMMA LocalsType ==
    /\ NoLocals \in Locals
    /\ \A l \in Locals, n \in Times :
          /\ [l EXCEPT !.now = n] \in Locals
          /\ [l EXCEPT !.seen = n] \in Locals
          /\ l.now \in Times /\ l.seen \in Times
BY ZeroType DEF Locals, NoLocals

LEMMA RecordLocalsType ==
    /\ \A l \in Locals : l.failed \in BOOLEAN
    /\ \A n \in Times, b \in BOOLEAN :
          [NoLocals EXCEPT !.now = n, !.failed = b] \in Locals
BY ZeroType DEF Locals, NoLocals

-----------------------------------------------------------------------------
\* Every reachable state is well typed: in particular every stale clock
\* reading a caller carries is a reading the clock really had the range of,
\* and the wrapping probe counter stays inside its width.
THEOREM TypeCorrect == Spec => []TypeOK
<1>1. Init => TypeOK
  <2> SUFFICES ASSUME Init PROVE TypeOK
    OBVIOUS
  <2>1. window \in Seq(Sample)
    BY DEF Init
  <2>2. pc \in [Threads -> Labels]
    BY DEF Init, Labels
  <2>3. loc \in [Threads -> Locals]
    BY LocalsType DEF Init
  <2> QED
    <3>1. isOpenFast \in BOOLEAN
      BY DEF Init
    <3>2. state \in States /\ failures \in Int
      BY DEF Init, States
    <3>3. /\ clock \in Times /\ openedAt \in Times /\ probeClaimedAt \in Times
          /\ halfOpenProbes \in 0 .. CounterModulus - 1
      BY ZeroType DEF Init
    <3> QED
      BY <2>1, <2>2, <2>3, <3>1, <3>2, <3>3 DEF TypeOK
<1>2. TypeOK /\ [Next]_vars => TypeOK'
  <2> SUFFICES ASSUME TypeOK, [Next]_vars PROVE TypeOK'
    OBVIOUS
  <2> USE ZeroType, LocalsType DEF TypeOK, Goto, Leave, States, Labels
  <2>1. CASE Tick
    <3>1. clock' \in Times
      BY <2>1, BreakerNumbers DEF Tick, Times
    <3> QED
      BY <2>1, <3>1 DEF Tick, probeVars, windowVars
  <2>2. CASE ErrorRate
    <3>1. /\ window' \in Seq(Sample)
          /\ failures' \in Int
      BY <2>2, EvictType DEF ErrorRate
    <3> QED
      BY <2>2, <3>1 DEF ErrorRate, probeVars
  <2>3. ASSUME NEW t \in Threads, CheckCall(t) PROVE TypeOK'
    <3>1. CASE Check(t)
      BY <3>1 DEF Check, AfterStateLoad, probeVars, windowVars
    <3>2. CASE CheckOpenLoad(t)
      BY <3>2 DEF CheckOpenLoad, probeVars, windowVars
    <3>3. CASE CheckOpenCas(t)
      BY <3>3 DEF CheckOpenCas, probeVars, windowVars
    <3>4. CASE CheckOpenMirror(t)
      BY <3>4 DEF CheckOpenMirror, probeVars, windowVars
    <3>5. CASE CheckOpenReread(t)
      BY <3>5 DEF CheckOpenReread, AfterStateLoad, probeVars, windowVars
    <3> QED
      BY <2>3, <3>1, <3>2, <3>3, <3>4, <3>5 DEF CheckCall
  <2>4. ASSUME NEW t \in Threads, ProbeCall(t) PROVE TypeOK'
    <3>1. CASE ProbeNow(t)
      BY <3>1 DEF ProbeNow, probeVars, windowVars
    <3>2. CASE ProbeAdd(t)
      BY <3>2, WrapType DEF ProbeAdd, windowVars
    <3>3. CASE ProbeStore(t)
      BY <3>3 DEF ProbeStore, windowVars
    <3>4. CASE ProbeSub(t)
      BY <3>4, WrapType DEF ProbeSub, windowVars
    <3>5. CASE LeaseRead(t)
      <4>1. pc' \in [Threads -> Labels]
        BY <3>5 DEF LeaseRead
      <4>2. loc' \in [Threads -> Locals]
        <5>1. CASE loc' = [loc EXCEPT ![t].seen = probeClaimedAt]
          BY <5>1
        <5>2. CASE loc' = [loc EXCEPT ![t] = NoLocals]
          BY <5>2
        <5> QED
          BY <3>5, <5>1, <5>2, Zenon DEF LeaseRead, Leave
      <4> QED
        BY <3>5, <4>1, <4>2 DEF LeaseRead, probeVars, windowVars
    <3>6. CASE LeaseCas(t)
      <4>1. pc' \in [Threads -> Labels]
        BY <3>6 DEF LeaseCas
      <4>2. loc' \in [Threads -> Locals]
        BY <3>6 DEF LeaseCas
      <4> QED
        BY <3>6, <4>1, <4>2, ZenonT(60) DEF LeaseCas, windowVars
    <3> QED
      BY <2>4, <3>1, <3>2, <3>3, <3>4, <3>5, <3>6 DEF ProbeCall
  <2>5. ASSUME NEW t \in Threads, RecordCall(t) PROVE TypeOK'
    <3>1. CASE Record(t)
      <4>1. /\ pc' \in [Threads -> Labels]
            /\ loc' \in [Threads -> Locals]
        BY <3>1, RecordLocalsType DEF Record
      <4> QED
        BY <3>1, <4>1 DEF Record, probeVars, windowVars
    <3>2. CASE RecordLoad(t)
      BY <3>2 DEF RecordLoad, probeVars, windowVars
    <3>3. CASE RecordPush(t)
      <4>1. loc[t].failed \in BOOLEAN /\ loc[t].now \in Times
        BY RecordLocalsType
      <4>2. /\ window' \in Seq(Sample)
            /\ failures' \in Int
        BY <3>3, <4>1, PushEvictType DEF RecordPush
      <4>3. /\ pc' \in [Threads -> Labels]
            /\ loc' \in [Threads -> Locals]
        BY <3>3 DEF RecordPush
      <4> QED
        BY <3>3, <4>2, <4>3 DEF RecordPush, probeVars
    <3> QED
      BY <2>5, <3>1, <3>2, <3>3 DEF RecordCall
  <2>6. ASSUME NEW t \in Threads, TripCall(t) PROVE TypeOK'
    <3>1. CASE TripClock(t)
      BY <3>1 DEF TripClock, probeVars, windowVars
    <3>2. CASE TripOpened(t)
      <4>1. /\ pc' \in [Threads -> Labels]
            /\ loc' \in [Threads -> Locals]
            /\ openedAt' \in Times
        BY <3>2 DEF TripOpened
      <4> QED
        BY <3>2, <4>1 DEF TripOpened, probeVars, windowVars
    <3>3. CASE TripState(t) \/ TripProbes(t) \/ TripMirror(t)
      BY <3>3 DEF TripState, TripProbes, TripMirror, probeVars, windowVars
    <3> QED
      BY <2>6, <3>1, <3>2, <3>3 DEF TripCall
  <2>7. ASSUME NEW t \in Threads, CloseCall(t) PROVE TypeOK'
    <3>1. CASE CloseState(t)
      BY <3>1 DEF CloseState, probeVars, windowVars
    <3>2. CASE CloseWindow(t)
      <4>1. window' \in Seq(Sample) /\ failures' \in Int
        BY <3>2 DEF CloseWindow
      <4> QED
        BY <3>2, <4>1 DEF CloseWindow, probeVars
    <3>3. CASE CloseProbes(t)
      BY <3>3 DEF CloseProbes, windowVars
    <3>4. CASE CloseMirror(t)
      BY <3>4 DEF CloseMirror, probeVars, windowVars
    <3> QED
      BY <2>7, <3>1, <3>2, <3>3, <3>4 DEF CloseCall
  <2>8. ASSUME NEW t \in Threads, Cancelled(t) PROVE TypeOK'
    BY <2>8 DEF Cancelled, probeVars, windowVars
  <2>9. CASE UNCHANGED vars
    BY <2>9 DEF vars, probeVars, windowVars
  <2> QED
    BY <2>1, <2>2, <2>3, <2>4, <2>5, <2>6, <2>7, <2>8, <2>9
       DEF Next, ThreadStep
<1> QED
  BY <1>1, <1>2, PTL DEF Spec

-----------------------------------------------------------------------------
\* How a caller's move changes the set of pending give-backs.
LEMMA GivingBackCount ==
    ASSUME TypeOK
    PROVE  /\ IsFiniteSet(GivingBack)
           /\ Cardinality(GivingBack) \in Nat
           /\ Cardinality(GivingBack) <= Cardinality(Threads)
           /\ Cardinality(Threads) \in Nat
<1>1. GivingBack \subseteq Threads
  BY DEF GivingBack
<1> QED
  BY <1>1, BreakerAssumption, FS_Subset, FS_CardinalityType

\* A step that enters or leaves no give-back keeps their number.
LEMMA GivingBackSame ==
    ASSUME TypeOK, NEW t \in Threads, NEW label \in Labels,
           Goto(t, label), pc[t] # "probe_sub", label # "probe_sub"
    PROVE  GivingBack' = GivingBack
BY DEF GivingBack, Goto, TypeOK

\* The counter invariant is inductive given the types: a reset forgives at
\* most one pending fetch_sub per caller.
LEMMA ProbeCounterStep ==
    TypeOK /\ ProbeCounterInv /\ [Next]_vars => ProbeCounterInv'
<1> SUFFICES ASSUME TypeOK, ProbeCounterInv, [Next]_vars
             PROVE  ProbeCounterInv'
  OBVIOUS
<1> DEFINE N == Cardinality(Threads)
           g == Cardinality(GivingBack)
<1>1. /\ g \in Nat /\ N \in Nat /\ g <= N
      /\ halfOpenProbes \in 0 .. CounterModulus - 1
      /\ HalfOpenMaxProbes \in Nat \ {0} /\ CounterModulus \in Nat
      /\ CounterModulus > HalfOpenMaxProbes + 2 * N
      /\ IsFiniteSet(GivingBack)
  BY GivingBackCount, BreakerAssumption DEF TypeOK
<1>2. \/ halfOpenProbes <= HalfOpenMaxProbes + g
      \/ halfOpenProbes >= CounterModulus - N + g
  BY DEF ProbeCounterInv
\* Steps that leave the counter and the set of give-backs alone.
<1>3. ASSUME UNCHANGED halfOpenProbes, GivingBack' = GivingBack
      PROVE  ProbeCounterInv'
  BY <1>3 DEF ProbeCounterInv
\* The resets of trip() and close().
<1>4. ASSUME halfOpenProbes' = 0, GivingBack' = GivingBack
      PROVE  ProbeCounterInv'
  <2> HIDE DEF g, N
  <2>1. 0 <= HalfOpenMaxProbes + g
    BY <1>1
  <2> QED
    BY <1>4, <2>1 DEF ProbeCounterInv, g
<1>5. ASSUME NEW t \in Threads, ProbeAdd(t) PROVE ProbeCounterInv'
  <2>1. halfOpenProbes' = WrapInc(halfOpenProbes)
    BY <1>5 DEF ProbeAdd
  <2>2. CASE halfOpenProbes < HalfOpenMaxProbes
    <3>1. GivingBack' = GivingBack
      BY <1>5, <2>2, GivingBackSame DEF ProbeAdd, Labels
    <3> HIDE DEF g, N
    <3>2. halfOpenProbes' = halfOpenProbes + 1
      BY <1>1, <2>1, <2>2 DEF WrapInc
    <3>3. halfOpenProbes' <= HalfOpenMaxProbes + g
      BY <1>1, <2>2, <3>2
    <3> QED
      BY <3>1, <3>3 DEF ProbeCounterInv, g
  <2>3. CASE ~(halfOpenProbes < HalfOpenMaxProbes)
    <3>1. GivingBack' = GivingBack \cup {t} /\ t \notin GivingBack
      BY <1>5, <2>3 DEF ProbeAdd, Goto, GivingBack, TypeOK
    <3>2. Cardinality(GivingBack') = g + 1
      BY <1>1, <3>1, FS_AddElement
    <3> HIDE DEF g, N
    <3>3. \/ halfOpenProbes' <= HalfOpenMaxProbes + (g + 1)
          \/ halfOpenProbes' >= CounterModulus - N + (g + 1)
      BY <1>1, <1>2, <2>1 DEF WrapInc
    <3> QED
      BY <3>2, <3>3 DEF ProbeCounterInv, N
  <2> QED
    BY <2>2, <2>3
<1>6. ASSUME NEW t \in Threads, ProbeSub(t) PROVE ProbeCounterInv'
  <2>1. GivingBack' = GivingBack \ {t} /\ t \in GivingBack
    BY <1>6 DEF ProbeSub, Goto, GivingBack, TypeOK
  <2>2. Cardinality(GivingBack') = g - 1
    BY <1>1, <2>1, FS_RemoveElement
  <2>3. g - 1 \in Nat
    BY <1>1, <2>1, <2>2, FS_RemoveElement, FS_CardinalityType
  <2>4. halfOpenProbes' = WrapDec(halfOpenProbes)
    BY <1>6 DEF ProbeSub
  <2> HIDE DEF g, N
  <2>5. \/ halfOpenProbes' <= HalfOpenMaxProbes + (g - 1)
        \/ halfOpenProbes' >= CounterModulus - N + (g - 1)
    BY <1>1, <1>2, <2>3, <2>4 DEF WrapDec
  <2> QED
    BY <2>2, <2>5 DEF ProbeCounterInv, N
<1>7. ASSUME NEW t \in Threads, ThreadStep(t) \/ Cancelled(t)
      PROVE  ProbeCounterInv'
  <2> USE GivingBackSame DEF Labels, Leave
  <2>1. CASE CheckCall(t)
    <3>1. UNCHANGED halfOpenProbes
      BY <2>1 DEF CheckCall, Check, CheckOpenLoad, CheckOpenCas,
                  CheckOpenMirror, CheckOpenReread, probeVars
    <3>2. GivingBack' = GivingBack
      BY <2>1 DEF CheckCall, Check, CheckOpenLoad, CheckOpenCas,
                  CheckOpenMirror, CheckOpenReread, AfterStateLoad,
                  TypeOK, States
    <3> QED
      BY <3>1, <3>2, <1>3
  <2>2. CASE ProbeNow(t) \/ ProbeStore(t) \/ LeaseRead(t) \/ LeaseCas(t)
    <3>1. UNCHANGED halfOpenProbes
      BY <2>2 DEF ProbeNow, ProbeStore, LeaseRead, LeaseCas, probeVars
    <3>2. GivingBack' = GivingBack
      BY <2>2 DEF ProbeNow, ProbeStore, LeaseRead, LeaseCas
    <3> QED
      BY <3>1, <3>2, <1>3
  <2>3. CASE RecordCall(t) \/ Cancelled(t)
    <3>1. UNCHANGED halfOpenProbes
      BY <2>3 DEF RecordCall, Record, RecordLoad, RecordPush, Cancelled,
                  probeVars
    <3>2. GivingBack' = GivingBack
      BY <2>3 DEF RecordCall, Record, RecordLoad, RecordPush, Cancelled
    <3> QED
      BY <3>1, <3>2, <1>3
  <2>4. CASE TripCall(t) \/ CloseCall(t)
    <3>1. UNCHANGED halfOpenProbes \/ halfOpenProbes' = 0
      BY <2>4 DEF TripCall, TripState, TripClock, TripOpened, TripProbes, TripMirror,
                  CloseCall, CloseState, CloseWindow, CloseProbes,
                  CloseMirror, probeVars
    <3>2. GivingBack' = GivingBack
      BY <2>4 DEF TripCall, TripState, TripClock, TripOpened, TripProbes, TripMirror,
                  CloseCall, CloseState, CloseWindow, CloseProbes, CloseMirror
    <3> QED
      BY <3>1, <3>2, <1>3, <1>4
  <2> QED
    BY <1>5, <1>6, <1>7, <2>1, <2>2, <2>3, <2>4 DEF ThreadStep, ProbeCall
<1>8. CASE Tick \/ ErrorRate \/ UNCHANGED vars
  <2>1. UNCHANGED <<halfOpenProbes, pc>>
    BY <1>8 DEF Tick, ErrorRate, vars, probeVars
  <2> QED
    BY <2>1, <1>3 DEF GivingBack
<1> QED
  BY <1>7, <1>8 DEF Next

\* The half-open probe counter never drifts: whatever resets race with the
\* callers that give a slot back, it stays within one slot per caller of the
\* range the configuration allows, so a wrapped counter is always repaired by
\* the next reset instead of getting worse.
THEOREM ProbeBand == Spec => []ProbeCounterBand
<1>1. Init => ProbeCounterInv
  <2> SUFFICES ASSUME Init PROVE ProbeCounterInv
    OBVIOUS
  <2>1. GivingBack = {}
    BY DEF Init, GivingBack
  <2> QED
    BY <2>1, FS_EmptySet, BreakerAssumption DEF Init, ProbeCounterInv
<1>2. TypeOK /\ ProbeCounterInv /\ [Next]_vars => ProbeCounterInv'
  BY ProbeCounterStep
<1>3. TypeOK /\ ProbeCounterInv => ProbeCounterBand
  <2> SUFFICES ASSUME TypeOK, ProbeCounterInv PROVE ProbeCounterBand
    OBVIOUS
  <2> QED
    BY GivingBackCount, BreakerAssumption
       DEF ProbeCounterInv, ProbeCounterBand, TypeOK
<1> QED
  BY <1>1, <1>2, <1>3, TypeCorrect, PTL DEF Spec
-----------------------------------------------------------------------------
(* The failure counter of the window. *)

Failed(w, a, b) == {i \in a .. b : w[i].failed}

LEMMA FailedFinite ==
    ASSUME NEW w, NEW a \in Int, NEW b \in Int
    PROVE  /\ IsFiniteSet(Failed(w, a, b)) /\ Cardinality(Failed(w, a, b)) \in Nat
<1>1. IsFiniteSet(a .. b)
  BY FS_Interval
<1>2. Failed(w, a, b) \subseteq a .. b
  BY DEF Failed
<1> QED
  BY <1>1, <1>2, FS_Subset, FS_CardinalityType

\* The failures of a window are those of a first part and those of the rest.
LEMMA FailureCountSplit ==
    ASSUME NEW w \in Seq(Sample), NEW n \in 0 .. Len(w)
    PROVE  /\ FailureCount(w) = FailureCount(SubSeq(w, 1, n)) + FailureCount(SubSeq(w, n + 1, Len(w)))
           /\ FailureCount(SubSeq(w, 1, n)) \in Nat /\ FailureCount(SubSeq(w, n + 1, Len(w))) \in Nat
<1> DEFINE L == Len(w)
           u == SubSeq(w, 1, n)
           v == SubSeq(w, n + 1, L)
           A == Failed(w, 1, n)
           B == Failed(w, n + 1, L)
<1>0. L \in Nat /\ DOMAIN w = 1 .. L /\ n \in Int /\ n \in 0 .. L
  OBVIOUS
<1>1. Len(u) = n /\ DOMAIN u = 1 .. n /\ \A i \in 1 .. n : u[i] = w[i]
  <2>1. \A i \in 1 .. n : w[i] \in Sample
    BY <1>0
  <2>2. u \in Seq(Sample) /\ Len(u) = (IF 1 <= n THEN n - 1 + 1 ELSE 0)
        /\ \A i \in 1 .. n - 1 + 1 : u[i] = w[1 + i - 1]
    BY <1>0, <2>1, SubSeqProperties
  <2> HIDE DEF u
  <2> QED
    BY <1>0, <2>2
<1>2. Len(v) = L - n /\ DOMAIN v = 1 .. L - n /\ \A i \in 1 .. L - n : v[i] = w[n + i]
  <2>1. \A i \in n + 1 .. L : w[i] \in Sample
    BY <1>0
  <2>2. v \in Seq(Sample) /\ Len(v) = (IF n + 1 <= L THEN L - (n + 1) + 1 ELSE 0)
        /\ \A i \in 1 .. L - (n + 1) + 1 : v[i] = w[n + 1 + i - 1]
    BY <1>0, <2>1, SubSeqProperties
  <2> DEFINE k == L - n
  <2> HIDE DEF v, L
  <2>3. k \in Nat /\ L - (n + 1) + 1 = k /\ (IF n + 1 <= L THEN L - (n + 1) + 1 ELSE 0) = k
    BY <1>0
  <2>4. \A i \in 1 .. k : n + 1 + i - 1 = n + i
    BY <1>0, <2>3
  <2> HIDE DEF k
  <2>5. Len(v) = k /\ DOMAIN v = 1 .. k /\ \A i \in 1 .. k : v[i] = w[n + i]
    BY <2>2, <2>3, <2>4
  <2> QED
    BY <2>5 DEF k
<1> HIDE DEF u, v
<1>3. FailureCount(w) = Cardinality(A \cup B)
  <2>1. {i \in DOMAIN w : w[i].failed} = A \cup B
    BY <1>0 DEF Failed
  <2> QED
    BY <2>1 DEF FailureCount
<1>4. IsFiniteSet(A) /\ IsFiniteSet(B) /\ Cardinality(A) \in Nat /\ Cardinality(B) \in Nat
  BY <1>0, FailedFinite
<1>5. A \cap B = {}
  BY <1>0 DEF Failed
<1>6. Cardinality(A \cup B) = Cardinality(A) + Cardinality(B)
  <2>1. Cardinality(A \cup B) = Cardinality(A) + Cardinality(B) - Cardinality(A \cap B)
    BY <1>4, FS_Union
  <2>2. Cardinality(A \cap B) = 0
    BY <1>5, FS_EmptySet
  <2> HIDE DEF A, B
  <2> QED
    BY <1>4, <2>1, <2>2
<1>7. FailureCount(u) = Cardinality(A)
  <2>1. {i \in DOMAIN u : u[i].failed} = A
    BY <1>1 DEF Failed
  <2> QED
    BY <2>1 DEF FailureCount
<1>8. FailureCount(v) = Cardinality(B)
  <2> DEFINE S == {i \in DOMAIN v : v[i].failed}
             f == [i \in S |-> n + i]
  <2>1. S = {i \in 1 .. L - n : w[n + i].failed}
    BY <1>2
  <2>2. \A i \in S : n + i \in B
    BY <1>0, <2>1 DEF Failed
  <2>3. \A j \in B : j - n \in S /\ n + (j - n) = j
    BY <1>0, <2>1 DEF Failed
  <2>4. \A i, j \in S : n + i = n + j => i = j
    BY <1>0, <2>1
  <2> HIDE DEF S, B
  <2>5. f \in Bijection(S, B)
    <3>1. f \in [S -> B]
      BY <2>2
    <3>2. \A i, j \in S : f[i] = f[j] => i = j
      BY <2>4
    <3>3. \A j \in B : \E i \in S : f[i] = j
      BY <2>3
    <3> QED
      BY <3>1, <3>2, <3>3, Fun_IsBij
  <2>6. ExistsBijection(S, B)
    BY <2>5 DEF ExistsBijection
  <2>7. IsFiniteSet(S)
    <3>1. L - n \in Int
      BY <1>0
    <3>2. IsFiniteSet(1 .. L - n)
      BY <3>1, FS_Interval
    <3>3. S \subseteq 1 .. L - n
      BY <2>1
    <3> QED
      BY <3>2, <3>3, FS_Subset
  <2>8. Cardinality(S) = Cardinality(B)
    BY <2>6, <2>7, FS_Bijection
  <2> QED
    BY <2>8 DEF FailureCount, S
<1> QED
  BY <1>3, <1>4, <1>6, <1>7, <1>8 DEF u, v

\* evict() takes away exactly the failures it pops.
LEMMA EvictExact ==
    ASSUME NEW w \in Seq(Sample), NEW now
    PROVE  LET e == Evict(w, FailureCount(w), now)
           IN  e.failures = FailureCount(e.entries) /\ Len(e.entries) <= Len(w)
<1> DEFINE n == EvictCount(w, now)
           e == Evict(w, FailureCount(w), now)
           f == FailureCount(SubSeq(w, 1, n))
           g == FailureCount(SubSeq(w, n + 1, Len(w)))
<1>1. n \in 0 .. Len(w) /\ Len(w) \in Nat
  BY EvictCountType
<1>2. FailureCount(w) = f + g /\ f \in Nat /\ g \in Nat
  BY <1>1, FailureCountSplit
<1>3. e.entries = SubSeq(w, n + 1, Len(w)) /\ e.failures = FailureCount(w) - f
  BY DEF Evict
<1>4. Len(SubSeq(w, n + 1, Len(w))) <= Len(w)
  <2>1. \A i \in n + 1 .. Len(w) : w[i] \in Sample
    BY <1>1
  <2> HIDE DEF n
  <2>2. Len(SubSeq(w, n + 1, Len(w))) = IF n + 1 <= Len(w) THEN Len(w) - (n + 1) + 1 ELSE 0
    BY <1>1, <2>1, SubSeqProperties
  <2> DEFINE L == Len(w)
             m == Len(SubSeq(w, n + 1, L))
  <2>3. m = IF n + 1 <= L THEN L - (n + 1) + 1 ELSE 0
    BY <2>2
  <2> HIDE DEF L, m
  <2>4. m <= L
    BY <1>1, <2>3 DEF L
  <2> QED
    BY <2>4 DEF L, m
<1> HIDE DEF n, e, f, g
<1>5. FailureCount(w) - f = g
  BY <1>2
<1>6. e.failures = FailureCount(e.entries) /\ Len(e.entries) <= Len(w)
  BY <1>3, <1>4, <1>5 DEF g
<1> QED
  BY <1>6 DEF e

\* One more sample is one more failure when it failed.
LEMMA AppendExact ==
    ASSUME NEW w \in Seq(Sample), NEW s \in Sample
    PROVE  FailureCount(Append(w, s)) = FailureCount(w) + IF s.failed THEN 1 ELSE 0
<1> DEFINE u == Append(w, s)
           L == Len(w)
           F == {i \in DOMAIN w : w[i].failed}
<1>1. /\ DOMAIN w = 1 .. L /\ DOMAIN u = 1 .. L + 1 /\ L \in Nat
      /\ u[L + 1] = s /\ \A i \in 1 .. L : u[i] = w[i]
  BY AppendProperties
<1>2. IsFiniteSet(F) /\ Cardinality(F) \in Nat
  <2>1. F = Failed(w, 1, L)
    BY <1>1 DEF Failed
  <2>2. 1 \in Int /\ L \in Int
    BY <1>1
  <2> QED
    BY <2>1, <2>2, FailedFinite
<1> HIDE DEF u
<1>3. L + 1 \notin F
  BY <1>1
<1>4. CASE s.failed
  <2>1. {i \in DOMAIN u : u[i].failed} = F \cup {L + 1}
    BY <1>1, <1>4
  <2> HIDE DEF F, L
  <2>2. Cardinality(F \cup {L + 1}) = Cardinality(F) + 1
    BY <1>2, <1>3, FS_AddElement
  <2> QED
    BY <1>4, <2>1, <2>2 DEF FailureCount, F, u
<1>5. CASE ~s.failed
  <2>1. {i \in DOMAIN u : u[i].failed} = F
    BY <1>1, <1>5
  <2>2. FailureCount(u) = Cardinality(F) /\ FailureCount(w) = Cardinality(F)
    BY <2>1 DEF FailureCount
  <2> HIDE DEF F, L
  <2> QED
    BY <1>2, <1>5, <2>2 DEF u
<1> QED
  BY <1>4, <1>5

\* The sample popped at the cap is one failure less when it failed.
LEMMA TailExact ==
    ASSUME NEW w \in Seq(Sample), w # <<>>
    PROVE  FailureCount(Tail(w)) = IF Head(w).failed THEN FailureCount(w) - 1 ELSE FailureCount(w)
<1> DEFINE u == SubSeq(w, 1, 1)
<1>1. Len(w) \in Nat \ {0} /\ Head(w) = w[1] /\ w[1] \in Sample
  BY EmptySeq
<1>2. Tail(w) = SubSeq(w, 1 + 1, Len(w))
  BY TailIsSubSeq
<1>3. 1 \in 0 .. Len(w)
  BY <1>1
<1>4. /\ FailureCount(w) = FailureCount(u) + FailureCount(Tail(w))
      /\ FailureCount(u) \in Nat /\ FailureCount(Tail(w)) \in Nat
  BY <1>2, <1>3, FailureCountSplit
<1>5. u \in Seq(Sample) /\ Len(u) = 1 /\ u[1] = w[1]
  <2>1. \A i \in 1 .. 1 : w[i] \in Sample
    BY <1>1
  <2> QED
    BY <2>1, SubSeqProperties
<1>6. DOMAIN u = {1}
  BY <1>5
<1> HIDE DEF u
<1>7. CASE Head(w).failed
  <2>1. {i \in DOMAIN u : u[i].failed} = {1}
    BY <1>1, <1>5, <1>6, <1>7
  <2>2. FailureCount(u) = 1
    BY <2>1, FS_Singleton DEF FailureCount
  <2> QED
    BY <1>4, <1>7, <2>2
<1>8. CASE ~Head(w).failed
  <2>1. {i \in DOMAIN u : u[i].failed} = {}
    BY <1>1, <1>5, <1>6, <1>8
  <2>2. FailureCount(u) = 0
    BY <2>1, FS_EmptySet DEF FailureCount
  <2> QED
    BY <1>4, <1>8, <2>2
<1> QED
  BY <1>7, <1>8

\* A push keeps the counter exact and the window at its cap.
LEMMA PushExact ==
    ASSUME NEW w \in Seq(Sample), Len(w) <= MaxWindowEntries,
           NEW failed \in BOOLEAN, NEW at \in Times
    PROVE  LET p == Push(w, FailureCount(w), failed, at)
           IN  /\ p.entries \in Seq(Sample) /\ p.failures = FailureCount(p.entries)
               /\ Len(p.entries) <= MaxWindowEntries
<1> DEFINE s == [at |-> at, failed |-> failed]
           full == Len(w) >= MaxWindowEntries
           kept == IF full THEN Tail(w) ELSE w
           count == IF full /\ Head(w).failed THEN FailureCount(w) - 1 ELSE FailureCount(w)
           p == Push(w, FailureCount(w), failed, at)
<1>1. s \in Sample /\ s.failed = failed /\ Len(w) \in Nat
  BY DEF Sample
<1>2. kept \in Seq(Sample) /\ count = FailureCount(kept) /\ Len(kept) + 1 <= MaxWindowEntries
  <2>1. CASE full
    <3>1. w # <<>>
      BY <2>1, BreakerNumbers
    <3>2. Tail(w) \in Seq(Sample) /\ Len(Tail(w)) = Len(w) - 1
      BY <3>1, HeadTailProperties
    <3>3. FailureCount(Tail(w)) = count
      BY <2>1, <3>1, TailExact
    <3>4. Len(Tail(w)) + 1 <= MaxWindowEntries
      BY <1>1, <3>2, BreakerNumbers
    <3> QED
      BY <2>1, <3>2, <3>3, <3>4
  <2>2. CASE ~full
    <3>1. Len(w) + 1 <= MaxWindowEntries
      BY <1>1, <2>2, BreakerNumbers
    <3> QED
      BY <2>2, <3>1
  <2> QED
    BY <2>1, <2>2
<1>3. p.entries = Append(kept, s) /\ p.failures = count + IF failed THEN 1 ELSE 0
  BY DEF Push
<1> HIDE DEF kept, count, s, full, p
<1>4. Append(kept, s) \in Seq(Sample) /\ Len(Append(kept, s)) = Len(kept) + 1
  BY <1>1, <1>2, AppendProperties
<1>5. FailureCount(Append(kept, s)) = FailureCount(kept) + IF failed THEN 1 ELSE 0
  BY <1>1, <1>2, AppendExact
<1>6. /\ p.entries \in Seq(Sample) /\ p.failures = FailureCount(p.entries)
      /\ Len(p.entries) <= MaxWindowEntries
  BY <1>2, <1>3, <1>4, <1>5
<1> QED
  BY <1>6 DEF p

\* The window's failure counter is exact and its cap holds, whatever evictions,
\* cap pops, clears and out-of-order pushes came before.
THEOREM WindowCounts == Spec => []WindowCountExact
<1>1. Init => WindowCountExact
  <2> SUFFICES ASSUME Init PROVE WindowCountExact
    OBVIOUS
  <2>1. {i \in DOMAIN window : window[i].failed} = {} /\ Len(window) = 0
    BY DEF Init
  <2> QED
    BY <2>1, FS_EmptySet, BreakerNumbers DEF Init, WindowCountExact, FailureCount
<1>2. TypeOK /\ WindowCountExact /\ [Next]_vars => WindowCountExact'
  <2> SUFFICES ASSUME TypeOK, WindowCountExact, [Next]_vars PROVE WindowCountExact'
    OBVIOUS
  <2>1. window \in Seq(Sample) /\ failures = FailureCount(window) /\ Len(window) <= MaxWindowEntries
        /\ Len(window) \in Nat
    BY DEF TypeOK, WindowCountExact
  <2>2. ASSUME UNCHANGED <<window, failures>> PROVE WindowCountExact'
    BY <2>2 DEF WindowCountExact
  <2>3. CASE ErrorRate
    <3> DEFINE e == Evict(window, FailureCount(window), clock)
    <3>1. e.failures = FailureCount(e.entries) /\ Len(e.entries) <= Len(window)
      BY <2>1, EvictExact
    <3>2. e.entries \in Seq(Sample)
      BY <2>1, EvictType DEF TypeOK
    <3>3. window' = e.entries /\ failures' = e.failures
      BY <2>1, <2>3 DEF ErrorRate
    <3> HIDE DEF e
    <3>4. Len(e.entries) \in Nat
      BY <3>2
    <3>5. Len(e.entries) <= MaxWindowEntries
      BY <2>1, <3>1, <3>4, BreakerNumbers
    <3> QED
      BY <3>1, <3>3, <3>5 DEF WindowCountExact
  <2>4. ASSUME NEW t \in Threads, RecordPush(t) PROVE WindowCountExact'
    <3> DEFINE p == Push(window, failures, loc[t].failed, loc[t].now)
               e == Evict(p.entries, p.failures, loc[t].now)
    <3>1. loc[t].failed \in BOOLEAN /\ loc[t].now \in Times
      BY LocalsType, RecordLocalsType DEF TypeOK
    <3>2. /\ p.entries \in Seq(Sample) /\ p.failures = FailureCount(p.entries)
          /\ Len(p.entries) <= MaxWindowEntries
      BY <2>1, <3>1, PushExact
    <3>3. window' = e.entries /\ failures' = e.failures
      BY <2>4 DEF RecordPush, PushEvict
    <3> HIDE DEF p
    <3>4. e.failures = FailureCount(e.entries) /\ Len(e.entries) <= Len(p.entries)
      BY <3>2, EvictExact
    <3>5. e.entries \in Seq(Sample)
      <4>1. p.failures \in Int
        BY <3>2, FailureCountType
      <4> QED
        BY <3>2, <4>1, EvictType
    <3> HIDE DEF e
    <3>6. Len(e.entries) \in Nat /\ Len(p.entries) \in Nat
      BY <3>2, <3>5
    <3>7. Len(e.entries) <= MaxWindowEntries
      BY <3>2, <3>4, <3>6, BreakerNumbers
    <3> QED
      BY <3>3, <3>4, <3>7 DEF WindowCountExact
  <2>5. ASSUME NEW t \in Threads, CloseWindow(t) PROVE WindowCountExact'
    <3>1. window' = <<>> /\ failures' = 0
      BY <2>5 DEF CloseWindow
    <3>2. {i \in DOMAIN window' : window'[i].failed} = {} /\ Len(window') = 0
      BY <3>1
    <3> QED
      BY <3>1, <3>2, FS_EmptySet, BreakerNumbers DEF WindowCountExact, FailureCount
  <2>6. CASE Tick \/ UNCHANGED vars
    BY <2>2, <2>6 DEF Tick, vars, windowVars
  <2>7. ASSUME NEW t \in Threads, CheckCall(t) \/ ProbeCall(t) \/ Cancelled(t)
        PROVE  WindowCountExact'
    BY <2>2, <2>7 DEF CheckCall, Check, CheckOpenLoad, CheckOpenCas, CheckOpenMirror,
       CheckOpenReread, ProbeCall, ProbeNow, ProbeAdd, ProbeStore, ProbeSub, LeaseRead,
       LeaseCas, Cancelled, windowVars
  <2>8. ASSUME NEW t \in Threads, RecordCall(t) \/ TripCall(t) \/ CloseCall(t)
        PROVE  WindowCountExact'
    BY <2>2, <2>4, <2>5, <2>8 DEF RecordCall, Record, RecordLoad, TripCall, TripState,
       TripClock, TripOpened, TripProbes, TripMirror, CloseCall, CloseState, CloseProbes, CloseMirror, windowVars
  <2> QED
    BY <2>3, <2>6, <2>7, <2>8 DEF Next, ThreadStep
<1> QED
  BY <1>1, <1>2, TypeCorrect, PTL DEF Spec
=============================================================================
