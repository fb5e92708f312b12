---------------------------- MODULE Sampler_proofs ----------------------------
(* Proofs about Sampler for any number of submissions, ids, models and     *)
(* configs and any budgets.                                                *)
EXTENDS Sampler, SequenceTheorems, TLAPS

\* Labels at which every call made so far has been charged to a budget.
Charged == {"start", "top", "limiter", "backoff"}

\* The budgets of the models left behind, the strip that was used, the call not yet charged.
Full(t)      == (Len(t.models) - 1) * PerModel
Stripping(t) == IF t.images THEN 0 ELSE 1
Due(t)       == IF t.pc \in Charged THEN 0 ELSE 1

\* The calls are covered by the models left behind, the retries that were not
\* image strips, the resamples, the one strip, and the call not yet charged.
BudgetInv(t) ==
    IF t.pc = "unborn" THEN t.calls = 0 ELSE
        /\ Len(t.models) >= 1
        /\ t.strips <= t.retry
        /\ t.retry - t.strips <= PerModel - 1
        /\ t.doom <= DoomMaxRetries
        /\ t.calls <= Full(t) + (t.retry - t.strips) + t.doom + Stripping(t) + Due(t)

\* The models used are distinct and all recorded as tried.
FailoverInv(t) ==
    \A n \in 1 .. Len(t.models) :
        /\ t.models[n] \in t.tried
        /\ \A m \in 1 .. (n - 1) : t.models[m] # t.models[n]

\* A call after the token fired (set C) is the last one: the loop top is next.
GraceInv(t, r, C) ==
    /\ t.grace <= 1
    /\ t.grace = 1 => r \in C /\ t.pc # "limiter"

TaskInv(t, r, C) == BudgetInv(t) /\ FailoverInv(t) /\ GraceInv(t, r, C)

AllTasks == \A r \in Reqs : TaskInv(task[r], r, cancelled)

-----------------------------------------------------------------------------
\* A full retry budget on one more model.
LEMMA OneMoreModel ==
    \A n, p \in Int : n * p = (n - 1) * p + p
BY Z3

LEMMA PerModelType == PerModel \in Nat \ {0}
BY RetryAssumption DEF PerModel

LEMMA BookTypes ==
    ASSUME NEW t \in Tasks
    PROVE  /\ Stripping(t) \in {0, 1} /\ Due(t) \in {0, 1}
           /\ t.calls \in Nat /\ t.retry \in Nat /\ t.strips \in Nat /\ t.doom \in Nat
           /\ Full(t) \in Int
<1>1. Full(t) \in Int
  BY PerModelType DEF Tasks, Full
<1> QED
  BY <1>1 DEF Tasks, Stripping, Due

\* The budget holds on while the calls not covered by the numbers of this model,
\* the resamples, the strip and the call in flight do not grow.
LEMMA Recharged ==
    ASSUME NEW t \in Tasks, NEW u \in Tasks, BudgetInv(t), t.pc # "unborn", u.models = t.models,
           u.strips <= u.retry, u.retry - u.strips <= PerModel - 1, u.doom <= DoomMaxRetries,
           u.pc # "unborn",
           u.calls - (u.retry - u.strips) - u.doom - Stripping(u) - Due(u)
               <= t.calls - (t.retry - t.strips) - t.doom - Stripping(t) - Due(t)
    PROVE  BudgetInv(u)
<1>1. Full(u) = Full(t)
  BY DEF Full
<1> DEFINE full == Full(t)
           tc == t.calls
           td == t.doom
           tn == t.retry - t.strips
           to == Stripping(t) + Due(t)
           uc == u.calls
           ud == u.doom
           un == u.retry - u.strips
           uo == Stripping(u) + Due(u)
<1>2. full \in Int /\ tc \in Int /\ td \in Int /\ tn \in Int /\ to \in Int
  BY BookTypes
<1>3. uc \in Int /\ ud \in Int /\ un \in Int /\ uo \in Int
  BY BookTypes
<1>4. tc <= full + tn + td + to /\ Len(t.models) >= 1
  <2> DEFINE s == Stripping(t)
             d == Due(t)
  <2>1. Len(t.models) >= 1 /\ tc <= full + tn + td + s + d
    BY DEF BudgetInv
  <2>2. s \in Int /\ d \in Int /\ to = s + d
    BY BookTypes
  <2> HIDE DEF full, tc, tn, td, to, s, d
  <2> QED
    BY <1>2, <2>1, <2>2
<1>5. uc - un - ud - uo <= tc - tn - td - to
  BY BookTypes
<1> HIDE DEF full, tc, td, tn, to, uc, ud, un, uo
<1>6. uc <= full + un + ud + uo
  BY <1>2, <1>3, <1>4, <1>5
<1>7. u.calls <= Full(u) + (u.retry - u.strips) + u.doom + Stripping(u) + Due(u)
  BY <1>1, <1>6, BookTypes DEF full, uc, un, ud, uo
<1> QED
  BY <1>4, <1>7 DEF BudgetInv

LEMMA LabelNames ==
    {"top", "limiter", "connect", "stream", "backoff", "sent", "done",
     "joined", "panicked", "buried", "aborted", "start"} \subseteq Labels
BY DEF Labels, Live

\* What a task may become when only its label changes.
LEMMA LabelType ==
    ASSUME NEW t \in Tasks, NEW l \in Labels
    PROVE  /\ [t EXCEPT !.pc = l] \in Tasks
           /\ [t EXCEPT !.pc = l].pc = l
BY DEF Tasks

\* ... and when numbers of its record change as well.
LEMMA NumbersType ==
    ASSUME NEW t \in Tasks, NEW l \in Labels, NEW m \in Nat, NEW n \in Nat
    PROVE  /\ [t EXCEPT !.pc = l, !.calls = m, !.grace = n] \in Tasks
           /\ [t EXCEPT !.doom = m, !.pc = l] \in Tasks
           /\ [t EXCEPT !.retry = m, !.pc = l] \in Tasks
           /\ [t EXCEPT !.retry = m, !.strips = n, !.images = FALSE,
                        !.pc = l] \in Tasks
BY DEF Tasks

\* A label at which nothing is left to charge keeps every task invariant; so
\* does any label when the task was at one where all was charged.
LEMMA LabelInv ==
    ASSUME NEW t \in Tasks, NEW l \in Labels, NEW r \in Reqs, NEW C,
           t.pc # "unborn", l \notin {"unborn", "limiter"},
           l \notin Charged \/ t.pc \in Charged,
           TaskInv(t, r, C)
    PROVE  TaskInv([t EXCEPT !.pc = l], r, C)
<1> DEFINE u == [t EXCEPT !.pc = l]
<1>1. /\ u.models = t.models /\ u.tried = t.tried /\ u.retry = t.retry
      /\ u.strips = t.strips /\ u.doom = t.doom /\ u.calls = t.calls
      /\ u.grace = t.grace /\ u.pc = l /\ u \in Tasks
  BY DEF Tasks
<1>2. u.images = t.images
  BY DEF Tasks
<1> HIDE DEF u
<1>3. FailoverInv(u)
  BY <1>1 DEF TaskInv, FailoverInv
<1>4. GraceInv(u, r, C)
  BY <1>1 DEF TaskInv, GraceInv
<1>5. BudgetInv(u)
  <2>1. /\ t.pc # "unborn" /\ t.strips <= t.retry /\ t.retry - t.strips <= PerModel - 1
        /\ t.doom <= DoomMaxRetries
    BY DEF TaskInv, BudgetInv, Charged
  <2>2. Stripping(u) = Stripping(t) /\ Due(t) <= Due(u)
    BY <1>1, <1>2 DEF Stripping, Due
  <2> QED
    BY <1>1, <2>1, <2>2, BookTypes, Recharged DEF TaskInv
<1> QED
  BY <1>3, <1>4, <1>5 DEF u, TaskInv

\* Acquire: the call is made, and not charged yet.
LEMMA AcquireInv ==
    ASSUME NEW t \in Tasks, NEW r \in Reqs, NEW C, t.pc = "limiter",
           TaskInv(t, r, C)
    PROVE  LET u == [t EXCEPT !.pc = "connect", !.calls = @ + 1,
                        !.grace = IF r \in C THEN @ + 1 ELSE @]
           IN  u \in Tasks /\ TaskInv(u, r, C)
<1> DEFINE u == [t EXCEPT !.pc = "connect", !.calls = @ + 1,
                    !.grace = IF r \in C THEN @ + 1 ELSE @]
<1>1. /\ u.models = t.models /\ u.tried = t.tried /\ u.retry = t.retry
      /\ u.strips = t.strips /\ u.doom = t.doom /\ u.calls = t.calls + 1
      /\ u.pc = "connect" /\ u.images = t.images
      /\ u.grace = IF r \in C THEN t.grace + 1 ELSE t.grace
  BY DEF Tasks
<1>2. u \in Tasks
  <2> DEFINE g == IF r \in C THEN t.grace + 1 ELSE t.grace
  <2>1. g \in Nat
    BY DEF Tasks
  <2> HIDE DEF g
  <2>2. "connect" \in Labels /\ t.calls + 1 \in Nat
    BY LabelNames DEF Tasks
  <2>3. [t EXCEPT !.pc = "connect", !.calls = t.calls + 1, !.grace = g] \in Tasks
    BY <2>1, <2>2, NumbersType
  <2> QED
    BY <2>3 DEF g
<1> HIDE DEF u
<1>3. FailoverInv(u)
  BY <1>1 DEF TaskInv, FailoverInv
<1>4. GraceInv(u, r, C)
  <2>1. t.grace = 0
    BY DEF TaskInv, GraceInv, Tasks
  <2> QED
    BY <1>1, <2>1 DEF GraceInv
<1>5. BudgetInv(u)
  <2>1. /\ t.pc # "unborn" /\ t.strips <= t.retry /\ t.retry - t.strips <= PerModel - 1
        /\ t.doom <= DoomMaxRetries
    BY DEF TaskInv, BudgetInv, Charged
  <2>2. Stripping(u) = Stripping(t) /\ Due(t) = 0 /\ Due(u) = 1
    BY <1>1 DEF Stripping, Due, Charged
  <2> QED
    BY <1>1, <1>2, <2>1, <2>2, BookTypes, Recharged DEF TaskInv
<1> QED
  BY <1>2, <1>3, <1>4, <1>5 DEF u, TaskInv

\* A body reset may strip the images, which only widens the budget.
LEMMA HitInv ==
    ASSUME NEW t \in Tasks, NEW e \in ErrorKinds, NEW r \in Reqs, NEW C,
           TaskInv(t, r, C)
    PROVE  /\ Hit(t, e) \in Tasks
           /\ TaskInv(Hit(t, e), r, C)
           /\ Hit(t, e).pc = t.pc
           /\ Hit(t, e).doom = t.doom
<1> DEFINE u == Hit(t, e)
<1>1. /\ u.models = t.models /\ u.tried = t.tried /\ u.retry = t.retry
      /\ u.strips = t.strips /\ u.doom = t.doom /\ u.calls = t.calls
      /\ u.grace = t.grace /\ u.pc = t.pc
      /\ u.images = IF e = "body_reset" THEN FALSE ELSE t.images
  BY DEF Tasks, Hit
<1>2. u \in Tasks
  BY DEF Tasks, Hit
<1> HIDE DEF u
<1>3. FailoverInv(u)
  BY <1>1 DEF TaskInv, FailoverInv
<1>4. GraceInv(u, r, C)
  BY <1>1 DEF TaskInv, GraceInv
<1>5. BudgetInv(u)
  <2>1. CASE t.pc = "unborn"
    BY <1>1, <2>1 DEF TaskInv, BudgetInv
  <2>2. CASE t.pc # "unborn"
    <3>1. /\ t.strips <= t.retry /\ t.retry - t.strips <= PerModel - 1
          /\ t.doom <= DoomMaxRetries
      BY <2>2 DEF TaskInv, BudgetInv
    <3>2. Stripping(t) <= Stripping(u) /\ Due(t) = Due(u)
      BY <1>1 DEF Stripping, Due
    <3> QED
      BY <1>1, <1>2, <2>2, <3>1, <3>2, BookTypes, Recharged DEF TaskInv
  <2> QED
    BY <2>1, <2>2
<1> QED
  BY <1>1, <1>2, <1>3, <1>4, <1>5 DEF u, TaskInv

\* Resampled: the call is charged to the doom budget.
LEMMA ResampledInv ==
    ASSUME NEW t \in Tasks, NEW r \in Reqs, NEW C,
           t.pc \in {"connect", "stream"}, t.doom < DoomMaxRetries,
           TaskInv(t, r, C)
    PROVE  /\ Resampled(t) \in Tasks
           /\ TaskInv(Resampled(t), r, C)
           /\ Resampled(t).pc = "backoff"
<1> DEFINE u == Resampled(t)
<1>1. /\ u.models = t.models /\ u.tried = t.tried /\ u.retry = t.retry
      /\ u.strips = t.strips /\ u.doom = t.doom + 1 /\ u.calls = t.calls
      /\ u.grace = t.grace /\ u.pc = "backoff" /\ u.images = t.images
  BY DEF Tasks, Resampled
<1>2. u \in Tasks
  <2>1. "backoff" \in Labels /\ t.doom + 1 \in Nat
    BY LabelNames DEF Tasks
  <2> QED
    BY <2>1, NumbersType DEF Resampled
<1> HIDE DEF u
<1>3. FailoverInv(u)
  BY <1>1 DEF TaskInv, FailoverInv
<1>4. GraceInv(u, r, C)
  BY <1>1 DEF TaskInv, GraceInv
<1>5. BudgetInv(u)
  <2>1. /\ t.pc # "unborn" /\ t.strips <= t.retry /\ t.retry - t.strips <= PerModel - 1
        /\ t.doom <= DoomMaxRetries
    BY DEF TaskInv, BudgetInv, Charged
  <2>2. Stripping(u) = Stripping(t) /\ Due(t) = 1 /\ Due(u) = 0
    BY <1>1 DEF Stripping, Due, Charged
  <2> QED
    BY <1>1, <1>2, <2>1, <2>2, BookTypes, RetryAssumption, Recharged DEF TaskInv
<1> QED
  BY <1>1, <1>2, <1>3, <1>4, <1>5 DEF u, TaskInv

\* Retried: the call is charged to the retry budget, which has room because
\* classify_error counts the retry it is about to make.
LEMMA RetriedInv ==
    ASSUME NEW t \in Tasks, NEW r \in Reqs, NEW C, NEW e \in ErrorKinds,
           t.pc \in {"connect", "stream"}, e # "doom",
           Classify(e, t.retry, RetryCap(e, t.queue # <<>>)) = "retry",
           TaskInv(t, r, C)
    PROVE  /\ Retried(t) \in Tasks
           /\ TaskInv(Retried(t), r, C)
           /\ Retried(t).pc = "backoff"
<1> DEFINE u == Retried(t)
<1>1. /\ u.models = t.models /\ u.tried = t.tried /\ u.retry = t.retry + 1
      /\ u.strips = t.strips /\ u.doom = t.doom /\ u.calls = t.calls
      /\ u.grace = t.grace /\ u.pc = "backoff" /\ u.images = t.images
  BY DEF Tasks, Retried
<1>2. u \in Tasks
  <2>1. "backoff" \in Labels /\ t.retry + 1 \in Nat
    BY LabelNames DEF Tasks
  <2> QED
    BY <2>1, NumbersType DEF Retried
<1>3. t.retry + 1 < PerModel
  <2> DEFINE cap == RetryCap(e, t.queue # <<>>)
  <2>1. cap \in Nat /\ cap <= MaxRetries
    BY RetryAssumption DEF RetryCap, Minimum
  <2>2. t.retry + 1 < cap
    <3>1. CASE e = "rate_limited"
      BY <2>1, <3>1, RetryAssumption
         DEF Classify, Minimum, SessionOwned, ImageShaped, NeverRetried, Tasks
    <3>2. CASE e # "rate_limited"
      <4> HIDE DEF cap
      <4>1. Classify(e, t.retry, cap) = "retry"
        BY DEF cap
      <4> QED
        BY <2>1, <3>2, <4>1
           DEF Classify, SessionOwned, ImageShaped, NeverRetried, IsRetryable,
               ErrorKinds, Tasks
    <3> QED
      BY <3>1, <3>2
  <2> HIDE DEF cap
  <2> QED
    BY <2>1, <2>2, RetryAssumption DEF PerModel, Tasks
<1> HIDE DEF u
<1>4. FailoverInv(u)
  BY <1>1 DEF TaskInv, FailoverInv
<1>5. GraceInv(u, r, C)
  BY <1>1 DEF TaskInv, GraceInv
<1>6. BudgetInv(u)
  <2>1. /\ t.pc # "unborn" /\ t.strips <= t.retry /\ t.doom <= DoomMaxRetries
    BY DEF TaskInv, BudgetInv, Charged
  <2>2. Stripping(u) = Stripping(t) /\ Due(t) = 1 /\ Due(u) = 0
    BY <1>1 DEF Stripping, Due, Charged
  <2>3. /\ t.calls \in Nat /\ t.retry \in Nat /\ t.strips \in Nat /\ t.doom \in Nat
        /\ Stripping(t) \in Int
    BY BookTypes
  <2>4. u.strips <= u.retry /\ u.retry - u.strips <= PerModel - 1
    BY <1>1, <1>3, <2>1, <2>3, PerModelType, SMTT(30)
  <2>5. u.calls - (u.retry - u.strips) - u.doom - Stripping(u) - Due(u)
            <= t.calls - (t.retry - t.strips) - t.doom - Stripping(t) - Due(t)
    BY <1>1, <2>2, <2>3
  <2>6. u.pc # "unborn" /\ u.doom <= DoomMaxRetries /\ u.models = t.models /\ BudgetInv(t)
    BY <1>1, <2>1 DEF TaskInv
  <2> QED
    BY <1>2, <2>1, <2>4, <2>5, <2>6, Recharged
<1> QED
  BY <1>1, <1>2, <1>4, <1>5, <1>6 DEF u, TaskInv

\* Stripped: the call is charged to the images, once.
LEMMA StrippedInv ==
    ASSUME NEW t \in Tasks, NEW r \in Reqs, NEW C,
           t.pc \in {"connect", "stream"}, t.images,
           TaskInv(t, r, C)
    PROVE  /\ Stripped(t) \in Tasks
           /\ TaskInv(Stripped(t), r, C)
           /\ Stripped(t).pc = "top"
<1> DEFINE u == Stripped(t)
<1>1. /\ u.models = t.models /\ u.tried = t.tried /\ u.retry = t.retry + 1
      /\ u.strips = t.strips + 1 /\ u.doom = t.doom /\ u.calls = t.calls
      /\ u.grace = t.grace /\ u.pc = "top" /\ u.images = FALSE
  BY DEF Tasks, Stripped
<1>2. u \in Tasks
  <2>1. "top" \in Labels /\ t.retry + 1 \in Nat /\ t.strips + 1 \in Nat
    BY LabelNames DEF Tasks
  <2> QED
    BY <2>1, NumbersType DEF Stripped
<1> HIDE DEF u
<1>3. FailoverInv(u)
  BY <1>1 DEF TaskInv, FailoverInv
<1>4. GraceInv(u, r, C)
  BY <1>1 DEF TaskInv, GraceInv
<1>5. BudgetInv(u)
  <2>1. /\ t.pc # "unborn" /\ t.strips <= t.retry /\ t.retry - t.strips <= PerModel - 1
        /\ t.doom <= DoomMaxRetries
    BY DEF TaskInv, BudgetInv, Charged
  <2>2. Stripping(t) = 0 /\ Stripping(u) = 1 /\ Due(t) = 1 /\ Due(u) = 0
    BY <1>1 DEF Stripping, Due, Charged
  <2> QED
    BY <1>1, <1>2, <2>1, <2>2, BookTypes, Recharged DEF TaskInv
<1> QED
  BY <1>1, <1>2, <1>3, <1>4, <1>5 DEF u, TaskInv

LEMMA SwitchType ==
    ASSUME NEW t \in Tasks, NEW ms \in Seq(Models), NEW tr \in SUBSET Models,
           NEW q \in Seq(Models)
    PROVE  [t EXCEPT !.models = ms, !.tried = tr, !.queue = q, !.retry = 0,
                     !.strips = 0, !.pc = "top"] \in Tasks
BY LabelNames DEF Tasks

\* SwitchModel: the new model was never tried, and brings a budget of its own.
LEMMA SwitchModelInv ==
    ASSUME NEW t \in Tasks, NEW r \in Reqs, NEW C, NEW n \in 1 .. Len(t.queue),
           t.pc \in {"connect", "stream"}, IsNextFallback(t, n),
           TaskInv(t, r, C)
    PROVE  /\ SwitchModel(t, n) \in Tasks
           /\ TaskInv(SwitchModel(t, n), r, C)
           /\ SwitchModel(t, n).pc = "top"
<1> DEFINE u == SwitchModel(t, n)
           q == t.queue[n]
           passed == {t.queue[m] : m \in 1 .. n}
<1>1. /\ u.models = Append(t.models, q) /\ u.tried = t.tried \cup passed
      /\ u.queue = SubSeq(t.queue, n + 1, Len(t.queue))
      /\ u.retry = 0 /\ u.strips = 0 /\ u.doom = t.doom /\ u.calls = t.calls
      /\ u.grace = t.grace /\ u.pc = "top" /\ u.images = t.images
      /\ u.err = t.err
  BY DEF Tasks, SwitchModel
<1>2. t.queue \in Seq(Models) /\ t.models \in Seq(Models) /\ Len(t.queue) \in Nat
  BY DEF Tasks
<1>3. q \in Models /\ passed \subseteq Models /\ q \in passed
  BY <1>2
<1>4. SubSeq(t.queue, n + 1, Len(t.queue)) \in Seq(Models)
  <2>1. \A i \in n + 1 .. Len(t.queue) : t.queue[i] \in Models
    BY <1>2
  <2> QED
    BY <1>2, <2>1, SubSeqProperties
<1>5. u \in Tasks
  <2> HIDE DEF passed, q
  <2>1. Append(t.models, q) \in Seq(Models)
    BY <1>2, <1>3
  <2>2. t.tried \cup passed \in SUBSET Models
    BY <1>3 DEF Tasks
  <2> QED
    BY <1>4, <2>1, <2>2, SwitchType DEF SwitchModel, q, passed, u
<1>6. q \notin t.tried
  BY DEF IsNextFallback, Usable
<1> HIDE DEF u, q, passed
<1>7. FailoverInv(u)
  <2>1. Len(u.models) = Len(t.models) + 1 /\ Len(t.models) \in Nat
    BY <1>1, <1>2
  <2>2. u.models[Len(t.models) + 1] = q
    BY <1>1, <1>2
  <2>3. \A k \in 1 .. Len(t.models) : u.models[k] = t.models[k]
    BY <1>1, <1>2
  <2> SUFFICES ASSUME NEW k \in 1 .. Len(u.models)
               PROVE  /\ u.models[k] \in u.tried
                      /\ \A m \in 1 .. (k - 1) : u.models[m] # u.models[k]
    BY DEF FailoverInv
  <2>4. CASE k = Len(t.models) + 1
    BY <1>1, <1>3, <1>6, <2>1, <2>2, <2>3, <2>4 DEF TaskInv, FailoverInv
  <2>5. CASE k \in 1 .. Len(t.models)
    BY <1>1, <2>1, <2>3, <2>5 DEF TaskInv, FailoverInv
  <2> QED
    BY <2>1, <2>4, <2>5
<1>8. GraceInv(u, r, C)
  BY <1>1 DEF TaskInv, GraceInv
<1>9. BudgetInv(u)
  <2>1. Len(u.models) = Len(t.models) + 1 /\ Len(t.models) \in Nat
    BY <1>1, <1>2
  <2>2. Full(t) \in Int /\ Full(u) = Full(t) + PerModel
    <3>1. Len(u.models) - 1 = Len(t.models) /\ PerModel \in Int
      BY <2>1, PerModelType
    <3>2. Len(t.models) * PerModel = (Len(t.models) - 1) * PerModel + PerModel
      BY <2>1, <3>1, OneMoreModel
    <3> QED
      BY <3>1, <3>2, BookTypes DEF Full
  <2>3. /\ t.retry - t.strips <= PerModel - 1 /\ t.doom <= DoomMaxRetries
        /\ t.calls <= Full(t) + (t.retry - t.strips) + t.doom + Stripping(t) + Due(t)
    BY DEF TaskInv, BudgetInv, Charged
  <2>4. Stripping(u) = Stripping(t) /\ Due(t) = 1 /\ Due(u) = 0
    BY <1>1 DEF Stripping, Due, Charged
  <2>5. /\ t.calls \in Nat /\ t.retry \in Nat /\ t.strips \in Nat /\ t.doom \in Nat
        /\ Stripping(t) \in Int /\ Full(u) \in Int /\ PerModel \in Nat
    BY <2>2, BookTypes, PerModelType
  <2>6. u.calls <= Full(u) + (u.retry - u.strips) + u.doom + Stripping(u) + Due(u)
    <3>1. t.calls <= Full(u) + t.doom + Stripping(t)
      <4> DEFINE f == Full(t)
                 g == Full(u)
                 c == t.calls
                 own == t.retry - t.strips
                 d == t.doom
                 s == Stripping(t)
      <4>1. f \in Int /\ g = f + PerModel /\ c <= f + own + d + s + 1 /\ own <= PerModel - 1
        BY <2>2, <2>3, <2>4
      <4>2. /\ g \in Int /\ c \in Int /\ own \in Int /\ d \in Int /\ s \in Int /\ PerModel \in Int
        BY <2>5
      <4> HIDE DEF f, g, c, own, d, s
      <4>3. c <= g + d + s
        BY <4>1, <4>2
      <4> QED
        BY <4>3 DEF g, c, d, s
    <3> QED
      BY <1>1, <2>4, <2>5, <3>1
  <2>7. u.retry - u.strips <= PerModel - 1 /\ u.strips <= u.retry
    BY <1>1, PerModelType
  <2> QED
    BY <1>1, <2>1, <2>3, <2>6, <2>7 DEF BudgetInv
<1> QED
  BY <1>1, <1>5, <1>7, <1>8, <1>9 DEF u, TaskInv

-----------------------------------------------------------------------------
Verdicts == {"completed", "failed", "cancelled"}

\* What a step of the loop may do to a task: stay in the loop, return once the
\* verdict is out, or send the verdict.
Stays(r, t)   == Continue(r, t) /\ task[r].pc \in Live /\ t.pc \in Live
Returns(r, t) == Continue(r, t) /\ task[r].pc = "sent" /\ t.pc = "done"
Sends(r, t)   == /\ task[r].pc \in Live /\ t.pc \in Live
                 /\ \E v \in Verdicts : Finish(r, t, v)

\* apply_retry_decision and the doom branch keep the task's books.
LEMMA AttemptShape ==
    ASSUME NEW r \in Reqs, NEW e \in ErrorKinds, task[r] \in Tasks,
           task[r].pc \in {"connect", "stream"},
           e = "doom" => Armed(task[r]),
           TaskInv(task[r], r, cancelled),
           AttemptFails(r, e)
    PROVE  \E t \in Tasks : /\ TaskInv(t, r, cancelled)
                            /\ Stays(r, t) \/ Sends(r, t)
<1> DEFINE h == Hit(task[r], e)
           decision == Classify(e, h.retry, RetryCap(e, h.queue # <<>>))
<1>1. /\ h \in Tasks /\ TaskInv(h, r, cancelled)
      /\ h.pc = task[r].pc /\ h.doom = task[r].doom
  BY HitInv
<1>2. task[r].pc \in Live /\ h.pc \in Live
  BY <1>1 DEF Live
<1> USE <1>1
<1>3. CASE e = "doom" /\ Continue(r, Resampled(h))
  <2>1. h.doom < DoomMaxRetries
    BY <1>3 DEF Armed
  <2>2. Resampled(h) \in Tasks /\ TaskInv(Resampled(h), r, cancelled)
        /\ Resampled(h).pc = "backoff"
    BY <2>1, ResampledInv
  <2> QED
    BY <1>2, <1>3, <2>2 DEF Stays, Live
<1>4. CASE e # "doom" /\ decision = "retry" /\ Continue(r, Retried(h))
  <2>1. Retried(h) \in Tasks /\ TaskInv(Retried(h), r, cancelled)
        /\ Retried(h).pc = "backoff"
    BY <1>4, RetriedInv
  <2> QED
    BY <1>2, <1>4, <2>1 DEF Stays, Live
<1>5. CASE h.images /\ Continue(r, Stripped(h))
  <2>1. Stripped(h) \in Tasks /\ TaskInv(Stripped(h), r, cancelled)
        /\ Stripped(h).pc = "top"
    BY <1>5, StrippedInv
  <2> QED
    BY <1>2, <1>5, <2>1 DEF Stays, Live
<1>6. CASE Finish(r, h, "failed")
  BY <1>2, <1>6 DEF Sends, Verdicts
<1>7. CASE \E n \in 1 .. Len(h.queue) :
              IsNextFallback(h, n) /\ Continue(r, SwitchModel(h, n))
  <2>1. PICK n \in 1 .. Len(h.queue) :
              IsNextFallback(h, n) /\ Continue(r, SwitchModel(h, n))
    BY <1>7
  <2>2. /\ SwitchModel(h, n) \in Tasks /\ TaskInv(SwitchModel(h, n), r, cancelled)
        /\ SwitchModel(h, n).pc = "top"
    BY <2>1, SwitchModelInv
  <2> QED
    BY <1>2, <2>1, <2>2 DEF Stays, Live
<1> HIDE DEF h, decision
<1> QED
  BY <1>3, <1>4, <1>5, <1>6, <1>7 DEF AttemptFails, h, decision

\* Every step of a request task keeps the task's books.
LEMMA TaskStepShape ==
    ASSUME NEW r \in Reqs, TypeOK, AllTasks, TaskStep(r)
    PROVE  \E t \in Tasks : /\ TaskInv(t, r, cancelled)
                            /\ Stays(r, t) \/ Returns(r, t) \/ Sends(r, t)
<1> DEFINE t == task[r]
<1>1. t \in Tasks /\ TaskInv(t, r, cancelled)
  BY DEF TypeOK, AllTasks
<1>2. ASSUME NEW l \in {"top", "stream"}, t.pc \in Live, l = "top" => t.pc \in Charged,
             Continue(r, [t EXCEPT !.pc = l])
      PROVE  \E u \in Tasks : TaskInv(u, r, cancelled) /\ Stays(r, u)
  <2>1. l \in Labels /\ l \in Live /\ l \notin {"unborn", "limiter"}
        /\ t.pc # "unborn"
    BY <1>2 DEF Labels, Live
  <2>2. l \notin Charged \/ t.pc \in Charged
    BY <1>2 DEF Charged
  <2>3. [t EXCEPT !.pc = l] \in Tasks /\ [t EXCEPT !.pc = l].pc = l
    BY <1>1, <2>1, LabelType
  <2>4. TaskInv([t EXCEPT !.pc = l], r, cancelled)
    BY <1>1, <2>1, <2>2, LabelInv
  <2> QED
    BY <1>2, <2>1, <2>3, <2>4 DEF Stays
<1>3. CASE BuildClient(r)
  <2>1. t.pc = "start"
    BY <1>3 DEF BuildClient
  <2>2. t.pc \in Live /\ t.pc \in Charged
    BY <2>1 DEF Live, Charged
  <2>3. CASE Finish(r, t, "failed")
    BY <1>1, <2>2, <2>3 DEF Sends, Verdicts
  <2>4. CASE Continue(r, [t EXCEPT !.pc = "top"])
    BY <1>2, <2>2, <2>4
  <2> QED
    BY <1>3, <2>3, <2>4 DEF BuildClient
<1>4. CASE LoopTop(r)
  <2>1. t.pc = "top" /\ t.pc \in Live /\ t.pc \in Charged
    BY <1>4 DEF LoopTop, Live, Charged
  <2>2. CASE r \in cancelled
    <3>1. Finish(r, t, "cancelled")
      BY <1>4, <2>2 DEF LoopTop
    <3> QED
      BY <1>1, <2>1, <3>1 DEF Sends, Verdicts
  <2>3. CASE r \notin cancelled
    <3> DEFINE u == [t EXCEPT !.pc = "limiter"]
    <3>1. Continue(r, u)
      BY <1>4, <2>3 DEF LoopTop
    <3>2. u \in Tasks /\ u.pc = "limiter" /\ u.pc \in Live
      BY <1>1, LabelType, LabelNames DEF Live
    <3>3. /\ u.models = t.models /\ u.tried = t.tried /\ u.retry = t.retry
          /\ u.strips = t.strips /\ u.doom = t.doom /\ u.calls = t.calls
          /\ u.grace = t.grace /\ u.images = t.images
      BY <1>1 DEF Tasks
    <3>4. GraceInv(u, r, cancelled)
      BY <1>1, <2>3, <3>3 DEF GraceInv, TaskInv
    <3>5. FailoverInv(u)
      BY <1>1, <3>3 DEF FailoverInv, TaskInv
    <3>6. BudgetInv(u)
      <4> HIDE DEF u
      <4>1. t.pc # "unborn" /\ u.pc # "unborn" /\ u.pc \in Charged
        BY <2>1, <3>2 DEF Charged
      <4>2. Stripping(u) = Stripping(t) /\ Due(u) = Due(t) /\ Full(u) = Full(t)
        BY <2>1, <3>2, <3>3 DEF Stripping, Due, Full, Charged
      <4>3. BudgetInv(t)
        BY <1>1 DEF TaskInv
      <4> QED
        BY <2>1, <3>3, <4>1, <4>2, <4>3 DEF BudgetInv
    <3> QED
      BY <2>1, <3>1, <3>2, <3>4, <3>5, <3>6 DEF Stays, TaskInv
  <2> QED
    BY <2>2, <2>3
<1>5. CASE Acquire(r)
  <2> DEFINE u == [t EXCEPT !.pc = "connect", !.calls = @ + 1,
                      !.grace = IF r \in cancelled THEN @ + 1 ELSE @]
  <2>1. t.pc = "limiter" /\ Continue(r, u)
    BY <1>5 DEF Acquire
  <2>2. u \in Tasks /\ TaskInv(u, r, cancelled)
    BY <1>1, <2>1, AcquireInv
  <2>3. u.pc = "connect" /\ u.pc \in Live /\ t.pc \in Live
    BY <1>1, <2>1 DEF Tasks, Live
  <2> HIDE DEF u
  <2> QED
    BY <2>1, <2>2, <2>3 DEF Stays
<1>6. CASE StreamOpens(r)
  <2>1. t.pc = "connect" /\ t.pc \in Live /\ Continue(r, [t EXCEPT !.pc = "stream"])
    BY <1>6 DEF StreamOpens, Live
  <2> QED
    BY <1>2, <2>1
<1>7. CASE InitFails(r)
  <2>1. PICK e \in Errors \ {"doom"} : AttemptFails(r, e)
    BY <1>7 DEF InitFails
  <2>2. e \in ErrorKinds /\ t.pc \in {"connect", "stream"}
    BY <1>7, SamplerAssumption DEF InitFails
  <2> QED
    BY <1>1, <2>1, <2>2, AttemptShape
<1>8. CASE StreamCancelled(r)
  <2>1. t.pc \in Live /\ Finish(r, t, "cancelled")
    BY <1>8 DEF StreamCancelled, Live
  <2> QED
    BY <1>1, <2>1 DEF Sends, Verdicts
<1>9. CASE StreamFails(r)
  <2>1. PICK e \in Errors : (e = "doom" => Armed(t)) /\ AttemptFails(r, e)
    BY <1>9 DEF StreamFails
  <2>2. e \in ErrorKinds /\ t.pc \in {"connect", "stream"}
    BY <1>9, SamplerAssumption DEF StreamFails
  <2> QED
    BY <1>1, <2>1, <2>2, AttemptShape
<1>10. CASE StreamCompletes(r)
  <2>1. t.pc \in Live /\ Finish(r, t, "completed")
    BY <1>10 DEF StreamCompletes, Live
  <2> QED
    BY <1>1, <2>1 DEF Sends, Verdicts
<1>11. CASE BackoffEnds(r)
  <2>1. /\ t.pc \in Live /\ t.pc \in Charged
        /\ Continue(r, [t EXCEPT !.pc = "top"])
    BY <1>11 DEF BackoffEnds, Live, Charged
  <2> QED
    BY <1>2, <2>1
<1>12. CASE Return(r)
  <2>1. t.pc = "sent" /\ Continue(r, [t EXCEPT !.pc = "done"])
    BY <1>12 DEF Return
  <2>2. [t EXCEPT !.pc = "done"] \in Tasks /\ [t EXCEPT !.pc = "done"].pc = "done"
    BY <1>1, LabelType, LabelNames
  <2>3. TaskInv([t EXCEPT !.pc = "done"], r, cancelled)
    BY <1>1, <2>1, LabelInv, LabelNames DEF Charged
  <2> QED
    BY <2>1, <2>2, <2>3 DEF Returns
<1> HIDE DEF t
<1> QED
  BY <1>3, <1>4, <1>5, <1>6, <1>7, <1>8, <1>9, <1>10, <1>11, <1>12 DEF TaskStep

-----------------------------------------------------------------------------
\* A fresh task, with an empty account.
LEMMA SpawnedInv ==
    ASSUME NEW c \in Configs, NEW images \in BOOLEAN, NEW r \in Reqs, NEW C
    PROVE  LET t == [Spawned(c) EXCEPT !.images = images]
           IN  t \in Tasks /\ t.pc = "start" /\ TaskInv(t, r, C)
<1> DEFINE t == [Spawned(c) EXCEPT !.images = images]
<1>1. c.model \in Models /\ c.fallbacks \in Seq(Models)
  BY SamplerAssumption
<1>2. <<c.model>> \in Seq(Models) /\ {c.model} \in SUBSET Models
  BY <1>1
<1>3. Unborn \in Tasks
  <2>1. /\ "unborn" \in Labels /\ <<>> \in Seq(Models) /\ {} \in SUBSET Models
        /\ FALSE \in BOOLEAN /\ 0 \in Nat /\ "none" \in ErrorKinds \cup {"none"}
    BY DEF Labels
  <2> QED
    BY <2>1 DEF Tasks, Unborn
<1>4. t \in Tasks
  <2>1. ASSUME NEW u \in Tasks, NEW l \in Labels, NEW ms \in Seq(Models),
               NEW tr \in SUBSET Models, NEW q \in Seq(Models)
        PROVE  [u EXCEPT !.pc = l, !.models = ms, !.tried = tr, !.queue = q,
                         !.images = TRUE] \in Tasks
    BY DEF Tasks
  <2>2. Spawned(c) \in Tasks
    BY <1>1, <1>2, <1>3, <2>1, LabelNames DEF Spawned
  <2> QED
    BY <2>2 DEF Tasks
<1>5. /\ t.pc = "start" /\ t.models = <<c.model>> /\ t.tried = {c.model}
      /\ t.retry = 0 /\ t.strips = 0 /\ t.doom = 0 /\ t.calls = 0 /\ t.grace = 0
  BY DEF Spawned, Unborn
<1> HIDE DEF t
<1>6. Len(t.models) = 1 /\ t.models[1] = c.model
  BY <1>5
<1>7. FailoverInv(t)
  BY <1>5, <1>6 DEF FailoverInv
<1>8. GraceInv(t, r, C)
  BY <1>5 DEF GraceInv
<1>9. BudgetInv(t)
  <2>1. Full(t) = 0
    BY <1>6, PerModelType DEF Full
  <2>2. Stripping(t) \in {0, 1} /\ Due(t) = 0
    BY <1>5 DEF Stripping, Due, Charged
  <2> QED
    BY <1>5, <1>6, <2>1, <2>2, PerModelType, RetryAssumption DEF BudgetInv
<1> QED
  BY <1>4, <1>5, <1>7, <1>8, <1>9 DEF t, TaskInv

\* Tokens that fire in between disturb no task invariant.
LEMMA MoreCancelled ==
    ASSUME NEW t, NEW r \in Reqs, NEW C, NEW D, C \subseteq D, TaskInv(t, r, C)
    PROVE  TaskInv(t, r, D)
BY DEF TaskInv, GraceInv

\* One task replaced by a well-kept one.
LEMMA OneTaskChanges ==
    ASSUME NEW r \in Reqs, NEW t \in Tasks, TypeOK, AllTasks,
           task' = [task EXCEPT ![r] = t], cancelled \subseteq cancelled',
           TaskInv(t, r, cancelled')
    PROVE  task' \in [Reqs -> Tasks] /\ AllTasks'
<1>1. \A q \in Reqs : task'[q] = IF q = r THEN t ELSE task[q]
  BY DEF TypeOK
<1>2. task' \in [Reqs -> Tasks]
  BY DEF TypeOK
<1>3. ASSUME NEW q \in Reqs
      PROVE  TaskInv(task'[q], q, cancelled')
  BY <1>1, MoreCancelled DEF AllTasks
<1> QED
  BY <1>2, <1>3 DEF AllTasks

\* No task replaced.
LEMMA NoTaskChanges ==
    ASSUME AllTasks, task' = task, cancelled \subseteq cancelled'
    PROVE  AllTasks'
BY MoreCancelled DEF AllTasks

\* A task whose label leaves the loop, or is buried.
LEMMA OnlyLabelChanges ==
    ASSUME NEW r \in Reqs, NEW l \in Labels, TypeOK, AllTasks,
           task[r].pc # "unborn", l \notin Charged,
           l \notin {"unborn", "limiter"},
           task' = [task EXCEPT ![r].pc = l], cancelled' = cancelled
    PROVE  task' \in [Reqs -> Tasks] /\ AllTasks'
<1>1. task[r] \in Tasks /\ TaskInv(task[r], r, cancelled)
  BY DEF TypeOK, AllTasks
<1>2. /\ [task[r] EXCEPT !.pc = l] \in Tasks
      /\ TaskInv([task[r] EXCEPT !.pc = l], r, cancelled)
  BY <1>1, LabelType, LabelInv
<1>3. task' = [task EXCEPT ![r] = [task[r] EXCEPT !.pc = l]]
  BY DEF TypeOK
<1> QED
  BY <1>2, <1>3, OneTaskChanges

\* Every command at the head of the channel is a command.
LEMMA HeadType ==
    ASSUME TypeOK, cmds # <<>>
    PROVE  /\ Tail(cmds) \in Seq(Commands)
           /\ Head(cmds).kind = "submit" =>
                 Head(cmds).req \in Reqs /\ Head(cmds).config \in Configs \cup {None}
           /\ Head(cmds).kind = "cancel" => Head(cmds).id \in Ids
           /\ Head(cmds).kind = "config" => Head(cmds).config \in Configs
<1>1. cmds \in Seq(Commands)
  BY DEF TypeOK
<1>2. Head(cmds) \in Commands /\ Tail(cmds) \in Seq(Commands)
  BY <1>1
<1> QED
  BY <1>2 DEF Commands

\* Sending a command keeps the channel well typed.
LEMMA SendType ==
    ASSUME TypeOK, NEW c \in Commands, Send(c)
    PROVE  cmds' \in Seq(Commands)
BY DEF Send, TypeOK

-----------------------------------------------------------------------------
LEMMA InitBooks == Init => TypeOK /\ AllTasks
<1> SUFFICES ASSUME Init PROVE TypeOK /\ AllTasks
  OBVIOUS
<1>1. Unborn \in Tasks
  <2>1. /\ "unborn" \in Labels /\ <<>> \in Seq(Models) /\ {} \in SUBSET Models
        /\ FALSE \in BOOLEAN /\ 0 \in Nat /\ "none" \in ErrorKinds \cup {"none"}
    BY DEF Labels
  <2> QED
    BY <2>1 DEF Tasks, Unborn
<1>2. TypeOK
  <2>1. config \in Configs /\ handles \in BOOLEAN /\ cancels \in Nat
    BY SamplerAssumption DEF Init
  <2>2. cmds \in Seq(Commands) /\ event \in [Reqs -> Seq({"completed", "failed", "cancelled"})]
    BY DEF Init
  <2>3. task \in [Reqs -> Tasks]
    BY <1>1 DEF Init
  <2> QED
    BY <2>1, <2>2, <2>3 DEF Init, TypeOK
<1>3. ASSUME NEW r \in Reqs
      PROVE  TaskInv(task[r], r, cancelled)
  <2>1. task[r] = Unborn
    BY DEF Init
  <2>2. BudgetInv(Unborn)
    BY DEF BudgetInv, Unborn
  <2>3. FailoverInv(Unborn)
    BY DEF FailoverInv, Unborn
  <2>4. GraceInv(Unborn, r, cancelled)
    BY DEF GraceInv, Unborn
  <2> QED
    BY <2>1, <2>2, <2>3, <2>4 DEF TaskInv
<1> QED
  BY <1>2, <1>3 DEF AllTasks

\* Callers only touch the channel and their own bookkeeping.
LEMMA CallerBooks ==
    ASSUME TypeOK, AllTasks, CallerStep
    PROVE  TypeOK' /\ AllTasks'
<1>1. ASSUME NEW r \in Reqs, Submit(r)
      PROVE  TypeOK' /\ AllTasks'
  <2>1. PICK c \in Configs \cup {None} :
             Send([kind |-> "submit", req |-> r, config |-> c])
    BY <1>1 DEF Submit
  <2>2. [kind |-> "submit", req |-> r, config |-> c] \in Commands
    BY DEF Commands
  <2>3. cmds' \in Seq(Commands)
    BY <2>1, <2>2, SendType
  <2>4. AllTasks'
    BY <1>1, NoTaskChanges DEF Submit, actorVars
  <2> QED
    BY <1>1, <2>3, <2>4 DEF Submit, actorVars, TypeOK
<1>2. ASSUME NEW r \in Reqs, CollectorDrop(r)
      PROVE  TypeOK' /\ AllTasks'
  <2>1. [kind |-> "cancel", id |-> IdOf[r]] \in Commands
    BY SamplerAssumption DEF Commands
  <2>2. cmds' \in Seq(Commands)
    BY <1>2, <2>1, SendType DEF CollectorDrop
  <2>3. AllTasks'
    BY <1>2, NoTaskChanges DEF CollectorDrop, actorVars
  <2> QED
    BY <1>2, <2>2, <2>3 DEF CollectorDrop, actorVars, TypeOK
<1>3. ASSUME NEW i \in Ids, Cancel(i)
      PROVE  TypeOK' /\ AllTasks'
  <2>1. [kind |-> "cancel", id |-> i] \in Commands
    BY DEF Commands
  <2>2. cmds' \in Seq(Commands)
    BY <1>3, <2>1, SendType DEF Cancel
  <2>3. AllTasks'
    BY <1>3, NoTaskChanges DEF Cancel, actorVars
  <2> QED
    BY <1>3, <2>2, <2>3 DEF Cancel, actorVars, TypeOK
<1>4. ASSUME NEW c \in Configs, UpdateConfig(c)
      PROVE  TypeOK' /\ AllTasks'
  <2>1. [kind |-> "config", config |-> c] \in Commands
    BY DEF Commands
  <2>2. cmds' \in Seq(Commands)
    BY <1>4, <2>1, SendType DEF UpdateConfig
  <2>3. AllTasks'
    BY <1>4, NoTaskChanges DEF UpdateConfig, actorVars
  <2> QED
    BY <1>4, <2>2, <2>3 DEF UpdateConfig, actorVars, clientVars, TypeOK
<1>5. CASE DropHandles
  <2>1. AllTasks'
    BY <1>5, NoTaskChanges DEF DropHandles, actorVars
  <2> QED
    BY <1>5, <2>1 DEF DropHandles, actorVars, TypeOK
<1> QED
  BY <1>1, <1>2, <1>3, <1>4, <1>5 DEF CallerStep

\* The actor spawns, joins, aborts and cancels.
LEMMA ActorBooks ==
    ASSUME TypeOK, AllTasks, ActorStep
    PROVE  TypeOK' /\ AllTasks'
<1>1. ASSUME NEW r \in Reqs, Join(r)
      PROVE  TypeOK' /\ AllTasks'
  <2>1. task[r].pc \in {"done", "panicked"} /\ cancelled' = cancelled
    BY <1>1 DEF Join, Joinable
  <2>2. PICK l \in {"joined", "buried"} : task' = [task EXCEPT ![r].pc = l]
    BY <1>1 DEF Join
  <2>3. /\ l \in Labels /\ l \notin Charged /\ l \notin {"unborn", "limiter"}
        /\ task[r].pc # "unborn"
    BY <2>1, LabelNames DEF Charged
  <2>4. task' \in [Reqs -> Tasks] /\ AllTasks'
    BY <2>1, <2>2, <2>3, OnlyLabelChanges
  <2>5. active' \in [Ids -> Reqs \cup {None}]
    BY <1>1 DEF Join, TypeOK
  <2> QED
    BY <1>1, <2>4, <2>5 DEF Join, clientVars, TypeOK
<1>2. ASSUME NEW r \in Reqs, Abort(r)
      PROVE  TypeOK' /\ AllTasks'
  <2>1. "aborted" \in Labels /\ "aborted" \notin Charged /\ task[r].pc # "unborn"
    BY <1>2, LabelNames DEF Charged, Abort, IsLive, Live
  <2>2. task' \in [Reqs -> Tasks] /\ AllTasks'
    BY <1>2, <2>1, OnlyLabelChanges DEF Abort, actorVars
  <2> QED
    BY <1>2, <2>2 DEF Abort, actorVars, clientVars, TypeOK
<1>3. CASE HandleSubmit
  <2> DEFINE r == Head(cmds).req
             i == IdOf[r]
             c == IF Head(cmds).config = None THEN config ELSE Head(cmds).config
  <2>1. /\ cmds # <<>> /\ Head(cmds).kind = "submit" /\ cmds' = Tail(cmds)
    BY <1>3 DEF HandleSubmit, Receive
  <2>2. /\ r \in Reqs /\ i \in Ids /\ c \in Configs /\ cmds' \in Seq(Commands)
    BY <2>1, HeadType, SamplerAssumption DEF TypeOK
  <2>3. /\ cancelled' = cancelled \cup ({active[i]} \ {None})
        /\ active' = [active EXCEPT ![i] = r]
        /\ UNCHANGED <<clientVars, actor, config, event, completion>>
    BY <1>3 DEF HandleSubmit
  <2>4. PICK images \in BOOLEAN :
             task' = [task EXCEPT ![r] = [Spawned(c) EXCEPT !.images = images]]
    BY <1>3 DEF HandleSubmit
  <2> DEFINE t == [Spawned(c) EXCEPT !.images = images]
  <2>5. t \in Tasks /\ TaskInv(t, r, cancelled')
    BY <2>2, SpawnedInv
  <2> HIDE DEF r, c, t
  <2>6. task' \in [Reqs -> Tasks] /\ AllTasks'
    BY <2>2, <2>3, <2>4, <2>5, OneTaskChanges DEF t
  <2>7. cancelled' \in SUBSET Reqs /\ active' \in [Ids -> Reqs \cup {None}]
    BY <2>2, <2>3 DEF TypeOK
  <2> QED
    BY <2>2, <2>3, <2>6, <2>7 DEF TypeOK, clientVars
<1>4. CASE HandleCancel
  <2>1. /\ cmds # <<>> /\ Head(cmds).kind = "cancel" /\ cmds' = Tail(cmds)
    BY <1>4 DEF HandleCancel, Receive
  <2>2. Head(cmds).id \in Ids /\ cmds' \in Seq(Commands)
    BY <2>1, HeadType
  <2>3. cancelled' \in SUBSET Reqs /\ active' \in [Ids -> Reqs \cup {None}]
    BY <1>4, <2>2 DEF HandleCancel, TypeOK
  <2>4. AllTasks'
    BY <1>4, NoTaskChanges DEF HandleCancel
  <2> QED
    BY <1>4, <2>2, <2>3, <2>4 DEF HandleCancel, clientVars, TypeOK
<1>5. CASE HandleConfig
  <2>1. /\ cmds # <<>> /\ Head(cmds).kind = "config" /\ cmds' = Tail(cmds)
    BY <1>5 DEF HandleConfig, Receive
  <2>2. config' \in Configs /\ cmds' \in Seq(Commands)
    BY <1>5, <2>1, HeadType DEF HandleConfig
  <2>3. AllTasks'
    BY <1>5, NoTaskChanges DEF HandleConfig
  <2> QED
    BY <1>5, <2>2, <2>3 DEF HandleConfig, clientVars, TypeOK
<1>6. CASE Shutdown
  <2>1. cancelled' \in SUBSET Reqs /\ active' \in [Ids -> Reqs \cup {None}]
    BY <1>6 DEF Shutdown, TypeOK
  <2>2. AllTasks'
    BY <1>6, NoTaskChanges DEF Shutdown
  <2> QED
    BY <1>6, <2>1, <2>2 DEF Shutdown, clientVars, TypeOK
<1> QED
  BY <1>1, <1>2, <1>3, <1>4, <1>5, <1>6 DEF ActorStep

\* A task's own steps, and its panic.
LEMMA TaskBooks ==
    ASSUME NEW r \in Reqs, TypeOK, AllTasks, TaskStep(r) \/ Panic(r)
    PROVE  TypeOK' /\ AllTasks'
<1>1. CASE TaskStep(r)
  <2>1. PICK t \in Tasks : /\ TaskInv(t, r, cancelled)
                           /\ Stays(r, t) \/ Returns(r, t) \/ Sends(r, t)
    BY <1>1, TaskStepShape
  <2>2. CASE Continue(r, t)
    <3>1. task' \in [Reqs -> Tasks] /\ AllTasks'
      BY <2>1, <2>2, OneTaskChanges DEF Continue, actorVars
    <3> QED
      BY <2>2, <3>1 DEF Continue, actorVars, clientVars, TypeOK
  <2>3. CASE Sends(r, t)
    <3>1. PICK v \in Verdicts : Finish(r, t, v)
      BY <2>3 DEF Sends
    <3>2. t.pc # "unborn" /\ "sent" \in Labels /\ "sent" \notin Charged
      BY <2>3, LabelNames DEF Sends, Live, Charged
    <3>3. /\ [t EXCEPT !.pc = "sent"] \in Tasks
          /\ TaskInv([t EXCEPT !.pc = "sent"], r, cancelled)
      BY <2>1, <3>2, LabelType, LabelInv
    <3>4. task' \in [Reqs -> Tasks] /\ AllTasks'
      BY <3>1, <3>3, OneTaskChanges DEF Finish, actorVars
    <3>5. event' \in [Reqs -> Seq({"completed", "failed", "cancelled"})]
      <4>1. event[r] \in Seq(Verdicts)
        BY DEF TypeOK, Verdicts
      <4>2. Append(event[r], v) \in Seq(Verdicts)
        BY <4>1
      <4> QED
        BY <3>1, <4>2 DEF Finish, TypeOK, Verdicts
    <3>6. completion' \in [Reqs -> {"none", "ok", "err", "dropped"}]
      BY <3>1 DEF Finish, TypeOK
    <3> QED
      BY <3>1, <3>4, <3>5, <3>6 DEF Finish, actorVars, clientVars, TypeOK
  <2> QED
    BY <2>1, <2>2, <2>3 DEF Stays, Returns
<1>2. CASE Panic(r)
  <2>1. /\ "panicked" \in Labels /\ "panicked" \notin Charged
        /\ task[r].pc # "unborn"
    BY <1>2, LabelNames DEF Charged, Panic, IsLive, Live
  <2>2. task' \in [Reqs -> Tasks] /\ AllTasks'
    BY <1>2, <2>1, OnlyLabelChanges DEF Panic, actorVars
  <2> QED
    BY <1>2, <2>2 DEF Panic, actorVars, clientVars, TypeOK
<1> QED
  BY <1>1, <1>2

LEMMA StepBooks == TypeOK /\ AllTasks /\ [Next]_vars => TypeOK' /\ AllTasks'
<1> SUFFICES ASSUME TypeOK, AllTasks, [Next]_vars PROVE TypeOK' /\ AllTasks'
  OBVIOUS
<1>1. CASE Next
  BY <1>1, CallerBooks, ActorBooks, TaskBooks DEF Next
<1>2. CASE UNCHANGED vars
  <2>1. AllTasks'
    BY <1>2, NoTaskChanges DEF vars, actorVars
  <2> QED
    BY <1>2, <2>1 DEF vars, actorVars, clientVars, TypeOK
<1> QED
  BY <1>1, <1>2

\* The tables, the channel and the tasks keep their types.
THEOREM TypeCorrect == Spec => []TypeOK
<1> QED
  BY InitBooks, StepBooks, PTL DEF Spec

LEMMA BooksKept == Spec => [](TypeOK /\ AllTasks)
<1> QED
  BY InitBooks, StepBooks, PTL DEF Spec

\* Failover never returns to a model, for any fallback list.
THEOREM NoModelTwice == Spec => []ModelsTriedOnce
<1>1. TypeOK /\ AllTasks => ModelsTriedOnce
  <2> SUFFICES ASSUME TypeOK, AllTasks, NEW r \in Reqs,
                      NEW i \in DOMAIN task[r].models,
                      NEW j \in DOMAIN task[r].models, i # j
               PROVE  task[r].models[i] # task[r].models[j]
    BY DEF ModelsTriedOnce
  <2>1. task[r].models \in Seq(Models)
    BY DEF TypeOK, Tasks
  <2>2. i \in 1 .. Len(task[r].models) /\ j \in 1 .. Len(task[r].models)
    BY <2>1
  <2>3. FailoverInv(task[r])
    BY DEF AllTasks, TaskInv
  <2>4. CASE i < j
    BY <2>1, <2>2, <2>3, <2>4 DEF FailoverInv
  <2>5. CASE j < i
    BY <2>1, <2>2, <2>3, <2>5 DEF FailoverInv
  <2> QED
    BY <2>1, <2>2, <2>4, <2>5
<1> QED
  BY <1>1, BooksKept, PTL

\* The API calls of a request are bounded, for any budgets and any errors.
THEOREM CallsBounded == Spec => []CallBudget
<1>1. TypeOK /\ AllTasks => CallBudget
  <2> SUFFICES ASSUME TypeOK, AllTasks, NEW r \in Reqs
               PROVE  task[r].calls <= Len(task[r].models) * PerModel
                                         + DoomMaxRetries + 1
    BY DEF CallBudget
  <2> DEFINE t == task[r]
  <2>1. t \in Tasks /\ BudgetInv(t)
    BY DEF TypeOK, AllTasks, TaskInv
  <2>2. /\ Len(t.models) \in Nat
        /\ Len(t.models) * PerModel \in Nat
        /\ (Len(t.models) - 1) * PerModel \in Int
        /\ Len(t.models) * PerModel = (Len(t.models) - 1) * PerModel + PerModel
    BY <2>1, OneMoreModel, PerModelType DEF Tasks
  <2>3. CASE t.pc = "unborn"
    BY <2>1, <2>2, <2>3, RetryAssumption DEF BudgetInv
  <2>4. CASE t.pc # "unborn"
    <3>1. Stripping(t) \in {0, 1} /\ Due(t) \in {0, 1}
      BY <2>1, BookTypes
    <3>2. /\ t.retry - t.strips <= PerModel - 1
          /\ t.doom <= DoomMaxRetries
          /\ t.calls <= Full(t) + (t.retry - t.strips) + t.doom + Stripping(t) + Due(t)
      BY <2>1, <2>4 DEF BudgetInv
    <3>3. t.calls <= Full(t) + PerModel + DoomMaxRetries + 1
      <4>1. Stripping(t) + Due(t) <= 2
        BY <3>1
      <4> HIDE DEF t
      <4> QED
        BY <2>1, <3>1, <3>2, BookTypes, PerModelType, RetryAssumption
    <3> QED
      BY <2>2, <3>3 DEF Full
  <2> QED
    BY <2>3, <2>4
<1> QED
  BY <1>1, BooksKept, PTL

\* A request makes at most one API call after its token has fired.
THEOREM LastCallAfterCancel == Spec => []OneCallAfterCancel
<1>1. AllTasks => OneCallAfterCancel
  BY DEF AllTasks, TaskInv, GraceInv, OneCallAfterCancel
<1> QED
  BY <1>1, BooksKept, PTL
-----------------------------------------------------------------------------
(* One submission, one task, one verdict. *)

Told == {"sent", "done", "joined"}
Lost == {"panicked", "buried", "aborted"}

\* A submission is on the channel once at most, and before its task is born.
Submission(n) == cmds[n].kind = "submit"
SubmitInv ==
    /\ \A n \in DOMAIN cmds : Submission(n) =>
           task[cmds[n].req].pc = "unborn" /\ caller[cmds[n].req] # "idle"
    /\ \A m, n \in DOMAIN cmds :
           Submission(m) /\ Submission(n) /\ cmds[m].req = cmds[n].req => m = n
    /\ \A r \in Reqs : caller[r] = "idle" => task[r].pc = "unborn"

\* Both channels carry the verdict as soon as it is sent, and nothing before.
VerdictInv ==
    \A r \in Reqs :
        /\ task[r].pc \in Told =>
               \E v \in Verdicts : /\ event[r] = <<v>>
                                   /\ completion[r] = IF v = "completed" THEN "ok" ELSE "err"
        /\ task[r].pc \notin Told => event[r] = <<>>
        /\ task[r].pc \in Live \cup {"unborn"} => completion[r] = "none"
        /\ task[r].pc \in Lost => completion[r] = "dropped"

\* The actor stops after the last handle, and a collector holds one.
HandlesInv ==
    /\ actor = "stopping" => ~handles
    /\ ~handles => \A r \in Collectors : caller[r] # "sent"
    /\ \A r \in Reqs : task[r].pc = "aborted" => actor = "stopping"

\* A deterministic failure is the last thing a task meets.
ErrorInv ==
    \A r \in Reqs :
        /\ task[r].err \in Deterministic => task[r].pc \in Told
        /\ task[r].pc = "unborn" => task[r].err = "none"

\* Task r goes from one of these labels to one of those; no other task moves.
Moves(r, from, to) ==
    /\ task[r].pc \in from /\ task'[r].pc \in to
    /\ \A q \in Reqs : q # r => task'[q] = task[q]

LEMMA SetLabel ==
    ASSUME TypeOK, NEW r \in Reqs, NEW l, task' = [task EXCEPT ![r].pc = l]
    PROVE  /\ task'[r].pc = l /\ task'[r].err = task[r].err /\ task'[r].calls = task[r].calls
           /\ \A q \in Reqs : q # r => task'[q] = task[q]
BY DEF TypeOK, Tasks

LEMMA SetTask ==
    ASSUME TypeOK, NEW r \in Reqs, NEW t, task' = [task EXCEPT ![r] = t]
    PROVE  task'[r] = t /\ \A q \in Reqs : q # r => task'[q] = task[q]
BY DEF TypeOK

\* HandleSubmit starts one task, with nothing spent and nothing failed.
LEMMA Born ==
    ASSUME TypeOK, HandleSubmit, NEW r, r = Head(cmds).req
    PROVE  /\ r \in Reqs /\ Moves(r, Labels, {"start"}) /\ UNCHANGED <<event, completion>>
           /\ task'[r].err = "none" /\ task'[r].calls = 0
           /\ cmds # <<>> /\ cmds' = Tail(cmds) /\ Head(cmds).kind = "submit"
<1>1. cmds # <<>> /\ cmds' = Tail(cmds) /\ Head(cmds).kind = "submit"
  BY DEF HandleSubmit, Receive
<1>2. r \in Reqs
  BY <1>1, HeadType
<1> DEFINE c == IF Head(cmds).config = None THEN config ELSE Head(cmds).config
<1>3. PICK images \in BOOLEAN :
           task' = [task EXCEPT ![r] = [Spawned(c) EXCEPT !.images = images]]
  BY DEF HandleSubmit
<1> DEFINE t == [Spawned(c) EXCEPT !.images = images]
<1>4. t.pc = "start" /\ t.err = "none" /\ t.calls = 0
  BY DEF Spawned, Unborn
<1> HIDE DEF t
<1>5. task'[r] = t /\ \A q \in Reqs : q # r => task'[q] = task[q]
  BY <1>2, <1>3, SetTask, ZenonT(60) DEF t
<1>6. task[r].pc \in Labels
  BY <1>2 DEF TypeOK, Tasks
<1>7. UNCHANGED <<event, completion>>
  BY DEF HandleSubmit
<1> QED
  BY <1>1, <1>2, <1>4, <1>5, <1>6, <1>7 DEF Moves

\* Which way each step takes a task, and what it leaves alone.
LEMMA TaskMoves ==
    ASSUME TypeOK, AllTasks, [Next]_vars
    PROVE  \/ /\ UNCHANGED <<task, event, completion>>
              /\ \/ CallerStep \/ HandleCancel \/ HandleConfig \/ Shutdown
                 \/ UNCHANGED vars
           \/ /\ HandleSubmit /\ Moves(Head(cmds).req, Labels, {"start"})
              /\ Head(cmds).req \in Reqs /\ UNCHANGED <<event, completion>>
           \/ \E r \in Reqs :
                 /\ UNCHANGED <<cmds, clientVars, actorVars, event, completion>>
                 /\ Moves(r, Live, Live) \/ Moves(r, {"sent"}, {"done"})
           \/ \E r \in Reqs :
                 /\ UNCHANGED <<cmds, clientVars, actorVars>>
                 /\ Moves(r, Live, {"sent"})
                 /\ \E v \in Verdicts :
                       /\ event' = [event EXCEPT ![r] = Append(@, v)]
                       /\ completion' = [completion EXCEPT ![r] = IF v = "completed" THEN "ok" ELSE "err"]
           \/ \E r \in Reqs :
                 /\ Join(r) /\ UNCHANGED <<event, completion>>
                 /\ Moves(r, {"done"}, {"joined"}) \/ Moves(r, {"panicked"}, {"buried"})
           \/ \E r \in Reqs :
                 /\ completion' = [completion EXCEPT ![r] = "dropped"]
                 /\ UNCHANGED <<cmds, clientVars, actorVars, event>>
                 /\ \/ Moves(r, Live, {"aborted"}) /\ actor = "stopping"
                    \/ Moves(r, Live, {"panicked"})
<1>1. CASE CallerStep \/ HandleCancel \/ HandleConfig \/ Shutdown \/ UNCHANGED vars
  <2>1. UNCHANGED <<task, event, completion>>
    BY <1>1 DEF CallerStep, Submit, CollectorDrop, Cancel, UpdateConfig, DropHandles, HandleCancel,
       HandleConfig, Shutdown, vars
  <2> QED
    BY <1>1, <2>1
<1>2. CASE HandleSubmit
  BY <1>2, Born
<1>3. ASSUME NEW r \in Reqs, TaskStep(r)
      PROVE  \/ /\ UNCHANGED <<cmds, clientVars, actorVars, event, completion>>
                /\ Moves(r, Live, Live) \/ Moves(r, {"sent"}, {"done"})
             \/ /\ UNCHANGED <<cmds, clientVars, actorVars>>
                /\ Moves(r, Live, {"sent"})
                /\ \E v \in Verdicts :
                      /\ event' = [event EXCEPT ![r] = Append(@, v)]
                      /\ completion' = [completion EXCEPT ![r] = IF v = "completed" THEN "ok" ELSE "err"]
  <2>1. PICK t \in Tasks : Stays(r, t) \/ Returns(r, t) \/ Sends(r, t)
    BY <1>3, TaskStepShape
  <2>2. CASE Stays(r, t) \/ Returns(r, t)
    BY <2>2, SetTask DEF Stays, Returns, Continue, Moves
  <2>3. CASE Sends(r, t)
    <3>1. PICK v \in Verdicts : Finish(r, t, v)
      BY <2>3 DEF Sends
    <3>2. [t EXCEPT !.pc = "sent"].pc = "sent"
      BY DEF Tasks
    <3>3. Moves(r, Live, {"sent"})
      BY <2>3, <3>1, <3>2, SetTask DEF Sends, Finish, Moves
    <3> QED
      BY <3>1, <3>3 DEF Finish
  <2> QED
    BY <2>1, <2>2, <2>3
<1>4. ASSUME NEW r \in Reqs, Join(r)
      PROVE  /\ UNCHANGED <<event, completion>>
             /\ Moves(r, {"done"}, {"joined"}) \/ Moves(r, {"panicked"}, {"buried"})
  BY <1>4, SetLabel DEF Join, Joinable, Moves
<1>5. ASSUME NEW r \in Reqs, Abort(r) \/ Panic(r)
      PROVE  /\ completion' = [completion EXCEPT ![r] = "dropped"]
             /\ UNCHANGED <<cmds, clientVars, actorVars, event>>
             /\ \/ Moves(r, Live, {"aborted"}) /\ actor = "stopping"
                \/ Moves(r, Live, {"panicked"})
  BY <1>5, SetLabel DEF Abort, Panic, IsLive, Moves
<1> QED
  BY <1>1, <1>2, <1>3, <1>4, <1>5 DEF Next, ActorStep

\* The labels a task may have, sorted.
LEMMA LabelGroups ==
    /\ Labels = {"unborn"} \cup Live \cup Told \cup Lost
    /\ "unborn" \notin Live /\ "unborn" \notin Told /\ "unborn" \notin Lost
    /\ Live \cap Told = {} /\ Live \cap Lost = {} /\ Told \cap Lost = {}
    /\ "start" \in Live /\ {"sent", "done", "joined"} = Told /\ {"panicked", "buried", "aborted"} = Lost
BY DEF Labels, Live, Told, Lost

\* A command that is taken is no longer on the channel, the others move up.
LEMMA Taken ==
    ASSUME TypeOK, cmds # <<>>, cmds' = Tail(cmds)
    PROVE  /\ \A n \in DOMAIN cmds' : n + 1 \in DOMAIN cmds /\ cmds'[n] = cmds[n + 1] /\ n + 1 # 1
           /\ 1 \in DOMAIN cmds /\ cmds[1] = Head(cmds)
           /\ \A m, n \in DOMAIN cmds' : m + 1 = n + 1 => m = n
<1>1. cmds \in Seq(Commands)
  BY DEF TypeOK
<1>2. /\ cmds' \in Seq(Commands) /\ Len(cmds') = Len(cmds) - 1
      /\ \A n \in 1 .. Len(cmds') : cmds'[n] = cmds[n + 1]
  BY <1>1, HeadTailProperties
<1>3. Len(cmds) \in Nat \ {0}
  BY <1>1, EmptySeq
<1>4. DOMAIN cmds' = 1 .. Len(cmds') /\ DOMAIN cmds = 1 .. Len(cmds)
  BY <1>1, <1>2
<1>5. \A n \in 1 .. Len(cmds') : n + 1 \in 1 .. Len(cmds) /\ n + 1 # 1
  BY <1>2, <1>3
<1>6. cmds[1] = Head(cmds)
  BY <1>1
<1> QED
  BY <1>2, <1>3, <1>4, <1>5, <1>6

\* What is sent comes last.
LEMMA Added ==
    ASSUME TypeOK, NEW c, Send(c)
    PROVE  \A n \in DOMAIN cmds' : \/ n \in DOMAIN cmds /\ cmds'[n] = cmds[n]
                                   \/ n = Len(cmds) + 1 /\ cmds'[n] = c /\ n \notin DOMAIN cmds
<1>1. cmds \in Seq(Commands) /\ cmds' = Append(cmds, c) /\ Len(cmds) \in Nat
  BY DEF TypeOK, Send
<1>2. DOMAIN cmds' = 1 .. Len(cmds) + 1 /\ DOMAIN cmds = 1 .. Len(cmds)
  BY <1>1
<1> QED
  BY <1>1, <1>2

\* A submission on the channel is one of Reqs.
LEMMA SubmissionType == TypeOK => \A n \in DOMAIN cmds : Submission(n) => cmds[n].req \in Reqs
<1> SUFFICES ASSUME TypeOK, NEW n \in DOMAIN cmds, Submission(n) PROVE cmds[n].req \in Reqs
  OBVIOUS
<1>1. cmds \in Seq(Commands) /\ n \in 1 .. Len(cmds)
  BY DEF TypeOK
<1>2. cmds[n] \in Commands
  BY <1>1
<1> QED
  BY <1>2 DEF Submission, Commands

\* What a step that is no HandleSubmit leaves unborn.
LEMMA NobodyElseBorn ==
    ASSUME TypeOK, AllTasks, [Next]_vars, ~HandleSubmit
    PROVE  \A q \in Reqs : task[q].pc = "unborn" => task'[q].pc = "unborn"
<1>1. ASSUME NEW r \in Reqs, NEW S, NEW D, "unborn" \notin S, Moves(r, S, D)
      PROVE  \A q \in Reqs : task[q].pc = "unborn" => task'[q].pc = "unborn"
  BY <1>1 DEF Moves
<1>2. /\ "unborn" \notin Live /\ "unborn" \notin {"sent"} /\ "unborn" \notin {"done"}
      /\ "unborn" \notin {"panicked"}
  BY LabelGroups
<1> QED
  BY TaskMoves, <1>1, <1>2

\* The callers' steps, by what they put on the channel.
LEMMA CallerMoves ==
    ASSUME CallerStep
    PROVE  /\ UNCHANGED <<task, actorVars>>
           /\ \/ \E r \in Reqs, c \in Configs \cup {None} :
                    /\ handles /\ caller[r] = "idle" /\ caller' = [caller EXCEPT ![r] = "sent"]
                    /\ Send([kind |-> "submit", req |-> r, config |-> c]) /\ UNCHANGED handles
              \/ \E r \in Collectors :
                    /\ caller[r] = "sent" /\ caller' = [caller EXCEPT ![r] = "gone"]
                    /\ Send([kind |-> "cancel", id |-> IdOf[r]]) /\ UNCHANGED handles
              \/ /\ UNCHANGED <<caller, handles>>
                 /\ \/ \E i \in Ids : Send([kind |-> "cancel", id |-> i])
                    \/ \E c \in Configs : Send([kind |-> "config", config |-> c])
              \/ /\ UNCHANGED <<caller, cmds>> /\ ~handles'
                 /\ \A r \in Collectors : caller[r] # "sent"
<1>1. CASE \E r \in Reqs : Submit(r)
  <2>1. PICK r \in Reqs : Submit(r)
    BY <1>1
  <2>2. PICK c \in Configs \cup {None} : Send([kind |-> "submit", req |-> r, config |-> c])
    BY <2>1 DEF Submit
  <2> QED
    BY <2>1, <2>2 DEF Submit
<1>2. CASE \E r \in Reqs : CollectorDrop(r)
  BY <1>2 DEF CollectorDrop
<1>3. CASE \E i \in Ids : Cancel(i)
  BY <1>3 DEF Cancel
<1>4. CASE \E c \in Configs : UpdateConfig(c)
  BY <1>4 DEF UpdateConfig, clientVars
<1>5. CASE DropHandles
  BY <1>5 DEF DropHandles
<1> QED
  BY <1>1, <1>2, <1>3, <1>4, <1>5 DEF CallerStep

\* A submission is put on the channel once and taken off when its task is born.
LEMMA SubmitStep ==
    ASSUME TypeOK, AllTasks, SubmitInv, [Next]_vars
    PROVE  SubmitInv'
<1>0. \A n \in DOMAIN cmds : Submission(n) => cmds[n].req \in Reqs
  BY SubmissionType
<1>1. CASE HandleSubmit
  <2> DEFINE r == Head(cmds).req
  <2>1. cmds # <<>> /\ cmds' = Tail(cmds) /\ Head(cmds).kind = "submit" /\ caller' = caller
    BY <1>1 DEF HandleSubmit, Receive, clientVars
  <2>2. r \in Reqs /\ \A q \in Reqs : q # r => task'[q] = task[q]
    BY <1>1, Born DEF Moves
  <2>3. /\ \A n \in DOMAIN cmds' : n + 1 \in DOMAIN cmds /\ cmds'[n] = cmds[n + 1] /\ n + 1 # 1
        /\ 1 \in DOMAIN cmds /\ cmds[1] = Head(cmds)
        /\ \A m, n \in DOMAIN cmds' : m + 1 = n + 1 => m = n
    BY <2>1, Taken
  <2>4. Submission(1) /\ cmds[1].req = r
    BY <2>1, <2>3 DEF Submission
  <2>5. ASSUME NEW n \in DOMAIN cmds', Submission(n)'
        PROVE  Submission(n + 1) /\ cmds[n + 1].req # r
    <3>1. Submission(n + 1)
      BY <2>3, <2>5 DEF Submission
    <3> QED
      BY <2>3, <2>4, <3>1 DEF SubmitInv
  <2> HIDE DEF r
  <2>6. ASSUME NEW n \in DOMAIN cmds', Submission(n)'
        PROVE  task'[cmds'[n].req].pc = "unborn" /\ caller'[cmds'[n].req] # "idle"
    <3>1. Submission(n + 1) /\ cmds[n + 1].req # r /\ cmds'[n] = cmds[n + 1] /\ n + 1 \in DOMAIN cmds
      BY <2>3, <2>5, <2>6
    <3>2. task'[cmds[n + 1].req] = task[cmds[n + 1].req]
      BY <1>0, <2>2, <3>1
    <3> QED
      BY <2>1, <3>1, <3>2 DEF SubmitInv
  <2>7. ASSUME NEW m \in DOMAIN cmds', NEW n \in DOMAIN cmds', Submission(m)', Submission(n)',
               cmds'[m].req = cmds'[n].req
        PROVE  m = n
    BY <2>3, <2>5, <2>7 DEF SubmitInv
  <2>8. caller[r] # "idle"
    BY <2>3, <2>4 DEF SubmitInv
  <2>9. \A q \in Reqs : caller'[q] = "idle" => task'[q].pc = "unborn"
    BY <2>1, <2>2, <2>8 DEF SubmitInv
  <2> QED
    BY <2>6, <2>7, <2>9 DEF SubmitInv
<1>2. ASSUME UNCHANGED <<cmds, caller>>, ~HandleSubmit PROVE SubmitInv'
  <2>1. \A q \in Reqs : task[q].pc = "unborn" => task'[q].pc = "unborn"
    BY <1>2, NobodyElseBorn
  <2> QED
    BY <1>0, <1>2, <2>1 DEF SubmitInv, Submission
<1>3. CASE CallerStep
  <2>1. task' = task
    BY <1>3, CallerMoves
  <2>2. ASSUME NEW r \in Reqs, NEW c, caller[r] = "idle",
               caller' = [caller EXCEPT ![r] = "sent"],
               Send([kind |-> "submit", req |-> r, config |-> c])
        PROVE  SubmitInv'
    <3> DEFINE d == [kind |-> "submit", req |-> r, config |-> c]
    <3>1. d.kind = "submit" /\ d.req = r /\ task[r].pc = "unborn"
      BY <2>2 DEF SubmitInv
    <3> HIDE DEF d
    <3>2. \A n \in DOMAIN cmds' : \/ n \in DOMAIN cmds /\ cmds'[n] = cmds[n]
                                  \/ n = Len(cmds) + 1 /\ cmds'[n] = d /\ n \notin DOMAIN cmds
      BY <2>2, Added DEF d
    <3>3. \A n \in DOMAIN cmds : Submission(n) => cmds[n].req # r
      BY <2>2 DEF SubmitInv
    <3>4. /\ caller'[r] = "sent"
          /\ \A q \in Reqs : q # r => caller'[q] = caller[q]
      BY <2>2 DEF TypeOK
    <3>5. ASSUME NEW n \in DOMAIN cmds', Submission(n)'
          PROVE  task'[cmds'[n].req].pc = "unborn" /\ caller'[cmds'[n].req] # "idle"
      BY <1>0, <2>1, <3>1, <3>2, <3>4, <3>5 DEF SubmitInv, Submission
    <3>6. ASSUME NEW m \in DOMAIN cmds', NEW n \in DOMAIN cmds', Submission(m)', Submission(n)',
                 cmds'[m].req = cmds'[n].req
          PROVE  m = n
      BY <3>1, <3>2, <3>3, <3>6 DEF SubmitInv, Submission
    <3>7. \A q \in Reqs : caller'[q] = "idle" => task'[q].pc = "unborn"
      BY <2>1, <3>4 DEF SubmitInv
    <3> QED
      BY <3>5, <3>6, <3>7 DEF SubmitInv
  <2>3. ASSUME NEW r \in Collectors, caller[r] = "sent", caller' = [caller EXCEPT ![r] = "gone"],
               Send([kind |-> "cancel", id |-> IdOf[r]])
        PROVE  SubmitInv'
    <3>1. \A n \in DOMAIN cmds' : Submission(n)' =>
              n \in DOMAIN cmds /\ cmds'[n] = cmds[n] /\ Submission(n)
      BY <2>3, Added DEF Submission
    <3>2. \A q \in Reqs : caller'[q] = "idle" <=> caller[q] = "idle"
      BY <2>3, SamplerAssumption DEF TypeOK
    <3>3. ASSUME NEW n \in DOMAIN cmds', Submission(n)'
          PROVE  task'[cmds'[n].req].pc = "unborn" /\ caller'[cmds'[n].req] # "idle"
      BY <1>0, <2>1, <3>1, <3>2, <3>3 DEF SubmitInv
    <3> QED
      BY <2>1, <3>1, <3>2, <3>3 DEF SubmitInv
  <2>4. ASSUME UNCHANGED caller,
               \/ \E i \in Ids : Send([kind |-> "cancel", id |-> i])
               \/ \E c \in Configs : Send([kind |-> "config", config |-> c])
        PROVE  SubmitInv'
    <3> DEFINE Same == \A n \in DOMAIN cmds' : Submission(n)' =>
                           n \in DOMAIN cmds /\ cmds'[n] = cmds[n] /\ Submission(n)
    <3>1. ASSUME NEW c, Send(c), c.kind # "submit" PROVE Same
      BY <3>1, Added DEF Submission
    <3> HIDE DEF Same
    <3>2. Same
      BY <2>4, <3>1
    <3> QED
      BY <1>0, <2>1, <2>4, <3>2 DEF SubmitInv, Same
  <2>5. CASE UNCHANGED <<caller, cmds>>
    BY <2>1, <2>5 DEF SubmitInv, Submission
  <2> QED
    BY <1>3, CallerMoves, <2>2, <2>3, <2>4, <2>5
<1>4. CASE HandleCancel \/ HandleConfig
  <2>1. cmds # <<>> /\ cmds' = Tail(cmds) /\ caller' = caller
    BY <1>4 DEF HandleCancel, HandleConfig, Receive, clientVars
  <2>2. task' = task
    BY <1>4 DEF HandleCancel, HandleConfig
  <2> QED
    BY <1>0, <2>1, <2>2, Taken DEF SubmitInv, Submission
<1> QED
  <2>1. CASE ~HandleSubmit /\ ~CallerStep /\ ~HandleCancel /\ ~HandleConfig
    <3>1. UNCHANGED <<cmds, caller>>
      BY <2>1, TaskMoves DEF Shutdown, Join, vars, clientVars
    <3> QED
      BY <1>2, <2>1, <3>1
  <2> QED
    BY <1>1, <1>3, <1>4, <2>1

\* The verdict goes out once, on both channels at the same time.
LEMMA VerdictStep ==
    ASSUME TypeOK, AllTasks, SubmitInv, VerdictInv, [Next]_vars
    PROVE  VerdictInv'
<1> DEFINE VerdictOf(pc, e, c) ==
               /\ pc \in Told => \E v \in Verdicts :
                      e = <<v>> /\ c = IF v = "completed" THEN "ok" ELSE "err"
               /\ pc \notin Told => e = <<>>
               /\ pc \in Live \cup {"unborn"} => c = "none"
               /\ pc \in Lost => c = "dropped"
<1>1. \A r \in Reqs : VerdictOf(task[r].pc, event[r], completion[r])
  BY DEF VerdictInv
<1>2. SUFFICES \A r \in Reqs : VerdictOf(task'[r].pc, event'[r], completion'[r])
  BY DEF VerdictInv
<1>3. ASSUME NEW r \in Reqs, NEW F, NEW T, Moves(r, F, T),
             \A q \in Reqs : q # r => event'[q] = event[q] /\ completion'[q] = completion[q],
             VerdictOf(task'[r].pc, event'[r], completion'[r])
      PROVE  \A q \in Reqs : VerdictOf(task'[q].pc, event'[q], completion'[q])
  <2> HIDE DEF VerdictOf
  <2> QED
    BY <1>1, <1>3 DEF Moves
<1>4. ASSUME UNCHANGED <<task, event, completion>>
      PROVE  \A q \in Reqs : VerdictOf(task'[q].pc, event'[q], completion'[q])
  <2> HIDE DEF VerdictOf
  <2> QED
    BY <1>1, <1>4
<1>5. CASE HandleSubmit
  <2>1. PICK r \in Reqs : /\ r = Head(cmds).req /\ Moves(r, Labels, {"start"})
                          /\ UNCHANGED <<event, completion>>
    BY <1>5, Born
  <2>2. task[r].pc = "unborn"
    <3>1. 1 \in DOMAIN cmds /\ cmds[1] = Head(cmds) /\ Head(cmds).kind = "submit"
      BY <1>5, Taken DEF HandleSubmit, Receive
    <3> QED
      BY <2>1, <3>1 DEF SubmitInv, Submission
  <2>3. event[r] = <<>> /\ completion[r] = "none"
    BY <1>1, <2>1, <2>2, LabelGroups
  <2>4. VerdictOf(task'[r].pc, event'[r], completion'[r])
    BY <2>1, <2>3, LabelGroups DEF Moves
  <2> HIDE DEF VerdictOf
  <2> QED
    BY <1>3, <2>1, <2>4
<1>6. ASSUME NEW r \in Reqs, UNCHANGED <<event, completion>>,
             Moves(r, Live, Live) \/ Moves(r, {"sent"}, {"done"})
             \/ Moves(r, {"done"}, {"joined"}) \/ Moves(r, {"panicked"}, {"buried"})
      PROVE  \A q \in Reqs : VerdictOf(task'[q].pc, event'[q], completion'[q])
  <2>1. \/ task[r].pc \in Live /\ task'[r].pc \in Live
        \/ task[r].pc \in Told /\ task'[r].pc \in Told
        \/ task[r].pc \in Lost /\ task'[r].pc \in Lost
    BY <1>6, LabelGroups DEF Moves
  <2>2. VerdictOf(task'[r].pc, event'[r], completion'[r])
    BY <1>1, <1>6, <2>1, LabelGroups
  <2> HIDE DEF VerdictOf
  <2> QED
    BY <1>3, <1>6, <2>2
<1>7. ASSUME NEW r \in Reqs, Moves(r, Live, {"sent"}), NEW v \in Verdicts,
             event' = [event EXCEPT ![r] = Append(@, v)],
             completion' = [completion EXCEPT ![r] = IF v = "completed" THEN "ok" ELSE "err"]
      PROVE  \A q \in Reqs : VerdictOf(task'[q].pc, event'[q], completion'[q])
  <2>1. /\ event'[r] = Append(event[r], v)
        /\ completion'[r] = IF v = "completed" THEN "ok" ELSE "err"
        /\ \A q \in Reqs : q # r => event'[q] = event[q] /\ completion'[q] = completion[q]
    BY <1>7 DEF TypeOK
  <2>2. event[r] = <<>>
    BY <1>1, <1>7, LabelGroups DEF Moves
  <2>3. event'[r] = <<v>>
    BY <2>1, <2>2
  <2>4. VerdictOf(task'[r].pc, event'[r], completion'[r])
    BY <1>7, <2>1, <2>3, LabelGroups DEF Moves
  <2> HIDE DEF VerdictOf
  <2> QED
    BY <1>3, <1>7, <2>1, <2>4
<1>8. ASSUME NEW r \in Reqs, Moves(r, Live, {"aborted"}) \/ Moves(r, Live, {"panicked"}),
             completion' = [completion EXCEPT ![r] = "dropped"], event' = event
      PROVE  \A q \in Reqs : VerdictOf(task'[q].pc, event'[q], completion'[q])
  <2>1. /\ completion'[r] = "dropped"
        /\ \A q \in Reqs : q # r => completion'[q] = completion[q]
    BY <1>8 DEF TypeOK
  <2>2. event[r] = <<>> /\ task'[r].pc \in Lost
    BY <1>1, <1>8, LabelGroups DEF Moves
  <2>3. VerdictOf(task'[r].pc, event'[r], completion'[r])
    BY <1>8, <2>1, <2>2, LabelGroups
  <2> HIDE DEF VerdictOf
  <2> QED
    BY <1>3, <1>8, <2>1, <2>3
<1> HIDE DEF VerdictOf
<1> QED
  BY TaskMoves, <1>4, <1>5, <1>6, <1>7, <1>8

\* The last handle goes once; nobody waits then, and only then the actor stops.
LEMMA HandlesStep ==
    ASSUME TypeOK, AllTasks, HandlesInv, [Next]_vars
    PROVE  HandlesInv'
<1>1. CASE CallerStep
  <2>1. UNCHANGED <<task, actorVars>>
    BY <1>1, CallerMoves
  <2>2. actor = "stopping" => ~handles
    BY DEF HandlesInv
  <2>3. CASE handles /\ UNCHANGED handles
    BY <2>1, <2>2, <2>3 DEF HandlesInv, actorVars
  <2>4. CASE ~handles /\ UNCHANGED handles
    <3>1. ~handles'
      BY <2>4
    <3>2. \A r \in Collectors : caller'[r] # "sent"
      <4>1. \A r \in Collectors : caller[r] # "sent"
        BY <2>4 DEF HandlesInv
      <4> QED
        BY <1>1, <2>4, <4>1, CallerMoves
    <3> QED
      BY <2>1, <3>1, <3>2 DEF HandlesInv, actorVars
  <2>5. CASE UNCHANGED caller /\ ~handles' /\ \A r \in Collectors : caller[r] # "sent"
    BY <2>1, <2>5 DEF HandlesInv, actorVars
  <2>6. CASE UNCHANGED <<caller, handles>>
    BY <2>1, <2>6 DEF HandlesInv, actorVars
  <2> QED
    BY <1>1, <2>3, <2>4, <2>5, <2>6, CallerMoves DEF TypeOK
<1>2. CASE Shutdown
  <2>1. ~handles /\ actor' = "stopping" /\ UNCHANGED <<handles, caller, task>>
    BY <1>2 DEF Shutdown, clientVars
  <2> QED
    BY <2>1 DEF HandlesInv
<1>3. ASSUME UNCHANGED <<handles, caller, actor>>,
             \A r \in Reqs : task'[r].pc = "aborted" =>
                 task[r].pc = "aborted" \/ actor = "stopping"
      PROVE  HandlesInv'
  <2>1. handles' = handles
    BY <1>3
  <2> QED
    BY <1>3, <2>1 DEF HandlesInv
<1>4. CASE ~CallerStep /\ ~Shutdown
  <2>1. UNCHANGED <<caller, actor>>
    BY <1>4, TaskMoves DEF HandleSubmit, HandleCancel, HandleConfig, Join, vars, clientVars, actorVars
  <2>2. UNCHANGED handles
    BY <1>4, TaskMoves DEF HandleSubmit, HandleCancel, HandleConfig, Join, vars, clientVars
  <2>3. \A r \in Reqs : task'[r].pc = "aborted" => task[r].pc = "aborted" \/ actor = "stopping"
    <3>1. "aborted" \notin Live /\ "aborted" \notin {"start"}
      BY LabelGroups
    <3> QED
      BY <3>1, TaskMoves DEF Moves
  <2> QED
    BY <1>3, <2>1, <2>2, <2>3
<1> QED
  BY <1>1, <1>2, <1>4

\* The decision that ends or moves a request on a deterministic failure.
LEMMA ClassifyDeterministic ==
    ASSUME NEW e \in Deterministic, NEW k, NEW cap
    PROVE  Classify(e, k, cap) \in {"emit", "fatal"}
<1>1. CASE e \in SessionOwned
  BY <1>1 DEF Classify, SessionOwned, ImageShaped, NeverRetried, IsRetryable
<1>2. CASE e \in NeverRetried
  BY <1>2 DEF Classify, SessionOwned, ImageShaped, NeverRetried, IsRetryable
<1>3. CASE e = "client"
  BY <1>3 DEF Classify, SessionOwned, ImageShaped, NeverRetried, IsRetryable
<1> QED
  BY <1>1, <1>2, <1>3 DEF Deterministic, SessionOwned, NeverRetried

\* A failure that keeps the task in its loop is not a deterministic one.
LEMMA AttemptErr ==
    ASSUME TypeOK, NEW r \in Reqs, NEW e \in ErrorKinds, AttemptFails(r, e)
    PROVE  /\ task'[r].pc = "sent" \/ (task'[r].err \notin Deterministic /\ task'[r].pc # "unborn")
           /\ \A q \in Reqs : q # r => task'[q] = task[q]
<1> DEFINE t == Hit(task[r], e)
           decision == Classify(e, t.retry, RetryCap(e, t.queue # <<>>))
<1>1. t \in Tasks /\ t.err = e
  BY ZenonT(60) DEF TypeOK, Tasks, Hit
<1>2. /\ decision = "retry" => e \notin Deterministic
      /\ decision = "strip" => e \notin Deterministic
  BY ClassifyDeterministic
<1>3. IsFailoverError(e) => e \notin Deterministic
  BY DEF IsFailoverError, Deterministic
<1>4. "doom" \notin Deterministic
  BY DEF Deterministic
<1>5. ASSUME NEW u, Continue(r, u), u.err = e, u.pc # "unborn", e \notin Deterministic
      PROVE  /\ task'[r].pc = "sent" \/ (task'[r].err \notin Deterministic /\ task'[r].pc # "unborn")
             /\ \A q \in Reqs : q # r => task'[q] = task[q]
  BY <1>5, SetTask DEF Continue
<1>6. ASSUME Finish(r, t, "failed")
      PROVE  /\ task'[r].pc = "sent" \/ (task'[r].err \notin Deterministic /\ task'[r].pc # "unborn")
             /\ \A q \in Reqs : q # r => task'[q] = task[q]
  <2> DEFINE u == [t EXCEPT !.pc = "sent"]
  <2> HIDE DEF t
  <2>1. u.pc = "sent"
    BY <1>1 DEF Tasks
  <2> HIDE DEF u
  <2>2. task' = [task EXCEPT ![r] = u]
    BY <1>6 DEF Finish, u
  <2> QED
    BY <2>1, <2>2, SetTask
<1>7. /\ Resampled(t).err = e /\ Resampled(t).pc = "backoff"
      /\ Retried(t).err = e /\ Retried(t).pc = "backoff"
      /\ Stripped(t).err = e /\ Stripped(t).pc = "top"
      /\ \A n : SwitchModel(t, n).err = e /\ SwitchModel(t, n).pc = "top"
  <2> HIDE DEF t
  <2>1. Resampled(t).err = e /\ Resampled(t).pc = "backoff"
    BY <1>1 DEF Tasks, Resampled
  <2>2. Retried(t).err = e /\ Retried(t).pc = "backoff"
    BY <1>1 DEF Tasks, Retried
  <2>3. Stripped(t).err = e /\ Stripped(t).pc = "top"
    BY <1>1 DEF Tasks, Stripped
  <2>4. ASSUME NEW n PROVE SwitchModel(t, n).err = e /\ SwitchModel(t, n).pc = "top"
    BY <1>1 DEF Tasks, SwitchModel
  <2> QED
    BY <2>1, <2>2, <2>3, <2>4
<1>8. \/ Finish(r, t, "failed")
      \/ e = "doom" /\ Continue(r, Resampled(t))
      \/ decision = "retry" /\ Continue(r, Retried(t))
      \/ decision = "strip" /\ Continue(r, Stripped(t))
      \/ IsFailoverError(e) /\ \E n \in 1 .. Len(t.queue) : Continue(r, SwitchModel(t, n))
  BY DEF AttemptFails
<1> HIDE DEF t, decision
<1> QED
  BY <1>2, <1>3, <1>4, <1>5, <1>6, <1>7, <1>8

\* What a task's own step does to its last failure and to its calls.
LEMMA TaskErr ==
    ASSUME TypeOK, NEW r \in Reqs, TaskStep(r)
    PROVE  /\ \A q \in Reqs : q # r => task'[q] = task[q]
           /\ task'[r].pc # "unborn"
           /\ \/ /\ task[r].pc \in Live
                 /\ \/ task'[r].pc = "sent"
                    \/ task'[r].err \notin Deterministic
                    \/ task'[r].err = task[r].err
              \/ /\ task[r].pc = "sent" /\ task'[r].pc = "done"
                 /\ task'[r].err = task[r].err /\ task'[r].calls = task[r].calls
<1> DEFINE t == task[r]
<1>0. t \in Tasks /\ {"start", "top", "limiter", "connect", "stream", "backoff"} = Live
  BY DEF TypeOK, Live
<1>1. ASSUME NEW l, Continue(r, [t EXCEPT !.pc = l])
      PROVE  /\ task'[r].pc = l /\ task'[r].err = t.err /\ task'[r].calls = t.calls
             /\ \A q \in Reqs : q # r => task'[q] = task[q]
  <2> DEFINE u == [t EXCEPT !.pc = l]
  <2>1. u.pc = l /\ u.err = t.err /\ u.calls = t.calls
    BY <1>0 DEF Tasks
  <2> HIDE DEF u
  <2>2. task' = [task EXCEPT ![r] = u]
    BY <1>1 DEF Continue, u
  <2> QED
    BY <2>1, <2>2, SetTask
<1>2. ASSUME NEW v, Finish(r, t, v)
      PROVE  task'[r].pc = "sent" /\ \A q \in Reqs : q # r => task'[q] = task[q]
  <2> DEFINE u == [t EXCEPT !.pc = "sent"]
  <2>1. u.pc = "sent"
    BY <1>0 DEF Tasks
  <2> HIDE DEF u
  <2>2. task' = [task EXCEPT ![r] = u]
    BY <1>2 DEF Finish, u
  <2> QED
    BY <2>1, <2>2, SetTask
<1> HIDE DEF t
<1>3. CASE BuildClient(r)
  BY <1>0, <1>1, <1>2, <1>3 DEF BuildClient, t
<1>4. CASE LoopTop(r)
  BY <1>0, <1>1, <1>2, <1>4 DEF LoopTop, t
<1>5. CASE Acquire(r)
  <2> DEFINE u == [t EXCEPT !.pc = "connect", !.calls = @ + 1,
                      !.grace = IF r \in cancelled THEN @ + 1 ELSE @]
  <2>1. u.pc = "connect" /\ u.err = t.err
    BY <1>0 DEF Tasks
  <2>2. t.pc = "limiter" /\ task' = [task EXCEPT ![r] = u]
    BY <1>5 DEF Acquire, Continue, t
  <2> HIDE DEF u
  <2> QED
    BY <1>0, <2>1, <2>2, SetTask DEF t
<1>6. CASE StreamOpens(r) \/ BackoffEnds(r)
  BY <1>0, <1>1, <1>6 DEF StreamOpens, BackoffEnds, t
<1>7. CASE InitFails(r) \/ StreamFails(r)
  <2>1. PICK e \in ErrorKinds : AttemptFails(r, e)
    BY <1>7, SamplerAssumption DEF InitFails, StreamFails
  <2>2. task[r].pc \in {"connect", "stream"}
    BY <1>7 DEF InitFails, StreamFails
  <2> QED
    BY <1>0, <2>1, <2>2, AttemptErr DEF t
<1>8. CASE StreamCancelled(r) \/ StreamCompletes(r)
  BY <1>0, <1>2, <1>8 DEF StreamCancelled, StreamCompletes, t
<1>9. CASE Return(r)
  BY <1>1, <1>9 DEF Return, t
<1> QED
  BY <1>3, <1>4, <1>5, <1>6, <1>7, <1>8, <1>9 DEF TaskStep

\* A step leaves a task alone, or is the birth, a step or the end of it.
LEMMA TaskCases ==
    ASSUME TypeOK, AllTasks, [Next]_vars, NEW q \in Reqs
    PROVE  \/ task'[q] = task[q]
           \/ HandleSubmit /\ q = Head(cmds).req
           \/ TaskStep(q)
           \/ /\ task'[q].err = task[q].err /\ task'[q].calls = task[q].calls
              /\ \/ task[q].pc \in Live /\ task'[q].pc \in Lost
                 \/ task[q].pc \in {"done"} /\ task'[q].pc = "joined"
                 \/ task[q].pc \in {"panicked"} /\ task'[q].pc = "buried"
<1>1. CASE UNCHANGED task
  BY <1>1
<1>2. CASE CallerStep \/ HandleCancel \/ HandleConfig \/ Shutdown \/ UNCHANGED vars
  BY <1>2, CallerMoves DEF HandleCancel, HandleConfig, Shutdown, vars
<1>3. CASE HandleSubmit
  BY <1>3, Born DEF Moves
<1>4. ASSUME NEW r \in Reqs, TaskStep(r)
      PROVE  TaskStep(q) \/ task'[q] = task[q]
  BY <1>4, TaskErr
<1>5. ASSUME NEW r \in Reqs, Join(r), r = q
      PROVE  /\ task'[q].err = task[q].err /\ task'[q].calls = task[q].calls
             /\ \/ task[q].pc \in {"done"} /\ task'[q].pc = "joined"
                \/ task[q].pc \in {"panicked"} /\ task'[q].pc = "buried"
  BY <1>5, SetLabel DEF Join, Joinable
<1>6. ASSUME NEW r \in Reqs, Abort(r) \/ Panic(r), r = q
      PROVE  /\ task'[q].err = task[q].err /\ task'[q].calls = task[q].calls
             /\ task[q].pc \in Live /\ task'[q].pc \in Lost
  BY <1>6, SetLabel, LabelGroups DEF Abort, Panic, IsLive
<1>7. ASSUME NEW r \in Reqs, Join(r) \/ Abort(r) \/ Panic(r), r # q
      PROVE  task'[q] = task[q]
  BY <1>7, SetLabel DEF Join, Abort, Panic
<1> QED
  BY <1>1, <1>2, <1>3, <1>4, <1>5, <1>6, <1>7 DEF Next, ActorStep

LEMMA ErrorStep ==
    ASSUME TypeOK, AllTasks, ErrorInv, [Next]_vars
    PROVE  ErrorInv'
<1> SUFFICES ASSUME NEW q \in Reqs
             PROVE  /\ task'[q].err \in Deterministic => task'[q].pc \in Told
                    /\ task'[q].pc = "unborn" => task'[q].err = "none"
  BY DEF ErrorInv
<1>0. /\ task[q].err \in Deterministic => task[q].pc \in Told
      /\ task[q].pc = "unborn" => task[q].err = "none"
  BY DEF ErrorInv
<1>1. CASE task'[q] = task[q]
  BY <1>0, <1>1
<1>2. CASE HandleSubmit /\ q = Head(cmds).req
  <2>1. task'[q].pc = "start" /\ task'[q].err = "none"
    BY <1>2, Born DEF Moves
  <2> QED
    BY <2>1 DEF Deterministic
<1>3. CASE TaskStep(q)
  BY <1>0, <1>3, TaskErr, LabelGroups
<1>4. CASE /\ task'[q].err = task[q].err
           /\ \/ task[q].pc \in Live /\ task'[q].pc \in Lost
              \/ task[q].pc \in {"done"} /\ task'[q].pc = "joined"
              \/ task[q].pc \in {"panicked"} /\ task'[q].pc = "buried"
  BY <1>0, <1>4, LabelGroups
<1> QED
  BY <1>1, <1>2, <1>3, <1>4, TaskCases

\* The id of a request is in the table from its birth to its join or its
\* cancellation, when no other submission carries that id.
LEMMA TrackedStep ==
    ASSUME \A r, q \in Reqs : IdOf[r] = IdOf[q] => r = q,
           TypeOK, AllTasks, RunningIsTracked, [Next]_vars
    PROVE  RunningIsTracked'
<1> SUFFICES ASSUME NEW q \in Reqs, task'[q].pc \in Live, q \notin cancelled'
             PROVE  active'[IdOf[q]] = q
  BY DEF RunningIsTracked, IsLive
<1>0. IdOf[q] \in Ids /\ q # None
  BY SamplerAssumption
<1>1. CASE HandleSubmit
  <2> DEFINE r == Head(cmds).req
  <2>1. r \in Reqs /\ active' = [active EXCEPT ![IdOf[r]] = r] /\ cancelled \subseteq cancelled'
        /\ \A p \in Reqs : p # r => task'[p] = task[p]
    <3>1. r \in Reqs /\ Moves(r, Labels, {"start"})
      BY <1>1, Born
    <3>2. active' = [active EXCEPT ![IdOf[r]] = r] /\ cancelled \subseteq cancelled'
      BY <1>1 DEF HandleSubmit
    <3> HIDE DEF r
    <3> QED
      BY <3>1, <3>2 DEF Moves
  <2> HIDE DEF r
  <2>2. CASE q = r
    BY <1>0, <2>1, <2>2 DEF TypeOK
  <2>3. CASE q # r
    <3>1. active[IdOf[q]] = q
      BY <2>1, <2>3 DEF RunningIsTracked, IsLive
    <3>2. IdOf[q] # IdOf[r]
      BY <2>1, <2>3
    <3> QED
      BY <1>0, <2>1, <3>1, <3>2 DEF TypeOK
  <2> QED
    BY <2>2, <2>3
<1>2. CASE HandleCancel
  <2> DEFINE i == Head(cmds).id
  <2>1. /\ active' = [active EXCEPT ![i] = None]
        /\ cancelled' = cancelled \cup ({active[i]} \ {None})
        /\ task' = task
    BY <1>2 DEF HandleCancel
  <2> HIDE DEF i
  <2>2. active[IdOf[q]] = q
    BY <2>1 DEF RunningIsTracked, IsLive
  <2>3. i # IdOf[q]
    BY <1>0, <2>1, <2>2
  <2> QED
    BY <1>0, <2>1, <2>2, <2>3 DEF TypeOK
<1>3. CASE Shutdown
  <2>1. cancelled' = cancelled \cup ({active[i] : i \in Ids} \ {None}) /\ task' = task
    BY <1>3 DEF Shutdown
  <2>2. active[IdOf[q]] = q
    BY <2>1 DEF RunningIsTracked, IsLive
  <2> QED
    BY <1>0, <2>1, <2>2
<1>4. ASSUME NEW r \in Reqs, Join(r) PROVE active'[IdOf[q]] = q
  <2>1. cancelled' = cancelled /\ \A p \in Reqs : p # r => task'[p] = task[p]
    BY <1>4, SetLabel DEF Join
  <2>2. q # r /\ task'[q] = task[q]
    <3>1. task'[r].pc \in {"joined", "buried"}
      BY <1>4, SetLabel DEF Join
    <3> QED
      BY <2>1, <3>1, LabelGroups
  <2>3. active[IdOf[q]] = q
    BY <2>1, <2>2 DEF RunningIsTracked, IsLive
  <2>4. active' = active \/ active' = [active EXCEPT ![IdOf[r]] = None]
    BY <1>4 DEF Join
  <2> QED
    BY <1>0, <2>2, <2>3, <2>4 DEF TypeOK
<1>5. ASSUME UNCHANGED <<active, cancelled>>, task[q].pc \in Live
      PROVE  active'[IdOf[q]] = q
  BY <1>5 DEF RunningIsTracked, IsLive
<1>6. CASE ~HandleSubmit /\ ~HandleCancel /\ ~Shutdown /\ ~\E r \in Reqs : Join(r)
  <2>1. UNCHANGED <<active, cancelled>>
    BY <1>6, TaskMoves, CallerMoves DEF HandleConfig, vars, actorVars
  <2>2. task[q].pc \in Live
    BY <1>6, TaskCases, TaskErr, LabelGroups
  <2> QED
    BY <1>5, <2>1, <2>2
<1> QED
  BY <1>1, <1>2, <1>3, <1>4, <1>6

LEMMA InitVerdict == Init => SubmitInv /\ VerdictInv /\ HandlesInv /\ ErrorInv
<1> SUFFICES ASSUME Init PROVE SubmitInv /\ VerdictInv /\ HandlesInv /\ ErrorInv
  OBVIOUS
<1>1. ASSUME NEW r \in Reqs
      PROVE  /\ task[r].pc = "unborn" /\ task[r].err = "none" /\ event[r] = <<>>
             /\ completion[r] = "none" /\ caller[r] = "idle"
  BY DEF Init, Unborn
<1>2. DOMAIN cmds = {} /\ handles /\ actor = "running"
  BY DEF Init
<1>3. SubmitInv
  BY <1>1, <1>2 DEF SubmitInv
<1>4. VerdictInv
  BY <1>1, LabelGroups DEF VerdictInv
<1>5. HandlesInv
  BY <1>1, <1>2 DEF HandlesInv
<1>6. ErrorInv
  BY <1>1 DEF ErrorInv, Deterministic
<1> QED
  BY <1>3, <1>4, <1>5, <1>6

SamplerInv == TypeOK /\ AllTasks /\ SubmitInv /\ VerdictInv /\ HandlesInv /\ ErrorInv

LEMMA SamplerInvariant == Spec => []SamplerInv
<1>1. Init => SamplerInv
  BY InitBooks, InitVerdict DEF SamplerInv
<1>2. SamplerInv /\ [Next]_vars => SamplerInv'
  BY StepBooks, SubmitStep, VerdictStep, HandlesStep, ErrorStep DEF SamplerInv
<1> QED
  BY <1>1, <1>2, PTL DEF Spec

\* A request has one terminal event, and its oneshot tells the same story.
THEOREM OneVerdictEach == Spec => []OneVerdict
<1>1. SamplerInv => OneVerdict
  <2> SUFFICES ASSUME SamplerInv, NEW r \in Reqs
               PROVE  /\ Len(event[r]) = IF task[r].pc \in {"sent", "done", "joined"} THEN 1 ELSE 0
                      /\ (completion[r] = "ok") <=> (event[r] = <<"completed">>)
                      /\ (completion[r] = "err") <=> (event[r] \in {<<"failed">>, <<"cancelled">>})
                      /\ (completion[r] = "dropped")
                            <=> (task[r].pc \in {"panicked", "buried", "aborted"})
    BY DEF OneVerdict
  <2>1. task[r].pc \in {"unborn"} \cup Live \cup Told \cup Lost
    BY LabelGroups DEF SamplerInv, TypeOK, Tasks
  <2>2. CASE task[r].pc \in Told
    <3>1. PICK v \in Verdicts : /\ event[r] = <<v>>
                                /\ completion[r] = IF v = "completed" THEN "ok" ELSE "err"
      BY <2>2 DEF SamplerInv, VerdictInv
    <3>2. Len(event[r]) = 1 /\ \A w : event[r] = <<w>> <=> v = w
      BY <3>1
    <3> QED
      BY <2>2, <3>1, <3>2, LabelGroups DEF Verdicts
  <2>3. CASE task[r].pc \notin Told
    <3>1. event[r] = <<>>
      BY <2>3 DEF SamplerInv, VerdictInv
    <3>2. completion[r] \in {"none", "dropped"} /\ (completion[r] = "dropped" <=> task[r].pc \in Lost)
      BY <2>1, <2>3, LabelGroups DEF SamplerInv, VerdictInv
    <3> QED
      BY <2>3, <3>1, <3>2, LabelGroups
  <2> QED
    BY <2>2, <2>3
<1> QED
  BY <1>1, SamplerInvariant, PTL

\* A request somebody waits for is never aborted by the actor's shutdown.
THEOREM NoWaiterAborted == Spec => []CollectorAnswered
<1>1. SamplerInv => CollectorAnswered
  BY SamplerAssumption DEF SamplerInv, HandlesInv, CollectorAnswered
<1> QED
  BY <1>1, SamplerInvariant, PTL

\* A deterministic failure is never paid for with another API call.
THEOREM NoCallAfterDeterministic == Spec => DeterministicEndsRequest
<1>1. SamplerInv /\ [Next]_vars =>
          [\A r \in Reqs : task[r].err \in Deterministic => task'[r].calls = task[r].calls]_vars
  <2> SUFFICES ASSUME SamplerInv, [Next]_vars, NEW r \in Reqs, task[r].err \in Deterministic
               PROVE  task'[r].calls = task[r].calls
    OBVIOUS
  <2>1. task[r].pc \in Told
    BY DEF SamplerInv, ErrorInv
  <2>2. CASE HandleSubmit /\ r = Head(cmds).req
    <3>1. 1 \in DOMAIN cmds /\ cmds[1] = Head(cmds) /\ Head(cmds).kind = "submit"
      BY <2>2, Taken DEF HandleSubmit, Receive, SamplerInv
    <3>2. task[r].pc = "unborn"
      BY <2>2, <3>1 DEF SamplerInv, SubmitInv, Submission
    <3> QED
      BY <2>1, <3>2, LabelGroups
  <2>3. CASE TaskStep(r)
    BY <2>1, <2>3, TaskErr, LabelGroups DEF SamplerInv
  <2> QED
    BY <2>2, <2>3, TaskCases DEF SamplerInv
<1> QED
  BY <1>1, SamplerInvariant, PTL DEF Spec, DeterministicEndsRequest

\* Every request that runs uncancelled is registered, as long as the callers
\* draw a fresh id for each submission (the session does: RequestId::random(),
\* sampler_turn.rs:888).
THEOREM RunningRequestsTracked ==
    ASSUME \A r, q \in Reqs : IdOf[r] = IdOf[q] => r = q
    PROVE  Spec => []RunningIsTracked
<1>1. Init => RunningIsTracked
  BY LabelGroups DEF Init, RunningIsTracked, IsLive, Unborn
<1>2. SamplerInv /\ RunningIsTracked /\ [Next]_vars => RunningIsTracked'
  BY TrackedStep DEF SamplerInv
<1> QED
  BY <1>1, <1>2, SamplerInvariant, PTL DEF Spec

-----------------------------------------------------------------------------
(* The refinement of SamplerPromise, without its fairness. *)

\* The promise's two variables, read off the task and its caller.
PhaseOf(pc, c) == IF pc \in Told THEN "answered"
                  ELSE IF pc \in Lost THEN "lost"
                  ELSE IF c = "idle" THEN "unsent" ELSE "pending"

PhaseInv ==
    /\ phaseBar = [r \in Reqs |-> PhaseOf(task[r].pc, caller[r])]
    /\ answerBar \in [Reqs -> Verdicts \cup {"none"}]
    /\ \A r \in Reqs : answerBar[r] = "none" <=> task[r].pc \notin Told

LEMMA PhaseIsRead == SamplerInv => PhaseInv
<1> SUFFICES ASSUME SamplerInv PROVE PhaseInv
  OBVIOUS
<1>1. ASSUME NEW r \in Reqs
      PROVE  /\ Phase(r) = PhaseOf(task[r].pc, caller[r])
             /\ answerBar[r] \in Verdicts \cup {"none"}
             /\ answerBar[r] = "none" <=> task[r].pc \notin Told
  <2>0. /\ task[r].pc \in {"panicked", "buried", "aborted"} <=> task[r].pc \in Lost
        /\ ~(task[r].pc \in Lost /\ task[r].pc \in Told)
    BY LabelGroups
  <2>1. CASE task[r].pc \in Told
    <3>1. PICK v \in Verdicts : event[r] = <<v>>
      BY <2>1 DEF SamplerInv, VerdictInv
    <3>2. event[r] # <<>> /\ Head(event[r]) = v /\ v # "none"
      BY <3>1 DEF Verdicts
    <3>3. Phase(r) = "answered"
      BY <2>0, <2>1, <3>2 DEF Phase
    <3>4. answerBar[r] = v
      BY <3>2 DEF answerBar
    <3> QED
      BY <2>1, <3>2, <3>3, <3>4 DEF PhaseOf
  <2>2. CASE task[r].pc \notin Told
    <3>1. event[r] = <<>>
      BY <2>2 DEF SamplerInv, VerdictInv
    <3>2. answerBar[r] = "none"
      BY <3>1 DEF answerBar
    <3>3. task[r].pc \in Lost => caller[r] # "idle"
      BY LabelGroups DEF SamplerInv, SubmitInv
    <3>4. Phase(r) = PhaseOf(task[r].pc, caller[r])
      BY <2>0, <2>2, <3>1, <3>3 DEF Phase, PhaseOf
    <3> QED
      BY <2>2, <3>2, <3>4
  <2> QED
    BY <2>1, <2>2
<1>2. phaseBar = [r \in Reqs |-> PhaseOf(task[r].pc, caller[r])]
  BY <1>1 DEF phaseBar
<1>3. answerBar \in [Reqs -> Verdicts \cup {"none"}]
  BY <1>1 DEF answerBar
<1> QED
  BY <1>1, <1>2, <1>3 DEF PhaseInv

\* What each step does to the two variables.
LEMMA PromiseStep ==
    ASSUME SamplerInv, PhaseInv, PhaseInv', [Next]_vars
    PROVE  [Promise!Next]_<<phaseBar, answerBar>>
<1>0. /\ TypeOK /\ AllTasks /\ SubmitInv /\ VerdictInv
      /\ \A r \in Reqs : /\ phaseBar[r] = PhaseOf(task[r].pc, caller[r])
                         /\ phaseBar'[r] = PhaseOf(task'[r].pc, caller'[r])
                         /\ answerBar[r] = "none" <=> task[r].pc \notin Told
                         /\ answerBar'[r] = "none" <=> task'[r].pc \notin Told
                         /\ answerBar'[r] \in Verdicts \cup {"none"}
      /\ phaseBar = [r \in Reqs |-> phaseBar[r]] /\ phaseBar' = [r \in Reqs |-> phaseBar'[r]]
      /\ answerBar = [r \in Reqs |-> answerBar[r]] /\ answerBar' = [r \in Reqs |-> answerBar'[r]]
  BY DEF SamplerInv, PhaseInv
<1>1. ASSUME \A q \in Reqs : phaseBar'[q] = phaseBar[q] /\ answerBar'[q] = answerBar[q]
      PROVE  UNCHANGED <<phaseBar, answerBar>>
  BY <1>0, <1>1
<1>2. ASSUME NEW r \in Reqs,
             \A q \in Reqs : q # r => phaseBar'[q] = phaseBar[q] /\ answerBar'[q] = answerBar[q]
      PROVE  /\ phaseBar' = [phaseBar EXCEPT ![r] = phaseBar'[r]]
             /\ answerBar' = [answerBar EXCEPT ![r] = answerBar'[r]]
  BY <1>0, <1>2
<1>3. \A q \in Reqs : event'[q] = event[q] => answerBar'[q] = answerBar[q]
  BY DEF answerBar
<1>4. ASSUME NEW r \in Reqs, UNCHANGED <<caller, event>>,
             \A q \in Reqs : q # r => task'[q] = task[q],
             PhaseOf(task'[r].pc, caller[r]) = PhaseOf(task[r].pc, caller[r])
      PROVE  UNCHANGED <<phaseBar, answerBar>>
  BY <1>0, <1>1, <1>3, <1>4
<1>5. CASE HandleSubmit
  <2>1. PICK r \in Reqs : /\ r = Head(cmds).req /\ Moves(r, Labels, {"start"})
                          /\ UNCHANGED <<event, completion>> /\ Head(cmds).kind = "submit"
    BY <1>0, <1>5, Born
  <2>2. 1 \in DOMAIN cmds /\ cmds[1] = Head(cmds)
    BY <1>0, <1>5, Born, Taken
  <2>3. task[r].pc = "unborn" /\ caller[r] # "idle"
    BY <1>0, <2>1, <2>2 DEF SubmitInv, Submission
  <2>4. caller' = caller
    BY <1>5 DEF HandleSubmit, clientVars
  <2> QED
    BY <1>4, <2>1, <2>3, <2>4, LabelGroups DEF Moves, PhaseOf
<1>6. ASSUME NEW r \in Reqs, UNCHANGED <<caller, event>>,
             Moves(r, Live, Live) \/ Moves(r, {"sent"}, {"done"})
             \/ Moves(r, {"done"}, {"joined"}) \/ Moves(r, {"panicked"}, {"buried"})
      PROVE  UNCHANGED <<phaseBar, answerBar>>
  <2>1. PhaseOf(task'[r].pc, caller[r]) = PhaseOf(task[r].pc, caller[r])
    BY <1>6, LabelGroups DEF Moves, PhaseOf
  <2> QED
    BY <1>4, <1>6, <2>1 DEF Moves
<1>7. ASSUME NEW r \in Reqs, UNCHANGED caller, Moves(r, Live, {"sent"}), NEW v \in Verdicts,
             event' = [event EXCEPT ![r] = Append(@, v)]
      PROVE  Promise!Answer(r)
  <2>1. \A q \in Reqs : q # r => event'[q] = event[q]
    BY <1>0, <1>7 DEF TypeOK
  <2>2. caller[r] # "idle"
    BY <1>0, <1>7, LabelGroups DEF Moves, SubmitInv
  <2>3. phaseBar[r] = "pending" /\ phaseBar'[r] = "answered" /\ answerBar'[r] \in Verdicts
    BY <1>0, <1>7, <2>2, LabelGroups DEF Moves, PhaseOf
  <2>4. /\ phaseBar' = [phaseBar EXCEPT ![r] = phaseBar'[r]]
        /\ answerBar' = [answerBar EXCEPT ![r] = answerBar'[r]]
    BY <1>0, <1>2, <1>3, <1>7, <2>1 DEF Moves
  <2> QED
    BY <2>3, <2>4 DEF Promise!Answer, Promise!Answers, Verdicts
<1>8. ASSUME NEW r \in Reqs, UNCHANGED <<caller, event>>,
             Moves(r, Live, {"aborted"}) \/ Moves(r, Live, {"panicked"})
      PROVE  Promise!Lose(r)
  <2>1. caller[r] # "idle"
    BY <1>0, <1>8, LabelGroups DEF Moves, SubmitInv
  <2>2. phaseBar[r] = "pending" /\ phaseBar'[r] = "lost"
    BY <1>0, <1>8, <2>1, LabelGroups DEF Moves, PhaseOf
  <2>3. phaseBar' = [phaseBar EXCEPT ![r] = phaseBar'[r]]
    BY <1>0, <1>2, <1>3, <1>8 DEF Moves
  <2>4. answerBar' = answerBar
    BY <1>8 DEF answerBar
  <2> QED
    BY <2>2, <2>3, <2>4 DEF Promise!Lose
<1>9. CASE CallerStep
  <2>1. UNCHANGED <<task, event>>
    BY <1>9, CallerMoves DEF CallerStep, Submit, CollectorDrop, Cancel, UpdateConfig, DropHandles
  <2>2. CASE UNCHANGED caller
    BY <1>0, <1>1, <1>3, <2>1, <2>2
  <2>3. ASSUME NEW r \in Collectors, caller[r] = "sent", caller' = [caller EXCEPT ![r] = "gone"]
        PROVE  UNCHANGED <<phaseBar, answerBar>>
    <3>1. \A q \in Reqs : caller'[q] = "idle" <=> caller[q] = "idle"
      BY <1>0, <2>3, SamplerAssumption DEF TypeOK
    <3>2. \A q \in Reqs : PhaseOf(task'[q].pc, caller'[q]) = PhaseOf(task[q].pc, caller[q])
      BY <2>1, <3>1 DEF PhaseOf
    <3> QED
      BY <1>0, <1>1, <1>3, <2>1, <3>2
  <2>4. ASSUME NEW r \in Reqs, caller[r] = "idle", caller' = [caller EXCEPT ![r] = "sent"]
        PROVE  Promise!Accept(r)
    <3>1. caller'[r] = "sent" /\ \A q \in Reqs : q # r => caller'[q] = caller[q]
      BY <1>0, <2>4 DEF TypeOK
    <3>2. task[r].pc = "unborn"
      BY <1>0, <2>4 DEF SubmitInv
    <3>3. phaseBar[r] = "unsent" /\ phaseBar'[r] = "pending"
      BY <1>0, <2>1, <2>4, <3>1, <3>2, LabelGroups DEF PhaseOf
    <3>4. phaseBar' = [phaseBar EXCEPT ![r] = phaseBar'[r]]
      BY <1>0, <1>2, <1>3, <2>1, <3>1
    <3>5. answerBar' = answerBar
      BY <2>1 DEF answerBar
    <3> QED
      BY <3>3, <3>4, <3>5 DEF Promise!Accept
  <2> QED
    BY <1>9, <2>2, <2>3, <2>4, CallerMoves DEF Promise!Next
<1>10. CASE ~CallerStep /\ ~HandleSubmit
  <2>1. UNCHANGED caller
    BY <1>0, <1>10, TaskMoves DEF HandleCancel, HandleConfig, Shutdown, Join, vars, clientVars
  <2>2. CASE UNCHANGED <<task, event>>
    BY <1>0, <1>1, <1>3, <2>1, <2>2
  <2> QED
    BY <1>0, <1>6, <1>7, <1>8, <1>10, <2>1, <2>2, TaskMoves DEF Promise!Next
<1> QED
  BY <1>5, <1>9, <1>10

\* Whatever the interleaving, a submission is accepted, then answered once for
\* good or lost: every step of the actor, the tasks and the callers is a step
\* of SamplerPromise or leaves it unchanged.
THEOREM KeepsThePromise == Spec => Promise!Safe
<1>1. Init => Promise!Init
  <2> SUFFICES ASSUME Init PROVE Promise!Init
    OBVIOUS
  <2>1. \A r \in Reqs : Phase(r) = "unsent" /\ event[r] = <<>>
    BY DEF Init, Phase, Unborn
  <2> QED
    BY <2>1 DEF Promise!Init, phaseBar, answerBar
<1>2. SamplerInv /\ PhaseInv /\ PhaseInv' /\ [Next]_vars => [Promise!Next]_<<phaseBar, answerBar>>
  BY PromiseStep
<1> QED
  BY <1>1, <1>2, PhaseIsRead, SamplerInvariant, PTL DEF Spec, Promise!Safe
===============================================================================
