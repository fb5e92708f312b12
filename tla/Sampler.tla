-------------------------------- MODULE Sampler --------------------------------
(***************************************************************************)
(* The sampler actor and its request tasks (crates/codegen/cf-sampler):    *)
(* clients put commands on an unbounded channel, the actor registers each  *)
(* submission under its request id and spawns a task, the task runs the    *)
(* retry / failover loop, and the actor forgets the id when it joins the   *)
(* task.  Cancellation travels by token, and is noticed at the top of the  *)
(* loop and while a stream is being read, nowhere else.                    *)
(*                                                                         *)
(* A member of Reqs is one call of submit(); two of them may carry the     *)
(* same request id.                                                        *)
(***************************************************************************)
EXTENDS SamplerRetry, Sequences, FiniteSets

CONSTANTS
    Reqs,          \* submissions
    Ids,           \* request ids
    IdOf,          \* the id each submission carries
    Collectors,    \* submissions made through submit_and_collect()
    Models,        \* model names
    BrokenModels,  \* models for which SamplingClient::new fails
    Configs,       \* SamplerConfigs: [model, fallbacks]
    FirstConfig,   \* the config the actor is spawned with
    Errors,        \* the error kinds the endpoint produces in this instance
    MaxCancels,    \* bound: handle.cancel() calls
    MaxPanics,     \* bound: tasks that panic
    None

ASSUME SamplerAssumption ==
    /\ IdOf \in [Reqs -> Ids]
    /\ Collectors \subseteq Reqs
    /\ BrokenModels \subseteq Models
    /\ Configs \subseteq [model : Models, fallbacks : Seq(Models)]
    /\ FirstConfig \in Configs
    /\ Errors \subseteq ErrorKinds
    /\ None \notin Reqs

VARIABLES
    cmds,       \* the command channel, FIFO
    handles,    \* some SamplerHandle is still alive
    caller,     \* what the caller of each submission has done
    cancels,    \* handle.cancel() calls made
    actor,      \* "running", or "stopping" once the channel is closed
    config,     \* ActorState.config
    active,     \* ActorState.active_requests
    cancelled,  \* submissions whose CancellationToken has fired
    task,       \* the request tasks
    event,      \* the terminal event of each submission on the event channel
    completion  \* what its oneshot carries

clientVars == <<handles, caller, cancels>>
actorVars  == <<actor, config, active, cancelled>>
vars == <<cmds, clientVars, actorVars, task, event, completion>>

Commands == [kind : {"submit"}, req : Reqs, config : Configs \cup {None}]
            \cup [kind : {"cancel"}, id : Ids]
            \cup [kind : {"config"}, config : Configs]

\* Labels of a task that has not produced its terminal event.
Live == {"start", "top", "limiter", "connect", "stream", "backoff"}
Labels == {"unborn", "sent", "done", "joined", "panicked", "buried", "aborted"}
          \cup Live

\* models: the models this request was switched to, in order (the last one is
\* config.model); queue: fallback_queue; tried: tried_models; images: the
\* request still carries inline images; calls: API calls made; strips: image
\* strips on this model; grace: calls made since the token fired; err: the last
\* failure.
Tasks == [pc : Labels, models : Seq(Models), queue : Seq(Models),
          tried : SUBSET Models, images : BOOLEAN, retry : Nat, doom : Nat,
          calls : Nat, strips : Nat, grace : Nat,
          err : ErrorKinds \cup {"none"}]

Unborn == [pc |-> "unborn", models |-> <<>>, queue |-> <<>>, tried |-> {},
           images |-> FALSE, retry |-> 0, doom |-> 0, calls |-> 0,
           strips |-> 0, grace |-> 0, err |-> "none"]

IsLive(r) == task[r].pc \in Live

-----------------------------------------------------------------------------
Init ==
    /\ cmds = <<>>
    /\ handles = TRUE
    /\ caller = [r \in Reqs |-> "idle"]
    /\ cancels = 0
    /\ actor = "running"
    /\ config = FirstConfig
    /\ active = [i \in Ids |-> None]
    /\ cancelled = {}
    /\ task = [r \in Reqs |-> Unborn]
    /\ event = [r \in Reqs |-> <<>>]
    /\ completion = [r \in Reqs |-> "none"]

-----------------------------------------------------------------------------
(* Callers *)

Send(c) == cmds' = Append(cmds, c)

\* submit(), submit_with_config() and submit_and_collect(); only the second
\* carries a config.
Submit(r) ==
    /\ handles
    /\ caller[r] = "idle"
    /\ caller' = [caller EXCEPT ![r] = "sent"]
    /\ \E c \in IF r \in Collectors THEN {None} ELSE Configs \cup {None} :
          Send([kind |-> "submit", req |-> r, config |-> c])
    /\ UNCHANGED <<handles, cancels, actorVars, task, event, completion>>

\* CancelOnDrop: when the collecting future ends, having its result or dropped
\* early, it sends a Cancel for its id.
CollectorDrop(r) ==
    /\ r \in Collectors
    /\ caller[r] = "sent"
    /\ caller' = [caller EXCEPT ![r] = "gone"]
    /\ Send([kind |-> "cancel", id |-> IdOf[r]])
    /\ UNCHANGED <<handles, cancels, actorVars, task, event, completion>>

Cancel(i) ==
    /\ handles
    /\ cancels < MaxCancels
    /\ cancels' = cancels + 1
    /\ Send([kind |-> "cancel", id |-> i])
    /\ UNCHANGED <<handles, caller, actorVars, task, event, completion>>

\* Explored one at a time, and only when it changes something.
UpdateConfig(c) ==
    /\ handles
    /\ c # config
    /\ \A n \in DOMAIN cmds : cmds[n].kind # "config"
    /\ Send([kind |-> "config", config |-> c])
    /\ UNCHANGED <<clientVars, actorVars, task, event, completion>>

\* Mutant: a collecting future holds no handle.
DropAllHandles ==
    /\ handles
    /\ handles' = FALSE
    /\ UNCHANGED <<cmds, caller, cancels, actorVars, task, event, completion>>

\* The last handle goes away; a collecting future holds one.
DropHandles ==
    /\ handles
    /\ \A r \in Collectors : caller[r] # "sent"
    /\ handles' = FALSE
    /\ UNCHANGED <<cmds, caller, cancels, actorVars, task, event, completion>>

-----------------------------------------------------------------------------
(* The actor's select loop *)

Joinable(r) == task[r].pc \in {"done", "panicked"}

\* Mutant: the id of a finished task stays in the table.
JoinWithoutRemove(r) ==
    /\ actor = "running"
    /\ Joinable(r)
    /\ task' = [task EXCEPT ![r].pc = IF @ = "done" THEN "joined" ELSE "buried"]
    /\ UNCHANGED <<cmds, clientVars, actorVars, event, completion>>

\* A task that returned is forgotten by id; one that panicked is only logged.
Join(r) ==
    /\ actor = "running"
    /\ Joinable(r)
    /\ IF task[r].pc = "done"
       THEN /\ active' = [active EXCEPT ![IdOf[r]] = None]
            /\ task' = [task EXCEPT ![r].pc = "joined"]
       ELSE /\ task' = [task EXCEPT ![r].pc = "buried"]
            /\ UNCHANGED active
    /\ UNCHANGED <<cmds, clientVars, actor, config, cancelled, event, completion>>

\* The select is biased: a command is taken when no task can be joined.
Receive(kind) ==
    /\ actor = "running"
    /\ \A r \in Reqs : ~Joinable(r)
    /\ cmds # <<>>
    /\ Head(cmds).kind = kind
    /\ cmds' = Tail(cmds)

Spawned(c) ==
    [Unborn EXCEPT !.pc = "start", !.models = <<c.model>>, !.tried = {c.model},
                   !.queue = c.fallbacks, !.images = TRUE]

\* The default config is the one in force when the command is handled.
\* A duplicate id cancels the token of the submission it displaces.
HandleSubmit ==
    /\ Receive("submit")
    /\ LET r == Head(cmds).req
           i == IdOf[r]
           c == IF Head(cmds).config = None THEN config ELSE Head(cmds).config
       IN  /\ cancelled' = cancelled \cup ({active[i]} \ {None})
           /\ active' = [active EXCEPT ![i] = r]
           /\ \E images \in BOOLEAN :
                 task' = [task EXCEPT ![r] =
                             [Spawned(c) EXCEPT !.images = images]]
    /\ UNCHANGED <<clientVars, actor, config, event, completion>>

\* Mutant: a cancel forgets the entry and fires no token.
CancelWithoutToken ==
    /\ Receive("cancel")
    /\ active' = [active EXCEPT ![Head(cmds).id] = None]
    /\ UNCHANGED <<clientVars, actor, config, cancelled, task, event, completion>>

\* Mutant: a cancel for an id that is not in flight fires a token all the same.
CancelUnknown ==
    /\ Receive("cancel")
    /\ cancelled' = cancelled \cup {active[Head(cmds).id]}
    /\ active' = [active EXCEPT ![Head(cmds).id] = None]
    /\ UNCHANGED <<clientVars, actor, config, task, event, completion>>

HandleCancel ==
    /\ Receive("cancel")
    /\ LET i == Head(cmds).id
       IN  /\ cancelled' = cancelled \cup ({active[i]} \ {None})
           /\ active' = [active EXCEPT ![i] = None]
    /\ UNCHANGED <<clientVars, actor, config, task, event, completion>>

HandleConfig ==
    /\ Receive("config")
    /\ config' = Head(cmds).config
    /\ UNCHANGED <<clientVars, actor, active, cancelled, task, event, completion>>

\* recv() returns None: every token fires, then the JoinSet aborts the tasks.
Shutdown ==
    /\ actor = "running"
    /\ \A r \in Reqs : ~Joinable(r)
    /\ ~handles /\ cmds = <<>>
    /\ actor' = "stopping"
    /\ cancelled' = cancelled \cup ({active[i] : i \in Ids} \ {None})
    /\ active' = [i \in Ids |-> None]
    /\ UNCHANGED <<cmds, clientVars, config, task, event, completion>>

\* The abort drops the task's future, and its oneshot sender with it.
Abort(r) ==
    /\ actor = "stopping"
    /\ IsLive(r)
    /\ task' = [task EXCEPT ![r].pc = "aborted"]
    /\ completion' = [completion EXCEPT ![r] = "dropped"]
    /\ UNCHANGED <<cmds, clientVars, actorVars, event>>

-----------------------------------------------------------------------------
(* A request task: run_request_task *)

\* A task step that stays in the loop.
Continue(r, t) ==
    /\ task' = [task EXCEPT ![r] = t]
    /\ UNCHANGED <<cmds, clientVars, actorVars, event, completion>>

\* Mutant: the oneshot is forgotten.
FinishUnanswered(r, t, verdict) ==
    /\ task' = [task EXCEPT ![r] = [t EXCEPT !.pc = "sent"]]
    /\ event' = [event EXCEPT ![r] = Append(@, verdict)]
    /\ UNCHANGED <<cmds, clientVars, actorVars, completion>>

\* The terminal event and the oneshot, sent back to back.
Finish(r, t, verdict) ==
    /\ task' = [task EXCEPT ![r] = [t EXCEPT !.pc = "sent"]]
    /\ event' = [event EXCEPT ![r] = Append(@, verdict)]
    /\ completion' = [completion EXCEPT ![r] =
                         IF verdict = "completed" THEN "ok" ELSE "err"]
    /\ UNCHANGED <<cmds, clientVars, actorVars>>

CurrentModel(t) == t.models[Len(t.models)]

\* Mutant: an unbuildable client ends the task without a word.
BuildClientSilently(r) ==
    /\ task[r].pc = "start"
    /\ Continue(r, [task[r] EXCEPT !.pc =
                       IF CurrentModel(task[r]) \in BrokenModels THEN "sent"
                                                                 ELSE "top"])

\* SamplingClient::new on the primary config; a broken one is not failed over.
BuildClient(r) ==
    /\ task[r].pc = "start"
    /\ IF CurrentModel(task[r]) \in BrokenModels
       THEN Finish(r, task[r], "failed")
       ELSE Continue(r, [task[r] EXCEPT !.pc = "top"])

\* Mutant: the loop top does not look at the token.
LoopTopBlind(r) ==
    /\ task[r].pc = "top"
    /\ Continue(r, [task[r] EXCEPT !.pc = "limiter"])

\* Mutant: the cancelled branch does not leave the loop.
LoopTopNoReturn(r) ==
    /\ task[r].pc = "top"
    /\ task' = [task EXCEPT ![r].pc = "limiter"]
    /\ IF r \in cancelled
       THEN /\ event' = [event EXCEPT ![r] = Append(@, "cancelled")]
            /\ completion' = [completion EXCEPT ![r] = "err"]
       ELSE UNCHANGED <<event, completion>>
    /\ UNCHANGED <<cmds, clientVars, actorVars>>

LoopTop(r) ==
    /\ task[r].pc = "top"
    /\ IF r \in cancelled
       THEN Finish(r, task[r], "cancelled")
       ELSE Continue(r, [task[r] EXCEPT !.pc = "limiter"])

\* rate_limiter().acquire() returns and the API call goes out.  The token is
\* not looked at in between.
Acquire(r) ==
    /\ task[r].pc = "limiter"
    /\ Continue(r, [task[r] EXCEPT !.pc = "connect", !.calls = @ + 1,
                       !.grace = IF r \in cancelled THEN @ + 1 ELSE @])

StreamOpens(r) ==
    /\ task[r].pc = "connect"
    /\ Continue(r, [task[r] EXCEPT !.pc = "stream"])

-----------------------------------------------------------------------------
(* A failed attempt: the doom budget, or apply_retry_decision *)

\* Mutant: no cycle guard.
UsableAgain(t, n) == t.queue[n] \notin BrokenModels

\* Entry n of the queue is the one failover picks: the first that was not tried
\* and whose client can be built.
Usable(t, n) == t.queue[n] \notin t.tried \cup BrokenModels
IsNextFallback(t, n) ==
    /\ n \in 1 .. Len(t.queue)
    /\ Usable(t, n)
    /\ \A m \in 1 .. (n - 1) : ~Usable(t, m)
NoFallback(t) == \A n \in 1 .. Len(t.queue) : ~Usable(t, n)

\* try_model_failover(): everything up to the chosen entry leaves the queue,
\* and the retry budget starts afresh.
SwitchModel(t, n) ==
    [t EXCEPT !.models = Append(@, t.queue[n]),
              !.tried  = @ \cup {t.queue[m] : m \in 1 .. n},
              !.queue  = SubSeq(@, n + 1, Len(@)),
              !.retry  = 0,
              !.strips = 0,
              !.pc     = "top"]

Resampled(t) == [t EXCEPT !.doom = @ + 1, !.pc = "backoff"]
Retried(t)   == [t EXCEPT !.retry = @ + 1, !.pc = "backoff"]
Stripped(t)  == [t EXCEPT !.retry = @ + 1, !.strips = @ + 1, !.images = FALSE,
                          !.pc = "top"]

\* What the failure leaves in the task before it is acted on: a body reset
\* strips the images whatever the decision.
Hit(t, e) ==
    [t EXCEPT !.err = e,
              !.images = IF e = "body_reset" THEN FALSE ELSE @]

AttemptFails(r, e) ==
    LET t == Hit(task[r], e)
        decision == Classify(e, t.retry, RetryCap(e, t.queue # <<>>))
    IN  \/ /\ e = "doom"
           /\ Continue(r, Resampled(t))
        \/ /\ e # "doom" /\ decision = "retry"
           /\ Continue(r, Retried(t))
        \/ /\ decision = "strip" /\ t.images
           /\ Continue(r, Stripped(t))
        \/ /\ decision = "strip" /\ ~t.images
           /\ Finish(r, t, "failed")
        \/ /\ decision = "emit"
           /\ Finish(r, t, "failed")
        \/ /\ decision = "fatal"
           /\ IsFailoverError(e)
           /\ \E n \in 1 .. Len(t.queue) :
                 IsNextFallback(t, n) /\ Continue(r, SwitchModel(t, n))
        \/ /\ decision = "fatal"
           /\ ~IsFailoverError(e) \/ NoFallback(t)
           /\ Finish(r, t, "failed")

\* The raw stream could not be built: any error but a doom loop.
InitFails(r) ==
    /\ task[r].pc = "connect"
    /\ \E e \in Errors \ {"doom"} : AttemptFails(r, e)

\* drive_l2() is a biased select: a fired token wins over a ready item.
StreamCancelled(r) ==
    /\ task[r].pc = "stream"
    /\ r \in cancelled
    /\ Finish(r, task[r], "cancelled")

\* The doom check is armed while resample budget is left.
Armed(t) == t.doom < DoomMaxRetries

\* The stream fails, or completes with a response that drive_l2() rejects
\* ("client" stands for a truncated one).
StreamFails(r) ==
    /\ task[r].pc = "stream"
    /\ r \notin cancelled
    /\ \E e \in Errors : /\ e = "doom" => Armed(task[r])
                         /\ AttemptFails(r, e)

StreamCompletes(r) ==
    /\ task[r].pc = "stream"
    /\ r \notin cancelled
    /\ Finish(r, task[r], "completed")

BackoffEnds(r) ==
    /\ task[r].pc = "backoff"
    /\ Continue(r, [task[r] EXCEPT !.pc = "top"])

\* The async fn returns; only now can the actor join it.
Return(r) ==
    /\ task[r].pc = "sent"
    /\ Continue(r, [task[r] EXCEPT !.pc = "done"])

Panic(r) ==
    /\ IsLive(r)
    /\ Cardinality({q \in Reqs : task[q].pc \in {"panicked", "buried"}}) < MaxPanics
    /\ task' = [task EXCEPT ![r].pc = "panicked"]
    /\ completion' = [completion EXCEPT ![r] = "dropped"]
    /\ UNCHANGED <<cmds, clientVars, actorVars, event>>

-----------------------------------------------------------------------------
CallerStep ==
    \/ \E r \in Reqs : Submit(r) \/ CollectorDrop(r)
    \/ \E i \in Ids : Cancel(i)
    \/ \E c \in Configs : UpdateConfig(c)
    \/ DropHandles

ActorStep ==
    \/ \E r \in Reqs : Join(r) \/ Abort(r)
    \/ HandleSubmit \/ HandleCancel \/ HandleConfig \/ Shutdown

TaskStep(r) ==
    \/ BuildClient(r) \/ LoopTop(r) \/ Acquire(r) \/ StreamOpens(r)
    \/ InitFails(r) \/ StreamCancelled(r) \/ StreamFails(r)
    \/ StreamCompletes(r) \/ BackoffEnds(r) \/ Return(r)

Next == CallerStep \/ ActorStep \/ \E r \in Reqs : TaskStep(r) \/ Panic(r)

Spec == Init /\ [][Next]_vars

-----------------------------------------------------------------------------
(* Safety *)

\* Type correctness of the actor's tables, the channel and the tasks.
TypeOK ==
    /\ cmds \in Seq(Commands)
    /\ handles \in BOOLEAN
    /\ caller \in [Reqs -> {"idle", "sent", "gone"}]
    /\ cancels \in Nat
    /\ actor \in {"running", "stopping"}
    /\ config \in Configs
    /\ active \in [Ids -> Reqs \cup {None}]
    /\ cancelled \in SUBSET Reqs
    /\ task \in [Reqs -> Tasks]
    /\ event \in [Reqs -> Seq({"completed", "failed", "cancelled"})]
    /\ completion \in [Reqs -> {"none", "ok", "err", "dropped"}]

\* A request emits at most one terminal event, it has emitted one when its task
\* is joined, and the oneshot of submit_and_collect() tells the same story as
\* the event channel: "ok" with Completed, an error with Failed, and it is
\* dropped unanswered only with a task that panicked or was aborted.
OneVerdict ==
    \A r \in Reqs :
        LET pc == task[r].pc
        IN  /\ Len(event[r]) = IF pc \in {"sent", "done", "joined"} THEN 1 ELSE 0
            /\ (completion[r] = "ok") <=> (event[r] = <<"completed">>)
            /\ (completion[r] = "err") <=> (event[r] \in {<<"failed">>, <<"cancelled">>})
            /\ (completion[r] = "dropped") <=> (pc \in {"panicked", "buried", "aborted"})

\* submit_and_collect() holds a handle while it waits, so its request is never
\* aborted by the actor's shutdown while somebody waits for it.
CollectorAnswered ==
    \A r \in Collectors : caller[r] = "sent" => task[r].pc # "aborted"

\* Failover never returns to a model: not to the primary, not to a duplicate in
\* the list, however the list is written (try_model_failover's cycle guard).
ModelsTriedOnce ==
    \A r \in Reqs : LET ms == task[r].models
                    IN  \A i, j \in DOMAIN ms : i # j => ms[i] # ms[j]

\* The API calls of one request are bounded: a full retry budget on every model
\* it was switched to, the doom-loop resamples, and one image strip (which can
\* happen when the retry budget is already spent).
CallBudget ==
    \A r \in Reqs : task[r].calls <= Len(task[r].models) * PerModel
                                        + DoomMaxRetries + 1

\* Once its token has fired, a request makes at most one more API call: the one
\* it was already queued for at the rate limiter.
OneCallAfterCancel == \A r \in Reqs : task[r].grace <= 1

\* handle.rs: is_active() tells the truth: every request that still runs uncancelled
\* is registered, so that it can be cancelled.
RunningIsTracked ==
    \A r \in Reqs : IsLive(r) /\ r \notin cancelled => active[IdOf[r]] = r

\* Credential, 4xx and content-shaped failures are never paid for with another
\* API call, on this model or on another.
Deterministic == {"auth", "encrypted", "stop_4xx", "context_4xx", "client"}
DeterministicEndsRequest ==
    [][\A r \in Reqs : task[r].err \in Deterministic
                          => task'[r].calls = task[r].calls]_vars

-----------------------------------------------------------------------------
(* Liveness.  The runtime schedules the actor and every task; a call or a  *)
(* stream ends because connects and idle streams time out.                 *)
Fairness == /\ WF_vars(ActorStep)
            /\ \A r \in Reqs : WF_vars(TaskStep(r))

FairSpec == Spec /\ Fairness

\* Every submission is eventually answered, or dies with its task.
EveryRequestEnds ==
    \A r \in Reqs : caller[r] # "idle" ~> completion[r] # "none"

\* ... and the actor eventually forgets every id whose tasks did not panic.
ActorForgets ==
    \A i \in Ids : (active[i] # None) ~>
        \/ active[i] = None
        \/ task[active[i]].pc = "buried"

-----------------------------------------------------------------------------
(* Refinement *)

\* A submission is lost with its task, answered by its terminal event.
Phase(r) == CASE event[r] # <<>> -> "answered"
              [] task[r].pc \in {"panicked", "buried", "aborted"} -> "lost"
              [] event[r] = <<>> /\ caller[r] = "idle" -> "unsent"
              [] OTHER -> "pending"

phaseBar  == [r \in Reqs |-> Phase(r)]
answerBar == [r \in Reqs |-> IF event[r] = <<>> THEN "none" ELSE Head(event[r])]

Promise == INSTANCE SamplerPromise WITH phase <- phaseBar, answer <- answerBar

\* The actor and its tasks implement the promise, also with panics, shutdown,
\* late cancels and reused ids.
ImplementsPromise == Promise!Spec

=============================================================================
