------------------------------ MODULE ChatState ------------------------------
(***************************************************************************)
(* The chat state actor of one session: the conversation, the turn capture  *)
(* and the FIFO to the persistence actor that keeps chat_history.jsonl.     *)
(* Its clients are the session's turn loop, a rewind, the out-of-band       *)
(* repair, a reconnect, and the uploader that takes a finished turn.        *)
(* Each actor command is one action; the awaits of a client separate them.  *)
(* The model starts with the process down, on a history some earlier        *)
(* version may have left, and the process may crash at any point.           *)
(***************************************************************************)
EXTENDS Integers, Sequences, FiniteSets, SequencesExt

CONSTANTS
    CallIds,       \* ids of tool calls; providers reuse them between responses
    None,          \* no capture, no rewind, no call
    OldHistories,  \* what chat_history.jsonl may hold at the first start
    HardClearAge,  \* PruningConfig.hard_clear_age_turns
    TracedPrompts, \* the prompts, by number, that upload a trace
    MaxPrompts,    \* bound: prompts started
    MaxEvents,     \* bound: events outside the plain turn loop
    CallSets,      \* bound: sets of calls one response may make
    MaxRounds,     \* bound: rounds of tool calls since the last real prompt
    QueueBound     \* bound: messages waiting for the persistence actor when a handler adds to them

ASSUME Bounds == /\ {HardClearAge, MaxPrompts, MaxEvents, MaxRounds, QueueBound} \subseteq Nat
                 /\ TracedPrompts \subseteq 1..MaxPrompts
                 /\ CallSets \subseteq SUBSET CallIds
                 /\ IsFiniteSet(CallIds) /\ None \notin CallIds

VARIABLES
    conversation, \* ChatState.conversation
    promptIndex,  \* ChatState.prompt_index
    compacted,    \* ChatState.last_compaction_prompt_index is set
    capture,      \* ChatState.turn_capture
    queue,        \* messages sent to the persistence actor, not handled yet
    disk,         \* chat_history.jsonl
    turn,         \* the running turn of the session, and its unanswered calls
    late,         \* a tool result sent by a turn that was then cancelled
    owed,         \* finished prompts whose capture the uploader has yet to take
    rewind,       \* what a rewind in progress holds
    compaction,   \* what a compaction in progress holds
    up,           \* the process is alive
    prompts,      \* prompts started so far
    events,       \* events outside the plain turn loop so far
    pushed,       \* history: items pushed since the capture began
    captureOf,    \* history: the prompt the live capture was begun for
    tailLost,     \* history: a repair took the conversation from under a live capture
    diverged,     \* history: disk and queue no longer lead to the conversation
    damaged,      \* history: the conversation may hold results astray
    diskDamaged   \* history: so may the file

chatVars   == <<conversation, promptIndex, compacted, capture>>
storeVars  == <<queue, disk>>
clientVars == <<turn, late, owed, rewind, compaction, up, prompts>>
damageVars == <<damaged, diskDamaged>>
ghostVars  == <<pushed, captureOf, tailLost, diverged, damageVars>>
vars       == <<chatVars, storeVars, clientVars, events, ghostVars>>

-----------------------------------------------------------------------------
(* Conversation items. *)

\* The calls of one response have ids of their own; only a prompt carries a marker.
Item == {item \in [kind : {"system", "user", "reminder", "assistant", "result"},
                   calls : {calls \in Seq(CallIds) : IsInjective(calls)},
                   call : CallIds \cup {None},
                   prompt : 0..MaxPrompts \cup {None},
                   text : {"plain", "other", "memory", "synthetic", "cleared"}] :
           /\ item.calls # <<>> => item.kind = "assistant"
           /\ item.call # None <=> item.kind = "result"
           /\ item.prompt # None => item.kind = "user"}

Bare(kind) == [kind |-> kind, calls |-> <<>>, call |-> None, prompt |-> None, text |-> "plain"]

System(text)     == [Bare("system") EXCEPT !.text = text]
\* A real prompt, with its prompt_index marker.
User(prompt)     == [Bare("user") EXCEPT !.prompt = prompt]
\* A synthetic User item: a reminder, a follow-up, a compaction summary.
Reminder         == Bare("reminder")
Assistant(calls) == [Bare("assistant") EXCEPT !.calls = calls]
Result(c, text)  == [Bare("result") EXCEPT !.call = c, !.text = text]

IsResult(item) == item.kind = "result"
IsUser(item)   == item.kind \in {"user", "reminder"}
HasCalls(item) == item.calls # <<>>

Log == INSTANCE TurnLog WITH Items <- Item, NoCapture <- None

-----------------------------------------------------------------------------
(* Repairing a conversation. *)

\* items[k] belongs to the unbroken run of results right after items[i].
InRun(items, i, k) == i < k /\ \A m \in i+1..k : IsResult(items[m])

RunCalls(items, i) == {items[k].call : k \in {m \in i+1..Len(items) : InRun(items, i, m)}}

\* The items at other places than the dropped ones.
Without(items, dropped) ==
    FlattenSeq([k \in DOMAIN items |-> IF k \in dropped THEN <<>> ELSE <<items[k]>>])

SupersededNever(items, k) == FALSE

\* A later result of the same run answers the same call.
Superseded(items, k) ==
    /\ IsResult(items[k])
    /\ \E i \in 1..k-1 : /\ HasCalls(items[i])
                         /\ InRun(items, i, k)
                         /\ \E l \in k+1..Len(items) : /\ InRun(items, i, l)
                                                       /\ items[l].call = items[k].call

DedupDuplicateToolResults(items) == Without(items, {k \in DOMAIN items : Superseded(items, k)})

\* The calls of items[i] that its run leaves unanswered, in call order.
Missing(items, i) ==
    LET calls == items[i].calls
    IN  Without(calls, {n \in DOMAIN calls : calls[n] \in RunCalls(items, i)})

\* The message whose run of results items[k] closes.
Owners(items, k) ==
    {i \in 1..k : /\ HasCalls(items[i])
                  /\ i = k \/ InRun(items, i, k)
                  /\ k < Len(items) => ~IsResult(items[k + 1])}

\* Synthetic results for the unanswered calls of the run that items[k] closes.
Synthetic(items, k) ==
    IF Owners(items, k) = {} THEN <<>>
    ELSE LET calls == Missing(items, CHOOSE i \in Owners(items, k) : TRUE)
         IN  [n \in DOMAIN calls |-> Result(calls[n], "synthetic")]

\* A repair that deletes what it cannot complete, and forgets the answers already there.
DropsUnanswered(items) ==
    Without(items, {k \in DOMAIN items : ~(ToSet(items[k].calls) \subseteq RunCalls(items, k))})

RepairDanglingToolCalls(items) ==
    FlattenSeq([k \in DOMAIN items |-> <<items[k]>> \o Synthetic(items, k)])

\* The rule of a lenient sanitizer: the owner may be anywhere before.
DisplacedFromHistory(items, k) ==
    IsResult(items[k]) /\ ~\E i \in 1..k-1 : items[k].call \in ToSet(items[i].calls)

\* Not in the run right behind the assistant that declares its call.
Displaced(items, k) ==
    /\ IsResult(items[k])
    /\ ~\E i \in 1..k-1 : /\ items[k].call \in ToSet(items[i].calls)
                          /\ InRun(items, i, k)

StripDisplacedToolResults(items) == Without(items, {k \in DOMAIN items : Displaced(items, k)})

\* What every write boundary establishes.
Integrity(items) == RepairDanglingToolCalls(DedupDuplicateToolResults(items))

\* What the out-of-band repair establishes.
Repaired(items) ==
    RepairDanglingToolCalls(StripDisplacedToolResults(DedupDuplicateToolResults(items)))

-----------------------------------------------------------------------------
(* Retained-conversation pruning. *)

Users(items, from) == Cardinality({k \in from..Len(items) : IsUser(items[k])})

RealPrompts(items, from) == Cardinality({k \in from..Len(items) : items[k].kind = "user"})

\* A stored history is made of items, with no more prompts than the session may have; nothing
\* that is there is mistaken for what is not.
ASSUME Histories == /\ \A h \in OldHistories : h \in Seq(Item) /\ RealPrompts(h, 1) <= MaxPrompts
                    /\ None \notin [offset : Nat, saved : Seq(Item)]

NaiveThreshold(items) == HardClearAge

\* Synthetic User items raise the age at which a result is cleared.
EffectiveThreshold(items) ==
    HardClearAge + (IF Users(items, 1) > promptIndex THEN Users(items, 1) - promptIndex ELSE 0)

Pruned(items) ==
    LET turnFromEnd(k) == IF Users(items, k) = 0 THEN 0 ELSE Users(items, k) - 1
        old(k) == IsResult(items[k]) /\ turnFromEnd(k) >= EffectiveThreshold(items)
    IN  IF promptIndex < HardClearAge THEN items
        ELSE [k \in DOMAIN items |-> IF old(k) THEN [items[k] EXCEPT !.text = "cleared"] ELSE items[k]]

-----------------------------------------------------------------------------
(* Other pure helpers of the actor and its clients. *)

\* replace_or_insert_system_head
WithHead(items, text) ==
    IF items # <<>> /\ items[1].kind = "system" THEN [items EXCEPT ![1].text = text]
    ELSE <<System(text)>> \o items

\* conversation_truncate_for_prompt: cut at the first marked row of prompt `target` or later.
\* Its legacy and mixed counting number the unmarked rows too, but for the first (the preamble)
\* and for synthetic ones that open no turn: here Compacted leaves at most that first one, and
\* reminders open no turn, so the three agree.
TruncateForPrompt(items, target) ==
    LET cuts == {k \in DOMAIN items : items[k].prompt # None /\ items[k].prompt >= target}
    IN  IF cuts = {} THEN items ELSE SubSeq(items, 1, Min(cuts) - 1)

\* build_compacted_history: the head, the user prefix, the last real prompt wrapped anew
\* (without its marker) and the summary. for_compaction drops the recent messages.
Compacted(head, items) ==
    <<head, Reminder>>
    \o (IF \E k \in DOMAIN items : items[k].kind = "user" THEN <<Bare("user")>> ELSE <<>>)
    \o <<Reminder>>

-----------------------------------------------------------------------------
(* Steps the handlers are composed of. *)

RecapturedOnly(items, newItems) ==
    IF capture = None THEN None ELSE [capture EXCEPT !.offset = Len(newItems)]

RecapturedStale(items, newItems) ==
    IF capture = None THEN None
    ELSE [capture EXCEPT !.saved = @ \o Log!TurnTail(items, capture.offset)]

\* snapshot_turn_slice before the conversation changes, rebase_turn_capture_offset after.
Recaptured(items, newItems) ==
    IF capture = None THEN None
    ELSE [offset |-> Len(newItems), saved |-> capture.saved \o Log!TurnTail(items, capture.offset)]

AppendMsg(item)   == [op |-> "append", items |-> <<item>>]
ReplaceMsg(items) == [op |-> "replace", items |-> items]

ChangesForgotten(before, after) == <<>>

\* replace_history is sent only when a pass changed something.
Changes(before, after) == IF before = after THEN <<>> ELSE <<ReplaceMsg(after)>>

Replaces(msgs) == \E n \in DOMAIN msgs : msgs[n].op = "replace"

Persist(msgs) ==
    /\ queue' = queue \o msgs
    /\ Len(queue) <= QueueBound
    /\ diverged' = (diverged /\ ~Replaces(msgs))
    /\ UNCHANGED disk

\* push_message
PushMessage(item) ==
    /\ conversation' = Append(conversation, item)
    /\ pushed' = IF capture = None THEN <<>> ELSE Append(pushed, item)
    /\ Persist(<<AppendMsg(item)>>)
    /\ UNCHANGED <<promptIndex, compacted, capture, captureOf, tailLost, damageVars>>

\* push_user_message: repair, push, prune.
PushUserMessage(item) ==
    LET fixed  == Integrity(conversation)
        grown  == Append(fixed, item)
        pruned == Pruned(grown)
    IN  /\ conversation' = pruned
        /\ capture' = Recaptured(conversation, fixed)
        /\ pushed' = IF capture = None THEN <<>> ELSE Append(pushed, item)
        /\ Persist(Changes(conversation, fixed) \o <<AppendMsg(item)>> \o Changes(grown, pruned))
        /\ UNCHANGED <<promptIndex, compacted, captureOf, tailLost, damageVars>>

\* replace_conversation
ReplaceConversation(items) ==
    /\ conversation' = items
    /\ capture' = Recaptured(conversation, items)
    /\ Persist(<<ReplaceMsg(items)>>)
    /\ UNCHANGED <<promptIndex, pushed, captureOf, tailLost>>

Event == /\ events < MaxEvents
         /\ events' = events + 1

Active == turn.phase # "idle"
Idle   == [phase |-> "idle", prompt |-> 0, pristine |-> FALSE, pending |-> {}]
Goto(phase) == turn' = [turn EXCEPT !.phase = phase]

-----------------------------------------------------------------------------
(* The turn loop of the session. *)

\* The session's loop stays inside a cancel until the withdrawn prompt is cut out.
Withdrawing == rewind # None /\ rewind.step = "snapshot" /\ rewind.withdrawn

\* maybe_start_running_task promotes the next prompt and opens its rewind window.
StartPrompt ==
    /\ up /\ ~Active /\ late = <<>> /\ ~Withdrawing
    /\ prompts < MaxPrompts
    /\ prompts' = prompts + 1
    /\ turn' = [Idle EXCEPT !.phase = "started", !.pristine = TRUE]
    /\ UNCHANGED <<chatVars, storeVars, late, owed, rewind, compaction, up, events, ghostVars>>

\* Several awaits later handle_prompt takes its index.
IncrementPromptIndex ==
    /\ turn.phase = "started"
    /\ promptIndex' = promptIndex + 1
    /\ turn' = [turn EXCEPT !.phase = "indexed", !.prompt = promptIndex]
    /\ UNCHANGED <<conversation, compacted, capture, storeVars, late, owed, rewind, compaction, up, prompts,
                   events, ghostVars>>

\* Sent only for prompts that upload a trace.
BeginTurnCapture ==
    /\ turn.phase = "indexed" /\ prompts \in TracedPrompts
    /\ Goto("captured")
    /\ capture' = [offset |-> Len(conversation), saved |-> <<>>]
    /\ pushed' = <<>>
    /\ captureOf' = prompts
    /\ tailLost' = FALSE
    /\ UNCHANGED <<conversation, promptIndex, compacted, storeVars, late, owed, rewind, compaction, up, prompts,
                   events, diverged, damageVars>>

PushPrompt ==
    /\ turn.phase = (IF prompts \in TracedPrompts THEN "captured" ELSE "indexed")
    /\ PushUserMessage(User(turn.prompt))
    /\ Goto("ready")
    /\ UNCHANGED <<late, owed, rewind, compaction, up, prompts, events>>

\* The interrupt reminder, notifications and follow-ups the session pushes between rounds.
PushReminder ==
    /\ up /\ Event /\ late = <<>>
    /\ turn.phase \in {"idle", "started", "indexed", "captured", "ready"}
    /\ PushUserMessage(Reminder)
    /\ UNCHANGED clientVars

\* Compaction: the turn's own between two rounds, one the client asked for at any point.
\* It takes the system head and samples a summary.
CompactRead ==
    /\ up /\ compaction = None /\ Event
    /\ conversation[1].kind = "system"
    /\ compaction' = [step |-> "sampling", items |-> <<conversation[1]>>]
    /\ UNCHANGED <<chatVars, storeVars, turn, late, owed, rewind, up, prompts, ghostVars>>

\* The sampling fails, or the turn that ran it is cancelled.
CompactAbandoned ==
    /\ compaction # None
    /\ compaction' = None
    /\ UNCHANGED <<chatVars, storeVars, turn, late, owed, rewind, up, prompts, events, ghostVars>>

\* The state context is read anew once the summary is there.
CompactContext ==
    /\ compaction # None /\ compaction.step = "sampling"
    /\ compaction' = [step |-> "built", items |-> Compacted(compaction.items[1], conversation)]
    /\ UNCHANGED <<chatVars, storeVars, turn, late, owed, rewind, up, prompts, events, ghostVars>>

\* The whole conversation gives way, with what came in since the reads: the results of
\* calls still running come back to nothing.
CompactReplace ==
    /\ compaction # None /\ compaction.step = "built"
    /\ ReplaceConversation(compaction.items)
    /\ compaction' = None
    /\ compacted' = TRUE
    /\ damaged' = (turn.pending # {} \/ late # <<>>)
    /\ diskDamaged' = (diskDamaged \/ damaged')
    /\ turn' = [turn EXCEPT !.pristine = FALSE]
    /\ UNCHANGED <<late, owed, rewind, up, prompts, events>>

\* BuildConversationRequest; the request carries the conversation as this leaves it.
BuildConversationRequest ==
    /\ turn.phase = "ready"
    /\ Goto("sampling")
    /\ LET fixed == Integrity(conversation)
       IN  \/ /\ conversation' = fixed
              /\ Persist(Changes(conversation, fixed))
              /\ UNCHANGED events
           \/ \* a memory reminder persisted in the system message
              /\ Event
              /\ conversation' = WithHead(fixed, "memory")
              /\ Persist(Changes(conversation, fixed) \o Changes(fixed, conversation'))
    /\ capture' = Recaptured(conversation, conversation')
    /\ UNCHANGED <<promptIndex, compacted, late, owed, rewind, compaction, up, prompts,
                   pushed, captureOf, tailLost, damageVars>>

Rounds == LET last == Max({0} \cup {k \in DOMAIN conversation : conversation[k].kind = "user"})
          IN  Cardinality({k \in last+1..Len(conversation) : HasCalls(conversation[k])})

\* The model answers, with or without tool calls.
PushAssistantResponse(calls) ==
    /\ turn.phase = "sampling"
    /\ calls # {} => Rounds < MaxRounds
    /\ PushMessage(Assistant(SetToSeq(calls)))
    /\ turn' = [turn EXCEPT !.phase = IF calls = {} THEN "answered" ELSE "tools",
                            !.pending = calls, !.pristine = FALSE]
    /\ UNCHANGED <<late, owed, rewind, compaction, up, prompts, events>>

PushToolResult(c) ==
    /\ turn.phase = "tools"
    /\ c \in turn.pending
    /\ PushMessage(Result(c, "plain"))
    /\ turn' = [turn EXCEPT !.pending = @ \ {c},
                            !.phase = IF turn.pending = {c} THEN "ready" ELSE "tools"]
    /\ UNCHANGED <<late, owed, rewind, compaction, up, prompts, events>>

\* The turn's guards drop; the prompt is answered, and its capture will be taken.
TurnOver == /\ turn' = Idle
            /\ owed' = owed \cup {prompts}
            /\ UNCHANGED <<chatVars, storeVars, up, prompts, ghostVars>>

EndTurn ==
    /\ turn.phase = "answered"
    /\ TurnOver
    /\ UNCHANGED <<late, rewind, compaction, events>>

\* A cancel drops the turn at any await; a result it already sent is still in the mailbox.
CancelTurn ==
    /\ Active /\ Event
    /\ TurnOver
    /\ UNCHANGED <<rewind, compaction>>
    /\ \/ UNCHANGED late
       \/ \E c \in turn.pending : late' = <<Result(c, "plain")>>

\* A cancel inside the rewind window (rewind_if_pristine) takes the prompt back: it aborts
\* the turn, reads a snapshot and cuts it at the index before the current one.
Withdraw ==
    /\ turn.pristine /\ rewind = None /\ Event
    /\ TurnOver
    /\ LET target == IF promptIndex = 0 THEN 0 ELSE promptIndex - 1
       IN  rewind' = [step |-> "snapshot", items |-> TruncateForPrompt(conversation, target),
                      target |-> target, compacted |-> compacted, astray |-> damaged,
                      withdrawn |-> TRUE]
    /\ UNCHANGED <<late, compaction>>

DeliverLateResult ==
    /\ late # <<>>
    /\ PushMessage(late[1])
    /\ late' = <<>>
    /\ UNCHANGED <<turn, owed, rewind, compaction, up, prompts, events>>

-----------------------------------------------------------------------------
(* Other clients of the actor, at any point of the turn loop. *)

\* The uploader of a finished prompt takes whatever capture is live by then.
TakeTurnMessages(prompt) ==
    /\ prompt \in owed /\ ~Withdrawing
    /\ owed' = owed \ {prompt}
    /\ capture' = None
    /\ pushed' = <<>>
    /\ captureOf' = 0
    /\ tailLost' = FALSE
    /\ UNCHANGED <<conversation, promptIndex, compacted, storeVars, turn, late, rewind, compaction, up, prompts,
                   events, diverged, damageVars>>

\* Refused while a turn is in flight; a request made after the turn is behind its late
\* result in the mailbox. The conversation is taken out (mem::take) before
\* replace_conversation snapshots the tail.
RepairHistory ==
    /\ up /\ ~Active /\ late = <<>> /\ Event
    /\ LET fixed == Repaired(conversation)
       IN  IF fixed = conversation
           THEN UNCHANGED <<chatVars, storeVars, pushed, captureOf, tailLost, diverged>>
           ELSE /\ conversation' = fixed
                /\ capture' = RecapturedOnly(<<>>, fixed)
                /\ tailLost' = (tailLost \/ Recaptured(conversation, fixed) # capture')
                /\ Persist(<<ReplaceMsg(fixed)>>)
                /\ UNCHANGED <<promptIndex, compacted, pushed, captureOf>>
    /\ damaged' = FALSE
    /\ UNCHANGED <<clientVars, diskDamaged>>

\* A reconnect aligns the system prompt.
ReplaceSystemHead(text) ==
    /\ up /\ Event
    /\ WithHead(conversation, text) # conversation
    /\ ReplaceConversation(WithHead(conversation, text))
    /\ UNCHANGED <<compacted, clientVars, damageVars>>

\* A rewind that cuts under a turn, or puts back what a repair had removed.
RewindDamages == Active \/ late # <<>> \/ rewind.astray

\* handle_rewind reads the conversation, writes it back cut, and reads a snapshot.
RewindRead ==
    /\ up /\ rewind = None /\ ~compacted /\ Event
    /\ rewind' = [step |-> "read", items |-> conversation, astray |-> damaged]
    /\ UNCHANGED <<chatVars, storeVars, turn, late, owed, compaction, up, prompts, ghostVars>>

RewindWrite(target) ==
    /\ rewind # None /\ rewind.step = "read"
    /\ ReplaceConversation(TruncateForPrompt(rewind.items, target))
    /\ damaged' = (damaged \/ RewindDamages)
    /\ diskDamaged' = (diskDamaged \/ RewindDamages)
    /\ rewind' = [step |-> "snapshot", items |-> conversation', target |-> target,
                  compacted |-> compacted, astray |-> damaged', withdrawn |-> FALSE]
    /\ UNCHANGED <<compacted, turn, late, owed, compaction, up, prompts, events>>

\* restore_snapshot persists nothing.
RestoreSnapshot ==
    /\ rewind # None /\ rewind.step = "snapshot"
    /\ conversation' = rewind.items
    /\ capture' = Recaptured(conversation, rewind.items)
    /\ promptIndex' = rewind.target
    /\ compacted' = rewind.compacted
    /\ rewind' = None
    /\ diverged' = (diverged \/ conversation # rewind.items)
    /\ damaged' = (damaged \/ RewindDamages)
    /\ diskDamaged' = (diskDamaged \/ RewindDamages \/ conversation # rewind.items)
    /\ UNCHANGED <<storeVars, turn, late, owed, compaction, up, prompts, events,
                   pushed, captureOf, tailLost>>

-----------------------------------------------------------------------------
(* The persistence actor, crashes and restarts. *)

\* An append ends the file; a replace swaps it whole by a rename.
Applied(file, msg) == IF msg.op = "append" THEN file \o msg.items ELSE msg.items

Replayed(file, msgs) ==
    LET after[n \in 0..Len(msgs)] == IF n = 0 THEN file ELSE Applied(after[n - 1], msgs[n])
    IN  after[Len(msgs)]

PersistMsg ==
    /\ queue # <<>>
    /\ disk' = Applied(disk, Head(queue))
    /\ queue' = Tail(queue)
    /\ diskDamaged' = (diskDamaged /\ (diverged \/ damaged \/ Replaces(queue') \/ ~Replaces(queue)))
    /\ UNCHANGED <<chatVars, clientVars, events, pushed, captureOf, tailLost, diverged, damaged>>

\* A failed write is logged and skipped; a torn line is skipped by the next reader.
PersistFails ==
    /\ queue # <<>> /\ Event
    /\ queue' = Tail(queue)
    /\ diverged' = (diverged \/ ~Replaces(Tail(queue)))
    /\ diskDamaged' = TRUE
    /\ UNCHANGED <<chatVars, disk, clientVars, pushed, captureOf, tailLost, damaged>>

\* The process dies with everything in it; the history file stays.
Crash ==
    /\ up /\ Event
    /\ up' = FALSE
    /\ conversation' = <<>>
    /\ capture' = None /\ pushed' = <<>> /\ captureOf' = 0 /\ tailLost' = FALSE
    /\ queue' = <<>>
    /\ turn' = Idle /\ late' = <<>> /\ owed' = {} /\ rewind' = None /\ compaction' = None
    /\ damaged' = FALSE /\ diverged' = FALSE
    /\ UNCHANGED <<promptIndex, compacted, disk, prompts, diskDamaged>>

\* The repair of a session that is not running rewrites its file.
RepairOnDisk ==
    /\ ~up
    /\ Repaired(disk) # disk
    /\ Event
    /\ disk' = Repaired(disk)
    /\ diskDamaged' = FALSE
    /\ UNCHANGED <<chatVars, queue, clientVars, pushed, captureOf, tailLost, diverged, damaged>>

\* The prompt count comes back from another file, which may be ahead of the history.
RestoredPromptIndex == RealPrompts(disk, 1)..prompts

\* The history is written and sent to the actor as loaded, over the one
\* ChatState::new repaired.
Restart ==
    /\ ~up
    /\ up' = TRUE
    /\ conversation' = WithHead(disk, "plain")
    /\ promptIndex' \in RestoredPromptIndex
    /\ disk' = conversation'
    /\ queue' = <<ReplaceMsg(conversation')>>
    /\ damaged' = diskDamaged
    /\ UNCHANGED <<compacted, capture, turn, late, owed, rewind, compaction, prompts, events,
                   pushed, captureOf, tailLost, diverged, diskDamaged>>

Init ==
    /\ disk \in OldHistories
    /\ conversation = <<>>
    /\ promptIndex = RealPrompts(disk, 1)
    /\ compacted = FALSE
    /\ capture = None
    /\ queue = <<>>
    /\ turn = Idle /\ late = <<>> /\ owed = {} /\ rewind = None /\ compaction = None
    /\ up = FALSE
    /\ prompts = promptIndex
    /\ events = 0
    /\ pushed = <<>> /\ captureOf = 0 /\ tailLost = FALSE /\ diverged = FALSE
    /\ damaged = FALSE /\ diskDamaged = (StripDisplacedToolResults(disk) # disk)

Next ==
    \/ StartPrompt \/ IncrementPromptIndex \/ BeginTurnCapture \/ PushPrompt \/ PushReminder
    \/ CompactRead \/ CompactAbandoned \/ CompactContext \/ CompactReplace
    \/ BuildConversationRequest
    \/ \E calls \in CallSets : PushAssistantResponse(calls)
    \/ \E c \in CallIds : PushToolResult(c)
    \/ EndTurn \/ CancelTurn \/ Withdraw \/ DeliverLateResult
    \/ \E prompt \in owed : TakeTurnMessages(prompt)
    \/ RepairHistory
    \/ \E text \in {"plain", "other"} : ReplaceSystemHead(text)
    \/ RewindRead \/ (\E target \in 0..promptIndex - 1 : RewindWrite(target)) \/ RestoreSnapshot
    \/ PersistMsg \/ PersistFails
    \/ Crash \/ RepairOnDisk \/ Restart

Spec == Init /\ [][Next]_vars

-----------------------------------------------------------------------------
(* Properties. *)

TypeOK ==
    /\ conversation \in Seq(Item) /\ disk \in Seq(Item) /\ late \in Seq(Item)
    /\ promptIndex \in 0..MaxPrompts /\ prompts \in 0..MaxPrompts /\ events \in 0..MaxEvents
    /\ \/ capture = None
       \/ capture \in [offset : 0..Len(conversation), saved : Seq(Item)]
    /\ queue \in Seq([op : {"append", "replace"}, items : Seq(Item)])
    /\ turn.phase \in {"idle", "started", "indexed", "captured", "ready", "sampling", "tools", "answered"}
    /\ (turn.phase = "tools") <=> (turn.pending # {})
    /\ owed \subseteq 1..MaxPrompts
    /\ rewind = None \/ (rewind.step \in {"read", "snapshot"} /\ rewind.items \in Seq(Item))
    /\ compaction = None \/ (compaction.step \in {"sampling", "built"} /\ compaction.items \in Seq(Item))
    /\ {compacted, up, tailLost, diverged, damaged, diskDamaged} \subseteq BOOLEAN

(***************************************************************************)
(* A live turn capture delivers exactly what was pushed since it began,     *)
(* whatever repairs, compactions, rewinds and head swaps came in between -  *)
(* unless the out-of-band repair took the conversation from under it.       *)
(***************************************************************************)
CaptureExact == tailLost \/ Log!CaptureExact

LogStep ==
    \/ Log!Begin
    \/ Log!Close
    \/ \E item \in ToSet(conversation') : Log!Push(item)
    \/ \E n \in 0..Len(conversation') :
         Log!Rewrite(SubSeq(conversation', 1, n), SubSeq(conversation', n + 1, Len(conversation')))

(***************************************************************************)
(* Every command the actor handles is, for its turn capture, one step of    *)
(* the abstract log of TurnLog, the lossy repair excepted.                  *)
(***************************************************************************)
ImplementsTurnLog == [][tailLost \/ tailLost' \/ LogStep]_<<conversation, capture, pushed>>

(***************************************************************************)
(* The conversation a request carries answers each call of each assistant   *)
(* message exactly once, right behind it: what the providers insist on.     *)
(* Late results of a cancelled turn, rewinds under a turn, crashes, failed  *)
(* writes and what older versions left on disk all work against it.         *)
(***************************************************************************)
RequestPaired ==
    [][BuildConversationRequest =>
         \A i \in DOMAIN conversation' : \A c \in ToSet(conversation'[i].calls) :
            Cardinality({k \in DOMAIN conversation' : /\ InRun(conversation', i, k)
                                                     /\ conversation'[k].call = c}) = 1]_vars

(***************************************************************************)
(* No tool result stands away from the message that asked for it, except in *)
(* a session that a rewind or a compaction cut while its calls were running *)
(* or that reloaded a history some write had failed on, until the history   *)
(* repair has run or a later compaction has summarised the results away.    *)
(***************************************************************************)
NoOrphans == damaged \/ StripDisplacedToolResults(conversation) = conversation

(***************************************************************************)
(* What is on disk, with the messages on their way to it, is what is in     *)
(* memory: no handler changes the conversation without saying so. Only a    *)
(* failed write and a restore that dropped newer items break it, until the  *)
(* next replace is sent.                                                    *)
(***************************************************************************)
DiskFollowsMemory == (up /\ ~diverged) => Replayed(disk, queue) = conversation

(***************************************************************************)
(* The out-of-band repair leaves a history that no pass would change again, *)
(* with every call answered once and no result astray.                      *)
(***************************************************************************)
RepairHeals ==
    [][RepairHistory => /\ Repaired(conversation') = conversation'
                        /\ \A k \in DOMAIN conversation' : IsResult(conversation'[k]) =>
                             \E i \in 1..k-1 : /\ conversation'[k].call \in ToSet(conversation'[i].calls)
                                               /\ InRun(conversation', i, k) ]_vars

(***************************************************************************)
(* As long as the conversation still holds every real prompt, a push clears *)
(* no tool result before HardClearAge real prompts have come after it, not  *)
(* counting the one being pushed, however many reminders there are.         *)
(***************************************************************************)
ClearedOnlyWhenOld ==
    [][ (PushPrompt \/ PushReminder) /\ RealPrompts(conversation', 1) = promptIndex =>
          \A k \in DOMAIN conversation' \cap DOMAIN Integrity(conversation) :
             conversation'[k] # Integrity(conversation)[k]
             => RealPrompts(conversation', k) > HardClearAge ]_vars

\* Stated by the comment on replace_system_head and asserted by turn_tail.
CaptureSurvivesRepair == ~tailLost

\* Stated by the comment in cancel_running_task: the cut is at the withdrawn turn's own item.
WithdrawSparesOthers ==
    [][(Withdrawing /\ RestoreSnapshot) =>
         \A k \in DOMAIN conversation : conversation[k].prompt \in 0..prompts - 2 =>
             \E l \in DOMAIN conversation' : conversation'[l].prompt = conversation[k].prompt]_vars

\* Stated by the comment on Effect::CancelTurn: the prompt is trimmed from the session history.
WithdrawReachesDisk ==
    [][(Withdrawing /\ RestoreSnapshot) => Replayed(disk, queue) = conversation']_vars

\* Stated by the comment on TakeTurnMessages and TakeHarnessTraceTurns.
TakesOwnTurn == [][\A prompt \in owed : TakeTurnMessages(prompt) => captureOf \in {0, prompt}]_vars
=============================================================================
