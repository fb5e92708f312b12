--------------------------- MODULE ChatState_proofs ---------------------------
(* Proofs about the chat state actor, its clients and its history file, for   *)
(* any number of calls, prompts, events and rounds and histories of any       *)
(* length. What the operators on histories do is proved in ChatHistory_proofs. *)
EXTENDS ChatHistory_proofs

-----------------------------------------------------------------------------
(* The type invariant. *)

CaptureOf(c, items) == c = None \/ c \in [offset : 0..Len(items), saved : Seq(Item)]

\* The conversation, the capture, the queue and the file.
ChatTyped ==
    /\ conversation \in Seq(Item) /\ disk \in Seq(Item) /\ queue \in Seq(Messages)
    /\ CaptureOf(capture, conversation)
    /\ pushed \in Seq(Item)
    /\ capture = None => pushed = <<>>
    /\ up => Headed(conversation)

FlagsTyped ==
    /\ compacted \in BOOLEAN /\ up \in BOOLEAN /\ tailLost \in BOOLEAN
    /\ diverged \in BOOLEAN /\ damaged \in BOOLEAN /\ diskDamaged \in BOOLEAN

CountsTyped ==
    /\ promptIndex \in 0..MaxPrompts /\ prompts \in 0..MaxPrompts /\ promptIndex <= prompts
    /\ events \in 0..MaxEvents
    /\ owed \subseteq 1..prompts

Turns == [phase : {"idle", "started", "indexed", "captured", "ready", "sampling", "tools", "answered"},
          prompt : 0..MaxPrompts, pristine : BOOLEAN, pending : SUBSET CallIds]

\* A turn, and the result a cancelled one may have left in the mailbox.
TurnTyped ==
    /\ turn \in Turns
    /\ turn.phase = "tools" <=> turn.pending # {}
    /\ Active => prompts >= 1
    /\ turn.pristine => Active
    /\ turn.phase = "started" => promptIndex < prompts
    /\ late = <<>> \/ \E c \in CallIds : late = <<Result(c, "plain")>>
    /\ late # <<>> => ~Active

\* What a rewind holds between its steps: the conversation it read, the snapshot it will restore.
Reads     == [step : {"read"}, items : Seq(Item), astray : BOOLEAN]
Snapshots == [step : {"snapshot"}, items : Seq(Item), target : 0..MaxPrompts,
              compacted : BOOLEAN, astray : BOOLEAN, withdrawn : BOOLEAN]

RewindTyped ==
    rewind # None =>
      /\ rewind \in Reads \cup Snapshots
      /\ Headed(rewind.items)
      /\ rewind.step = "snapshot" => rewind.target <= prompts /\ (rewind.target = 0 \/ rewind.target < prompts)

CompactionTyped ==
    compaction # None =>
      /\ compaction \in [step : {"sampling", "built"}, items : Seq(Item)]
      /\ Headed(compaction.items)

\* A process that is down holds nothing.
DownInv ==
    ~up => /\ conversation = <<>> /\ capture = None /\ queue = <<>> /\ ~Active /\ late = <<>>
           /\ owed = {} /\ rewind = None /\ compaction = None /\ ~damaged /\ ~diverged

TypeInv == /\ ChatTyped /\ FlagsTyped /\ CountsTyped /\ TurnTyped
           /\ RewindTyped /\ CompactionTyped /\ DownInv

-----------------------------------------------------------------------------
(* What the handlers are composed of keeps its types. *)

\* A record is not mistaken for what is not there.
LEMMA NoneIsNoCapture ==
    ASSUME NEW n \in Nat, NEW s \in Seq(Item)
    PROVE  [offset |-> n, saved |-> s] # None
  BY Histories

\* The tail of the turn is a sequence of items.
LEMMA TailTyped ==
    ASSUME NEW items \in Seq(Item), NEW n \in 0..Len(items)
    PROVE  Log!TurnTail(items, n) \in Seq(Item)
<1>1. Len(items) \in Nat /\ \A k \in 1..Len(items) : items[k] \in Item
  BY LenProperties
<1>2. \A k \in n + 1..Len(items) : items[k] \in Item
  BY <1>1
<1> QED
  BY <1>1, <1>2, SubSeqProperties DEF Log!TurnTail

\* A snapshot of the tail, rebased on `new`.
LEMMA RecapturedTyped ==
    ASSUME NEW items \in Seq(Item), CaptureOf(capture, items),
           NEW new \in Seq(Item), NEW out \in Seq(Item), Len(new) <= Len(out)
    PROVE  /\ CaptureOf(Recaptured(items, new), out)
           /\ Recaptured(items, new) = None <=> capture = None
<1>1. Len(new) \in Nat /\ Len(out) \in Nat /\ Len(new) \in 0..Len(out)
  BY LenProperties
<1>2. CASE capture = None
  BY <1>2 DEF Recaptured, CaptureOf
<1>3. CASE capture # None
  <2> DEFINE s == capture.saved \o Log!TurnTail(items, capture.offset)
  <2>1. capture.saved \in Seq(Item) /\ capture.offset \in 0..Len(items)
    BY <1>3 DEF CaptureOf
  <2>2. s \in Seq(Item)
    BY <2>1, TailTyped, ConcatProperties
  <2>3. Recaptured(items, new) = [offset |-> Len(new), saved |-> s]
    BY <1>3 DEF Recaptured
  <2> HIDE DEF s
  <2> QED
    BY <1>1, <1>3, <2>2, <2>3, NoneIsNoCapture DEF CaptureOf
<1> QED
  BY <1>2, <1>3

\* What the handlers send are messages.
LEMMA MessagesTyped ==
    /\ \A item \in Item : <<AppendMsg(item)>> \in Seq(Messages)
    /\ \A items \in Seq(Item) : <<ReplaceMsg(items)>> \in Seq(Messages)
    /\ \A before : \A after \in Seq(Item) : Changes(before, after) \in Seq(Messages)
<1>1. ASSUME NEW item \in Item  PROVE AppendMsg(item) \in Messages
  <2>1. <<item>> \in Seq(Item)
    OBVIOUS
  <2> QED
    BY <2>1 DEF AppendMsg, Messages
<1>2. ASSUME NEW items \in Seq(Item)  PROVE ReplaceMsg(items) \in Messages
  BY DEF ReplaceMsg, Messages
<1>3. ASSUME NEW before, NEW after \in Seq(Item)  PROVE Changes(before, after) \in Seq(Messages)
  <2>1. <<ReplaceMsg(after)>> \in Seq(Messages)
    BY <1>2
  <2> QED
    BY <2>1, EmptySeq DEF Changes
<1> QED
  BY <1>1, <1>2, <1>3

\* Sending messages keeps the queue a queue.
LEMMA PersistTyped ==
    ASSUME ChatTyped, NEW msgs \in Seq(Messages), Persist(msgs)
    PROVE  queue' \in Seq(Messages) /\ disk' \in Seq(Item)
<1>1. queue \in Seq(Messages) /\ disk \in Seq(Item)
  BY DEF ChatTyped
<1>2. queue \o msgs \in Seq(Messages)
  BY <1>1, ConcatProperties
<1> QED
  BY <1>1, <1>2 DEF Persist

\* push_message keeps the types, and the head in place.
LEMMA PushTyped ==
    ASSUME ChatTyped, up, NEW item \in Item, PushMessage(item)
    PROVE  ChatTyped' /\ Headed(conversation')
<1>1. /\ conversation' = Append(conversation, item) /\ capture' = capture
      /\ pushed' = IF capture = None THEN <<>> ELSE Append(pushed, item)
      /\ Persist(<<AppendMsg(item)>>)
  BY DEF PushMessage
<1>2. conversation \in Seq(Item) /\ pushed \in Seq(Item) /\ Headed(conversation) /\ CaptureOf(capture, conversation)
  BY DEF ChatTyped
<1>3. conversation' \in Seq(Item) /\ Len(conversation') = Len(conversation) + 1 /\ Append(pushed, item) \in Seq(Item)
  BY <1>1, <1>2, AppendProperties
<1>4. Headed(conversation')
  BY <1>1, <1>2, HeadedAppend
<1>5. queue' \in Seq(Messages) /\ disk' \in Seq(Item)
  BY <1>1, MessagesTyped, PersistTyped
<1>6. CaptureOf(capture', conversation')
  <2>1. Len(conversation) \in Nat
    BY <1>2, LenProperties
  <2>2. 0..Len(conversation) \subseteq 0..Len(conversation')
    BY <1>3, <2>1
  <2> QED
    BY <1>1, <1>2, <2>2 DEF CaptureOf
<1>7. pushed' \in Seq(Item) /\ (capture' = None => pushed' = <<>>)
  BY <1>1, <1>3, EmptySeq
<1> QED
  BY <1>3, <1>4, <1>5, <1>6, <1>7 DEF ChatTyped

\* What push_user_message does, in its parts.
LEMMA PushUserShape ==
    ASSUME ChatTyped, up, NEW item \in Item
    PROVE  LET fixed  == Integrity(conversation)
               grown  == Append(fixed, item)
               pruned == Pruned(grown)
           IN  /\ fixed \in Seq(Item) /\ grown \in Seq(Item) /\ pruned \in Seq(Item)
               /\ Headed(fixed) /\ Headed(grown) /\ Headed(pruned)
               /\ Alike(grown, pruned) /\ Len(pruned) = Len(fixed) + 1
               /\ ~IsResult(item) => pruned[Len(fixed) + 1] = item
<1> DEFINE fixed  == Integrity(conversation)
           grown  == Append(fixed, item)
           pruned == Pruned(grown)
<1>1. conversation \in Seq(Item) /\ Headed(conversation)
  BY DEF ChatTyped
<1>2. fixed \in Seq(Item) /\ Headed(fixed)
  BY <1>1, IntegritySound, RepairsHeaded
<1> HIDE DEF fixed
<1>3. grown \in Seq(Item) /\ Len(grown) = Len(fixed) + 1 /\ Headed(grown) /\ grown[Len(fixed) + 1] = item
  BY <1>2, AppendProperties, HeadedAppend
<1> HIDE DEF grown
<1>4. /\ pruned \in Seq(Item) /\ Alike(grown, pruned)
      /\ \A k \in 1..Len(grown) : pruned[k] # grown[k] => IsResult(grown[k])
  BY <1>3, PrunedShape
<1>5. Headed(pruned) /\ Len(pruned) = Len(fixed) + 1
  BY <1>3, <1>4, AlikeKeeps DEF Alike
<1>6. ~IsResult(item) => pruned[Len(fixed) + 1] = item
  <2>1. Len(fixed) + 1 \in 1..Len(grown)
    BY <1>2, <1>3, LenProperties
  <2> QED
    BY <1>3, <1>4, <2>1
<1> QED
  BY <1>2, <1>3, <1>4, <1>5, <1>6 DEF fixed, grown

\* push_user_message keeps the types, and the head in place.
LEMMA PushUserTyped ==
    ASSUME ChatTyped, up, NEW item \in Item, PushUserMessage(item)
    PROVE  ChatTyped' /\ Headed(conversation')
<1> DEFINE fixed  == Integrity(conversation)
           grown  == Append(fixed, item)
           pruned == Pruned(grown)
           msgs   == Changes(conversation, fixed) \o <<AppendMsg(item)>> \o Changes(grown, pruned)
<1>1. /\ conversation' = pruned /\ capture' = Recaptured(conversation, fixed)
      /\ pushed' = IF capture = None THEN <<>> ELSE Append(pushed, item)
      /\ Persist(msgs)
  BY DEF PushUserMessage
<1>2. /\ conversation \in Seq(Item) /\ pushed \in Seq(Item) /\ CaptureOf(capture, conversation)
      /\ capture = None => pushed = <<>>
  BY DEF ChatTyped
<1>3. /\ fixed \in Seq(Item) /\ pruned \in Seq(Item) /\ Headed(pruned)
      /\ Len(pruned) = Len(fixed) + 1
  BY PushUserShape
<1>4. msgs \in Seq(Messages)
  <2>1. Changes(conversation, fixed) \in Seq(Messages) /\ Changes(grown, pruned) \in Seq(Messages)
        /\ <<AppendMsg(item)>> \in Seq(Messages)
    BY <1>3, MessagesTyped
  <2> HIDE DEF fixed, grown, pruned
  <2>2. Changes(conversation, fixed) \o <<AppendMsg(item)>> \in Seq(Messages)
    BY <2>1, ConcatProperties
  <2> QED
    BY <2>1, <2>2, ConcatProperties
<1> HIDE DEF fixed, grown, pruned, msgs
<1>5. queue' \in Seq(Messages) /\ disk' \in Seq(Item)
  BY <1>1, <1>4, PersistTyped
<1>6. CaptureOf(capture', conversation') /\ (capture' = None <=> capture = None)
  <2>1. Len(fixed) \in Nat /\ Len(fixed) <= Len(pruned)
    BY <1>3, LenProperties
  <2> QED
    BY <1>1, <1>2, <1>3, <2>1, RecapturedTyped
<1>7. pushed' \in Seq(Item) /\ (capture' = None => pushed' = <<>>)
  BY <1>1, <1>2, <1>6, EmptySeq, AppendProperties
<1> QED
  BY <1>1, <1>3, <1>5, <1>6, <1>7 DEF ChatTyped

\* replace_conversation keeps the types, given a history that has a head.
LEMMA ReplaceTyped ==
    ASSUME ChatTyped, NEW items \in Seq(Item), Headed(items), ReplaceConversation(items)
    PROVE  ChatTyped' /\ Headed(conversation')
<1>1. /\ conversation' = items /\ capture' = Recaptured(conversation, items)
      /\ pushed' = pushed /\ Persist(<<ReplaceMsg(items)>>)
  BY DEF ReplaceConversation
<1>2. /\ conversation \in Seq(Item) /\ pushed \in Seq(Item) /\ CaptureOf(capture, conversation)
      /\ capture = None => pushed = <<>>
  BY DEF ChatTyped
<1>3. queue' \in Seq(Messages) /\ disk' \in Seq(Item)
  BY <1>1, MessagesTyped, PersistTyped
<1>4. CaptureOf(capture', conversation') /\ (capture' = None <=> capture = None)
  <2>1. Len(items) <= Len(items)
    BY LenProperties
  <2> QED
    BY <1>1, <1>2, <2>1, RecapturedTyped
<1> QED
  BY <1>1, <1>2, <1>3, <1>4 DEF ChatTyped

\* The items the clients push.
LEMMA PushedItems ==
    /\ \A n \in 0..MaxPrompts : User(n) \in Item /\ ~IsResult(User(n))
    /\ Reminder \in Item /\ ~IsResult(Reminder)
    /\ \A c \in CallIds : /\ Result(c, "plain") \in Item /\ IsResult(Result(c, "plain"))
                          /\ Result(c, "plain").call = c
<1>1. <<>> \in {calls \in Seq(CallIds) : IsInjective(calls)}
  BY EmptySeq DEF IsInjective
<1>2. \A n \in 0..MaxPrompts : User(n) \in Item /\ ~IsResult(User(n))
  BY <1>1 DEF User, Bare, Item, IsResult
<1>3. Reminder \in Item /\ ~IsResult(Reminder)
  BY <1>1 DEF Reminder, Bare, Item, IsResult
<1>4. ASSUME NEW c \in CallIds
      PROVE  /\ Result(c, "plain") \in Item /\ IsResult(Result(c, "plain"))
             /\ Result(c, "plain").call = c
  <2>1. c # None
    BY Bounds
  <2> QED
    BY <1>1, <2>1 DEF Result, Bare, Item, IsResult
<1> QED
  BY <1>2, <1>3, <1>4

\* Whoever holds something is up.
LEMMA BusyIsUp ==
    ASSUME TypeInv
    PROVE  /\ Active => up
           /\ late # <<>> => up
           /\ owed # {} => up
           /\ rewind # None => up
           /\ compaction # None => up
           /\ queue # <<>> => up
  BY DEF TypeInv, DownInv

\* Building a request keeps the types, and the head in place.
LEMMA RequestTyped ==
    ASSUME ChatTyped, up, BuildConversationRequest
    PROVE  ChatTyped' /\ Headed(conversation')
<1> DEFINE fixed == Integrity(conversation)
           led   == WithHead(fixed, "memory")
<1>1. /\ capture' = Recaptured(conversation, conversation') /\ pushed' = pushed
      /\ \/ conversation' = fixed /\ Persist(Changes(conversation, fixed))
         \/ conversation' = led /\ Persist(Changes(conversation, fixed) \o Changes(fixed, led))
  BY DEF BuildConversationRequest
<1>2. /\ conversation \in Seq(Item) /\ Headed(conversation) /\ CaptureOf(capture, conversation)
      /\ pushed \in Seq(Item) /\ (capture = None => pushed = <<>>)
  BY DEF ChatTyped
<1>3. fixed \in Seq(Item) /\ Headed(fixed)
  BY <1>2, IntegritySound, RepairsHeaded
<1>4. led \in Seq(Item) /\ Headed(led)
  BY <1>3, WithHeadShape
<1>5. Changes(conversation, fixed) \in Seq(Messages) /\ Changes(fixed, led) \in Seq(Messages)
  BY <1>3, <1>4, MessagesTyped
<1>6. Changes(conversation, fixed) \o Changes(fixed, led) \in Seq(Messages)
  BY <1>5, ConcatProperties
<1> HIDE DEF fixed, led
<1>7. queue' \in Seq(Messages) /\ disk' \in Seq(Item)
  BY <1>1, <1>5, <1>6, PersistTyped
<1>8. conversation' \in Seq(Item) /\ Headed(conversation')
  BY <1>1, <1>3, <1>4
<1>9. CaptureOf(capture', conversation') /\ (capture' = None <=> capture = None)
  <2>1. Len(conversation') <= Len(conversation')
    BY <1>8, LenProperties
  <2> QED
    BY <1>1, <1>2, <1>8, <2>1, RecapturedTyped
<1> QED
  BY <1>1, <1>2, <1>7, <1>8, <1>9 DEF ChatTyped

\* The out-of-band repair keeps the types.
LEMMA RepairTyped ==
    ASSUME ChatTyped, RepairHistory
    PROVE  ChatTyped'
<1> DEFINE fixed == Repaired(conversation)
<1>1. up /\ up' = up
  BY DEF RepairHistory, clientVars
<1>2. /\ conversation \in Seq(Item) /\ Headed(conversation) /\ CaptureOf(capture, conversation)
      /\ pushed \in Seq(Item) /\ (capture = None => pushed = <<>>)
  BY <1>1 DEF ChatTyped
<1>3. fixed \in Seq(Item) /\ Headed(fixed)
  BY <1>2, RepairedSound, RepairsHeaded
<1>4. CASE fixed = conversation
  <2>1. UNCHANGED <<conversation, capture, pushed, queue, disk, up>>
    BY <1>1, <1>4 DEF RepairHistory, chatVars, storeVars
  <2> QED
    BY <2>1 DEF ChatTyped
<1>5. CASE fixed # conversation
  <2>1. /\ conversation' = fixed /\ capture' = RecapturedOnly(<<>>, fixed)
        /\ pushed' = pushed /\ Persist(<<ReplaceMsg(fixed)>>)
    BY <1>5 DEF RepairHistory
  <2> HIDE DEF fixed
  <2>2. queue' \in Seq(Messages) /\ disk' \in Seq(Item)
    BY <1>3, <2>1, MessagesTyped, PersistTyped
  <2>3. CaptureOf(capture', conversation') /\ (capture' = None => pushed' = <<>>)
    <3>1. Len(fixed) \in 0..Len(fixed)
      BY <1>3, LenProperties
    <3>2. CASE capture = None
      BY <1>2, <2>1, <3>2 DEF RecapturedOnly, CaptureOf
    <3>3. CASE capture # None
      <4>1. capture \in [offset : 0..Len(conversation), saved : Seq(Item)]
        BY <1>2, <3>3 DEF CaptureOf
      <4>2. capture' = [capture EXCEPT !.offset = Len(fixed)]
        BY <2>1, <3>3 DEF RecapturedOnly
      <4>3. capture' = [offset |-> Len(fixed), saved |-> capture.saved]
        BY <4>1, <4>2
      <4>4. capture' \in [offset : 0..Len(fixed), saved : Seq(Item)]
        BY <3>1, <4>1, <4>3
      <4>5. capture' # None
        BY <3>1, <4>1, <4>3, NoneIsNoCapture
      <4> QED
        BY <2>1, <4>4, <4>5 DEF CaptureOf
    <3> QED
      BY <3>2, <3>3
  <2> QED
    BY <1>1, <1>2, <1>3, <2>1, <2>2, <2>3 DEF ChatTyped
<1> QED
  BY <1>4, <1>5

\* Each step keeps the conversation, the capture, the queue and the file in their types.
LEMMA ChatTypedStep ==
    ASSUME TypeInv, [Next]_vars
    PROVE  ChatTyped'
<1>1. ChatTyped /\ TurnTyped /\ CountsTyped /\ RewindTyped /\ CompactionTyped
  BY DEF TypeInv
<1>2. ASSUME UNCHANGED <<conversation, disk, queue, capture, pushed, up>>  PROVE ChatTyped'
  BY <1>1, <1>2 DEF ChatTyped
<1>3. /\ Active => up
      /\ late # <<>> => up
  BY BusyIsUp
<1>5. CASE \/ StartPrompt \/ IncrementPromptIndex \/ CompactRead \/ CompactAbandoned \/ CompactContext
           \/ EndTurn \/ CancelTurn \/ Withdraw \/ RewindRead \/ UNCHANGED vars
  BY <1>2, <1>5 DEF StartPrompt, IncrementPromptIndex, CompactRead, CompactAbandoned, CompactContext,
     EndTurn, CancelTurn, Withdraw, TurnOver, RewindRead, vars, chatVars, storeVars, ghostVars, clientVars
<1>6. CASE BeginTurnCapture
  <2>1. /\ UNCHANGED <<conversation, disk, queue, up>> /\ pushed' = <<>>
        /\ capture' = [offset |-> Len(conversation), saved |-> <<>>]
    BY <1>6 DEF BeginTurnCapture, storeVars
  <2>2. Len(conversation) \in 0..Len(conversation)
    BY <1>1, LenProperties DEF ChatTyped
  <2>3. CaptureOf(capture', conversation')
    BY <2>1, <2>2, EmptySeq DEF CaptureOf
  <2> QED
    BY <1>1, <2>1, <2>3, EmptySeq DEF ChatTyped
<1>7. CASE PushPrompt
  <2>1. turn.prompt \in 0..MaxPrompts /\ up
    BY <1>1, <1>3, <1>7 DEF PushPrompt, TurnTyped, Turns, Active
  <2>2. PushUserMessage(User(turn.prompt))
    BY <1>7 DEF PushPrompt
  <2> QED
    BY <1>1, <2>1, <2>2, PushedItems, PushUserTyped
<1>8. CASE PushReminder
  BY <1>1, <1>8, PushedItems, PushUserTyped DEF PushReminder
<1>9. CASE CompactReplace
  <2>1. compaction.items \in Seq(Item) /\ Headed(compaction.items) /\ ReplaceConversation(compaction.items)
    BY <1>1, <1>9 DEF CompactReplace, CompactionTyped
  <2> QED
    BY <1>1, <2>1, ReplaceTyped
<1>10. CASE BuildConversationRequest
  <2>1. up
    BY <1>3, <1>10 DEF BuildConversationRequest, Active
  <2> QED
    BY <1>1, <1>10, <2>1, RequestTyped
<1>11. ASSUME NEW calls \in CallSets, PushAssistantResponse(calls)  PROVE ChatTyped'
  <2>1. up /\ PushMessage(Assistant(SetToSeq(calls)))
    BY <1>3, <1>11 DEF PushAssistantResponse, Active
  <2>2. calls \in SUBSET CallIds
    BY Bounds
  <2> QED
    BY <1>1, <2>1, <2>2, CallsListed, PushTyped
<1>12. ASSUME NEW c \in CallIds, PushToolResult(c)  PROVE ChatTyped'
  <2>1. up /\ PushMessage(Result(c, "plain"))
    BY <1>3, <1>12 DEF PushToolResult, Active
  <2> QED
    BY <1>1, <2>1, PushedItems, PushTyped
<1>13. CASE DeliverLateResult
  <2>1. late # <<>> /\ up /\ PushMessage(late[1])
    BY <1>3, <1>13 DEF DeliverLateResult
  <2>2. PICK c \in CallIds : late = <<Result(c, "plain")>>
    BY <1>1, <2>1 DEF TurnTyped
  <2>3. late[1] = Result(c, "plain")
    BY <2>2
  <2> QED
    BY <1>1, <2>1, <2>3, PushedItems, PushTyped
<1>14. ASSUME NEW prompt \in owed, TakeTurnMessages(prompt)  PROVE ChatTyped'
  <2>1. UNCHANGED <<conversation, disk, queue, up>> /\ pushed' = <<>> /\ capture' = None
    BY <1>14 DEF TakeTurnMessages, storeVars
  <2> QED
    BY <1>1, <2>1, EmptySeq DEF ChatTyped, CaptureOf
<1>15. CASE RepairHistory
  BY <1>1, <1>15, RepairTyped
<1>16. ASSUME NEW text \in {"plain", "other"}, ReplaceSystemHead(text)  PROVE ChatTyped'
  <2>1. ReplaceConversation(WithHead(conversation, text))
    BY <1>16 DEF ReplaceSystemHead
  <2>2. conversation \in Seq(Item)
    BY <1>1 DEF ChatTyped
  <2> QED
    BY <1>1, <2>1, <2>2, WithHeadShape, ReplaceTyped
<1>17. ASSUME NEW target \in 0..promptIndex - 1, RewindWrite(target)  PROVE ChatTyped'
  <2>1. ReplaceConversation(TruncateForPrompt(rewind.items, target)) /\ target \in Nat
    BY <1>1, <1>17 DEF RewindWrite, CountsTyped
  <2>2. rewind.items \in Seq(Item) /\ Headed(rewind.items)
    BY <1>1, <1>17 DEF RewindWrite, RewindTyped, Reads, Snapshots
  <2> QED
    BY <1>1, <2>1, <2>2, TruncateShape, ReplaceTyped
<1>18. CASE RestoreSnapshot
  <2>1. rewind.items \in Seq(Item) /\ Headed(rewind.items)
    BY <1>1, <1>18 DEF RestoreSnapshot, RewindTyped, Reads, Snapshots
  <2>2. /\ conversation' = rewind.items /\ capture' = Recaptured(conversation, rewind.items)
        /\ UNCHANGED <<queue, disk, pushed, up>>
    BY <1>18 DEF RestoreSnapshot, storeVars
  <2>3. CaptureOf(capture', conversation') /\ (capture' = None <=> capture = None)
    <3>1. Len(rewind.items) <= Len(rewind.items)
      BY <2>1, LenProperties
    <3> QED
      BY <1>1, <2>1, <2>2, <3>1, RecapturedTyped DEF ChatTyped
  <2> QED
    BY <1>1, <2>1, <2>2, <2>3 DEF ChatTyped
<1>19. CASE PersistMsg
  <2>1. /\ queue # <<>> /\ disk' = Applied(disk, Head(queue)) /\ queue' = Tail(queue)
        /\ UNCHANGED <<conversation, capture, pushed, up>>
    BY <1>19 DEF PersistMsg, chatVars, clientVars
  <2>2. Head(queue) \in Messages /\ queue' \in Seq(Messages)
    BY <1>1, <2>1, HeadTailProperties DEF ChatTyped
  <2>3. disk' \in Seq(Item)
    BY <1>1, <2>1, <2>2, AppliedType DEF ChatTyped
  <2> QED
    BY <1>1, <2>1, <2>2, <2>3 DEF ChatTyped
<1>20. CASE PersistFails
  <2>1. queue # <<>> /\ queue' = Tail(queue) /\ UNCHANGED <<disk, conversation, capture, pushed, up>>
    BY <1>20 DEF PersistFails, chatVars, clientVars
  <2>2. queue' \in Seq(Messages)
    BY <1>1, <2>1, HeadTailProperties DEF ChatTyped
  <2> QED
    BY <1>1, <2>1, <2>2 DEF ChatTyped
<1>21. CASE Crash
  <2>1. /\ up' = FALSE /\ conversation' = <<>> /\ capture' = None /\ pushed' = <<>> /\ queue' = <<>>
        /\ disk' = disk
    BY <1>21 DEF Crash
  <2> QED
    BY <1>1, <2>1, EmptySeq DEF ChatTyped, CaptureOf
<1>22. CASE RepairOnDisk
  <2>1. disk' = Repaired(disk) /\ UNCHANGED <<conversation, capture, pushed, queue, up>>
    BY <1>22 DEF RepairOnDisk, chatVars, clientVars
  <2>2. disk' \in Seq(Item)
    BY <1>1, <2>1, RepairedSound DEF ChatTyped
  <2> QED
    BY <1>1, <2>1, <2>2 DEF ChatTyped
<1>23. CASE Restart
  <2>1. /\ conversation' = WithHead(disk, "plain") /\ disk' = conversation'
        /\ queue' = <<ReplaceMsg(conversation')>> /\ UNCHANGED <<capture, pushed>> /\ ~up
    BY <1>23 DEF Restart
  <2>2. conversation' \in Seq(Item) /\ Headed(conversation')
    BY <1>1, <2>1, WithHeadShape DEF ChatTyped
  <2>3. queue' \in Seq(Messages)
    BY <2>1, <2>2, MessagesTyped
  <2>4. capture = None /\ pushed = <<>>
    BY <1>1, <2>1 DEF TypeInv, DownInv, ChatTyped
  <2> QED
    BY <2>1, <2>2, <2>3, <2>4, EmptySeq DEF ChatTyped, CaptureOf
<1> QED
  BY <1>5, <1>6, <1>7, <1>8, <1>9, <1>10, <1>11, <1>12, <1>13, <1>14, <1>15, <1>16, <1>17, <1>18,
     <1>19, <1>20, <1>21, <1>22, <1>23 DEF Next

\* Each step keeps the flags Boolean.
LEMMA FlagsStep ==
    ASSUME TypeInv, [Next]_vars
    PROVE  FlagsTyped'
<1>1. FlagsTyped /\ RewindTyped
  BY DEF TypeInv
<1>2. ASSUME NEW msgs, Persist(msgs)  PROVE diverged' \in BOOLEAN
  BY <1>1, <1>2 DEF FlagsTyped, Persist
<1>3. CASE \/ StartPrompt \/ IncrementPromptIndex \/ CompactRead \/ CompactAbandoned \/ CompactContext
           \/ EndTurn \/ CancelTurn \/ Withdraw \/ RewindRead \/ UNCHANGED vars
  <2>1. UNCHANGED <<compacted, up, tailLost, diverged, damaged, diskDamaged>>
    BY <1>3 DEF StartPrompt, IncrementPromptIndex, CompactRead, CompactAbandoned, CompactContext,
       EndTurn, CancelTurn, Withdraw, TurnOver, RewindRead, vars, chatVars, clientVars, ghostVars, damageVars
  <2> QED
    BY <1>1, <2>1 DEF FlagsTyped
<1>4. CASE BeginTurnCapture
  BY <1>1, <1>4 DEF BeginTurnCapture, FlagsTyped, damageVars
<1>5. CASE PushPrompt
  BY <1>1, <1>2, <1>5 DEF PushPrompt, PushUserMessage, FlagsTyped, damageVars
<1>6. CASE PushReminder
  BY <1>1, <1>2, <1>6 DEF PushReminder, PushUserMessage, FlagsTyped, damageVars, clientVars
<1>7. CASE CompactReplace
  <2>1. /\ diverged' \in BOOLEAN /\ UNCHANGED <<up, tailLost>> /\ compacted' = TRUE
        /\ damaged' = (turn.pending # {} \/ late # <<>>)
        /\ diskDamaged' = (diskDamaged \/ damaged')
    BY <1>2, <1>7 DEF CompactReplace, ReplaceConversation
  <2> QED
    BY <1>1, <2>1 DEF FlagsTyped
<1>8. CASE BuildConversationRequest
  BY <1>1, <1>2, <1>8 DEF BuildConversationRequest, FlagsTyped, damageVars
<1>9. ASSUME NEW calls \in CallSets, PushAssistantResponse(calls)  PROVE FlagsTyped'
  BY <1>1, <1>2, <1>9 DEF PushAssistantResponse, PushMessage, FlagsTyped, damageVars
<1>10. ASSUME NEW c \in CallIds, PushToolResult(c)  PROVE FlagsTyped'
  BY <1>1, <1>2, <1>10 DEF PushToolResult, PushMessage, FlagsTyped, damageVars
<1>11. CASE DeliverLateResult
  BY <1>1, <1>2, <1>11 DEF DeliverLateResult, PushMessage, FlagsTyped, damageVars
<1>12. ASSUME NEW prompt \in owed, TakeTurnMessages(prompt)  PROVE FlagsTyped'
  BY <1>1, <1>12 DEF TakeTurnMessages, FlagsTyped, damageVars
<1>13. CASE RepairHistory
  <2>1. UNCHANGED <<compacted, up, diskDamaged>> /\ damaged' = FALSE
    BY <1>13 DEF RepairHistory, chatVars, clientVars
  <2>2. diverged' \in BOOLEAN
    BY <1>1, <1>2, <1>13 DEF RepairHistory, FlagsTyped
  <2>3. tailLost' \in BOOLEAN
    <3>1. \/ tailLost' = tailLost
          \/ tailLost' = (tailLost \/ Recaptured(conversation, Repaired(conversation)) # capture')
      BY <1>13 DEF RepairHistory
    <3> QED
      BY <1>1, <3>1 DEF FlagsTyped
  <2> QED
    BY <1>1, <2>1, <2>2, <2>3 DEF FlagsTyped
<1>14. ASSUME NEW text \in {"plain", "other"}, ReplaceSystemHead(text)  PROVE FlagsTyped'
  BY <1>1, <1>2, <1>14 DEF ReplaceSystemHead, ReplaceConversation, FlagsTyped, damageVars, clientVars
<1>15. ASSUME NEW target \in 0..promptIndex - 1, RewindWrite(target)  PROVE FlagsTyped'
  <2>1. diverged' \in BOOLEAN /\ UNCHANGED <<up, tailLost, compacted>>
    BY <1>2, <1>15 DEF RewindWrite, ReplaceConversation
  <2>2. damaged' = (damaged \/ RewindDamages) /\ diskDamaged' = (diskDamaged \/ RewindDamages)
    BY <1>15 DEF RewindWrite
  <2>3. RewindDamages \in BOOLEAN
    <3>1. rewind.astray \in BOOLEAN
      BY <1>1, <1>15 DEF RewindWrite, RewindTyped, Reads, Snapshots
    <3> QED
      BY <3>1 DEF RewindDamages
  <2> HIDE DEF RewindDamages
  <2> QED
    BY <1>1, <2>1, <2>2, <2>3 DEF FlagsTyped
<1>16. CASE RestoreSnapshot
  <2>1. /\ UNCHANGED <<up, tailLost>> /\ compacted' = rewind.compacted
        /\ diverged' = (diverged \/ conversation # rewind.items)
        /\ damaged' = (damaged \/ RewindDamages)
        /\ diskDamaged' = (diskDamaged \/ RewindDamages \/ conversation # rewind.items)
    BY <1>16 DEF RestoreSnapshot
  <2>2. rewind.astray \in BOOLEAN /\ rewind.compacted \in BOOLEAN
    BY <1>1, <1>16 DEF RestoreSnapshot, RewindTyped, Reads, Snapshots
  <2>3. RewindDamages \in BOOLEAN
    BY <2>2 DEF RewindDamages
  <2> HIDE DEF RewindDamages
  <2> QED
    BY <1>1, <2>1, <2>2, <2>3 DEF FlagsTyped
<1>17. CASE PersistMsg
  <2>1. /\ UNCHANGED <<compacted, up, tailLost, diverged, damaged>>
        /\ diskDamaged' = (diskDamaged /\ (diverged \/ damaged \/ Replaces(queue') \/ ~Replaces(queue)))
    BY <1>17 DEF PersistMsg, chatVars, clientVars
  <2> QED
    BY <1>1, <2>1 DEF FlagsTyped
<1>18. CASE PersistFails
  <2>1. /\ UNCHANGED <<compacted, up, tailLost, damaged>> /\ diskDamaged' = TRUE
        /\ diverged' = (diverged \/ ~Replaces(Tail(queue)))
    BY <1>18 DEF PersistFails, chatVars, clientVars
  <2> QED
    BY <1>1, <2>1 DEF FlagsTyped
<1>19. CASE Crash
  BY <1>1, <1>19 DEF Crash, FlagsTyped
<1>20. CASE RepairOnDisk
  BY <1>1, <1>20 DEF RepairOnDisk, FlagsTyped, chatVars, clientVars
<1>21. CASE Restart
  BY <1>1, <1>21 DEF Restart, FlagsTyped
<1> QED
  BY <1>3, <1>4, <1>5, <1>6, <1>7, <1>8, <1>9, <1>10, <1>11, <1>12, <1>13, <1>14, <1>15, <1>16,
     <1>17, <1>18, <1>19, <1>20, <1>21 DEF Next

\* A history has a number of prompts.
LEMMA PromptsCounted ==
    ASSUME NEW items \in Seq(Item), NEW from \in Nat
    PROVE  RealPrompts(items, from) \in Nat
<1>1. Len(items) \in Nat
  BY LenProperties
<1>2. IsFiniteSet(from..Len(items))
  BY <1>1, FS_Interval
<1>3. {k \in from..Len(items) : items[k].kind = "user"} \in SUBSET (from..Len(items))
  OBVIOUS
<1> QED
  BY <1>2, <1>3, FS_Subset, FS_CardinalityType DEF RealPrompts

\* Each step keeps the counts in their bounds.
LEMMA CountsStep ==
    ASSUME TypeInv, [Next]_vars
    PROVE  CountsTyped'
<1>1. CountsTyped /\ TurnTyped /\ RewindTyped
  BY DEF TypeInv
<1>2. MaxPrompts \in Nat /\ MaxEvents \in Nat
  BY Bounds
<1>3. ASSUME UNCHANGED <<promptIndex, prompts, owed>>, events' = events \/ Event
      PROVE  CountsTyped'
  BY <1>1, <1>2, <1>3 DEF CountsTyped, Event
<1>4. CASE \/ BeginTurnCapture \/ CompactAbandoned \/ CompactContext \/ CompactRead \/ RewindRead
           \/ PersistMsg \/ PersistFails \/ RepairOnDisk \/ RepairHistory \/ UNCHANGED vars
  <2>1. UNCHANGED <<promptIndex, prompts, owed>> /\ (events' = events \/ Event)
    BY <1>4 DEF BeginTurnCapture, CompactAbandoned, CompactContext, CompactRead, RewindRead,
       PersistMsg, PersistFails, RepairOnDisk, RepairHistory, vars, chatVars, clientVars
  <2> QED
    BY <1>3, <2>1
<1>5. CASE PushPrompt \/ PushReminder \/ CompactReplace \/ BuildConversationRequest \/ DeliverLateResult
  <2>1. UNCHANGED <<promptIndex, prompts, owed>> /\ (events' = events \/ Event)
    BY <1>5 DEF PushPrompt, PushReminder, PushUserMessage, CompactReplace, ReplaceConversation,
       BuildConversationRequest, DeliverLateResult, PushMessage, clientVars
  <2> QED
    BY <1>3, <2>1
<1>6. ASSUME NEW calls \in CallSets, PushAssistantResponse(calls)  PROVE CountsTyped'
  BY <1>3, <1>6 DEF PushAssistantResponse, PushMessage
<1>7. ASSUME NEW c \in CallIds, PushToolResult(c)  PROVE CountsTyped'
  BY <1>3, <1>7 DEF PushToolResult, PushMessage
<1>8. ASSUME NEW text \in {"plain", "other"}, ReplaceSystemHead(text)  PROVE CountsTyped'
  BY <1>3, <1>8 DEF ReplaceSystemHead, ReplaceConversation, clientVars
<1>9. ASSUME NEW target \in 0..promptIndex - 1, RewindWrite(target)  PROVE CountsTyped'
  BY <1>3, <1>9 DEF RewindWrite, ReplaceConversation
<1>10. CASE StartPrompt
  <2>1. prompts < MaxPrompts /\ prompts' = prompts + 1 /\ UNCHANGED <<promptIndex, owed, events>>
    BY <1>10 DEF StartPrompt, chatVars
  <2> QED
    BY <1>1, <1>2, <2>1 DEF CountsTyped
<1>11. CASE IncrementPromptIndex
  <2>1. promptIndex < prompts /\ promptIndex' = promptIndex + 1 /\ UNCHANGED <<prompts, owed, events>>
    BY <1>1, <1>11 DEF IncrementPromptIndex, TurnTyped
  <2> QED
    BY <1>1, <1>2, <2>1 DEF CountsTyped
<1>12. CASE EndTurn \/ CancelTurn \/ Withdraw
  <2>1. /\ Active /\ owed' = owed \cup {prompts} /\ UNCHANGED <<promptIndex, prompts>>
        /\ events' = events \/ Event
    BY <1>1, <1>12 DEF EndTurn, CancelTurn, Withdraw, TurnOver, TurnTyped, Active, chatVars
  <2>2. prompts >= 1
    BY <1>1, <2>1 DEF TurnTyped
  <2> QED
    BY <1>1, <1>2, <2>1, <2>2 DEF CountsTyped, Event
<1>13. ASSUME NEW prompt \in owed, TakeTurnMessages(prompt)  PROVE CountsTyped'
  <2>1. owed' = owed \ {prompt} /\ UNCHANGED <<promptIndex, prompts, events>>
    BY <1>13 DEF TakeTurnMessages
  <2> QED
    BY <1>1, <2>1 DEF CountsTyped
<1>14. CASE RestoreSnapshot
  <2>1. promptIndex' = rewind.target /\ UNCHANGED <<prompts, owed, events>>
    BY <1>14 DEF RestoreSnapshot
  <2>2. rewind.target \in 0..MaxPrompts /\ rewind.target <= prompts
    BY <1>1, <1>14 DEF RestoreSnapshot, RewindTyped, Reads, Snapshots
  <2> QED
    BY <1>1, <2>1, <2>2 DEF CountsTyped
<1>15. CASE Crash
  <2>1. owed' = {} /\ UNCHANGED <<promptIndex, prompts>> /\ Event
    BY <1>15 DEF Crash
  <2> QED
    BY <1>1, <1>2, <2>1 DEF CountsTyped, Event
<1>16. CASE Restart
  <2>1. promptIndex' \in RealPrompts(disk, 1)..prompts /\ UNCHANGED <<prompts, owed, events>>
    BY <1>16 DEF Restart, RestoredPromptIndex
  <2>2. RealPrompts(disk, 1) \in Nat
    BY PromptsCounted DEF TypeInv, ChatTyped
  <2> QED
    BY <1>1, <1>2, <2>1, <2>2 DEF CountsTyped
<1> QED
  BY <1>4, <1>5, <1>6, <1>7, <1>8, <1>9, <1>10, <1>11, <1>12, <1>13, <1>14, <1>15, <1>16 DEF Next

\* Each step keeps the turn in its type.
LEMMA TurnStep ==
    ASSUME TypeInv, [Next]_vars
    PROVE  TurnTyped'
<1>1. TurnTyped /\ CountsTyped /\ RewindTyped
  BY DEF TypeInv
<1>2. ASSUME UNCHANGED <<turn, late, prompts>>, turn.phase = "started" => promptIndex' = promptIndex
      PROVE  TurnTyped'
  BY <1>1, <1>2 DEF TurnTyped, Active
<1>3. CASE \/ CompactAbandoned \/ CompactContext \/ CompactRead \/ RewindRead \/ PersistMsg \/ PersistFails
           \/ RepairOnDisk \/ RepairHistory \/ UNCHANGED vars
  <2>1. UNCHANGED <<turn, late, prompts, promptIndex>>
    BY <1>3 DEF CompactAbandoned, CompactContext, CompactRead, RewindRead, PersistMsg, PersistFails,
       RepairOnDisk, RepairHistory, vars, chatVars, clientVars
  <2> QED
    BY <1>2, <2>1
<1>4. CASE PushReminder \/ (\E prompt \in owed : TakeTurnMessages(prompt))
           \/ (\E text \in {"plain", "other"} : ReplaceSystemHead(text))
           \/ (\E target \in 0..promptIndex - 1 : RewindWrite(target))
  <2>1. UNCHANGED <<turn, late, prompts, promptIndex>>
    BY <1>4 DEF PushReminder, PushUserMessage, TakeTurnMessages, ReplaceSystemHead, RewindWrite,
       ReplaceConversation, clientVars
  <2> QED
    BY <1>2, <2>1
<1>5. CASE StartPrompt
  <2>1. /\ late = <<>> /\ late' = late /\ prompts' = prompts + 1 /\ promptIndex' = promptIndex
        /\ turn' = [phase |-> "started", prompt |-> 0, pristine |-> TRUE, pending |-> {}]
    BY <1>5 DEF StartPrompt, Idle, chatVars
  <2>2. turn' \in Turns /\ prompts' >= 1 /\ promptIndex' < prompts'
    BY <1>1, <2>1, Bounds DEF Turns, CountsTyped
  <2> QED
    BY <2>1, <2>2 DEF TurnTyped, Active
<1>6. CASE IncrementPromptIndex
  <2>1. /\ turn.phase = "started" /\ UNCHANGED <<late, prompts>>
        /\ turn' = [turn EXCEPT !.phase = "indexed", !.prompt = promptIndex]
    BY <1>6 DEF IncrementPromptIndex
  <2>2. /\ turn' \in Turns /\ turn'.phase = "indexed" /\ turn'.pending = turn.pending
    BY <1>1, <2>1 DEF TurnTyped, CountsTyped, Turns
  <2> QED
    BY <1>1, <2>1, <2>2 DEF TurnTyped, Active
<1>7. ASSUME NEW phase \in {"captured", "ready", "sampling"}, Goto(phase), UNCHANGED <<late, prompts>>,
             turn.phase \notin {"idle", "tools"}
      PROVE  TurnTyped'
  <2>1. /\ turn' \in Turns /\ turn'.phase = phase /\ turn'.pending = turn.pending
    BY <1>1, <1>7 DEF Goto, TurnTyped, Turns
  <2> QED
    BY <1>1, <1>7, <2>1 DEF TurnTyped, Active
<1>8. CASE BeginTurnCapture
  BY <1>7, <1>8 DEF BeginTurnCapture
<1>9. CASE PushPrompt
  BY <1>7, <1>9 DEF PushPrompt
<1>10. CASE BuildConversationRequest
  BY <1>7, <1>10 DEF BuildConversationRequest
<1>11. CASE CompactReplace
  <2>1. /\ turn' = [turn EXCEPT !.pristine = FALSE] /\ UNCHANGED <<late, prompts, promptIndex>>
    BY <1>11 DEF CompactReplace, ReplaceConversation
  <2>2. turn' \in Turns /\ turn'.phase = turn.phase /\ turn'.pending = turn.pending /\ ~turn'.pristine
    BY <1>1, <2>1 DEF TurnTyped, Turns
  <2> QED
    BY <1>1, <2>1, <2>2 DEF TurnTyped, Active
<1>12. ASSUME NEW calls \in CallSets, PushAssistantResponse(calls)  PROVE TurnTyped'
  <2>1. /\ turn.phase = "sampling" /\ UNCHANGED <<late, prompts>>
        /\ turn' = [turn EXCEPT !.phase = IF calls = {} THEN "answered" ELSE "tools",
                                !.pending = calls, !.pristine = FALSE]
    BY <1>12 DEF PushAssistantResponse
  <2>2. calls \in SUBSET CallIds
    BY Bounds
  <2>3. /\ turn' \in Turns /\ turn'.pending = calls /\ ~turn'.pristine
        /\ turn'.phase = IF calls = {} THEN "answered" ELSE "tools"
    BY <1>1, <2>1, <2>2 DEF TurnTyped, Turns
  <2> QED
    BY <1>1, <2>1, <2>3 DEF TurnTyped, Active
<1>13. ASSUME NEW c \in CallIds, PushToolResult(c)  PROVE TurnTyped'
  <2>1. /\ turn.phase = "tools" /\ c \in turn.pending /\ UNCHANGED <<late, prompts>>
        /\ turn' = [turn EXCEPT !.pending = turn.pending \ {c},
                                !.phase = IF turn.pending = {c} THEN "ready" ELSE "tools"]
    BY <1>13 DEF PushToolResult
  <2>2. /\ turn' \in Turns /\ turn'.pending = turn.pending \ {c}
        /\ turn'.phase = IF turn.pending = {c} THEN "ready" ELSE "tools"
    BY <1>1, <2>1 DEF TurnTyped, Turns
  <2>3. turn.pending = {c} <=> turn.pending \ {c} = {}
    BY <2>1
  <2>4. turn'.phase = "tools" <=> turn'.pending # {}
    BY <2>2, <2>3
  <2> QED
    BY <1>1, <2>1, <2>2, <2>4 DEF TurnTyped, Active
<1>14. CASE DeliverLateResult
  <2>1. late' = <<>> /\ UNCHANGED <<turn, prompts, promptIndex>>
    BY <1>14 DEF DeliverLateResult, PushMessage
  <2> QED
    BY <1>1, <2>1 DEF TurnTyped, Active
<1>15. CASE EndTurn \/ CancelTurn \/ Withdraw
  <2>1. /\ turn' = Idle /\ prompts' = prompts
        /\ late' = late \/ \E c \in turn.pending : late' = <<Result(c, "plain")>>
    BY <1>15 DEF EndTurn, CancelTurn, Withdraw, TurnOver
  <2>2. turn' \in Turns /\ turn'.phase = "idle" /\ turn'.pending = {} /\ ~turn'.pristine
    BY <2>1, Bounds DEF Idle, Turns
  <2>3. turn.pending \subseteq CallIds
    BY <1>1 DEF TurnTyped, Turns
  <2> QED
    BY <1>1, <2>1, <2>2, <2>3 DEF TurnTyped, Active
<1>16. CASE RestoreSnapshot
  <2>1. UNCHANGED <<turn, late, prompts>> /\ promptIndex' = rewind.target
    BY <1>16 DEF RestoreSnapshot
  <2>2. rewind.target \in Nat /\ (rewind.target = 0 \/ rewind.target < prompts)
    BY <1>1, <1>16 DEF RestoreSnapshot, RewindTyped, Reads, Snapshots
  <2>3. Active => rewind.target < prompts
    BY <1>1, <2>2 DEF TurnTyped, CountsTyped
  <2> QED
    BY <1>1, <2>1, <2>3 DEF TurnTyped, Active
<1>17. CASE Crash
  <2>1. turn' = Idle /\ late' = <<>>
    BY <1>17 DEF Crash
  <2>2. turn' \in Turns /\ turn'.phase = "idle" /\ turn'.pending = {} /\ ~turn'.pristine
    BY <2>1, Bounds DEF Idle, Turns
  <2> QED
    BY <2>1, <2>2 DEF TurnTyped, Active
<1>18. CASE Restart
  <2>1. UNCHANGED <<turn, late, prompts>> /\ ~up
    BY <1>18 DEF Restart
  <2>2. turn.phase = "idle"
    BY <2>1 DEF TypeInv, DownInv, Active
  <2> QED
    BY <1>2, <2>1, <2>2
<1> QED
  BY <1>3, <1>4, <1>5, <1>6, <1>8, <1>9, <1>10, <1>11, <1>12, <1>13, <1>14, <1>15, <1>16, <1>17, <1>18 DEF Next

\* Each step keeps what a rewind holds: a conversation with its head, and a target it may restore.
LEMMA RewindStep ==
    ASSUME TypeInv, [Next]_vars
    PROVE  RewindTyped'
<1>1. RewindTyped /\ CountsTyped /\ FlagsTyped /\ ChatTyped /\ TurnTyped
  BY DEF TypeInv
<1>2. ASSUME rewind' = rewind, prompts' = prompts  PROVE RewindTyped'
  BY <1>1, <1>2 DEF RewindTyped
<1>3. CASE \/ IncrementPromptIndex \/ BeginTurnCapture \/ PushPrompt \/ PushReminder \/ CompactRead
           \/ CompactAbandoned \/ CompactContext \/ CompactReplace \/ BuildConversationRequest
           \/ (\E calls \in CallSets : PushAssistantResponse(calls))
           \/ (\E c \in CallIds : PushToolResult(c)) \/ EndTurn \/ CancelTurn \/ DeliverLateResult
  <2>1. rewind' = rewind /\ prompts' = prompts
    BY <1>3 DEF IncrementPromptIndex, BeginTurnCapture, PushPrompt, PushReminder, CompactRead,
       CompactAbandoned, CompactContext, CompactReplace, BuildConversationRequest, PushAssistantResponse,
       PushToolResult, EndTurn, CancelTurn, TurnOver, DeliverLateResult, clientVars
  <2> QED
    BY <1>2, <2>1
<1>4. CASE \/ (\E prompt \in owed : TakeTurnMessages(prompt)) \/ RepairHistory
           \/ (\E text \in {"plain", "other"} : ReplaceSystemHead(text))
           \/ PersistMsg \/ PersistFails \/ RepairOnDisk \/ Restart \/ UNCHANGED vars
  <2>1. rewind' = rewind /\ prompts' = prompts
    BY <1>4 DEF TakeTurnMessages, RepairHistory, ReplaceSystemHead, PersistMsg, PersistFails, RepairOnDisk,
       Restart, clientVars, vars
  <2> QED
    BY <1>2, <2>1
<1>5. CASE StartPrompt
  <2>1. rewind' = rewind /\ prompts' = prompts + 1
    BY <1>5 DEF StartPrompt
  <2>2. CASE rewind = None
    BY <2>1, <2>2 DEF RewindTyped
  <2>3. CASE rewind # None
    <3>1. rewind.step = "snapshot" => rewind.target \in Nat
      BY <1>1, <2>3 DEF RewindTyped, Reads, Snapshots
    <3> QED
      BY <1>1, <2>1, <2>3, <3>1 DEF RewindTyped, CountsTyped
  <2> QED
    BY <2>2, <2>3
<1>6. CASE Withdraw
  <2> DEFINE target == IF promptIndex = 0 THEN 0 ELSE promptIndex - 1
             cut    == TruncateForPrompt(conversation, target)
  <2>1. /\ rewind' = [step |-> "snapshot", items |-> cut, target |-> target, compacted |-> compacted,
                      astray |-> damaged, withdrawn |-> TRUE]
        /\ prompts' = prompts /\ turn.pristine
    BY <1>6 DEF Withdraw, TurnOver
  <2>2. target \in 0..MaxPrompts /\ target <= prompts /\ (target = 0 \/ target < prompts) /\ target \in Nat
    BY <1>1, Bounds DEF CountsTyped
  <2>3. up
    BY <1>1, <2>1, BusyIsUp DEF TurnTyped
  <2>4. conversation \in Seq(Item) /\ Headed(conversation)
    BY <1>1, <2>3 DEF ChatTyped
  <2> HIDE DEF target
  <2>5. cut \in Seq(Item) /\ Headed(cut)
    BY <2>2, <2>4, TruncateShape
  <2> HIDE DEF cut
  <2>6. rewind' \in Snapshots
    BY <1>1, <2>1, <2>2, <2>5 DEF Snapshots, FlagsTyped
  <2>7. rewind'.items = cut /\ rewind'.target = target
    BY <2>1
  <2> QED
    BY <2>1, <2>2, <2>5, <2>6, <2>7 DEF RewindTyped
<1>7. CASE RewindRead
  <2>1. rewind' = [step |-> "read", items |-> conversation, astray |-> damaged] /\ up
    BY <1>7 DEF RewindRead
  <2>2. rewind' \in Reads
    BY <1>1, <2>1 DEF Reads, FlagsTyped, ChatTyped
  <2>3. Headed(rewind'.items) /\ rewind'.step = "read"
    BY <1>1, <2>1 DEF ChatTyped
  <2> QED
    BY <2>2, <2>3 DEF RewindTyped
<1>8. ASSUME NEW target \in 0..promptIndex - 1, RewindWrite(target)  PROVE RewindTyped'
  <2>1. /\ rewind' = [step |-> "snapshot", items |-> conversation', target |-> target, compacted |-> compacted,
                      astray |-> damaged', withdrawn |-> FALSE]
        /\ prompts' = prompts /\ ReplaceConversation(TruncateForPrompt(rewind.items, target))
    BY <1>8 DEF RewindWrite
  <2>2. target \in 0..MaxPrompts /\ target < prompts /\ target <= prompts /\ target \in Nat
    BY <1>1, Bounds DEF CountsTyped
  <2>3. rewind.items \in Seq(Item) /\ Headed(rewind.items)
    BY <1>1, <1>8 DEF RewindWrite, RewindTyped, Reads, Snapshots
  <2>4. conversation' = TruncateForPrompt(rewind.items, target)
    BY <2>1 DEF ReplaceConversation
  <2>5. conversation' \in Seq(Item) /\ Headed(conversation')
    BY <2>2, <2>3, <2>4, TruncateShape
  <2>6. damaged' \in BOOLEAN
    BY FlagsStep DEF FlagsTyped
  <2>7. rewind' \in Snapshots
    BY <1>1, <2>1, <2>2, <2>5, <2>6 DEF Snapshots, FlagsTyped
  <2>8. rewind'.items = conversation' /\ rewind'.target = target
    BY <2>1
  <2> QED
    BY <2>1, <2>2, <2>5, <2>7, <2>8 DEF RewindTyped
<1>9. CASE RestoreSnapshot \/ Crash
  <2>1. rewind' = None
    BY <1>9 DEF RestoreSnapshot, Crash
  <2> QED
    BY <2>1 DEF RewindTyped
<1> QED
  BY <1>3, <1>4, <1>5, <1>6, <1>7, <1>8, <1>9 DEF Next

\* Each step keeps what a compaction holds: a history with its head.
LEMMA CompactionStep ==
    ASSUME TypeInv, [Next]_vars
    PROVE  CompactionTyped'
<1>1. CompactionTyped /\ ChatTyped
  BY DEF TypeInv
<1>2. ASSUME compaction' = compaction  PROVE CompactionTyped'
  BY <1>1, <1>2 DEF CompactionTyped
<1>3. CASE \/ StartPrompt \/ IncrementPromptIndex \/ BeginTurnCapture \/ PushPrompt \/ PushReminder
           \/ BuildConversationRequest \/ (\E calls \in CallSets : PushAssistantResponse(calls))
           \/ (\E c \in CallIds : PushToolResult(c)) \/ EndTurn \/ CancelTurn \/ Withdraw
           \/ DeliverLateResult \/ RestoreSnapshot
  <2>1. compaction' = compaction
    BY <1>3 DEF StartPrompt, IncrementPromptIndex, BeginTurnCapture, PushPrompt, PushReminder,
       BuildConversationRequest, PushAssistantResponse, PushToolResult, EndTurn, CancelTurn, Withdraw,
       TurnOver, DeliverLateResult, RestoreSnapshot, clientVars
  <2> QED
    BY <1>2, <2>1
<1>4. CASE \/ (\E prompt \in owed : TakeTurnMessages(prompt)) \/ RepairHistory
           \/ (\E text \in {"plain", "other"} : ReplaceSystemHead(text)) \/ RewindRead
           \/ (\E target \in 0..promptIndex - 1 : RewindWrite(target))
           \/ PersistMsg \/ PersistFails \/ RepairOnDisk \/ Restart \/ UNCHANGED vars
  <2>1. compaction' = compaction
    BY <1>4 DEF TakeTurnMessages, RepairHistory, ReplaceSystemHead, RewindRead, RewindWrite, PersistMsg,
       PersistFails, RepairOnDisk, Restart, clientVars, vars
  <2> QED
    BY <1>2, <2>1
<1>5. CASE CompactRead
  <2> DEFINE first == <<conversation[1]>>
  <2>1. compaction' = [step |-> "sampling", items |-> first] /\ up
    BY <1>5 DEF CompactRead
  <2>2. conversation \in Seq(Item) /\ Len(conversation) >= 1 /\ conversation[1].kind = "system"
    BY <1>1, <2>1 DEF ChatTyped, Headed
  <2>3. conversation[1] \in Item
    BY <2>2, LenProperties
  <2>4. first \in Seq(Item) /\ Len(first) = 1 /\ first[1] = conversation[1]
    BY <2>3
  <2> HIDE DEF first
  <2>5. Headed(first)
    BY <2>2, <2>4 DEF Headed
  <2> QED
    BY <2>1, <2>4, <2>5 DEF CompactionTyped
<1>6. CASE CompactContext
  <2> DEFINE head  == compaction.items[1]
             built == Compacted(head, conversation)
  <2>1. compaction' = [step |-> "built", items |-> built] /\ compaction # None
    BY <1>6 DEF CompactContext
  <2>2. compaction.items \in Seq(Item) /\ Len(compaction.items) >= 1 /\ head.kind = "system"
    BY <1>1, <2>1 DEF CompactionTyped, Headed
  <2>3. head \in Item
    BY <2>2, LenProperties
  <2> HIDE DEF head
  <2>4. built \in Seq(Item) /\ Len(built) >= 1 /\ built[1] = head
    BY <2>3, CompactedShape
  <2> HIDE DEF built
  <2>5. Headed(built)
    BY <2>2, <2>4 DEF Headed
  <2> QED
    BY <2>1, <2>4, <2>5 DEF CompactionTyped
<1>7. CASE CompactAbandoned \/ CompactReplace \/ Crash
  <2>1. compaction' = None
    BY <1>7 DEF CompactAbandoned, CompactReplace, Crash
  <2> QED
    BY <2>1 DEF CompactionTyped
<1> QED
  BY <1>3, <1>4, <1>5, <1>6, <1>7 DEF Next

\* Each step leaves a process that is down with nothing in it.
LEMMA DownStep ==
    ASSUME TypeInv, [Next]_vars
    PROVE  DownInv'
<1>1. DownInv /\ TurnTyped
  BY DEF TypeInv
<1>2. /\ Active => up
      /\ late # <<>> => up
      /\ owed # {} => up
      /\ rewind # None => up
      /\ compaction # None => up
      /\ queue # <<>> => up
  BY BusyIsUp
<1>3. ASSUME up, up' = up  PROVE DownInv'
  BY <1>3 DEF DownInv
<1>4. CASE StartPrompt \/ PushReminder \/ CompactRead \/ RepairHistory \/ RewindRead
           \/ (\E text \in {"plain", "other"} : ReplaceSystemHead(text))
  <2>1. up /\ up' = up
    BY <1>4 DEF StartPrompt, PushReminder, CompactRead, RepairHistory, RewindRead, ReplaceSystemHead, clientVars
  <2> QED
    BY <1>3, <2>1
<1>5. CASE \/ IncrementPromptIndex \/ BeginTurnCapture \/ PushPrompt \/ BuildConversationRequest
           \/ (\E calls \in CallSets : PushAssistantResponse(calls))
           \/ (\E c \in CallIds : PushToolResult(c)) \/ EndTurn \/ CancelTurn \/ Withdraw
  <2>1. turn.phase # "idle" /\ up' = up
    BY <1>1, <1>5 DEF IncrementPromptIndex, BeginTurnCapture, PushPrompt, BuildConversationRequest,
       PushAssistantResponse, PushToolResult, EndTurn, CancelTurn, Withdraw, TurnOver, TurnTyped, Active
  <2>2. up
    BY <1>2, <2>1 DEF Active
  <2> QED
    BY <1>3, <2>1, <2>2
<1>6. CASE \/ CompactAbandoned \/ CompactContext \/ CompactReplace \/ DeliverLateResult
           \/ (\E prompt \in owed : TakeTurnMessages(prompt))
           \/ (\E target \in 0..promptIndex - 1 : RewindWrite(target)) \/ RestoreSnapshot
           \/ PersistMsg \/ PersistFails
  <2>1. /\ compaction # None \/ late # <<>> \/ owed # {} \/ rewind # None \/ queue # <<>>
        /\ up' = up
    BY <1>6 DEF CompactAbandoned, CompactContext, CompactReplace, DeliverLateResult, TakeTurnMessages,
       RewindWrite, RestoreSnapshot, PersistMsg, PersistFails, clientVars
  <2>2. up
    BY <1>2, <2>1
  <2> QED
    BY <1>3, <2>1, <2>2
<1>7. CASE Crash
  BY <1>7 DEF Crash, DownInv, Active, Idle
<1>8. CASE RepairOnDisk \/ UNCHANGED vars
  <2>1. UNCHANGED <<conversation, capture, queue, turn, late, owed, rewind, compaction, damaged, diverged, up>>
    BY <1>8 DEF RepairOnDisk, chatVars, clientVars, storeVars, ghostVars, damageVars, vars
  <2> QED
    BY <1>1, <2>1 DEF DownInv, Active
<1>9. CASE Restart
  <2>1. up' = TRUE
    BY <1>9 DEF Restart
  <2> QED
    BY <2>1 DEF DownInv
<1> QED
  BY <1>4, <1>5, <1>6, <1>7, <1>8, <1>9 DEF Next

(***************************************************************************)
(* The inductive type invariant: beyond the types, what is up has a system  *)
(* head, and so has all that a rewind or a compaction will write back; a    *)
(* turn and the index it takes stay within the prompts started; a late      *)
(* result and a running turn exclude each other.                            *)
(***************************************************************************)
THEOREM TypeInvariant == Spec => []TypeInv
<1>1. Init => TypeInv
  <2> SUFFICES ASSUME Init  PROVE TypeInv
    OBVIOUS
  <2>1. disk \in Seq(Item) /\ RealPrompts(disk, 1) <= MaxPrompts /\ RealPrompts(disk, 1) \in Nat
    BY Histories, PromptsCounted DEF Init
  <2>2. ChatTyped
    BY <2>1, EmptySeq DEF Init, ChatTyped, CaptureOf
  <2>3. FlagsTyped
    BY DEF Init, FlagsTyped
  <2>4. CountsTyped
    BY <2>1, Bounds DEF Init, CountsTyped
  <2>5. TurnTyped
    BY Bounds DEF Init, TurnTyped, Idle, Turns, Active
  <2>6. RewindTyped /\ CompactionTyped
    BY DEF Init, RewindTyped, CompactionTyped
  <2>7. DownInv
    BY DEF Init, DownInv, Active, Idle
  <2> QED
    BY <2>2, <2>3, <2>4, <2>5, <2>6, <2>7 DEF TypeInv
<1>2. TypeInv /\ [Next]_vars => TypeInv'
  BY ChatTypedStep, FlagsStep, CountsStep, TurnStep, RewindStep, CompactionStep, DownStep DEF TypeInv
<1> QED
  BY <1>1, <1>2, PTL DEF Spec

(***************************************************************************)
(* Type correctness: every value stays in its set, the start of a captured  *)
(* turn stays inside the conversation, so that turn_tail's out-of-range arm *)
(* is not taken.                                                            *)
(***************************************************************************)
THEOREM TypeCorrect == Spec => []TypeOK
<1>1. TypeInv => TypeOK
  <2> SUFFICES ASSUME TypeInv  PROVE TypeOK
    OBVIOUS
  <2>0. ChatTyped /\ FlagsTyped /\ CountsTyped /\ TurnTyped /\ RewindTyped /\ CompactionTyped
    BY DEF TypeInv
  <2>1. conversation \in Seq(Item) /\ disk \in Seq(Item)
        /\ (capture = None \/ capture \in [offset : 0..Len(conversation), saved : Seq(Item)])
        /\ queue \in Seq([op : {"append", "replace"}, items : Seq(Item)])
    BY <2>0 DEF ChatTyped, CaptureOf, Messages
  <2>2. late \in Seq(Item)
    <3>1. CASE late = <<>>
      BY <3>1, EmptySeq
    <3>2. CASE late # <<>>
      <4>1. PICK c \in CallIds : late = <<Result(c, "plain")>>
        BY <2>0, <3>2 DEF TurnTyped
      <4>2. Result(c, "plain") \in Item
        BY PushedItems
      <4> HIDE DEF Item
      <4> QED
        BY <4>1, <4>2
    <3> QED
      BY <3>1, <3>2
  <2>3. /\ turn.phase \in {"idle", "started", "indexed", "captured", "ready", "sampling", "tools", "answered"}
        /\ (turn.phase = "tools") <=> (turn.pending # {})
    BY <2>0 DEF TurnTyped, Turns
  <2>4. owed \subseteq 1..MaxPrompts
    BY <2>0, Bounds DEF CountsTyped
  <2>5. rewind = None \/ (rewind.step \in {"read", "snapshot"} /\ rewind.items \in Seq(Item))
    BY <2>0 DEF RewindTyped, Reads, Snapshots
  <2>6. compaction = None \/ (compaction.step \in {"sampling", "built"} /\ compaction.items \in Seq(Item))
    BY <2>0 DEF CompactionTyped
  <2> QED
    BY <2>0, <2>1, <2>2, <2>3, <2>4, <2>5, <2>6 DEF TypeOK, CountsTyped, FlagsTyped
<1> QED
  BY <1>1, TypeInvariant, PTL

-----------------------------------------------------------------------------
(* The turn capture. *)

Steps == INSTANCE TurnLog_proofs WITH Items <- Item, NoCapture <- None

\* A conversation that gives way, with what is pushed behind it, is a rewrite of the log.
LEMMA RewriteIsLogged ==
    ASSUME ChatTyped, conversation' \in Seq(Item),
           NEW kept \in Seq(Item), Len(kept) <= Len(conversation'),
           capture' = Recaptured(conversation, kept),
           pushed' = IF capture = None THEN <<>>
                     ELSE pushed \o SubSeq(conversation', Len(kept) + 1, Len(conversation'))
    PROVE  LogStep
<1> DEFINE n     == Len(kept)
           items == SubSeq(conversation', 1, n)
           new   == SubSeq(conversation', n + 1, Len(conversation'))
<1>1. n \in Nat /\ Len(conversation') \in Nat /\ n \in 0..Len(conversation')
  BY LenProperties
<1>2. items \o new = conversation'
  <2>1. 1 \in 1..Len(conversation') + 1 /\ n \in 1 - 1..Len(conversation')
        /\ Len(conversation') \in n..Len(conversation')
    BY <1>1
  <2>2. items \o new = SubSeq(conversation', 1, Len(conversation'))
    BY <2>1, ConcatAdjacentSubSeq
  <2> QED
    BY <2>2, SubSeqFull
<1>3. Len(items) = n
  <2>1. \A k \in 1..n : conversation'[k] \in Item
    BY <1>1, LenProperties
  <2>2. Len(items) = IF 1 <= n THEN n - 1 + 1 ELSE 0
    BY <1>1, <2>1, SubSeqProperties
  <2> QED
    BY <1>1, <2>2
<1>4. CASE capture = None
  <2>1. capture' = capture /\ pushed' = pushed
    BY <1>4 DEF ChatTyped, Recaptured
  <2>2. Log!Rewrite(items, new)
    BY <1>2, <1>4, <2>1 DEF Log!Rewrite
  <2> QED
    BY <1>1, <2>2 DEF LogStep
<1>5. CASE capture # None
  <2>1. capture' = [offset |-> n, saved |-> Log!Captured] /\ pushed' = pushed \o new
    BY <1>5 DEF Recaptured, Log!Captured
  <2>2. Log!Rewrite(items, new)
    BY <1>2, <1>3, <1>5, <2>1 DEF Log!Rewrite
  <2> QED
    BY <1>1, <2>2 DEF LogStep
<1> QED
  BY <1>4, <1>5

\* A conversation that gives way with nothing pushed.
LEMMA ReplacementIsLogged ==
    ASSUME ChatTyped, conversation' \in Seq(Item),
           capture' = Recaptured(conversation, conversation'), pushed' = pushed
    PROVE  LogStep
<1> DEFINE n == Len(conversation')
<1>1. n \in Nat /\ n <= n /\ n < n + 1
  BY LenProperties
<1>2. SubSeq(conversation', n + 1, n) = <<>>
  BY <1>1, SubSeqEmpty
<1>3. pushed' = IF capture = None THEN <<>> ELSE pushed \o SubSeq(conversation', n + 1, n)
  <2>1. pushed \o <<>> = pushed
    BY ConcatEmptySeq DEF ChatTyped
  <2> QED
    BY <1>2, <2>1 DEF ChatTyped
<1> QED
  BY <1>1, <1>3, RewriteIsLogged

\* push_message is a push of the log.
LEMMA PushIsLogged ==
    ASSUME ChatTyped, NEW item \in Item, PushMessage(item)
    PROVE  LogStep
<1>1. /\ conversation' = Append(conversation, item) /\ capture' = capture
      /\ pushed' = IF capture = None THEN <<>> ELSE Append(pushed, item)
  BY DEF PushMessage
<1>2. item \in ToSet(conversation')
  <2>1. conversation \in Seq(Item) /\ Len(conversation) \in Nat
    BY LenProperties DEF ChatTyped
  <2>2. conversation' \in Seq(Item) /\ Len(conversation') = Len(conversation) + 1
        /\ conversation'[Len(conversation) + 1] = item
    BY <1>1, <2>1, AppendProperties
  <2>3. Len(conversation) + 1 \in DOMAIN conversation'
    BY <2>1, <2>2, LenProperties
  <2> QED
    BY <2>2, <2>3 DEF ToSet
<1>3. Log!Push(item)
  BY <1>1 DEF Log!Push
<1> QED
  BY <1>2, <1>3 DEF LogStep

\* push_user_message is a rewrite of the log, by the repair, with one new item.
LEMMA PushUserIsLogged ==
    ASSUME ChatTyped, up, NEW item \in Item, ~IsResult(item), PushUserMessage(item)
    PROVE  LogStep
<1> DEFINE fixed == Integrity(conversation)
           out   == Pruned(Append(fixed, item))
           n     == Len(fixed)
<1>1. /\ conversation' = out /\ capture' = Recaptured(conversation, fixed)
      /\ pushed' = IF capture = None THEN <<>> ELSE Append(pushed, item)
  BY DEF PushUserMessage
<1>2. fixed \in Seq(Item) /\ out \in Seq(Item) /\ Len(out) = n + 1 /\ out[n + 1] = item
  BY PushUserShape
<1> HIDE DEF fixed, out
<1>3. n \in Nat /\ n <= Len(out)
  BY <1>2, LenProperties
<1>4. SubSeq(out, n + 1, n + 1) = <<item>>
  <2> DEFINE last == SubSeq(out, n + 1, n + 1)
             one  == <<item>>
  <2>1. n + 1 \in Int /\ \A i \in n + 1..n + 1 : i = n + 1
    BY <1>3
  <2>2. \A i \in n + 1..n + 1 : out[i] \in Item
    BY <1>2, <2>1
  <2>3. /\ last \in Seq(Item)
        /\ Len(last) = IF n + 1 <= n + 1 THEN (n + 1) - (n + 1) + 1 ELSE 0
        /\ \A i \in 1..(n + 1) - (n + 1) + 1 : last[i] = out[(n + 1) + i - 1]
    BY <2>1, <2>2, SubSeqProperties
  <2>4. (n + 1) - (n + 1) + 1 = 1 /\ n + 1 <= n + 1 /\ (n + 1) + 1 - 1 = n + 1
    BY <1>3
  <2>5. Len(last) = 1 /\ last[1] = item
    BY <1>2, <2>3, <2>4
  <2>6. one \in Seq(Item) /\ Len(one) = 1 /\ one[1] = item
    OBVIOUS
  <2> HIDE DEF last, one
  <2>7. \A i \in 1..1 : last[i] = one[i]
    BY <2>5, <2>6
  <2>8. last = one
    BY <2>3, <2>5, <2>6, <2>7, SeqEqual
  <2> QED
    BY <2>8 DEF last, one
<1>5. pushed' = IF capture = None THEN <<>> ELSE pushed \o SubSeq(conversation', n + 1, Len(conversation'))
  <2>1. Append(pushed, item) = pushed \o <<item>>
    BY AppendIsConcat DEF ChatTyped
  <2> QED
    BY <1>1, <1>2, <1>4, <2>1
<1> QED
  BY <1>1, <1>2, <1>3, <1>5, RewriteIsLogged

\* Each step that loses no tail is a step of the log, or changes nothing the log sees.
LEMMA StepIsLogged ==
    ASSUME TypeInv, [Next]_vars
    PROVE  \/ tailLost' \/ UNCHANGED <<conversation, capture, pushed>>
           \/ LogStep
<1>1. ChatTyped /\ TurnTyped /\ CountsTyped /\ RewindTyped /\ CompactionTyped
  BY DEF TypeInv
<1>2. /\ Active => up
      /\ late # <<>> => up
  BY BusyIsUp
<1>3. conversation' \in Seq(Item)
  BY ChatTypedStep DEF ChatTyped
<1>4. CASE \/ StartPrompt \/ IncrementPromptIndex \/ CompactRead \/ CompactAbandoned \/ CompactContext
           \/ EndTurn \/ CancelTurn \/ Withdraw \/ RewindRead \/ PersistMsg \/ PersistFails
           \/ RepairOnDisk \/ UNCHANGED vars
  BY <1>4 DEF StartPrompt, IncrementPromptIndex, CompactRead, CompactAbandoned, CompactContext,
     EndTurn, CancelTurn, Withdraw, TurnOver, RewindRead, PersistMsg, PersistFails, RepairOnDisk,
     vars, chatVars, ghostVars
<1>5. CASE BeginTurnCapture
  BY <1>5 DEF BeginTurnCapture, LogStep, Log!Begin
<1>6. CASE PushPrompt
  <2>1. turn.prompt \in 0..MaxPrompts /\ up
    BY <1>1, <1>2, <1>6 DEF PushPrompt, TurnTyped, Turns, Active
  <2>2. PushUserMessage(User(turn.prompt))
    BY <1>6 DEF PushPrompt
  <2> QED
    BY <1>1, <2>1, <2>2, PushedItems, PushUserIsLogged
<1>7. CASE PushReminder
  BY <1>1, <1>7, PushedItems, PushUserIsLogged DEF PushReminder
<1>8. CASE CompactReplace \/ (\E text \in {"plain", "other"} : ReplaceSystemHead(text))
           \/ (\E target \in 0..promptIndex - 1 : RewindWrite(target))
  <2>1. capture' = Recaptured(conversation, conversation') /\ pushed' = pushed
    BY <1>8 DEF CompactReplace, ReplaceSystemHead, RewindWrite, ReplaceConversation
  <2> QED
    BY <1>1, <1>3, <2>1, ReplacementIsLogged
<1>9. CASE BuildConversationRequest
  <2>1. capture' = Recaptured(conversation, conversation') /\ pushed' = pushed
    BY <1>9 DEF BuildConversationRequest
  <2> QED
    BY <1>1, <1>3, <2>1, ReplacementIsLogged
<1>10. CASE RestoreSnapshot
  <2>1. capture' = Recaptured(conversation, conversation') /\ pushed' = pushed
    BY <1>10 DEF RestoreSnapshot
  <2> QED
    BY <1>1, <1>3, <2>1, ReplacementIsLogged
<1>11. ASSUME NEW calls \in CallSets, PushAssistantResponse(calls)  PROVE LogStep
  <2>1. PushMessage(Assistant(SetToSeq(calls))) /\ calls \in SUBSET CallIds
    BY <1>11, Bounds DEF PushAssistantResponse
  <2> QED
    BY <1>1, <2>1, CallsListed, PushIsLogged
<1>12. ASSUME NEW c \in CallIds, PushToolResult(c)  PROVE LogStep
  BY <1>1, <1>12, PushedItems, PushIsLogged DEF PushToolResult
<1>13. CASE DeliverLateResult
  <2>1. late # <<>> /\ PushMessage(late[1])
    BY <1>13 DEF DeliverLateResult
  <2>2. PICK c \in CallIds : late = <<Result(c, "plain")>>
    BY <1>1, <2>1 DEF TurnTyped
  <2>3. late[1] = Result(c, "plain")
    BY <2>2
  <2> QED
    BY <1>1, <2>1, <2>3, PushedItems, PushIsLogged
<1>14. CASE Crash \/ (\E prompt \in owed : TakeTurnMessages(prompt))
  <2>1. capture' = None /\ pushed' = <<>>
    BY <1>14 DEF Crash, TakeTurnMessages
  <2> QED
    BY <1>3, <2>1 DEF LogStep, Log!Close
<1>15. CASE RepairHistory
  <2> DEFINE fixed == Repaired(conversation)
  <2>1. CASE fixed = conversation
    BY <1>15, <2>1 DEF RepairHistory, chatVars
  <2>2. CASE fixed # conversation
    <3>1. /\ conversation' = fixed /\ pushed' = pushed
          /\ tailLost' = (tailLost \/ Recaptured(conversation, fixed) # capture')
      BY <1>15, <2>2 DEF RepairHistory
    <3>2. tailLost' \/ capture' = Recaptured(conversation, conversation')
      <4> DEFINE rec == Recaptured(conversation, fixed)
      <4>1. rec = Recaptured(conversation, conversation')
        BY <3>1
      <4>2. tailLost' = (tailLost \/ rec # capture')
        BY <3>1
      <4> HIDE DEF rec, fixed
      <4>3. CASE rec = capture'
        BY <4>1, <4>3
      <4>4. CASE rec # capture'
        <5>1. tailLost \/ rec # capture'
          BY <4>4
        <5> QED
          BY <4>2, <5>1, Zenon
      <4> QED
        BY <4>3, <4>4
    <3> QED
      BY <1>1, <1>3, <3>1, <3>2, ReplacementIsLogged
  <2> QED
    BY <2>1, <2>2
<1>16. CASE Restart
  <2>1. ~up /\ UNCHANGED <<capture, pushed>>
    BY <1>16 DEF Restart
  <2>2. capture = None /\ pushed = <<>>
    BY <1>1, <2>1 DEF TypeInv, DownInv, ChatTyped
  <2> QED
    BY <1>3, <2>1, <2>2 DEF LogStep, Log!Close
<1> QED
  BY <1>4, <1>5, <1>6, <1>7, <1>8, <1>9, <1>10, <1>11, <1>12, <1>13, <1>14, <1>15, <1>16 DEF Next

(***************************************************************************)
(* Every command of the actor is, for its turn capture, one step of the     *)
(* abstract log of TurnLog - the snapshot-then-rebase of every rewrite, the *)
(* pushes, the begin and the take - unless the lossy repair is involved.    *)
(***************************************************************************)
THEOREM RefinesTurnLog == Spec => ImplementsTurnLog
<1>1. TypeInv /\ [Next]_vars
      => [tailLost \/ tailLost' \/ LogStep]_<<conversation, capture, pushed>>
  BY StepIsLogged
<1> QED
  BY <1>1, TypeInvariant, PTL DEF Spec, ImplementsTurnLog

(***************************************************************************)
(* A live turn capture delivers exactly what was pushed since it began, in  *)
(* conversations of any length and however often they were rewritten, as    *)
(* long as the out-of-band repair took no tail from under it.               *)
(***************************************************************************)
THEOREM CaptureIsExact == Spec => []CaptureExact
<1>1. Init => CaptureExact
  BY DEF Init, CaptureExact, Log!CaptureExact
<1>2. ASSUME TypeInv, TypeInv', CaptureExact, [Next]_vars  PROVE CaptureExact'
  <2>1. ChatTyped /\ FlagsTyped /\ ChatTyped' /\ FlagsTyped'
    BY <1>2 DEF TypeInv
  <2>2. CASE tailLost'
    BY <2>2 DEF CaptureExact
  <2>3. CASE tailLost /\ ~tailLost'
    <3>1. \/ BeginTurnCapture \/ Crash \/ \E prompt \in owed : TakeTurnMessages(prompt)
      BY <1>2, <2>3 DEF Next, vars, chatVars, storeVars, clientVars, ghostVars, StartPrompt,
         IncrementPromptIndex, PushPrompt, PushReminder, PushUserMessage, CompactRead, CompactAbandoned,
         CompactContext, CompactReplace, ReplaceConversation, BuildConversationRequest,
         PushAssistantResponse, PushMessage, PushToolResult, EndTurn, CancelTurn, Withdraw, TurnOver,
         DeliverLateResult, RepairHistory, ReplaceSystemHead, RewindRead, RewindWrite, RestoreSnapshot,
         PersistMsg, PersistFails, RepairOnDisk, Restart
    <3>2. CASE BeginTurnCapture
      <4>1. /\ capture' = [offset |-> Len(conversation), saved |-> <<>>] /\ pushed' = <<>>
            /\ conversation' = conversation
        BY <3>2 DEF BeginTurnCapture
      <4>2. Log!TurnTail(conversation, Len(conversation)) = <<>>
        BY <2>1, SubSeqEmpty, LenProperties DEF ChatTyped, Log!TurnTail
      <4>3. <<>> \o <<>> = <<>>
        BY EmptySeq, ConcatEmptySeq
      <4> QED
        BY <4>1, <4>2, <4>3 DEF CaptureExact, Log!CaptureExact, Log!Captured
    <3>3. CASE capture' = None
      BY <3>3 DEF CaptureExact, Log!CaptureExact
    <3> QED
      BY <3>1, <3>2, <3>3 DEF Crash, TakeTurnMessages
  <2>4. CASE ~tailLost /\ ~tailLost'
    <3>1. LogStep \/ UNCHANGED <<conversation, capture, pushed>>
      BY <1>2, <2>4, StepIsLogged
    <3>2. Steps!CaptureExact
      BY <1>2, <2>4 DEF CaptureExact, Log!CaptureExact, Log!Captured, Log!TurnTail,
         Steps!CaptureExact, Steps!Captured, Steps!TurnTail
    <3>3. Steps!TypeOK
      BY <2>1 DEF ChatTyped, CaptureOf, Steps!TypeOK
    <3>4. CASE UNCHANGED <<conversation, capture, pushed>>
      BY <1>2, <2>4, <3>4 DEF CaptureExact, Log!CaptureExact, Log!Captured
    <3>5. CASE LogStep
      <4>1. ASSUME NEW item \in ToSet(conversation')  PROVE item \in Item
        BY <2>1, LenProperties DEF ChatTyped, ToSet
      <4>2. ASSUME NEW n \in 0..Len(conversation')
            PROVE  /\ SubSeq(conversation', 1, n) \in Seq(Item)
                   /\ SubSeq(conversation', n + 1, Len(conversation')) \in Seq(Item)
        <5>1. Len(conversation') \in Nat /\ \A k \in 1..Len(conversation') : conversation'[k] \in Item
          BY <2>1, LenProperties DEF ChatTyped
        <5>2. (\A k \in 1..n : conversation'[k] \in Item)
              /\ \A k \in n + 1..Len(conversation') : conversation'[k] \in Item
          BY <5>1
        <5> QED
          BY <5>1, <5>2, SubSeqProperties
      <4>3. ASSUME Log!Begin  PROVE Steps!Next
        <5>1. Steps!Begin
          BY <4>3 DEF Log!Begin, Steps!Begin
        <5> QED
          BY <5>1 DEF Steps!Next
      <4>4. ASSUME Log!Close  PROVE Steps!Next
        <5>1. Steps!Close
          BY <4>4 DEF Log!Close, Steps!Close
        <5> QED
          BY <5>1 DEF Steps!Next
      <4>5. ASSUME NEW item \in ToSet(conversation'), Log!Push(item)  PROVE Steps!Next
        BY <4>1, <4>5 DEF Log!Push, Steps!Push, Steps!Next
      <4>6. ASSUME NEW n \in 0..Len(conversation'),
                   Log!Rewrite(SubSeq(conversation', 1, n), SubSeq(conversation', n + 1, Len(conversation')))
            PROVE  Steps!Next
        <5>1. Steps!Rewrite(SubSeq(conversation', 1, n), SubSeq(conversation', n + 1, Len(conversation')))
          BY <4>6 DEF Log!Rewrite, Log!Captured, Log!TurnTail, Steps!Rewrite, Steps!Captured, Steps!TurnTail
        <5> QED
          BY <4>2, <5>1 DEF Steps!Next
      <4>7. Steps!Next
        BY <3>5, <4>3, <4>4, <4>5, <4>6 DEF LogStep, Steps!Next
      <4>8. Steps!CaptureExact'
        BY <3>2, <3>3, <4>7, Steps!StepKeepsCapture
      <4> QED
        BY <4>8 DEF CaptureExact, Log!CaptureExact, Log!Captured, Log!TurnTail,
           Steps!CaptureExact, Steps!Captured, Steps!TurnTail
    <3> QED
      BY <3>1, <3>4, <3>5
  <2> QED
    BY <2>1, <2>2, <2>3, <2>4 DEF FlagsTyped
<1> QED
  BY <1>1, <1>2, TypeInvariant, PTL DEF Spec

-----------------------------------------------------------------------------
(* What a handler sends the persistence actor. *)

NeatHistories == {items \in Seq(Item) : Neat(items)}

\* A file like `file` becomes `out` when these messages reach it, by way of histories as neat
\* as the two are.
Told(file, msgs, out) ==
    /\ msgs \in Seq(Messages)
    /\ Replayed(file, msgs) = out
    /\ Neat(file) /\ Neat(out) => Safe(file, msgs, NeatHistories)

\* What changes the conversation is sent, all of it.
Tells == \E msgs : Persist(msgs) /\ Told(conversation, msgs, conversation')

\* One message tells of one push, one replacement, or of a pass that changed something.
LEMMA ToldOnce ==
    ASSUME NEW file \in Seq(Item)
    PROVE  /\ \A item \in Item : Told(file, <<AppendMsg(item)>>, Append(file, item))
           /\ \A items \in Seq(Item) : Told(file, <<ReplaceMsg(items)>>, items)
           /\ \A items \in Seq(Item) : Told(file, Changes(file, items), items)
<1>1. ASSUME NEW m \in Messages, NEW out \in Seq(Item), Applied(file, m) = out
      PROVE  Told(file, <<m>>, out)
  <2>1. Replayed(file, <<m>>) = out
    BY <1>1, ReplayOne
  <2>2. ASSUME Neat(file), Neat(out)  PROVE Safe(file, <<m>>, NeatHistories)
    <3>1. file \in NeatHistories /\ Applied(file, m) \in NeatHistories
      BY <1>1, <2>2 DEF NeatHistories
    <3> QED
      BY <3>1, ReplayOne
  <2>3. <<m>> \in Seq(Messages)
    OBVIOUS
  <2> QED
    BY <2>1, <2>2, <2>3 DEF Told
<1>2. ASSUME NEW item \in Item  PROVE Told(file, <<AppendMsg(item)>>, Append(file, item))
  <2>1. <<item>> \in Seq(Item)
    OBVIOUS
  <2>2. AppendMsg(item) \in Messages
    BY <2>1 DEF AppendMsg, Messages
  <2>3. Append(file, item) = file \o <<item>> /\ Append(file, item) \in Seq(Item)
    BY AppendIsConcat, AppendProperties
  <2>4. Applied(file, AppendMsg(item)) = Append(file, item)
    BY <2>3 DEF Applied, AppendMsg
  <2> QED
    BY <1>1, <2>2, <2>3, <2>4
<1>3. ASSUME NEW items \in Seq(Item)  PROVE Told(file, <<ReplaceMsg(items)>>, items)
  <2>1. ReplaceMsg(items) \in Messages /\ Applied(file, ReplaceMsg(items)) = items
    BY DEF Applied, ReplaceMsg, Messages
  <2> QED
    BY <1>1, <2>1
<1>4. ASSUME NEW items \in Seq(Item)  PROVE Told(file, Changes(file, items), items)
  <2>1. CASE file = items
    <3>1. Changes(file, items) = <<>>
      BY <2>1 DEF Changes
    <3>2. Replayed(file, <<>>) = items
      BY <2>1, ReplayNone
    <3>3. ASSUME Neat(file)  PROVE Safe(file, <<>>, NeatHistories)
      BY <3>3, ReplayNone DEF NeatHistories
    <3> QED
      BY <3>1, <3>2, <3>3, EmptySeq DEF Told
  <2>2. CASE file # items
    BY <1>3, <2>2 DEF Changes
  <2> QED
    BY <2>1, <2>2
<1> QED
  BY <1>2, <1>3, <1>4

\* One message after the other.
LEMMA ToldTwice ==
    ASSUME NEW file \in Seq(Item), NEW between \in Seq(Item), NEW out \in Seq(Item),
           NEW msgs, NEW more, Told(file, msgs, between), Told(between, more, out),
           Neat(file) => Neat(between)
    PROVE  Told(file, msgs \o more, out)
<1>1. msgs \in Seq(Messages) /\ more \in Seq(Messages)
  BY DEF Told
<1>2. msgs \o more \in Seq(Messages)
  BY <1>1, ConcatProperties
<1>3. Replayed(file, msgs) = between /\ Replayed(between, more) = out
  BY DEF Told
<1>4. Replayed(file, msgs \o more) = out
  BY <1>1, <1>3, ReplayConcat
<1>5. ASSUME Neat(file), Neat(out)  PROVE Safe(file, msgs \o more, NeatHistories)
  <2>1. Safe(file, msgs, NeatHistories) /\ Safe(between, more, NeatHistories)
    BY <1>5 DEF Told
  <2> QED
    BY <1>1, <1>3, <2>1, ReplayConcat
<1> QED
  BY <1>2, <1>4, <1>5 DEF Told

\* push_message sends what it appends.
LEMMA PushTells ==
    ASSUME ChatTyped, NEW item \in Item, PushMessage(item)
    PROVE  Tells
<1>1. Told(conversation, <<AppendMsg(item)>>, Append(conversation, item))
  BY ToldOnce DEF ChatTyped
<1>2. conversation' = Append(conversation, item) /\ Persist(<<AppendMsg(item)>>)
  BY DEF PushMessage
<1> QED
  BY <1>1, <1>2 DEF Tells

\* push_user_message sends what it appends, around a repair and a pruning that send only what they changed.
LEMMA PushUserTells ==
    ASSUME ChatTyped, up, NEW item \in Item, ~IsResult(item), PushUserMessage(item)
    PROVE  /\ Tells
           /\ Neat(conversation) => Neat(conversation')
<1> DEFINE fixed  == Integrity(conversation)
           grown  == Append(fixed, item)
           pruned == Pruned(grown)
           first  == Changes(conversation, fixed)
           last   == Changes(grown, pruned)
<1>1. conversation' = pruned /\ Persist(first \o <<AppendMsg(item)>> \o last)
  BY DEF PushUserMessage
<1>2. /\ fixed \in Seq(Item) /\ grown \in Seq(Item) /\ pruned \in Seq(Item)
      /\ Alike(grown, pruned)
  BY PushUserShape
<1>3. conversation \in Seq(Item) /\ (Neat(conversation) => Neat(fixed))
  BY IntegritySound DEF ChatTyped
<1>4. Neat(fixed) => Neat(grown)
  BY <1>2, NeatAppend
<1>5. Neat(grown) => Neat(pruned)
  <2> HIDE DEF grown, pruned
  <2> QED  BY <1>2, AlikeKeeps
<1>6. /\ Told(conversation, first, fixed)
      /\ Told(fixed, <<AppendMsg(item)>>, grown)
      /\ Told(grown, last, pruned)
  BY <1>2, <1>3, ToldOnce
<1> HIDE DEF fixed, grown, pruned, first, last
<1>7. Told(conversation, first \o <<AppendMsg(item)>>, grown)
  BY <1>2, <1>3, <1>6, ToldTwice
<1>8. Told(conversation, first \o <<AppendMsg(item)>> \o last, pruned)
  BY <1>2, <1>3, <1>4, <1>6, <1>7, ToldTwice
<1> QED
  BY <1>1, <1>3, <1>4, <1>5, <1>8 DEF Tells

\* replace_conversation sends the whole.
LEMMA ReplaceTells ==
    ASSUME ChatTyped, NEW items \in Seq(Item), ReplaceConversation(items)
    PROVE  Tells
<1>1. Told(conversation, <<ReplaceMsg(items)>>, items)
  BY ToldOnce DEF ChatTyped
<1>2. conversation' = items /\ Persist(<<ReplaceMsg(items)>>)
  BY DEF ReplaceConversation
<1> QED
  BY <1>1, <1>2 DEF Tells

\* A request sends what its passes changed.
LEMMA RequestTells ==
    ASSUME ChatTyped, up, BuildConversationRequest
    PROVE  /\ Tells
           /\ Neat(conversation) => Neat(conversation')
           /\ Alike(Integrity(conversation), conversation')
<1> DEFINE fixed == Integrity(conversation)
           led   == WithHead(fixed, "memory")
           first == Changes(conversation, fixed)
           last  == Changes(fixed, led)
<1>1. \/ conversation' = fixed /\ Persist(first)
      \/ conversation' = led /\ Persist(first \o last)
  BY DEF BuildConversationRequest
<1>2. conversation \in Seq(Item) /\ Headed(conversation)
  BY DEF ChatTyped
<1>3. fixed \in Seq(Item) /\ Headed(fixed) /\ (Neat(conversation) => Neat(fixed))
  BY <1>2, IntegritySound, RepairsHeaded
<1>4. led \in Seq(Item) /\ (Neat(fixed) => Neat(led)) /\ Alike(fixed, led)
  BY <1>3, WithHeadShape
<1>5. Told(conversation, first, fixed) /\ Told(fixed, last, led)
  BY <1>2, <1>3, <1>4, ToldOnce
<1>6. Alike(fixed, fixed)
  BY DEF Alike
<1> HIDE DEF fixed, led, first, last
<1>7. Told(conversation, first \o last, led)
  BY <1>2, <1>3, <1>4, <1>5, ToldTwice
<1>8. Tells
  BY <1>1, <1>5, <1>7 DEF Tells
<1>9. Alike(fixed, conversation') /\ (Neat(conversation) => Neat(conversation'))
  BY <1>1, <1>3, <1>4, <1>6
<1> QED
  BY <1>8, <1>9 DEF fixed

\* The out-of-band repair sends the whole, or changes nothing.
LEMMA RepairTells ==
    ASSUME ChatTyped, up, RepairHistory
    PROVE  /\ conversation' = Repaired(conversation) /\ Neat(conversation')
           /\ \/ Tells
              \/ UNCHANGED <<conversation, queue, disk, diverged>>
<1>1. conversation \in Seq(Item) /\ Repaired(conversation) \in Seq(Item) /\ Neat(Repaired(conversation))
  BY RepairedSound DEF ChatTyped
<1>2. CASE Repaired(conversation) = conversation
  BY <1>1, <1>2 DEF RepairHistory, chatVars, storeVars
<1>3. CASE Repaired(conversation) # conversation
  <2>1. conversation' = Repaired(conversation) /\ Persist(<<ReplaceMsg(Repaired(conversation))>>)
    BY <1>3 DEF RepairHistory
  <2>2. Told(conversation, <<ReplaceMsg(Repaired(conversation))>>, Repaired(conversation))
    BY <1>1, ToldOnce
  <2> QED
    BY <1>1, <2>1, <2>2 DEF Tells
<1> QED
  BY <1>2, <1>3

\* What is told reaches the file that the conversation was last told to; a file that had lost
\* touch is back in touch with the next whole history.
LEMMA TellingFollows ==
    ASSUME ChatTyped, up, DiskFollowsMemory, Tells
    PROVE  /\ DiskFollowsMemory'
           /\ diverged' => diverged
           /\ ~diverged /\ Neat(conversation) /\ Neat(conversation') /\ Safe(disk, queue, NeatHistories)
                => Safe(disk', queue', NeatHistories)
<1>1. PICK msgs : Persist(msgs) /\ Told(conversation, msgs, conversation')
  BY DEF Tells
<1>2. /\ conversation \in Seq(Item) /\ disk \in Seq(Item) /\ queue \in Seq(Messages)
      /\ msgs \in Seq(Messages)
  BY <1>1 DEF ChatTyped, Told
<1>3. /\ queue' = queue \o msgs /\ disk' = disk
      /\ diverged' = (diverged /\ ~Replaces(msgs))
  BY <1>1 DEF Persist
<1>4. /\ Replayed(disk, queue) \in Seq(Item)
      /\ Replayed(disk, queue \o msgs) = Replayed(Replayed(disk, queue), msgs)
  BY <1>2, ReplayConcat
<1>5. ASSUME ~diverged'  PROVE Replayed(disk', queue') = conversation'
  <2>1. CASE ~diverged
    BY <1>1, <1>3, <1>4, <2>1 DEF DiskFollowsMemory, Told
  <2>2. CASE Replaces(msgs)
    <3>1. Replayed(Replayed(disk, queue), msgs) = Replayed(conversation, msgs)
      BY <1>2, <1>4, <2>2, ReplayReplaced
    <3> QED
      BY <1>1, <1>3, <1>4, <3>1 DEF Told
  <2> QED
    BY <1>3, <1>5, <2>1, <2>2
<1>6. ASSUME ~diverged, Neat(conversation), Neat(conversation'), Safe(disk, queue, NeatHistories)
      PROVE  Safe(disk', queue', NeatHistories)
  <2>1. Replayed(disk, queue) = conversation
    BY <1>6 DEF DiskFollowsMemory
  <2>2. Safe(conversation, msgs, NeatHistories)
    BY <1>1, <1>6 DEF Told
  <2> QED
    BY <1>2, <1>3, <1>6, <2>1, <2>2, ReplayConcat
<1> QED
  BY <1>3, <1>5, <1>6 DEF DiskFollowsMemory

\* The commands that change the conversation and send what they changed.
Telling ==
    \/ PushPrompt \/ PushReminder \/ CompactReplace \/ BuildConversationRequest
    \/ (\E calls \in CallSets : PushAssistantResponse(calls))
    \/ (\E c \in CallIds : PushToolResult(c))
    \/ DeliverLateResult
    \/ (\E text \in {"plain", "other"} : ReplaceSystemHead(text))
    \/ (\E target \in 0..promptIndex - 1 : RewindWrite(target))

\* The telling commands tell all they change, and mark the file whenever they mark the conversation.
LEMMA TellingTells ==
    ASSUME TypeInv, Telling
    PROVE  /\ up /\ Tells /\ up' = up
           /\ diskDamaged => diskDamaged'
           /\ damaged' => damaged \/ diskDamaged'
<1>1. ChatTyped /\ TurnTyped /\ CountsTyped /\ RewindTyped /\ CompactionTyped
  BY DEF TypeInv
<1>2. CASE PushPrompt
  <2>1. up /\ turn.prompt \in 0..MaxPrompts
    BY <1>1, <1>2, BusyIsUp DEF PushPrompt, TurnTyped, Turns, Active
  <2>2. PushUserMessage(User(turn.prompt)) /\ up' = up
    BY <1>2 DEF PushPrompt
  <2>3. Tells
    BY <1>1, <2>1, <2>2, PushedItems, PushUserTells
  <2> QED
    BY <2>1, <2>2, <2>3 DEF PushUserMessage, damageVars
<1>3. CASE PushReminder
  <2>1. up /\ PushUserMessage(Reminder) /\ up' = up
    BY <1>3 DEF PushReminder, clientVars
  <2>2. Tells
    BY <1>1, <2>1, PushedItems, PushUserTells
  <2> QED
    BY <2>1, <2>2 DEF PushUserMessage, damageVars
<1>4. CASE CompactReplace
  <2>1. compaction # None /\ ReplaceConversation(compaction.items) /\ up' = up
        /\ diskDamaged' = (diskDamaged \/ damaged')
    BY <1>4 DEF CompactReplace
  <2>2. compaction.items \in Seq(Item)
    BY <1>1, <2>1 DEF CompactionTyped
  <2> QED
    BY <1>1, <2>1, <2>2, BusyIsUp, ReplaceTells
<1>5. CASE BuildConversationRequest
  <2>1. up
    BY <1>5, BusyIsUp DEF BuildConversationRequest, Active
  <2>2. up' = up /\ UNCHANGED damageVars
    BY <1>5 DEF BuildConversationRequest
  <2> QED
    BY <1>1, <1>5, <2>1, <2>2, RequestTells DEF damageVars
<1>6. ASSUME NEW calls \in CallSets, PushAssistantResponse(calls)
      PROVE  up /\ Tells /\ up' = up /\ UNCHANGED damageVars
  <2>1. PushMessage(Assistant(SetToSeq(calls))) /\ calls \in SUBSET CallIds /\ Active /\ up' = up
    BY <1>6, Bounds DEF PushAssistantResponse, Active
  <2>2. Assistant(SetToSeq(calls)) \in Item
    BY <2>1, CallsListed
  <2> QED
    BY <1>1, <2>1, <2>2, BusyIsUp, PushTells DEF PushMessage
<1>7. ASSUME NEW c \in CallIds, PushToolResult(c)
      PROVE  up /\ Tells /\ up' = up /\ UNCHANGED damageVars
  <2>1. PushMessage(Result(c, "plain")) /\ Active /\ up' = up
    BY <1>7 DEF PushToolResult, Active
  <2> QED
    BY <1>1, <2>1, BusyIsUp, PushedItems, PushTells DEF PushMessage
<1>8. CASE DeliverLateResult
  <2>1. late # <<>> /\ PushMessage(late[1]) /\ up' = up
    BY <1>8 DEF DeliverLateResult
  <2>2. PICK c \in CallIds : late = <<Result(c, "plain")>>
    BY <1>1, <2>1 DEF TurnTyped
  <2>3. late[1] = Result(c, "plain")
    BY <2>2
  <2>4. Tells
    BY <1>1, <2>1, <2>3, PushedItems, PushTells
  <2> QED
    BY <2>1, <2>4, BusyIsUp DEF PushMessage, damageVars
<1>9. ASSUME NEW text \in {"plain", "other"}, ReplaceSystemHead(text)
      PROVE  up /\ Tells /\ up' = up /\ UNCHANGED damageVars
  <2>1. up /\ ReplaceConversation(WithHead(conversation, text)) /\ up' = up /\ UNCHANGED damageVars
    BY <1>9 DEF ReplaceSystemHead, clientVars
  <2>2. WithHead(conversation, text) \in Seq(Item)
    BY <1>1, <1>9, WithHeadShape DEF ChatTyped
  <2> QED
    BY <1>1, <2>1, <2>2, ReplaceTells
<1>10. ASSUME NEW target \in 0..promptIndex - 1, RewindWrite(target)
       PROVE  /\ up /\ Tells /\ up' = up /\ (diskDamaged => diskDamaged')
              /\ damaged' => damaged \/ diskDamaged'
  <2>1. /\ rewind # None /\ ReplaceConversation(TruncateForPrompt(rewind.items, target)) /\ up' = up
        /\ damaged' = (damaged \/ RewindDamages) /\ diskDamaged' = (diskDamaged \/ RewindDamages)
    BY <1>10 DEF RewindWrite
  <2>2. rewind.items \in Seq(Item) /\ target \in Nat
    BY <1>1, <2>1 DEF RewindTyped, Reads, Snapshots, CountsTyped
  <2>3. TruncateForPrompt(rewind.items, target) \in Seq(Item)
    BY <2>2, TruncateShape
  <2> QED
    BY <1>1, <2>1, <2>3, BusyIsUp, ReplaceTells
<1> QED
  BY <1>2, <1>3, <1>4, <1>5, <1>6, <1>7, <1>8, <1>9, <1>10 DEF Telling, damageVars

\* The steps that leave the conversation, the queue and the file alone.
Quiet ==
    \/ StartPrompt \/ IncrementPromptIndex \/ BeginTurnCapture
    \/ CompactRead \/ CompactAbandoned \/ CompactContext
    \/ EndTurn \/ CancelTurn \/ Withdraw \/ RewindRead
    \/ (\E prompt \in owed : TakeTurnMessages(prompt))
    \/ UNCHANGED vars

\* The quiet steps leave them alone.
LEMMA QuietIsQuiet ==
    ASSUME Quiet
    PROVE  UNCHANGED <<conversation, queue, disk, up, diverged, damaged, diskDamaged>>
  BY DEF Quiet, StartPrompt, IncrementPromptIndex, BeginTurnCapture, CompactRead, CompactAbandoned,
     CompactContext, EndTurn, CancelTurn, Withdraw, TurnOver, RewindRead, TakeTurnMessages,
     vars, chatVars, storeVars, clientVars, ghostVars, damageVars

\* Every step is a telling one, a quiet one, or one of seven others.
LEMMA NextSplits ==
    ASSUME [Next]_vars
    PROVE  \/ Telling \/ Quiet \/ RepairHistory \/ RestoreSnapshot \/ PersistMsg \/ PersistFails
           \/ Crash \/ RepairOnDisk \/ Restart
  BY DEF Next, Telling, Quiet

\* The persistence actor writes the head of the queue.
LEMMA WritesHead ==
    ASSUME ChatTyped, PersistMsg
    PROVE  /\ queue # <<>> /\ Head(queue) \in Messages /\ queue' \in Seq(Messages) /\ disk' \in Seq(Item)
           /\ Replayed(disk', queue') = Replayed(disk, queue)
           /\ Safe(disk, queue, NeatHistories) => Safe(disk', queue', NeatHistories)
<1>1. /\ queue # <<>> /\ disk' = Applied(disk, Head(queue)) /\ queue' = Tail(queue)
      /\ disk \in Seq(Item) /\ queue \in Seq(Messages)
  BY DEF PersistMsg, ChatTyped
<1>2. /\ Head(queue) \in Messages /\ Tail(queue) \in Seq(Messages)
      /\ Replayed(disk, queue) = Replayed(Applied(disk, Head(queue)), Tail(queue))
      /\ Safe(disk, queue, NeatHistories) => Safe(Applied(disk, Head(queue)), Tail(queue), NeatHistories)
  BY <1>1, ReplayRest
<1>3. Applied(disk, Head(queue)) \in Seq(Item)
  BY <1>1, <1>2, AppliedType
<1> QED
  BY <1>1, <1>2, <1>3

\* A process that starts writes the history it starts from.
LEMMA RestartShape ==
    ASSUME TypeInv, Restart
    PROVE  /\ ~up /\ up' /\ queue = <<>> /\ disk \in Seq(Item)
           /\ conversation' = WithHead(disk, "plain") /\ conversation' \in Seq(Item)
           /\ Neat(disk) => Neat(conversation')
           /\ Replayed(disk', queue') = conversation'
           /\ Neat(conversation') => Safe(disk', queue', NeatHistories)
<1>1. /\ ~up /\ up' /\ conversation' = WithHead(disk, "plain") /\ disk' = conversation'
      /\ queue' = <<ReplaceMsg(conversation')>>
  BY DEF Restart
<1>2. disk \in Seq(Item) /\ queue = <<>>
  BY <1>1 DEF TypeInv, ChatTyped, DownInv
<1>3. WithHead(disk, "plain") \in Seq(Item) /\ (Neat(disk) => Neat(WithHead(disk, "plain")))
  BY <1>2, WithHeadShape
<1> DEFINE led == WithHead(disk, "plain")
<1>4. Told(led, <<ReplaceMsg(led)>>, led)
  BY <1>3, ToldOnce
<1> HIDE DEF led
<1>5. Replayed(led, <<ReplaceMsg(led)>>) = led /\ (Neat(led) => Safe(led, <<ReplaceMsg(led)>>, NeatHistories))
  BY <1>4 DEF Told
<1> QED
  BY <1>1, <1>2, <1>3, <1>5 DEF led

\* Each step keeps file and queue leading to the conversation.
LEMMA FollowStep ==
    ASSUME TypeInv, DiskFollowsMemory, [Next]_vars
    PROVE  DiskFollowsMemory'
<1>1. ChatTyped
  BY DEF TypeInv
<1>2. CASE Telling
  BY <1>1, <1>2, TellingTells, TellingFollows
<1>3. CASE Quiet
  BY <1>3, QuietIsQuiet DEF DiskFollowsMemory
<1>4. CASE RepairHistory
  <2>1. up /\ up' = up
    BY <1>4 DEF RepairHistory, clientVars
  <2>2. Tells \/ UNCHANGED <<conversation, queue, disk, diverged>>
    BY <1>1, <1>4, <2>1, RepairTells
  <2> QED
    BY <1>1, <2>1, <2>2, TellingFollows DEF DiskFollowsMemory
<1>5. CASE RestoreSnapshot
  BY <1>5 DEF RestoreSnapshot, storeVars, DiskFollowsMemory
<1>6. CASE PersistMsg
  <2>1. Replayed(disk', queue') = Replayed(disk, queue)
    BY <1>1, <1>6, WritesHead
  <2> QED
    BY <1>6, <2>1 DEF PersistMsg, chatVars, clientVars, DiskFollowsMemory
<1>7. CASE PersistFails
  <2>1. queue # <<>> /\ queue' = Tail(queue) /\ UNCHANGED <<conversation, disk, up>>
        /\ diverged' = (diverged \/ ~Replaces(Tail(queue)))
    BY <1>7 DEF PersistFails, chatVars, clientVars
  <2>2. ASSUME up', ~diverged'  PROVE Replayed(disk', queue') = conversation'
    <3>1. ~diverged /\ Replaces(Tail(queue)) /\ Replayed(disk, queue) = conversation
      BY <2>1, <2>2 DEF DiskFollowsMemory
    <3>2. /\ Head(queue) \in Messages /\ Tail(queue) \in Seq(Messages) /\ disk \in Seq(Item)
          /\ Replayed(disk, queue) = Replayed(Applied(disk, Head(queue)), Tail(queue))
      BY <1>1, <2>1, ReplayRest DEF ChatTyped
    <3>3. Replayed(disk, Tail(queue)) = Replayed(Applied(disk, Head(queue)), Tail(queue))
      BY <3>1, <3>2, AppliedType, ReplayReplaced
    <3> QED
      BY <2>1, <3>1, <3>2, <3>3
  <2> QED
    BY <2>2 DEF DiskFollowsMemory
<1>8. CASE Crash
  BY <1>8 DEF Crash, DiskFollowsMemory
<1>9. CASE RepairOnDisk
  BY <1>9 DEF RepairOnDisk, clientVars, DiskFollowsMemory
<1>10. CASE Restart
  BY <1>10, RestartShape DEF DiskFollowsMemory
<1> QED
  BY <1>2, <1>3, <1>4, <1>5, <1>6, <1>7, <1>8, <1>9, <1>10, NextSplits

(***************************************************************************)
(* The file, with the messages on their way to it, is the conversation: a   *)
(* push, a repair, a pruning, a rewrite, a memory reminder tell the         *)
(* persistence actor all they changed, and a replace on its way makes up    *)
(* for a write that failed before it.                                       *)
(***************************************************************************)
THEOREM FileFollows == Spec => []DiskFollowsMemory
<1>1. Init => DiskFollowsMemory
  BY DEF Init, DiskFollowsMemory
<1>2. TypeInv /\ DiskFollowsMemory /\ [Next]_vars => DiskFollowsMemory'
  BY FollowStep
<1> QED
  BY <1>1, <1>2, TypeInvariant, PTL DEF Spec

-----------------------------------------------------------------------------
(* Results next to the calls they answer. *)

\* Unless the session is damaged, no result is astray, neither in the conversation nor in what
\* a rewind will put back, and the calls that still wait for their results stand last.
NeatInv ==
    /\ damaged \/ Neat(conversation)
    /\ damaged \/ turn.pending = {} \/ Open(conversation, turn.pending)
    /\ damaged \/ late = <<>> \/ Open(conversation, {late[1].call})
    /\ rewind # None => rewind.astray \/ Neat(rewind.items)
    /\ compaction # None => Neat(compaction.items)

\* Nor does any prefix of the queue leave one astray in the file.
DiskInv ==
    /\ damaged \/ diverged => diskDamaged
    /\ diskDamaged \/ Safe(disk, queue, NeatHistories)

\* Nobody waits for a result unless the turn runs tools, or was cancelled while it did.
LEMMA WhoWaits ==
    ASSUME TurnTyped
    PROVE  /\ turn.phase # "tools" => turn.pending = {}
           /\ Active => late = <<>>
           /\ ~Active => turn.pending = {}
  BY DEF TurnTyped, Active

\* A push that answers nothing, and waits for nothing but its own calls.
LEMMA AppendKeepsNeat ==
    ASSUME ChatTyped, NEW item \in Item, PushMessage(item), damaged \/ Neat(conversation),
           IsResult(item) => damaged \/ Open(conversation, {item.call})
    PROVE  damaged' \/ Neat(conversation')
  BY NeatAppend DEF ChatTyped, PushMessage, damageVars

\* Each step of the turn loop keeps results next to their calls.
LEMMA NeatTurnStep ==
    ASSUME TypeInv, NeatInv,
           \/ PushPrompt \/ PushReminder \/ BuildConversationRequest
           \/ (\E calls \in CallSets : PushAssistantResponse(calls))
           \/ (\E c \in CallIds : PushToolResult(c))
           \/ DeliverLateResult
    PROVE  NeatInv'
<1>1. ChatTyped /\ TurnTyped /\ CountsTyped /\ conversation \in Seq(Item)
  BY DEF TypeInv, ChatTyped
<1>2. ASSUME UNCHANGED <<damaged, rewind, compaction>>, late' = <<>>, turn'.pending = {},
             damaged' \/ Neat(conversation')
      PROVE  NeatInv'
  BY <1>2 DEF NeatInv
<1>3. CASE PushPrompt
  <2>1. /\ turn.prompt \in 0..MaxPrompts /\ Active /\ up /\ turn.phase # "tools"
        /\ PushUserMessage(User(turn.prompt)) /\ turn' = [turn EXCEPT !.phase = "ready"]
        /\ UNCHANGED <<late, rewind, compaction>>
    BY <1>1, <1>3, BusyIsUp DEF PushPrompt, TurnTyped, Turns, Active, Goto
  <2>2. damaged' = damaged /\ turn'.pending = {} /\ late' = <<>>
    BY <1>1, <2>1, WhoWaits DEF PushUserMessage, damageVars, TurnTyped, Turns
  <2>3. damaged' \/ Neat(conversation')
    BY <1>1, <2>1, <2>2, PushedItems, PushUserTells DEF NeatInv
  <2> QED
    BY <1>2, <2>1, <2>2, <2>3
<1>4. CASE PushReminder
  <2>1. /\ up /\ late = <<>> /\ turn.phase # "tools" /\ PushUserMessage(Reminder)
        /\ UNCHANGED <<turn, late, rewind, compaction>>
    BY <1>4 DEF PushReminder, clientVars
  <2>2. damaged' = damaged /\ turn'.pending = {} /\ late' = <<>>
    BY <1>1, <2>1, WhoWaits DEF PushUserMessage, damageVars
  <2>3. damaged' \/ Neat(conversation')
    BY <1>1, <2>1, <2>2, PushedItems, PushUserTells DEF NeatInv
  <2> QED
    BY <1>2, <2>1, <2>2, <2>3
<1>5. CASE BuildConversationRequest
  <2>1. /\ Active /\ up /\ turn.phase # "tools" /\ turn' = [turn EXCEPT !.phase = "sampling"]
        /\ UNCHANGED <<late, rewind, compaction, damaged>>
    BY <1>5, BusyIsUp DEF BuildConversationRequest, Active, Goto, damageVars
  <2>2. turn'.pending = {} /\ late' = <<>>
    BY <1>1, <2>1, WhoWaits DEF TurnTyped, Turns
  <2>3. damaged' \/ Neat(conversation')
    BY <1>1, <1>5, <2>1, RequestTells DEF NeatInv
  <2> QED
    BY <1>2, <2>1, <2>2, <2>3
<1>6. ASSUME NEW calls \in CallSets, PushAssistantResponse(calls)  PROVE NeatInv'
  <2> DEFINE item == Assistant(SetToSeq(calls))
  <2>1. /\ Active /\ PushMessage(item) /\ calls \in SUBSET CallIds
        /\ turn' = [turn EXCEPT !.phase = IF calls = {} THEN "answered" ELSE "tools",
                                !.pending = calls, !.pristine = FALSE]
        /\ UNCHANGED <<late, rewind, compaction>>
    BY <1>6, Bounds DEF PushAssistantResponse, Active
  <2>2. item \in Item /\ ToSet(item.calls) = calls /\ ~IsResult(item)
    BY <2>1, CallsListed
  <2>3. turn'.pending = calls /\ late' = <<>>
    BY <1>1, <2>1, WhoWaits DEF TurnTyped, Turns
  <2> HIDE DEF item
  <2>4. conversation' = Append(conversation, item) /\ damaged' = damaged
    BY <2>1 DEF PushMessage, damageVars
  <2>5. Open(conversation', turn'.pending)
    BY <1>1, <2>2, <2>3, <2>4, OpenAppend
  <2>6. damaged' \/ Neat(conversation')
    BY <1>1, <2>1, <2>2, AppendKeepsNeat DEF NeatInv
  <2> QED
    BY <2>1, <2>3, <2>4, <2>5, <2>6 DEF NeatInv
<1>7. ASSUME NEW c \in CallIds, PushToolResult(c)  PROVE NeatInv'
  <2> DEFINE item == Result(c, "plain")
  <2>1. /\ Active /\ PushMessage(item) /\ c \in turn.pending
        /\ turn' = [turn EXCEPT !.pending = @ \ {c},
                                !.phase = IF turn.pending = {c} THEN "ready" ELSE "tools"]
        /\ UNCHANGED <<late, rewind, compaction>>
    BY <1>7 DEF PushToolResult, Active
  <2>2. item \in Item /\ IsResult(item) /\ item.call = c
    BY PushedItems
  <2>3. turn'.pending = turn.pending \ {c} /\ late' = <<>>
    BY <1>1, <2>1, WhoWaits DEF TurnTyped, Turns
  <2> HIDE DEF item
  <2>4. conversation' = Append(conversation, item) /\ damaged' = damaged
    BY <2>1 DEF PushMessage, damageVars
  <2>5. damaged \/ Open(conversation, turn.pending)
    BY <2>1 DEF NeatInv
  <2>6. damaged \/ Open(conversation, {c})
    <3>1. {c} \in SUBSET turn.pending
      BY <2>1
    <3> QED
      BY <2>5, <3>1, OpenFewer
  <2>7. damaged' \/ Open(conversation', turn'.pending)
    <3>1. damaged \/ Open(conversation', turn.pending)
      BY <1>1, <2>2, <2>4, <2>5, OpenAppend
    <3>2. turn.pending \ {c} \in SUBSET turn.pending
      OBVIOUS
    <3> QED
      BY <2>3, <2>4, <3>1, <3>2, OpenFewer
  <2>8. damaged' \/ Neat(conversation')
    BY <1>1, <2>1, <2>2, <2>6, AppendKeepsNeat DEF NeatInv
  <2> QED
    BY <2>1, <2>3, <2>4, <2>7, <2>8 DEF NeatInv
<1>8. CASE DeliverLateResult
  <2>1. /\ late # <<>> /\ PushMessage(late[1]) /\ late' = <<>>
        /\ UNCHANGED <<turn, rewind, compaction>>
    BY <1>8 DEF DeliverLateResult
  <2>2. PICK c \in CallIds : late = <<Result(c, "plain")>>
    BY <1>1, <2>1 DEF TurnTyped
  <2>3. late[1] \in Item
    <3>1. late[1] = Result(c, "plain")
      BY <2>2
    <3> QED
      BY <3>1, PushedItems
  <2>4. damaged' = damaged /\ turn'.pending = {}
    BY <1>1, <2>1, WhoWaits DEF PushMessage, damageVars
  <2>5. damaged' \/ Neat(conversation')
    BY <1>1, <2>1, <2>3, AppendKeepsNeat DEF NeatInv
  <2> QED
    BY <1>2, <2>1, <2>4, <2>5
<1> QED
  BY <1>3, <1>4, <1>5, <1>6, <1>7, <1>8

\* An empty history holds nothing astray.
LEMMA NeatEmpty == Neat(<<>>)
  BY EmptySeq DEF Neat

\* A client's steps between two commands: what they read of a neat history is neat.
LEMMA NeatQuietStep ==
    ASSUME TypeInv, NeatInv, Quiet
    PROVE  NeatInv'
<1>1. ChatTyped /\ TurnTyped /\ CountsTyped /\ CompactionTyped /\ conversation \in Seq(Item)
  BY DEF TypeInv, ChatTyped
<1>2. conversation' = conversation /\ damaged' = damaged
  BY QuietIsQuiet
<1>3. CASE StartPrompt
  BY <1>2, <1>3 DEF StartPrompt, NeatInv, Idle
<1>4. CASE IncrementPromptIndex
  <2>1. turn'.pending = turn.pending /\ UNCHANGED <<late, rewind, compaction>>
    BY <1>1, <1>4 DEF IncrementPromptIndex, TurnTyped, Turns
  <2> QED
    BY <1>2, <2>1 DEF NeatInv
<1>5. CASE BeginTurnCapture
  <2>1. turn'.pending = turn.pending /\ UNCHANGED <<late, rewind, compaction>>
    BY <1>1, <1>5 DEF BeginTurnCapture, TurnTyped, Turns, Goto
  <2> QED
    BY <1>2, <2>1 DEF NeatInv
<1>6. CASE CompactRead
  <2>1. /\ up /\ conversation[1].kind = "system" /\ UNCHANGED <<turn, late, rewind>>
        /\ compaction' = [step |-> "sampling", items |-> <<conversation[1]>>]
    BY <1>6 DEF CompactRead
  <2>2. <<conversation[1]>> \in Seq(Item) /\ Len(<<conversation[1]>>) = 1
        /\ <<conversation[1]>>[1] = conversation[1]
    <3>1. Headed(conversation) /\ conversation[1] \in Item
      BY <1>1, <2>1, LenProperties DEF ChatTyped, Headed
    <3> QED
      BY <3>1
  <2>3. Neat(<<conversation[1]>>)
    <3> DEFINE one == <<conversation[1]>>
    <3>1. Len(one) = 1 /\ ~IsResult(one[1])
      BY <2>1, <2>2 DEF IsResult
    <3> HIDE DEF one
    <3>2. Neat(one)
      BY <3>1 DEF Neat, Displaced
    <3> QED
      BY <3>2 DEF one
  <2>4. compaction'.items = <<conversation[1]>>
    BY <2>1
  <2> QED
    BY <1>2, <2>1, <2>3, <2>4 DEF NeatInv
<1>7. CASE CompactAbandoned
  BY <1>2, <1>7 DEF CompactAbandoned, NeatInv
<1>8. CASE CompactContext
  <2>1. /\ compaction # None /\ UNCHANGED <<turn, late, rewind>>
        /\ compaction'.items = Compacted(compaction.items[1], conversation)
    BY <1>8 DEF CompactContext
  <2>2. Headed(compaction.items) /\ compaction.items \in Seq(Item)
    BY <1>1, <2>1 DEF CompactionTyped
  <2>3. compaction.items[1] \in Item /\ ~IsResult(compaction.items[1])
    BY <2>2, LenProperties DEF Headed, IsResult
  <2>4. Neat(compaction'.items)
    BY <2>1, <2>3, CompactedShape
  <2> QED
    BY <1>2, <2>1, <2>4 DEF NeatInv
<1>9. CASE EndTurn
  <2>1. turn'.pending = {} /\ UNCHANGED <<late, rewind, compaction>>
    BY <1>9 DEF EndTurn, TurnOver, Idle
  <2> QED
    BY <1>2, <2>1 DEF NeatInv
<1>10. CASE CancelTurn
  <2>1. /\ Active /\ turn'.pending = {} /\ UNCHANGED <<rewind, compaction>>
        /\ late' = late \/ \E c \in turn.pending : late' = <<Result(c, "plain")>>
    BY <1>10 DEF CancelTurn, TurnOver, Idle
  <2>2. late = <<>>
    BY <1>1, <2>1, WhoWaits
  <2>3. ASSUME NEW c \in turn.pending, late' = <<Result(c, "plain")>>
        PROVE  damaged \/ Open(conversation, {late'[1].call})
    <3>1. late'[1] = Result(c, "plain") /\ c \in CallIds
      BY <1>1, <2>3 DEF TurnTyped, Turns
    <3>2. late'[1].call = c
      BY <3>1, PushedItems
    <3>3. {c} \in SUBSET turn.pending
      OBVIOUS
    <3> QED
      BY <3>2, <3>3, OpenFewer DEF NeatInv
  <2> QED
    BY <1>2, <2>1, <2>2, <2>3 DEF NeatInv
<1>11. CASE Withdraw
  <2> DEFINE target == IF promptIndex = 0 THEN 0 ELSE promptIndex - 1
  <2>1. /\ turn'.pending = {} /\ UNCHANGED <<late, compaction>>
        /\ rewind'.items = TruncateForPrompt(conversation, target) /\ rewind'.astray = damaged
    BY <1>11 DEF Withdraw, TurnOver, Idle
  <2>2. target \in Nat
    BY <1>1, Bounds DEF CountsTyped
  <2> HIDE DEF target
  <2>3. rewind'.astray \/ Neat(rewind'.items)
    BY <1>1, <2>1, <2>2, TruncateShape DEF NeatInv
  <2> QED
    BY <1>2, <2>1, <2>3 DEF NeatInv
<1>12. CASE RewindRead
  <2>1. UNCHANGED <<turn, late, compaction>> /\ rewind'.items = conversation /\ rewind'.astray = damaged
    BY <1>12 DEF RewindRead
  <2> QED
    BY <1>2, <2>1 DEF NeatInv
<1>13. ASSUME NEW prompt \in owed, TakeTurnMessages(prompt)  PROVE NeatInv'
  BY <1>2, <1>13 DEF TakeTurnMessages, NeatInv
<1>14. CASE UNCHANGED vars
  BY <1>2, <1>14 DEF vars, clientVars, NeatInv
<1> QED
  BY <1>3, <1>4, <1>5, <1>6, <1>7, <1>8, <1>9, <1>10, <1>11, <1>12, <1>13, <1>14 DEF Quiet

\* A rewind puts back a neat history, or marks the session; when it does not mark it, nobody waits.
LEMMA NeatRewindStep ==
    ASSUME TypeInv, NeatInv,
           (\E target \in 0..promptIndex - 1 : RewindWrite(target)) \/ RestoreSnapshot
    PROVE  NeatInv'
<1>1. TurnTyped /\ RewindTyped /\ CountsTyped
  BY DEF TypeInv
<1>2. ASSUME ~damaged'  PROVE ~RewindDamages /\ ~damaged /\ turn.pending = {} /\ late = <<>> /\ ~rewind.astray
  <2>1. ~RewindDamages /\ ~damaged
    BY <1>2 DEF RewindWrite, RestoreSnapshot
  <2> QED
    BY <1>1, <2>1, WhoWaits DEF RewindDamages
<1>3. UNCHANGED <<turn, late, compaction>>
  BY DEF RewindWrite, RestoreSnapshot
<1>4. ASSUME NEW target \in 0..promptIndex - 1, RewindWrite(target)  PROVE NeatInv'
  <2>1. /\ rewind # None /\ conversation' = TruncateForPrompt(rewind.items, target)
        /\ rewind'.items = conversation' /\ rewind'.astray = damaged'
    BY <1>4 DEF RewindWrite, ReplaceConversation
  <2>2. rewind.items \in Seq(Item) /\ target \in Nat
    BY <1>1, <2>1 DEF RewindTyped, Reads, Snapshots, CountsTyped
  <2>3. damaged' \/ Neat(conversation')
    BY <1>2, <2>1, <2>2, TruncateShape DEF NeatInv
  <2> QED
    BY <1>2, <1>3, <2>1, <2>3 DEF NeatInv
<1>5. CASE RestoreSnapshot
  <2>1. rewind # None /\ conversation' = rewind.items /\ rewind' = None
    BY <1>5 DEF RestoreSnapshot
  <2>2. damaged' \/ Neat(conversation')
    BY <1>2, <2>1 DEF NeatInv
  <2> QED
    BY <1>2, <1>3, <2>1, <2>2 DEF NeatInv
<1> QED
  BY <1>4, <1>5

\* Each step keeps results next to their calls, unless it marks the session.
LEMMA NeatStep ==
    ASSUME TypeInv, TypeInv', NeatInv, DiskInv, [Next]_vars
    PROVE  NeatInv'
<1>1. ChatTyped /\ TurnTyped /\ CompactionTyped /\ CountsTyped
  BY DEF TypeInv
<1>2. CASE Quiet
  BY <1>2, NeatQuietStep
<1>3. CASE \/ PushPrompt \/ PushReminder \/ BuildConversationRequest
           \/ (\E calls \in CallSets : PushAssistantResponse(calls))
           \/ (\E c \in CallIds : PushToolResult(c))
           \/ DeliverLateResult
  BY <1>3, NeatTurnStep
<1>4. CASE (\E target \in 0..promptIndex - 1 : RewindWrite(target)) \/ RestoreSnapshot
  BY <1>4, NeatRewindStep
<1>5. CASE CompactReplace
  <2>1. /\ compaction # None /\ conversation' = compaction.items /\ compaction' = None
        /\ damaged' = (turn.pending # {} \/ late # <<>>)
        /\ turn' = [turn EXCEPT !.pristine = FALSE] /\ UNCHANGED <<late, rewind>>
    BY <1>5 DEF CompactReplace, ReplaceConversation
  <2>2. turn'.pending = turn.pending
    BY <1>1, <2>1 DEF TurnTyped, Turns
  <2>3. Neat(conversation')
    BY <2>1 DEF NeatInv
  <2> QED
    BY <2>1, <2>2, <2>3 DEF NeatInv
<1>6. ASSUME NEW text \in {"plain", "other"}, ReplaceSystemHead(text)  PROVE NeatInv'
  <2>1. /\ up /\ conversation' = WithHead(conversation, text)
        /\ UNCHANGED <<turn, late, rewind, compaction, damaged>>
    BY <1>6 DEF ReplaceSystemHead, ReplaceConversation, clientVars, damageVars
  <2>2. conversation \in Seq(Item) /\ Headed(conversation)
    BY <1>1, <2>1 DEF ChatTyped
  <2>3. /\ conversation' \in Seq(Item) /\ Alike(conversation, conversation')
        /\ Neat(conversation) => Neat(conversation')
    BY <1>6, <2>1, <2>2, WithHeadShape
  <2>4. \A calls : Open(conversation, calls) => Open(conversation', calls)
    BY <2>2, <2>3, AlikeKeeps
  <2> QED
    BY <2>1, <2>3, <2>4 DEF NeatInv
<1>7. CASE RepairHistory
  <2>1. up /\ ~Active /\ late = <<>> /\ UNCHANGED <<turn, late, rewind, compaction>>
    BY <1>7 DEF RepairHistory, clientVars
  <2>2. Neat(conversation') /\ turn.pending = {}
    BY <1>1, <1>7, <2>1, RepairTells, WhoWaits
  <2> QED
    BY <2>1, <2>2 DEF NeatInv
<1>8. CASE PersistMsg \/ PersistFails \/ RepairOnDisk
  <2>1. UNCHANGED <<conversation, damaged, turn, late, rewind, compaction>>
    BY <1>8 DEF PersistMsg, PersistFails, RepairOnDisk, chatVars, clientVars
  <2> QED
    BY <2>1 DEF NeatInv
<1>9. CASE Crash
  <2>1. conversation' = <<>> /\ turn'.pending = {} /\ late' = <<>> /\ rewind' = None /\ compaction' = None
    BY <1>9 DEF Crash, Idle
  <2> QED
    BY <2>1, NeatEmpty DEF NeatInv
<1>10. CASE Restart
  <2>1. /\ ~up /\ queue = <<>> /\ disk \in Seq(Item)
        /\ Neat(disk) => Neat(conversation')
    BY <1>10, RestartShape
  <2>2. damaged' = diskDamaged /\ UNCHANGED <<turn, late, rewind, compaction>>
    BY <1>10 DEF Restart
  <2>3. turn.pending = {} /\ late = <<>>
    BY <1>1, <2>1, WhoWaits DEF TypeInv, DownInv
  <2>4. ~diskDamaged => Neat(disk)
    <3>1. Safe(disk, queue, NeatHistories) => disk \in NeatHistories
      <4>1. Len(queue) = 0
        BY <2>1
      <4> QED
        BY <4>1 DEF Safe, Replays
    <3> QED
      BY <3>1 DEF DiskInv, NeatHistories
  <2> QED
    BY <2>1, <2>2, <2>3, <2>4 DEF NeatInv
<1> QED
  BY <1>2, <1>3, <1>4, <1>5, <1>6, <1>7, <1>8, <1>9, <1>10, NextSplits DEF Telling

\* The file is marked whenever the conversation is, and until then no message leaves a result
\* astray in it; a whole neat history on its way unmarks it once the older messages are through.
LEMMA DiskStep ==
    ASSUME TypeInv, TypeInv', NeatInv, NeatInv', DiskInv, DiskFollowsMemory, DiskFollowsMemory',
           [Next]_vars
    PROVE  DiskInv'
<1>1. ChatTyped /\ ChatTyped' /\ disk \in Seq(Item) /\ queue \in Seq(Messages)
  BY DEF TypeInv, ChatTyped
<1>2. ASSUME up, Tells, diskDamaged => diskDamaged', damaged' => damaged \/ diskDamaged'
      PROVE  DiskInv'
  <2>1. /\ diverged' => diverged
        /\ ~diverged /\ Neat(conversation) /\ Neat(conversation') /\ Safe(disk, queue, NeatHistories)
             => Safe(disk', queue', NeatHistories)
    BY <1>1, <1>2, TellingFollows
  <2> QED
    BY <1>2, <2>1 DEF DiskInv, NeatInv
<1>3. CASE Telling
  BY <1>2, <1>3, TellingTells
<1>4. CASE Quiet
  BY <1>4, QuietIsQuiet DEF DiskInv
<1>5. CASE RepairHistory
  <2>1. up /\ damaged' = FALSE /\ diskDamaged' = diskDamaged
    BY <1>5 DEF RepairHistory
  <2>2. Tells \/ UNCHANGED <<conversation, queue, disk, diverged>>
    BY <1>1, <1>5, <2>1, RepairTells
  <2>3. CASE UNCHANGED <<conversation, queue, disk, diverged>>
    BY <2>1, <2>3 DEF DiskInv
  <2> QED
    BY <1>2, <2>1, <2>2, <2>3
<1>6. CASE RestoreSnapshot
  <2>1. /\ UNCHANGED <<queue, disk>>
        /\ diverged' = (diverged \/ conversation # rewind.items)
        /\ damaged' = (damaged \/ RewindDamages)
        /\ diskDamaged' = (diskDamaged \/ RewindDamages \/ conversation # rewind.items)
    BY <1>6 DEF RestoreSnapshot, storeVars
  <2> QED
    BY <2>1 DEF DiskInv
<1>7. CASE PersistMsg
  <2>1. /\ queue # <<>> /\ queue' \in Seq(Messages) /\ disk' \in Seq(Item)
        /\ Safe(disk, queue, NeatHistories) => Safe(disk', queue', NeatHistories)
    BY <1>1, <1>7, WritesHead
  <2>2. /\ diskDamaged' = (diskDamaged /\ (diverged \/ damaged \/ Replaces(queue') \/ ~Replaces(queue)))
        /\ UNCHANGED <<conversation, diverged, damaged, up>>
    BY <1>7 DEF PersistMsg, chatVars, clientVars
  <2>3. up /\ conversation \in Seq(Item)
    BY <1>1, <2>1, BusyIsUp DEF ChatTyped
  <2>4. ASSUME diskDamaged, ~diverged, ~damaged, ~Replaces(queue')
        PROVE  Safe(disk', queue', NeatHistories)
    <3>1. Replayed(disk', queue') = conversation'
      BY <2>2, <2>3, <2>4 DEF DiskFollowsMemory
    <3>2. Replayed(disk', queue') \in NeatHistories
      BY <2>2, <2>3, <2>4, <3>1 DEF NeatInv, NeatHistories
    <3>3. \A s, t \in Seq(Item) : s \o t \in NeatHistories => s \in NeatHistories
      BY NeatClosed DEF NeatHistories
    <3> QED
      BY <2>1, <2>4, <3>2, <3>3, ReplayAppends
  <2> QED
    BY <2>1, <2>2, <2>4 DEF DiskInv
<1>8. CASE PersistFails
  BY <1>8 DEF PersistFails, DiskInv
<1>9. ASSUME NEW file \in Seq(Item), Neat(file)  PROVE Safe(file, <<>>, NeatHistories)
  BY <1>9, ReplayNone DEF NeatHistories
<1>10. CASE Crash
  <2>1. queue' = <<>> /\ UNCHANGED <<disk, diskDamaged>> /\ damaged' = FALSE /\ diverged' = FALSE
    BY <1>10 DEF Crash
  <2>2. Safe(disk, queue, NeatHistories) => Neat(disk)
    <3>1. 0 \in 0..Len(queue)
      BY <1>1, LenProperties
    <3> QED
      BY <3>1 DEF Safe, Replays, NeatHistories
  <2> QED
    BY <1>1, <1>9, <2>1, <2>2 DEF DiskInv
<1>11. CASE RepairOnDisk
  <2>1. ~up /\ disk' = Repaired(disk) /\ UNCHANGED <<queue, diverged, damaged>>
    BY <1>11 DEF RepairOnDisk
  <2>2. queue = <<>> /\ ~damaged /\ ~diverged
    BY <2>1 DEF TypeInv, DownInv
  <2>3. Repaired(disk) \in Seq(Item) /\ Neat(Repaired(disk))
    BY <1>1, RepairedSound
  <2> QED
    BY <1>9, <2>1, <2>2, <2>3 DEF DiskInv
<1>12. CASE Restart
  <2>1. ~up /\ (Neat(conversation') => Safe(disk', queue', NeatHistories))
    BY <1>12, RestartShape
  <2>2. damaged' = diskDamaged /\ UNCHANGED <<diverged, diskDamaged>> /\ ~diverged
    BY <1>12, <2>1 DEF Restart, TypeInv, DownInv
  <2> QED
    BY <2>1, <2>2 DEF DiskInv, NeatInv
<1> QED
  BY <1>3, <1>4, <1>5, <1>6, <1>7, <1>8, <1>10, <1>11, <1>12, NextSplits

\* Memory, file and rewinds agree on what is astray.
LEMMA NeatAlways == Spec => [](NeatInv /\ DiskInv)
<1>1. Init => NeatInv /\ DiskInv
  <2> SUFFICES ASSUME Init  PROVE NeatInv /\ DiskInv
    OBVIOUS
  <2>1. NeatInv
    BY NeatEmpty DEF Init, NeatInv, Idle
  <2>2. disk \in Seq(Item) /\ queue = <<>> /\ ~damaged /\ ~diverged
    BY Histories DEF Init
  <2>3. diskDamaged \/ StripDisplacedToolResults(disk) = disk
    BY DEF Init
  <2>4. ASSUME StripDisplacedToolResults(disk) = disk  PROVE Safe(disk, queue, NeatHistories)
    <3>1. disk \in NeatHistories
      BY <2>2, <2>4, StripSound DEF NeatHistories
    <3> QED
      BY <2>2, <3>1, ReplayNone
  <2> QED
    BY <2>1, <2>2, <2>3, <2>4 DEF DiskInv
<1>2. TypeInv /\ TypeInv' /\ NeatInv /\ DiskInv /\ DiskFollowsMemory /\ DiskFollowsMemory' /\ [Next]_vars
      => NeatInv' /\ DiskInv'
  BY NeatStep, DiskStep
<1> QED
  BY <1>1, <1>2, TypeInvariant, FileFollows, PTL DEF Spec

(***************************************************************************)
(* No result stands away from its call: late results, cancelled turns,      *)
(* compactions, crashes and restarts leave none astray unless the session   *)
(* was damaged in one of the ways the model names.                          *)
(***************************************************************************)
THEOREM OrphansAreKnown == Spec => []NoOrphans
<1>1. TypeInv /\ NeatInv => NoOrphans
  BY StripIdle DEF TypeInv, ChatTyped, NeatInv, NoOrphans
<1> QED
  BY <1>1, TypeInvariant, NeatAlways, PTL

(***************************************************************************)
(* A request answers each call of each assistant message exactly once, in   *)
(* the run right behind it, whatever the conversation was before.           *)
(***************************************************************************)
THEOREM RequestsArePaired == Spec => RequestPaired
<1> DEFINE Paired ==
             BuildConversationRequest =>
               \A i \in DOMAIN conversation' : \A c \in ToSet(conversation'[i].calls) :
                  Cardinality({k \in DOMAIN conversation' : /\ InRun(conversation', i, k)
                                                           /\ conversation'[k].call = c}) = 1
<1>1. TypeInv /\ TypeInv' /\ [Next]_vars => [Paired]_vars
  <2> SUFFICES ASSUME TypeInv, TypeInv', BuildConversationRequest,
                      NEW i \in DOMAIN conversation', NEW c \in ToSet(conversation'[i].calls)
               PROVE  Cardinality({k \in DOMAIN conversation' : /\ InRun(conversation', i, k)
                                                               /\ conversation'[k].call = c}) = 1
    OBVIOUS
  <2>1. ChatTyped /\ up /\ conversation \in Seq(Item) /\ conversation' \in Seq(Item)
    BY BusyIsUp DEF TypeInv, ChatTyped, BuildConversationRequest, Active
  <2>2. Alike(Integrity(conversation), conversation')
    BY <2>1, RequestTells
  <2>3. /\ Integrity(conversation) \in Seq(Item)
        /\ Single(Integrity(conversation)) /\ Answered(Integrity(conversation))
    BY <2>1, IntegritySound
  <2>4. Single(conversation') /\ Answered(conversation')
    BY <2>1, <2>2, <2>3, AlikeKeeps
  <2>5. i \in 1..Len(conversation')
    BY <2>1, LenProperties
  <2> QED
    BY <2>1, <2>4, <2>5, PairedOnce
<1> QED
  BY <1>1, TypeInvariant, PTL DEF Spec, RequestPaired

(***************************************************************************)
(* The out-of-band repair leaves a history that no pass would change again, *)
(* with no result astray.                                                   *)
(***************************************************************************)
THEOREM RepairIsFinal == Spec => RepairHeals
<1> DEFINE Heals ==
             RepairHistory => /\ Repaired(conversation') = conversation'
                              /\ \A k \in DOMAIN conversation' : IsResult(conversation'[k]) =>
                                   \E i \in 1..k-1 : /\ conversation'[k].call \in ToSet(conversation'[i].calls)
                                                     /\ InRun(conversation', i, k)
<1>1. TypeInv /\ TypeInv' /\ [Next]_vars => [Heals]_vars
  <2> SUFFICES ASSUME TypeInv, TypeInv', RepairHistory
               PROVE  /\ Repaired(conversation') = conversation'
                      /\ \A k \in DOMAIN conversation' : IsResult(conversation'[k]) =>
                           \E i \in 1..k-1 : /\ conversation'[k].call \in ToSet(conversation'[i].calls)
                                             /\ InRun(conversation', i, k)
    OBVIOUS
  <2>1. ChatTyped /\ up /\ conversation \in Seq(Item) /\ conversation' \in Seq(Item)
    BY DEF TypeInv, ChatTyped, RepairHistory
  <2>2. conversation' = Repaired(conversation) /\ Neat(conversation')
    BY <2>1, RepairTells
  <2>3. Repaired(conversation') = conversation'
    BY <2>1, <2>2, RepairedSound
  <2>4. DOMAIN conversation' = 1..Len(conversation')
    BY <2>1, LenProperties
  <2> QED
    BY <2>2, <2>3, <2>4 DEF Neat, Displaced
<1> QED
  BY <1>1, TypeInvariant, PTL DEF Spec, RepairHeals

-----------------------------------------------------------------------------
(* Retained-conversation pruning. *)

Reminders(items, from) == Cardinality({k \in from..Len(items) : items[k].kind = "reminder"})

\* A User item is a real prompt or a reminder.
LEMMA UsersCounted ==
    ASSUME NEW items \in Seq(Item), NEW from \in 1..Len(items)
    PROVE  /\ RealPrompts(items, from) \in Nat /\ Reminders(items, from) \in Nat
           /\ Users(items, from) = RealPrompts(items, from) + Reminders(items, from)
           /\ Reminders(items, from) <= Reminders(items, 1)
<1> DEFINE Real == {k \in from..Len(items) : items[k].kind = "user"}
           Rem  == {k \in from..Len(items) : items[k].kind = "reminder"}
           All  == {k \in 1..Len(items) : items[k].kind = "reminder"}
<1>1. Len(items) \in Nat /\ from \in Int
  BY LenProperties
<1>2. IsFiniteSet(from..Len(items)) /\ IsFiniteSet(1..Len(items))
  BY <1>1, FS_Interval
<1>3. IsFiniteSet(Real) /\ IsFiniteSet(Rem) /\ IsFiniteSet(All) /\ Rem \subseteq All
  <2>1. Real \subseteq from..Len(items) /\ Rem \subseteq from..Len(items) /\ All \subseteq 1..Len(items)
    OBVIOUS
  <2>2. Rem \subseteq All
    BY <1>1
  <2> QED
    BY <1>2, <2>1, <2>2, FS_Subset
<1>4. {k \in from..Len(items) : IsUser(items[k])} = Real \cup Rem /\ Real \cap Rem = {}
  BY DEF IsUser
<1>5. Users(items, from) = Cardinality(Real \cup Rem)
  BY <1>4 DEF Users
<1>6. /\ RealPrompts(items, from) = Cardinality(Real) /\ Reminders(items, from) = Cardinality(Rem)
      /\ Reminders(items, 1) = Cardinality(All)
  BY DEF RealPrompts, Reminders
<1> HIDE DEF Real, Rem, All
<1>7. Cardinality(Real) \in Nat /\ Cardinality(Rem) \in Nat /\ Cardinality(Rem) <= Cardinality(All)
  BY <1>3, FS_CardinalityType, FS_Subset
<1>8. Cardinality(Real \cup Rem) = Cardinality(Real) + Cardinality(Rem) - Cardinality(Real \cap Rem)
  BY <1>3, FS_Union
<1>9. Cardinality(Real \cap Rem) = 0
  BY <1>4, FS_EmptySet
<1> QED
  BY <1>5, <1>6, <1>7, <1>8, <1>9

\* Pruning a history that still holds every real prompt spares what is younger than the age.
LEMMA PruneSparesYoung ==
    ASSUME NEW items \in Seq(Item), NEW k \in 1..Len(items),
           IsUser(items[Len(items)]), RealPrompts(items, 1) = promptIndex,
           Pruned(items)[k] # items[k]
    PROVE  RealPrompts(items, k) > HardClearAge
<1>1. Len(items) \in Nat /\ 1 \in 1..Len(items) /\ HardClearAge \in Nat
  BY LenProperties, Bounds
<1>2. /\ RealPrompts(items, 1) \in Nat /\ Reminders(items, 1) \in Nat
      /\ Users(items, 1) = RealPrompts(items, 1) + Reminders(items, 1)
      /\ RealPrompts(items, k) \in Nat /\ Reminders(items, k) \in Nat
      /\ Users(items, k) = RealPrompts(items, k) + Reminders(items, k)
      /\ Reminders(items, k) <= Reminders(items, 1)
  BY <1>1, UsersCounted
<1>3. Users(items, k) # 0
  <2> DEFINE S == {m \in k..Len(items) : IsUser(items[m])}
  <2>1. Len(items) \in S /\ S \subseteq k..Len(items) /\ k \in Int
    BY <1>1
  <2>2. IsFiniteSet(S)
    <3>1. IsFiniteSet(k..Len(items)) /\ S \in SUBSET (k..Len(items))
      BY <1>1, <2>1, FS_Interval
    <3> HIDE DEF S
    <3> QED  BY <3>1, FS_Subset
  <2>3. Cardinality(S) # 0
    <3> HIDE DEF S
    <3> QED  BY <2>1, <2>2, FS_EmptySet
  <2> QED
    BY <2>3 DEF Users
<1>4. (IF Users(items, k) = 0 THEN 0 ELSE Users(items, k) - 1) >= EffectiveThreshold(items)
  BY PrunedShape
<1>5. Users(items, k) - 1 >= EffectiveThreshold(items)
  BY <1>3, <1>4
<1>6. EffectiveThreshold(items)
        = HardClearAge + (IF Users(items, 1) > promptIndex THEN Users(items, 1) - promptIndex ELSE 0)
  BY DEF EffectiveThreshold
<1>7. EffectiveThreshold(items) = HardClearAge + Reminders(items, 1)
  BY <1>1, <1>2, <1>6
<1> HIDE DEF Users, RealPrompts, Reminders, EffectiveThreshold
<1> QED
  BY <1>1, <1>2, <1>5, <1>7

(***************************************************************************)
(* While the conversation still holds every real prompt, no push clears a   *)
(* tool result before HardClearAge real prompts have come after it, however *)
(* many reminders raise the count of User items.                            *)
(***************************************************************************)
THEOREM YoungIsKept == Spec => ClearedOnlyWhenOld
<1> DEFINE Spared ==
             (PushPrompt \/ PushReminder) /\ RealPrompts(conversation', 1) = promptIndex =>
               \A k \in DOMAIN conversation' \cap DOMAIN Integrity(conversation) :
                  conversation'[k] # Integrity(conversation)[k]
                  => RealPrompts(conversation', k) > HardClearAge
<1>1. TypeInv /\ [Next]_vars => [Spared]_vars
  <2> SUFFICES ASSUME TypeInv, PushPrompt \/ PushReminder, RealPrompts(conversation', 1) = promptIndex,
                      NEW k \in DOMAIN conversation' \cap DOMAIN Integrity(conversation),
                      conversation'[k] # Integrity(conversation)[k]
               PROVE  RealPrompts(conversation', k) > HardClearAge
    OBVIOUS
  <2>1. ChatTyped /\ up
    BY BusyIsUp DEF TypeInv, PushPrompt, PushReminder, Active
  <2>2. PICK item \in Item : IsUser(item) /\ PushUserMessage(item)
    <3>1. CASE PushPrompt
      <4>1. turn.prompt \in 0..MaxPrompts /\ PushUserMessage(User(turn.prompt))
        BY <3>1 DEF PushPrompt, TypeInv, TurnTyped, Turns
      <4>2. IsUser(User(turn.prompt))
        BY DEF IsUser, User, Bare
      <4> QED
        BY <4>1, <4>2, PushedItems
    <3>2. CASE PushReminder
      <4>1. IsUser(Reminder)
        BY DEF IsUser, Reminder, Bare
      <4> QED
        BY <3>2, <4>1, PushedItems DEF PushReminder
    <3> QED
      BY <3>1, <3>2
  <2> DEFINE fixed == Integrity(conversation)
             grown == Append(fixed, item)
  <2>3. /\ fixed \in Seq(Item) /\ grown \in Seq(Item) /\ Pruned(grown) \in Seq(Item)
        /\ Alike(grown, Pruned(grown)) /\ conversation' = Pruned(grown)
    BY <2>1, <2>2, PushUserShape DEF PushUserMessage
  <2> HIDE DEF fixed
  <2>4. /\ Len(grown) = Len(fixed) + 1 /\ grown[Len(grown)] = item /\ Len(fixed) \in Nat
        /\ \A m \in 1..Len(fixed) : grown[m] = fixed[m]
    BY <2>3, AppendProperties, LenProperties
  <2>5. k \in 1..Len(fixed) /\ conversation'[k] # fixed[k]
    BY <2>3, LenProperties DEF fixed
  <2>6. k \in 1..Len(grown) /\ grown[k] = fixed[k]
    BY <2>4, <2>5
  <2>7. \A m \in 1..Len(grown) : RealPrompts(conversation', m) = RealPrompts(grown, m)
    <3> HIDE DEF grown
    <3> SUFFICES ASSUME NEW m \in 1..Len(grown)
                 PROVE  RealPrompts(conversation', m) = RealPrompts(grown, m)
      OBVIOUS
    <3>1. Len(conversation') = Len(grown) /\ \A n \in 1..Len(grown) : conversation'[n].kind = grown[n].kind
      BY <2>3 DEF Alike
    <3>2. Len(grown) \in Nat
      BY <2>3, LenProperties
    <3>3. {n \in m..Len(conversation') : conversation'[n].kind = "user"}
            = {n \in m..Len(grown) : grown[n].kind = "user"}
      BY <3>1, <3>2
    <3> QED
      BY <3>3 DEF RealPrompts
  <2> HIDE DEF grown
  <2>8. RealPrompts(grown, 1) = promptIndex
    BY <2>4, <2>7
  <2> QED
    BY <2>2, <2>3, <2>4, <2>5, <2>6, <2>7, <2>8, PruneSparesYoung
<1> QED
  BY <1>1, TypeInvariant, PTL DEF Spec, ClearedOnlyWhenOld
=============================================================================
