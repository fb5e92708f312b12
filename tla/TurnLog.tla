------------------------------- MODULE TurnLog -------------------------------
(***************************************************************************)
(* What a turn capture promises: between BeginTurnCapture and the take,     *)
(* whatever replaces the conversation in between, the capture holds every   *)
(* item pushed in that time, once and in push order. The capture never      *)
(* copies a pushed item: it remembers where the turn starts and reads the   *)
(* conversation from there, saving that tail before a replacement.          *)
(***************************************************************************)
EXTENDS Integers, Sequences

CONSTANTS Items,    \* the conversation items there can be
          NoCapture \* no capture is active

VARIABLES conversation, \* the history, a sequence of items
          capture,      \* NoCapture, or where the turn starts and what was saved
          pushed        \* what was pushed since the capture began

vars == <<conversation, capture, pushed>>

TurnTail(items, offset) == SubSeq(items, offset + 1, Len(items))

\* What taking the capture would deliver.
Captured == capture.saved \o TurnTail(conversation, capture.offset)

Init == /\ conversation \in Seq(Items)
        /\ capture = NoCapture
        /\ pushed = <<>>

Begin == /\ capture' = [offset |-> Len(conversation), saved |-> <<>>]
         /\ pushed' = <<>>
         /\ UNCHANGED conversation

\* One item appended behind everything else.
Push(item) == /\ conversation' = Append(conversation, item)
              /\ pushed' = IF capture = NoCapture THEN <<>> ELSE Append(pushed, item)
              /\ UNCHANGED capture

\* The history becomes `items`, then `new` is pushed behind it, in one command.
Rewrite(items, new) ==
    /\ conversation' = items \o new
    /\ \/ capture = NoCapture /\ UNCHANGED <<capture, pushed>>
       \/ /\ capture # NoCapture
          /\ capture' = [offset |-> Len(items), saved |-> Captured]
          /\ pushed' = pushed \o new

\* The capture is handed over, or thrown away with the process.
Close == /\ capture' = NoCapture
         /\ pushed' = <<>>
         /\ conversation' \in Seq(Items)

Next == \/ Begin
        \/ \E item \in Items : Push(item)
        \/ \E items, new \in Seq(Items) : Rewrite(items, new)
        \/ Close

Spec == Init /\ [][Next]_vars

TypeOK == /\ conversation \in Seq(Items)
          /\ pushed \in Seq(Items)
          /\ \/ capture = NoCapture
             \/ capture \in [offset : 0..Len(conversation), saved : Seq(Items)]

(***************************************************************************)
(* CaptureExact: a live capture delivers what was pushed since it began,    *)
(* nothing lost, doubled or reordered, however often the conversation was   *)
(* rewritten in between.                                                    *)
(***************************************************************************)
CaptureExact == capture # NoCapture => Captured = pushed
=============================================================================
