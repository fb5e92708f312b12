---------------------------- MODULE TurnLog_proofs ----------------------------
(* Proofs about turn captures, for conversations of any items and any length. *)
EXTENDS TurnLog, SequenceTheorems, TLAPS

(***************************************************************************)
(* An append behind the start of the turn lengthens the tail by that item.  *)
(***************************************************************************)
LEMMA TailOfAppend ==
    ASSUME NEW S, NEW items \in Seq(S), NEW item \in S, NEW offset \in 0..Len(items)
    PROVE  TurnTail(Append(items, item), offset) = Append(TurnTail(items, offset), item)
<1> DEFINE longer == Append(items, item)
           tail   == TurnTail(items, offset)
           tail2  == TurnTail(longer, offset)
<1>1. /\ longer \in Seq(S)
      /\ Len(longer) = Len(items) + 1
      /\ \A i \in 1..Len(items) : longer[i] = items[i]
      /\ longer[Len(items) + 1] = item
  BY AppendProperties
<1>2. /\ tail \in Seq(S)
      /\ Len(tail) = Len(items) - offset
      /\ \A i \in 1..Len(items) - offset : tail[i] = items[offset + i]
  BY SubSeqProperties, ElementOfSeq, LenProperties DEF TurnTail
<1>3. /\ tail2 \in Seq(S)
      /\ Len(tail2) = Len(items) + 1 - offset
      /\ \A i \in 1..Len(items) + 1 - offset : tail2[i] = longer[offset + i]
  <2> HIDE DEF longer
  <2> QED  BY <1>1, SubSeqProperties, ElementOfSeq, LenProperties DEF TurnTail
<1>4. /\ Append(tail, item) \in Seq(S)
      /\ Len(Append(tail, item)) = Len(tail) + 1
      /\ \A i \in 1..Len(tail) : Append(tail, item)[i] = tail[i]
      /\ Append(tail, item)[Len(tail) + 1] = item
  BY <1>2, AppendProperties
<1>5. ASSUME NEW i \in 1..Len(tail2)  PROVE tail2[i] = Append(tail, item)[i]
  <2>0. Len(items) \in Nat /\ i \in 1..Len(items) + 1 - offset  BY <1>3, LenProperties
  <2> HIDE DEF longer, tail, tail2
  <2>1. CASE i = Len(items) + 1 - offset  BY <2>0, <2>1, <1>1, <1>2, <1>3, <1>4
  <2>2. CASE i # Len(items) + 1 - offset
    <3>1. i \in 1..Len(items) - offset  BY <2>0, <2>2
    <3>2. offset + i \in 1..Len(items)  BY <2>0, <3>1
    <3> QED  BY <2>0, <3>1, <3>2, <1>1, <1>2, <1>3, <1>4
  <2> QED  BY <2>1, <2>2
<1>6. Len(tail2) = Len(Append(tail, item))
  <2> HIDE DEF longer, tail, tail2
  <2> QED  BY <1>2, <1>3, <1>4, LenProperties
<1>7. tail2 = Append(tail, item)
  <2> HIDE DEF longer, tail, tail2
  <2> QED  BY <1>3, <1>4, <1>5, <1>6, SeqEqual
<1> QED  BY <1>7

(***************************************************************************)
(* What follows a whole sequence in a concatenation is the second one.      *)
(***************************************************************************)
LEMMA TailOfConcat ==
    ASSUME NEW S, NEW items \in Seq(S), NEW new \in Seq(S)
    PROVE  TurnTail(items \o new, Len(items)) = new
  BY SubSeqOfConcat2, SubSeqFull, ConcatProperties, LenProperties DEF TurnTail

(***************************************************************************)
(* What a live capture would deliver is a sequence of items, and the start  *)
(* of the turn stays inside the conversation: turn_tail's out-of-range arm  *)
(* is never taken.                                                          *)
(***************************************************************************)
LEMMA TypeCorrect == Spec => []TypeOK
<1>1. Init => TypeOK
  BY EmptySeq DEF Init, TypeOK
<1>2. TypeOK /\ [Next]_vars => TypeOK'
  <2> SUFFICES ASSUME TypeOK, [Next]_vars  PROVE TypeOK'
    OBVIOUS
  <2>0. ASSUME capture # NoCapture  PROVE Captured \in Seq(Items)
    <3>1. /\ conversation \in Seq(Items)
          /\ capture.saved \in Seq(Items)
          /\ capture.offset \in 0..Len(conversation)
      BY <2>0 DEF TypeOK
    <3>2. TurnTail(conversation, capture.offset) \in Seq(Items)
      <4> HIDE DEF TypeOK
      <4> QED  BY <3>1, SubSeqProperties, ElementOfSeq, LenProperties DEF TurnTail
    <3> QED  BY <3>1, <3>2, ConcatProperties DEF Captured
  <2>1. CASE Begin
    BY <2>1, EmptySeq, LenProperties DEF Begin, TypeOK
  <2>2. ASSUME NEW item \in Items, Push(item)  PROVE TypeOK'
    <3>1. /\ Append(conversation, item) \in Seq(Items)
          /\ Append(pushed, item) \in Seq(Items)
          /\ <<>> \in Seq(Items)
          /\ Len(Append(conversation, item)) = Len(conversation) + 1
          /\ Len(conversation) \in Nat
      BY AppendProperties, EmptySeq, LenProperties DEF TypeOK
    <3>2. 0..Len(conversation) \subseteq 0..Len(conversation')
      BY <2>2, <3>1 DEF Push
    <3> QED  BY <2>2, <3>1, <3>2 DEF Push, TypeOK
  <2>3. ASSUME NEW items \in Seq(Items), NEW new \in Seq(Items), Rewrite(items, new)
        PROVE  TypeOK'
    <3>1. /\ items \o new \in Seq(Items)
          /\ pushed \o new \in Seq(Items)
          /\ Len(items \o new) = Len(items) + Len(new)
          /\ Len(items) \in Nat /\ Len(new) \in Nat
      BY ConcatProperties, LenProperties DEF TypeOK
    <3>2. CASE capture = NoCapture
      BY <2>3, <3>1, <3>2 DEF Rewrite, TypeOK
    <3>3. CASE capture # NoCapture
      <4>1. Len(items) \in 0..Len(conversation')
        BY <2>3, <3>1 DEF Rewrite
      <4>2. capture' = [offset |-> Len(items), saved |-> Captured]
        BY <2>3, <3>3 DEF Rewrite
      <4> HIDE DEF Captured
      <4> QED  BY <2>0, <2>3, <3>1, <3>3, <4>1, <4>2 DEF Rewrite, TypeOK
    <3> QED  BY <3>2, <3>3
  <2>4. CASE Close
    BY <2>4, EmptySeq DEF Close, TypeOK
  <2>5. CASE UNCHANGED vars
    BY <2>5 DEF vars, TypeOK
  <2> QED  BY <2>1, <2>2, <2>3, <2>4, <2>5 DEF Next
<1> QED  BY <1>1, <1>2, PTL DEF Spec

(***************************************************************************)
(* One step of the log leaves the capture exact.                            *)
(***************************************************************************)
LEMMA StepKeepsCapture == TypeOK /\ CaptureExact /\ [Next]_vars => CaptureExact'
<1> SUFFICES ASSUME TypeOK, CaptureExact, [Next]_vars, capture' # NoCapture
             PROVE  Captured' = pushed'
  BY DEF CaptureExact
<1>1. CASE Begin
  <2>1. TurnTail(conversation, Len(conversation)) = <<>>
    BY SubSeqEmpty, LenProperties DEF TypeOK, TurnTail
  <2> QED  BY <1>1, <2>1, ConcatEmptySeq, EmptySeq DEF Begin, Captured
<1>2. ASSUME NEW item \in Items, Push(item)  PROVE Captured' = pushed'
  <2>1. capture # NoCapture /\ capture' = capture
    BY <1>2 DEF Push
  <2> DEFINE tail == TurnTail(conversation, capture.offset)
  <2>2. /\ conversation \in Seq(Items)
        /\ capture.saved \in Seq(Items)
        /\ capture.offset \in 0..Len(conversation)
        /\ pushed = capture.saved \o tail
    BY <2>1 DEF TypeOK, CaptureExact, Captured
  <2>3. tail \in Seq(Items)
    BY <2>2, SubSeqProperties, ElementOfSeq, LenProperties DEF TurnTail
  <2>4. TurnTail(conversation', capture'.offset) = Append(tail, item)
    BY <1>2, <2>1, <2>2, TailOfAppend DEF Push
  <2> HIDE DEF tail
  <2>5. capture.saved \o Append(tail, item) = Append(capture.saved \o tail, item)
    <3> DEFINE saved == capture.saved
               one   == <<item>>
    <3>1. one \in Seq(Items) /\ saved \in Seq(Items)
      BY <2>2
    <3>2. saved \o tail \in Seq(Items)
      BY <2>3, <3>1, ConcatProperties
    <3>3. Append(tail, item) = tail \o one
      BY <2>3, AppendIsConcat
    <3>4. Append(saved \o tail, item) = (saved \o tail) \o one
      BY <3>2, AppendIsConcat
    <3> HIDE DEF saved, one
    <3>5. saved \o (tail \o one) = (saved \o tail) \o one
      BY <2>3, <3>1, ConcatAssociative
    <3>6. saved \o Append(tail, item) = Append(saved \o tail, item)
      BY <3>3, <3>4, <3>5
    <3> QED  BY <3>6 DEF saved
  <2> QED  BY <1>2, <2>1, <2>2, <2>4, <2>5 DEF Push, Captured
<1>3. ASSUME NEW items \in Seq(Items), NEW new \in Seq(Items), Rewrite(items, new)
      PROVE  Captured' = pushed'
  <2>1. capture # NoCapture
    BY <1>3 DEF Rewrite
  <2>2. /\ conversation' = items \o new
        /\ capture'.offset = Len(items)
        /\ capture'.saved = Captured
        /\ pushed' = pushed \o new
    BY <1>3, <2>1 DEF Rewrite
  <2>3. TurnTail(conversation', capture'.offset) = new
    BY <2>2, TailOfConcat
  <2>4. Captured = pushed
    BY <2>1 DEF CaptureExact
  <2>5. Captured' = capture'.saved \o TurnTail(conversation', capture'.offset)
    BY DEF Captured
  <2> HIDE DEF Captured
  <2> QED  BY <2>2, <2>3, <2>4, <2>5
<1>4. CASE Close
  BY <1>4 DEF Close
<1>5. CASE UNCHANGED vars
  BY <1>5 DEF vars, CaptureExact, Captured
<1> QED  BY <1>1, <1>2, <1>3, <1>4, <1>5 DEF Next

(***************************************************************************)
(* A live capture delivers exactly what was pushed since it began, through  *)
(* any number of appends, repairs, compactions and restores.                *)
(***************************************************************************)
THEOREM CaptureIsExact == Spec => []CaptureExact
<1>1. Init => CaptureExact
  BY DEF Init, CaptureExact
<1>2. TypeOK /\ CaptureExact /\ [Next]_vars => CaptureExact'
  BY StepKeepsCapture
<1> QED  BY <1>1, <1>2, TypeCorrect, PTL DEF Spec
=============================================================================
