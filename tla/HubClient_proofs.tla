---------------------------- MODULE HubClient_proofs ----------------------------
(* Proofs about HubClient for any number of calls, sessions and faults. *)
EXTENDS HubClient, SequenceTheorems, TLAPS

\* The types by component, of whole records; a frame is sent only when there is one.
Answers  == {"none", "Result"} \cup Errors
QueueOK  == /\ outbound \in Seq(Frames) /\ Len(outbound) <= OutboundBuffer /\ open \in BOOLEAN
            /\ ctl \in Seq(0 .. conn) /\ Len(ctl) <= 2
WriterOK == /\ writer \in [pc : {"select", "polled", "sending", "stopped"}, frame : Frames \cup {Nothing},
                           live : BOOLEAN, sink : 1 .. conn]
            /\ writer.pc = "sending" => writer.frame \in Frames
ReaderOK == reader \in [pc : {"connected", "lost", "disconnected", "pausing", "drain", "draining", "backoff",
                             "resuming", "stopping", "joining", "exited"},
                       error : Errors, next : {"backoff", "exit", "stopping"}, keys : SUBSET Frames]
CallsOK  == call \in [Callers -> [pc : {"idle", "send", "full", "await", "done"}, n : Nat, answer : Answers]]
ReplayOK == /\ replay \in [pc : {"waiting", "woken", "replaying", "called", "settling", "aborted"},
                           since : Nat, checked : Nat, todo : SUBSET Sessions, all : BOOLEAN,
                           session : Sessions \cup {Nothing}, attempt : 0 .. ServeMaxAttempts]
            /\ replay.since <= epoch /\ replay.checked <= epoch
            /\ (replay.pc = "called") <=> (replay.session \in replay.todo)
HubOK    == /\ conn \in Nat \ {0} /\ wire \subseteq Frames /\ refused \subseteq wire /\ served \subseteq Sessions /\ epoch \in Nat
            /\ {stopWriter, stop, reconnect, up, notify, ready} \subseteq BOOLEAN /\ faults \in 0 .. MaxFaults

Typed == QueueOK /\ WriterOK /\ ReaderOK /\ CallsOK /\ waiters \subseteq Frames /\ ReplayOK /\ HubOK

\* What the reader does next fits where it is, and it stops the writer last.
ReaderInv ==
    /\ reader.pc \in {"connected", "pausing", "backoff", "resuming"} => reader.next = "backoff"
    /\ reader.pc \in {"lost", "disconnected"} => reader.next \in {"backoff", "exit"}
    /\ reader.pc \in {"stopping", "joining", "exited"} => reader.next = "stopping"
    /\ stopWriter => reader.pc \in {"joining", "exited"}

\* Between the pause of the writer and its resumption, and while it may send.
Paused  == reader.pc \in {"backoff", "resuming"} \/ (reader.pc \in {"drain", "draining"} /\ reader.next = "backoff")
Running == reader.pc \in {"connected", "lost", "disconnected", "pausing"}

\* What the writer was told last, or what it made of it.
WriterInv ==
    /\ Paused  => IF ctl = <<>> THEN ~writer.live ELSE ctl[Len(ctl)] = 0
    /\ Running => IF ctl = <<>> THEN writer.sink = conn ELSE ctl[Len(ctl)] = conn

\* The table holds the frames of the calls that have no answer yet, and no others.
Parked(x) == call[x].pc \in {"send", "full", "await"} /\ call[x].answer = "none"
WaitersInv == waiters = {Frame(x) : x \in {y \in Callers : Parked(y)}}

\* A session has a serve under way only while the replay task waits for it.
Underway(x) == call[x].pc \in {"send", "full", "await"}
OneServe == \A s \in Sessions : Underway(s) => replay.pc = "called" /\ replay.session = s

\* What the writer saw at its last poll of control made it live.
PolledInv == writer.pc = "polled" => writer.live

\* The frame of a call that waits is in the queue, on the present socket, or due to be drained ...
Cared(f)   == OnItsWay(f) \/ DrainDue(f)
Kept(x)    == Waiting(x) /\ ~Leaving => Cared(Frame(x))

\* ... but for one, whose frame the writer took before it saw the Pause: as long as it has not seen
\* the Pause, that has not happened yet.
StrandInv ==
    /\ \A x, y \in Callers : ~Kept(x) /\ ~Kept(y) => x = y
    /\ writer.pc = "polled" /\ ctl # <<>> => \A x \in Callers : Kept(x)

\* From the new epoch until the next socket is there.
Down == \/ reader.pc \in {"disconnected", "pausing", "backoff"}
        \/ reader.pc \in {"drain", "draining"} /\ reader.next = "backoff"

\* What the replay counted in this epoch the hub has on this socket.
ServedInv ==
    /\ \A f \in wire \ refused : f.by \in Sessions => f.by \in served
    /\ replay.pc \in {"replaying", "called"} /\ replay.all /\ replay.since = epoch =>
           Sessions \ replay.todo \subseteq served /\ (Down => replay.todo = Sessions)
    /\ replay.pc = "called" /\ replay.since = epoch /\ call[replay.session].answer = "Result" =>
           replay.session \in served /\ ~Down
    /\ replay.pc = "settling" /\ replay.checked = epoch =>
           served = Sessions /\ (Down => Sessions = {})
-----------------------------------------------------------------------------
(* Types. *)

LEMMA FrameTypes ==
    ASSUME CallsOK, NEW x \in Callers
    PROVE  /\ call[x] \in [pc : {"idle", "send", "full", "await", "done"}, n : Nat, answer : Answers]
           /\ Frame(x) \in Frames
BY DEF CallsOK, Frame, Frames

\* A new request has the next number; nobody has answered it.
LEMMA RegisterTypes ==
    ASSUME CallsOK, waiters \subseteq Frames, NEW x \in Callers, Register(x)
    PROVE  CallsOK' /\ waiters' \subseteq Frames
<1>1. call[x].n + 1 \in Nat
  BY FrameTypes
<1>2. [by |-> x, n |-> call[x].n + 1] \in Frames
  BY <1>1 DEF Frames
<1>3. CallsOK'
  BY <1>1 DEF Register, CallsOK, Answers
<1> QED
  BY <1>2, <1>3 DEF Register

\* A call returns with an answer.
LEMMA ReturnTypes ==
    ASSUME CallsOK, waiters \subseteq Frames, NEW x \in Callers, NEW a \in Answers, Return(x, a)
    PROVE  CallsOK' /\ waiters' \subseteq Frames
<1>1. CallsOK'
  <2> DEFINE c == [call EXCEPT ![x].pc = "done"]
  <2>1. c \in [Callers -> [pc : {"idle", "send", "full", "await", "done"}, n : Nat, answer : Answers]]
    BY DEF CallsOK
  <2>2. call' = [c EXCEPT ![x].answer = a]
    BY DEF Return
  <2> HIDE DEF c
  <2> QED
    BY <2>1, <2>2 DEF CallsOK
<1> QED
  BY <1>1 DEF Return

\* An answer reaches the call whose waiter is taken.
LEMMA RouteTypes ==
    ASSUME CallsOK, NEW f \in Frames, NEW a \in Answers,
           call' = IF f \in waiters THEN [call EXCEPT ![f.by].answer = a] ELSE call
    PROVE  CallsOK'
<1>1. f.by \in Callers
  BY DEF Frames
<1> QED
  BY <1>1 DEF CallsOK

\* A sequence whose elements lie in a set is a sequence over that set.
LEMMA Widened ==
    ASSUME NEW S, NEW T, S \subseteq T, NEW q \in Seq(S)
    PROVE  q \in Seq(T)
<1>1. \A i \in 1 .. Len(q) : q[i] \in T
  OBVIOUS
<1> QED
  BY <1>1

\* The record of a replay task that does nothing.
LEMMA Blank ==
    ASSUME NEW label \in {"waiting", "aborted"}, NEW r,
           r = [pc |-> label, since |-> 0, checked |-> 0, todo |-> {}, all |-> TRUE,
                session |-> Nothing, attempt |-> 0]
    PROVE  /\ r \in [pc : {"waiting", "woken", "replaying", "called", "settling", "aborted"},
                     since : Nat, checked : Nat, todo : SUBSET Sessions, all : BOOLEAN,
                     session : Sessions \cup {Nothing}, attempt : 0 .. ServeMaxAttempts]
           /\ r.since = 0 /\ r.checked = 0 /\ r.pc # "called" /\ r.session \notin r.todo
<1>1. 0 \in 0 .. ServeMaxAttempts
  BY HubAssumption
<1> QED
  BY <1>1

\* Every step keeps the types.
LEMMA TypeStep == Typed /\ [Next]_vars => Typed'
<1> SUFFICES ASSUME Typed, [Next]_vars
             PROVE  Typed'
  OBVIOUS
<1>t. QueueOK /\ WriterOK /\ ReaderOK /\ CallsOK /\ waiters \subseteq Frames /\ ReplayOK /\ HubOK
  BY DEF Typed
<1>c. Sessions \subseteq Callers /\ Calls \subseteq Callers
  BY DEF Callers
<1>a. /\ Errors \subseteq Answers /\ "Result" \in Answers /\ "none" \in Answers
      /\ {"NetworkError", "Closed", "AuthError", "Backpressure", "TimedOut", "Error"} = Errors
  BY DEF Answers, Errors
<1> DEFINE
      signals == <<stopWriter, stop, reconnect, notify, ready, faults>>
      sockets == <<conn, up, wire, refused, served>>
<1>u. /\ UNCHANGED <<outbound, open, ctl, conn>> => QueueOK'
      /\ UNCHANGED <<writer, conn>> => WriterOK'
      /\ UNCHANGED reader => ReaderOK'
      /\ UNCHANGED call => CallsOK'
      /\ UNCHANGED <<replay, epoch>> => ReplayOK'
      /\ UNCHANGED <<conn, up, wire, refused, served, epoch, signals>> => HubOK'
  BY <1>t DEF QueueOK, WriterOK, ReaderOK, CallsOK, ReplayOK, HubOK
<1>f. Fault => faults' \in 0 .. MaxFaults
  BY <1>t, HubAssumption DEF HubOK, Fault
<1>h. Fault /\ UNCHANGED <<conn, wire, refused, served, epoch, stopWriter, reconnect, notify, ready>>
      /\ up' \in BOOLEAN /\ stop' \in BOOLEAN => HubOK'
  BY <1>t, <1>f DEF HubOK
<1>b. stop \in BOOLEAN /\ up \in BOOLEAN
  BY <1>t DEF HubOK
<1> USE DEF queues, callers, hub, server
<1>1. ASSUME NEW x \in Callers,
             Enqueue(x) \/ FindsItFull(x) \/ FindsItClosed(x) \/ Answered(x) \/ StaysFull(x)
      PROVE  Typed'
  <2>p. ASSUME NEW l \in {"full", "await"}, call' = [call EXCEPT ![x].pc = l]
        PROVE  CallsOK'
    BY <1>t, <2>p DEF CallsOK
  <2>1. CASE Enqueue(x)
    <3>1. outbound' \in Seq(Frames) /\ Len(outbound') <= OutboundBuffer
      BY <1>t, <2>1, FrameTypes, HubAssumption DEF QueueOK, Enqueue
    <3>2. QueueOK'
      BY <1>t, <2>1, <3>1 DEF QueueOK, Enqueue
    <3> QED
      BY <1>t, <1>u, <2>p, <2>1, <3>2 DEF Typed, Enqueue
  <2>2. CASE FindsItFull(x)
    BY <1>t, <1>u, <2>p, <2>2 DEF Typed, FindsItFull
  <2>3. CASE FindsItClosed(x)
    <3>1. CallsOK' /\ waiters' \subseteq Frames
      BY <1>t, <1>a, <2>3, ReturnTypes DEF FindsItClosed
    <3> QED
      BY <1>t, <1>u, <2>3, <3>1 DEF Typed, FindsItClosed
  <2>4. CASE Answered(x)
    <3>1. CallsOK' /\ waiters' \subseteq Frames
      BY <1>t, <2>4, FrameTypes, ReturnTypes DEF Answered
    <3> QED
      BY <1>t, <1>u, <2>4, <3>1 DEF Typed, Answered
  <2>5. CASE StaysFull(x)
    <3>1. CallsOK' /\ waiters' \subseteq Frames
      BY <1>t, <1>a, <2>5, ReturnTypes DEF StaysFull
    <3> QED
      BY <1>t, <1>b, <1>h, <1>u, <2>5, <3>1 DEF Typed, StaysFull
  <2> QED
    BY <1>1, <2>1, <2>2, <2>3, <2>4, <2>5
<1>2. ASSUME NEW c \in Calls, PlainCall(c)
      PROVE  Typed'
  <2>1. CallsOK' /\ waiters' \subseteq Frames
    BY <1>t, <1>c, <1>2, RegisterTypes DEF PlainCall
  <2> QED
    BY <1>t, <1>u, <1>2, <2>1 DEF Typed, PlainCall
<1>3. ASSUME NEW s \in Sessions, TimesOut(s)
      PROVE  Typed'
  <2>1. CallsOK' /\ waiters' \subseteq Frames
    BY <1>t, <1>a, <1>c, <1>3, ReturnTypes DEF TimesOut
  <2> QED
    BY <1>t, <1>b, <1>h, <1>u, <1>3, <2>1 DEF Typed, TimesOut
<1>9. ASSUME NEW s \in Sessions, DeadlineEnds(s)
      PROVE  Typed'
  <2>1. CallsOK' /\ waiters' \subseteq Frames
    BY <1>t, <1>a, <1>c, <1>9, ReturnTypes DEF DeadlineEnds
  <2> QED
    BY <1>t, <1>u, <1>9, <2>1 DEF Typed, DeadlineEnds
<1>4. CASE RequestShutdown \/ SocketDies
  BY <1>t, <1>b, <1>h, <1>u, <1>4 DEF Typed, RequestShutdown, SocketDies
<1>5. ASSUME WriterStep \/ PingFails \/ HubRefuses
      PROVE  Typed'
  <2>1. CASE WriterStops
    <3>1. QueueOK'
      <4>1. outbound' \in Seq(Frames) /\ Len(outbound') <= OutboundBuffer
        BY <2>1, HubAssumption DEF WriterStops
      <4> QED
        BY <1>t, <2>1, <4>1 DEF QueueOK, WriterStops
    <3>2. WriterOK'
      BY <1>t, <2>1 DEF WriterOK, WriterStops
    <3> QED
      BY <1>t, <1>u, <2>1, <3>1, <3>2 DEF Typed, WriterStops
  <2>2. CASE WriterControl
    <3>1. ctl \in Seq(0 .. conn) /\ ctl # <<>> /\ Len(ctl) <= 2 /\ conn \in Nat
      BY <1>t, <2>2 DEF QueueOK, HubOK, WriterControl
    <3>2. Tail(ctl) \in Seq(0 .. conn) /\ Len(Tail(ctl)) <= 2 /\ Head(ctl) \in 0 .. conn
      BY <3>1
    <3>3. QueueOK'
      BY <1>t, <2>2, <3>2 DEF QueueOK, WriterControl
    <3>4. WriterOK'
      <4>1. CASE Head(ctl) = 0
        BY <1>t, <2>2, <4>1 DEF WriterOK, WriterControl
      <4>2. CASE Head(ctl) # 0
        <5>1. Head(ctl) \in 1 .. conn
          BY <3>1, <3>2, <4>2
        <5> QED
          BY <1>t, <2>2, <4>2, <5>1 DEF WriterOK, WriterControl
      <4> QED
        BY <4>1, <4>2
    <3> QED
      BY <1>t, <1>u, <2>2, <3>3, <3>4 DEF Typed, WriterControl
  <2>3. CASE WriterTakes
    <3>1. outbound' \in Seq(Frames) /\ Len(outbound') <= OutboundBuffer /\ Head(outbound) \in Frames
      BY <1>t, <2>3, HubAssumption DEF QueueOK, WriterTakes
    <3>2. QueueOK'
      BY <1>t, <2>3, <3>1 DEF QueueOK, WriterTakes
    <3>3. WriterOK'
      BY <1>t, <2>3, <3>1 DEF WriterOK, WriterTakes
    <3>4. HubOK'
      BY <1>t, <1>f, <2>3 DEF HubOK, WriterTakes
    <3> QED
      BY <1>t, <1>u, <2>3, <3>2, <3>3, <3>4 DEF Typed, WriterTakes
  <2>4. CASE WriterSends
    <3>1. WriterOK'
      BY <1>t, <2>4 DEF WriterOK, WriterSends
    <3>2. HubOK'
      BY <1>t, <2>4 DEF HubOK, WriterOK, WriterSends
    <3> QED
      BY <1>t, <1>u, <2>4, <3>1, <3>2 DEF Typed, WriterSends
  <2>5. CASE WriterSendsInVain
    <3>1. PICK fails \in BOOLEAN : writer' = [writer EXCEPT !.pc = "select", !.frame = Nothing,
                                                            !.live = writer.live /\ ~fails]
      BY <2>5 DEF WriterSendsInVain
    <3>2. (writer.live /\ ~fails) \in BOOLEAN
      OBVIOUS
    <3>3. WriterOK'
      BY <1>t, <2>5, <3>1, <3>2 DEF WriterOK, WriterSendsInVain
    <3> QED
      BY <1>t, <1>u, <2>5, <3>3 DEF Typed, WriterSendsInVain
  <2>6. CASE PingFails
    <3>1. WriterOK'
      BY <1>t, <2>6 DEF WriterOK, PingFails
    <3> QED
      BY <1>t, <1>u, <2>6, <3>1 DEF Typed, PingFails
  <2>7. CASE WriterPolls \/ WriterPollsAgain
    <3>1. WriterOK'
      BY <1>t, <2>7 DEF WriterOK, WriterPolls, WriterPollsAgain
    <3> QED
      BY <1>t, <1>u, <2>7, <3>1 DEF Typed, WriterPolls, WriterPollsAgain
  <2>8. CASE HubRefuses
    <3>1. WriterOK'
      BY <1>t, <2>8 DEF WriterOK, HubRefuses
    <3>2. HubOK'
      <4>1. writer.frame \in Frames
        BY <1>t, <2>8 DEF WriterOK, HubRefuses
      <4> QED
        BY <1>t, <1>f, <2>8, <4>1 DEF HubOK, HubRefuses
    <3> QED
      BY <1>t, <1>u, <2>8, <3>1, <3>2 DEF Typed, HubRefuses
  <2> QED
    BY <1>5, <2>1, <2>2, <2>3, <2>4, <2>5, <2>6, <2>7, <2>8 DEF WriterStep
<1>6. ASSUME ReaderStep \/ TerminalClose \/ ReconnectFails \/ ReconnectRejected
      PROVE  Typed'
  <2> USE DEF Goto, DrainThen, ExitDrain
  <2>e. "NetworkError" \in Errors /\ "Closed" \in Errors /\ "AuthError" \in Errors
    BY DEF Errors
  <2>1. CASE ReadsStop \/ ReadsForced \/ SocketClosed
    <3>1. ReaderOK'
      <4>1. CASE ReadsStop
        BY <1>t, <2>e, <4>1 DEF ReaderOK, ReadsStop
      <4>2. CASE ReadsForced \/ SocketClosed
        BY <1>t, <4>2 DEF ReaderOK, ReadsForced, SocketClosed
      <4> QED
        BY <2>1, <4>1, <4>2
    <3>2. HubOK'
      BY <1>t, <2>1 DEF HubOK, ReadsStop, ReadsForced, SocketClosed
    <3> QED
      BY <1>t, <1>u, <2>1, <3>1, <3>2 DEF Typed, ReadsStop, ReadsForced, SocketClosed
  <2>2. ASSUME NEW f \in wire, RouteResponse(f)
        PROVE  Typed'
    <3>1. f \in Frames
      BY <1>t DEF HubOK
    <3>2. CallsOK' /\ waiters' \subseteq Frames
      <4> DEFINE a == IF f \in refused THEN "Error" ELSE "Result"
      <4>1. a \in Answers
        BY <1>a
      <4>2. /\ call' = IF f \in waiters THEN [call EXCEPT ![f.by].answer = a] ELSE call
            /\ waiters' \subseteq waiters
        BY <2>2 DEF RouteResponse
      <4> HIDE DEF a
      <4> QED
        BY <1>t, <3>1, <4>1, <4>2, RouteTypes
    <3>3. HubOK'
      BY <1>t, <2>2 DEF HubOK, RouteResponse
    <3> QED
      BY <1>t, <1>u, <2>2, <3>2, <3>3 DEF Typed, RouteResponse
  <2>3. CASE BumpEpoch
    <3>1. ReaderOK'
      BY <1>t, <2>3 DEF ReaderOK, BumpEpoch
    <3>2. HubOK'
      BY <1>t, <2>3 DEF HubOK, BumpEpoch
    <3>3. ReplayOK'
      BY <1>t, <2>3 DEF ReplayOK, HubOK, BumpEpoch
    <3> QED
      BY <1>t, <1>u, <2>3, <3>1, <3>2, <3>3 DEF Typed, BumpEpoch
  <2>4. CASE OnDisconnect
    <3>1. ReaderOK'
      BY <1>t, <2>4, <2>e DEF ReaderOK, OnDisconnect
    <3>2. HubOK'
      BY <1>t, <2>4 DEF HubOK, OnDisconnect
    <3> QED
      BY <1>t, <1>u, <2>4, <3>1, <3>2 DEF Typed, OnDisconnect
  <2>5. CASE PauseWriter
    <3>1. ctl' \in Seq(0 .. conn) /\ Len(ctl') <= 2
      BY <1>t, <2>5 DEF QueueOK, HubOK, PauseWriter
    <3>2. QueueOK'
      BY <1>t, <2>5, <3>1 DEF QueueOK, PauseWriter
    <3>3. ReaderOK'
      BY <1>t, <2>5, <2>e DEF ReaderOK, PauseWriter
    <3> QED
      BY <1>t, <1>u, <2>5, <3>2, <3>3 DEF Typed, PauseWriter
  <2>6. CASE DrainKeys
    <3>1. ReaderOK'
      BY <1>t, <2>6 DEF ReaderOK, DrainKeys
    <3> QED
      BY <1>t, <1>u, <2>6, <3>1 DEF Typed, DrainKeys
  <2>7. CASE Drained
    <3>1. ReaderOK'
      BY <1>t, <2>7, <2>e DEF ReaderOK, Drained
    <3> QED
      BY <1>t, <1>u, <2>7, <3>1 DEF Typed, Drained
  <2>8. ASSUME NEW f \in reader.keys, DrainOne(f)
        PROVE  Typed'
    <3>1. f \in Frames /\ reader.error \in Errors
      BY <1>t DEF ReaderOK
    <3>2. CallsOK' /\ waiters' \subseteq Frames
      BY <1>t, <1>a, <2>8, <3>1, RouteTypes DEF DrainOne
    <3>3. ReaderOK'
      BY <1>t, <2>8 DEF ReaderOK, DrainOne
    <3> QED
      BY <1>t, <1>u, <2>8, <3>2, <3>3 DEF Typed, DrainOne
  <2>9. CASE StopsReconnecting \/ StopWriter \/ Exited
    <3>1. ReaderOK'
      BY <1>t, <2>9, <2>e DEF ReaderOK, StopsReconnecting, StopWriter, Exited
    <3>2. HubOK'
      BY <1>t, <2>9 DEF HubOK, StopsReconnecting, StopWriter, Exited
    <3> QED
      BY <1>t, <1>u, <2>9, <3>1, <3>2 DEF Typed, StopsReconnecting, StopWriter, Exited
  <2>10. CASE Reconnected
    <3>1. 0 .. conn \subseteq 0 .. conn' /\ 1 .. conn \subseteq 1 .. conn' /\ conn' \in Nat \ {0}
      BY <1>t, <2>10 DEF HubOK, Reconnected
    <3>2. ctl' \in Seq(0 .. conn')
      BY <1>t, <2>10, <3>1, Widened DEF QueueOK, Reconnected
    <3>3. QueueOK'
      BY <1>t, <2>10, <3>2 DEF QueueOK, Reconnected
    <3>4. WriterOK'
      BY <1>t, <2>10, <3>1 DEF WriterOK, Reconnected
    <3>5. ReaderOK'
      BY <1>t, <2>10 DEF ReaderOK, Reconnected
    <3>6. HubOK'
      BY <1>t, <2>10, <3>1 DEF HubOK, Reconnected
    <3> QED
      BY <1>t, <1>u, <2>10, <3>3, <3>4, <3>5, <3>6 DEF Typed, Reconnected
  <2>11. CASE ResumeWriter
    <3>1. ctl' \in Seq(0 .. conn) /\ Len(ctl') <= 2
      BY <1>t, <2>11 DEF QueueOK, HubOK, ResumeWriter
    <3>2. QueueOK'
      BY <1>t, <2>11, <3>1 DEF QueueOK, ResumeWriter
    <3>3. ReaderOK'
      BY <1>t, <2>11 DEF ReaderOK, ResumeWriter
    <3> QED
      BY <1>t, <1>u, <2>11, <3>2, <3>3 DEF Typed, ResumeWriter
  <2>12. CASE TerminalClose \/ ReconnectFails \/ ReconnectRejected
    <3>1. ReaderOK'
      <4>1. CASE TerminalClose \/ ReconnectFails
        BY <1>t, <4>1 DEF ReaderOK, TerminalClose, ReconnectFails
      <4>2. CASE ReconnectRejected
        BY <1>t, <2>e, <4>2 DEF ReaderOK, ReconnectRejected
      <4> QED
        BY <2>12, <4>1, <4>2
    <3>2. HubOK'
      BY <1>b, <1>h, <2>12 DEF TerminalClose, ReconnectFails, ReconnectRejected
    <3> QED
      BY <1>t, <1>u, <2>12, <3>1, <3>2 DEF Typed, TerminalClose, ReconnectFails, ReconnectRejected
  <2> QED
    BY <1>6, <2>1, <2>2, <2>3, <2>4, <2>5, <2>6, <2>7, <2>8, <2>9, <2>10, <2>11, <2>12 DEF ReaderStep
<1>7. ASSUME ReplayStep
      PROVE  Typed'
  <2>n. Nothing \notin Sessions /\ 0 \in 0 .. ServeMaxAttempts /\ 1 \in 0 .. ServeMaxAttempts
    BY HubAssumption
  <2>r. AtRest = [pc |-> "waiting", since |-> 0, checked |-> 0, todo |-> {}, all |-> TRUE,
                  session |-> Nothing, attempt |-> 0]
    BY DEF AtRest
  <2>i. epoch \in Nat
    BY <1>t DEF HubOK
  <2>0. replay' = AtRest /\ UNCHANGED epoch => ReplayOK'
    BY <2>i, <2>r, Blank DEF ReplayOK
  <2>1. CASE ReplayWakes
    <3>1. ReplayOK'
      BY <1>t, <2>1 DEF ReplayOK, ReplayWakes
    <3>2. HubOK'
      BY <1>t, <2>1 DEF HubOK, ReplayWakes
    <3> QED
      BY <1>t, <1>u, <2>1, <3>1, <3>2 DEF Typed, ReplayWakes
  <2>2. CASE ReplayStarts
    <3>1. replay' = [pc |-> "replaying", since |-> epoch, checked |-> 0, todo |-> Sessions, all |-> TRUE,
                     session |-> Nothing, attempt |-> 0]
      BY <2>r, <2>2 DEF ReplayStarts
    <3>2. ReplayOK'
      <4>1. UNCHANGED epoch
        BY <2>2 DEF ReplayStarts
      <4> QED
        BY <2>n, <2>i, <3>1, <4>1 DEF ReplayOK
    <3> QED
      BY <1>t, <1>u, <2>2, <3>2 DEF Typed, ReplayStarts
  <2>3. ASSUME NEW s \in Sessions, ServeSession(s)
        PROVE  Typed'
    <3>1. CallsOK' /\ waiters' \subseteq Frames
      BY <1>t, <1>c, <2>3, RegisterTypes DEF ServeSession
    <3>2. ReplayOK'
      BY <1>t, <2>n, <2>3 DEF ReplayOK, ServeSession
    <3> QED
      BY <1>t, <1>u, <2>3, <3>1, <3>2 DEF Typed, ServeSession
  <2>4. CASE ServeAgain
    <3>1. replay.session \in Sessions
      BY <1>t, <2>4 DEF ReplayOK, ServeAgain, ServeReturned
    <3>2. CallsOK' /\ waiters' \subseteq Frames
      BY <1>t, <1>c, <2>4, <3>1, RegisterTypes DEF ServeAgain
    <3>3. replay.attempt + 1 \in 0 .. ServeMaxAttempts
      BY <1>t, <2>4, HubAssumption DEF ReplayOK, ServeAgain
    <3>4. ReplayOK'
      BY <1>t, <2>4, <3>3 DEF ReplayOK, ServeAgain
    <3> QED
      BY <1>t, <1>u, <2>4, <3>2, <3>4 DEF Typed, ServeAgain
  <2>5. CASE ServeGivesUp \/ ServeEnds
    <3>1. PICK ok \in BOOLEAN : NextSession(ok)
      BY <2>5 DEF ServeGivesUp, ServeEnds
    <3>2. (replay.all /\ ok) \in BOOLEAN
      OBVIOUS
    <3>3. ReplayOK'
      <4> DEFINE all == replay.all /\ ok
      <4>1. all \in BOOLEAN
        OBVIOUS
      <4>2. /\ replay' = [replay EXCEPT !.pc = "replaying", !.todo = @ \ {replay.session}, !.all = all,
                                        !.session = Nothing, !.attempt = 0]
            /\ epoch' = epoch
        BY <2>5, <3>1 DEF NextSession, ServeGivesUp, ServeEnds
      <4> HIDE DEF all
      <4> QED
        BY <1>t, <2>n, <4>1, <4>2 DEF ReplayOK
    <3>4. HubOK'
      BY <1>t, <2>5 DEF HubOK, ServeGivesUp, ServeEnds
    <3> QED
      BY <1>t, <1>u, <2>5, <3>3, <3>4 DEF Typed, ServeGivesUp, ServeEnds
  <2>6. CASE ReplayChecks
    <3>1. ReplayOK'
      <4>1. CASE replay' = AtRest
        BY <2>6, <2>0, <4>1 DEF ReplayChecks
      <4>2. CASE replay' = [replay EXCEPT !.pc = "settling", !.checked = epoch]
        <5>1. UNCHANGED epoch
          BY <2>6 DEF ReplayChecks
        <5>2. replay.session \notin replay.todo
          BY <1>t, <2>6 DEF ReplayOK, ReplayChecks
        <5>3. /\ replay' \in [pc : {"settling"}, since : {replay.since}, checked : {epoch},
                             todo : {replay.todo}, all : {replay.all}, session : {replay.session},
                             attempt : {replay.attempt}]
              /\ replay.since <= epoch
          BY <1>t, <4>2 DEF ReplayOK
        <5> QED
          BY <1>t, <2>i, <5>1, <5>2, <5>3 DEF ReplayOK
      <4> QED
        BY <2>6, <4>1, <4>2 DEF ReplayChecks
    <3> QED
      BY <1>t, <1>u, <2>6, <3>1 DEF Typed, ReplayChecks
  <2>7. CASE Settles
    <3>1. ReplayOK'
      BY <2>7, <2>0 DEF Settles
    <3>2. HubOK'
      BY <1>t, <2>7 DEF HubOK, Settles
    <3> QED
      BY <1>t, <1>u, <2>7, <3>1, <3>2 DEF Typed, Settles
  <2>8. CASE ReplayAborted
    <3>1. CallsOK' /\ waiters' \subseteq Frames
      <4>1. CASE replay.pc = "called"
        <5>1. replay.session \in Callers
          BY <1>t, <1>c, <4>1 DEF ReplayOK
        <5> QED
          BY <1>t, <2>8, <4>1, <5>1, FrameTypes, ReturnTypes DEF ReplayAborted
      <4>2. CASE replay.pc # "called"
        BY <1>t, <1>u, <2>8, <4>2 DEF ReplayAborted
      <4> QED
        BY <4>1, <4>2
    <3>2. ReplayOK'
      <4>1. replay' = [pc |-> "aborted", since |-> 0, checked |-> 0, todo |-> {}, all |-> TRUE,
                       session |-> Nothing, attempt |-> 0]
        BY <2>r, <2>8 DEF ReplayAborted
      <4> QED
        <5>1. UNCHANGED epoch
          BY <2>8 DEF ReplayAborted
        <5> QED
          BY <2>i, <4>1, <5>1, Blank DEF ReplayOK
    <3> QED
      BY <1>t, <1>u, <2>8, <3>1, <3>2 DEF Typed, ReplayAborted
  <2> QED
    BY <1>7, <2>1, <2>2, <2>3, <2>4, <2>5, <2>6, <2>7, <2>8 DEF ReplayStep
<1>8. CASE UNCHANGED vars
  BY <1>t, <1>u, <1>8 DEF Typed, vars
<1> QED
  BY <1>1, <1>2, <1>3, <1>4, <1>5, <1>6, <1>7, <1>8, <1>9 DEF Next, CallerStep

LEMMA Typing == Spec => []Typed
<1>1. Init => Typed
  <2> SUFFICES ASSUME Init PROVE Typed
    OBVIOUS
  <2>1. 0 \in 0 .. MaxFaults /\ 0 \in 0 .. ServeMaxAttempts /\ Nothing \notin Sessions /\ 0 <= OutboundBuffer
    BY HubAssumption
  <2>2. CallsOK
    BY DEF Init, CallsOK, Answers
  <2>3. ReaderOK /\ HubOK
    <3>1. ReaderOK
      BY DEF Init, ReaderOK, Errors
    <3>2. HubOK
      <4>1. conn \in Nat \ {0} /\ wire \subseteq Frames /\ refused \subseteq wire
            /\ served \subseteq Sessions /\ epoch \in Nat
        BY DEF Init
      <4>2. {stopWriter, stop, reconnect, up, notify, ready} \subseteq BOOLEAN /\ faults \in 0 .. MaxFaults
        BY <2>1 DEF Init
      <4> QED
        BY <4>1, <4>2 DEF HubOK
    <3> QED
      BY <3>1, <3>2
  <2>4. QueueOK /\ WriterOK
    <3>1. WriterOK
      BY DEF Init, WriterOK
    <3>2. outbound \in Seq(Frames) /\ ctl \in Seq(0 .. conn) /\ Len(outbound) <= OutboundBuffer
          /\ Len(ctl) <= 2
      BY <2>1 DEF Init
    <3> QED
      BY <3>1, <3>2 DEF Init, QueueOK
  <2>5. ReplayOK
    BY <2>1 DEF Init, ReplayOK, AtRest
  <2> QED
    BY <2>2, <2>3, <2>4, <2>5 DEF Init, Typed
<1> QED
  BY <1>1, TypeStep, PTL DEF Spec

\* Every variable keeps its type, however many faults: the channels stay within their capacity, no
\* serve takes more attempts than SERVE_MAX_ATTEMPTS, and a session is served only while it is due
\* (connection.rs, server.rs serve).
THEOREM TypeCorrect == Spec => []TypeOK
<1>1. Typed => TypeOK
  BY DEF Typed, TypeOK, QueueOK, WriterOK, ReaderOK, CallsOK, ReplayOK, HubOK, Answers
<1> QED
  BY <1>1, Typing, PTL
-----------------------------------------------------------------------------
(* What a step leaves alone, and where the reader goes. *)

CallAct   == CallerStep \/ (\E c \in Calls : PlainCall(c)) \/ (\E x \in Callers : StaysFull(x))
             \/ (\E s \in Sessions : TimesOut(s) \/ DeadlineEnds(s))
WriterAct == WriterStep \/ PingFails \/ HubRefuses
ReaderAct == ReaderStep \/ TerminalClose \/ ReconnectFails \/ ReconnectRejected
SignalAct == RequestShutdown \/ SocketDies \/ UNCHANGED vars

LEMMA StepKinds == [Next]_vars => CallAct \/ WriterAct \/ ReaderAct \/ ReplayStep \/ SignalAct
BY DEF Next, CallAct, WriterAct, ReaderAct, SignalAct

LEMMA LeftAlone ==
    /\ CallAct => UNCHANGED <<open, ctl, writer, stopWriter, reader, conn, up, wire, refused, served, epoch, replay>>
    /\ WriterAct => UNCHANGED <<stopWriter, reader, waiters, call, conn, up, epoch, replay>>
    /\ ReaderAct => UNCHANGED <<outbound, open, writer, replay>>
    /\ ReplayStep => UNCHANGED <<outbound, open, ctl, writer, stopWriter, reader, conn, up, wire, refused, served, epoch>>
    /\ SignalAct => UNCHANGED <<outbound, open, ctl, writer, stopWriter, reader, waiters, call, conn, wire,
                                refused, served, epoch, replay>>
<1> USE DEF queues, callers, hub, server
<1>1. CallAct => UNCHANGED <<open, ctl, writer, stopWriter, reader, conn, up, wire, refused, served, epoch, replay>>
  BY DEF CallAct, CallerStep, PlainCall, Enqueue, FindsItFull, FindsItClosed, StaysFull, Answered, TimesOut,
         DeadlineEnds
<1>2. WriterAct => UNCHANGED <<stopWriter, reader, waiters, call, conn, up, epoch, replay>>
  BY DEF WriterAct, WriterStep, WriterStops, WriterControl, WriterPolls, WriterTakes, WriterPollsAgain,
         WriterSends, WriterSendsInVain, PingFails, HubRefuses
<1>3. ReaderAct => UNCHANGED <<outbound, open, writer, replay>>
  BY DEF ReaderAct, ReaderStep, ReadsStop, ReadsForced, SocketClosed, RouteResponse, BumpEpoch, OnDisconnect,
         PauseWriter, DrainKeys, Drained, DrainOne, StopsReconnecting, Reconnected, ResumeWriter, StopWriter,
         Exited, TerminalClose, ReconnectFails, ReconnectRejected
<1>4. ReplayStep => UNCHANGED <<outbound, open, ctl, writer, stopWriter, reader, conn, up, wire, refused, served, epoch>>
  BY DEF ReplayStep, ReplayWakes, ReplayStarts, ServeSession, ServeAgain, ServeGivesUp, ServeEnds, ReplayChecks,
         Settles, ReplayAborted
<1>5. SignalAct => UNCHANGED <<outbound, open, ctl, writer, stopWriter, reader, waiters, call, conn, wire,
                               refused, served, epoch, replay>>
  BY DEF SignalAct, RequestShutdown, SocketDies, vars
<1> QED
  BY <1>1, <1>2, <1>3, <1>4, <1>5

Goes(label, next) == reader'.pc = label /\ reader'.next = next

LEMMA ReaderMoves ==
    ASSUME ReaderOK
    PROVE  /\ ReadsStop \/ StopsReconnecting => Goes("drain", "stopping")
           /\ ReadsForced \/ SocketClosed => Goes("lost", "backoff")
           /\ TerminalClose => Goes("lost", "exit")
           /\ BumpEpoch => Goes("disconnected", reader.next)
           /\ OnDisconnect => IF reader.next = "exit" THEN Goes("drain", "exit") ELSE Goes("pausing", reader.next)
           /\ PauseWriter => Goes("drain", "backoff")
           /\ DrainKeys => Goes("draining", reader.next) /\ reader'.keys = waiters
           /\ Drained => IF reader.next = "exit" THEN Goes("drain", "stopping") ELSE Goes(reader.next, reader.next)
           /\ Reconnected => Goes("resuming", reader.next)
           /\ ReconnectFails => Goes("backoff", reader.next)
           /\ ReconnectRejected => Goes("drain", "exit")
           /\ ResumeWriter => Goes("connected", reader.next)
           /\ StopWriter => Goes("joining", reader.next)
           /\ Exited => Goes("exited", reader.next)
           /\ \A f : DrainOne(f) => Goes("draining", reader.next) /\ reader'.keys = reader.keys \ {f}
<1> USE DEF Goes
<1>g. ASSUME NEW label, Goto(label)
      PROVE  Goes(label, reader.next)
  BY <1>g DEF Goto, ReaderOK
<1>d. ASSUME NEW error, NEW next, DrainThen(error, next)
      PROVE  Goes("drain", next)
  BY <1>d DEF DrainThen
<1>1. /\ ReadsStop \/ StopsReconnecting => Goes("drain", "stopping")
      /\ PauseWriter => Goes("drain", "backoff")
      /\ ReconnectRejected => Goes("drain", "exit")
  BY <1>d DEF ReadsStop, StopsReconnecting, ExitDrain, PauseWriter, ReconnectRejected
<1>2. /\ ReadsForced \/ SocketClosed => Goes("lost", "backoff")
      /\ TerminalClose => Goes("lost", "exit")
  BY DEF ReaderOK, ReadsForced, SocketClosed, TerminalClose
<1>3. /\ BumpEpoch => Goes("disconnected", reader.next)
      /\ Reconnected => Goes("resuming", reader.next)
      /\ ReconnectFails => Goes("backoff", reader.next)
      /\ ResumeWriter => Goes("connected", reader.next)
      /\ StopWriter => Goes("joining", reader.next)
      /\ Exited => Goes("exited", reader.next)
  BY <1>g DEF BumpEpoch, Reconnected, ReconnectFails, ResumeWriter, StopWriter, Exited
<1>4. OnDisconnect => IF reader.next = "exit" THEN Goes("drain", "exit") ELSE Goes("pausing", reader.next)
  BY <1>g, <1>d DEF OnDisconnect
<1>5. Drained => IF reader.next = "exit" THEN Goes("drain", "stopping") ELSE Goes(reader.next, reader.next)
  BY <1>g, <1>d DEF Drained, ExitDrain
<1>6. DrainKeys => Goes("draining", reader.next) /\ reader'.keys = waiters
  BY DEF ReaderOK, DrainKeys
<1>7. ASSUME NEW f, DrainOne(f)
      PROVE  Goes("draining", reader.next) /\ reader'.keys = reader.keys \ {f}
  BY <1>7 DEF ReaderOK, DrainOne
<1> QED
  BY <1>1, <1>2, <1>3, <1>4, <1>5, <1>6, <1>7
-----------------------------------------------------------------------------
(* The reader knows what it does next, and the writer follows its orders. *)

LEMMA ReaderStays ==
    ASSUME Typed, ReaderInv, [Next]_vars
    PROVE  ReaderInv'
<1>t. ReaderOK
  BY DEF Typed
<1>1. CASE UNCHANGED <<reader, stopWriter>>
  BY <1>1 DEF ReaderInv
<1>2. CASE ReaderAct
  <2>s. ~StopWriter => UNCHANGED stopWriter
    BY <1>2 DEF ReaderAct, ReaderStep, ReadsStop, ReadsForced, SocketClosed, RouteResponse, BumpEpoch,
         OnDisconnect, PauseWriter, DrainKeys, Drained, DrainOne, StopsReconnecting, Reconnected, ResumeWriter,
         Exited, TerminalClose, ReconnectFails, ReconnectRejected
  <2>w. reader.pc \notin {"stopping", "joining", "exited"} => ~stopWriter'
    <3>1. reader.pc \notin {"stopping", "joining", "exited"} => ~stopWriter /\ ~StopWriter
      BY DEF ReaderInv, StopWriter
    <3> QED
      BY <2>s, <3>1
  <2>n. reader.next \in {"backoff", "exit", "stopping"}
    BY <1>t DEF ReaderOK
  <2>i. ReaderInv' <=> /\ reader'.pc \in {"connected", "pausing", "backoff", "resuming"} => reader'.next = "backoff"
                       /\ reader'.pc \in {"lost", "disconnected"} => reader'.next \in {"backoff", "exit"}
                       /\ reader'.pc \in {"stopping", "joining", "exited"} => reader'.next = "stopping"
                       /\ stopWriter' => reader'.pc \in {"joining", "exited"}
    BY DEF ReaderInv
  <2> USE DEF Goes
  <2>1. CASE ReadsStop \/ StopsReconnecting
    <3>1. reader.pc \in {"connected", "backoff"} /\ Goes("drain", "stopping")
      BY <1>t, <2>1, ReaderMoves DEF ReadsStop, StopsReconnecting
    <3> QED
      BY <2>w, <2>i, <3>1
  <2>2. CASE ReadsForced \/ SocketClosed \/ TerminalClose
    <3>1. reader.pc = "connected" /\ (Goes("lost", "backoff") \/ Goes("lost", "exit"))
      BY <1>t, <2>2, ReaderMoves DEF ReadsForced, SocketClosed, TerminalClose, Reading
    <3> QED
      BY <2>w, <2>i, <3>1
  <2>3. CASE BumpEpoch
    <3>1. reader.pc = "lost" /\ Goes("disconnected", reader.next)
      BY <1>t, <2>3, ReaderMoves DEF BumpEpoch
    <3> QED
      BY <2>w, <2>i, <3>1 DEF ReaderInv
  <2>4. CASE OnDisconnect
    <3>1. /\ reader.pc = "disconnected"
          /\ IF reader.next = "exit" THEN Goes("drain", "exit") ELSE Goes("pausing", reader.next)
      BY <1>t, <2>4, ReaderMoves DEF OnDisconnect
    <3> QED
      BY <2>w, <2>i, <3>1 DEF ReaderInv
  <2>5. CASE PauseWriter \/ ReconnectRejected
    <3>1. reader.pc \in {"pausing", "backoff"} /\ reader'.pc = "drain"
      BY <1>t, <2>5, ReaderMoves DEF PauseWriter, ReconnectRejected
    <3> QED
      BY <2>w, <2>i, <3>1
  <2>6. CASE DrainKeys \/ \E f \in reader.keys : DrainOne(f)
    <3>1. reader.pc \in {"drain", "draining"} /\ Goes("draining", reader.next)
      BY <1>t, <2>6, ReaderMoves DEF DrainKeys, DrainOne
    <3> QED
      BY <2>w, <2>i, <3>1
  <2>7. CASE Drained
    <3>1. /\ reader.pc = "draining"
          /\ IF reader.next = "exit" THEN Goes("drain", "stopping") ELSE Goes(reader.next, reader.next)
      BY <1>t, <2>7, ReaderMoves DEF Drained
    <3> QED
      BY <2>n, <2>w, <2>i, <3>1
  <2>8. CASE Reconnected \/ ReconnectFails \/ ResumeWriter
    <3>1. /\ reader.pc \in {"backoff", "resuming"} /\ reader'.next = reader.next
          /\ reader'.pc \in {"resuming", "backoff", "connected"}
      BY <1>t, <2>8, ReaderMoves DEF Reconnected, ReconnectFails, ResumeWriter
    <3> QED
      BY <2>w, <2>i, <3>1 DEF ReaderInv
  <2>9. CASE StopWriter \/ Exited
    <3>1. /\ reader.pc \in {"stopping", "joining"} /\ reader'.next = reader.next
          /\ reader'.pc \in {"joining", "exited"}
      BY <1>t, <2>9, ReaderMoves DEF StopWriter, Exited
    <3> QED
      BY <2>i, <3>1 DEF ReaderInv
  <2>10. CASE \E f \in wire : RouteResponse(f)
    BY <1>1, <2>10 DEF RouteResponse
  <2> QED
    BY <1>2, <2>1, <2>2, <2>3, <2>4, <2>5, <2>6, <2>7, <2>8, <2>9, <2>10 DEF ReaderAct, ReaderStep
<1> QED
  BY <1>1, <1>2, StepKinds, LeftAlone

\* The last order in a control channel survives the order before it.
LEMMA LastOrder ==
    ASSUME NEW S, NEW q \in Seq(S), Len(q) <= 2, q # <<>>
    PROVE  /\ Tail(q) = <<>> => q[Len(q)] = Head(q)
           /\ Tail(q) # <<>> => Tail(q)[Len(Tail(q))] = q[Len(q)]
<1>1. /\ Tail(q) \in Seq(S) /\ Len(Tail(q)) = Len(q) - 1
      /\ \A i \in 1 .. Len(Tail(q)) : Tail(q)[i] = q[i + 1]
  BY HeadTailProperties
<1>2. Head(q) = q[1]
  OBVIOUS
<1>n. Len(q) \in {1, 2}
  <2> DEFINE n == Len(q)
  <2>1. n \in Nat \ {0} /\ n <= 2
    BY EmptySeq
  <2> HIDE DEF n
  <2>2. n \in {1, 2}
    BY <2>1
  <2> QED
    BY <2>2 DEF n
<1>3. Tail(q) = <<>> <=> Len(Tail(q)) = 0
  BY <1>1, EmptySeq
<1> QED
  BY <1>1, <1>2, <1>n, <1>3

\* An order is the last one in the channel it is put into.
LEMMA NewOrder ==
    ASSUME NEW S, NEW q \in Seq(S), NEW e \in S
    PROVE  Append(q, e) # <<>> /\ Append(q, e)[Len(Append(q, e))] = e
OBVIOUS

LEMMA WriterFollows ==
    ASSUME Typed, ReaderInv, WriterInv, [Next]_vars
    PROVE  WriterInv'
<1>t. /\ ReaderOK /\ conn \in Nat \ {0} /\ ctl \in Seq(0 .. conn) /\ Len(ctl) <= 2
      /\ WriterOK
  BY DEF Typed, HubOK, QueueOK
<1>c. reader' = reader => (Paused' <=> Paused) /\ (Running' <=> Running)
  BY DEF Paused, Running
<1>1. CASE UNCHANGED <<reader, ctl, writer, conn>>
  BY <1>c, <1>1 DEF WriterInv
<1>2. CASE WriterAct
  <2>r. UNCHANGED <<reader, conn>> /\ (Paused' <=> Paused) /\ (Running' <=> Running)
    BY <1>c, <1>2, LeftAlone
  <2>1. CASE WriterControl
    <3>1. ctl # <<>> /\ ctl' = Tail(ctl)
      BY <2>1 DEF WriterControl
    <3>2. /\ ctl' = <<>> => ctl[Len(ctl)] = Head(ctl)
          /\ ctl' # <<>> => ctl'[Len(ctl')] = ctl[Len(ctl)]
      BY <1>t, <3>1, LastOrder
    <3>3. IF Head(ctl) = 0 THEN ~writer'.live ELSE writer'.sink = Head(ctl)
      BY <1>t, <2>1 DEF WriterOK, WriterControl
    <3> QED
      BY <1>t, <2>r, <3>1, <3>2, <3>3 DEF WriterInv
  <2>2. CASE UNCHANGED ctl /\ (writer'.live => writer.live) /\ writer'.sink = writer.sink
    BY <2>r, <2>2 DEF WriterInv
  <2>3. WriterAct => \/ WriterControl
                     \/ UNCHANGED ctl /\ (writer'.live => writer.live) /\ writer'.sink = writer.sink
    BY <1>t DEF WriterAct, WriterStep, WriterStops, WriterPolls, WriterTakes, WriterPollsAgain, WriterSends,
                WriterSendsInVain, PingFails, HubRefuses, WriterOK, queues
  <2> QED
    BY <1>2, <2>1, <2>2, <2>3
<1>3. CASE ReaderAct
  <2>w. UNCHANGED writer
    BY <1>3, LeftAlone
  <2>n. reader.next \in {"backoff", "exit", "stopping"}
    BY <1>t DEF ReaderOK
  <2> USE DEF Goes, Paused, Running, queues, hub
  <2>1. CASE ~Paused' /\ ~Running'
    BY <2>1 DEF WriterInv
  <2>2. CASE PauseWriter
    <3>1. reader'.pc = "drain" /\ reader'.next = "backoff" /\ ctl' = Append(ctl, 0) /\ 0 \in 0 .. conn
      BY <1>t, <2>2, ReaderMoves DEF PauseWriter
    <3>2. ctl' # <<>> /\ ctl'[Len(ctl')] = 0
      BY <1>t, <3>1, NewOrder
    <3> QED
      BY <3>1, <3>2 DEF WriterInv
  <2>3. CASE ResumeWriter
    <3>1. reader'.pc = "connected" /\ conn' = conn /\ ctl' = Append(ctl, conn)
      BY <1>t, <2>3, ReaderMoves DEF ResumeWriter
    <3>c. conn \in 0 .. conn
      BY <1>t
    <3>2. ctl' # <<>> /\ ctl'[Len(ctl')] = conn
      BY <1>t, <3>1, <3>c, NewOrder
    <3> QED
      BY <3>1, <3>2 DEF WriterInv
  <2>4. CASE UNCHANGED <<ctl, conn>> /\ (Paused' => Paused) /\ (Running' => Running)
    BY <2>w, <2>4 DEF WriterInv
  <2>5. CASE Reconnected
    <3>1. reader'.pc = "resuming" /\ UNCHANGED ctl /\ Paused
      BY <1>t, <2>5, ReaderMoves DEF Reconnected
    <3> QED
      BY <2>w, <3>1 DEF WriterInv
  <2>6. CASE ReadsStop \/ StopsReconnecting \/ ReconnectRejected
    <3>1. ~Paused' /\ ~Running'
      BY <1>t, <2>6, ReaderMoves
    <3> QED
      BY <2>1, <3>1
  <2>7. CASE ReadsForced \/ SocketClosed \/ TerminalClose \/ \E f \in wire : RouteResponse(f)
    <3>1. reader'.pc \in {"lost", "connected"} /\ reader.pc = "connected" /\ UNCHANGED <<ctl, conn>>
      BY <1>t, <2>7, ReaderMoves DEF ReadsForced, SocketClosed, TerminalClose, RouteResponse, Reading
    <3> QED
      BY <2>4, <3>1
  <2>8. CASE BumpEpoch \/ OnDisconnect
    <3>1. /\ UNCHANGED <<ctl, conn>> /\ reader.pc \in {"lost", "disconnected"}
          /\ reader'.pc \in {"disconnected", "pausing"} \/ (reader'.pc = "drain" /\ reader'.next = "exit")
      BY <1>t, <2>8, ReaderMoves DEF BumpEpoch, OnDisconnect
    <3> QED
      BY <2>4, <3>1
  <2>9. CASE DrainKeys \/ \E f \in reader.keys : DrainOne(f)
    <3>1. /\ UNCHANGED <<ctl, conn>> /\ reader.pc \in {"drain", "draining"}
          /\ reader'.pc = "draining" /\ reader'.next = reader.next
      BY <1>t, <2>9, ReaderMoves DEF DrainKeys, DrainOne
    <3> QED
      BY <2>4, <3>1
  <2>10. CASE Drained
    <3>1. /\ UNCHANGED <<ctl, conn>> /\ reader.pc = "draining"
          /\ IF reader.next = "exit" THEN Goes("drain", "stopping") ELSE Goes(reader.next, reader.next)
      BY <1>t, <2>10, ReaderMoves DEF Drained
    <3> QED
      BY <2>n, <2>4, <3>1
  <2>11. CASE ReconnectFails
    <3>1. UNCHANGED <<ctl, conn>> /\ reader.pc = "backoff" /\ reader'.pc = "backoff"
      BY <1>t, <2>11, ReaderMoves DEF ReconnectFails
    <3> QED
      BY <2>4, <3>1
  <2>12. CASE StopWriter \/ Exited
    <3>1. ~Paused' /\ ~Running'
      BY <1>t, <2>12, ReaderMoves
    <3> QED
      BY <2>1, <3>1
  <2> QED
    BY <1>3, <2>2, <2>3, <2>5, <2>6, <2>7, <2>8, <2>9, <2>10, <2>11, <2>12 DEF ReaderAct, ReaderStep
<1> QED
  BY <1>1, <1>2, <1>3, StepKinds, LeftAlone
-----------------------------------------------------------------------------
(* The table of the demultiplexer. *)

\* What becomes of the calls when one registers, goes on, returns or is answered.
LEMMA CallMoves ==
    ASSUME CallsOK, NEW x \in Callers
    PROVE  /\ Register(x) => call'[x] = [pc |-> "send", n |-> call[x].n + 1, answer |-> "none"]
           /\ \A l : call' = [call EXCEPT ![x].pc = l] =>
                 call'[x].pc = l /\ call'[x].n = call[x].n /\ call'[x].answer = call[x].answer
           /\ \A a : Return(x, a) => call'[x].pc = "done" /\ call'[x].n = call[x].n /\ call'[x].answer = a
           /\ \A a : call' = [call EXCEPT ![x].answer = a] =>
                 call'[x].pc = call[x].pc /\ call'[x].n = call[x].n /\ call'[x].answer = a
<1>1. call \in [Callers -> [pc : {"idle", "send", "full", "await", "done"}, n : Nat, answer : Answers]]
  BY DEF CallsOK
<1>2. Register(x) => call'[x] = [pc |-> "send", n |-> call[x].n + 1, answer |-> "none"]
  BY <1>1 DEF Register
<1>3. ASSUME NEW l, call' = [call EXCEPT ![x].pc = l]
      PROVE  call'[x].pc = l /\ call'[x].n = call[x].n /\ call'[x].answer = call[x].answer
  BY <1>1, <1>3
<1>4. ASSUME NEW a, Return(x, a)
      PROVE  call'[x].pc = "done" /\ call'[x].n = call[x].n /\ call'[x].answer = a
  <2> DEFINE c == [call EXCEPT ![x].pc = "done"]
  <2>1. call' = [c EXCEPT ![x].answer = a]
    BY <1>4 DEF Return
  <2>2. /\ c \in [Callers -> [pc : {"idle", "send", "full", "await", "done"}, n : Nat, answer : Answers]]
        /\ c[x].pc = "done" /\ c[x].n = call[x].n
    BY <1>1
  <2> HIDE DEF c
  <2> QED
    BY <2>1, <2>2
<1>5. ASSUME NEW a, call' = [call EXCEPT ![x].answer = a]
      PROVE  call'[x].pc = call[x].pc /\ call'[x].n = call[x].n /\ call'[x].answer = a
  BY <1>1, <1>5
<1> QED
  BY <1>2, <1>3, <1>4, <1>5

\* The other calls stay as they are.
LEMMA OtherCalls ==
    ASSUME CallsOK, NEW x \in Callers, NEW y \in Callers, y # x,
           \/ Register(x)
           \/ \E l : call' = [call EXCEPT ![x].pc = l]
           \/ \E a : Return(x, a)
           \/ \E a : call' = [call EXCEPT ![x].answer = a]
    PROVE  call'[y] = call[y]
BY DEF CallsOK, Register, Return

\* A frame tells whose it is.
LEMMA Whose ==
    ASSUME WaitersInv
    PROVE  /\ \A f : f \in waiters <=> \E x \in Callers : Parked(x) /\ f = Frame(x)
           /\ \A f \in waiters : f.by \in Callers /\ f = Frame(f.by) /\ Parked(f.by)
           /\ \A x \in Callers : Frame(x).by = x /\ Frame(x).n = call[x].n
<1>1. \A x \in Callers : Frame(x).by = x /\ Frame(x).n = call[x].n
  BY DEF Frame
<1>2. \A f : f \in waiters <=> \E x \in Callers : Parked(x) /\ f = Frame(x)
  BY DEF WaitersInv
<1> QED
  BY <1>1, <1>2

LEMMA ReturnUnparks ==
    ASSUME CallsOK, WaitersInv, NEW x \in Callers, NEW a, Return(x, a)
    PROVE  WaitersInv'
<1>1. waiters' = waiters \ {Frame(x)}
  BY DEF Return
<1>2. ~Parked(x)'
  BY CallMoves DEF Parked
<1>3. ASSUME NEW y \in Callers, y # x
      PROVE  (Parked(y)' <=> Parked(y)) /\ Frame(y)' = Frame(y) /\ Frame(y) # Frame(x)
  <2>1. call'[y] = call[y]
    BY <1>3, OtherCalls
  <2> QED
    BY <1>3, <2>1, Whose DEF Parked, Frame
<1>4. \A f : f \in waiters' <=> \E y \in Callers : Parked(y)' /\ f = Frame(y)'
  BY <1>1, <1>2, <1>3, Whose
<1> QED
  BY <1>4 DEF WaitersInv

LEMMA RegisterParks ==
    ASSUME CallsOK, WaitersInv, NEW x \in Callers, ~Underway(x), Register(x)
    PROVE  WaitersInv'
<1>1. Parked(x)' /\ Frame(x)' = [by |-> x, n |-> call[x].n + 1] /\ ~Parked(x)
  <2>1. call'[x] = [pc |-> "send", n |-> call[x].n + 1, answer |-> "none"]
    BY CallMoves
  <2>2. call'[x].pc = "send" /\ call'[x].n = call[x].n + 1 /\ call'[x].answer = "none"
    BY <2>1
  <2>3. Frame(x)' = [by |-> x, n |-> call[x].n + 1]
    BY <2>2 DEF Frame
  <2> QED
    BY <2>2, <2>3 DEF Parked, Underway
<1>2. waiters' = waiters \cup {Frame(x)'}
  BY <1>1 DEF Register
<1>3. ASSUME NEW y \in Callers, y # x
      PROVE  (Parked(y)' <=> Parked(y)) /\ Frame(y)' = Frame(y)
  <2>1. call'[y] = call[y]
    BY <1>3, OtherCalls
  <2> QED
    BY <2>1 DEF Parked, Frame
<1>4. \A f : f \in waiters' <=> \E y \in Callers : Parked(y)' /\ f = Frame(y)'
  BY <1>1, <1>2, <1>3, Whose
<1> QED
  BY <1>4 DEF WaitersInv

\* The waiter is taken as the answer is sent.
LEMMA RouteUnparks ==
    ASSUME CallsOK, WaitersInv, NEW f, NEW a, a # "none", waiters' = waiters \ {f},
           call' = IF f \in waiters THEN [call EXCEPT ![f.by].answer = a] ELSE call
    PROVE  WaitersInv'
<1>1. CASE f \in waiters
  <2> DEFINE x == f.by
  <2>1. x \in Callers /\ f = Frame(x) /\ call' = [call EXCEPT ![x].answer = a]
    BY <1>1, Whose
  <2> HIDE DEF x
  <2>2. ~Parked(x)'
    BY <2>1, CallMoves DEF Parked
  <2>3. ASSUME NEW y \in Callers, y # x
        PROVE  (Parked(y)' <=> Parked(y)) /\ Frame(y)' = Frame(y) /\ Frame(y) # f
    <3>1. call'[y] = call[y]
      BY <2>1, <2>3, OtherCalls
    <3> QED
      BY <2>1, <2>3, <3>1, Whose DEF Parked, Frame
  <2>4. \A g : g \in waiters' <=> \E y \in Callers : Parked(y)' /\ g = Frame(y)'
    BY <2>1, <2>2, <2>3, Whose
  <2> QED
    BY <2>4 DEF WaitersInv
<1>2. CASE f \notin waiters
  BY <1>2 DEF WaitersInv, Parked, Frame
<1> QED
  BY <1>1, <1>2

\* The table is exact after every step, and the replay task serves one session at a time.
LEMMA WaitersStay ==
    ASSUME Typed, OneServe, WaitersInv, [Next]_vars
    PROVE  OneServe' /\ WaitersInv'
<1>t. CallsOK /\ ReplayOK /\ ReaderOK /\ Sessions \subseteq Callers /\ Calls \subseteq Callers
  BY DEF Typed, Callers
<1>d. Sessions \cap Calls = {}
  BY HubAssumption
<1>1. ASSUME UNCHANGED <<waiters, call>>
      PROVE  WaitersInv'
  BY <1>1 DEF WaitersInv, Parked, Frame
<1>2. ASSUME UNCHANGED <<call, replay>>
      PROVE  OneServe'
  BY <1>2 DEF OneServe, Underway
\* A caller goes on or returns: nobody comes under way.
<1>g. ASSUME NEW x \in Callers, UNCHANGED <<waiters, replay>>, NEW l \in {"full", "await"}, Underway(x),
             call' = [call EXCEPT ![x].pc = l]
      PROVE  OneServe' /\ WaitersInv'
  <2>1. call'[x].pc = l /\ call'[x].n = call[x].n /\ call'[x].answer = call[x].answer
    BY <1>t, <1>g, CallMoves
  <2>2. \A y \in Callers : y # x => call'[y] = call[y]
    BY <1>t, <1>g, OtherCalls
  <2>3. \A y \in Callers : (Parked(y)' <=> Parked(y)) /\ Frame(y)' = Frame(y) /\ (Underway(y)' <=> Underway(y))
    BY <1>g, <2>1, <2>2 DEF Parked, Frame, Underway
  <2>4. WaitersInv'
    BY <1>g, <2>3 DEF WaitersInv
  <2> QED
    BY <1>t, <1>g, <2>3, <2>4 DEF OneServe
<1>r. ASSUME NEW x \in Callers, NEW a, Return(x, a)
      PROVE  WaitersInv' /\ \A y \in Callers : Underway(y)' => Underway(y) /\ y # x
  <2>1. call'[x].pc = "done"
    BY <1>t, <1>r, CallMoves
  <2>2. \A y \in Callers : y # x => call'[y] = call[y]
    BY <1>t, <1>r, OtherCalls
  <2> QED
    BY <1>t, <1>r, <2>1, <2>2, ReturnUnparks DEF Underway
<1>s. ASSUME NEW x \in Callers, ~Underway(x), Register(x)
      PROVE  WaitersInv' /\ \A y \in Callers : Underway(y)' => Underway(y) \/ y = x
  <2>1. \A y \in Callers : y # x => call'[y] = call[y]
    BY <1>t, <1>s, OtherCalls
  <2> QED
    BY <1>t, <1>s, <2>1, RegisterParks DEF Underway
<1>a. ASSUME NEW f, NEW a, a # "none", waiters' = waiters \ {f}, UNCHANGED replay,
             call' = IF f \in waiters THEN [call EXCEPT ![f.by].answer = a] ELSE call
      PROVE  OneServe' /\ WaitersInv'
  <2>1. \A y \in Callers : call'[y].pc = call[y].pc
    <3>1. CASE f \in waiters
      <4>1. f.by \in Callers /\ call' = [call EXCEPT ![f.by].answer = a]
        BY <1>a, <3>1, Whose
      <4> QED
        BY <1>t, <4>1, CallMoves, OtherCalls
    <3> QED
      BY <1>a, <3>1
  <2> QED
    BY <1>t, <1>a, <2>1, RouteUnparks DEF OneServe, Underway
<1>3. ASSUME NEW x \in Callers,
             Enqueue(x) \/ FindsItFull(x) \/ FindsItClosed(x) \/ Answered(x) \/ StaysFull(x)
      PROVE  OneServe' /\ WaitersInv'
  <2>1. CASE Enqueue(x)
    BY <1>g, <2>1 DEF Enqueue, Underway, server
  <2>2. CASE FindsItFull(x)
    BY <1>g, <2>2 DEF FindsItFull, Underway, server
  <2>3. CASE FindsItClosed(x) \/ Answered(x) \/ StaysFull(x)
    <3>1. /\ UNCHANGED replay
          /\ Return(x, "NetworkError") \/ Return(x, call[x].answer) \/ Return(x, "Backpressure")
      BY <2>3 DEF FindsItClosed, Answered, StaysFull, server
    <3> QED
      BY <1>t, <1>r, <3>1 DEF OneServe
  <2> QED
    BY <1>3, <2>1, <2>2, <2>3
<1>4. ASSUME NEW c \in Calls, PlainCall(c)
      PROVE  OneServe' /\ WaitersInv'
  <2>1. Register(c) /\ ~Underway(c) /\ UNCHANGED replay
    BY <1>4 DEF PlainCall, Underway, server
  <2> QED
    BY <1>t, <1>d, <1>s, <2>1 DEF OneServe
<1>5. ASSUME NEW s \in Sessions, TimesOut(s) \/ DeadlineEnds(s)
      PROVE  OneServe' /\ WaitersInv'
  <2>1. Return(s, "TimedOut") /\ UNCHANGED replay
    BY <1>5 DEF TimesOut, DeadlineEnds, server
  <2> QED
    BY <1>t, <1>r, <2>1 DEF OneServe
<1>6. CASE WriterAct \/ SignalAct
  BY <1>1, <1>2, <1>6, LeftAlone
<1>7. ASSUME NEW f \in wire, RouteResponse(f)
      PROVE  OneServe' /\ WaitersInv'
  <2> DEFINE a == IF f \in refused THEN "Error" ELSE "Result"
  <2>1. /\ a # "none" /\ waiters' = waiters \ {f} /\ UNCHANGED replay
        /\ call' = IF f \in waiters THEN [call EXCEPT ![f.by].answer = a] ELSE call
    BY <1>7 DEF RouteResponse, server
  <2> HIDE DEF a
  <2> QED
    BY <1>a, <2>1
<1>8. ASSUME NEW f \in reader.keys, DrainOne(f)
      PROVE  OneServe' /\ WaitersInv'
  <2>1. reader.error # "none"
    BY <1>t DEF ReaderOK, Errors
  <2> QED
    BY <1>a, <1>8, <2>1 DEF DrainOne, server
<1>9. CASE ReaderAct
  <2>1. \/ \E f \in wire : RouteResponse(f)
        \/ \E f \in reader.keys : DrainOne(f)
        \/ UNCHANGED <<waiters, call>>
    BY <1>9 DEF ReaderAct, ReaderStep, ReadsStop, ReadsForced, SocketClosed, BumpEpoch, OnDisconnect,
       PauseWriter, DrainKeys, Drained, StopsReconnecting, Reconnected, ResumeWriter, StopWriter, Exited,
       TerminalClose, ReconnectFails, ReconnectRejected, callers
  <2> QED
    BY <1>1, <1>2, <1>7, <1>8, <1>9, <2>1, LeftAlone
<1>10. CASE ReplayStep
  <2>1. ASSUME NEW s \in Sessions, ServeSession(s)
        PROVE  OneServe' /\ WaitersInv'
    <3>1. Register(s) /\ ~Underway(s) /\ \A y \in Sessions : ~Underway(y)
      BY <2>1 DEF ServeSession, OneServe
    <3>2. replay'.pc = "called" /\ replay'.session = s
      BY <1>t, <2>1 DEF ServeSession, ReplayOK
    <3> QED
      BY <1>t, <1>s, <3>1, <3>2 DEF OneServe
  <2>2. CASE ServeAgain
    <3>1. /\ replay.session \in Sessions /\ Register(replay.session)
          /\ ~Underway(replay.session) /\ replay.pc = "called"
      BY <1>t, <2>2 DEF ServeAgain, ServeReturned, Underway, ReplayOK
    <3>2. replay'.pc = "called" /\ replay'.session = replay.session
      BY <1>t, <2>2, <3>1 DEF ServeAgain, ReplayOK
    <3>3. WaitersInv' /\ \A y \in Callers : Underway(y)' => Underway(y) \/ y = replay.session
      BY <1>t, <1>s, <3>1
    <3> QED
      BY <1>t, <3>2, <3>3 DEF OneServe
  <2>3. CASE ReplayAborted /\ replay.pc = "called"
    <3>1. replay.session \in Sessions /\ Return(replay.session, call[replay.session].answer)
      BY <1>t, <2>3 DEF ReplayAborted, ReplayOK
    <3>2. WaitersInv' /\ \A y \in Callers : Underway(y)' => Underway(y) /\ y # replay.session
      BY <1>t, <1>r, <3>1
    <3> QED
      BY <1>t, <3>2 DEF OneServe
  <2>4. CASE UNCHANGED <<waiters, call>> /\ \A s \in Sessions : ~Underway(s)
    BY <1>1, <2>4 DEF OneServe, Underway
  <2>5. CASE ServeGivesUp \/ ServeEnds
    <3>1. ~Underway(replay.session) /\ UNCHANGED <<waiters, call>>
      BY <2>5 DEF ServeGivesUp, ServeEnds, ServeReturned, Underway, callers
    <3> QED
      BY <2>4, <3>1 DEF OneServe
  <2>6. CASE \/ ReplayWakes \/ ReplayStarts \/ ReplayChecks \/ Settles
             \/ ReplayAborted /\ replay.pc # "called"
    <3>1. replay.pc # "called" /\ UNCHANGED <<waiters, call>>
      BY <2>6 DEF ReplayWakes, ReplayStarts, ReplayChecks, Settles, ReplayAborted, callers
    <3> QED
      BY <2>4, <3>1 DEF OneServe
  <2> QED
    BY <1>10, <2>1, <2>2, <2>3, <2>5, <2>6 DEF ReplayStep
<1> QED
  BY <1>3, <1>4, <1>5, <1>6, <1>9, <1>10, StepKinds DEF CallAct, CallerStep
-----------------------------------------------------------------------------
(* No frame is lost unseen. *)

\* A frame stays in the queue until the writer takes it.
LEMMA QueueKeeps ==
    ASSUME QueueOK, NEW f, Queued(f)
    PROVE  /\ \A g : outbound' = Append(outbound, g) => Queued(f)'
           /\ outbound' = Tail(outbound) => f = Head(outbound) \/ Queued(f)'
<1>1. PICK i \in DOMAIN outbound : outbound[i] = f
  BY DEF Queued
<1>2. outbound \in Seq(Frames) /\ i \in 1 .. Len(outbound) /\ Len(outbound) \in Nat /\ outbound # <<>>
  BY <1>1 DEF QueueOK
<1>3. ASSUME NEW g, outbound' = Append(outbound, g)
      PROVE  Queued(f)'
  <2>1. i \in DOMAIN outbound' /\ outbound'[i] = f
    BY <1>1, <1>2, <1>3
  <2> QED
    BY <2>1 DEF Queued
<1>4. ASSUME outbound' = Tail(outbound), i # 1
      PROVE  Queued(f)'
  <2>1. i - 1 \in 1 .. Len(outbound) - 1 /\ (i - 1) + 1 = i
    BY <1>2, <1>4
  <2>2. /\ outbound' \in Seq(Frames) /\ Len(outbound') = Len(outbound) - 1
        /\ \A j \in 1 .. Len(outbound') : outbound'[j] = outbound[j + 1]
    BY <1>2, <1>4, HeadTailProperties
  <2>3. i - 1 \in DOMAIN outbound' /\ outbound'[i - 1] = f
    BY <1>1, <2>1, <2>2
  <2> QED
    BY <2>3 DEF Queued
<1>5. outbound[1] = Head(outbound)
  BY <1>2
<1> QED
  BY <1>1, <1>3, <1>4, <1>5

\* What is sent is queued.
LEMMA QueueGets ==
    ASSUME QueueOK, NEW f, outbound' = Append(outbound, f)
    PROVE  Queued(f)'
<1>1. Len(outbound') = Len(outbound) + 1 /\ outbound'[Len(outbound) + 1] = f /\ Len(outbound) \in Nat
  BY DEF QueueOK
<1>2. Len(outbound) + 1 \in DOMAIN outbound'
  BY <1>1 DEF QueueOK
<1> QED
  BY <1>1, <1>2 DEF Queued

\* A writer that has left no order unread is not paused: a frame it takes goes to the present socket,
\* or to one that is lost, or nobody drains again.
LEMMA TakenIsCared ==
    ASSUME Typed, ReaderInv, WriterInv, PolledInv, WriterTakes, ctl = <<>>, NEW f, f = Head(outbound)
    PROVE  Leaving \/ Cared(f)'
<1>1. ctl = <<>> /\ writer.live /\ ~Paused
  BY DEF WriterTakes, PolledInv, WriterInv
<1>2. /\ writer' = [writer EXCEPT !.pc = "sending", !.frame = Head(outbound)]
      /\ UNCHANGED <<reader, conn, up>>
  BY DEF WriterTakes, hub
<1>3. writer'.pc = "sending" /\ writer'.frame = f /\ writer'.sink = writer.sink
  BY <1>2 DEF Typed, WriterOK
<1>4. CASE reader.pc = "connected"
  <2>1. writer'.sink = conn /\ Live'
    BY <1>1, <1>2, <1>3, <1>4 DEF WriterInv, Running, Live
  <2>2. CASE up
    BY <1>2, <1>3, <2>1, <2>2 DEF Cared, OnItsWay, Sending, Carries
  <2>3. CASE ~up
    BY <1>2, <2>1, <2>3 DEF Cared, OnItsWay, DrainDue
  <2> QED
    BY <2>2, <2>3
<1>5. CASE reader.pc \in {"lost", "disconnected", "pausing", "drain"}
  BY <1>2, <1>5 DEF Cared, OnItsWay, DrainDue
<1>6. CASE reader.pc = "draining"
  <2>1. reader.next \in {"exit", "stopping"}
    BY <1>1, <1>6 DEF Typed, ReaderOK, Paused
  <2>2. CASE reader.next = "exit"
    BY <1>2, <1>6, <2>2 DEF Cared, OnItsWay, DrainDue
  <2> QED
    BY <1>6, <2>1, <2>2 DEF Leaving
<1>7. CASE reader.pc \in {"stopping", "joining", "exited"}
  BY <1>7 DEF ReaderInv, Leaving
<1> QED
  BY <1>1, <1>4, <1>5, <1>6, <1>7 DEF Typed, ReaderOK, Paused

\* A call whose frame is answered, or drained, waits no more.
LEMMA AnswerEnds ==
    ASSUME CallsOK, WaitersInv, NEW f, NEW a, a # "none",
           call' = IF f \in waiters THEN [call EXCEPT ![f.by].answer = a] ELSE call
    PROVE  /\ \A x \in Callers : Waiting(x)' => Waiting(x) /\ Frame(x)' = Frame(x)
           /\ \A x \in Callers : Waiting(x)' => Frame(x) # f
<1>1. CASE f \in waiters
  <2> DEFINE z == f.by
  <2>1. z \in Callers /\ f = Frame(z) /\ call' = [call EXCEPT ![z].answer = a]
    BY <1>1, Whose
  <2> HIDE DEF z
  <2>2. ~Waiting(z)'
    BY <2>1, CallMoves DEF Waiting
  <2>3. ASSUME NEW y \in Callers, y # z
        PROVE  (Waiting(y)' <=> Waiting(y)) /\ Frame(y)' = Frame(y) /\ Frame(y) # f
    <3>1. call'[y] = call[y]
      BY <2>1, <2>3, OtherCalls
    <3> QED
      BY <2>1, <2>3, <3>1, Whose DEF Waiting, Frame
  <2> QED
    BY <2>2, <2>3
<1>2. CASE f \notin waiters
  <2>1. \A x \in Callers : Waiting(x) => Frame(x) \in waiters
    BY Whose DEF Waiting, Parked
  <2> QED
    BY <1>2, <2>1 DEF Waiting, Frame
<1> QED
  BY <1>1, <1>2

\* The writer takes the frame of x and has not seen the Pause that waits for it.
TakenLate(x) == WriterTakes /\ ctl # <<>> /\ Frame(x) = Head(outbound)

LEMMA FrameStays ==
    ASSUME Typed, ReaderInv, WriterInv, PolledInv, OneServe, WaitersInv, [Next]_vars,
           NEW z \in Callers, Kept(z)
    PROVE  Kept(z)' \/ TakenLate(z)
<1>t. QueueOK /\ WriterOK /\ ReaderOK /\ CallsOK /\ ReplayOK /\ Sessions \subseteq Callers
      /\ Calls \subseteq Callers
  BY DEF Typed, Callers
\* The call does not begin to wait, and its frame, if it was cared for, still is, unless the actor leaves.
<1>k. ASSUME Waiting(z)' => Waiting(z) /\ Frame(z)' = Frame(z),
             Leaving => Leaving',
             Waiting(z) /\ Waiting(z)' /\ ~Leaving /\ Cared(Frame(z)) => Leaving' \/ Cared(Frame(z))'
      PROVE  Kept(z)'
  BY <1>k DEF Kept
<1>v. UNCHANGED call => \A x \in Callers : (Waiting(x)' <=> Waiting(x)) /\ Frame(x)' = Frame(x)
  BY DEF Waiting, Frame
\* A call that moves alone, and does not get to wait.
<1>m. ASSUME NEW x \in Callers, \A y \in Callers : y # x => call'[y] = call[y], call'[x].pc # "await"
      PROVE  \A y \in Callers : Waiting(y)' => Waiting(y) /\ Frame(y)' = Frame(y)
  BY <1>m DEF Waiting, Frame
<1>l. UNCHANGED reader => (Leaving' <=> Leaving)
  BY DEF Leaving
<1>q. UNCHANGED outbound => \A f : Queued(f)' <=> Queued(f)
  BY DEF Queued
<1>1. CASE CallAct
  <2>1. UNCHANGED <<writer, reader, conn, up, wire>>
    BY <1>1, LeftAlone
  <2>2. UNCHANGED outbound \/ \E f : outbound' = Append(outbound, f)
    BY <1>1 DEF CallAct, CallerStep, PlainCall, Enqueue, FindsItFull, FindsItClosed, StaysFull, Answered,
       TimesOut, DeadlineEnds, queues
  <2>3. \A f : Cared(f) => Cared(f)'
    BY <1>t, <1>q, <2>1, <2>2, QueueKeeps DEF Cared, OnItsWay, Live, Sending, Carries, DrainDue
  <2>4. ASSUME NEW x \in Callers, Enqueue(x)
        PROVE  Kept(z)'
    <3>1. outbound' = Append(outbound, Frame(x)) /\ call' = [call EXCEPT ![x].pc = "await"]
      BY <2>4 DEF Enqueue
    <3>2. call'[x].n = call[x].n /\ \A y \in Callers : y # x => call'[y] = call[y]
      BY <1>t, <3>1, CallMoves, OtherCalls
    <3>3. Frame(x)' = Frame(x) /\ \A y \in Callers : y # x => (Waiting(y)' <=> Waiting(y)) /\ Frame(y)' = Frame(y)
      BY <3>2 DEF Frame, Waiting
    <3>4. Cared(Frame(x))'
      BY <1>t, <3>1, <3>3, QueueGets DEF Cared, OnItsWay
    <3> QED
      BY <1>l, <2>1, <2>3, <3>3, <3>4 DEF Kept
  <2>5. ASSUME NEW x \in Callers, \A y \in Callers : y # x => call'[y] = call[y], call'[x].pc # "await"
        PROVE  Kept(z)'
    BY <1>k, <1>m, <1>l, <2>1, <2>3, <2>5
  <2>6. ASSUME NEW x \in Callers,
               FindsItFull(x) \/ FindsItClosed(x) \/ Answered(x) \/ StaysFull(x)
        PROVE  Kept(z)'
    <3>1. call' = [call EXCEPT ![x].pc = "full"] \/ \E a : Return(x, a)
      BY <2>6 DEF FindsItFull, FindsItClosed, Answered, StaysFull
    <3>2. call'[x].pc # "await"
      <4>1. call' = [call EXCEPT ![x].pc = "full"] => call'[x].pc = "full"
        BY <1>t, CallMoves
      <4>2. \A a : Return(x, a) => call'[x].pc = "done"
        BY <1>t, CallMoves
      <4> QED
        BY <3>1, <4>1, <4>2
    <3>3. \A y \in Callers : y # x => call'[y] = call[y]
      BY <1>t, <3>1, OtherCalls
    <3> QED
      BY <2>5, <3>2, <3>3
  <2>7. ASSUME NEW c \in Calls, PlainCall(c)
        PROVE  Kept(z)'
    <3>1. Register(c) /\ c \in Callers
      BY <1>t, <2>7 DEF PlainCall
    <3>2. call'[c] = [pc |-> "send", n |-> call[c].n + 1, answer |-> "none"]
      BY <1>t, <3>1, CallMoves
    <3>3. \A y \in Callers : y # c => call'[y] = call[y]
      BY <1>t, <3>1, OtherCalls
    <3> QED
      BY <2>5, <3>1, <3>2, <3>3
  <2>8. ASSUME NEW s \in Sessions, TimesOut(s) \/ DeadlineEnds(s)
        PROVE  Kept(z)'
    <3>1. Return(s, "TimedOut") /\ s \in Callers
      BY <1>t, <2>8 DEF TimesOut, DeadlineEnds
    <3>2. call'[s].pc # "await" /\ \A y \in Callers : y # s => call'[y] = call[y]
      BY <1>t, <3>1, CallMoves, OtherCalls
    <3> QED
      BY <2>5, <3>1, <3>2
  <2> QED
    BY <1>1, <2>4, <2>6, <2>7, <2>8 DEF CallAct, CallerStep
<1>2. CASE WriterAct
  <2>1. UNCHANGED <<stopWriter, reader, call, conn, up>>
    BY <1>2, LeftAlone
  <2>c. ASSUME \A f : Cared(f) => Cared(f)'
        PROVE  Kept(z)'
    BY <1>k, <1>v, <1>l, <2>1, <2>c
  <2>2. CASE WriterStops
    <3>1. Leaving'
      BY <2>1, <2>2 DEF WriterStops, ReaderInv, Leaving
    <3> QED
      BY <3>1 DEF Kept
  <2>3. CASE WriterTakes
    <3>1. UNCHANGED wire /\ outbound' = Tail(outbound) /\ writer.pc # "sending"
      BY <2>3 DEF WriterTakes, hub
    <3>t. CASE ctl # <<>> /\ Frame(z) = Head(outbound)
      BY <2>3, <3>t DEF TakenLate
    <3>u. CASE ctl = <<>> \/ Frame(z) # Head(outbound)
    <4>x. \A f : Cared(f) /\ (ctl = <<>> \/ f # Head(outbound)) => Leaving \/ Cared(f)'
      <5>1. ASSUME NEW f, Queued(f), ctl = <<>> \/ f # Head(outbound)
            PROVE  Leaving \/ Cared(f)'
        <6>1. f = Head(outbound) \/ Queued(f)'
          BY <1>t, <3>1, <5>1, QueueKeeps
        <6>2. f = Head(outbound) => Leaving \/ Cared(f)'
          BY <2>3, <5>1, TakenIsCared
        <6> QED
          BY <6>1, <6>2 DEF Cared, OnItsWay
      <5>2. ASSUME NEW f, Cared(f), ~Queued(f)
            PROVE  Cared(f)'
        BY <2>1, <3>1, <5>2 DEF Cared, OnItsWay, Live, Sending, DrainDue
      <5> QED
        BY <5>1, <5>2
    <4> QED
      BY <1>k, <1>v, <1>l, <2>1, <3>u, <4>x
    <3> QED
      BY <3>t, <3>u
  <2>4. CASE WriterSends \/ HubRefuses
    <3>1. UNCHANGED outbound /\ wire' = wire \cup {writer.frame}
      BY <2>4 DEF WriterSends, HubRefuses, queues
    <3> QED
      BY <1>q, <2>1, <2>c, <3>1 DEF Cared, OnItsWay, Live, Sending, DrainDue
  <2>5. CASE WriterControl \/ WriterPolls \/ WriterPollsAgain \/ WriterSendsInVain \/ PingFails
    <3>1. UNCHANGED <<outbound, wire>> /\ \A f : ~Sending(f)
      BY <2>5 DEF WriterControl, WriterPolls, WriterPollsAgain, WriterSendsInVain, PingFails, Sending, hub, queues
    <3> QED
      BY <1>q, <2>1, <2>c, <3>1 DEF Cared, OnItsWay, Live, DrainDue
  <2> QED
    BY <1>2, <2>2, <2>3, <2>4, <2>5 DEF WriterAct, WriterStep
<1>3. CASE ReaderAct
  <2>1. UNCHANGED <<outbound, writer>>
    BY <1>3, LeftAlone
  <2>2. ASSUME \/ reader'.pc \in {"lost", "disconnected", "pausing", "drain"}
               \/ Leaving'
        PROVE  Kept(z)'
    BY <2>2 DEF Kept, Cared, OnItsWay, DrainDue
  <2> USE DEF Goes
  <2>3. CASE \/ ReadsStop \/ StopsReconnecting \/ ReadsForced \/ SocketClosed \/ TerminalClose
             \/ BumpEpoch \/ OnDisconnect \/ PauseWriter \/ ReconnectRejected
    BY <1>t, <2>2, <2>3, ReaderMoves
  <2>4. CASE StopWriter \/ Exited
    <3>1. Leaving'
      BY <1>t, <2>4, ReaderMoves DEF StopWriter, Exited, ReaderInv, Leaving
    <3> QED
      BY <2>2, <3>1
  <2>5. CASE DrainKeys
    <3>1. reader'.pc = "draining" /\ reader'.keys = waiters /\ UNCHANGED call
      BY <1>t, <2>5, ReaderMoves DEF DrainKeys, callers
    <3>2. \A x \in Callers : Waiting(x) => Frame(x) \in waiters
      BY Whose DEF Waiting, Parked
    <3> QED
      BY <1>v, <3>1, <3>2 DEF Kept, Cared, OnItsWay, DrainDue
  <2>6. CASE Drained
    <3>1. /\ reader.pc = "draining" /\ reader.keys = {} /\ UNCHANGED call
          /\ reader.next \in {"backoff", "exit", "stopping"}
          /\ IF reader.next = "exit" THEN Goes("drain", "stopping") ELSE Goes(reader.next, reader.next)
      BY <1>t, <2>6, ReaderMoves DEF Drained, ReaderOK, callers
    <3>2. CASE reader.next = "backoff"
      <4>1. ~Leaving /\ \A f : Cared(f) => Queued(f)
        BY <3>1, <3>2 DEF Leaving, Cared, OnItsWay, Live, DrainDue
      <4> QED
        BY <1>q, <1>v, <2>1, <3>1, <4>1 DEF Kept, Cared, OnItsWay
    <3>3. CASE reader.next = "stopping"
      BY <2>2, <3>1, <3>3 DEF Leaving
    <3> QED
      BY <2>2, <3>1, <3>2, <3>3
  <2>7. CASE Reconnected \/ ReconnectFails
    <3>1. reader.pc = "backoff" /\ UNCHANGED call
      BY <2>7 DEF Reconnected, ReconnectFails, callers
    <3>2. ~Leaving /\ \A f : Cared(f) => Queued(f)
      BY <3>1 DEF ReaderInv, Leaving, Cared, OnItsWay, Live, DrainDue
    <3> QED
      BY <1>q, <1>v, <2>1, <3>1, <3>2 DEF Kept, Cared, OnItsWay
  <2>8. CASE ResumeWriter
    <3>1. /\ reader.pc = "resuming" /\ UNCHANGED <<call, wire, conn, up>>
          /\ reader'.pc = "connected"
      BY <1>t, <2>8, ReaderMoves DEF ResumeWriter, callers, hub
    <3>2. ~Leaving
      BY <3>1 DEF ReaderInv, Leaving
    <3>3. \A f : Cared(f) => Cared(f)'
      BY <1>q, <2>1, <3>1 DEF Cared, OnItsWay, Live, Sending, Carries, DrainDue
    <3> QED
      BY <1>k, <1>v, <3>1, <3>2, <3>3
  <2>9. ASSUME NEW f \in wire, RouteResponse(f)
        PROVE  Kept(z)'
    <3>1. /\ UNCHANGED <<reader, conn, up>> /\ wire' = wire \ {f}
          /\ \E a \in {"Error", "Result"} :
                call' = IF f \in waiters THEN [call EXCEPT ![f.by].answer = a] ELSE call
      BY <2>9 DEF RouteResponse
    <3>2. /\ \A x \in Callers : Waiting(x)' => Waiting(x) /\ Frame(x)' = Frame(x)
          /\ \A x \in Callers : Waiting(x)' => Frame(x) # f
      BY <1>t, <3>1, AnswerEnds
    <3>3. \A g : Cared(g) /\ g # f => Cared(g)'
      BY <1>q, <2>1, <3>1 DEF Cared, OnItsWay, Live, Sending, Carries, DrainDue
    <3> QED
      BY <1>k, <1>l, <3>1, <3>2, <3>3
  <2>10. ASSUME NEW f \in reader.keys, DrainOne(f)
         PROVE  Kept(z)'
    <3>1. /\ reader.pc = "draining" /\ Goes("draining", reader.next) /\ reader'.keys = reader.keys \ {f}
          /\ reader.error # "none"
          /\ call' = IF f \in waiters THEN [call EXCEPT ![f.by].answer = reader.error] ELSE call
      BY <1>t, <2>10, ReaderMoves DEF DrainOne, ReaderOK, Errors
    <3>2. /\ \A x \in Callers : Waiting(x)' => Waiting(x) /\ Frame(x)' = Frame(x)
          /\ \A x \in Callers : Waiting(x)' => Frame(x) # f
      BY <1>t, <3>1, AnswerEnds
    <3>3. \A g : Cared(g) /\ g # f => Cared(g)'
      BY <1>q, <2>1, <3>1 DEF Cared, OnItsWay, Live, DrainDue
    <3>4. Leaving => Leaving'
      BY <3>1 DEF Leaving
    <3> QED
      BY <1>k, <3>1, <3>2, <3>3, <3>4
  <2> QED
    BY <1>3, <2>3, <2>4, <2>5, <2>6, <2>7, <2>8, <2>9, <2>10 DEF ReaderAct, ReaderStep
<1>4. CASE ReplayStep
  <2>1. UNCHANGED <<outbound, writer, reader, conn, up, wire>>
    BY <1>4, LeftAlone
  <2>2. \A f : Cared(f) => Cared(f)'
    BY <1>q, <2>1 DEF Cared, OnItsWay, Live, Sending, Carries, DrainDue
  <2>3. \/ UNCHANGED call
        \/ \E x \in Callers : Register(x) \/ \E a : Return(x, a)
    <3>1. replay.pc = "called" => replay.session \in Callers
      BY <1>t DEF ReplayOK
    <3> QED
      BY <1>4, <1>t, <3>1 DEF ReplayStep, ReplayWakes, ReplayStarts, ServeSession, ServeAgain, ServeReturned,
         ServeGivesUp, ServeEnds, ReplayChecks, Settles, ReplayAborted, callers
  <2>4. CASE UNCHANGED call
    BY <1>k, <1>l, <1>v, <2>1, <2>2, <2>4
  <2>5. ASSUME NEW x \in Callers, Register(x) \/ \E a : Return(x, a)
        PROVE  Kept(z)'
    <3>1. call'[x].pc # "await"
      <4>1. Register(x) => call'[x] = [pc |-> "send", n |-> call[x].n + 1, answer |-> "none"]
        BY <1>t, CallMoves
      <4>2. \A a : Return(x, a) => call'[x].pc = "done"
        BY <1>t, CallMoves
      <4> QED
        BY <2>5, <4>1, <4>2
    <3>2. \A y \in Callers : y # x => call'[y] = call[y]
      BY <1>t, <2>5, OtherCalls
    <3> QED
      BY <1>k, <1>m, <1>l, <2>1, <2>2, <3>1, <3>2
  <2> QED
    BY <2>3, <2>4, <2>5
<1>5. CASE SignalAct
  <2>1. UNCHANGED <<outbound, writer, reader, call, conn, wire>> /\ (up' => up)
    <3>1. up' => up
      BY <1>5 DEF SignalAct, RequestShutdown, SocketDies, vars, hub
    <3> QED
      BY <1>5, <3>1, LeftAlone
  <2>2. \A f : Cared(f) => Cared(f)'
    BY <1>q, <2>1 DEF Cared, OnItsWay, Live, Sending, Carries, DrainDue
  <2> QED
    BY <1>k, <1>l, <1>v, <2>1, <2>2
<1> QED
  BY <1>1, <1>2, <1>3, <1>4, <1>5, StepKinds
\* Live is what the writer was when it polled.
LEMMA PolledStays ==
    ASSUME Typed, PolledInv, [Next]_vars
    PROVE  PolledInv'
<1>1. CASE UNCHANGED writer
  BY <1>1 DEF PolledInv
<1>2. CASE WriterAct
  BY <1>2 DEF WriterAct, WriterStep, WriterStops, WriterControl, WriterPolls, WriterTakes, WriterPollsAgain,
     WriterSends, WriterSendsInVain, PingFails, HubRefuses, PolledInv, Typed, WriterOK
<1> QED
  BY <1>1, <1>2, StepKinds, LeftAlone

\* A writer that has polled finds an order behind its poll only when it is paused.
LEMMA LateOrder ==
    ASSUME Typed, WriterInv, PolledInv, [Next]_vars, (writer.pc = "polled" /\ ctl # <<>>)'
    PROVE  (writer.pc = "polled" /\ ctl # <<>> /\ ~WriterTakes) \/ PauseWriter
<1>t. writer'.pc = "polled" /\ ctl' # <<>>
  OBVIOUS
<1>w. ~WriterTakes
  BY <1>t DEF WriterTakes, Typed, WriterOK
<1>1. CASE UNCHANGED <<writer, ctl>>
  BY <1>t, <1>w, <1>1
<1>2. CASE WriterAct
  <2>1. CASE WriterPolls
    BY <1>t, <2>1 DEF WriterPolls, queues
  <2>2. CASE \/ WriterStops \/ WriterControl \/ WriterPollsAgain \/ WriterSends \/ WriterSendsInVain
             \/ PingFails \/ HubRefuses
    <3>1. writer'.pc # "polled"
      BY <2>2 DEF WriterStops, WriterControl, WriterPollsAgain, WriterSends, WriterSendsInVain, PingFails,
         HubRefuses, Typed, WriterOK
    <3> QED
      BY <1>t, <3>1
  <2> QED
    BY <1>2, <1>w, <2>1, <2>2 DEF WriterAct, WriterStep
<1>3. CASE ReaderAct
  <2>1. writer.pc = "polled" /\ writer.live
    <3>1. UNCHANGED writer
      BY <1>3, LeftAlone
    <3> QED
      BY <1>t, <3>1 DEF PolledInv
  <2>2. ResumeWriter => ctl # <<>>
    BY <2>1 DEF ResumeWriter, WriterInv, Paused
  <2>3. PauseWriter \/ ResumeWriter \/ UNCHANGED ctl
    BY <1>3 DEF ReaderAct, ReaderStep, ReadsStop, ReadsForced, SocketClosed, RouteResponse, BumpEpoch, OnDisconnect,
       DrainKeys, Drained, DrainOne, StopsReconnecting, Reconnected, StopWriter, Exited, TerminalClose,
       ReconnectFails, ReconnectRejected, queues
  <2> QED
    BY <1>t, <1>w, <2>1, <2>2, <2>3
<1> QED
  BY <1>1, <1>2, <1>3, StepKinds, LeftAlone

LEMMA OneStrands ==
    ASSUME Typed, ReaderInv, WriterInv, PolledInv, OneServe, WaitersInv, StrandInv, [Next]_vars
    PROVE  StrandInv'
<1>1. \A x \in Callers : Kept(x) => Kept(x)' \/ TakenLate(x)
  BY FrameStays
<1>2. \A x, y \in Callers : TakenLate(x) /\ TakenLate(y) => x = y
  BY DEF TakenLate, Frame
<1>3. \A x \in Callers : TakenLate(x) => \A y \in Callers : Kept(y)
  BY DEF TakenLate, WriterTakes, StrandInv
<1>4. ASSUME NEW x \in Callers, NEW y \in Callers, ~Kept(x)', ~Kept(y)'
      PROVE  x = y
  <2>1. CASE \E v \in Callers : TakenLate(v)
    BY <1>1, <1>2, <1>3, <1>4, <2>1
  <2>2. CASE \A v \in Callers : ~TakenLate(v)
    BY <1>1, <1>4, <2>2 DEF StrandInv
  <2> QED
    BY <2>1, <2>2
<1>5. ASSUME (writer.pc = "polled" /\ ctl # <<>>)', NEW x \in Callers
      PROVE  Kept(x)'
  <2>1. CASE writer.pc = "polled" /\ ctl # <<>> /\ ~WriterTakes
    BY <1>1, <2>1 DEF StrandInv, TakenLate
  <2>2. CASE PauseWriter
    <3>1. reader'.pc = "drain"
      BY <2>2, ReaderMoves DEF Typed, Goes
    <3> QED
      BY <3>1 DEF Kept, Cared, OnItsWay, DrainDue
  <2> QED
    BY <1>5, <2>1, <2>2, LateOrder
<1> QED
  BY <1>4, <1>5 DEF StrandInv
-----------------------------------------------------------------------------
(* What the replay counted, the hub has. *)

\* Only the new epoch takes the connection down, and only the next socket brings it back.
LEMMA DownMoves ==
    ASSUME Typed, ReaderInv, [Next]_vars
    PROVE  /\ Down' => Down \/ (BumpEpoch /\ epoch' = epoch + 1)
           /\ BumpEpoch \/ UNCHANGED epoch
           /\ Reconnected => Down
<1>t. ReaderOK
  BY DEF Typed
<1>1. CASE UNCHANGED <<reader, epoch>>
  BY <1>1 DEF Down, Reconnected
<1>2. CASE ReaderAct
  <2> USE DEF Goes
  <2>e. BumpEpoch \/ UNCHANGED epoch
    BY <1>2 DEF ReaderAct, ReaderStep, ReadsStop, ReadsForced, SocketClosed, RouteResponse, OnDisconnect,
       PauseWriter, DrainKeys, Drained, DrainOne, StopsReconnecting, Reconnected, ResumeWriter, StopWriter,
       Exited, TerminalClose, ReconnectFails, ReconnectRejected, server
  <2>r. Reconnected => Down
    BY DEF Reconnected, Down
  <2>1. CASE BumpEpoch
    BY <2>r, <2>1 DEF BumpEpoch
  <2>d. ASSUME ~Down' \/ Down
        PROVE  /\ Down' => Down \/ (BumpEpoch /\ epoch' = epoch + 1)
               /\ BumpEpoch \/ UNCHANGED epoch
               /\ Reconnected => Down
    BY <2>e, <2>r, <2>d
  <2>2. CASE \/ ReadsStop \/ StopsReconnecting \/ ReadsForced \/ SocketClosed \/ TerminalClose
             \/ ReconnectRejected \/ Reconnected \/ ResumeWriter \/ StopWriter \/ Exited
    <3>1. ~Down'
      BY <1>t, <2>2, ReaderMoves DEF Down
    <3> QED
      BY <2>d, <3>1
  <2>3. CASE OnDisconnect \/ PauseWriter \/ ReconnectFails
    <3>1. Down
      BY <2>3 DEF Down, OnDisconnect, PauseWriter, ReconnectFails
    <3> QED
      BY <2>d, <3>1
  <2>4. CASE DrainKeys \/ \E f \in reader.keys : DrainOne(f)
    <3>1. reader.pc \in {"drain", "draining"} /\ reader'.pc = "draining" /\ reader'.next = reader.next
      BY <1>t, <2>4, ReaderMoves DEF DrainKeys, DrainOne
    <3>2. Down' => Down
      BY <3>1 DEF Down
    <3> QED
      BY <2>d, <3>2
  <2>5. CASE Drained
    <3>1. /\ reader.pc = "draining" /\ reader.next \in {"backoff", "exit", "stopping"}
          /\ IF reader.next = "exit" THEN Goes("drain", "stopping") ELSE Goes(reader.next, reader.next)
      BY <1>t, <2>5, ReaderMoves DEF Drained, ReaderOK
    <3>2. Down' => Down
      BY <3>1 DEF Down
    <3> QED
      BY <2>d, <3>2
  <2>6. CASE \E f \in wire : RouteResponse(f)
    <3>1. UNCHANGED reader
      BY <2>6 DEF RouteResponse
    <3>2. Down' => Down
      BY <3>1 DEF Down
    <3> QED
      BY <2>d, <3>2
  <2> QED
    BY <1>2, <2>1, <2>2, <2>3, <2>4, <2>5, <2>6 DEF ReaderAct, ReaderStep
<1> QED
  BY <1>1, <1>2, StepKinds, LeftAlone

LEMMA ServedStays ==
    ASSUME Typed, ReaderInv, OneServe, WaitersInv, ServedInv, [Next]_vars
    PROVE  ServedInv'
<1>t. /\ QueueOK /\ WriterOK /\ ReaderOK /\ CallsOK /\ ReplayOK /\ waiters \subseteq Frames
      /\ wire \subseteq Frames /\ served \subseteq Sessions /\ epoch \in Nat /\ conn \in Nat
      /\ replay.since \in Nat /\ replay.checked \in Nat /\ replay.since <= epoch /\ replay.checked <= epoch
      /\ Sessions \subseteq Callers
  BY DEF Typed, HubOK, ReplayOK, Callers
<1>d. /\ Down' => Down \/ (BumpEpoch /\ epoch' = epoch + 1)
      /\ BumpEpoch \/ UNCHANGED epoch
      /\ Reconnected => Down
  BY DownMoves
<1> DEFINE HasAnswer == replay.pc = "called" /\ call[replay.session].answer = "Result"
\* The hub keeps what it has, and the replay stays where it is.
<1>k. ASSUME UNCHANGED replay, served \subseteq served', Down' => Down, UNCHANGED epoch,
             \A f \in wire' \ refused' : f.by \in Sessions => f.by \in served',
             HasAnswer' => HasAnswer \/ (replay.session \in served' /\ ~Down'),
             served' \subseteq Sessions
      PROVE  ServedInv'
  <2>1. (Down' => Down) /\ replay' = replay /\ epoch' = epoch
    BY <1>k
  <2>2. replay'.pc \in {"replaying", "called"} /\ replay'.all /\ replay'.since = epoch' =>
            Sessions \ replay'.todo \subseteq served' /\ (Down' => replay'.todo = Sessions)
    BY <1>k, <2>1 DEF ServedInv
  <2>3. replay'.pc = "called" /\ replay'.since = epoch' /\ call'[replay'.session].answer = "Result" =>
            replay'.session \in served' /\ ~Down'
    BY <1>k, <2>1 DEF ServedInv
  <2>4. replay'.pc = "settling" /\ replay'.checked = epoch' =>
            served' = Sessions /\ (Down' => Sessions = {})
    BY <1>k, <2>1 DEF ServedInv
  <2> QED
    BY <1>k, <2>2, <2>3, <2>4 DEF ServedInv
\* The answer to the present serve stays what it is, unless it becomes another one.
<1>h. ASSUME UNCHANGED replay, UNCHANGED call
      PROVE  HasAnswer' <=> HasAnswer
  BY <1>h
<1>r. ASSUME NEW x \in Callers, NEW a, Return(x, a), a = "Result" => call[x].answer = "Result", UNCHANGED replay
      PROVE  HasAnswer' => HasAnswer
  <2>1. call'[x].answer = a /\ \A y \in Callers : y # x => call'[y] = call[y]
    BY <1>t, <1>r, CallMoves, OtherCalls
  <2>2. replay.pc = "called" => replay.session \in Callers
    BY <1>t DEF ReplayOK
  <2> QED
    BY <1>r, <2>1, <2>2
<1>1. CASE CallAct
  <2>1. UNCHANGED <<reader, wire, refused, served, epoch, replay>> /\ (Down' <=> Down)
    <3>1. UNCHANGED <<reader, wire, refused, served, epoch, replay>>
      BY <1>1, LeftAlone
    <3> QED
      BY <3>1 DEF Down
  <2>2. ASSUME HasAnswer' => HasAnswer
        PROVE  ServedInv'
    BY <1>k, <1>t, <2>1, <2>2 DEF ServedInv
  <2>p. replay.pc = "called" => replay.session \in Callers
    BY <1>t DEF ReplayOK
  <2>3. ASSUME NEW x \in Callers, Enqueue(x) \/ FindsItFull(x)
        PROVE  ServedInv'
    <3>1. \E l : call' = [call EXCEPT ![x].pc = l]
      BY <2>3 DEF Enqueue, FindsItFull
    <3>2. call'[x].answer = call[x].answer /\ \A y \in Callers : y # x => call'[y] = call[y]
      BY <1>t, <3>1, CallMoves, OtherCalls
    <3> QED
      BY <2>1, <2>2, <2>p, <3>2
  <2>4. ASSUME NEW x \in Callers, FindsItClosed(x) \/ Answered(x) \/ StaysFull(x)
        PROVE  ServedInv'
    <3>1. Return(x, "NetworkError") \/ Return(x, call[x].answer) \/ Return(x, "Backpressure")
      BY <2>4 DEF FindsItClosed, Answered, StaysFull
    <3> QED
      BY <1>r, <2>1, <2>2, <3>1
  <2>5. ASSUME NEW s \in Sessions, TimesOut(s) \/ DeadlineEnds(s)
        PROVE  ServedInv'
    <3>1. Return(s, "TimedOut") /\ s \in Callers
      BY <1>t, <2>5 DEF TimesOut, DeadlineEnds
    <3> QED
      BY <1>r, <2>1, <2>2, <3>1
  <2>6. ASSUME NEW c \in Calls, PlainCall(c)
        PROVE  ServedInv'
    <3>1. Register(c) /\ c \in Callers /\ (replay.pc = "called" => replay.session # c)
      BY <1>t, <2>6, HubAssumption DEF PlainCall, Callers, ReplayOK
    <3>2. \A y \in Callers : y # c => call'[y] = call[y]
      BY <1>t, <3>1, OtherCalls
    <3> QED
      BY <2>1, <2>2, <2>p, <3>1, <3>2
  <2> QED
    BY <1>1, <2>3, <2>4, <2>5, <2>6 DEF CallAct, CallerStep
<1>2. CASE WriterAct
  <2>1. UNCHANGED <<reader, call, epoch, replay>> /\ (Down' <=> Down) /\ (HasAnswer' <=> HasAnswer)
    <3>1. UNCHANGED <<reader, call, epoch, replay>>
      BY <1>2, LeftAlone
    <3> QED
      BY <1>h, <3>1 DEF Down
  <2>2. CASE WriterSends
    <3>1. /\ wire' = wire \cup {writer.frame} /\ UNCHANGED refused
          /\ served' = served \cup ({writer.frame.by} \cap Sessions)
      BY <2>2 DEF WriterSends
    <3> QED
      BY <1>k, <1>t, <2>1, <3>1 DEF ServedInv
  <2>3. CASE UNCHANGED <<wire, refused, served>>
    BY <1>k, <1>t, <2>1, <2>3 DEF ServedInv
  <2>4. CASE HubRefuses
    <3>1. /\ wire' \ refused' \subseteq wire \ refused
          /\ served \subseteq served' /\ served' \subseteq Sessions
      BY <1>t, <2>4 DEF HubRefuses
    <3> QED
      BY <1>k, <2>1, <3>1 DEF ServedInv
  <2> QED
    BY <1>2, <2>2, <2>3, <2>4 DEF WriterAct, WriterStep, WriterStops, WriterControl, WriterPolls, WriterTakes,
       WriterPollsAgain, WriterSendsInVain, PingFails, hub
<1>3. CASE SignalAct
  <2>1. UNCHANGED <<reader, call, epoch, replay, wire, refused, served>>
    BY <1>3, LeftAlone
  <2>2. Down' <=> Down
    BY <2>1 DEF Down
  <2> QED
    BY <1>h, <1>k, <1>t, <2>1, <2>2 DEF ServedInv
<1>4. CASE ReaderAct
  <2>1. UNCHANGED replay
    BY <1>4, LeftAlone
  <2>2. CASE BumpEpoch
    <3>1. UNCHANGED <<wire, refused, served, call>> /\ epoch' = epoch + 1
      BY <2>2 DEF BumpEpoch, hub, callers
    <3>2. replay'.since # epoch' /\ replay'.checked # epoch'
      BY <1>t, <2>1, <3>1
    <3> QED
      BY <3>1, <3>2 DEF ServedInv
  <2>3. CASE Reconnected
    <3>1. /\ wire' = {} /\ served' = {} /\ UNCHANGED <<call, epoch>> /\ Down
          /\ reader'.pc = "resuming"
      BY <1>t, <1>d, <2>3, ReaderMoves DEF Reconnected, callers, Goes
    <3>2. ~Down'
      BY <3>1 DEF Down
    <3>3. (replay.pc \in {"replaying", "called"} /\ replay.all /\ replay.since = epoch) => replay.todo = Sessions
      BY <3>1 DEF ServedInv
    <3>4. ~(replay.pc = "called" /\ replay.since = epoch /\ call[replay.session].answer = "Result")
      BY <3>1 DEF ServedInv
    <3>5. replay.pc = "settling" /\ replay.checked = epoch => Sessions = {}
      BY <3>1 DEF ServedInv
    <3> QED
      BY <2>1, <3>1, <3>2, <3>3, <3>4, <3>5 DEF ServedInv
  <2>4. ASSUME NEW f \in wire, RouteResponse(f)
        PROVE  ServedInv'
    <3> DEFINE a == IF f \in refused THEN "Error" ELSE "Result"
    <3>1. /\ reader.pc = "connected" /\ UNCHANGED <<reader, served, epoch>>
          /\ wire' = wire \ {f} /\ refused' = refused \ {f} /\ (a = "Result" => f \notin refused)
          /\ call' = IF f \in waiters THEN [call EXCEPT ![f.by].answer = a] ELSE call
      BY <2>4 DEF RouteResponse, Reading, server
    <3> HIDE DEF a
    <3>2. ~Down'
      BY <3>1 DEF Down
    <3>3. HasAnswer' => HasAnswer \/ (replay.session \in served' /\ ~Down')
      <4>1. CASE f \in waiters /\ f.by = replay.session
        <5>1. HasAnswer' => replay.session \in Sessions
          BY <1>t, <2>1 DEF ReplayOK
        <5>2. f.by \in Callers /\ call' = [call EXCEPT ![f.by].answer = a]
          BY <3>1, <4>1, Whose
        <5>3. call'[f.by].answer = a
          BY <1>t, <5>2, CallMoves
        <5>4. HasAnswer' => f \notin refused
          BY <2>1, <3>1, <4>1, <5>3
        <5> QED
          BY <3>1, <3>2, <4>1, <5>1, <5>4 DEF ServedInv
      <4>2. CASE f \in waiters /\ f.by # replay.session
        <5>1. f.by \in Callers /\ call' = [call EXCEPT ![f.by].answer = a]
          BY <3>1, <4>2, Whose
        <5>2. \A y \in Callers : y # f.by => call'[y] = call[y]
          BY <1>t, <5>1, OtherCalls
        <5>3. replay.pc = "called" => replay.session \in Callers
          BY <1>t DEF ReplayOK
        <5> QED
          BY <2>1, <4>2, <5>2, <5>3
      <4>3. CASE f \notin waiters
        BY <2>1, <3>1, <4>3
      <4> QED
        BY <4>1, <4>2, <4>3
    <3> QED
      BY <1>k, <1>t, <2>1, <3>1, <3>2, <3>3 DEF ServedInv
  <2>5. ASSUME NEW f \in reader.keys, DrainOne(f)
        PROVE  ServedInv'
    <3>1. /\ UNCHANGED <<served, epoch, wire, refused>> /\ reader.error # "Result"
          /\ call' = IF f \in waiters THEN [call EXCEPT ![f.by].answer = reader.error] ELSE call
      BY <1>t, <2>5 DEF DrainOne, ReaderOK, Errors, hub, server
    <3>2. Down' => Down
      BY <1>d, <2>5, <3>1, <1>t
    <3>3. HasAnswer' => HasAnswer
      <4>1. CASE f \in waiters
        <5>1. f.by \in Callers /\ call' = [call EXCEPT ![f.by].answer = reader.error]
          BY <3>1, <4>1, Whose
        <5>2. call'[f.by].answer = reader.error /\ \A y \in Callers : y # f.by => call'[y] = call[y]
          BY <1>t, <5>1, CallMoves, OtherCalls, ZenonT(60)
        <5>3. replay.pc = "called" => replay.session \in Callers
          BY <1>t DEF ReplayOK
        <5> QED
          BY <2>1, <3>1, <5>2, <5>3
      <4>2. CASE f \notin waiters
        BY <2>1, <3>1, <4>2
      <4> QED
        BY <4>1, <4>2
    <3> QED
      BY <1>k, <1>t, <2>1, <3>1, <3>2, <3>3 DEF ServedInv
  <2>6. CASE /\ UNCHANGED <<wire, refused, served, call, epoch>>
             /\ ~BumpEpoch
    <3>1. (Down' => Down) /\ (HasAnswer' <=> HasAnswer)
      BY <1>d, <1>h, <2>1, <2>6
    <3> QED
      BY <1>k, <1>t, <2>1, <2>6, <3>1 DEF ServedInv
  <2> QED
    BY <1>4, <1>d, <2>2, <2>3, <2>4, <2>5, <2>6 DEF ReaderAct, ReaderStep, ReadsStop, ReadsForced, SocketClosed,
       OnDisconnect, PauseWriter, DrainKeys, Drained, StopsReconnecting, ResumeWriter, StopWriter, Exited,
       TerminalClose, ReconnectFails, ReconnectRejected, callers, hub
<1>5. CASE ReplayStep
  <2>1. UNCHANGED <<wire, refused, served, epoch>> /\ (Down' <=> Down)
    <3>1. UNCHANGED <<wire, refused, served, epoch, reader>>
      BY <1>5, LeftAlone
    <3> QED
      BY <3>1 DEF Down
  <2>n. Nothing \notin Sessions
    BY HubAssumption
  \* What the new state of the replay must satisfy.
  <2>k. ASSUME replay'.pc \in {"replaying", "called"} /\ replay'.all /\ replay'.since = epoch =>
                   Sessions \ replay'.todo \subseteq served /\ (Down => replay'.todo = Sessions),
               replay'.pc = "called" => call'[replay'.session].answer # "Result",
               replay'.pc = "settling" /\ replay'.checked = epoch =>
                   served = Sessions /\ (Down => Sessions = {})
        PROVE  ServedInv'
    BY <2>1, <2>k DEF ServedInv
  <2>2. CASE replay'.pc \in {"waiting", "woken", "aborted"}
    BY <2>k, <2>2
  <2>3. CASE ReplayStarts
    <3>1. replay'.pc = "replaying" /\ replay'.todo = Sessions
      BY <2>3 DEF ReplayStarts, AtRest
    <3> QED
      BY <2>k, <3>1
  <2>4. ASSUME NEW s \in Sessions, ServeSession(s)
        PROVE  ServedInv'
    <3>1. /\ replay.pc = "replaying" /\ replay'.pc = "called" /\ replay'.session = s
          /\ replay'.todo = replay.todo /\ replay'.all = replay.all /\ replay'.since = replay.since
      BY <1>t, <2>4 DEF ServeSession, ReplayOK
    <3>2. call'[s] = [pc |-> "send", n |-> call[s].n + 1, answer |-> "none"]
      BY <1>t, <2>4, CallMoves DEF ServeSession
    <3> QED
      BY <2>k, <3>1, <3>2 DEF ServedInv
  <2>5. CASE ServeAgain
    <3>1. /\ replay.pc = "called" /\ replay'.pc = "called" /\ replay'.session = replay.session
          /\ replay'.todo = replay.todo /\ replay'.all = replay.all /\ replay'.since = replay.since
          /\ replay.session \in Callers
      BY <1>t, <2>5 DEF ServeAgain, ServeReturned, ReplayOK
    <3>2. call'[replay.session] = [pc |-> "send", n |-> call[replay.session].n + 1, answer |-> "none"]
      BY <1>t, <2>5, <3>1, CallMoves DEF ServeAgain
    <3> QED
      BY <2>k, <3>1, <3>2 DEF ServedInv
  <2>6. CASE ServeGivesUp \/ ServeEnds
    <3>1. PICK ok \in BOOLEAN : NextSession(ok) /\ (ok => call[replay.session].answer = "Result")
      BY <2>6 DEF ServeGivesUp, ServeEnds
    <3>2. replay.pc = "called"
      BY <2>6 DEF ServeGivesUp, ServeEnds, ServeReturned
    <3>3. /\ replay'.pc = "replaying" /\ replay'.todo = replay.todo \ {replay.session}
          /\ (replay'.all => replay.all /\ ok) /\ replay'.since = replay.since
      BY <1>t, <3>1 DEF NextSession, ReplayOK
    <3> QED
      BY <2>k, <3>1, <3>2, <3>3 DEF ServedInv
  <2>7. CASE ReplayChecks
    <3>1. CASE replay.all /\ replay.since = epoch
      <4>1. /\ replay'.pc = "settling" /\ replay.pc = "replaying" /\ replay.todo = {}
        BY <1>t, <2>7, <3>1 DEF ReplayChecks, ReplayOK
      <4>2. Sessions \subseteq served /\ (Down => Sessions = {})
        BY <3>1, <4>1 DEF ServedInv
      <4> QED
        BY <1>t, <2>k, <4>1, <4>2
    <3>2. CASE ~(replay.all /\ replay.since = epoch)
      BY <2>2, <2>7, <3>2 DEF ReplayChecks, AtRest
    <3> QED
      BY <3>1, <3>2
  <2>8. CASE ReplayWakes \/ Settles \/ ReplayAborted
    <3>1. replay'.pc \in {"waiting", "woken", "aborted"}
      BY <1>t, <2>8 DEF ReplayWakes, Settles, ReplayAborted, AtRest, ReplayOK
    <3> QED
      BY <2>2, <3>1
  <2> QED
    BY <1>5, <2>3, <2>4, <2>5, <2>6, <2>7, <2>8 DEF ReplayStep
<1> QED
  BY <1>1, <1>2, <1>3, <1>4, <1>5, StepKinds

-----------------------------------------------------------------------------
(* The invariant and what follows from it. *)

HubInv ==
    /\ Typed /\ ReaderInv /\ WriterInv /\ PolledInv
    /\ OneServe /\ WaitersInv /\ StrandInv /\ ServedInv

LEMMA HubInvariant == Spec => []HubInv
<1>1. Init => ReaderInv /\ WriterInv /\ PolledInv /\ OneServe /\ WaitersInv /\ StrandInv /\ ServedInv
  <2> SUFFICES ASSUME Init
               PROVE  ReaderInv /\ WriterInv /\ PolledInv /\ OneServe /\ WaitersInv /\ StrandInv /\ ServedInv
    OBVIOUS
  <2>1. \A x \in Callers : call[x].pc = "idle"
    BY DEF Init
  <2>2. /\ reader.pc = "connected" /\ reader.next = "backoff" /\ ~stopWriter /\ ctl = <<>>
        /\ writer.sink = 1 /\ conn = 1 /\ wire = {} /\ waiters = {} /\ replay.pc = "waiting"
        /\ writer.pc = "select"
    BY DEF Init, AtRest
  <2>3. ReaderInv /\ WriterInv /\ PolledInv /\ ServedInv
    BY <2>2 DEF ReaderInv, WriterInv, PolledInv, Paused, Running, ServedInv
  <2>4. OneServe /\ WaitersInv /\ StrandInv
    BY <2>1, <2>2 DEF OneServe, Underway, WaitersInv, Parked, StrandInv, Kept, Waiting, Callers
  <2> QED
    BY <2>3, <2>4
<1>2. HubInv /\ Typed' /\ [Next]_vars => HubInv'
  BY ReaderStays, WriterFollows, PolledStays, WaitersStay, OneStrands, ServedStays DEF HubInv
<1> QED
  BY <1>1, <1>2, Typing, PTL DEF Spec, HubInv

\* A call that is not cared for is stranded, and no other.
LEMMA StrandedIsNotKept ==
    ASSUME NEW x \in Callers
    PROVE  Stranded(x) <=> ~Kept(x)
BY DEF Stranded, Kept, Cared

\* However many calls, sessions and faults: a call that waits has its waiter in the table, and of all
\* that wait at most one is stranded, as long as the actor has not collected the keys of its last
\* drain (connection.rs run_reader_phase, run_writer; demux.rs).
THEOREM AtMostOneStranded == Spec => []OneStranded
<1>1. HubInv => OneStranded
  <2> SUFFICES ASSUME HubInv
               PROVE  OneStranded
    OBVIOUS
  <2>1. \A x \in Callers : Waiting(x) => Frame(x) \in waiters
    BY Whose DEF HubInv, Waiting, Parked
  <2>2. \A x \in Callers : Stranded(x) <=> ~Kept(x)
    BY StrandedIsNotKept
  <2> QED
    BY <2>1, <2>2 DEF HubInv, StrandInv, OneStranded
<1> QED
  BY <1>1, HubInvariant, PTL

\* However many calls, sessions and faults: what strands a call is that the writer, which polled control
\* before the Pause, takes the frame afterwards; no other step of any task does (connection.rs
\* run_writer, the select).
THEOREM OnlyLateTakesStrand == Spec => StrandedByLateTake
<1>1. HubInv /\ [Next]_vars =>
        \A x \in Callers : Stranded(x)' =>
            Stranded(x) \/ (writer.pc = "polled" /\ ctl # <<>> /\ writer'.frame = Frame(x))
  <2> SUFFICES ASSUME HubInv, [Next]_vars, NEW x \in Callers, Stranded(x)', ~Stranded(x)
               PROVE  writer.pc = "polled" /\ ctl # <<>> /\ writer'.frame = Frame(x)
    OBVIOUS
  <2>1. Kept(x) /\ ~Kept(x)'
    BY DEF Stranded, Kept, Cared
  <2>2. TakenLate(x)
    BY <2>1, FrameStays DEF HubInv
  <2>3. writer'.frame = Head(outbound)
    BY <2>2 DEF TakenLate, WriterTakes, HubInv, Typed, WriterOK
  <2> QED
    BY <2>2, <2>3 DEF TakenLate, WriterTakes
<1> QED
  BY <1>1, HubInvariant, PTL DEF Spec, StrandedByLateTake

\* However many sessions and disconnects: when the replay task has passed its check and no disconnect
\* came after it, the hub has every session on the present socket (server.rs run, the epoch check).
THEOREM SettledIsServed == Spec => []SettledAreServed
<1>1. HubInv => SettledAreServed
  BY DEF HubInv, ServedInv, SettledAreServed
<1> QED
  BY <1>1, HubInvariant, PTL
===============================================================================
