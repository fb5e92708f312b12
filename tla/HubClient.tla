------------------------------ MODULE HubClient ------------------------------
(***************************************************************************)
(* One connection of the computer hub SDK (cf-computer-hub-sdk): its reader *)
(* task, which also reconnects, its writer task, the demultiplexer's table  *)
(* of parked calls, and two kinds of callers: a plain call_request(), which *)
(* has no deadline, and the replay task of a tool server, which serves the  *)
(* tools of every session again after a reconnect and then lets the         *)
(* workspace set its readiness marker (cf-workspace/src/hub.rs).            *)
(*                                                                          *)
(* The hub and the network are external: a socket takes frames while it is  *)
(* up, a frame written to a dead one is lost, and what the hub took it      *)
(* answers in any order, a serve perhaps with an error, or not at all when  *)
(* the socket dies first.                                                   *)
(***************************************************************************)
EXTENDS Naturals, Sequences, FiniteSets

CONSTANTS
    Calls,            \* plain calls, each made once
    Sessions,         \* active sessions of the tool server
    Nothing,          \* no frame, no session
    OutboundBuffer,   \* capacity of the outbound channel (256 in the code)
    ServeMaxAttempts, \* SERVE_MAX_ATTEMPTS (3 in the code)
    MaxFaults         \* bound: sockets that die, attempts and serves that fail, waits that time
                      \* out, frames taken behind an unread Pause

ASSUME HubAssumption ==
    /\ OutboundBuffer \in Nat \ {0} /\ ServeMaxAttempts \in Nat \ {0} /\ MaxFaults \in Nat
    /\ Calls \cap Sessions = {} /\ Nothing \notin Sessions

VARIABLES
    outbound, open,   \* the outbound channel, and whether its receiver is alive
    ctl,              \* the control channel of the writer: 0 is Pause, n is Resume with socket n
    writer,           \* what it does, the frame in its hand, whether it is live, its sink
    stopWriter,       \* writer_stop
    reader,           \* what it does; while it drains: with which error, what next, which keys
    stop, reconnect,  \* the two signal channels of the reader, of capacity 1
    waiters,          \* Demux::waiters: the frames somebody waits for an answer to
    call,             \* each caller: where it is, the number of its request, the answer sent to it
    conn, up,         \* the last socket that was opened, whether it still carries frames
    wire, refused,    \* at the hub, on that socket: frames to answer, those it answers with an error
    served,           \* and the sessions it serves
    epoch, notify,    \* disconnect_epoch, reconnect_notify
    replay,           \* the replay task
    ready,            \* the readiness marker
    faults

callers == <<waiters, call>>
queues == <<outbound, open, ctl>>
hub == <<conn, up, wire, refused, served>>
server == <<epoch, notify, replay, ready>>
vars == <<queues, writer, stopWriter, reader, stop, reconnect, callers, hub, server, faults>>

Callers == Calls \cup Sessions
Frame(x) == [by |-> x, n |-> call[x].n]
Frames == [by : Callers, n : Nat]
Errors == {"NetworkError", "Closed", "AuthError", "Backpressure", "TimedOut", "Error"}

Fault == faults < MaxFaults /\ faults' = faults + 1
Carries(socket) == socket = conn /\ up

AtRest == [pc |-> "waiting", since |-> 0, checked |-> 0, todo |-> {}, all |-> TRUE,
           session |-> Nothing, attempt |-> 0]

Init ==
    /\ outbound = <<>> /\ open = TRUE /\ ctl = <<>>
    /\ writer = [pc |-> "select", frame |-> Nothing, live |-> TRUE, sink |-> 1]
    /\ stopWriter = FALSE
    /\ reader = [pc |-> "connected", error |-> "NetworkError", next |-> "backoff", keys |-> {}]
    /\ stop = FALSE /\ reconnect = FALSE
    /\ waiters = {} /\ call = [x \in Callers |-> [pc |-> "idle", n |-> 0, answer |-> "none"]]
    /\ conn = 1 /\ up = TRUE /\ wire = {} /\ refused = {} /\ served = Sessions
    /\ epoch = 0 /\ notify = FALSE /\ ready = TRUE
    /\ replay = AtRest
    /\ faults = 0

-----------------------------------------------------------------------------
(* Callers: call_request and call_request_with_deadline.                    *)

\* The waiter is parked before the frame is sent.
Register(x) ==
    /\ call' = [call EXCEPT ![x] = [pc |-> "send", n |-> @.n + 1, answer |-> "none"]]
    /\ waiters' = waiters \cup {[by |-> x, n |-> call[x].n + 1]}

\* The call returns; WaiterGuard takes back what is still parked.
Return(x, answer) ==
    /\ call' = [call EXCEPT ![x].pc = "done", ![x].answer = answer]
    /\ waiters' = waiters \ {Frame(x)}

PlainCall(c) ==
    /\ call[c].pc = "idle" /\ Register(c)
    /\ UNCHANGED <<queues, writer, stopWriter, reader, stop, reconnect, hub, server, faults>>

\* send_outbound: at once or, for at most 250 ms, when there is room again.
Enqueue(x) ==
    /\ call[x].pc \in {"send", "full"} /\ open /\ Len(outbound) < OutboundBuffer
    /\ outbound' = Append(outbound, Frame(x))
    /\ call' = [call EXCEPT ![x].pc = "await"]
    /\ UNCHANGED <<open, ctl, writer, stopWriter, reader, stop, reconnect, waiters, hub, server, faults>>

FindsItFull(x) ==
    /\ call[x].pc = "send" /\ open /\ Len(outbound) = OutboundBuffer
    /\ call' = [call EXCEPT ![x].pc = "full"]
    /\ UNCHANGED <<queues, writer, stopWriter, reader, stop, reconnect, waiters, hub, server, faults>>

FindsItClosed(x) ==
    /\ call[x].pc \in {"send", "full"} /\ ~open
    /\ Return(x, "NetworkError")
    /\ UNCHANGED <<queues, writer, stopWriter, reader, stop, reconnect, hub, server, faults>>

StaysFull(x) ==
    /\ call[x].pc = "full" /\ open /\ Len(outbound) = OutboundBuffer
    /\ Fault /\ Return(x, "Backpressure")
    /\ UNCHANGED <<queues, writer, stopWriter, reader, stop, reconnect, hub, server>>

Answered(x) ==
    /\ call[x].pc = "await" /\ call[x].answer # "none"
    /\ Return(x, call[x].answer)
    /\ UNCHANGED <<queues, writer, stopWriter, reader, stop, reconnect, hub, server, faults>>

\* Only the serve attempts of the replay have a deadline here: the answer comes after it.
TimesOut(s) ==
    /\ call[s].pc = "await" /\ call[s].answer = "none"
    /\ Fault /\ Return(s, "TimedOut")
    /\ UNCHANGED <<queues, writer, stopWriter, reader, stop, reconnect, hub, server>>

\* request_shutdown, or the last handle is dropped.
RequestShutdown ==
    /\ ~stop /\ reader.pc \notin {"stopping", "joining", "exited"}
    /\ Fault /\ stop' = TRUE
    /\ UNCHANGED <<queues, writer, stopWriter, reader, reconnect, callers, hub, server>>

CallerStep ==
    \/ \E x \in Callers : Enqueue(x) \/ FindsItFull(x) \/ FindsItClosed(x) \/ Answered(x)

-----------------------------------------------------------------------------
(* The writer: run_writer.  Its select polls stop, control, ping and frames *)
(* one after the other, in this order; what comes in behind a poll is not   *)
(* seen before the next round.  The reader signals stop last, so that the   *)
(* first two polls may be one step.                                         *)

WriterStops ==
    /\ writer.pc = "select" /\ stopWriter
    /\ writer' = [writer EXCEPT !.pc = "stopped"]
    /\ open' = FALSE /\ outbound' = <<>>
    /\ UNCHANGED <<ctl, stopWriter, reader, stop, reconnect, callers, hub, server, faults>>

\* Mutant: the fresh sink is installed, and the writer stays paused.
WriterStaysPaused ==
    /\ writer.pc = "select" /\ ~stopWriter /\ ctl # <<>>
    /\ ctl' = Tail(ctl)
    /\ IF Head(ctl) = 0 THEN writer' = [writer EXCEPT !.live = FALSE]
                        ELSE writer' = [writer EXCEPT !.sink = Head(ctl)]
    /\ UNCHANGED <<outbound, open, stopWriter, reader, stop, reconnect, callers, hub, server, faults>>

WriterControl ==
    /\ writer.pc = "select" /\ ~stopWriter /\ ctl # <<>>
    /\ ctl' = Tail(ctl)
    /\ IF Head(ctl) = 0 THEN writer' = [writer EXCEPT !.live = FALSE]
                        ELSE writer' = [writer EXCEPT !.live = TRUE, !.sink = Head(ctl)]
    /\ UNCHANGED <<outbound, open, stopWriter, reader, stop, reconnect, callers, hub, server, faults>>

\* Neither a stop nor a control message; only a live writer has more to poll.
WriterPolls ==
    /\ writer.pc = "select" /\ ~stopWriter /\ ctl = <<>> /\ writer.live
    /\ writer' = [writer EXCEPT !.pc = "polled"]
    /\ UNCHANGED <<queues, stopWriter, reader, stop, reconnect, callers, hub, server, faults>>

\* A Pause may have come in behind the poll.
WriterTakes ==
    /\ writer.pc = "polled" /\ outbound # <<>>
    /\ IF ctl = <<>> THEN UNCHANGED faults ELSE Fault
    /\ outbound' = Tail(outbound)
    /\ writer' = [writer EXCEPT !.pc = "sending", !.frame = Head(outbound)]
    /\ UNCHANGED <<open, ctl, stopWriter, reader, stop, reconnect, callers, hub, server>>

\* A ping goes out first, or there is no frame and the writer parks until something comes in;
\* then it polls from the top.  (With no message waiting a ping only delays the frame.)
WriterPollsAgain ==
    /\ writer.pc = "polled" /\ (outbound = <<>> \/ ctl # <<>>)
    /\ writer' = [writer EXCEPT !.pc = "select"]
    /\ UNCHANGED <<queues, stopWriter, reader, stop, reconnect, callers, hub, server, faults>>

\* The hub handles a serve when it takes it.
WriterSends ==
    /\ writer.pc = "sending" /\ Carries(writer.sink)
    /\ writer' = [writer EXCEPT !.pc = "select", !.frame = Nothing]
    /\ wire' = wire \cup {writer.frame}
    /\ served' = served \cup ({writer.frame.by} \cap Sessions)
    /\ UNCHANGED <<queues, stopWriter, reader, stop, reconnect, callers, conn, up, refused, server, faults>>

\* It refuses a serve, or its result will not deserialize.  (How a plain call is answered no
\* property tells apart.)
HubRefuses ==
    /\ writer.pc = "sending" /\ Carries(writer.sink) /\ writer.frame.by \in Sessions
    /\ Fault
    /\ writer' = [writer EXCEPT !.pc = "select", !.frame = Nothing]
    /\ wire' = wire \cup {writer.frame} /\ refused' = refused \cup {writer.frame}
    /\ served' \in {served, served \cup {writer.frame.by}}
    /\ UNCHANGED <<queues, stopWriter, reader, stop, reconnect, callers, conn, up, server>>

\* A dead socket swallows the frame or refuses it; after an error the writer is not live.
WriterSendsInVain ==
    /\ writer.pc = "sending" /\ ~Carries(writer.sink)
    /\ \E fails \in BOOLEAN :
          writer' = [writer EXCEPT !.pc = "select", !.frame = Nothing,
                                   !.live = writer.live /\ ~fails]
    /\ UNCHANGED <<queues, stopWriter, reader, stop, reconnect, callers, hub, server, faults>>

PingFails ==
    /\ writer.pc = "polled" /\ ~Carries(writer.sink)
    /\ writer' = [writer EXCEPT !.pc = "select", !.live = FALSE]
    /\ UNCHANGED <<queues, stopWriter, reader, stop, reconnect, callers, hub, server, faults>>

WriterStep ==
    \/ WriterStops \/ WriterControl \/ WriterPolls \/ WriterTakes \/ WriterPollsAgain
    \/ WriterSends \/ WriterSendsInVain

-----------------------------------------------------------------------------
(* The reader: run_reader_phase.  Its select is biased: stop, forced        *)
(* reconnect, frames.                                                       *)

Reading == reader.pc = "connected" /\ ~stop /\ ~reconnect
Goto(label) == reader' = [reader EXCEPT !.pc = label]
DrainThen(error, next) ==
    reader' = [pc |-> "drain", error |-> error, next |-> next, keys |-> {}]

\* What follows the loop of run_reader_actor.
ExitDrain == DrainThen("NetworkError", "stopping")

ReadsStop ==
    /\ reader.pc = "connected" /\ stop
    /\ stop' = FALSE /\ ExitDrain
    /\ UNCHANGED <<queues, writer, stopWriter, reconnect, callers, hub, server, faults>>

ReadsForced ==
    /\ reader.pc = "connected" /\ ~stop /\ reconnect
    /\ reconnect' = FALSE
    /\ reader' = [reader EXCEPT !.pc = "lost", !.next = "backoff"]
    /\ UNCHANGED <<queues, writer, stopWriter, stop, callers, hub, server, faults>>

\* An answer arrives; Demux::route_response takes the waiter, or there is none any more.
RouteResponse(f) ==
    /\ Reading /\ f \in wire
    /\ wire' = wire \ {f} /\ refused' = refused \ {f}
    /\ waiters' = waiters \ {f}
    /\ call' = IF f \in waiters
               THEN [call EXCEPT ![f.by].answer = IF f \in refused THEN "Error" ELSE "Result"] ELSE call
    /\ UNCHANGED <<queues, writer, stopWriter, reader, stop, reconnect, conn, up, served, server, faults>>

\* End of stream, a read error, or no frame within the liveness deadline.
SocketClosed ==
    /\ Reading /\ ~up
    /\ reader' = [reader EXCEPT !.pc = "lost", !.next = "backoff"]
    /\ UNCHANGED <<queues, writer, stopWriter, stop, reconnect, callers, hub, server, faults>>

\* A close frame with a code that means: do not come back.
TerminalClose ==
    /\ Reading /\ up
    /\ Fault /\ up' = FALSE
    /\ reader' = [reader EXCEPT !.pc = "lost", !.next = "exit"]
    /\ UNCHANGED <<queues, writer, stopWriter, stop, reconnect, callers, conn, wire, refused, served, server>>

\* fire_on_disconnect: the epoch first, then the callback, which removes the marker.
BumpEpoch ==
    /\ reader.pc = "lost"
    /\ epoch' = epoch + 1 /\ Goto("disconnected")
    /\ UNCHANGED <<queues, writer, stopWriter, stop, reconnect, callers, hub, notify, replay, ready, faults>>

OnDisconnect ==
    /\ reader.pc = "disconnected"
    /\ ready' = FALSE
    /\ IF reader.next = "exit" THEN DrainThen("Closed", "exit") ELSE Goto("pausing")
    /\ UNCHANGED <<queues, writer, stopWriter, stop, reconnect, callers, hub, epoch, notify, replay, faults>>

\* Mutant: the calls are drained while the writer goes on.
PauseForgotten ==
    /\ reader.pc = "pausing" /\ DrainThen("NetworkError", "backoff")
    /\ UNCHANGED <<queues, writer, stopWriter, stop, reconnect, callers, hub, server, faults>>

PauseWriter ==
    /\ reader.pc = "pausing" /\ Len(ctl) < 2
    /\ ctl' = Append(ctl, 0) /\ DrainThen("NetworkError", "backoff")
    /\ UNCHANGED <<outbound, open, writer, stopWriter, stop, reconnect, callers, hub, server, faults>>

\* Demux::drain_waiters_with: the keys are collected, then taken one by one.
DrainKeys ==
    /\ reader.pc = "drain"
    /\ reader' = [reader EXCEPT !.pc = "draining", !.keys = waiters]
    /\ UNCHANGED <<queues, writer, stopWriter, stop, reconnect, callers, hub, server, faults>>

DrainOne(f) ==
    /\ reader.pc = "draining" /\ f \in reader.keys
    /\ reader' = [reader EXCEPT !.keys = @ \ {f}]
    /\ waiters' = waiters \ {f}
    /\ call' = IF f \in waiters THEN [call EXCEPT ![f.by].answer = reader.error] ELSE call
    /\ UNCHANGED <<queues, writer, stopWriter, stop, reconnect, hub, server, faults>>

Drained ==
    /\ reader.pc = "draining" /\ reader.keys = {}
    /\ IF reader.next = "exit" THEN ExitDrain ELSE Goto(reader.next)
    /\ UNCHANGED <<queues, writer, stopWriter, stop, reconnect, callers, hub, server, faults>>

\* The backoff, and the attempt behind it, end early on a stop.
StopsReconnecting ==
    /\ reader.pc = "backoff" /\ stop
    /\ stop' = FALSE /\ ExitDrain
    /\ UNCHANGED <<queues, writer, stopWriter, reconnect, callers, hub, server, faults>>

\* reconnect_and_replay: connect, handshake, on_reconnect; then drain_reconnect_signals, with no
\* await between: no deadline that starts behind the callback runs out before it.
Reconnected ==
    /\ reader.pc = "backoff"
    /\ conn' = conn + 1 /\ up' = TRUE /\ wire' = {} /\ refused' = {} /\ served' = {}
    /\ notify' = TRUE /\ reconnect' = FALSE /\ Goto("resuming")
    /\ UNCHANGED <<queues, writer, stopWriter, stop, callers, epoch, replay, ready, faults>>

ReconnectFails ==
    /\ reader.pc = "backoff" /\ Fault /\ Goto("backoff")
    /\ UNCHANGED <<queues, writer, stopWriter, stop, reconnect, callers, hub, server>>

ReconnectRejected ==
    /\ reader.pc = "backoff" /\ Fault /\ DrainThen("AuthError", "exit")
    /\ UNCHANGED <<queues, writer, stopWriter, stop, reconnect, callers, hub, server>>

\* The fresh sink for the writer.
ResumeWriter ==
    /\ reader.pc = "resuming" /\ Len(ctl) < 2
    /\ ctl' = Append(ctl, conn) /\ Goto("connected")
    /\ UNCHANGED <<outbound, open, writer, stopWriter, stop, reconnect, callers, hub, server, faults>>

StopWriter ==
    /\ reader.pc = "stopping"
    /\ stopWriter' = TRUE /\ Goto("joining")
    /\ UNCHANGED <<queues, writer, stop, reconnect, callers, hub, server, faults>>

Exited ==
    /\ reader.pc = "joining" /\ writer.pc = "stopped" /\ Goto("exited")
    /\ UNCHANGED <<queues, writer, stopWriter, stop, reconnect, callers, hub, server, faults>>

ReaderStep ==
    \/ ReadsStop \/ ReadsForced \/ SocketClosed \/ \E f \in wire : RouteResponse(f)
    \/ BumpEpoch \/ OnDisconnect \/ PauseWriter
    \/ DrainKeys \/ Drained \/ \E f \in reader.keys : DrainOne(f)
    \/ StopsReconnecting \/ Reconnected \/ ResumeWriter
    \/ StopWriter \/ Exited

-----------------------------------------------------------------------------
(* The replay task: ToolServer::run and HubConnection::serve.               *)

ReplayWakes ==
    /\ replay.pc = "waiting" /\ notify
    /\ notify' = FALSE /\ replay' = [replay EXCEPT !.pc = "woken"]
    /\ UNCHANGED <<queues, writer, stopWriter, reader, stop, reconnect, callers, hub, epoch, ready, faults>>

ReplayStarts ==
    /\ replay.pc = "woken"
    /\ replay' = [AtRest EXCEPT !.pc = "replaying", !.since = epoch, !.todo = Sessions]
    /\ UNCHANGED <<queues, writer, stopWriter, reader, stop, reconnect, callers, hub, epoch, notify, ready, faults>>

ServeSession(s) ==
    /\ replay.pc = "replaying" /\ s \in replay.todo
    /\ Register(s)
    /\ replay' = [replay EXCEPT !.pc = "called", !.session = s, !.attempt = 1]
    /\ UNCHANGED <<queues, writer, stopWriter, reader, stop, reconnect, hub, epoch, notify, ready, faults>>

\* An attempt has come back, with this answer.
ServeReturned(answers) ==
    /\ replay.pc = "called"
    /\ call[replay.session].pc = "done" /\ call[replay.session].answer \in answers

NextSession(ok) ==
    replay' = [replay EXCEPT !.pc = "replaying", !.todo = @ \ {replay.session}, !.all = @ /\ ok,
                             !.session = Nothing, !.attempt = 0]

\* Mutant: one attempt too many.
ServeOnceMore ==
    /\ ServeReturned({"TimedOut"}) /\ replay.attempt <= ServeMaxAttempts
    /\ Register(replay.session)
    /\ replay' = [replay EXCEPT !.attempt = @ + 1]
    /\ UNCHANGED <<queues, writer, stopWriter, reader, stop, reconnect, hub, epoch, notify, ready, faults>>

ServeAgain ==
    /\ ServeReturned({"TimedOut"}) /\ replay.attempt < ServeMaxAttempts
    /\ Register(replay.session)
    /\ replay' = [replay EXCEPT !.attempt = @ + 1]
    /\ UNCHANGED <<queues, writer, stopWriter, reader, stop, reconnect, hub, epoch, notify, ready, faults>>

\* Mutant: no forced reconnect.
ServeLeavesIt ==
    /\ ServeReturned({"TimedOut"}) /\ replay.attempt = ServeMaxAttempts
    /\ NextSession(FALSE)
    /\ UNCHANGED <<queues, writer, stopWriter, reader, stop, reconnect, callers, hub, epoch, notify, ready, faults>>

\* Every attempt timed out: force_reconnect, which starts the replay over.
ServeGivesUp ==
    /\ ServeReturned({"TimedOut"}) /\ replay.attempt = ServeMaxAttempts
    /\ reconnect' = TRUE /\ NextSession(FALSE)
    /\ UNCHANGED <<queues, writer, stopWriter, reader, stop, callers, hub, epoch, notify, ready, faults>>

\* Served, or any other error: that is not tried again.
ServeEnds ==
    /\ ServeReturned({"Result"} \cup (Errors \ {"TimedOut"}))
    /\ NextSession(call[replay.session].answer = "Result")
    /\ UNCHANGED <<queues, writer, stopWriter, reader, stop, reconnect, callers, hub, epoch, notify, ready, faults>>

\* Mutant: only the serves count.
ReplayTrusts ==
    /\ replay.pc = "replaying" /\ replay.todo = {}
    /\ replay' = IF replay.all THEN [replay EXCEPT !.pc = "settling", !.checked = epoch] ELSE AtRest
    /\ UNCHANGED <<queues, writer, stopWriter, reader, stop, reconnect, callers, hub, epoch, notify, ready, faults>>

\* The marker is set only when every session was served and no disconnect raced the replay ...
ReplayChecks ==
    /\ replay.pc = "replaying" /\ replay.todo = {}
    /\ replay' = IF replay.all /\ replay.since = epoch
                 THEN [replay EXCEPT !.pc = "settling", !.checked = epoch] ELSE AtRest
    /\ UNCHANGED <<queues, writer, stopWriter, reader, stop, reconnect, callers, hub, epoch, notify, ready, faults>>

\* ... and then it is set.
Settles ==
    /\ replay.pc = "settling"
    /\ ready' = TRUE /\ replay' = AtRest
    /\ UNCHANGED <<queues, writer, stopWriter, reader, stop, reconnect, callers, hub, epoch, notify, faults>>

\* run() returns when the connection is gone and aborts the task, whatever it does.
ReplayAborted ==
    /\ reader.pc = "exited" /\ replay.pc # "aborted"
    /\ replay' = [AtRest EXCEPT !.pc = "aborted"]
    /\ IF replay.pc = "called" THEN Return(replay.session, call[replay.session].answer)
                               ELSE UNCHANGED callers
    /\ UNCHANGED <<queues, writer, stopWriter, reader, stop, reconnect, hub, epoch, notify, ready, faults>>

ReplayStep ==
    \/ ReplayWakes \/ ReplayStarts \/ \E s \in Sessions : ServeSession(s)
    \/ ServeAgain \/ ServeGivesUp \/ ServeEnds \/ ReplayChecks \/ Settles \/ ReplayAborted

-----------------------------------------------------------------------------

(* What becomes of a call that waits. *)

Waiting(x) == call[x].pc = "await" /\ call[x].answer = "none"
Live == reader.pc \in {"connected", "resuming"}

\* The exit drain has collected its keys: nobody drains again.
Leaving == reader.next = "stopping" /\ reader.pc # "drain"

DrainDue(f) ==
    \/ Live /\ ~up
    \/ reader.pc \in {"lost", "disconnected", "pausing", "drain"}
    \/ reader.pc = "draining" /\ (f \in reader.keys \/ reader.next = "exit")

Queued(f) == \E i \in DOMAIN outbound : outbound[i] = f

Sending(f) == writer.pc = "sending" /\ writer.frame = f /\ Carries(writer.sink)

OnItsWay(f) == Queued(f) \/ (Live /\ (f \in wire \/ Sending(f)))

\* A call that nothing on its way will answer and no drain that is due will fail.
Stranded(x) ==
    /\ Waiting(x) /\ ~Leaving
    /\ ~(OnItsWay(Frame(x)) \/ DrainDue(Frame(x)))

\* The deadline of a serve that nobody will answer.
DeadlineEnds(s) ==
    /\ Stranded(s) /\ Return(s, "TimedOut")
    /\ UNCHANGED <<queues, writer, stopWriter, reader, stop, reconnect, hub, server, faults>>

-----------------------------------------------------------------------------

SocketDies ==
    /\ up /\ Fault /\ up' = FALSE
    /\ UNCHANGED <<queues, writer, stopWriter, reader, stop, reconnect, callers, conn, wire, refused, served, server>>

Next ==
    \/ CallerStep \/ WriterStep \/ ReaderStep \/ ReplayStep
    \/ \E c \in Calls : PlainCall(c)
    \/ \E x \in Callers : StaysFull(x)
    \/ \E s \in Sessions : TimesOut(s) \/ DeadlineEnds(s)
    \/ RequestShutdown \/ PingFails \/ HubRefuses \/ TerminalClose
    \/ ReconnectFails \/ ReconnectRejected \/ SocketDies

Spec == Init /\ [][Next]_vars

(***************************************************************************)
(* The runtime schedules the tasks, sends come to an end, a dead socket is  *)
(* noticed (the liveness deadline), connecting works in the end, and a hub  *)
(* that stays up answers what it took.                                      *)
(***************************************************************************)
FairSpec ==
    /\ Spec
    /\ WF_vars(WriterStep) /\ WF_vars(ReaderStep) /\ WF_vars(ReplayStep)
    /\ \A x \in Callers : WF_vars(Enqueue(x) \/ FindsItFull(x) \/ FindsItClosed(x) \/ Answered(x))
    /\ \A s \in Sessions : WF_vars(DeadlineEnds(s))

-----------------------------------------------------------------------------
(* Properties. *)

TypeOK ==
    /\ outbound \in Seq(Frames) /\ Len(outbound) <= OutboundBuffer /\ open \in BOOLEAN
    /\ ctl \in Seq(0..conn) /\ Len(ctl) <= 2
    /\ writer.pc \in {"select", "polled", "sending", "stopped"} /\ writer.frame \in Frames \cup {Nothing}
    /\ writer.live \in BOOLEAN /\ writer.sink \in 1..conn
    /\ reader.pc \in {"connected", "lost", "disconnected", "pausing", "drain", "draining", "backoff",
                      "resuming", "stopping", "joining", "exited"}
    /\ reader.next \in {"backoff", "exit", "stopping"} /\ reader.error \in Errors
    /\ reader.keys \cup waiters \cup wire \subseteq Frames /\ refused \subseteq wire
    /\ {stopWriter, stop, reconnect, up, notify, ready} \subseteq BOOLEAN
    /\ call \in [Callers -> [pc : {"idle", "send", "full", "await", "done"}, n : Nat,
                             answer : {"none", "Result"} \cup Errors]]
    /\ conn \in Nat \ {0} /\ served \subseteq Sessions /\ epoch \in Nat /\ faults \in 0..MaxFaults
    /\ replay.pc \in {"waiting", "woken", "replaying", "called", "settling", "aborted"}
    /\ replay.todo \subseteq Sessions /\ replay.since <= epoch
    /\ (replay.pc = "called") <=> (replay.session \in replay.todo)
    /\ replay.attempt \in 0..ServeMaxAttempts

(***************************************************************************)
(* A call that still waits has its waiter parked, for the answer or the     *)
(* next drain to find. Of the calls that wait, each has its frame in the    *)
(* queue, or where the hub will answer it, or a drain that will fail the    *)
(* call is due, except for one: a writer that polled control before the     *)
(* Pause may still take one frame, enqueued after the drain, into the dead  *)
(* socket, and never a second one. (The exit of the actor is left out: a    *)
(* call sent between its last drain and the end of the writer.)             *)
(***************************************************************************)
OneStranded ==
    /\ \A x \in Callers : Waiting(x) => Frame(x) \in waiters
    /\ \A x, y \in Callers : Stranded(x) /\ Stranded(y) => x = y

(***************************************************************************)
(* When the replay has passed its check, the hub has every session on the   *)
(* present connection, unless the connection was lost after the check: it   *)
(* never counts a serve that an earlier connection answered.                *)
(***************************************************************************)
SettledAreServed ==
    replay.pc = "settling" /\ replay.checked = epoch => served = Sessions

(***************************************************************************)
(* A plain call, which has no deadline, ends, whatever happens to sockets   *)
(* and reconnects, as long as the actor lives; if it does not, it is the    *)
(* stranded one, and the socket never dies again.                           *)
(***************************************************************************)
CallEnds ==
    \A c \in Calls :
        call[c].pc = "await" ~> (call[c].pc = "done" \/ reader.pc = "exited" \/ [](Stranded(c) /\ up))

(***************************************************************************)
(* After a disconnect the marker comes back: a replay that a disconnect     *)
(* raced, or whose attempts all timed out, is started over. A serve that    *)
(* found the queue full for 250 ms, or that the hub answered with an error  *)
(* or with something unreadable, is not: until another socket is lost the   *)
(* marker stays away.                                                       *)
(***************************************************************************)
ReadyAgain ==
    []<>(ready \/ reader.pc = "exited" \/ \E s \in Sessions : call[s].answer \in {"Backpressure", "Error"})

\* Stated by the docs of WriterControl and run_writer (connection.rs:1027-1028, 1039-1041): no frame
\* is dequeued onto the corpse; what is enqueued during the reconnect gap, so by a call that the
\* drain did not find, stays in the queue until the writer is resumed.
GapFramesStay ==
    [][reader.pc = "backoff" => \A f \in waiters : Queued(f) => Queued(f)']_vars

\* A call is stranded by one step only: the writer takes its frame with the Pause unread.
StrandedByLateTake ==
    [][\A x \in Callers : Stranded(x)' =>
         Stranded(x) \/ (writer.pc = "polled" /\ ctl # <<>> /\ writer'.frame = Frame(x))]_vars

\* Stated by the comment on disconnect_epoch (server.rs:638-641): a disconnect racing the replay
\* cannot resurrect a stale ready marker while the socket is already down.
NoStaleReady == ready => reader.pc \notin {"pausing", "backoff"}
=============================================================================
