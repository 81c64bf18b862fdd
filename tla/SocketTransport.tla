---------------------------- MODULE SocketTransport ----------------------------
(***************************************************************************)
(* The TCP transport of src/ipc/socket_channel.cpp: socket_producer with   *)
(* its frames, failures and reconnects, socket_consumer with its listener, *)
(* its polls and its interruptible wait, and runtime::run() and stop()     *)
(* over the consumer interface.                                            *)
(*                                                                         *)
(* A frame is sent in FrameUnits pieces, the points at which a write can   *)
(* be cut short: the length prefix and the payload of a varlen message, or *)
(* two parts of a fixed item.  Piece k of message m is <<m, k>>.  TCP is   *)
(* external: a connection is a FIFO of pieces with two ends that close.    *)
(***************************************************************************)
EXTENDS Integers, Sequences, FiniteSets

CONSTANTS
  FrameUnits,   \* pieces per frame
  SockBuf,      \* pieces the kernel buffers on a connection
  MaxMsgs, MaxConns, MaxStops,   \* bounds: sends, connections, calls of stop()
  MaxFaults     \* bound: failed writes and reads, producer deaths, handler exceptions

ASSUME SocketAssumption ==
  /\ FrameUnits \in Nat \ {0} /\ SockBuf \in Nat \ {0}
  /\ MaxMsgs \in Nat /\ MaxConns \in Nat /\ MaxStops \in Nat /\ MaxFaults \in Nat

VARIABLES
  stream,              \* pieces in flight on each connection
  pend, cend,          \* whether the producer's and the consumer's end are open
  backlog,             \* connections not yet accepted
  nconn, psock, csock, \* connections made, sock_ of either side (0: none)
  ppc, cur, unit,      \* the producer: state, message being sent, next piece
  nmsgs, sent,         \* messages begun, messages whose send returned
  cpc, got,            \* the consumer loop: state, pieces of the frame being read
  delivered,           \* messages the handler was called with
  running, wake, spc, stops,   \* running_, a byte in the wake pair, the stopping thread
  faults

net == <<stream, pend, cend, backlog>>
prod == <<nconn, psock, ppc, cur, unit, nmsgs, sent>>
cons == <<csock, cpc, got, delivered>>
stopper == <<spc, stops>>
vars == <<net, prod, cons, stopper, running, wake, faults>>

Conns == 1 .. MaxConns

Init ==
  /\ stream = [c \in Conns |-> << >>] /\ backlog = << >>
  /\ pend = [c \in Conns |-> FALSE] /\ cend = [c \in Conns |-> FALSE]
  /\ nconn = 0 /\ psock = 0 /\ csock = 0
  /\ ppc = "idle" /\ cur = 0 /\ unit = 1 /\ nmsgs = 0 /\ sent = << >>
  /\ cpc = "idle" /\ got = << >> /\ delivered = << >>
  /\ running = FALSE /\ wake = FALSE /\ spc = "idle" /\ stops = 0
  /\ faults = 0

Fault == faults < MaxFaults /\ faults' = faults + 1

\* socket_producer::close_sock: the peer sees the end of the stream after what is in flight.
CloseProducer ==
  /\ pend' = [c \in Conns |-> pend[c] /\ c # psock]
  /\ psock' = 0

\* socket_consumer::close_sock: what is in flight on the connection is lost.
CloseConsumer ==
  /\ cend' = [cend EXCEPT ![csock] = FALSE]
  /\ stream' = [stream EXCEPT ![csock] = << >>]
  /\ csock' = 0

-----------------------------------------------------------------------------
(* socket_producer.                                                        *)

\* Constructor, reconnect() and try_reconnect(): drop the old connection, then try.
Reconnect ==
  /\ ppc = "idle"
  /\ nconn < MaxConns
  /\ CloseProducer
  /\ ppc' = "connect"
  /\ UNCHANGED <<stream, cend, backlog, nconn, cur, unit, nmsgs, sent, cons, stopper, running, wake, faults>>

\* connect_with_retries gets a connection, which waits in the listener's backlog.
Connected ==
  /\ ppc = "connect"
  /\ nconn' = nconn + 1
  /\ psock' = nconn'
  /\ pend' = [pend EXCEPT ![nconn'] = TRUE]
  /\ cend' = [cend EXCEPT ![nconn'] = TRUE]
  /\ backlog' = Append(backlog, nconn')
  /\ ppc' = "idle"
  /\ UNCHANGED <<stream, cur, unit, nmsgs, sent, cons, stopper, running, wake, faults>>

\* connect_with_retries runs out of attempts.
ConnectFails ==
  /\ ppc = "connect"
  /\ ppc' = "idle"
  /\ UNCHANGED <<net, nconn, psock, cur, unit, nmsgs, sent, cons, stopper, running, wake, faults>>

\* send_fixed_bytes, send_fixed_sized or send_varlen, past their argument checks.
Send ==
  /\ ppc = "idle"
  /\ nmsgs < MaxMsgs
  /\ nmsgs' = nmsgs + 1
  /\ cur' = nmsgs'
  /\ unit' = 1
  /\ ppc' = "write"
  /\ UNCHANGED <<net, nconn, psock, sent, cons, stopper, running, wake, faults>>

\* write_full_sock moves on by one piece; a connection the consumer has closed may
\* still take it, and drops it.
WriteUnit ==
  /\ ppc = "write"
  /\ psock # 0
  /\ \/ cend[psock] /\ Len(stream[psock]) < SockBuf
        /\ stream' = [stream EXCEPT ![psock] = Append(@, <<cur, unit>>)]
     \/ ~cend[psock] /\ UNCHANGED stream
  /\ unit' = unit + 1
  /\ IF unit = FrameUnits THEN ppc' = "idle" /\ sent' = Append(sent, cur)
                          ELSE UNCHANGED <<ppc, sent>>
  /\ UNCHANGED <<pend, cend, backlog, nconn, psock, cur, nmsgs, cons, stopper, running, wake, faults>>

\* Fault: write_full throws and keeps the connection.
WriteFailsKeepsSocket ==
  /\ ppc = "write"
  /\ \/ psock = 0 /\ UNCHANGED faults
     \/ psock # 0 /\ ~cend[psock] /\ UNCHANGED faults
     \/ psock # 0 /\ cend[psock] /\ Fault
  /\ ppc' = "idle"
  /\ UNCHANGED <<net, nconn, psock, cur, unit, nmsgs, sent, cons, stopper, running, wake>>

\* write_full throws: no connection, the consumer closed it, or the network failed.
\* Whatever part of the frame was written, the connection is given up.
WriteFails ==
  /\ ppc = "write"
  /\ \/ psock = 0 /\ UNCHANGED faults
     \/ psock # 0 /\ ~cend[psock] /\ UNCHANGED faults
     \/ psock # 0 /\ cend[psock] /\ Fault
  /\ CloseProducer
  /\ ppc' = "idle"
  /\ UNCHANGED <<stream, cend, backlog, nconn, cur, unit, nmsgs, sent, cons, stopper, running, wake>>

\* The producer's process ends, inside a send or not; another may take its place.
ProducerDies ==
  /\ psock # 0
  /\ Fault
  /\ CloseProducer
  /\ ppc' = "idle"
  /\ UNCHANGED <<stream, cend, backlog, nconn, cur, unit, nmsgs, sent, cons, stopper, running, wake>>

-----------------------------------------------------------------------------
(* run() over a socket_consumer.                                           *)

others == <<prod, stopper, faults>>

RunStart ==
  /\ cpc = "idle"
  /\ running' = TRUE
  /\ cpc' = "loop"
  /\ UNCHANGED <<net, others, csock, got, delivered, wake>>

LoopTest ==
  /\ cpc = "loop"
  /\ cpc' = IF running THEN "poll" ELSE "returned"
  /\ UNCHANGED <<net, others, csock, got, delivered, running, wake>>

\* Fault: a waiting connection replaces the current one.
PollAcceptReplaces ==
  /\ cpc = "poll"
  /\ \/ /\ backlog # << >>
        /\ csock' = Head(backlog) /\ backlog' = Tail(backlog) /\ cpc' = "select"
        /\ cend' = [c \in Conns |-> cend[c] /\ c # csock]
     \/ backlog = << >> /\ csock # 0 /\ cpc' = "select" /\ UNCHANGED <<csock, backlog, cend>>
     \/ csock = 0 /\ backlog = << >> /\ cpc' = "check" /\ UNCHANGED <<csock, backlog, cend>>
  /\ UNCHANGED <<stream, pend, others, got, delivered, running, wake>>

\* Fault: of the waiting connections the newest is accepted first.
PollAcceptNewest ==
  /\ cpc = "poll"
  /\ \/ csock # 0 /\ cpc' = "select" /\ UNCHANGED <<csock, backlog>>
     \/ /\ csock = 0 /\ backlog # << >>
        /\ csock' = backlog[Len(backlog)] /\ cpc' = "select"
        /\ backlog' = SubSeq(backlog, 1, Len(backlog) - 1)
     \/ csock = 0 /\ backlog = << >> /\ cpc' = "check" /\ UNCHANGED <<csock, backlog>>
  /\ UNCHANGED <<stream, pend, cend, others, got, delivered, running, wake>>

\* ensure_peer_connected: keep the connection there is, or accept one.
PollAccept ==
  /\ cpc = "poll"
  /\ \/ csock # 0 /\ cpc' = "select" /\ UNCHANGED <<csock, backlog>>
     \/ /\ csock = 0 /\ backlog # << >>
        /\ csock' = Head(backlog) /\ backlog' = Tail(backlog) /\ cpc' = "select"
     \/ csock = 0 /\ backlog = << >> /\ cpc' = "check" /\ UNCHANGED <<csock, backlog>>
  /\ UNCHANGED <<stream, pend, cend, others, got, delivered, running, wake>>

Readable(c) == stream[c] # << >> \/ ~pend[c]

Select ==
  /\ cpc = "select"
  /\ cpc' = IF Readable(csock) THEN "read" ELSE "check"
  /\ got' = << >>
  /\ UNCHANGED <<net, others, csock, delivered, running, wake>>

\* read_exact_sock blocks for the next piece of the frame.
Read ==
  /\ cpc = "read"
  /\ stream[csock] # << >>
  /\ got' = Append(got, Head(stream[csock]))
  /\ stream' = [stream EXCEPT ![csock] = Tail(@)]
  /\ cpc' = IF Len(got') = FrameUnits THEN "handle" ELSE "read"
  /\ UNCHANGED <<pend, cend, backlog, others, csock, delivered, running, wake>>

\* The end of the stream, between frames or inside one: poll() returns false.
ReadEnds ==
  /\ cpc = "read"
  /\ stream[csock] = << >>
  /\ ~pend[csock]
  /\ CloseConsumer
  /\ cpc' = "check"
  /\ UNCHANGED <<pend, backlog, others, got, delivered, running, wake>>

\* recv fails with whatever is in flight: the connection is given up just the same.
ReadFails ==
  /\ cpc = "read"
  /\ Fault
  /\ CloseConsumer
  /\ cpc' = "check"
  /\ UNCHANGED <<pend, backlog, prod, stopper, got, delivered, running, wake>>

Message == got[1][1]

Handle ==
  /\ cpc = "handle"
  /\ delivered' = Append(delivered, Message)
  /\ cpc' = "loop"
  /\ UNCHANGED <<net, others, csock, got, running, wake>>

\* A std::runtime_error of the handler is taken for a lost peer.
HandlerRuntimeError ==
  /\ cpc = "handle"
  /\ Fault
  /\ delivered' = Append(delivered, Message)
  /\ CloseConsumer
  /\ cpc' = "check"
  /\ UNCHANGED <<pend, backlog, prod, stopper, got, running, wake>>

\* Any other exception leaves poll() and run().
HandlerThrows ==
  /\ cpc = "handle"
  /\ Fault
  /\ delivered' = Append(delivered, Message)
  /\ cpc' = "threw"
  /\ UNCHANGED <<net, prod, stopper, csock, got, running, wake>>

\* wait_for_data tests running_ before it waits.
Check ==
  /\ cpc = "check"
  /\ cpc' = IF running THEN "wait" ELSE "loop"
  /\ UNCHANGED <<net, others, csock, got, delivered, running, wake>>

\* Fault: the interrupt is only seen on a connection that has data.
WaitIgnoresWake ==
  /\ cpc = "wait"
  /\ IF csock # 0 THEN Readable(csock) ELSE backlog # << >>
  /\ wake' = FALSE
  /\ cpc' = "loop"
  /\ UNCHANGED <<net, others, csock, got, delivered, running>>

\* socket_consumer::wait: select on the wake pair and the connection, or the
\* listener when there is none; a wake byte is drained.
Wait ==
  /\ cpc = "wait"
  /\ wake \/ (IF csock # 0 THEN Readable(csock) ELSE backlog # << >>)
  /\ wake' = FALSE
  /\ cpc' = "loop"
  /\ UNCHANGED <<net, others, csock, got, delivered, running>>

-----------------------------------------------------------------------------
(* stop(), and the specification.                                          *)

Stop ==
  /\ spc = "idle"
  /\ stops < MaxStops
  /\ stops' = stops + 1
  /\ running' = FALSE
  /\ spc' = "interrupt"
  /\ UNCHANGED <<net, prod, cons, wake, faults>>

\* interrupt_wait leaves a byte in the wake pair.
InterruptWait ==
  /\ spc = "interrupt"
  /\ wake' = TRUE
  /\ spc' = "idle"
  /\ UNCHANGED <<net, prod, cons, stops, running, faults>>

Producing == Connected \/ ConnectFails \/ WriteUnit \/ WriteFails
Looping ==
  \/ LoopTest \/ PollAccept \/ Select \/ Read \/ ReadEnds \/ Handle
  \/ HandlerRuntimeError \/ HandlerThrows \/ Check \/ Wait

Next ==
  \/ Reconnect \/ Send \/ Producing \/ ProducerDies
  \/ RunStart \/ Looping \/ ReadFails
  \/ Stop \/ InterruptWait

Spec == Init /\ [][Next]_vars

\* Threads inside a call go on; nobody is obliged to call anything.
FairSpec == Spec /\ WF_vars(Producing) /\ WF_vars(Looping) /\ WF_vars(InterruptWait)

-----------------------------------------------------------------------------
(* Properties.                                                             *)

LoopPcs == {"loop", "poll", "select", "read", "handle", "check", "wait"}

\* Frames never run into each other: the pieces read as one frame are those of one
\* message in order, whatever writes were cut short before it.
FramesWhole == \A k \in 1 .. Len(got) : got[k] = <<got[1][1], k>>

\* Where the consumer has got to in the accepted messages.
Cursor ==
  IF delivered = << >> THEN 0
  ELSE CHOOSE i \in 1 .. Len(sent) : sent[i] = delivered[Len(delivered)]

Contract == INSTANCE DeliveryContract WITH
  Messages <- 1 .. MaxMsgs, MayRepeat <- FALSE, MayLose <- TRUE,
  accepted <- sent, cursor <- Cursor, handed <- delivered

\* The transport delivers in order, never twice, and nothing that was not sent: the
\* order holds across reconnects and lost connections.
ImplementsContract == Contract!CSpec

\* Without a failure every message whose send returned reaches the handler while
\* the loop runs, also across reconnects: the old connection is read to its end.
EveryMessageHandled ==
  \A m \in 1 .. MaxMsgs :
    (\E i \in 1 .. Len(sent) : sent[i] = m) /\ cpc \in LoopPcs
      ~> (\/ \E i \in 1 .. Len(delivered) : delivered[i] = m
          \/ faults > 0 \/ ~running)

\* stop() ends the loop, however it falls between poll and wait, when the producer
\* completes the frames it has begun or closes.
StopEndsRun == (cpc \in LoopPcs /\ ~running) ~> (cpc \in {"returned", "threw"})
================================================================================
