---------------------------- MODULE ZmqPublisher ----------------------------
(***************************************************************************)
(* The publishing half of the ZeroMQ adapter (zmq/write.rs) and the etcd   *)
(* registry that names it (zmq/registry.rs).  The node keeps its messages  *)
(* back until a subscriber is believed to listen; the registry keeps its   *)
(* address under a lease that a thread renews.  Messages are numbered; 0   *)
(* is the end of the stream.                                               *)
(*                                                                         *)
(* ZeroMQ, etcd and the clock are external: a PUB socket drops what is     *)
(* sent before the subscription has arrived, which takes less than        *)
(* Propagation from the accept; a lease that is not renewed expires.       *)
(***************************************************************************)
EXTENDS Integers, Sequences

CONSTANTS
  Propagation,    \* the 50 ms the node waits after an accept
  BufferTimeout,  \* BUFFER_TIMEOUT
  LeaseTtl,       \* LEASE_TTL_SECS
  MaxZmqClock,    \* bound: the clock
  MaxMessages     \* bound: values of the upstream

ASSUME ZmqAssumption ==
  /\ {Propagation, BufferTimeout, LeaseTtl} \subseteq Nat \ {0}
  /\ {MaxZmqClock, MaxMessages} \subseteq Nat

None == -1

VARIABLES
  zmq,        \* ZeroMqSenderNode; due is the oldest message it held at the accept
  peer,       \* the subscriber: when it was accepted, and what it has been given
  registry,   \* the etcd key, its lease, and the keepalive thread
  zmqClock

zmqVars == <<zmq, peer, registry, zmqClock>>

ZmqInit ==
  /\ \E realtime, named \in BOOLEAN :
       zmq = [pc |-> "start", realtime |-> realtime, named |-> named, cycles |-> 0,
              connected |-> FALSE, acceptedAt |-> None, buffer |-> <<>>, bufferStart |-> None,
              due |-> 0]
  /\ peer = [at |-> None, subscribed |-> FALSE, event |-> FALSE, got |-> <<>>]
  /\ registry = [key |-> FALSE, expires |-> 0, thread |-> "none", shutdown |-> FALSE]
  /\ zmqClock = 0

-----------------------------------------------------------------------------
(* The environment *)

\* Time passes, but not past the moment a pending subscription has arrived.
ZmqTick ==
  /\ zmqClock < MaxZmqClock
  /\ peer.at # None /\ ~peer.subscribed => zmqClock + 1 < peer.at + Propagation
  /\ zmqClock' = zmqClock + 1
  /\ UNCHANGED <<zmq, peer, registry>>

\* A subscriber connects to the bound socket: the monitor gets an event.
Accepted ==
  /\ zmq.pc \in {"register", "running"} /\ peer.at = None
  /\ peer' = [peer EXCEPT !.at = zmqClock, !.event = TRUE]
  /\ UNCHANGED <<zmq, registry, zmqClock>>

FilterArrives ==
  /\ peer.at # None /\ ~peer.subscribed
  /\ peer' = [peer EXCEPT !.subscribed = TRUE]
  /\ UNCHANGED <<zmq, registry, zmqClock>>

\* etcd forgets a lease that was not renewed, and the key under it.
NameExpires ==
  /\ registry.key /\ zmqClock >= registry.expires
  /\ registry' = [registry EXCEPT !.key = FALSE]
  /\ UNCHANGED <<zmq, peer, zmqClock>>

-----------------------------------------------------------------------------
(* The registry *)

\* etcd_register: connect, grant, put, each of which may fail; then the thread.
Register ==
  /\ zmq.pc = "register"
  /\ \/ /\ zmq' = [zmq EXCEPT !.pc = "running"]
        /\ registry' = IF zmq.named
             THEN [registry EXCEPT !.key = TRUE, !.expires = zmqClock + LeaseTtl, !.thread = "alive"]
             ELSE registry
     \/ zmq.named /\ zmq' = [zmq EXCEPT !.pc = "failed"] /\ UNCHANGED registry
  /\ UNCHANGED <<peer, zmqClock>>

\* The thread renews the lease every KEEPALIVE_INTERVAL_SECS; an error or a
\* lease that is gone ends it, and nobody is told.
KeepAlive ==
  /\ registry.thread = "alive"
  /\ \/ registry.key /\ registry' = [registry EXCEPT !.expires = zmqClock + LeaseTtl]
     \/ registry' = [registry EXCEPT !.thread = "ended"]
  /\ UNCHANGED <<zmq, peer, zmqClock>>

\* revoke(): the thread has been joined; a failing revocation is only logged.
RevokeLease ==
  /\ zmq.pc = "revoke" /\ registry.thread \in {"none", "ended"}
  /\ \/ zmq' = [zmq EXCEPT !.pc = "end"] /\ registry' = [registry EXCEPT !.key = FALSE]
     \/ zmq' = [zmq EXCEPT !.pc = "endLogged"] /\ UNCHANGED registry
  /\ UNCHANGED <<peer, zmqClock>>

-----------------------------------------------------------------------------
(* The node *)

\* start(): real time only; the monitor and the socket, then the registry.
SenderStart ==
  /\ zmq.pc = "start"
  /\ \E bound \in BOOLEAN :
       zmq' = [zmq EXCEPT !.pc = IF zmq.realtime /\ bound THEN "register" ELSE "failed"]
  /\ UNCHANGED <<peer, registry, zmqClock>>

\* check_monitor: every waiting event is read; an accept is noted with the time.
CheckMonitor(z) ==
  IF ~z.connected /\ peer.event
  THEN [z EXCEPT !.acceptedAt = zmqClock,
                 !.due = IF z.buffer = <<>> THEN z.cycles + 1 ELSE Head(z.buffer)]
  ELSE z

\* The subscription is taken to have arrived some time after the accept was seen.
Settled(z) ==
  [z EXCEPT !.connected = @ \/ (z.acceptedAt # None /\ zmqClock - z.acceptedAt >= Propagation)]

\* A PUB socket gives a message to a subscriber whose subscription has arrived.
Socket(messages) == IF peer.subscribed THEN [peer EXCEPT !.got = @ \o messages] ELSE peer

\* A wrong form of Stale: an accept does not keep the buffer.
StaleAlways(z, start) == zmqClock - start > BufferTimeout

\* Buffered messages are too old while nobody has begun to connect.
Stale(z, start) == z.acceptedAt = None /\ zmqClock - start > BufferTimeout

\* cycle(): send with what was kept back, or keep back.
ZmqSenderCycle ==
  /\ zmq.pc = "running" /\ zmq.cycles < MaxMessages
  /\ LET z == [Settled(CheckMonitor(zmq)) EXCEPT !.cycles = @ + 1]
         start == IF z.bufferStart = None THEN zmqClock ELSE z.bufferStart
     IN IF z.connected
        THEN /\ peer' = [Socket(Append(z.buffer, z.cycles)) EXCEPT !.event = FALSE]
             /\ zmq' = [z EXCEPT !.buffer = <<>>, !.bufferStart = None]
        ELSE /\ peer' = [peer EXCEPT !.event = FALSE]
             /\ zmq' = IF Stale(z, start)
                       THEN [z EXCEPT !.buffer = <<z.cycles>>, !.bufferStart = zmqClock]
                       ELSE [z EXCEPT !.buffer = Append(@, z.cycles), !.bufferStart = start]
  /\ UNCHANGED <<registry, zmqClock>>

\* stop(): the keepalive thread is told to end and joined, and the lease revoked.
SenderStop ==
  /\ zmq.pc = "running"
  /\ zmq' = [zmq EXCEPT !.pc = IF zmq.named THEN "revoke" ELSE "end"]
  /\ registry' = [registry EXCEPT !.shutdown = TRUE]
  /\ UNCHANGED <<peer, zmqClock>>

\* notify_one() wakes the thread, which ends.
KeepAliveTold ==
  /\ registry.thread = "alive" /\ registry.shutdown
  /\ registry' = [registry EXCEPT !.thread = "ended"]
  /\ UNCHANGED <<zmq, peer, zmqClock>>

\* Then the end of the stream is sent; what is still kept back is lost.
SendEnd ==
  /\ zmq.pc \in {"end", "endLogged"}
  /\ peer' = Socket(<<0>>)
  /\ zmq' = [zmq EXCEPT !.pc = IF @ = "end" THEN "stopped" ELSE "stoppedLogged"]
  /\ UNCHANGED <<registry, zmqClock>>

ZmqNext ==
  \/ ZmqTick \/ Accepted \/ FilterArrives \/ NameExpires
  \/ Register \/ KeepAlive \/ KeepAliveTold \/ RevokeLease
  \/ SenderStart \/ ZmqSenderCycle \/ SenderStop \/ SendEnd

-----------------------------------------------------------------------------
PublisherStopped == zmq.pc \in {"stopped", "stoppedLogged"}

\* What a subscriber is owed once a cycle has seen its accept: the messages
\* the node then held and every later one.
Owed == [x \in 1..(zmq.cycles - zmq.due + 1) |-> zmq.due + x - 1]

\* All or nothing.  A subscriber that is taken to listen has been given every
\* message it is owed, in order and without a gap, and after them the end of
\* the stream; nothing is kept back.  Until then everything it is owed is kept
\* back and it is given nothing, or the bare end of the stream: a stop between
\* the accept and the end of the propagation time drops the buffer the comment
\* in cycle() calls the node "committed to flushing", and with it every
\* message that subscriber was owed.
NoGap ==
  /\ zmq.connected =>
       zmq.buffer = <<>> /\ peer.got = (IF PublisherStopped THEN Append(Owed, 0) ELSE Owed)
  /\ ~zmq.connected =>
       /\ zmq.due # 0 => zmq.buffer = Owed
       /\ peer.got = <<>> \/ (PublisherStopped /\ peer.got = <<0>>)

\* After a stop no thread renews the name's lease, and the name resolves no
\* more, unless its revocation failed, which is only logged: then the name
\* stays until the lease runs out.
NameReleased ==
  PublisherStopped => registry.thread # "alive" /\ (registry.key => zmq.pc = "stoppedLogged")

\* A subscriber gets the stream from its accept on or nothing of it, and the
\* name of a publisher that has stopped is gone or will go by itself.
PublisherSound == NoGap /\ NameReleased
=============================================================================
