-------------------------- MODULE Iceoryx2Adapter --------------------------
(***************************************************************************)
(* The iceoryx2 adapter (adapters/iceoryx2): a publisher and a subscriber  *)
(* of one service, in two graphs.  The subscriber receives in its cycle    *)
(* (Spin) or on a thread that polls (Threaded) or waits for the            *)
(* publisher's signal (Signaled) and hands the samples on by a channel.    *)
(* Samples are numbered in the order they are sent.  The nodes of byte     *)
(* slices repeat the code of the typed ones with another payload: the      *)
(* actions of the graph, the thread and the publisher stand for both, and  *)
(* the two differ where iceSub.slice is asked for.                         *)
(*                                                                         *)
(* The service itself is external.  A sample reaches the subscriber's      *)
(* buffer once the publisher has connected to it, and can be received once *)
(* the subscriber has connected too; both connect when they are created    *)
(* and when they call update_connections.  A publisher that connects sends *)
(* its history; a full buffer loses its oldest sample.  A publisher that   *)
(* is gone can no longer be connected to, and what it left in the buffer   *)
(* may go with the connection.                                             *)
(***************************************************************************)
EXTENDS Integers, Sequences, SequencesExt

CONSTANTS
  IceModes,     \* Iceoryx2Mode
  IceSlices,    \* whether the service is one of byte slices, a subset of BOOLEAN
  IceHistory,   \* history_size
  IceEvery,     \* cycles or loops between two update_connections (10, 100)
  IceLongest,   \* initial_max_slice_len
  MaxSamples,   \* bound: samples sent
  MaxIceBurst   \* bound: samples of a burst

ASSUME Iceoryx2Assumption ==
  /\ IceModes \subseteq {"Spin", "Threaded", "Signaled"} /\ IceSlices \subseteq BOOLEAN
  /\ {IceHistory, MaxSamples, MaxIceBurst} \subseteq Nat
  /\ {IceEvery, IceLongest} \subseteq Nat \ {0}

VARIABLES
  iceSub,   \* Iceoryx2ReceiverStream or Iceoryx2SliceReceiverStream, and its thread
  icePub,   \* Iceoryx2Publisher or Iceoryx2SlicePublisher
  service   \* the connection between them, what it lost, and the event service

iceVars == <<iceSub, icePub, service>>

Polling == iceSub.mode # "Spin"

IceSubOpts(mode, slice) ==
  [mode |-> mode, slice |-> slice, graph |-> "start", thread |-> "none",
   running |-> FALSE, loops |-> 0, chan |-> <<>>, value |-> <<>>, given |-> <<>>]

IcePubOpts == [pc |-> "start", cycles |-> 0, todo |-> 0, any |-> FALSE, sent |-> 0, longest |-> 0]

IceInit ==
  /\ \E mode \in IceModes, slice \in IceSlices : iceSub = IceSubOpts(mode, slice)
  /\ icePub = IcePubOpts
  /\ service = [sub |-> FALSE, pub |-> FALSE, toSub |-> FALSE, fromPub |-> FALSE,
                buffer |-> <<>>, history |-> <<>>, lost |-> {}, signal |-> FALSE]

-----------------------------------------------------------------------------
(* The service *)

\* subscriber_builder().buffer_size(history_size.max(1))
BufferSize == IF IceHistory > 1 THEN IceHistory ELSE 1

Latest(s, n) == IF Len(s) <= n THEN s ELSE SubSeq(s, Len(s) - n + 1, Len(s))

\* The buffer after `samples` have come; those pushed out of it are lost.
Filled(s, samples) ==
  LET kept == Latest(s.buffer \o samples, BufferSize)
  IN  [s EXCEPT !.buffer = kept,
                !.lost = @ \cup (ToSet(s.buffer \o samples) \ ToSet(kept))]

PubConnects(s) ==
  IF s.pub /\ s.sub /\ ~s.toSub THEN [Filled(s, s.history) EXCEPT !.toSub = TRUE] ELSE s

SubConnects(s) == [s EXCEPT !.fromPub = @ \/ s.pub]

Deliver(s, n) ==
  [(IF s.sub /\ s.toSub THEN Filled(s, <<n>>) ELSE s)
     EXCEPT !.history = Latest(Append(@, n), IceHistory)]

HasSample == service.fromPub /\ service.buffer # <<>>

BufferLost(s) == [s EXCEPT !.buffer = <<>>, !.lost = @ \cup ToSet(s.buffer)]

\* The publisher's port is dropped: a subscriber that has not connected to it
\* never will.
PubDropped(s) ==
  [(IF s.fromPub THEN s ELSE BufferLost(s)) EXCEPT !.pub = FALSE, !.history = <<>>]

\* The subscriber's port is dropped, and its buffer with it.
SubDropped(s) == [s EXCEPT !.sub = FALSE, !.fromPub = FALSE, !.buffer = <<>>]

\* The connection to a publisher that is gone is given up.
ConnectionLost ==
  /\ ~service.pub /\ service.buffer # <<>>
  /\ service' = BufferLost(service)
  /\ UNCHANGED <<iceSub, icePub>>

-----------------------------------------------------------------------------
(* The publisher *)

\* start(): the node, the service and the port, then the notifier; an error
\* ends the run.
PubStart ==
  /\ icePub.pc = "start" /\ ~iceSub.slice
  /\ \/ icePub' = [icePub EXCEPT !.pc = "failed"] /\ UNCHANGED service
     \/ /\ icePub' = [icePub EXCEPT !.pc = "signal"]
        /\ service' = PubConnects([service EXCEPT !.pub = TRUE])
  /\ UNCHANGED iceSub

\* The port of a slice publisher is made for slices up to a length.
PubStartSlice ==
  /\ icePub.pc = "start" /\ iceSub.slice
  /\ \/ icePub' = [icePub EXCEPT !.pc = "failed"] /\ UNCHANGED service
     \/ /\ icePub' = [icePub EXCEPT !.pc = "signal", !.longest = IceLongest]
        /\ service' = PubConnects([service EXCEPT !.pub = TRUE])
  /\ UNCHANGED iceSub

\* The event service, with 25 tries; without it start() fails and the port
\* made before is dropped.
PubSignal ==
  /\ icePub.pc = "signal"
  /\ \/ icePub' = [icePub EXCEPT !.pc = "idle"] /\ UNCHANGED service
     \/ icePub' = [icePub EXCEPT !.pc = "failed"] /\ service' = PubDropped(service)
  /\ UNCHANGED iceSub

\* Every tenth cycle updates the connections, and an error there ends the run.
PubUpdates == (icePub.cycles + 1) % IceEvery = 0

PubCycle ==
  /\ icePub.pc = "idle"
  /\ \E n \in 0..MaxIceBurst :
       /\ icePub.sent + n <= MaxSamples
       /\ icePub' = [icePub EXCEPT !.pc = "send", !.todo = n, !.any = FALSE,
                                   !.cycles = (@ + 1) % IceEvery]
  /\ service' = IF PubUpdates THEN PubConnects(service) ELSE service
  /\ UNCHANGED iceSub

PubCycleFails ==
  /\ icePub.pc = "idle" /\ PubUpdates
  /\ icePub' = [icePub EXCEPT !.pc = "failed"]
  /\ UNCHANGED <<iceSub, service>>

Sent == [icePub EXCEPT !.todo = @ - 1, !.any = TRUE, !.sent = @ + 1]

\* loan, write and send one value of the burst.
PubSend ==
  /\ icePub.pc = "send" /\ icePub.todo > 0 /\ ~iceSub.slice
  /\ \/ icePub' = Sent /\ service' = Deliver(service, icePub.sent + 1)
     \/ icePub' = [icePub EXCEPT !.pc = "failed"] /\ UNCHANGED service
  /\ UNCHANGED iceSub

\* A slice is loaned with its length, which may be too long for the port.
PubSendSlice ==
  /\ icePub.pc = "send" /\ icePub.todo > 0 /\ iceSub.slice
  /\ \E length \in 0..(IceLongest + 1) :
       IF length <= icePub.longest
       THEN icePub' = Sent /\ service' = Deliver(service, icePub.sent + 1)
       ELSE icePub' = [icePub EXCEPT !.pc = "failed"] /\ UNCHANGED service
  /\ UNCHANGED iceSub

\* The signal is given once, after a burst that is not empty; an error ends
\* the run.
PubNotify ==
  /\ icePub.pc = "send" /\ icePub.todo = 0
  /\ \/ /\ icePub' = [icePub EXCEPT !.pc = "idle"]
        /\ service' = [service EXCEPT !.signal = @ \/ icePub.any]
     \/ /\ icePub.any
        /\ icePub' = [icePub EXCEPT !.pc = "failed"] /\ UNCHANGED service
  /\ UNCHANGED iceSub

\* stop(), also after an error: the publisher, the notifier and the node go.
PubStop ==
  /\ icePub.pc \in {"idle", "failed"}
  /\ icePub' = [icePub EXCEPT !.pc = "stopped"]
  /\ service' = PubDropped(service)
  /\ UNCHANGED iceSub

-----------------------------------------------------------------------------
(* The subscriber's graph *)

\* start(): in Spin mode the port is made here and a failure ends the run,
\* else the thread is spawned.
IceSpinStart ==
  /\ iceSub.graph = "start" /\ ~Polling
  /\ \/ iceSub' = [iceSub EXCEPT !.graph = "failed"] /\ UNCHANGED service
     \/ /\ iceSub' = [iceSub EXCEPT !.graph = "run"]
        /\ service' = SubConnects([service EXCEPT !.sub = TRUE])
  /\ UNCHANGED icePub

ThreadStart ==
  /\ iceSub.graph = "start" /\ Polling
  /\ iceSub' = [iceSub EXCEPT !.graph = "run", !.running = TRUE, !.thread = "open"]
  /\ UNCHANGED <<icePub, service>>

\* A wrong form of Burst: the burst of the cycle before is not cleared.
BurstKept(samples) == iceSub.value \o samples

\* The burst of a cycle.
Burst(samples) == samples

IceSpinCycle ==
  /\ iceSub.graph = "run" /\ ~Polling
  /\ LET now == IF (iceSub.loops + 1) % IceEvery = 0 THEN SubConnects(service) ELSE service
         value == Burst(IF now.fromPub THEN now.buffer ELSE <<>>)
     IN  /\ iceSub' = [iceSub EXCEPT !.loops = (@ + 1) % IceEvery, !.value = value,
                                     !.given = @ \o value]
         /\ service' = IF now.fromPub THEN [now EXCEPT !.buffer = <<>>] ELSE now
  /\ UNCHANGED icePub

ChannelCycle ==
  /\ iceSub.graph = "run" /\ Polling
  /\ LET value == Burst(iceSub.chan)
     IN  iceSub' = [iceSub EXCEPT !.chan = <<>>, !.value = value, !.given = @ \o value]
  /\ UNCHANGED <<icePub, service>>

\* stop(): the flag, the join, and the ports are dropped.
IceStop ==
  /\ iceSub.graph = "run"
  /\ iceSub' = [iceSub EXCEPT !.running = FALSE, !.graph = "join"]
  /\ UNCHANGED <<icePub, service>>

IceJoin ==
  /\ iceSub.graph = "join" /\ iceSub.thread \in {"none", "ended"}
  /\ iceSub' = [iceSub EXCEPT !.graph = "done", !.chan = <<>>]
  /\ service' = SubDropped(service)
  /\ UNCHANGED icePub

-----------------------------------------------------------------------------
(* The thread: create_subscriber, then run_poll_loop *)

\* An error leaves the function at once, and the port with it: it is logged,
\* and neither it nor an EndOfStream reaches the graph.
ThreadFails ==
  /\ iceSub' = [iceSub EXCEPT !.thread = "ended"]
  /\ service' = SubDropped(service)

ThreadOpen ==
  /\ iceSub.thread = "open"
  /\ \/ ThreadFails
     \/ /\ iceSub' = [iceSub EXCEPT !.thread = IF iceSub.mode = "Signaled" THEN "event" ELSE "loop"]
        /\ service' = SubConnects([service EXCEPT !.sub = TRUE])
  /\ UNCHANGED icePub

\* The event service, with 25 tries, and the listener.
SignalOpen ==
  /\ iceSub.thread = "event"
  /\ \/ iceSub' = [iceSub EXCEPT !.thread = "loop"] /\ UNCHANGED service
     \/ ThreadFails
  /\ UNCHANGED icePub

Loops == (iceSub.loops + 1) % IceEvery

\* A wrong form of SignalWait: without the timeout, only a signal ends the wait.
SignalWaitForever ==
  /\ iceSub.thread = "loop" /\ iceSub.mode = "Signaled" /\ iceSub.running
  /\ service.signal
  /\ iceSub' = [iceSub EXCEPT !.thread = "receive"]
  /\ service' = SubConnects(service)
  /\ UNCHANGED icePub

\* The signal, or 100 ms, and the update of the connections; a wait that fails
\* ends the thread.
SignalWait ==
  /\ iceSub.thread = "loop" /\ iceSub.mode = "Signaled" /\ iceSub.running
  /\ \/ iceSub' = [iceSub EXCEPT !.thread = "receive"] /\ service' = SubConnects(service)
     \/ ThreadFails
  /\ UNCHANGED icePub

PollLoop ==
  /\ iceSub.thread = "loop" /\ iceSub.mode = "Threaded" /\ iceSub.running
  /\ iceSub' = [iceSub EXCEPT !.thread = "receive", !.loops = Loops]
  /\ service' = IF Loops = 0 THEN SubConnects(service) ELSE service
  /\ UNCHANGED icePub

ThreadReceive ==
  /\ iceSub.thread = "receive" /\ HasSample
  /\ iceSub' = [iceSub EXCEPT !.chan = Append(@, Head(service.buffer))]
  /\ service' = [service EXCEPT !.buffer = Tail(@)]
  /\ UNCHANGED icePub

ThreadReceived ==
  /\ iceSub.thread = "receive" /\ ~HasSample
  /\ iceSub' = [iceSub EXCEPT !.thread = IF iceSub.mode = "Signaled" THEN "drain" ELSE "loop"]
  /\ UNCHANGED <<icePub, service>>

\* The signals that are there now, one that came after the last receive too.
SignalDrain ==
  /\ iceSub.thread = "drain"
  /\ iceSub' = [iceSub EXCEPT !.thread = "loop"]
  /\ service' = [service EXCEPT !.signal = FALSE]
  /\ UNCHANGED icePub

\* running is FALSE: the loop ends, and EndOfStream is sent to nobody.
ThreadEnds ==
  /\ iceSub.thread = "loop" /\ ~iceSub.running
  /\ iceSub' = [iceSub EXCEPT !.thread = "ended"]
  /\ service' = SubDropped(service)
  /\ UNCHANGED icePub

IceThread ==
  ThreadOpen \/ SignalOpen \/ SignalWait \/ PollLoop \/ ThreadReceive \/ ThreadReceived \/ SignalDrain
    \/ ThreadEnds

IcePublisher ==
  PubStart \/ PubStartSlice \/ PubSignal \/ PubCycle \/ PubCycleFails \/ PubSend \/ PubSendSlice
    \/ PubNotify \/ PubStop

IceGraph == IceSpinStart \/ ThreadStart \/ IceSpinCycle \/ ChannelCycle \/ IceJoin

IceNext == IcePublisher \/ IceGraph \/ IceStop \/ IceThread \/ ConnectionLost

-----------------------------------------------------------------------------
(* SamplesInOrder: what the graph got, what is in the channel and what is   *)
(* in the buffer are in the order they were sent, none of them twice, also  *)
(* across the history that a late subscriber gets.                          *)
SamplesInOrder ==
  LET all == iceSub.given \o iceSub.chan \o service.buffer
  IN  \A i, j \in DOMAIN all : i < j => all[i] < all[j]

(* SampleArrives: a sample in the subscriber's buffer reaches the graph,    *)
(* unless it is pushed out of the buffer by newer ones or goes with the     *)
(* port of a publisher that is dropped (both are in service.lost), or the   *)
(* subscriber ends.  Neither the thread, nor the channel, nor the cycle     *)
(* loses it, and a signal swallowed between the last receive and the next   *)
(* wait only costs time.                                                    *)
SampleArrives ==
  \A n \in 1..MaxSamples :
    n \in ToSet(service.buffer)
      ~> (\/ n \in ToSet(iceSub.given)
          \/ n \in service.lost
          \/ iceSub.graph # "run" \/ iceSub.thread = "ended")
=============================================================================
