---------------------------- MODULE GraphWorkers ----------------------------
(***************************************************************************)
(* nodes/graph_node.rs and nodes/channel.rs: a graph that runs part of     *)
(* itself on a worker thread.  producer() spawns a graph whose values come *)
(* back over the channel "out"; mapper() also sends its input over the     *)
(* channel "in", and in a replay waits in every cycle for the answer of    *)
(* the worker.  Both threads run an engine of their own: here one step     *)
(* starts a cycle, one takes a message, one ends the cycle.                *)
(*                                                                         *)
(* The source is an iterator whose i-th value is the number i.  The graph  *)
(* function of a mapper answers a burst with what is left of it without    *)
(* the values of Filtered, and may fail at those of Failing.               *)
(***************************************************************************)
EXTENDS ChannelReceiver

CONSTANTS
  SourceTimes,  \* the times of the source's values
  Kinds,        \* the node: a subset of {"producer", "mapper"}
  Modes,        \* a subset of {"RealTime", "HistoricalFrom"}
  RunFors,      \* the values of RunFor explored
  Filtered,
  Failing

Thread == {"main", "worker"}
Other(g) == IF g = "main" THEN "worker" ELSE "main"
Channel == {"in", "out"}
RunFor == [kind : {"Duration", "Cycles", "Forever"}, bound : Nat]

(* The values of one time come in one burst (iterator_stream.rs 30-44), so *)
(* the times of the source ascend.                                         *)
ASSUME WorkersAssumption ==
  /\ SourceTimes \in Seq(Nat)
  /\ \A i, j \in DOMAIN SourceTimes : i < j => SourceTimes[i] < SourceTimes[j]
  /\ Kinds \subseteq {"producer", "mapper"}
  /\ Modes \subseteq {"RealTime", "HistoricalFrom"}
  /\ RunFors \subseteq RunFor

VARIABLES
  kind, mode, run_for,
  source,     \* how many values the source has ticked with
  engine,     \* per thread: the run loop's state
  recv,       \* per thread: its ChannelReceiverStream
  chan,       \* per channel: the messages in it
  senders,    \* the channels whose sending end exists
  receivers,  \* the channels whose receiving end exists
  notifier,   \* the channels whose ChannelSender has a ReadyNotifier
  ready,      \* the threads with a ready notification pending
  pc,         \* per thread
  delivered   \* history: what the main graph's node has ticked with, and when

vars == <<kind, mode, run_for, source, engine, recv, chan, senders, receivers, notifier,
          ready, pc, delivered>>
config == <<kind, mode, run_for>>
links == <<chan, senders, receivers, notifier, ready>>

Realtime == mode = "RealTime"
Mapper == kind = "mapper"

(* Which thread has the source, and which sends on and receives from which *)
(* channel.                                                                *)
SourceThread == IF Mapper THEN "main" ELSE "worker"
Outgoing(g) == IF g = "main" THEN "in" ELSE "out"
Incoming(g) == IF g = "main" THEN "out" ELSE "in"
HasReceiver(g) == g = "main" \/ Mapper

(* ChannelReceiverStream::trigger: a mapper's is its source. *)
Triggered(g) == g = "main" /\ Mapper

TypeOK ==
  /\ kind \in Kinds /\ mode \in Modes /\ run_for \in RunFors
  /\ source \in 0..Len(SourceTimes)
  /\ \A g \in Thread :
       /\ engine[g].time \in Nat /\ engine[g].cycles \in Nat
       /\ engine[g].first \in BOOLEAN /\ engine[g].last \in BOOLEAN
       /\ engine[g].callbacks \subseteq Nat
       /\ engine[g].error \in {"none", "node", "refused", "closed", "timeout", "setup"}
       /\ IsReceiver(recv[g])
       /\ pc[g] \in {"none", "setup", "await", "top", "notify", "receive", "deliver", "stop",
                     "end", "close", "teardown", "release", "disconnect", "join", "done", "failed"}
  /\ \A c \in Channel : chan[c] \in Seq(Message)
  /\ senders \subseteq Channel /\ receivers \subseteq Channel /\ notifier \subseteq Channel
  /\ ready \subseteq Thread

Init ==
  /\ kind \in Kinds /\ mode \in Modes /\ run_for \in RunFors
  /\ source = 0
  /\ engine = [g \in Thread |-> [time |-> 0, cycles |-> 0, first |-> TRUE, last |-> FALSE,
                                 callbacks |-> {}, error |-> "none"]]
  /\ recv = [g \in Thread |-> NewReceiver]
  /\ chan = [c \in Channel |-> <<>>]
  /\ senders = Channel /\ receivers = Channel /\ notifier = {} /\ ready = {}
  /\ pc = [g \in Thread |-> IF g = "main" THEN "setup" ELSE "none"]
  /\ delivered = <<>>

Goto(g, l) == pc' = [pc EXCEPT ![g] = l]

-----------------------------------------------------------------------------
(* setup().  An untriggered receiver of a replay asks for a first cycle. *)
FirstCallback(g) ==
  IF ~ Realtime /\ HasReceiver(g) /\ ~ Triggered(g)
  THEN [engine EXCEPT ![g].callbacks = {0}] ELSE engine

(* The worker's sender notifies the main graph in realtime; a mapper then  *)
(* waits for the notifier of the worker's receiver.                        *)
SetupMain ==
  /\ pc["main"] = "setup"
  /\ notifier' = IF Realtime THEN notifier \cup {"out"} ELSE notifier
  /\ engine' = FirstCallback("main")
  /\ pc' = [main |-> IF Realtime /\ Mapper THEN "await" ELSE "top", worker |-> "setup"]
  /\ UNCHANGED <<config, source, recv, chan, senders, receivers, ready, delivered>>

(* recv_timeout returns the notifier ... *)
SetNotifier ==
  /\ pc["main"] = "await" /\ pc["worker"] \notin {"none", "setup"}
  /\ notifier' = notifier \cup {"in"}
  /\ Goto("main", "top")
  /\ UNCHANGED <<config, source, engine, recv, chan, senders, receivers, ready, delivered>>

(* ... or, after 100 ms, an error: run() returns it and tears nothing      *)
(* down.  The sender was a local of setup().                               *)
NotifierTimeout ==
  /\ pc["main"] = "await" /\ pc["worker"] = "setup"
  /\ engine' = [engine EXCEPT !["main"].error = "setup"]
  /\ senders' = senders \ {"in"}
  /\ Goto("main", "done")
  /\ UNCHANGED <<config, source, recv, chan, receivers, notifier, ready, delivered>>

SetupWorker ==
  /\ pc["worker"] = "setup"
  /\ engine' = FirstCallback("worker")
  /\ Goto("worker", "top")
  /\ UNCHANGED <<config, source, recv, links, delivered>>

(* The receiving end of the notifier's channel is gone with the setup().   *)
SetupWorkerFails ==
  /\ pc["worker"] = "setup" /\ engine["main"].error = "setup"
  /\ engine' = [engine EXCEPT !["worker"].error = "setup"]
  /\ Goto("worker", "release")
  /\ UNCHANGED <<config, source, recv, links, delivered>>

-----------------------------------------------------------------------------
(* ChannelSender::send, of a value, in the run mode's form. *)
ValueMessage(b, t) == IF Realtime THEN RealtimeValue(b) ELSE HistoricalValue(b, t)

(* send_message: the push and then, in the step that follows, the          *)
(* notification, where the sender has a notifier.                          *)
Push(g, m) == chan' = [chan EXCEPT ![Outgoing(g)] = Append(@, m)]
AfterPush(g, notifying, otherwise) ==
  IF Outgoing(g) \in notifier THEN notifying ELSE otherwise
AfterSend(g) == IF g = "main" THEN "receive" ELSE "top"

(* A wrong form of Notify, which forgets it. *)
NotifyNobody(g) ==
  /\ pc[g] \in {"notify", "end"}
  /\ Goto(g, IF pc[g] = "end" THEN "close" ELSE AfterSend(g))
  /\ UNCHANGED <<config, source, engine, recv, links, delivered>>

Notify(g) ==
  /\ pc[g] \in {"notify", "end"}
  /\ ready' = ready \cup {Other(g)}
  /\ Goto(g, IF pc[g] = "end" THEN "close" ELSE AfterSend(g))
  /\ UNCHANGED <<config, source, engine, recv, chan, senders, receivers, notifier, delivered>>

-----------------------------------------------------------------------------
(* The run loop of a thread's graph, as in GraphEngine. *)
NextTick == IF source < Len(SourceTimes) THEN {SourceTimes[source + 1]} ELSE {}
Wakeups(g) == engine[g].callbacks \cup (IF g = SourceThread THEN NextTick ELSE {})
time_done(g) == run_for.kind = "Duration" /\ engine[g].time >= run_for.bound
Finished(g) ==
  \/ run_for.kind = "Cycles" /\ engine[g].cycles >= run_for.bound
  \/ ~ Realtime /\ engine[g].last /\ time_done(g)

(* The bound is reached, or a replay has nothing more to do.  The clock of *)
(* a realtime run passes its end at any moment.                            *)
EndRun(g) ==
  /\ pc[g] = "top"
  /\ \/ Finished(g)
     \/ ~ Realtime /\ Wakeups(g) = {}
     \/ Realtime /\ run_for.kind = "Duration"
  /\ Goto(g, "stop")
  /\ UNCHANGED <<config, source, engine, recv, links, delivered>>

Earliest(S) == CHOOSE t \in S : \A u \in S : t <= u
NextTime(g) ==
  IF engine[g].first \/ Earliest(Wakeups(g)) > engine[g].time
  THEN Earliest(Wakeups(g)) ELSE engine[g].time + 1

(* The cycle in which the source ticks.  In the worker of a producer its   *)
(* value goes to SenderNode, in the main graph of a mapper GraphMapStream  *)
(* sends it and then runs its receiver.                                    *)
SourceCycle(g) ==
  /\ source' = source + 1
  /\ IF Outgoing(g) \in receivers
     THEN /\ Push(g, ValueMessage(<<source + 1>>, engine'[g].time))
          /\ Goto(g, AfterPush(g, "notify", AfterSend(g)))
     ELSE /\ UNCHANGED chan
          /\ Goto(g, "failed")

Begun(g, t) ==
  [engine EXCEPT ![g].time = t, ![g].first = FALSE, ![g].cycles = @ + 1,
                 ![g].last = @ \/ time_done(g), ![g].callbacks = {c \in @ : c > t}]

BeginHistorical(g) ==
  /\ pc[g] = "top" /\ ~ Realtime /\ ~ Finished(g) /\ Wakeups(g) # {}
  /\ engine' = Begun(g, NextTime(g))
  /\ IF g = SourceThread /\ NextTime(g) \in NextTick
     THEN SourceCycle(g)
     ELSE /\ Goto(g, "receive") /\ UNCHANGED <<source, chan>>
  /\ UNCHANGED <<config, recv, senders, receivers, notifier, ready, delivered>>

(* In realtime the source is due at some time, and a notification runs the *)
(* receiver.                                                               *)
BeginRealtime(g) ==
  /\ pc[g] = "top" /\ Realtime /\ ~ Finished(g)
  /\ engine' = Begun(g, engine[g].time)
  /\ \/ g = SourceThread /\ NextTick # {} /\ SourceCycle(g)
     \/ g \in ready /\ Goto(g, "receive") /\ UNCHANGED <<source, chan>>
  /\ ready' = ready \ {g}
  /\ UNCHANGED <<config, recv, senders, receivers, notifier, delivered>>

-----------------------------------------------------------------------------
(* ChannelReceiverStream::cycle. *)
Closed(c) == chan[c] = <<>> /\ c \notin senders

Silent(c) == chan[c] = <<>> /\ c \in senders
HasRead(g) == CaughtUp(recv[g], Realtime, Triggered(g), engine[g].time, Silent(Incoming(g)))

(* A message is taken; recv() blocks for it, and a closed channel counts   *)
(* as EndOfStream.                                                         *)
Receive(g) ==
  /\ pc[g] = "receive" /\ ~ HasRead(g)
  /\ LET c == Incoming(g)
         m == IF Closed(c) THEN EndOfStream ELSE Head(chan[c])
     IN  /\ ~ Silent(c)
         /\ chan' = IF Closed(c) THEN chan ELSE [chan EXCEPT ![c] = Tail(@)]
         /\ IF Refused(m, Realtime, engine[g].time)
            THEN /\ engine' = [engine EXCEPT ![g].error = "refused"]
                 /\ Goto(g, "stop")
                 /\ UNCHANGED recv
            ELSE /\ recv' = [recv EXCEPT ![g] = Taken(@, m, Realtime)]
                 /\ UNCHANGED <<engine, pc>>
  /\ UNCHANGED <<config, source, senders, receivers, notifier, ready, delivered>>

ReceiveDone(g) ==
  /\ pc[g] = "receive" /\ HasRead(g)
  /\ Goto(g, "deliver")
  /\ UNCHANGED <<config, source, engine, recv, links, delivered>>

BurstOf(g) == Burst(recv[g], engine[g].time)

(* The end of the receiver's cycle. *)
Delivered(g) ==
  /\ recv' = [recv EXCEPT ![g] = AfterBurst(@, engine[g].time)]
  /\ engine' = [engine EXCEPT ![g].callbacks =
                   @ \cup Callbacks(recv[g], Realtime, Triggered(g), engine[g].time)]

(* The main graph's node ticks. *)
DeliverMain ==
  /\ pc["main"] = "deliver"
  /\ Delivered("main")
  /\ delivered' = delivered \o [k \in 1..Len(BurstOf("main")) |->
                                  [value |-> BurstOf("main")[k], time |-> engine["main"].time]]
  /\ Goto("main", "top")
  /\ UNCHANGED <<config, source, links>>

Answer ==
  LET burst == BurstOf("worker")
  IN  FlattenSeq([k \in DOMAIN burst |-> IF burst[k] \in Filtered THEN <<>> ELSE <<burst[k]>>])

(* SenderNode::cycle, of which the mapper's receiver is the trigger: what  *)
(* the function has ticked with, or else how far the worker has come.      *)
SenderCycle ==
  IF BurstOf("worker") = <<>> THEN UNCHANGED chan /\ Goto("worker", "top")
  ELSE /\ Push("worker", IF Answer # <<>> THEN ValueMessage(Answer, engine["worker"].time)
                         ELSE CheckPoint(engine["worker"].time))
       /\ Goto("worker", AfterPush("worker", "notify", "top"))

DeliverWorker ==
  /\ pc["worker"] = "deliver"
  /\ Delivered("worker")
  /\ SenderCycle
  /\ UNCHANGED <<config, source, senders, receivers, notifier, ready, delivered>>

(* The worker's graph fails, which is only logged. *)
WorkerFails ==
  /\ pc["worker"] = "deliver"
  /\ \E v \in Failing : Contains(BurstOf("worker"), v)
  /\ engine' = [engine EXCEPT !["worker"].error = "node"]
  /\ Goto("worker", "stop")
  /\ UNCHANGED <<config, source, recv, links, delivered>>

SendFails(g) ==
  /\ pc[g] = "failed"
  /\ engine' = [engine EXCEPT ![g].error = "closed"]
  /\ Goto(g, "stop")
  /\ UNCHANGED <<config, source, recv, links, delivered>>

-----------------------------------------------------------------------------
(* stop() of SenderNode and of GraphMapStream, whose close() ignores that  *)
(* the worker may be gone.                                                 *)
Stop(g) ==
  /\ pc[g] = "stop"
  /\ IF (g = "worker" \/ Mapper) /\ Outgoing(g) \in receivers
     THEN Push(g, EndOfStream) /\ Goto(g, AfterPush(g, "end", "close"))
     ELSE UNCHANGED chan /\ Goto(g, "close")
  /\ UNCHANGED <<config, source, engine, recv, senders, receivers, notifier, ready, delivered>>

(* close() forgets the sender; SenderNode keeps its own until it is        *)
(* dropped.                                                                *)
Close(g) ==
  /\ pc[g] = "close"
  /\ senders' = IF g = "main" THEN senders \ {"in"} ELSE senders
  /\ Goto(g, "teardown")
  /\ UNCHANGED <<config, source, engine, recv, chan, receivers, notifier, ready, delivered>>

(* ChannelReceiver::teardown waits up to a second for the sender to go. *)
Teardown(g) ==
  /\ pc[g] = "teardown"
  /\ HasReceiver(g) => Incoming(g) \notin senders
  /\ Goto(g, IF g = "main" THEN "join" ELSE "release")
  /\ UNCHANGED <<config, source, engine, recv, links, delivered>>

TeardownTimeout(g) ==
  /\ pc[g] = "teardown"
  /\ HasReceiver(g) /\ Incoming(g) \in senders
  /\ engine' = [engine EXCEPT ![g].error = IF @ = "none" THEN "timeout" ELSE @]
  /\ Goto(g, IF g = "main" THEN "done" ELSE "release")
  /\ UNCHANGED <<config, source, recv, links, delivered>>

Join ==
  /\ pc["main"] = "join" /\ pc["worker"] = "done"
  /\ Goto("main", "done")
  /\ UNCHANGED <<config, source, engine, recv, links, delivered>>

(* The worker's graph is dropped: the receiver, and the sender, whose Drop *)
(* notifies before the channel is closed.                                  *)
Release ==
  /\ pc["worker"] = "release"
  /\ receivers' = receivers \ {"in"}
  /\ ready' = IF "out" \in notifier THEN ready \cup {"main"} ELSE ready
  /\ Goto("worker", "disconnect")
  /\ UNCHANGED <<config, source, engine, recv, chan, senders, notifier, delivered>>

Disconnect ==
  /\ pc["worker"] = "disconnect"
  /\ senders' = senders \ {"out"}
  /\ Goto("worker", "done")
  /\ UNCHANGED <<config, source, engine, recv, chan, receivers, notifier, ready, delivered>>

-----------------------------------------------------------------------------
Cycle(g) ==
  \/ EndRun(g) \/ BeginHistorical(g) \/ BeginRealtime(g)
  \/ Notify(g) \/ Receive(g) \/ ReceiveDone(g) \/ SendFails(g)
  \/ Stop(g) \/ Close(g) \/ Teardown(g) \/ TeardownTimeout(g)

Main == SetupMain \/ SetNotifier \/ NotifierTimeout \/ Cycle("main") \/ DeliverMain \/ Join
Worker ==
  \/ SetupWorker \/ SetupWorkerFails \/ Cycle("worker") \/ DeliverWorker \/ WorkerFails
  \/ Release \/ Disconnect

Next == Main \/ Worker

(* Both threads run; a realtime run of some duration reaches its end, and  *)
(* the source's next time comes.                                           *)
Fairness ==
  /\ WF_vars(Main) /\ WF_vars(Worker)
  /\ \A g \in Thread : WF_vars(EndRun(g))

Spec == Init /\ [][Next]_vars /\ Fairness

-----------------------------------------------------------------------------
Ended == {"stop", "end", "close", "teardown", "join", "done"}
Kept(n) == {v \in 1..n : Mapper => v \notin Filtered}
DeliveredValues == {delivered[k].value : k \in DOMAIN delivered}

(* In a replay a value from the other thread is seen at the time it was    *)
(* stamped with, in order and once, however the threads interleave: the    *)
(* receiver's waits (channel.rs 160-241) never let the graph's clock pass  *)
(* a message, and no message is refused as late.                           *)
OnItsOwnTime ==
  /\ \A k \in DOMAIN delivered : \A l \in 1..(k - 1) : delivered[l].value < delivered[k].value
  /\ ~ Realtime => \A k \in DOMAIN delivered :
                       delivered[k].time = SourceTimes[delivered[k].value]
  /\ \A g \in Thread : engine[g].error # "refused"

(* A mapper in a replay is in lock step with its worker: between two       *)
(* cycles everything its source has ticked with has been answered and      *)
(* delivered, unless the worker has ended first.  A producer's values are  *)
(* all delivered in an unbounded replay.                                   *)
LockStep ==
  /\ (~ Realtime /\ Mapper /\ pc["main"] = "top" /\ ~ recv["main"].finished)
       => DeliveredValues = Kept(source)
  /\ (/\ ~ Realtime /\ pc["main"] = "done" /\ run_for.kind = "Forever"
      /\ \A g \in Thread : engine[g].error \in {"none", "timeout"})
       => DeliveredValues = Kept(Len(SourceTimes))

(* A replay across two threads is the replay of one graph.                 *)
InStep == OnItsOwnTime /\ LockStep

(* Neither graph waits for the other for ever: a replay ends, and so does  *)
(* a realtime run that has a duration, with the worker thread over; this   *)
(* needs the checkpoints of SenderNode and the EndOfStream of stop().      *)
RunEnds ==
  (~ Realtime \/ run_for.kind = "Duration") => <>(\A g \in Thread : pc[g] = "done")

(* In realtime a message is taken by the graph at the other end, unless    *)
(* that graph's run ends.                                                  *)
MessagesAreTaken ==
  \A g \in Thread :
    (Realtime /\ chan[Incoming(g)] # <<>>) ~> (chan[Incoming(g)] = <<>> \/ pc[g] \in Ended)

(* No thread waits for ever for a message or for the end of the other.     *)
WorkersProgress == RunEnds /\ MessagesAreTaken

=============================================================================
