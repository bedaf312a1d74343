--------------------------- MODULE ReceiverStream ---------------------------
(***************************************************************************)
(* nodes/receiver.rs with the parts of channel/kanal_chan.rs and           *)
(* nodes/channel.rs it uses: a node whose values come from a thread of its *)
(* own.  The thread runs a function that gets the sending end of a channel *)
(* and a stop flag (the subscribers of zmq and aeron); each send is a push *)
(* to the channel and then a notification, which makes the engine run the  *)
(* node.  Three things of the thread are seen by the node at different     *)
(* times: what it sent, that its sender is gone, that it has finished.     *)
(*                                                                         *)
(* Values are numbered in the order they are sent.  The rest of the graph  *)
(* only appears as the reason why the run ends.  A panic of the function   *)
(* unwinds through the same drops and is reported like an error.           *)
(***************************************************************************)
EXTENDS Integers, Sequences

CONSTANTS
  MaxSends,  \* bound on the values the function sends
  Forever    \* the run has no bound and no other node ends it

ASSUME ReceiverAssumption == MaxSends \in Nat /\ Forever \in BOOLEAN

VARIABLES
  realtime,     \* state.run_mode() == RunMode::RealTime
  chan,         \* the unbounded kanal channel
  connected,    \* sender_count() > 0
  ready,        \* notifications of this node in the ready queue
  thread,       \* where the thread is
  result,       \* what the function has returned
  stop_flag,    \* ReceiverStream::stop
  handle,       \* ReceiverStream::state
  finished,     \* ChannelReceiverStream::finished
  pending_err,  \* ReceiverStream::pending_err
  values,       \* the local values of ChannelReceiverStream::cycle
  delivered,    \* history: the values the node has ticked with
  sent,         \* history: how many values have been pushed
  ended,        \* history: the function has sent EndOfStream
  reported,     \* the errors that run() returns
  pc            \* where the engine is

vars == <<realtime, chan, connected, ready, thread, result, stop_flag, handle, finished,
          pending_err, values, delivered, sent, ended, reported, pc>>
node == <<handle, finished, pending_err, values, delivered>>
sender == <<thread, result, sent, ended>>

ThreadMessage == [kind : {"RealtimeValue", "EndOfStream", "Error"}, value : Nat]
ValueMessage(k) == [kind |-> "RealtimeValue", value |-> k]
LastMessage(kind) == [kind |-> kind, value |-> 0]
FailureCause == {"thread", "exited", "message", "start"}

TypeOK ==
  /\ realtime \in BOOLEAN
  /\ chan \in Seq(ThreadMessage)
  /\ connected \in BOOLEAN
  /\ ready \in Nat
  /\ thread \in {"none", "run", "notify", "last", "drop", "close", "finish", "finished"}
  /\ result \in {"none", "ok", "err"}
  /\ stop_flag \in BOOLEAN
  /\ handle \in {"Func", "JoinHandle", "Done", "Empty"}
  /\ finished \in BOOLEAN
  /\ pending_err \in FailureCause \cup {"none"}
  /\ values \in Seq(Nat)
  /\ delivered \in Seq(Nat)
  /\ sent \in Nat
  /\ ended \in BOOLEAN
  /\ reported \subseteq FailureCause
  /\ pc \in {"setup", "start", "wait", "cycle", "drain", "check", "stop", "join", "teardown",
             "done"}

Init ==
  /\ realtime \in BOOLEAN
  /\ chan = <<>> /\ connected = TRUE /\ ready = 0
  /\ thread = "none" /\ result = "none" /\ sent = 0 /\ ended = FALSE
  /\ stop_flag = FALSE
  /\ handle = "Func" /\ finished = FALSE /\ pending_err = "none"
  /\ values = <<>> /\ delivered = <<>>
  /\ reported = {}
  /\ pc = "setup"

(* A notifier is only set in realtime. *)
Notified == IF realtime THEN ready + 1 ELSE ready

-----------------------------------------------------------------------------
(* The thread.  send_message: the push, then the notification. *)
SendValue ==
  /\ thread = "run" /\ sent < MaxSends
  /\ chan' = Append(chan, ValueMessage(sent + 1))
  /\ sent' = sent + 1
  /\ thread' = "notify"
  /\ UNCHANGED <<realtime, connected, ready, result, stop_flag, node, ended, reported, pc>>

(* EndOfStream or an error message is the last thing a function sends. *)
SendLast ==
  /\ thread = "run"
  /\ \E m \in {"EndOfStream", "Error"} :
       /\ chan' = Append(chan, LastMessage(m))
       /\ ended' = (m = "EndOfStream")
  /\ thread' = "last"
  /\ UNCHANGED <<realtime, connected, ready, result, stop_flag, node, sent, reported, pc>>

Notify ==
  /\ thread = "notify"
  /\ ready' = Notified
  /\ thread' = "run"
  /\ UNCHANGED <<realtime, chan, connected, result, stop_flag, node, sent, ended, reported, pc>>

NotifyLast ==
  /\ thread = "last"
  /\ ready' = Notified
  /\ thread' = "drop"
  /\ result' = "ok"
  /\ UNCHANGED <<realtime, chan, connected, stop_flag, node, sent, ended, reported, pc>>

(* The function returns with an error, or without having said that the     *)
(* stream has ended.                                                       *)
ReturnEarly ==
  /\ thread = "run"
  /\ result' \in {"ok", "err"}
  /\ thread' = "drop"
  /\ UNCHANGED <<realtime, chan, connected, ready, stop_flag, node, sent, ended, reported, pc>>

SeeStop ==
  /\ thread = "run" /\ stop_flag
  /\ result' = "ok"
  /\ thread' = "drop"
  /\ UNCHANGED <<realtime, chan, connected, ready, stop_flag, node, sent, ended, reported, pc>>

(* Drop for ChannelSender notifies; its fields are dropped after that, and *)
(* only then is the thread over.                                           *)
DropNotify ==
  /\ thread = "drop"
  /\ ready' = Notified
  /\ thread' = "close"
  /\ UNCHANGED <<realtime, chan, connected, result, stop_flag, node, sent, ended, reported, pc>>

DropSender ==
  /\ thread = "close"
  /\ connected' = FALSE
  /\ thread' = "finish"
  /\ UNCHANGED <<realtime, chan, ready, result, stop_flag, node, sent, ended, reported, pc>>

Finish ==
  /\ thread = "finish"
  /\ thread' = "finished"
  /\ UNCHANGED <<realtime, chan, connected, ready, result, stop_flag, node, sent, ended,
                 reported, pc>>

-----------------------------------------------------------------------------
(* The engine. *)
Setup ==
  /\ pc = "setup"
  /\ handle' = "JoinHandle"
  /\ thread' = "run"
  /\ pc' = "start"
  /\ UNCHANGED <<realtime, chan, connected, ready, result, stop_flag, finished, pending_err,
                 values, delivered, sent, ended, reported>>

(* start() refuses a replay. *)
Start ==
  /\ pc = "start"
  /\ IF realtime THEN pc' = "wait" /\ UNCHANGED reported
                 ELSE pc' = "stop" /\ reported' = reported \cup {"start"}
  /\ UNCHANGED <<realtime, chan, connected, ready, sender, stop_flag, node>>

(* The bound of the run is reached, or another node fails. *)
RunEnds ==
  /\ pc = "wait" /\ ~Forever
  /\ pc' = "stop"
  /\ UNCHANGED <<realtime, chan, connected, ready, sender, stop_flag, node, reported>>

(* A pass of the run loop takes the notifications that are there, or waits *)
(* for one, and marks the node.                                            *)
Wake ==
  /\ pc = "wait" /\ ready > 0
  /\ \E taken \in 1..ready : ready' = ready - taken
  /\ pc' = "cycle"
  /\ UNCHANGED <<realtime, chan, connected, sender, stop_flag, node, reported>>

(* cycle() starts with the error that was put off. *)
DeliverError ==
  /\ pc = "cycle" /\ pending_err # "none"
  /\ reported' = reported \cup {pending_err}
  /\ pending_err' = "none"
  /\ pc' = "stop"
  /\ UNCHANGED <<realtime, chan, connected, ready, sender, stop_flag, handle, finished, values,
                 delivered>>

BeginDrain ==
  /\ pc = "cycle" /\ pending_err = "none"
  /\ values' = <<>>
  /\ pc' = "drain"
  /\ UNCHANGED <<realtime, chan, connected, ready, sender, stop_flag, handle, finished,
                 pending_err, delivered, reported>>

(* ChannelReceiverStream::cycle in realtime: try_recv until there is       *)
(* nothing or the stream has ended.  A closed channel reads as the end.    *)
RecvValue ==
  /\ pc = "drain" /\ ~finished /\ chan # <<>> /\ Head(chan).kind = "RealtimeValue"
  /\ values' = Append(values, Head(chan).value)
  /\ chan' = Tail(chan)
  /\ UNCHANGED <<realtime, connected, ready, sender, stop_flag, handle, finished, pending_err,
                 delivered, reported, pc>>

RecvEnd ==
  /\ pc = "drain" /\ ~finished
  /\ \/ chan # <<>> /\ Head(chan).kind = "EndOfStream" /\ chan' = Tail(chan)
     \/ chan = <<>> /\ ~connected /\ UNCHANGED chan
  /\ finished' = TRUE
  /\ UNCHANGED <<realtime, connected, ready, sender, stop_flag, handle, pending_err, values,
                 delivered, reported, pc>>

(* The values read before an error message are dropped with it. *)
RecvError ==
  /\ pc = "drain" /\ ~finished /\ chan # <<>> /\ Head(chan).kind = "Error"
  /\ chan' = Tail(chan)
  /\ reported' = reported \cup {"message"}
  /\ pc' = "stop"
  /\ UNCHANGED <<realtime, connected, ready, sender, stop_flag, node>>

DrainDone ==
  /\ pc = "drain"
  /\ finished \/ (chan = <<>> /\ connected)
  /\ delivered' = delivered \o values
  /\ pc' = "check"
  /\ UNCHANGED <<realtime, chan, connected, ready, sender, stop_flag, handle, finished,
                 pending_err, values, reported>>

(* check_running.  The thread goes on, or its end has been seen before. *)
Healthy ==
  /\ pc = "check"
  /\ handle = "Done" \/ thread # "finished"
  /\ pc' = "wait"
  /\ UNCHANGED <<realtime, chan, connected, ready, sender, stop_flag, node, reported>>

CleanExit ==
  /\ pc = "check" /\ handle = "JoinHandle" /\ thread = "finished"
  /\ result = "ok" /\ finished
  /\ handle' = "Done"
  /\ pc' = "wait"
  /\ UNCHANGED <<realtime, chan, connected, ready, sender, stop_flag, finished, pending_err,
                 values, delivered, reported>>

(* The thread is over and failed, or it returned without an end of stream  *)
(* that the node has seen: the error waits for one more cycle.             *)
DeferError ==
  /\ pc = "check" /\ handle = "JoinHandle" /\ thread = "finished"
  /\ result = "err" \/ ~finished
  /\ pending_err' = IF result = "err" THEN "thread" ELSE "exited"
  /\ handle' = "Empty"
  /\ ready' = Notified
  /\ pc' = "wait"
  /\ UNCHANGED <<realtime, chan, connected, sender, stop_flag, finished, values, delivered,
                 reported>>

(* A wrong form of Stop, which does not tell the thread. *)
StopSilently ==
  /\ pc = "stop"
  /\ pc' = "join"
  /\ UNCHANGED <<realtime, chan, connected, ready, sender, stop_flag, node, reported>>

Stop ==
  /\ pc = "stop"
  /\ stop_flag' = TRUE
  /\ pc' = "join"
  /\ UNCHANGED <<realtime, chan, connected, ready, sender, node, reported>>

(* A wrong form of Join, which forgets what the thread returned. *)
JoinIgnores ==
  /\ pc = "join" /\ handle = "JoinHandle" /\ thread = "finished"
  /\ handle' = "Empty"
  /\ pc' = "teardown"
  /\ UNCHANGED <<realtime, chan, connected, ready, sender, stop_flag, finished, pending_err,
                 values, delivered, reported>>

(* A wrong form of Join, which lets go of the thread. *)
Detach ==
  /\ pc = "join" /\ handle = "JoinHandle"
  /\ handle' = "Empty"
  /\ reported' = IF result = "err" THEN reported \cup {"thread"} ELSE reported
  /\ pc' = "teardown"
  /\ UNCHANGED <<realtime, chan, connected, ready, sender, stop_flag, finished, pending_err,
                 values, delivered>>

(* State::stop: wait for the thread, if nobody has done so yet. *)
Join ==
  /\ pc = "join" /\ handle = "JoinHandle" /\ thread = "finished"
  /\ handle' = "Empty"
  /\ reported' = IF result = "err" THEN reported \cup {"thread"} ELSE reported
  /\ pc' = "teardown"
  /\ UNCHANGED <<realtime, chan, connected, ready, sender, stop_flag, finished, pending_err,
                 values, delivered>>

Joined ==
  /\ pc = "join" /\ handle # "JoinHandle"
  /\ handle' = "Empty"
  /\ pc' = "teardown"
  /\ UNCHANGED <<realtime, chan, connected, ready, sender, stop_flag, finished, pending_err,
                 values, delivered, reported>>

(* ChannelReceiver::teardown looks for the sender and waits up to a second *)
(* for it to be gone.                                                      *)
Teardown ==
  /\ pc = "teardown" /\ ~connected
  /\ pc' = "done"
  /\ UNCHANGED <<realtime, chan, connected, ready, sender, stop_flag, node, reported>>

-----------------------------------------------------------------------------
Leaving == Notify \/ NotifyLast \/ SeeStop \/ DropNotify \/ DropSender \/ Finish

Thread == SendValue \/ SendLast \/ ReturnEarly \/ Leaving

Cycle == \/ DeliverError \/ BeginDrain \/ RecvValue \/ RecvEnd \/ RecvError \/ DrainDone
         \/ Healthy \/ CleanExit \/ DeferError

Engine == Setup \/ Start \/ Wake \/ Cycle \/ Stop \/ Join \/ Joined \/ Teardown

Next == Thread \/ Engine \/ RunEnds

(* The engine thread runs while it can.  The thread finishes what it is    *)
(* in the middle of, and its function looks at the stop flag again: both   *)
(* subscribers poll with a timeout.  It need neither send nor return.      *)
Spec == Init /\ [][Next]_vars /\ WF_vars(Engine) /\ WF_vars(Leaving)

-----------------------------------------------------------------------------
Over == pc \in {"stop", "join", "teardown", "done"}

(* No wake-up is lost: while the engine waits, a message in the channel    *)
(* has a notification in the queue or about to be put there, whenever it   *)
(* was pushed.                                                             *)
NoLostWakeup ==
  pc = "wait" /\ chan # <<>> => ready > 0 \/ thread \in {"notify", "last"}

(* An error that was put off has its wake-up, and only a node whose thread *)
(* is over has one.                                                        *)
DeferredIsWoken ==
  pending_err # "none" => thread = "finished" /\ (pc = "wait" => ready > 0)

(* When the receiver is torn down the thread is over and its sender gone:  *)
(* teardown never has to wait, and no thread outlives the run.             *)
NoThreadLeft == pc \in {"teardown", "done"} => thread = "finished" /\ ~connected

(* The engine hears of every message, and of the end of the thread.        *)
ReceiverSound == NoLostWakeup /\ NoThreadLeft

(* A failed thread makes the run fail, unless the run ended between the    *)
(* discovery of the error and the cycle it was put off to.                 *)
FailureIsReported ==
  pc = "done" /\ result = "err" => reported # {} \/ pending_err = "thread"

(* The node ticks with every value, in the order of sending and once, up   *)
(* to where the channel has been read, and with all of them once it has    *)
(* read the end of the stream.                                             *)
DeliveredInOrder ==
  /\ \A k \in 1..Len(delivered) : delivered[k] = k
  /\ pc = "wait" /\ ended /\ finished => Len(delivered) = sent

(* The thread's values and its failure reach the graph.                    *)
NothingSwallowed == FailureIsReported /\ DeliveredInOrder

(* Every value that is sent is delivered, or the run ends.                 *)
SentIsDelivered == \A k \in 1..MaxSends : sent = k ~> (Len(delivered) >= k \/ Over)

(* Once the run ends, it shuts down.                                       *)
StopEnds == pc = "stop" ~> pc = "done"

(* The receiver makes progress, while the run lasts and at its end.        *)
ReceiverProgress == SentIsDelivered /\ StopEnds

-----------------------------------------------------------------------------
(* The inductive invariant behind NoLostWakeup, DeferredIsWoken and        *)
(* NoThreadLeft.                                                           *)
Sending == thread \in {"none", "run", "notify"}
Running == pc \in {"wait", "cycle", "drain", "check"}

(* The sender is dropped between the last two steps of the thread. *)
ThreadInv ==
  /\ connected = (thread \notin {"finish", "finished"})
  /\ (thread = "none") = (pc = "setup")
  /\ (handle = "Func") = (pc = "setup")
  /\ handle \in {"Done", "Empty"} => thread = "finished"

(* The end of the stream is the last message, and nothing is read after it.*)
ChannelInv ==
  /\ \A k \in 1..Len(chan) : chan[k].kind # "RealtimeValue" => k = Len(chan) /\ ~Sending
  /\ finished => chan = <<>> /\ ~Sending
  /\ thread = "none" => chan = <<>>

(* The handle is given up for a pending error, or in stop(). *)
ErrorInv ==
  /\ Running => realtime
  /\ pending_err # "none" => handle = "Empty"
  /\ handle = "Empty" => pc \notin {"start", "drain", "check"}
  /\ handle = "Empty" /\ pc \in {"wait", "cycle"} => pending_err # "none"
  /\ pc \in {"teardown", "done"} => handle = "Empty"

WakeInv ==
  /\ pending_err # "none" /\ pc = "wait" => ready > 0
  /\ pc \in {"start", "wait", "check"} /\ realtime /\ chan # <<>> =>
       ready > 0 \/ thread \in {"notify", "last"}

ReceiverInv == TypeOK /\ ThreadInv /\ ChannelInv /\ ErrorInv /\ WakeInv

(* The strengthening behind NothingSwallowed.  Until the run is over, what *)
(* the node has ticked with, what this cycle has read and what is in the   *)
(* channel are the numbers of the values that were sent, in order and      *)
(* without a gap.                                                          *)
Read == Len(delivered) + (IF pc = "drain" THEN Len(values) ELSE 0)
EndsWithValue == chan = <<>> \/ chan[Len(chan)].kind = "RealtimeValue"

OrderInv ==
  /\ \A k \in 1..Len(delivered) : delivered[k] = k
  /\ pc = "drain" => \A k \in 1..Len(values) : values[k] = Len(delivered) + k
  /\ ~Over => /\ \A k \in 1..Len(chan) :
                    chan[k].kind = "RealtimeValue" => chan[k].value = Read + k
              /\ Read + Len(chan) = (IF EndsWithValue THEN sent ELSE sent + 1)

(* The function has a result once it has returned.  The handle is given up *)
(* for a result that was good, or with the failure on record.              *)
FailureInv ==
  /\ thread \in {"none", "run", "notify", "last"} => result = "none"
  /\ handle = "Done" => result = "ok"
  /\ handle = "Empty" /\ result = "err" => reported # {} \/ pending_err = "thread"

DeliveryInv == ReceiverInv /\ OrderInv /\ FailureInv
=============================================================================
