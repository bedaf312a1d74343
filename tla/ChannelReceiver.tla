--------------------------- MODULE ChannelReceiver --------------------------
(***************************************************************************)
(* channel/message.rs and ChannelReceiverStream of nodes/channel.rs: the   *)
(* messages between threads and how a node takes them.  The node is the    *)
(* record of its fields and of the local `values' of its cycle(); the      *)
(* operators say what one step of cycle() does to it.                      *)
(***************************************************************************)
EXTENDS Integers, Sequences, SequencesExt

HistoricalValue(b, t) == [kind |-> "HistoricalValue", value |-> b, time |-> t]
RealtimeValue(b) == [kind |-> "RealtimeValue", value |-> b, time |-> 0]
CheckPoint(t) == [kind |-> "CheckPoint", value |-> <<>>, time |-> t]
EndOfStream == [kind |-> "EndOfStream", value |-> <<>>, time |-> 0]
ErrorMessage == [kind |-> "Error", value |-> <<>>, time |-> 0]
Message == [kind : {"HistoricalValue", "RealtimeValue", "CheckPoint", "EndOfStream", "Error"},
            value : Seq(Nat), time : Nat]

NoTime == -1
NewReceiver == [finished |-> FALSE, message_time |-> NoTime, queue |-> <<>>, values |-> <<>>]
IsReceiver(r) ==
  /\ r.finished \in BOOLEAN
  /\ r.message_time \in Nat \cup {NoTime}
  /\ r.queue \in Seq(Message)
  /\ r.values \in Seq(Nat)

(* A wrong form of CaughtUp, which never blocks. *)
CaughtUpPolling(r, realtime, triggered, now, silent) ==
  \/ r.finished
  \/ silent
  \/ ~ realtime /\ r.message_time > now
  \/ ~ realtime /\ r.message_time = now /\ triggered

(* Nothing more is read in this cycle.  In realtime: the channel is empty  *)
(* (and not closed: silent).  In a replay: a message of a later time has   *)
(* been read; or one of this time, and either a trigger will run the node  *)
(* again or there is no other yet.  Otherwise the node blocks for one.     *)
CaughtUp(r, realtime, triggered, now, silent) ==
  \/ r.finished
  \/ realtime /\ silent
  \/ ~ realtime /\ r.message_time > now
  \/ ~ realtime /\ r.message_time = now /\ (triggered \/ silent)

(* The messages that end the run with an error. *)
Refused(m, realtime, now) ==
  \/ m.kind = "Error"
  \/ ~ realtime /\ m.kind = "RealtimeValue"
  \/ ~ realtime /\ m.kind = "HistoricalValue" /\ m.time < now

Taken(r, m, realtime) ==
  CASE m.kind = "EndOfStream" -> [r EXCEPT !.finished = TRUE]
    [] m.kind = "CheckPoint" -> IF realtime THEN r ELSE [r EXCEPT !.message_time = m.time]
    [] m.kind \in {"HistoricalValue", "RealtimeValue"} /\ realtime ->
         [r EXCEPT !.values = @ \o m.value]
    [] OTHER -> [r EXCEPT !.message_time = m.time, !.queue = Append(@, m)]

(* What the cycle ticks with, and what stays in the queue: in the order of *)
(* the times, so the messages that are due come first.                     *)
Due(m, now) == m.time <= now
Waiting(r, now) ==
  FlattenSeq([k \in DOMAIN r.queue |-> IF Due(r.queue[k], now) THEN <<>> ELSE <<r.queue[k]>>])
Burst(r, now) ==
  r.values \o
    FlattenSeq([k \in DOMAIN r.queue |-> IF Due(r.queue[k], now) THEN r.queue[k].value ELSE <<>>])

AfterBurst(r, now) ==
  [r EXCEPT !.values = <<>>, !.queue = Waiting(r, now),
            !.message_time = IF Waiting(r, now) = <<>> THEN NoTime ELSE @]

(* The callback asked for: the time of the message that waits, or a cycle  *)
(* that blocks for the next one.                                           *)
Callbacks(r, realtime, triggered, now) ==
  IF realtime THEN {}
  ELSE IF Waiting(r, now) # <<>> THEN {Waiting(r, now)[1].time}
  ELSE IF ~ r.finished /\ ~ triggered THEN {now} ELSE {}

=============================================================================
