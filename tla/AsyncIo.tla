------------------------------ MODULE AsyncIo -------------------------------
(***************************************************************************)
(* nodes/async_io.rs: a graph that reads from an async function            *)
(* (produce_async) and writes to one (consume_async).  The two functions   *)
(* are tasks of the tokio runtime, the graph is a thread; channels connect *)
(* them.  The consumer's source is the producer's stream, or a ticker.     *)
(*                                                                         *)
(* A producer's function yields the results of a reader (TimeSlices).  A   *)
(* consumer's function takes what it is given until its stream ends, and   *)
(* may fail at a value.                                                    *)
(***************************************************************************)
EXTENDS ChannelReceiver, TimeSlices

CONSTANTS
  Runs,      \* the runs explored: [realtime, start, run_for, reader, buffer, ticker]
  Failing    \* the values at which the consumer's function may fail

Run == [realtime : BOOLEAN, start : Nat,
        run_for : [kind : {"Duration", "Cycles", "Forever"}, bound : Nat],
        reader : [kind : {"kdb_read", "postgres_read", "stream"}, period : Nat,
                  by_date : BOOLEAN, failing : SUBSET Nat, table : Seq([ok : BOOLEAN,
                  time : Nat, value : Nat])],
        buffer : Nat,    \* buffer_size; 0: unbounded
        ticker : Nat]    \* the interval of the consumer's ticker; 0: there is none

ASSUME AsyncIoAssumption == Runs \subseteq Run

VARIABLES
  run,
  messages,   \* what the producer's task has yet to send
  producer,   \* where the producer's task is
  inbox,      \* the channel from it
  recv,       \* the ChannelReceiverStream of the producer's node
  engine,     \* the run loop
  woken,      \* a ready notification is pending
  at,         \* where the graph's thread is
  outbox,     \* the channel to the consumer's task
  open,       \* the ends of that channel: a subset of {"sender", "receiver"}
  consumer,   \* the consumer's task, and its limit()
  ticked,     \* history: what the producer's node has ticked with
  offered,    \* history: what the consumer's node was to send
  consumed    \* history: what the consumer's function has taken

asyncVars == <<run, messages, producer, inbox, recv, engine, woken, at, outbox, open,
               consumer, ticked, offered, consumed>>
reading == <<messages, producer, inbox>>
writing == <<outbox, open, consumer, consumed>>

Realtime == run.realtime
Ticks == run.ticker > 0

-----------------------------------------------------------------------------
(* to_message_stream: in a replay the consecutive values of one time are   *)
(* one message, completed by a value of another time or by an error.       *)
Flushed(acc) ==
  IF acc.pending = <<>> THEN acc.out
  ELSE Append(acc.out, HistoricalValue(acc.pending, acc.time))

Grouped(acc, r) ==
  IF ~ r.ok THEN [out |-> Append(Flushed(acc), ErrorMessage), pending |-> <<>>, time |-> 0]
  ELSE IF acc.pending # <<>> /\ acc.time = r.time
  THEN [acc EXCEPT !.pending = Append(@, r.value)]
  ELSE [out |-> Flushed(acc), pending |-> <<r.value>>, time |-> r.time]

to_message_stream(results, realtime) ==
  IF realtime
  THEN Append([k \in 1..Len(results) |-> IF results[k].ok THEN RealtimeValue(<<results[k].value>>)
                                         ELSE ErrorMessage], EndOfStream)
  ELSE LET all == FoldLeft(Grouped, [out |-> <<>>, pending |-> <<>>, time |-> 0], results)
       IN  Append(Flushed(all), EndOfStream)

Earliest(S) == CHOOSE t \in S : \A u \in S : t <= u

(* RunFor::done, after the message of that number, counted from 0. *)
done(run_for, cycle, elapsed) ==
  \/ run_for.kind = "Cycles" /\ cycle > run_for.bound
  \/ run_for.kind = "Duration" /\ elapsed > run_for.bound

(* limit, of a replay: the messages up to the first one after which the    *)
(* run is done; it is yielded too.                                         *)
Limit(msgs, run_for, start) ==
  LET Before(k) == {l \in 1..k : msgs[l].kind = "HistoricalValue"}
      Time(k) == IF Before(k) = {} THEN start
                 ELSE msgs[CHOOSE l \in Before(k) : \A i \in Before(k) : i <= l].time
      Ends == {k \in 1..Len(msgs) : done(run_for, k - 1, Time(k) - start)}
  IN  IF Ends = {} THEN msgs ELSE SubSeq(msgs, 1, Earliest(Ends))

(* The function fails, or its stream is sent. *)
Produced(r) ==
  IF Rejected(r.reader, r.start, r.run_for) THEN <<ErrorMessage>>
  ELSE LET all == to_message_stream(ReadResults(r.reader, r.start, r.run_for), r.realtime)
       IN  IF r.realtime THEN all ELSE Limit(all, r.run_for, r.start)

-----------------------------------------------------------------------------
AsyncType ==
  /\ run \in Runs
  /\ messages \in Seq(Message) /\ inbox \in Seq(Message)
  /\ producer \in {"none", "send", "notify", "end", "close", "over"}
  /\ IsReceiver(recv)
  /\ engine.time \in Nat /\ engine.callbacks \subseteq Nat
  /\ engine.error \in {"none", "refused", "early", "consumer", "closed"}
  /\ woken \in BOOLEAN
  /\ at \in {"top", "receive", "deliver", "check", "send", "stop", "abort", "await", "done"}
  /\ outbox \in Seq(Message) /\ open \subseteq {"sender", "receiver"}
  /\ consumer.pc \in {"run", "returns", "failing", "ok", "failed", "taken"}

(* The tasks are spawned by setup(); a replay asks for its first cycle,    *)
(* and so does a ticker.                                                   *)
AsyncInit ==
  /\ run \in Runs
  /\ messages = Produced(run)
  /\ inbox = <<>> /\ outbox = <<>>
  /\ producer = IF Ticks THEN "none" ELSE "send"
  /\ recv = NewReceiver
  /\ engine = [time |-> run.start, cycles |-> 0, first |-> TRUE, last |-> FALSE, error |-> "none",
               callbacks |-> IF Realtime THEN {} ELSE {run.start}]
  /\ woken = FALSE /\ at = "top"
  /\ open = {"sender", "receiver"}
  /\ consumer = [pc |-> "run", cycle |-> 0]
  /\ ticked = <<>> /\ offered = <<>> /\ consumed = <<>>

-----------------------------------------------------------------------------
(* The producer's task.  Of a bounded channel it waits for room. *)
HasRoom == run.buffer = 0 \/ Len(inbox) < run.buffer
Send(m, after) ==
  /\ HasRoom
  /\ inbox' = Append(inbox, m)
  /\ producer' = IF Realtime THEN after ELSE IF after = "end" THEN "close" ELSE "send"

(* Of a realtime stream the limit is the clock, which passes the end at    *)
(* any moment.                                                             *)
ProducerSend ==
  /\ producer = "send" /\ messages # <<>>
  /\ Send(Head(messages), "notify")
  /\ \/ messages' = Tail(messages)
     \/ Realtime /\ run.run_for.kind = "Duration" /\ messages' = <<>>
  /\ UNCHANGED <<run, recv, engine, woken, at, writing, ticked, offered>>

ProducerEnd ==
  /\ producer = "send" /\ messages = <<>>
  /\ Send(EndOfStream, "end")
  /\ UNCHANGED <<run, messages, recv, engine, woken, at, writing, ticked, offered>>

ProducerNotify ==
  /\ producer \in {"notify", "end"}
  /\ woken' = TRUE
  /\ producer' = IF producer = "notify" THEN "send" ELSE "close"
  /\ UNCHANGED <<run, messages, inbox, recv, engine, at, writing, ticked, offered>>

ProducerClose ==
  /\ producer = "close"
  /\ producer' = "over"
  /\ UNCHANGED <<run, messages, inbox, recv, engine, woken, at, writing, ticked, offered>>

-----------------------------------------------------------------------------
(* The run loop of the graph, as in GraphEngine. *)
time_done == run.run_for.kind = "Duration" /\ engine.time >= run.start + run.run_for.bound
Finished ==
  \/ run.run_for.kind = "Cycles" /\ engine.cycles >= run.run_for.bound
  \/ ~ Realtime /\ engine.last /\ time_done

EndRun ==
  /\ at = "top"
  /\ \/ Finished
     \/ ~ Realtime /\ engine.callbacks = {}
     \/ Realtime /\ run.run_for.kind = "Duration"
  /\ at' = "stop"
  /\ UNCHANGED <<run, reading, recv, engine, woken, writing, ticked, offered>>

NextTime ==
  IF Realtime THEN engine.time
  ELSE IF engine.first \/ Earliest(engine.callbacks) > engine.time
  THEN Earliest(engine.callbacks) ELSE engine.time + 1

Begun == [engine EXCEPT !.time = NextTime, !.first = FALSE, !.cycles = @ + 1,
                        !.last = @ \/ time_done, !.callbacks = {t \in @ : t > NextTime}]

(* A cycle of the producer's node ... *)
BeginRead ==
  /\ at = "top" /\ ~ Finished /\ ~ Ticks
  /\ IF Realtime THEN woken ELSE engine.callbacks # {}
  /\ engine' = Begun
  /\ woken' = FALSE
  /\ at' = "receive"
  /\ UNCHANGED <<run, reading, recv, writing, ticked, offered>>

(* ... and of a ticker. *)
BeginTick ==
  /\ at = "top" /\ ~ Finished /\ Ticks /\ ~ Realtime
  /\ engine' = [Begun EXCEPT !.callbacks = @ \cup {NextTime + run.ticker}]
  /\ offered' = Append(offered, HistoricalValue(<<Len(offered) + 1>>, NextTime))
  /\ at' = "check"
  /\ UNCHANGED <<run, reading, recv, woken, writing, ticked>>

-----------------------------------------------------------------------------
(* ChannelReceiverStream::cycle. *)
Silent == inbox = <<>> /\ producer # "over"
HasRead == CaughtUp(recv, Realtime, FALSE, engine.time, Silent)

Receive ==
  /\ at = "receive" /\ ~ HasRead /\ ~ Silent
  /\ LET m == IF inbox = <<>> THEN EndOfStream ELSE Head(inbox)
     IN  /\ inbox' = IF inbox = <<>> THEN inbox ELSE Tail(inbox)
         /\ IF Refused(m, Realtime, engine.time)
            THEN /\ engine' = [engine EXCEPT !.error = "refused"]
                 /\ at' = "stop"
                 /\ UNCHANGED recv
            ELSE /\ recv' = Taken(recv, m, Realtime)
                 /\ UNCHANGED <<engine, at>>
  /\ UNCHANGED <<run, messages, producer, woken, writing, ticked, offered>>

(* The node ticks with a burst, which is the consumer's value. *)
Deliver ==
  /\ at = "receive" /\ HasRead
  /\ LET burst == Burst(recv, engine.time)
         value == IF Realtime THEN RealtimeValue(burst) ELSE HistoricalValue(burst, engine.time)
     IN  /\ ticked' = ticked \o [k \in 1..Len(burst) |-> Row(engine.time, burst[k])]
         /\ offered' = IF burst = <<>> THEN offered ELSE Append(offered, value)
         /\ at' = IF burst = <<>> THEN "top" ELSE "check"
  /\ recv' = AfterBurst(recv, engine.time)
  /\ engine' = [engine EXCEPT !.callbacks = @ \cup Callbacks(recv, Realtime, FALSE, engine.time)]
  /\ UNCHANGED <<run, reading, woken, writing>>

-----------------------------------------------------------------------------
(* AsyncConsumerNode::cycle: a task that has ended is an error, of which   *)
(* the task's own is the cause; then the value is sent.                    *)
Check ==
  /\ at = "check"
  /\ IF consumer.pc \in {"ok", "failed"}
     THEN /\ engine' = [engine EXCEPT !.error = IF consumer.pc = "ok" THEN "early" ELSE "consumer"]
          /\ consumer' = [consumer EXCEPT !.pc = "taken"]
          /\ at' = "stop"
     ELSE /\ at' = "send"
          /\ UNCHANGED <<engine, consumer>>
  /\ UNCHANGED <<run, reading, recv, woken, outbox, open, consumed, ticked, offered>>

SendToConsumer ==
  /\ at = "send"
  /\ IF "receiver" \in open
     THEN /\ outbox' = Append(outbox, offered[Len(offered)])
          /\ at' = "top"
          /\ UNCHANGED engine
     ELSE /\ engine' = [engine EXCEPT !.error = "closed"]
          /\ at' = "stop"
          /\ UNCHANGED outbox
  /\ UNCHANGED <<run, reading, recv, woken, open, consumer, consumed, ticked, offered>>

(* A wrong form of StopGraph: no EndOfStream is sent, the sender is kept.  *)
StopKeepsSender ==
  /\ at = "stop"
  /\ at' = "abort"
  /\ UNCHANGED <<run, reading, recv, engine, woken, writing, ticked, offered>>

(* stop(): the consumer's stream ends. *)
StopGraph ==
  /\ at = "stop"
  /\ outbox' = IF "receiver" \in open THEN Append(outbox, EndOfStream) ELSE outbox
  /\ open' = open \ {"sender"}
  /\ at' = "abort"
  /\ UNCHANGED <<run, reading, recv, engine, woken, consumer, consumed, ticked, offered>>

(* teardown() of the producer's node aborts its task, wherever it waits. *)
Abort ==
  /\ at = "abort"
  /\ producer' = IF producer = "none" THEN "none" ELSE "over"
  /\ at' = "await"
  /\ UNCHANGED <<run, messages, inbox, recv, engine, woken, writing, ticked, offered>>

(* teardown() of the consumer's node waits for its task, and returns how   *)
(* it has ended, unless cycle() has.  The first error is the run's.        *)
Await ==
  /\ at = "await" /\ consumer.pc \in {"ok", "failed", "taken"}
  /\ engine' = [engine EXCEPT !.error =
                  IF @ = "none" /\ consumer.pc = "failed" THEN "consumer" ELSE @]
  /\ at' = "done"
  /\ UNCHANGED <<run, reading, recv, woken, writing, ticked, offered>>

-----------------------------------------------------------------------------
(* A wrong form of Past, in which the run is over at its very end. *)
PastAtEnd(m) ==
  IF Realtime THEN IF run.run_for.kind = "Duration" THEN BOOLEAN ELSE {FALSE}
  ELSE {run.run_for.kind = "Duration" /\ m.time - run.start >= run.run_for.bound}

(* The consumer's task: limit() and to_stream() of its channel, and the    *)
(* function.  The clock of a realtime run may have passed the end.         *)
Past(m) ==
  IF Realtime THEN IF run.run_for.kind = "Duration" THEN BOOLEAN ELSE {FALSE}
  ELSE {done(run.run_for, consumer.cycle, IF m.kind = "EndOfStream" THEN 0 ELSE m.time - run.start)}

ConsumerTake ==
  /\ consumer.pc = "run" /\ outbox # <<>>
  /\ LET m == Head(outbox)
     IN  /\ consumed' = IF m.kind = "EndOfStream" THEN consumed ELSE Append(consumed, m)
         /\ \/ \E past \in Past(m) :
                 consumer' = [cycle |-> consumer.cycle + 1,
                              pc |-> IF past \/ m.kind = "EndOfStream" THEN "returns" ELSE "run"]
            \/ /\ \E k \in DOMAIN m.value : m.value[k] \in Failing
               /\ consumer' = [consumer EXCEPT !.pc = "failing"]
  /\ outbox' = Tail(outbox)
  /\ UNCHANGED <<run, reading, recv, engine, woken, at, open, ticked, offered>>

(* The function returns: its stream and the receiver go first, and then    *)
(* the task is finished.                                                   *)
ConsumerReturns ==
  /\ consumer.pc \in {"returns", "failing"} /\ "receiver" \in open
  /\ open' = open \ {"receiver"}
  /\ outbox' = <<>>
  /\ UNCHANGED <<run, reading, recv, engine, woken, at, consumer, consumed, ticked, offered>>

ConsumerFinishes ==
  /\ consumer.pc \in {"returns", "failing"} /\ "receiver" \notin open
  /\ consumer' = [consumer EXCEPT !.pc = IF consumer.pc = "returns" THEN "ok" ELSE "failed"]
  /\ UNCHANGED <<run, reading, recv, engine, woken, at, outbox, open, consumed, ticked, offered>>

-----------------------------------------------------------------------------
Graph ==
  \/ EndRun \/ BeginRead \/ BeginTick \/ Receive \/ Deliver \/ Check \/ SendToConsumer
  \/ StopGraph \/ Abort \/ Await
Producer == ProducerSend \/ ProducerEnd \/ ProducerNotify \/ ProducerClose
Consumer == ConsumerTake \/ ConsumerReturns \/ ConsumerFinishes
AsyncNext == Graph \/ Producer \/ Consumer

(* The thread and the tasks run, and the clock of a realtime run reaches   *)
(* its end.                                                                *)
Fairness == /\ WF_asyncVars(Graph) /\ WF_asyncVars(EndRun)
            /\ WF_asyncVars(Producer) /\ WF_asyncVars(Consumer)
AsyncSpec == AsyncInit /\ [][AsyncNext]_asyncVars /\ Fairness

-----------------------------------------------------------------------------
Sliced == run.reader.kind # "stream" /\ ~ Ticks
RowsAt(table, t) == SelectSeq(table, LAMBDA r : r.time = t)
RowsOf(table) ==
  FlattenSeq([k \in 1..run.run_for.bound |-> RowsAt(table, run.start + k - 1)])

(* A replay of a table sees, each at its own time, the rows of the run's   *)
(* window, all of them, once and in order, however the window falls on     *)
(* days and periods; with an error it sees a prefix of them.               *)
RowsOfTheWindow ==
  (Sliced /\ ~ Realtime /\ at = "done") =>
    IF engine.error = "none"
    THEN Validated(run.start, run.run_for, run.reader.period) /\ ticked = RowsOf(run.reader.table)
    ELSE IsPrefix(ticked, RowsOf(run.reader.table))

(* What the consumer's function has taken is the beginning of what its     *)
(* source has ticked with, in order; a replay that ends without an error   *)
(* has left nothing of it, up to the first value after the run's end.      *)
SinkComplete ==
  /\ IsPrefix(consumed, offered)
  /\ (at = "done" /\ engine.error = "none" /\ ~ Realtime) =>
       \A k \in DOMAIN offered :
         (k = 1 \/ ~ done(run.run_for, k - 2, offered[k - 1].time - run.start)) => k <= Len(consumed)

(* The failure of a task is the run's: no replay that reads to the end     *)
(* succeeds with results cut short by an error, or with a consumer that    *)
(* has failed.  And nothing else is an error: no row is refused as late,   *)
(* and that a consumer has ended is an error only when it had taken a      *)
(* value after the run's end.                                              *)
FailureReported ==
  at = "done" =>
    /\ consumer.pc = "failed" => engine.error # "none"
    /\ (~ Realtime /\ ~ Ticks /\ (Sliced \/ run.run_for.kind = "Forever") /\ engine.error = "none") =>
         /\ ~ Rejected(run.reader, run.start, run.run_for)
         /\ \A r \in ToSet(ReadResults(run.reader, run.start, run.run_for)) : r.ok
    /\ engine.error = "refused" =>
         \/ Rejected(run.reader, run.start, run.run_for)
         \/ \E r \in ToSet(ReadResults(run.reader, run.start, run.run_for)) : ~ r.ok
    /\ (engine.error = "early" /\ ~ Realtime) =>
         \E k \in DOMAIN consumed : done(run.run_for, k - 1, consumed[k].time - run.start)

(* Between the tasks and the graph nothing is lost, added or kept quiet.   *)
AsyncExact == RowsOfTheWindow /\ SinkComplete /\ FailureReported

(* Nobody waits for ever: a replay ends, and a realtime run that has a     *)
(* duration, with both tasks over, also when the producer waits for room   *)
(* in a channel that is no longer read.                                    *)
AsyncEnds ==
  (~ Realtime \/ run.run_for.kind = "Duration")
    => <>(at = "done" /\ producer \in {"none", "over"} /\ consumer.pc \in {"ok", "failed", "taken"})

=============================================================================
