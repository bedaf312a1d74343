--------------------------- MODULE Subscriptions ---------------------------
(***************************************************************************)
(* The subscribing adapters: etcd_sub, redis_stream_read, redis_sub,       *)
(* postgres_sub, kafka_sub, fluvio_sub and kdb_sub.  Each is a producer    *)
(* task of produce_async over a server that other clients write to while   *)
(* the task connects, takes its snapshot and goes live.  The server is a   *)
(* log of writes; a write is named by its place in the log, which is also  *)
(* its revision, its stream ID or its offset.  Some adapters are pushed to *)
(* (`inbox` is what the server has sent and the task has not read), some   *)
(* pull from a cursor.  `seen` is what the task has yielded to the graph.  *)
(***************************************************************************)
EXTENDS Integers, Sequences, FiniteSets, FiniteSetsExt

CONSTANTS
  SubKinds,       \* the adapters
  SubKeys,        \* keys of the etcd writes
  SubStarts,      \* start offsets, committed offsets and start times
  MaxWrites,      \* bound: writes to the server
  MaxNoise        \* bound: messages that carry no write

ASSUME SubscriptionsAssumption ==
  /\ SubKinds \subseteq {"etcd", "xread", "pubsub", "postgres", "kafka", "fluvio", "kdb"}
  /\ SubKeys \subseteq Int /\ SubStarts \subseteq Int
  /\ MaxWrites \in Nat /\ MaxNoise \in Nat

VARIABLES
  log,      \* the server: the writes so far
  link,     \* TRUE while the connection is up
  noise,    \* messages without a write so far
  sub       \* the subscriber

subVars == <<log, link, noise, sub>>

Noise == 0
N == Len(log)
Pushed == {"etcd", "pubsub", "postgres", "kdb"}

\* The first await of each producer.
FirstStep(kind) ==
  CASE kind = "etcd" -> "watch"
    [] kind = "xread" -> "xrange"
    [] kind \in {"pubsub", "postgres", "kdb"} -> "register"
    [] OTHER -> "live"

\* fluvio_sub: a negative start offset was noted when the node was made and
\* fails the run at once.  kafka_sub goes on from the committed offset of its
\* group, postgres_sub from start_from.
SubInit ==
  /\ log = <<>> /\ link = TRUE /\ noise = 0
  /\ \E kind \in SubKinds, from \in SubStarts, realtime \in BOOLEAN :
       /\ from # 0 => kind \in {"postgres", "kafka", "fluvio"}
       /\ from < 0 => kind = "fluvio"
       /\ realtime \/ kind \in {"postgres", "kdb"}
       /\ sub = [kind |-> kind, from |-> from, realtime |-> realtime,
                 pc |-> IF kind = "fluvio" /\ from < 0 THEN "invalid" ELSE FirstStep(kind),
                 cursor |-> from, base |-> 0, inbox |-> <<>>, seen |-> <<>>,
                 registered |-> FALSE, err |-> FALSE]

\* The task yields an error and ends; the end of `stream!` without one.
SubFail == [sub EXCEPT !.pc = "ended", !.err = TRUE]
SubEnd == [sub EXCEPT !.pc = "ended"]

SubAt(kind, pc) == sub.kind = kind /\ sub.pc = pc
See(writes) == [sub EXCEPT !.seen = @ \o writes]
Upto(a, b) == [i \in 1 .. (IF b > a THEN b - a ELSE 0) |-> a + i]

-----------------------------------------------------------------------------
(* The server and the connection *)

\* Another client writes: a put or a delete of a key (etcd), a row whose
\* timestamp may equal the one before and which may not decode (postgres,
\* kdb), an entry, a message or a record.
ServerWrite ==
  /\ N < MaxWrites
  /\ \E key \in SubKeys, del \in BOOLEAN, tie \in BOOLEAN, ok \in BOOLEAN :
       /\ sub.kind # "etcd" => key = 1 /\ ~ del
       /\ tie => sub.kind = "postgres" /\ N > 0
       /\ ~ ok => sub.kind \in {"postgres", "kdb"}
       /\ log' = Append(log, [key |-> key, del |-> del, ok |-> ok,
                              time |-> IF N = 0 THEN 1
                                       ELSE log[N].time + (IF tie THEN 0 ELSE 1)])
       /\ sub' = IF sub.registered /\ link
                 THEN [sub EXCEPT !.inbox = Append(@, N + 1)] ELSE sub
  /\ UNCHANGED <<link, noise>>

\* A message without a write: a heartbeat or .u.end of the tickerplant, an
\* unrelated notification, librdkafka's UnknownTopicOrPartition.
ServerNoise ==
  /\ noise < MaxNoise /\ link
  /\ sub.kind \in {"kdb", "postgres"} /\ sub.registered
  /\ noise' = noise + 1
  /\ sub' = [sub EXCEPT !.inbox = Append(@, Noise)]
  /\ UNCHANGED <<log, link>>

\* The connection is lost: the server closes it, cancels the watch or dies.
LinkDrop ==
  /\ link /\ sub.pc # "ended"
  /\ link' = FALSE
  /\ UNCHANGED <<log, noise, sub>>

\* Any request on a lost connection fails; what was already received is read
\* first, and so is `live` of a pushed subscription.
RequestFails ==
  /\ ~ link /\ sub.pc \in {"watch", "get", "xrange", "register", "query"}
  /\ sub' = SubFail
  /\ UNCHANGED <<log, link, noise>>

-----------------------------------------------------------------------------
(* etcd_sub *)

\* client.watch: the first response is the `created` confirmation.
EtcdWatch ==
  /\ SubAt("etcd", "watch") /\ link
  /\ sub' = [sub EXCEPT !.pc = "get", !.registered = TRUE, !.inbox = <<Noise>>]
  /\ UNCHANGED <<log, link, noise>>

\* The last write of each key of a log prefix, where it is not a delete.
Present(n) ==
  {w \in 1 .. n : /\ ~ log[w].del
                  /\ \A v \in (w + 1) .. n : log[v].key # log[w].key}

\* client.get: the pairs there are, in key order, all stamped with the
\* revision of the answer; they are emitted before the watch is read.
EtcdGet ==
  /\ SubAt("etcd", "get") /\ link
  /\ \E order \in {s \in [1 .. Cardinality(Present(N)) -> Present(N)] :
                     \A i, j \in DOMAIN s : i < j => log[s[i]].key < log[s[j]].key} :
       sub' = [See(order) EXCEPT !.pc = "live", !.cursor = N, !.base = Len(order)]
  /\ UNCHANGED <<log, link, noise>>

\* A wrong form of InSnapshot: an off-by-one on the snapshot's revision.
InSnapshotBefore(rev) == rev < sub.cursor

\* The watch loop's filter: an event of the snapshot is skipped.
InSnapshot(rev) == rev <= sub.cursor

EtcdNext ==
  /\ SubAt("etcd", "live")
  /\ sub' =
       IF sub.inbox = <<>> THEN SubFail
       ELSE LET rev == Head(sub.inbox)
                new == IF rev = Noise \/ InSnapshot(rev) THEN <<>> ELSE <<rev>>
            IN  [See(new) EXCEPT !.inbox = Tail(@)]
  /\ sub.inbox = <<>> => ~ link
  /\ UNCHANGED <<log, link, noise>>

-----------------------------------------------------------------------------
(* redis_stream_read *)

\* XRANGE key - +: everything there is; last_id "0" when there is nothing.
XRange ==
  /\ SubAt("xread", "xrange") /\ link
  /\ sub' = [See(Upto(0, N)) EXCEPT !.pc = "live", !.cursor = N, !.base = N]
  /\ UNCHANGED <<log, link, noise>>

\* XREAD BLOCK 0 from last_id: blocks while there is nothing beyond it.
XRead ==
  /\ SubAt("xread", "live")
  /\ N > sub.cursor \/ ~ link
  /\ sub' = IF link THEN [See(Upto(sub.cursor, N)) EXCEPT !.cursor = N] ELSE SubFail
  /\ UNCHANGED <<log, link, noise>>

-----------------------------------------------------------------------------
(* redis_sub and kdb_sub *)

RedisSubscribe ==
  /\ SubAt("pubsub", "register") /\ link
  /\ sub' = [sub EXCEPT !.pc = "live", !.registered = TRUE, !.cursor = N]
  /\ UNCHANGED <<log, link, noise>>

\* The synchronous .u.sub, only in a real-time run.
KdbSubscribe ==
  /\ SubAt("kdb", "register") /\ link
  /\ sub' = IF ~ sub.realtime THEN SubFail
            ELSE [sub EXCEPT !.pc = "live", !.registered = TRUE, !.cursor = N]
  /\ UNCHANGED <<log, link, noise>>

\* on_message: ends when the connection drops, and then an error is yielded.
PubSubNext ==
  /\ SubAt("pubsub", "live")
  /\ sub' = IF sub.inbox = <<>> THEN SubFail
            ELSE [See(<<Head(sub.inbox)>>) EXCEPT !.inbox = Tail(@)]
  /\ sub.inbox = <<>> => ~ link
  /\ UNCHANGED <<log, link, noise>>

\* receive_message: only an `upd` is decoded; a payload or a row that does not
\* decode ends the stream with an error.
KdbReceive ==
  /\ SubAt("kdb", "live")
  /\ sub' =
       IF sub.inbox = <<>> THEN SubFail
       ELSE LET w == Head(sub.inbox)
            IN  IF w = Noise THEN [sub EXCEPT !.inbox = Tail(@)]
                ELSE IF log[w].ok THEN [See(<<w>>) EXCEPT !.inbox = Tail(@)]
                ELSE SubFail
  /\ sub.inbox = <<>> => ~ link
  /\ UNCHANGED <<log, link, noise>>

-----------------------------------------------------------------------------
(* postgres_sub *)

\* LISTEN, only in a real-time run, before the first query.
PgListen ==
  /\ SubAt("postgres", "register") /\ link
  /\ sub' = IF ~ sub.realtime THEN SubFail
            ELSE [sub EXCEPT !.pc = "query", !.registered = TRUE]
  /\ UNCHANGED <<log, link, noise>>

\* query_fn(cursor): the rows beyond the cursor in time order, up to one that
\* does not decode; the cursor follows their timestamps.  Timestamps never fall,
\* so the rows beyond the cursor are those after some row `old`.
PgQuery ==
  \E old \in 0 .. N :
    LET bad  == {w \in (old + 1) .. N : ~ log[w].ok}
        last == IF bad = {} THEN N ELSE Min(bad) - 1
    IN  /\ SubAt("postgres", "query") /\ link
        /\ \A w \in 1 .. N : log[w].time > sub.cursor <=> w > old
        /\ sub' = [See(Upto(old, last))
                     EXCEPT !.cursor = IF last > old THEN log[last].time ELSE @,
                            !.pc = IF bad = {} THEN "live" ELSE "ended",
                            !.err = bad # {}]
        /\ UNCHANGED <<log, link, noise>>

\* rx.next, then try_recv until nothing is queued: every wake-up means the same.
PgWake ==
  /\ SubAt("postgres", "live")
  /\ sub.inbox # <<>> \/ ~ link
  /\ sub' = IF sub.inbox # <<>> THEN [sub EXCEPT !.pc = "query", !.inbox = <<>>]
            ELSE SubFail
  /\ UNCHANGED <<log, link, noise>>

-----------------------------------------------------------------------------
(* kafka_sub and fluvio_sub *)

\* consumer.recv: the next record of the group, a transient error (skipped), or
\* an error that ends the stream.
KafkaRecv ==
  /\ SubAt("kafka", "live")
  /\ \/ /\ link /\ N > sub.cursor
        /\ sub' = [See(<<sub.cursor + 1>>) EXCEPT !.cursor = @ + 1]
        /\ UNCHANGED noise
     \/ /\ link /\ noise < MaxNoise
        /\ noise' = noise + 1 /\ UNCHANGED sub
     \/ /\ ~ link
        /\ sub' = SubFail /\ UNCHANGED noise
  /\ UNCHANGED <<log, link>>

FluvioInvalid ==
  /\ SubAt("fluvio", "invalid")
  /\ sub' = SubFail
  /\ UNCHANGED <<log, link, noise>>

\* stream.next: a record, a record error, or the end of the stream, which ends
\* the task without an error.
FluvioNext ==
  /\ SubAt("fluvio", "live")
  /\ \/ /\ link /\ N > sub.cursor
        /\ sub' = [See(<<sub.cursor + 1>>) EXCEPT !.cursor = @ + 1]
     \/ ~ link /\ sub' \in {SubFail, SubEnd}
  /\ UNCHANGED <<log, link, noise>>

SubNext ==
  \/ ServerWrite \/ ServerNoise \/ LinkDrop \/ RequestFails
  \/ EtcdWatch \/ EtcdGet \/ EtcdNext
  \/ XRange \/ XRead
  \/ RedisSubscribe \/ KdbSubscribe \/ PubSubNext \/ KdbReceive
  \/ PgListen \/ PgQuery \/ PgWake
  \/ KafkaRecv \/ FluvioInvalid \/ FluvioNext

-----------------------------------------------------------------------------
\* The subscriber has nothing left to read on a live connection.
SubIdle ==
  /\ sub.pc = "live" /\ link
  /\ sub.kind \in Pushed => sub.inbox = <<>>
  /\ sub.kind \in {"xread", "kafka", "fluvio"} => sub.cursor >= N

\* The hand-over from snapshot to live updates loses and repeats nothing: a
\* write is yielded at most once, live writes in the order the server took
\* them, and a subscriber with nothing left to read has been given every write
\* it subscribed to.  For etcd that is the pairs of the snapshot and every later
\* write; for postgres a row is missing only when its timestamp equals that of a
\* row already yielded.
HandoffExact ==
  /\ \A i, j \in DOMAIN sub.seen : i # j => sub.seen[i] # sub.seen[j]
  /\ \A i, j \in (sub.base + 1) .. Len(sub.seen) : i < j => sub.seen[i] < sub.seen[j]
  /\ SubIdle =>
       CASE sub.kind = "etcd" ->
              /\ {sub.seen[i] : i \in 1 .. sub.base} = Present(sub.cursor)
              /\ {sub.seen[i] : i \in (sub.base + 1) .. Len(sub.seen)} = (sub.cursor + 1) .. N
         [] sub.kind = "postgres" ->
              \A w \in 1 .. N : log[w].time > sub.from =>
                \E i \in DOMAIN sub.seen : log[sub.seen[i]].time = log[w].time
         [] sub.kind \in {"pubsub", "kdb"} -> sub.seen = Upto(sub.cursor, N)
         [] OTHER -> sub.seen = Upto(sub.from, N)

\* A subscription never just falls silent: when its stream has ended the run
\* has been given an error.  fluvio_sub is the exception: its stream may end
\* with the consumer's, which the graph takes for an ordinary end of stream.
LossIsReported ==
  (sub.pc = "ended" /\ sub.kind # "fluvio") => sub.err

\* A subscription is complete for as long as it has not said otherwise.
SubscriptionsExact == HandoffExact /\ LossIsReported
=============================================================================
