------------------------------- MODULE Sinks -------------------------------
(***************************************************************************)
(* The publishing adapters: etcd_pub, kafka_pub, fluvio_pub, redis_pub,    *)
(* redis_stream_write, postgres_write and kdb_write.  Each is a consumer   *)
(* task of consume_async: it connects, takes the graph's bursts one by one *)
(* and sends their records, one after the other (etcd, redis, fluvio), all *)
(* at once (kafka, postgres) or as one insert (kdb).  A record is a number *)
(* in the order the graph produced it.  The server may refuse anything.    *)
(***************************************************************************)
EXTENDS Integers, Sequences, FiniteSets, SequencesExt

CONSTANTS
  SinkKinds,     \* the adapters
  SinkBursts,    \* the bursts the graph produces, in order
  SinkKeyOf,     \* record -> etcd key
  SinkTables,    \* functions record -> the K types of its row's columns
  Foreign        \* keys another client may write

SinkRecords == UNION {Range(SinkBursts[b]) : b \in DOMAIN SinkBursts}
SinkKeys == {SinkKeyOf[r] : r \in SinkRecords}

\* The records are numbered in the order the graph produces them.
ASSUME SinksAssumption ==
  /\ SinkKinds \subseteq {"etcd", "kafka", "fluvio", "redis", "xadd", "postgres", "kdb"}
  /\ SinkBursts \in Seq(Seq(Nat \ {0}))
  /\ \A b, c \in DOMAIN SinkBursts : \A i \in DOMAIN SinkBursts[b], j \in DOMAIN SinkBursts[c] :
       b < c \/ (b = c /\ i < j) => SinkBursts[b][i] < SinkBursts[c][j]
  /\ \A rows \in SinkTables, r \in SinkRecords : rows[r] \in Seq(STRING)

VARIABLES
  sink,      \* the consumer task
  stored,    \* the records the server has accepted, in its order
  kv,        \* etcd: key -> the record written last, 0 absent, -1 another client's
  leased,    \* etcd: keys that hang on the lease
  lease,     \* "none" | "live" | "gone"
  keeper     \* the keepalive task: "off" | "running"

sinkVars == <<sink, stored, kv, leased, lease, keeper>>

SinkInit ==
  /\ \E kind \in SinkKinds, ttl \in BOOLEAN, force \in BOOLEAN, rows \in SinkTables :
       /\ kind # "etcd" => ~ ttl /\ force
       /\ sink = [kind |-> kind, ttl |-> ttl, force |-> force, pc |-> "connect",
                  rows |-> rows,
                  next |-> 1, burst |-> <<>>, flight |-> {}, width |-> 0,
                  unrevoked |-> FALSE, err |-> FALSE]
  /\ stored = <<>>
  /\ kv = [k \in SinkKeys |-> 0]
  /\ leased = {} /\ lease = "none" /\ keeper = "off"

SinkAt(kinds, pc) == sink.kind \in kinds /\ sink.pc = pc
AllKinds == {"etcd", "kafka", "fluvio", "redis", "xadd", "postgres", "kdb"}
Stepwise == {"etcd", "fluvio", "redis", "xadd"}
Concurrent == {"kafka", "postgres"}

\* `?`: the task returns the error, whatever it had started.
SinkFails ==
  /\ sink.pc \in {"connect", "grant", "send", "flush"}
  /\ sink' = [sink EXCEPT !.pc = "ended", !.err = TRUE]
  /\ UNCHANGED <<stored, kv, leased, lease, keeper>>

SinkConnect ==
  /\ SinkAt(AllKinds, "connect")
  /\ sink' = [sink EXCEPT !.pc = IF sink.ttl THEN "grant" ELSE "take"]
  /\ UNCHANGED <<stored, kv, leased, lease, keeper>>

\* lease_grant, lease_keep_alive and the spawned renewal task.
EtcdGrant ==
  /\ SinkAt({"etcd"}, "grant")
  /\ lease' = "live" /\ keeper' = "running"
  /\ sink' = [sink EXCEPT !.pc = "take"]
  /\ UNCHANGED <<stored, kv, leased>>

\* source.next: the next burst, or the end of the graph's stream.
SinkTake ==
  /\ SinkAt(AllKinds, "take")
  /\ sink' = IF sink.next > Len(SinkBursts) THEN [sink EXCEPT !.pc = "close"]
             ELSE [sink EXCEPT !.pc = "send", !.burst = SinkBursts[sink.next],
                               !.next = @ + 1]
  /\ UNCHANGED <<stored, kv, leased, lease, keeper>>

-----------------------------------------------------------------------------
(* One record after the other *)

\* A wrong form of MayWrite: the key is not looked at.
MayWriteAlways(k) == TRUE

\* A forced put, or a transaction on create_revision = 0.
MayWrite(k) == sink.force \/ kv[k] = 0

\* PUT or a conditional transaction for the next record of the burst; etcd
\* refuses a write under a lease that is gone.
EtcdPut ==
  LET r == Head(sink.burst)
      k == SinkKeyOf[r]
  IN  /\ SinkAt({"etcd"}, "send") /\ sink.burst # <<>>
      /\ IF MayWrite(k) /\ ~ (sink.ttl /\ lease = "gone")
         THEN /\ sink' = [sink EXCEPT !.burst = Tail(@)]
              /\ stored' = Append(stored, r)
              /\ kv' = [kv EXCEPT ![k] = r]
              /\ leased' = IF lease = "live" THEN leased \cup {k} ELSE leased
         ELSE /\ sink' = [sink EXCEPT !.pc = "ended", !.err = TRUE]
              /\ UNCHANGED <<stored, kv, leased>>
      /\ UNCHANGED <<lease, keeper>>

\* One command for the next record of the burst, awaited.
SendOne(kind) ==
  /\ SinkAt({kind}, "send") /\ sink.burst # <<>>
  /\ sink' = [sink EXCEPT !.burst = Tail(@)]
  /\ stored' = Append(stored, Head(sink.burst))
  /\ UNCHANGED <<kv, leased, lease, keeper>>

RedisPublish == SendOne("redis")
RedisXAdd == SendOne("xadd")
FluvioSend == SendOne("fluvio")

\* The burst is sent; fluvio flushes before it takes the next one.
SinkSent ==
  /\ SinkAt(Stepwise, "send") /\ sink.burst = <<>>
  /\ sink' = [sink EXCEPT !.pc = IF sink.kind = "fluvio" THEN "flush" ELSE "take"]
  /\ UNCHANGED <<stored, kv, leased, lease, keeper>>

-----------------------------------------------------------------------------
(* The records of a burst together *)

StartAll(width) ==
  /\ sink' = [sink EXCEPT !.pc = "await", !.flight = Range(sink.burst), !.width = width]
  /\ UNCHANGED <<stored, kv, leased, lease, keeper>>

KafkaSendAll ==
  /\ SinkAt({"kafka"}, "send")
  /\ StartAll(0)

\* An empty burst is skipped; the statement is prepared once, for the time
\* column and those of the first record; then every insert of the burst is
\* started.
PgInsertAll ==
  /\ SinkAt({"postgres"}, "send")
  /\ StartAll(IF sink.width = 0 /\ sink.burst # <<>>
              THEN Len(sink.rows[Head(sink.burst)]) + 1 ELSE sink.width)

\* The server executes pipelined inserts in order and takes kafka's records in
\* any order, also after the task has given up on one of them.
SinkLand ==
  \E r \in sink.flight :
    /\ sink.kind = "postgres" =>
         (\A s \in sink.flight : s >= r) /\ Len(sink.rows[r]) + 1 = sink.width
    /\ stored' = Append(stored, r)
    /\ sink' = [sink EXCEPT !.flight = @ \ {r}]
    /\ UNCHANGED <<kv, leased, lease, keeper>>

\* A wrong form of SinkRefused: a refused record is dropped and the burst goes on.
SinkRefusedIgnored ==
  \E r \in sink.flight :
    /\ sink' = [sink EXCEPT !.flight = @ \ {r}]
    /\ UNCHANGED <<stored, kv, leased, lease, keeper>>

\* One of them fails, and with it the task; the others stay with the server.
SinkRefused ==
  \E r \in sink.flight :
    /\ sink' = [sink EXCEPT !.flight = @ \ {r}, !.pc = "ended", !.err = TRUE]
    /\ UNCHANGED <<stored, kv, leased, lease, keeper>>

SinkLanded ==
  /\ SinkAt(Concurrent, "await") /\ sink.flight = {}
  /\ sink' = [sink EXCEPT !.pc = "take", !.burst = <<>>]
  /\ UNCHANGED <<stored, kv, leased, lease, keeper>>

\* k_rows_to_columns: rows of different widths cannot be transposed.
Ragged(burst) ==
  \E i \in DOMAIN burst : Len(sink.rows[burst[i]]) # Len(sink.rows[burst[1]])

\* format_kdb_column_q: the type of the first atom is the column's, and every
\* other atom must be of it.
ColumnFormats(burst, c) ==
  LET type(i) == sink.rows[burst[i]][c]
  IN  /\ type(1) \in {"symbol", "float", "long", "int", "bool", "real"}
      /\ \A i \in DOMAIN burst : type(i) = type(1)

\* k_rows_to_columns: the columns of a burst, of which there are none without
\* rows, or when the rows carry no business column.
ColumnsOf(burst) == IF burst = <<>> THEN {} ELSE DOMAIN sink.rows[burst[1]]

\* kdb_write: the rows of the burst are transposed and formatted, which may
\* fail; a burst without columns is skipped; the others go out as one insert.
KdbInsert ==
  LET burst == sink.burst IN
  /\ SinkAt({"kdb"}, "send")
  /\ IF Ragged(burst) \/ \E c \in ColumnsOf(burst) : ~ ColumnFormats(burst, c)
     THEN /\ sink' = [sink EXCEPT !.pc = "ended", !.err = TRUE]
          /\ UNCHANGED stored
     ELSE /\ sink' = [sink EXCEPT !.pc = "take", !.burst = <<>>]
          /\ stored' = IF ColumnsOf(burst) = {} THEN stored ELSE stored \o burst
  /\ UNCHANGED <<kv, leased, lease, keeper>>

-----------------------------------------------------------------------------
(* The end *)

\* fluvio: flush after a burst; kafka: flush once the stream has ended.
SinkFlush ==
  /\ SinkAt({"fluvio", "kafka"}, "flush")
  /\ sink' = [sink EXCEPT !.pc = IF sink.kind = "kafka" THEN "ended" ELSE "take"]
  /\ UNCHANGED <<stored, kv, leased, lease, keeper>>

WithoutLeased == [k \in SinkKeys |-> IF k \in leased THEN 0 ELSE kv[k]]

\* etcd: the keepalive task is aborted and awaited, then the lease is revoked,
\* and with it every key that hangs on it; an error of the revocation is
\* ignored and leaves the keys to the lease's TTL.
SinkClose ==
  /\ SinkAt(AllKinds, "close")
  /\ keeper' = "off"
  /\ \E revoked \in (IF lease = "live" THEN BOOLEAN ELSE {TRUE}) :
       /\ sink' = [sink EXCEPT !.pc = IF sink.kind = "kafka" THEN "flush" ELSE "ended",
                               !.unrevoked = ~ revoked]
       /\ IF revoked /\ lease = "live"
          THEN lease' = "gone" /\ kv' = WithoutLeased /\ leased' = {}
          ELSE UNCHANGED <<lease, kv, leased>>
  /\ UNCHANGED stored

\* The renewal fails, or the run is over and its runtime drops the task.
KeeperStops ==
  /\ keeper = "running"
  /\ keeper' = "off"
  /\ UNCHANGED <<sink, stored, kv, leased, lease>>

\* Nobody renews the lease any more: etcd lets it expire.
LeaseExpires ==
  /\ lease = "live" /\ keeper = "off"
  /\ lease' = "gone" /\ kv' = WithoutLeased /\ leased' = {}
  /\ UNCHANGED <<sink, stored, keeper>>

\* Another client creates a key.
ForeignWrite ==
  \E k \in Foreign :
    /\ sink.kind = "etcd" /\ kv[k] = 0
    /\ kv' = [kv EXCEPT ![k] = -1]
    /\ UNCHANGED <<sink, stored, leased, lease, keeper>>

SinkTask ==
  \/ SinkConnect \/ EtcdGrant \/ SinkTake
  \/ EtcdPut \/ RedisPublish \/ RedisXAdd \/ FluvioSend \/ SinkSent
  \/ KafkaSendAll \/ PgInsertAll \/ SinkLand \/ SinkLanded \/ KdbInsert \/ SinkFlush \/ SinkClose

SinkNext ==
  \/ SinkTask \/ SinkFails \/ SinkRefused
  \/ KeeperStops \/ LeaseExpires \/ ForeignWrite

-----------------------------------------------------------------------------
BurstOf(r) == CHOOSE b \in DOMAIN SinkBursts : r \in Range(SinkBursts[b])

\* The records of a burst that the server is to have: all of them, but for kdb
\* none of a burst whose rows have no column beside the time.
Due(b) ==
  IF sink.kind = "kdb" /\ \A r \in Range(SinkBursts[b]) : sink.rows[r] = <<>>
  THEN {} ELSE Range(SinkBursts[b])

\* What reaches the server is never ahead of what the graph produced: a record
\* of a burst is there only when every record due of the bursts before it is,
\* one by one adapters and the inserts of kdb and postgres keep the order of
\* the records, and an insert into kdb is all of its burst.  A task that ends
\* without an error has stored every record, except the kdb bursts without a
\* business column, which are dropped in silence ("nothing to insert").
PublishedInOrder ==
  /\ \A i \in DOMAIN stored : \A b \in 1 .. (BurstOf(stored[i]) - 1) :
       Due(b) \subseteq Range(stored)
  /\ sink.kind # "kafka" =>
       \A i, j \in DOMAIN stored : i < j => stored[i] < stored[j]
  /\ sink.kind = "kdb" =>
       \A i \in DOMAIN stored : Range(SinkBursts[BurstOf(stored[i])]) \subseteq Range(stored)
  /\ (sink.pc = "ended" /\ ~ sink.err) =>
       Range(stored) = UNION {Due(b) : b \in DOMAIN SinkBursts}

\* The keys published under a lease are gone as soon as the task has ended
\* without an error; when the revocation itself failed, at least nothing renews
\* the lease any more.  An error in the middle of a burst returns before the
\* keepalive task is aborted and the lease revoked: the keys written by then
\* stay, but every one of them hangs on a lease that still lives, so they go
\* with it once the runtime drops the keepalive task.
LeaseReleased ==
  /\ (sink.pc = "ended" /\ ~ sink.err) =>
       keeper = "off" /\ (leased = {} \/ sink.unrevoked)
  /\ sink.ttl => \A k \in SinkKeys : kv[k] > 0 => k \in leased
  /\ leased # {} => lease = "live"

\* A sink leaves at the server what it was given, and no lease behind.
SinksSound == PublishedInOrder /\ LeaseReleased

\* etcd_pub with force = false never takes a key from another client, also when
\* that client creates it while the burst is being written.
NoOverwrite ==
  [][\A k \in SinkKeys : (kv[k] = -1 /\ ~ sink.force) => kv'[k] = -1]_sinkVars
=============================================================================
