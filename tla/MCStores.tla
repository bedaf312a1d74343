------------------------------ MODULE MCStores ------------------------------
(***************************************************************************)
(* The stores, services and reports around a graph, on small instances:    *)
(* the file cache, the reading and the writing of external stores, the web *)
(* and ZeroMQ adapters, latency reports, metrics and dynamic groups.  They *)
(* do not interact with each other: a behaviour is one of a single         *)
(* component, chosen at the beginning, and the others stay in one of their *)
(* initial states.                                                         *)
(***************************************************************************)
EXTENDS FileCache, Subscriptions, Sinks, WebAdapter, ZmqPublisher, LatencyReport, Metrics,
        DynamicGroup

CONSTANT Components   \* the components that may be chosen

VARIABLE which        \* the component that runs

vars == <<which, cacheVars, subVars, sinkVars, webVars, zmqVars,
          latencyVars, metricsVars, groupVars>>

-----------------------------------------------------------------------------
(* The instances *)

\* One process, and two that share a directory but read different databases:
\* with the names of the databases made equal, their behaviours are those of
\* two processes that read the same one.
MCTeams == {{"a"}, {"a", "b"}}
MCConnection == [a |-> "db", b |-> "other"]
MCSlices == <<"q1", "q2", "q1">>
MCSize == [q1 |-> 2, q2 |-> 3]

\* Start positions: none, the first record, and one that is invalid.
MCStarts == {-1, 0, 1}

\* Four records in three bursts, one of them empty; the first and the third
\* record have the same key.  The last row may be short or of other types.
MCBursts == << <<1, 2>>, <<>>, <<3, 4>> >>
MCKey == <<1, 2, 1, 3>>
MCRow == <<"symbol", "float">>
MCTables ==
  {<<MCRow, MCRow, MCRow, r>> : r \in {MCRow, <<"symbol">>, <<"symbol", "long">>}}
    \cup {<< <<>>, <<>>, MCRow, MCRow>>}

\* The page listens to one topic in both ways.
MCListeners == {[topic |-> "x", kind |-> kind, id |-> 1] : kind \in {"scalar", "burst"}}

-----------------------------------------------------------------------------
Init ==
  /\ which \in Components
  /\ CacheInit   /\ (which # "cache"   => running = {"a"})
  /\ SubInit     /\ (which # "sub"     => sub.kind = "etcd" /\ sub.from = 0 /\ sub.realtime)
  /\ SinkInit    /\ (which # "sink"    => sink.kind = "kafka" /\ sink.rows[1] = MCRow /\ sink.rows[4] = MCRow)
  /\ WebInit     /\ (which # "web"     => page.role = "views")
  /\ ZmqInit     /\ (which # "zmq"     => zmq.realtime /\ zmq.named)
  /\ LatencyInit /\ (which # "latency" => aggregated /\ ~ historical /\ \A i \in 1..Stages : modes[i] = "off")
  /\ MetricsInit /\ (which # "metrics" => ~ replay)
  /\ GroupInit

CacheTurn ==
  /\ which = "cache" /\ CacheNext
  /\ UNCHANGED <<which, subVars, sinkVars, webVars, zmqVars, latencyVars, metricsVars,
                 groupVars>>

SubTurn ==
  /\ which = "sub" /\ SubNext
  /\ UNCHANGED <<which, cacheVars, sinkVars, webVars, zmqVars, latencyVars, metricsVars,
                 groupVars>>

SinkTurn ==
  /\ which = "sink" /\ SinkNext
  /\ UNCHANGED <<which, cacheVars, subVars, webVars, zmqVars, latencyVars, metricsVars,
                 groupVars>>

WebTurn ==
  /\ which = "web" /\ WebNext
  /\ UNCHANGED <<which, cacheVars, subVars, sinkVars, zmqVars, latencyVars, metricsVars,
                 groupVars>>

ZmqTurn ==
  /\ which = "zmq" /\ ZmqNext
  /\ UNCHANGED <<which, cacheVars, subVars, sinkVars, webVars, latencyVars, metricsVars,
                 groupVars>>

LatencyTurn ==
  /\ which = "latency" /\ LatencyNext
  /\ UNCHANGED <<which, cacheVars, subVars, sinkVars, webVars, zmqVars, metricsVars,
                 groupVars>>

MetricsTurn ==
  /\ which = "metrics" /\ MetricsNext
  /\ UNCHANGED <<which, cacheVars, subVars, sinkVars, webVars, zmqVars, latencyVars,
                 groupVars>>

GroupTurn ==
  /\ which = "group" /\ GroupNext
  /\ UNCHANGED <<which, cacheVars, subVars, sinkVars, webVars, zmqVars, latencyVars,
                 metricsVars>>

Next ==
  \/ CacheTurn \/ SubTurn \/ SinkTurn \/ WebTurn \/ ZmqTurn
  \/ LatencyTurn \/ MetricsTurn \/ GroupTurn

Spec == Init /\ [][Next]_vars
=============================================================================
