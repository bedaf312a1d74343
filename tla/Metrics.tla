------------------------------ MODULE Metrics ------------------------------
(***************************************************************************)
(* The Prometheus exporter (adapters/prometheus): metric nodes of the      *)
(* graph store their latest value in a slot, and the thread of the HTTP    *)
(* server reads the slots one by one while the graph goes on.  A slot is 0 *)
(* until its node has ticked; its values are numbered.                     *)
(***************************************************************************)
EXTENDS Integers, Sequences, SequencesExt

CONSTANTS
  MetricNames,   \* names that are registered
  MaxMetrics,    \* bound: calls of register
  MaxMetricTicks \* bound: ticks of a metric

ASSUME MetricsAssumption == {MaxMetrics, MaxMetricTicks} \subseteq Nat

VARIABLES
  metrics,   \* the registry: a sequence of [name, value]
  scrape,    \* the request the server's thread is handling
  replay     \* whether the run is historical

metricsVars == <<metrics, scrape, replay>>

Idle == [pc |-> "idle", upto |-> 0, loaded |-> <<>>, floor |-> <<>>]

MetricsInit ==
  /\ metrics = <<>> /\ scrape = Idle
  /\ replay \in BOOLEAN

\* register(): at any time, from the thread that builds a graph.
RegisterMetric ==
  /\ Len(metrics) < MaxMetrics
  /\ \E name \in MetricNames : metrics' = Append(metrics, [name |-> name, value |-> 0])
  /\ UNCHANGED <<scrape, replay>>

\* cycle(): the slot is swapped, except in a replay.
MetricCycle ==
  /\ \E m \in 1..Len(metrics) :
       /\ metrics[m].value < MaxMetricTicks
       /\ metrics' = IF replay THEN metrics ELSE [metrics EXCEPT ![m].value = @ + 1]
  /\ UNCHANGED <<scrape, replay>>

\* A connection: a request that is not read in time or cannot be read, and one
\* for another path, end without a body.
Request ==
  /\ scrape.pc \in {"idle", "answered"}
  /\ \E pc \in {"idle", "snapshot"} : scrape' = [Idle EXCEPT !.pc = pc]
  /\ UNCHANGED <<metrics, replay>>

Values == [m \in 1..Len(metrics) |-> metrics[m].value]

\* A wrong form of Snapshot: the newest registration is left out.
SnapshotShort ==
  /\ scrape.pc = "snapshot"
  /\ scrape' = [pc |-> "load", loaded |-> <<>>, floor |-> Values,
                upto |-> IF metrics = <<>> THEN 0 ELSE Len(metrics) - 1]
  /\ UNCHANGED <<metrics, replay>>

\* build_metrics_body: the registry is copied under its lock, the slots are not.
Snapshot ==
  /\ scrape.pc = "snapshot"
  /\ scrape' = [pc |-> "load", upto |-> Len(metrics), loaded |-> <<>>, floor |-> Values]
  /\ UNCHANGED <<metrics, replay>>

\* load_full() of the next slot.
Load ==
  /\ scrape.pc = "load" /\ Len(scrape.loaded) < scrape.upto
  /\ scrape' = [scrape EXCEPT !.loaded = Append(@, metrics[Len(@) + 1].value)]
  /\ UNCHANGED <<metrics, replay>>

\* The slots that hold a value are sorted by name and sent.
Respond ==
  /\ scrape.pc = "load" /\ Len(scrape.loaded) = scrape.upto
  /\ scrape' = [scrape EXCEPT !.pc = "answered"]
  /\ UNCHANGED <<metrics, replay>>

MetricsNext == RegisterMetric \/ MetricCycle \/ Request \/ Snapshot \/ Load \/ Respond

-----------------------------------------------------------------------------
\* An answer has every metric that had ticked when the request was handled,
\* with a value no older than that moment and no newer than the latest; it has
\* nothing of a replay.
ScrapeFresh ==
  scrape.pc = "answered" =>
    \A m \in 1..Len(scrape.floor) :
      /\ scrape.floor[m] > 0 => m <= Len(scrape.loaded)
      /\ m <= Len(scrape.loaded) =>
           /\ scrape.floor[m] <= scrape.loaded[m] /\ scrape.loaded[m] <= metrics[m].value
           /\ replay => scrape.loaded[m] = 0
=============================================================================
