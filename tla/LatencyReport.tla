--------------------------- MODULE LatencyReport ---------------------------
(***************************************************************************)
(* Latency measurement (latency.rs) and its export as spans (otlp/traces): *)
(* stamping nodes write the wall clock into the stages of a record that    *)
(* travels with the message, a report folds the deltas of adjacent stages  *)
(* into statistics, and the exporter turns a record into spans.            *)
(*                                                                         *)
(* The stages up to Hop run in one engine cycle of one process, the others *)
(* in a cycle of another process whose clock may be behind.                *)
(***************************************************************************)
EXTENDS Integers, Sequences, SequencesExt, FiniteSetsExt

CONSTANTS
  Stages,       \* L::N
  Hop,          \* the last stage of the first process
  Buckets,      \* HISTOGRAM_BUCKETS
  U64Top,       \* u64::MAX, the initial minimum
  MaxSpent,     \* bound: time between two stages
  MaxSkew,      \* bound: how far the second clock is behind
  MaxObserved   \* bound: messages

ASSUME LatencyAssumption ==
  /\ {Stages, Buckets} \subseteq Nat \ {0} /\ Hop \in 0..Stages
  /\ {U64Top, MaxSpent, MaxSkew, MaxObserved} \subseteq Nat

VARIABLES
  modes,      \* how each stage is stamped: stamp, stamp_precise, or neither
  aggregated, \* the flag of latency_report_if
  historical, \* the run mode that the consumer of the spans is given
  stages,     \* LatencyStats
  records,    \* the stamps of the messages so far
  spans       \* the spans of the last message: the parent and its children

latencyVars == <<modes, aggregated, historical, stages, records, spans>>

StageStats == [count |-> 0, sum |-> 0, min |-> U64Top, max |-> 0,
               histogram |-> [b \in 0..(Buckets - 1) |-> 0]]

NoSpans == [parent |-> <<>>, children |-> {}, skew |-> 0]

LatencyInit ==
  /\ modes \in [1..Stages -> {"off", "snap", "precise"}]
  /\ aggregated \in BOOLEAN
  /\ historical \in BOOLEAN
  /\ stages = [i \in 2..Stages |-> StageStats]
  /\ records = <<>>
  /\ spans = NoSpans

-----------------------------------------------------------------------------
(* Stamping *)

\* wall_time(): the clock when the engine cycle began, the same for its stages.
WallTime(spent, skew, i) ==
  IF i <= Hop THEN 1 + MaxSkew
  ELSE 1 + MaxSkew + SumFunctionOnSet(spent, 1..Hop) - skew

\* wall_time_precise(): the clock when the node runs.
WallTimePrecise(spent, skew, i) ==
  1 + MaxSkew + SumFunctionOnSet(spent, 1..i) - (IF i <= Hop THEN 0 ELSE skew)

\* A message begins with a latency record of zeros, which are no stamps.
Traced == [i \in 1..Stages |-> 0]

\* Stage::stamp
StampStage(latency, i, t) == [latency EXCEPT ![i] = t]

\* The record after the stamping nodes; one that is not enabled is not there.
Stamped(spent, skew) ==
  LET Pass(latency, i) ==
        CASE modes[i] = "off"     -> latency
          [] modes[i] = "snap"    -> StampStage(latency, i, WallTime(spent, skew, i))
          [] modes[i] = "precise" -> StampStage(latency, i, WallTimePrecise(spent, skew, i))
  IN  FoldLeft(Pass, Traced, [i \in 1..Stages |-> i])

-----------------------------------------------------------------------------
(* The report *)

Ilog2(n) == CHOOSE b \in 0..n : 2^b <= n /\ n < 2^(b + 1)

\* A wrong form of Bucket: the bounds the comment on the field gives, [2^i, 2^(i+1))
\* and [0, 2) for the first.
BucketAsCommented(delta) ==
  LET b == IF delta < 2 THEN 0 ELSE Ilog2(delta) IN IF b < Buckets THEN b ELSE Buckets - 1

\* The bucket of a delta, and the last bucket for a delta too large.  Bucket b has
\* the deltas from 2^b - 1 to 2^(b+1) - 2, one less than the field's comment says.
Bucket(delta) == LET b == Ilog2(delta + 1) IN IF b < Buckets THEN b ELSE Buckets - 1

Record(s, delta) ==
  [count |-> s.count + 1,
   sum |-> IF s.sum + delta > U64Top THEN U64Top ELSE s.sum + delta,
   min |-> IF delta < s.min THEN delta ELSE s.min,
   max |-> IF delta > s.max THEN delta ELSE s.max,
   histogram |-> [s.histogram EXCEPT ![Bucket(delta)] = @ + 1]]

\* A delta counts when both stages were stamped and the clock did not go back.
Counts(stamps, i) == stamps[i - 1] # 0 /\ stamps[i] # 0 /\ stamps[i] >= stamps[i - 1]

Observe(stamps) ==
  [i \in 2..Stages |-> IF Counts(stamps, i) THEN Record(stages[i], stamps[i] - stamps[i - 1])
                       ELSE stages[i]]

\* The rank of a quantile, in hundredths, rounded up.
Target(count, q) == (count * q + 99) \div 100

MeanNs(s) == IF s.count = 0 THEN 0 ELSE s.sum \div s.count

\* The upper end of the first bucket that reaches the rank; for the last bucket
\* the shift is capped and gives its lower end.
QuantileNs(s, q) ==
  LET reaches == {b \in 0..(Buckets - 1) :
                    SumFunctionOnSet(s.histogram, 0..b) >= Target(s.count, q)}
  IN  CASE s.count = 0                  -> 0
        [] s.count # 0 /\ reaches # {} -> 2^(Min({Min(reaches) + 1, Buckets - 1}))
        [] OTHER                        -> s.max

\* format_report: the line of a stage, empty when it has no samples.
ReportLine(s) ==
  IF s.count = 0 THEN <<>>
  ELSE [count |-> s.count, min |-> s.min, mean |-> MeanNs(s), p50 |-> QuantileNs(s, 50),
        p99 |-> QuantileNs(s, 99), max |-> s.max]

\* latency_report_if: without the flag the caller gets statistics that nothing
\* is added to.
LatencyReportIf(stamps) == IF aggregated THEN Observe(stamps) ELSE stages

-----------------------------------------------------------------------------
(* Spans *)

\* emit_spans: a parent over the whole record and a child for each hop that
\* was stamped; nothing when the parent's own ends are missing or go back.
EmitSpans(stamps, skew) ==
  IF Stages < 2 \/ stamps[1] = 0 \/ stamps[Stages] = 0 \/ stamps[Stages] < stamps[1]
  THEN NoSpans
  ELSE [parent |-> <<stamps[1], stamps[Stages]>>, skew |-> skew,
        children |-> {<<stamps[i - 1], stamps[i]>> : i \in {j \in 2..Stages : Counts(stamps, j)}}]

\* spans_consumer: a replay drains its stream and exports nothing.
SpansConsumer(stamps, skew) == IF historical THEN NoSpans ELSE EmitSpans(stamps, skew)

\* A message runs through the stages and reaches the report and the exporter.
LatencyNext ==
  /\ Len(records) < MaxObserved
  /\ \E spent \in [1..Stages -> 0..MaxSpent], skew \in 0..MaxSkew :
       \E stamps \in {Stamped(spent, skew)} :
         /\ stages' = LatencyReportIf(stamps)
         /\ spans' = SpansConsumer(stamps, skew)
         /\ records' = Append(records, stamps)
  /\ UNCHANGED <<modes, aggregated, historical>>

-----------------------------------------------------------------------------
\* The number of deltas of stage i, among all messages, that are at most d.
AtMost(i, d) == Cardinality({x \in 1..Len(records) :
                  Counts(records[x], i) /\ records[x][i] - records[x][i - 1] <= d})

\* The report has a line for each stage with samples, and none where it is not
\* enabled.  A percentile is the power of two next above the delta of the asked
\* rank: with one added, because the code takes ilog2 of delta + 1 although the
\* comment on the histogram gives its buckets the bounds of delta itself.  For
\* a delta of the last bucket it is the bucket's lower end and so no upper
\* bound at all.  The mean lies between the extremes.
QuantilesBound ==
  \A i \in 2..Stages :
    LET line == ReportLine(stages[i])
        n == IF aggregated THEN AtMost(i, U64Top) ELSE 0
    IN IF n = 0 THEN line = <<>>
       ELSE /\ line.count = n
            /\ line.min <= line.mean /\ line.mean <= line.max
            /\ \A q \in {50, 99} :
                 LET rank == CHOOSE r \in 1..n : 100 * r >= n * q /\ 100 * (r - 1) < n * q
                     v == CHOOSE d \in 0..line.max :
                            AtMost(i, d) >= rank /\ \A e \in 0..(d - 1) : AtMost(i, e) < rank
                     estimate == IF q = 50 THEN line.p50 ELSE line.p99
                 IN IF v + 1 < 2^(Buckets - 1)
                    THEN v + 1 < estimate /\ estimate <= 2 * (v + 1)
                    ELSE estimate = 2^(Buckets - 1)

\* Where the clocks agree and the stages are stamped in one way, every child
\* span lies within its parent and no span ends before it begins, whichever
\* stages were left unstamped.  A replay exports no span.
SpansNest ==
  /\ historical => spans = NoSpans
  /\ (spans.skew = 0 /\ ~ {"snap", "precise"} \subseteq {modes[i] : i \in 1..Stages}) =>
       \A child \in spans.children :
         spans.parent[1] <= child[1] /\ child[1] <= child[2] /\ child[2] <= spans.parent[2]

\* The report and the trace of the same stamps are both right.
LatencySound == QuantilesBound /\ SpansNest
=============================================================================
