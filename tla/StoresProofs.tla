---------------------------- MODULE StoresProofs ----------------------------
(***************************************************************************)
(* The invariants of the stores, services and reports, for every number of *)
(* processes, records, keys, metrics and clock ticks.  A behaviour of      *)
(* MCStores is one of a single component, so what a component's own steps  *)
(* keep, every step keeps.                                                 *)
(***************************************************************************)
EXTENDS MCStores, SequenceTheorems, FiniteSetTheorems, NaturalsInduction, TLAPS

(* A step is the turn of one component, and leaves the others alone. *)
LEMMA Turns ==
  ASSUME [Next]_vars
  PROVE  /\ CacheNext \/ UNCHANGED cacheVars
         /\ SubNext \/ UNCHANGED subVars
         /\ SinkNext \/ UNCHANGED sinkVars
         /\ WebNext \/ UNCHANGED webVars
         /\ ZmqNext \/ UNCHANGED zmqVars
         /\ MetricsNext \/ UNCHANGED metricsVars
         /\ GroupNext \/ UNCHANGED groupVars
  BY DEF Next, vars, CacheTurn, SubTurn, SinkTurn, WebTurn, ZmqTurn, LatencyTurn, MetricsTurn,
         GroupTurn

-----------------------------------------------------------------------------
(* Dynamic groups *)

(* Streams are numbered from 1, and a stream is stored under one key: the  *)
(* removal of one key's stream does not take away another key's.           *)
GroupInv ==
  /\ group \in [store : [GroupKeys -> Nat], value : SUBSET GroupKeys, made : Nat]
  /\ \A k \in GroupKeys : group.store[k] <= group.made
  /\ \A k, l \in GroupKeys : group.store[k] = group.store[l] /\ k # l => group.store[k] = 0
  /\ wiring \subseteq 1..group.made
  /\ GroupConsistent

LEMMA GroupStep ==
  ASSUME GroupInv, GroupNext
  PROVE  GroupInv'
<1>1. PICK add \in {{}} \cup {{k} : k \in GroupKeys}, del \in {{}} \cup {{k} : k \in GroupKeys},
           ticking \in SUBSET wiring : GroupCycle(add, del, ticking)
  BY DEF GroupNext
<1> DEFINE store == Inserted(add)
           kept == [k \in GroupKeys |-> IF k \in del THEN 0 ELSE store[k]]
<1>2. /\ group' = [store |-> kept,
                   value |-> (group.value \ del) \cup TickedIter(store, kept, ticking),
                   made |-> IF add = {} THEN group.made ELSE group.made + 1]
      /\ wiring' = (wiring \ UNION {Removed(store, k) : k \in del})
                     \cup (IF add = {} THEN {} ELSE {group.made + 1})
  BY <1>1 DEF GroupCycle, ProcessPending
<1>3. /\ group.store \in [GroupKeys -> Nat] /\ group.value \subseteq GroupKeys
      /\ group.made \in Nat
      /\ \A k \in GroupKeys : group.store[k] <= group.made
      /\ \A k, l \in GroupKeys : group.store[k] = group.store[l] /\ k # l => group.store[k] = 0
      /\ wiring \subseteq 1..group.made
      /\ \A k \in group.value : group.store[k] # 0
      /\ \A k \in GroupKeys : group.store[k] # 0 => group.store[k] \in wiring
  BY DEF GroupInv, GroupConsistent, Stored
<1>4. /\ store \in [GroupKeys -> Nat]
      /\ \A k \in GroupKeys : store[k] = IF k \in add THEN group.made + 1 ELSE group.store[k]
  BY <1>3 DEF Inserted
<1>5. \A k, l \in GroupKeys : store[k] = store[l] /\ k # l => store[k] = 0
  BY <1>3, <1>4
<1> HIDE DEF store
<1>6. /\ kept \in [GroupKeys -> Nat]
      /\ \A k \in GroupKeys : kept[k] = IF k \in del THEN 0 ELSE store[k]
  BY <1>4
<1> HIDE DEF kept
<1>7. group'.store = kept /\ group'.value = (group.value \ del) \cup TickedIter(store, kept, ticking)
      /\ group'.made = IF add = {} THEN group.made ELSE group.made + 1
  BY <1>2
<1>8. group'.made \in Nat /\ group.made <= group'.made
      /\ \A k \in GroupKeys : k \in add => group'.made = group.made + 1
  BY <1>3, <1>7
<1>9. TickedIter(store, kept, ticking) \subseteq GroupKeys
      /\ \A k \in TickedIter(store, kept, ticking) : kept[k] \in wiring
  BY DEF TickedIter
<1>10. group' \in [store : [GroupKeys -> Nat], value : SUBSET GroupKeys, made : Nat]
  <2> DEFINE value == (group.value \ del) \cup TickedIter(store, kept, ticking)
             made == IF add = {} THEN group.made ELSE group.made + 1
  <2>1. value \in SUBSET GroupKeys /\ made \in Nat
    BY <1>3, <1>9
  <2>2. group' = [store |-> kept, value |-> value, made |-> made]
    BY <1>2
  <2> HIDE DEF value, made
  <2> QED
    BY <1>6, <2>1, <2>2
<1>11. \A k \in GroupKeys : group'.store[k] <= group'.made
  BY <1>3, <1>4, <1>6, <1>7, <1>8
<1>12. \A k, l \in GroupKeys : group'.store[k] = group'.store[l] /\ k # l => group'.store[k] = 0
  BY <1>5, <1>6, <1>7
<1>13. wiring' \subseteq 1..group'.made
  <2>1. wiring' \subseteq wiring \cup (IF add = {} THEN {} ELSE {group.made + 1})
    BY <1>2
  <2> QED
    BY <1>3, <1>7, <2>1
<1>14. \A k \in group'.value : group'.store[k] # 0
  <2>1. \A k \in TickedIter(store, kept, ticking) : kept[k] # 0
    BY <1>3, <1>9
  <2>2. \A k \in group.value \ del : kept[k] # 0
    BY <1>3, <1>4, <1>6
  <2> QED
    BY <1>7, <2>1, <2>2
<1>15. ASSUME NEW k \in GroupKeys, kept[k] # 0
       PROVE  kept[k] \in wiring'
  <2>1. k \notin del /\ kept[k] = store[k] /\ store[k] # 0
    BY <1>6, <1>15
  <2>2. \A l \in del : l \in GroupKeys /\ l # k /\ store[l] # store[k]
    BY <1>5, <2>1
  <2>3. store[k] \notin UNION {Removed(store, l) : l \in del}
    BY <2>2 DEF Removed
  <2>4. CASE k \in add
    BY <1>2, <1>4, <2>1, <2>4
  <2>5. CASE k \notin add
    BY <1>2, <1>3, <1>4, <2>1, <2>3, <2>5
  <2> QED
    BY <2>4, <2>5
<1>16. GroupConsistent'
  BY <1>7, <1>10, <1>14, <1>15 DEF GroupConsistent, Stored
<1> QED
  BY <1>10, <1>11, <1>12, <1>13, <1>16 DEF GroupInv

(* A key's last tick in the cycle that deletes it does not bring it back,  *)
(* and every registered stream stays wired, whichever keys are added,      *)
(* replaced and deleted in whichever cycles.                               *)
THEOREM GroupsStayConsistent == Spec => []GroupConsistent
<1>1. Init => GroupInv
  BY DEF Init, GroupInit, GroupInv, GroupConsistent, Stored
<1>2. GroupInv /\ UNCHANGED groupVars => GroupInv'
  BY DEF GroupInv, GroupConsistent, groupVars
<1>3. GroupInv /\ [Next]_vars => GroupInv'
  BY <1>2, GroupStep, Turns
<1>4. GroupInv => GroupConsistent
  BY DEF GroupInv
<1> QED
  BY <1>1, <1>3, <1>4, PTL DEF Spec
-----------------------------------------------------------------------------
(* Metrics *)

Metric == [name : MetricNames, value : Nat]
Scrape == [pc : {"idle", "snapshot", "load", "answered"}, upto : Nat, loaded : Seq(Nat),
           floor : Seq(Nat)]

MetricsType == metrics \in Seq(Metric) /\ scrape \in Scrape

(* What has been loaded lies between the snapshot and now. *)
ScrapeInv ==
  scrape.pc \in {"load", "answered"} =>
    /\ Len(scrape.floor) = scrape.upto
    /\ scrape.upto <= Len(metrics)
    /\ Len(scrape.loaded) <= scrape.upto
    /\ scrape.pc = "answered" => Len(scrape.loaded) = scrape.upto
    /\ \A m \in 1..scrape.upto : scrape.floor[m] <= metrics[m].value
    /\ \A m \in 1..Len(scrape.loaded) :
         /\ scrape.floor[m] <= scrape.loaded[m]
         /\ scrape.loaded[m] <= metrics[m].value

MetricsInv ==
  /\ MetricsType
  /\ replay => \A m \in 1..Len(metrics) : metrics[m].value = 0
  /\ ScrapeInv

LEMMA ValuesTyped ==
  ASSUME MetricsType
  PROVE  /\ Values \in Seq(Nat) /\ Len(Values) = Len(metrics)
         /\ \A m \in 1..Len(metrics) : Values[m] = metrics[m].value /\ metrics[m].value \in Nat
<1>1. Len(metrics) \in Nat
  BY DEF MetricsType
<1>2. \A m \in 1..Len(metrics) : metrics[m].value \in Nat
  <2>1. \A m \in 1..Len(metrics) : metrics[m] \in Metric
    BY DEF MetricsType
  <2> QED
    BY <2>1 DEF Metric
<1>3. Values \in [1..Len(metrics) -> Nat]
  BY <1>2 DEF Values
<1>4. Values \in Seq(Nat) /\ Len(Values) = Len(metrics)
  BY <1>1, <1>3, SeqDef
<1> QED
  BY <1>2, <1>4 DEF Values

LEMMA MetricsStep ==
  ASSUME MetricsInv, MetricsNext
  PROVE  MetricsInv'
<1> MetricsType /\ ScrapeInv
  BY DEF MetricsInv
<1>0. /\ Len(metrics) \in Nat /\ scrape.upto \in Nat /\ scrape.loaded \in Seq(Nat)
      /\ scrape.floor \in Seq(Nat) /\ Len(scrape.loaded) \in Nat
      /\ \A m \in 1..Len(metrics) : metrics[m].value \in Nat
      /\ \A m \in 1..Len(scrape.loaded) : scrape.loaded[m] \in Nat
      /\ \A m \in 1..Len(scrape.floor) : scrape.floor[m] \in Nat
  BY ValuesTyped DEF MetricsType, Scrape
<1>1. CASE RegisterMetric
  <2>1. PICK name \in MetricNames : metrics' = Append(metrics, [name |-> name, value |-> 0])
    BY <1>1 DEF RegisterMetric
  <2>2. scrape' = scrape /\ replay' = replay
    BY <1>1 DEF RegisterMetric
  <2> DEFINE new == [name |-> name, value |-> 0]
  <2>a. new \in Metric /\ new.value = 0
    BY DEF Metric
  <2> HIDE DEF new
  <2>b. metrics' = Append(metrics, new)
    BY <2>1 DEF new
  <2>3. MetricsType'
    BY <2>2, <2>a, <2>b DEF MetricsType
  <2>4. /\ Len(metrics') = Len(metrics) + 1
        /\ \A m \in 1..Len(metrics) : metrics'[m] = metrics[m]
        /\ metrics'[Len(metrics) + 1].value = 0
    BY <2>a, <2>b DEF MetricsType
  <2>5. ScrapeInv'
    <3> SUFFICES ASSUME scrape.pc \in {"load", "answered"} PROVE ScrapeInv'
      BY <2>2 DEF ScrapeInv
    <3>1. scrape.upto <= Len(metrics') /\ \A m \in 1..scrape.upto : metrics'[m] = metrics[m]
      BY <1>0, <2>4 DEF ScrapeInv
    <3>2. \A m \in 1..Len(scrape.loaded) : m \in 1..scrape.upto
      BY <1>0 DEF ScrapeInv
    <3> QED
      BY <2>2, <3>1, <3>2 DEF ScrapeInv
  <2>6. replay => \A m \in 1..Len(metrics') : metrics'[m].value = 0
    BY <1>0, <2>4, SMTT(30) DEF MetricsInv
  <2> QED
    BY <2>2, <2>3, <2>5, <2>6 DEF MetricsInv
<1>2. CASE MetricCycle
  <2>1. PICK m \in 1..Len(metrics) :
          metrics' = IF replay THEN metrics ELSE [metrics EXCEPT ![m].value = @ + 1]
    BY <1>2 DEF MetricCycle
  <2>2. scrape' = scrape /\ replay' = replay
    BY <1>2 DEF MetricCycle
  <2>3. CASE metrics' = metrics
    BY <2>2, <2>3 DEF MetricsInv, MetricsType, ScrapeInv
  <2>4. CASE ~replay /\ metrics' = [metrics EXCEPT ![m].value = @ + 1]
    <3> DEFINE new == [metrics[m] EXCEPT !.value = @ + 1]
    <3>0. metrics[m] \in Metric
      BY DEF MetricsType
    <3>a. new \in Metric /\ new.value = metrics[m].value + 1
      BY <3>0 DEF Metric
    <3>b. metrics' = [metrics EXCEPT ![m] = new]
      BY <2>4
    <3> HIDE DEF new
    <3>1. MetricsType'
      BY <2>2, <3>a, <3>b DEF MetricsType
    <3>2. /\ Len(metrics') = Len(metrics)
          /\ \A i \in 1..Len(metrics) : metrics[i].value <= metrics'[i].value /\ metrics'[i].value \in Nat
      BY <1>0, <3>a, <3>b DEF MetricsType
    <3>3. ScrapeInv'
      <4> SUFFICES ASSUME scrape.pc \in {"load", "answered"} PROVE ScrapeInv'
        BY <2>2 DEF ScrapeInv
      <4>0. /\ Len(scrape.floor) = scrape.upto
            /\ scrape.upto <= Len(metrics)
            /\ Len(scrape.loaded) <= scrape.upto
        BY DEF ScrapeInv
      <4>1. ASSUME NEW i \in 1..scrape.upto PROVE scrape.floor[i] <= metrics'[i].value
        <5>1. i \in 1..Len(metrics) /\ i \in 1..Len(scrape.floor)
          BY <1>0, <4>0
        <5>2. scrape.floor[i] <= metrics[i].value
          BY DEF ScrapeInv
        <5>3. /\ metrics[i].value <= metrics'[i].value /\ metrics'[i].value \in Nat
              /\ metrics[i].value \in Nat /\ scrape.floor[i] \in Nat
          BY <1>0, <3>2, <5>1
        <5> QED
          BY <5>2, <5>3
      <4>2. ASSUME NEW i \in 1..Len(scrape.loaded) PROVE scrape.loaded[i] <= metrics'[i].value
        <5>1. i \in 1..Len(metrics)
          BY <1>0, <4>0
        <5>2. scrape.loaded[i] <= metrics[i].value
          BY DEF ScrapeInv
        <5>3. /\ metrics[i].value <= metrics'[i].value /\ metrics'[i].value \in Nat
              /\ metrics[i].value \in Nat /\ scrape.loaded[i] \in Nat
          BY <1>0, <3>2, <5>1
        <5> QED
          BY <5>2, <5>3
      <4> QED
        BY <2>2, <3>2, <4>1, <4>2 DEF ScrapeInv
    <3> QED
      BY <2>2, <2>4, <3>1, <3>3 DEF MetricsInv
  <2> QED
    BY <2>1, <2>3, <2>4
<1>3. CASE Request
  <2>1. PICK pc \in {"idle", "snapshot"} : scrape' = [Idle EXCEPT !.pc = pc]
    BY <1>3 DEF Request
  <2>2. metrics' = metrics /\ replay' = replay
    BY <1>3 DEF Request
  <2> DEFINE none == <<>>
  <2>a. none \in Seq(Nat)
    OBVIOUS
  <2> HIDE DEF none
  <2>b. scrape' = [pc |-> pc, upto |-> 0, loaded |-> none, floor |-> none]
    BY <2>1 DEF Idle, none
  <2>3. scrape' \in Scrape /\ scrape'.pc = pc
    BY <2>a, <2>b DEF Scrape
  <2> QED
    BY <2>2, <2>3 DEF MetricsInv, MetricsType, ScrapeInv
<1>4. CASE Snapshot
  <2>1. /\ scrape' = [pc |-> "load", upto |-> Len(metrics), loaded |-> <<>>, floor |-> Values]
        /\ metrics' = metrics /\ replay' = replay
    BY <1>4 DEF Snapshot
  <2> DEFINE none == <<>>
  <2>a. none \in Seq(Nat)
    OBVIOUS
  <2> HIDE DEF none
  <2>b. scrape' = [pc |-> "load", upto |-> Len(metrics), loaded |-> none, floor |-> Values]
    BY <2>1 DEF none
  <2>2. MetricsType'
    BY <1>0, <2>1, <2>a, <2>b, ValuesTyped DEF MetricsType, Scrape
  <2>3. /\ scrape'.pc = "load" /\ scrape'.upto = Len(metrics) /\ scrape'.loaded = <<>>
        /\ scrape'.floor = Values
    BY <2>1
  <2>4. ScrapeInv'
    BY <1>0, <2>1, <2>3, ValuesTyped DEF ScrapeInv
  <2> QED
    BY <2>1, <2>2, <2>4 DEF MetricsInv
<1>5. CASE Load
  <2> DEFINE k == Len(scrape.loaded) + 1
             v == metrics[k].value
  <2>1. /\ scrape.pc = "load" /\ k <= scrape.upto
        /\ scrape' = [scrape EXCEPT !.loaded = Append(@, v)]
        /\ metrics' = metrics /\ replay' = replay
    BY <1>0, <1>5 DEF Load
  <2>2. k \in 1..Len(metrics) /\ k \in 1..scrape.upto /\ v \in Nat
    BY <1>0, <2>1 DEF ScrapeInv
  <2> HIDE DEF v
  <2>3. /\ scrape'.pc = "load" /\ scrape'.upto = scrape.upto /\ scrape'.floor = scrape.floor
        /\ scrape'.loaded = Append(scrape.loaded, v)
    BY <2>1 DEF MetricsType, Scrape
  <2>4. /\ Len(scrape'.loaded) = k
        /\ scrape'.loaded[k] = v
        /\ \A m \in 1..Len(scrape.loaded) : scrape'.loaded[m] = scrape.loaded[m]
    BY <1>0, <2>2, <2>3
  <2>5. MetricsType'
    <3> DEFINE new == Append(scrape.loaded, v)
    <3>1. new \in Seq(Nat)
      BY <1>0, <2>2
    <3>2. scrape' = [scrape EXCEPT !.loaded = new]
      BY <2>1
    <3> HIDE DEF new
    <3> QED
      BY <2>1, <3>1, <3>2 DEF MetricsType, Scrape
  <2>6. ASSUME NEW m \in 1..k
        PROVE  scrape'.floor[m] <= scrape'.loaded[m] /\ scrape'.loaded[m] <= metrics[m].value
    <3>1. CASE m = k
      <4>1. scrape'.floor[m] = scrape.floor[m] /\ scrape'.loaded[m] = metrics[m].value
        BY <2>3, <2>4, <3>1 DEF v
      <4>2. scrape.floor[m] <= metrics[m].value
        BY <2>1, <2>2, <3>1 DEF ScrapeInv
      <4>3. metrics[m].value \in Nat
        BY <2>2, <3>1 DEF v
      <4> QED
        BY <4>1, <4>2, <4>3
    <3>2. CASE m # k
      <4>1. m \in 1..Len(scrape.loaded)
        BY <1>0, <3>2
      <4> QED
        BY <2>1, <2>3, <2>4, <4>1 DEF ScrapeInv
    <3> QED
      BY <3>1, <3>2
  <2> HIDE DEF k
  <2>7. ScrapeInv'
    BY <2>1, <2>3, <2>4, <2>6 DEF ScrapeInv
  <2> QED
    BY <2>1, <2>5, <2>7 DEF MetricsInv
<1>6. CASE Respond
  <2>1. /\ scrape.pc = "load" /\ Len(scrape.loaded) = scrape.upto
        /\ scrape' = [scrape EXCEPT !.pc = "answered"]
        /\ metrics' = metrics /\ replay' = replay
    BY <1>6 DEF Respond
  <2>2. /\ scrape'.pc = "answered" /\ scrape'.upto = scrape.upto /\ scrape'.floor = scrape.floor
        /\ scrape'.loaded = scrape.loaded
    BY <2>1 DEF MetricsType, Scrape
  <2>3. MetricsType'
    BY <2>1 DEF MetricsType, Scrape
  <2>4. ScrapeInv'
    BY <2>1, <2>2 DEF ScrapeInv
  <2> QED
    BY <2>1, <2>3, <2>4 DEF MetricsInv
<1> QED
  BY <1>1, <1>2, <1>3, <1>4, <1>5, <1>6 DEF MetricsNext

(* However the ticks, the registrations and the loads of the server's      *)
(* thread interleave, an answer holds values of the time it was made.      *)
THEOREM ScrapesAreFresh == Spec => []ScrapeFresh
<1>1. Init => MetricsInv
  <2>1. Init => metrics = <<>> /\ scrape = Idle
    BY DEF Init, MetricsInit
  <2>2. metrics = <<>> /\ scrape = Idle => MetricsInv
    BY DEF MetricsInv, MetricsType, ScrapeInv, Idle, Scrape
  <2> QED
    BY <2>1, <2>2
<1>2. MetricsInv /\ UNCHANGED metricsVars => MetricsInv'
  BY DEF MetricsInv, MetricsType, ScrapeInv, metricsVars
<1>3. MetricsInv /\ [Next]_vars => MetricsInv'
  BY <1>2, MetricsStep, Turns
<1>4. ASSUME MetricsInv PROVE ScrapeFresh
  <2> SUFFICES ASSUME scrape.pc = "answered", NEW m \in 1..Len(scrape.floor)
               PROVE  /\ m <= Len(scrape.loaded)
                      /\ scrape.floor[m] <= scrape.loaded[m]
                      /\ scrape.loaded[m] <= metrics[m].value
                      /\ replay => scrape.loaded[m] = 0
    BY DEF ScrapeFresh
  <2>1. /\ Len(scrape.floor) = Len(scrape.loaded) /\ Len(scrape.loaded) \in Nat
        /\ Len(scrape.loaded) <= Len(metrics) /\ Len(metrics) \in Nat
        /\ scrape.loaded \in Seq(Nat)
    BY <1>4 DEF MetricsInv, MetricsType, ScrapeInv, Scrape
  <2>2. m \in 1..Len(scrape.loaded) /\ m \in 1..Len(metrics) /\ scrape.loaded[m] \in Nat
    BY <2>1
  <2>3. /\ scrape.floor[m] <= scrape.loaded[m] /\ scrape.loaded[m] <= metrics[m].value
        /\ replay => metrics[m].value = 0
    BY <1>4, <2>2 DEF MetricsInv, ScrapeInv
  <2> QED
    BY <2>2, <2>3
<1> QED
  BY <1>1, <1>3, <1>4, PTL DEF Spec
-----------------------------------------------------------------------------
(* Sinks *)

RecordNo == Nat \ {0}
Below(S, T) == \A x \in S, y \in T : x < y

Taken == sink.next - 1               \* how many bursts the task has taken
Given(b) == Range(SinkBursts[b])     \* the records of a burst
Kept == Range(stored)                \* the records at the server

SinkState ==
  [kind : AllKinds, ttl : BOOLEAN, force : BOOLEAN,
   pc : {"connect", "grant", "take", "send", "await", "close", "flush", "ended"},
   rows : SinkTables, next : Nat, burst : Seq(RecordNo), flight : SUBSET RecordNo, width : Nat,
   unrevoked : BOOLEAN, err : BOOLEAN]

SinkType ==
  /\ sink \in SinkState /\ stored \in Seq(RecordNo) /\ kv \in [SinkKeys -> Int]
  /\ sink.next >= 1 /\ Taken <= Len(SinkBursts)

SinkDone == sink.pc = "ended" /\ sink.err = FALSE
SinkClosed == SinkDone \/ (sink.pc = "flush" /\ sink.kind = "kafka")

(* A key on the lease is the task's own, never another client's; with a    *)
(* TTL all of the task's keys are, since it writes only under a lease.     *)
Unleased == {"connect", "grant", "ended"}

LeaseInv ==
  /\ \A k \in leased : k \in SinkKeys /\ kv[k] > 0
  /\ leased # {} => lease = "live"
  /\ sink.ttl = TRUE => \A k \in SinkKeys : kv[k] > 0 => k \in leased
  /\ sink.ttl = TRUE => sink.pc \in Unleased \/ lease \in {"live", "gone"}
  /\ SinkClosed => keeper = "off" /\ (leased = {} \/ sink.unrevoked = TRUE)

(* The bursts before the one in hand are whole; the one in hand is divided *)
(* between the server, what is left of the burst and what is in flight.    *)
HandInv ==
  /\ sink.pc \in {"connect", "grant"} => Taken = 0
  /\ sink.pc \in {"take", "close", "flush"} \/ SinkDone => \A b \in 1..Taken : Due(b) \subseteq Kept
  /\ sink.pc = "close" \/ SinkClosed => Taken = Len(SinkBursts)
  /\ sink.pc = "send" =>
       /\ Taken >= 1 /\ Range(sink.burst) \subseteq Given(Taken)
       /\ Due(Taken) \subseteq Kept \cup Range(sink.burst)
       /\ Increasing(sink.burst) /\ Below(Kept, Range(sink.burst))
       /\ sink.kind \notin Stepwise => sink.burst = SinkBursts[Taken]
  /\ sink.pc = "await" =>
       /\ Taken >= 1 /\ sink.kind \in Concurrent
       /\ Due(Taken) \subseteq Kept \cup sink.flight
  /\ sink.flight # {} =>
       /\ Taken >= 1 /\ sink.flight \subseteq Given(Taken) /\ sink.kind \in Concurrent
       /\ sink.pc = "await" \/ (sink.pc = "ended" /\ sink.err = TRUE)
       /\ sink.kind # "kafka" => Below(Kept, sink.flight)

KeptInv ==
  /\ \A b \in 1..Taken : b < Taken => Due(b) \subseteq Kept
  /\ \A r \in Kept : \E b \in 1..Taken : r \in Due(b)
  /\ sink.kind # "kafka" => Increasing(stored)
  /\ sink.kind = "kdb" => \A b \in 1..Taken : Due(b) \subseteq Kept \/ Due(b) \cap Kept = {}

SinkInv == SinkType /\ LeaseInv /\ HandInv /\ KeptInv


LEMMA AppendOf ==
  ASSUME NEW s \in Seq(RecordNo), NEW e \in RecordNo
  PROVE  /\ Append(s, e) \in Seq(RecordNo)
         /\ Range(Append(s, e)) = Range(s) \cup {e}
         /\ Increasing(s) /\ Below(Range(s), {e}) => Increasing(Append(s, e))
<1> DEFINE t == Append(s, e)
<1>1. /\ t \in Seq(RecordNo) /\ Len(t) = Len(s) + 1 /\ t[Len(s) + 1] = e
      /\ \A i \in 1..Len(s) : t[i] = s[i]
      /\ Len(s) \in Nat /\ DOMAIN s = 1..Len(s) /\ DOMAIN t = 1..(Len(s) + 1)
  BY AppendProperties, LenProperties
<1> HIDE DEF t
<1>2. Range(t) = Range(s) \cup {e}
  BY <1>1 DEF Range
<1>3. ASSUME Increasing(s), Below(Range(s), {e}) PROVE Increasing(t)
  <2>1. \A i \in 1..Len(s) : s[i] < e
    BY <1>1, <1>3 DEF Below, Range
  <2> QED
    BY <1>1, <1>3, <2>1 DEF Increasing
<1> QED
  BY <1>1, <1>2, <1>3 DEF t

LEMMA HeadTailOf ==
  ASSUME NEW s \in Seq(RecordNo), s # <<>>
  PROVE  /\ Head(s) \in RecordNo /\ Tail(s) \in Seq(RecordNo)
         /\ Range(s) = {Head(s)} \cup Range(Tail(s))
         /\ Increasing(s) => Increasing(Tail(s)) /\ Below({Head(s)}, Range(Tail(s)))
<1> DEFINE t == Tail(s)
           h == Head(s)
<1>1. /\ h \in RecordNo /\ t \in Seq(RecordNo) /\ Len(t) = Len(s) - 1
      /\ \A i \in 1..Len(t) : t[i] = s[i + 1]
      /\ h = s[1] /\ Len(s) \in Nat /\ Len(s) >= 1
      /\ DOMAIN s = 1..Len(s) /\ DOMAIN t = 1..Len(t)
  BY HeadTailProperties, LenProperties, EmptySeq
<1> HIDE DEF t, h
<1>2. Range(s) = {h} \cup Range(t)
  <2>1. ASSUME NEW i \in 1..Len(s) PROVE s[i] \in {h} \cup Range(t)
    <3>1. CASE i = 1
      BY <1>1, <3>1
    <3>2. CASE i # 1
      <4>1. i - 1 \in 1..Len(t) /\ (i - 1) + 1 = i
        BY <1>1, <3>2
      <4>2. t[i - 1] = s[i]
        BY <1>1, <4>1
      <4> QED
        BY <1>1, <4>1, <4>2 DEF Range
    <3> QED
      BY <3>1, <3>2
  <2>2. ASSUME NEW i \in 1..Len(t) PROVE t[i] \in Range(s)
    BY <1>1 DEF Range
  <2>3. h \in Range(s)
    BY <1>1 DEF Range
  <2> QED
    BY <1>1, <2>1, <2>2, <2>3 DEF Range
<1>3. ASSUME Increasing(s) PROVE Increasing(t) /\ Below({h}, Range(t))
  <2>1. \A i, j \in 1..Len(t) : i < j => i + 1 \in 1..Len(s) /\ j + 1 \in 1..Len(s) /\ i + 1 < j + 1
    BY <1>1
  <2>2. Increasing(t)
    BY <1>1, <1>3, <2>1 DEF Increasing
  <2>3. \A i \in 1..Len(t) : 1 \in 1..Len(s) /\ i + 1 \in 1..Len(s) /\ 1 < i + 1
    BY <1>1
  <2>4. \A i \in 1..Len(t) : h < t[i]
    BY <1>1, <1>3, <2>3 DEF Increasing
  <2> QED
    BY <1>1, <2>2, <2>4 DEF Below, Range
<1> QED
  BY <1>1, <1>2, <1>3 DEF t, h

LEMMA ConcatOf ==
  ASSUME NEW s \in Seq(RecordNo), NEW t \in Seq(RecordNo)
  PROVE  /\ s \o t \in Seq(RecordNo)
         /\ Range(s \o t) = Range(s) \cup Range(t)
         /\ Increasing(s) /\ Increasing(t) /\ Below(Range(s), Range(t)) => Increasing(s \o t)
<1> DEFINE u == s \o t
<1>1. /\ u \in Seq(RecordNo) /\ Len(u) = Len(s) + Len(t)
      /\ \A i \in 1..(Len(s) + Len(t)) : u[i] = IF i <= Len(s) THEN s[i] ELSE t[i - Len(s)]
      /\ Len(s) \in Nat /\ Len(t) \in Nat
      /\ DOMAIN s = 1..Len(s) /\ DOMAIN t = 1..Len(t) /\ DOMAIN u = 1..(Len(s) + Len(t))
  BY ConcatProperties, LenProperties
<1> HIDE DEF u
<1>2. Range(u) = Range(s) \cup Range(t)
  <2>1. ASSUME NEW i \in 1..Len(t) PROVE t[i] \in Range(u)
    <3>1. /\ i + Len(s) \in 1..(Len(s) + Len(t)) /\ ~ (i + Len(s) <= Len(s))
          /\ (i + Len(s)) - Len(s) = i
      BY <1>1
    <3>2. u[i + Len(s)] = t[i]
      BY <1>1, <3>1
    <3> QED
      BY <1>1, <3>1, <3>2 DEF Range
  <2>2. ASSUME NEW i \in 1..Len(s) PROVE s[i] \in Range(u)
    BY <1>1 DEF Range
  <2>3. ASSUME NEW i \in 1..(Len(s) + Len(t)) PROVE u[i] \in Range(s) \cup Range(t)
    <3>1. CASE i <= Len(s)
      BY <1>1, <3>1 DEF Range
    <3>2. CASE ~ (i <= Len(s))
      <4>1. i - Len(s) \in 1..Len(t) /\ u[i] = t[i - Len(s)]
        BY <1>1, <3>2
      <4> QED
        BY <1>1, <4>1 DEF Range
    <3> QED
      BY <3>1, <3>2
  <2> QED
    BY <1>1, <2>1, <2>2, <2>3 DEF Range
<1>3. ASSUME Increasing(s), Increasing(t), Below(Range(s), Range(t)) PROVE Increasing(u)
  <2>1. \A i \in 1..Len(s), j \in 1..Len(t) : s[i] < t[j]
    BY <1>1, <1>3 DEF Below, Range
  <2>2. \A i \in 1..(Len(s) + Len(t)) : ~ (i <= Len(s)) => i - Len(s) \in 1..Len(t)
    BY <1>1
  <2> SUFFICES ASSUME NEW i \in 1..(Len(s) + Len(t)), NEW j \in 1..(Len(s) + Len(t)), i < j
               PROVE  u[i] < u[j]
    BY <1>1 DEF Increasing
  <2>3. CASE j <= Len(s)
    BY <1>1, <1>3, <2>3 DEF Increasing
  <2>4. CASE i <= Len(s) /\ ~ (j <= Len(s))
    BY <1>1, <2>1, <2>2, <2>4
  <2>5. CASE ~ (i <= Len(s))
    <3>1. i - Len(s) \in 1..Len(t) /\ j - Len(s) \in 1..Len(t) /\ i - Len(s) < j - Len(s)
          /\ u[i] = t[i - Len(s)] /\ u[j] = t[j - Len(s)]
      BY <1>1, <2>2, <2>5
    <3> QED
      BY <1>3, <1>1, <3>1 DEF Increasing
  <2> QED
    BY <1>1, <2>3, <2>4, <2>5
<1> QED
  BY <1>1, <1>2, <1>3 DEF u

(* The records of a later burst are greater, so a record is of one burst. *)
LEMMA BurstFacts ==
  /\ Len(SinkBursts) \in Nat /\ DOMAIN SinkBursts = 1..Len(SinkBursts)
  /\ \A b \in 1..Len(SinkBursts) :
       SinkBursts[b] \in Seq(RecordNo) /\ Increasing(SinkBursts[b]) /\ Given(b) \subseteq SinkRecords
       /\ Given(b) \subseteq RecordNo
  /\ \A b, c \in 1..Len(SinkBursts) : b < c => Below(Given(b), Given(c))
  /\ \A b, c \in 1..Len(SinkBursts) : Given(b) \cap Given(c) # {} => b = c
  /\ \A r \in SinkRecords : r \in RecordNo /\ \E b \in 1..Len(SinkBursts) : r \in Given(b)
<1>1. Len(SinkBursts) \in Nat /\ DOMAIN SinkBursts = 1..Len(SinkBursts)
  BY SinksAssumption, LenProperties
<1>2. \A b \in 1..Len(SinkBursts) : SinkBursts[b] \in Seq(RecordNo)
  BY <1>1, SinksAssumption, ElementOfSeq DEF RecordNo
<1>3. \A b \in 1..Len(SinkBursts) : DOMAIN SinkBursts[b] = 1..Len(SinkBursts[b])
  BY <1>2, LenProperties
<1>4. \A b \in 1..Len(SinkBursts) : Given(b) \subseteq RecordNo
  BY <1>2, <1>3, ElementOfSeq DEF Given, Range
<1>5. \A b \in 1..Len(SinkBursts) : Increasing(SinkBursts[b])
  BY <1>1, <1>3, SinksAssumption DEF Increasing
<1>6. \A b, c \in 1..Len(SinkBursts) : b < c => Below(Given(b), Given(c))
  <2> SUFFICES ASSUME NEW b \in 1..Len(SinkBursts), NEW c \in 1..Len(SinkBursts), b < c,
                      NEW x \in Given(b), NEW y \in Given(c)
               PROVE  x < y
    BY DEF Below
  <2>1. PICK i \in DOMAIN SinkBursts[b] : x = SinkBursts[b][i]
    BY DEF Given, Range
  <2>2. PICK j \in DOMAIN SinkBursts[c] : y = SinkBursts[c][j]
    BY DEF Given, Range
  <2> QED
    BY <1>1, <2>1, <2>2, SinksAssumption
<1>7. \A b \in 1..Len(SinkBursts) : Given(b) \subseteq SinkRecords
  BY <1>1 DEF Given, SinkRecords
<1>8. \A r \in SinkRecords : \E b \in 1..Len(SinkBursts) : r \in Given(b)
  BY <1>1 DEF Given, SinkRecords
<1>9. \A r \in SinkRecords : r \in RecordNo
  BY <1>4, <1>8
<1>10. \A b, c \in 1..Len(SinkBursts) : Given(b) \cap Given(c) # {} => b = c
  <2> SUFFICES ASSUME NEW b \in 1..Len(SinkBursts), NEW c \in 1..Len(SinkBursts),
                      NEW r \in Given(b) \cap Given(c), b # c
               PROVE  FALSE
    OBVIOUS
  <2>1. r \in Nat /\ ~ (r < r)
    BY <1>4 DEF RecordNo
  <2>2. b < c \/ c < b
    BY <1>1
  <2> QED
    BY <1>6, <2>1, <2>2 DEF Below
<1> QED
  BY <1>1, <1>2, <1>4, <1>5, <1>6, <1>7, <1>8, <1>9, <1>10


(* The fields of the task that no step changes. *)
SameTask ==
  /\ sink'.kind = sink.kind /\ sink'.force = sink.force
  /\ sink'.rows = sink.rows /\ sink'.ttl = sink.ttl

(* What is due of a burst: nothing or all of it, and all unless it is kdb. *)
LEMMA DueFacts ==
  /\ \A b : Due(b) = {} \/ Due(b) = Given(b)
  /\ sink.kind # "kdb" => \A b : Due(b) = Given(b)
  BY DEF Due, Given

LEMMA SameDue ==
  ASSUME SameTask
  PROVE  \A b : Due(b)' = Due(b)
  BY DEF SameTask, Due

SameHand == sink'.next = sink.next /\ sink'.burst = sink.burst /\ sink'.flight = sink.flight
SameStore == kv' = kv /\ leased' = leased /\ lease' = lease /\ keeper' = keeper

(* A step that only moves the task from one point to another. *)
LEMMA MovesOn ==
  ASSUME SinkInv, sink' \in SinkState, SameTask, SameHand, stored' = stored,
         sink'.pc \in {"take", "close", "flush"} \/ SinkDone'
           => sink.pc \in {"take", "close", "flush"} \/ \A b \in 1..Taken : Due(b) \subseteq Kept,
         sink'.pc \in {"connect", "grant"} => sink.pc \in {"connect", "grant"},
         sink'.pc = "close" \/ SinkClosed' => Taken = Len(SinkBursts),
         sink'.pc # "send", sink'.pc # "await",
         sink.flight # {} => sink'.pc = "ended" /\ sink'.err = TRUE,
         kv' \in [SinkKeys -> Int], LeaseInv'
  PROVE  SinkInv'
<1>1. Taken' = Taken /\ Kept' = Kept
  BY DEF Taken, Kept, SameHand
<1>2. SinkType'
  BY <1>1 DEF SinkInv, SinkType, SameHand
<1>3. HandInv'
  BY <1>1, SameDue DEF SinkInv, HandInv, SameTask, SameHand, Given
<1>4. KeptInv'
  BY <1>1, SameDue DEF SinkInv, KeptInv, SameTask, Given
<1> QED
  BY <1>2, <1>3, <1>4 DEF SinkInv

(* A step that leaves the lease alone. *)
LEMMA SameLease ==
  ASSUME SinkInv, SameStore, SameTask,
         ~ SinkClosed' \/ (SinkClosed /\ sink'.unrevoked = sink.unrevoked),
         sink'.pc \in Unleased \/ sink.pc \notin Unleased \/ sink.ttl # TRUE
  PROVE  LeaseInv'
  BY DEF SinkInv, LeaseInv, SameStore, SameTask

LEMMA SinkPlainStep ==
  ASSUME SinkInv, SinkFails \/ SinkConnect \/ EtcdGrant \/ SinkSent \/ SinkFlush \/ SinkLanded
  PROVE  SinkInv'
<1>0. sink \in SinkState /\ kv \in [SinkKeys -> Int]
  BY DEF SinkInv, SinkType
<1>1. CASE SinkFails
  <2>1. /\ sink' = [sink EXCEPT !.pc = "ended", !.err = TRUE] /\ stored' = stored /\ SameStore
        /\ sink.pc \in {"connect", "grant", "send", "flush"}
    BY <1>1 DEF SinkFails, SameStore
  <2>2. sink' \in SinkState /\ SameTask /\ SameHand /\ sink'.pc = "ended" /\ sink'.err = TRUE
    BY <1>0, <2>1 DEF SinkState, SameTask, SameHand
  <2>3. ~ SinkDone' /\ ~ SinkClosed'
    BY <2>2 DEF SinkDone, SinkClosed
  <2>4. LeaseInv'
    BY <2>1, <2>2, <2>3, SameLease DEF Unleased
  <2> QED
    BY <1>0, <2>1, <2>2, <2>3, <2>4, MovesOn DEF SameStore
<1>2. CASE SinkConnect
  <2> DEFINE p == IF sink.ttl THEN "grant" ELSE "take"
  <2>1. sink' = [sink EXCEPT !.pc = p] /\ stored' = stored /\ SameStore /\ sink.pc = "connect"
    BY <1>2 DEF SinkConnect, SameStore, SinkAt
  <2>2. p \in {"grant", "take"} /\ (p = "grant" \/ sink.ttl # TRUE)
    OBVIOUS
  <2> HIDE DEF p
  <2>3. sink' \in SinkState /\ SameTask /\ SameHand /\ sink'.pc = p
    BY <1>0, <2>1, <2>2 DEF SinkState, SameTask, SameHand
  <2>4. ~ SinkDone' /\ ~ SinkClosed'
    BY <2>2, <2>3 DEF SinkDone, SinkClosed
  <2>5. LeaseInv'
    BY <2>1, <2>2, <2>3, <2>4, SameLease DEF Unleased
  <2>6. sink.flight = {} /\ \A b \in 1..Taken : Due(b) \subseteq Kept
    BY <2>1 DEF SinkInv, HandInv
  <2> QED
    BY <1>0, <2>1, <2>2, <2>3, <2>4, <2>5, <2>6, MovesOn DEF SameStore
<1>3. CASE EtcdGrant
  <2>1. /\ sink' = [sink EXCEPT !.pc = "take"] /\ stored' = stored /\ sink.pc = "grant"
        /\ kv' = kv /\ leased' = leased /\ lease' = "live"
    BY <1>3 DEF EtcdGrant, SinkAt
  <2>2. sink' \in SinkState /\ SameTask /\ SameHand /\ sink'.pc = "take"
    BY <1>0, <2>1 DEF SinkState, SameTask, SameHand
  <2>3. ~ SinkDone' /\ ~ SinkClosed'
    BY <2>2 DEF SinkDone, SinkClosed
  <2>4. LeaseInv'
    BY <2>1, <2>2, <2>3 DEF SinkInv, LeaseInv, SameTask
  <2>5. sink.flight = {} /\ \A b \in 1..Taken : Due(b) \subseteq Kept
    BY <2>1 DEF SinkInv, HandInv
  <2> QED
    BY <1>0, <2>1, <2>2, <2>3, <2>4, <2>5, MovesOn
<1>4. CASE SinkSent
  <2> DEFINE p == IF sink.kind = "fluvio" THEN "flush" ELSE "take"
  <2>1. /\ sink' = [sink EXCEPT !.pc = p] /\ stored' = stored /\ SameStore
        /\ sink.pc = "send" /\ sink.burst = <<>> /\ sink.kind \in Stepwise
    BY <1>4 DEF SinkSent, SameStore, SinkAt
  <2>2. p \in {"flush", "take"}
    OBVIOUS
  <2> HIDE DEF p
  <2>3. sink' \in SinkState /\ SameTask /\ SameHand /\ sink'.pc = p
    BY <1>0, <2>1, <2>2 DEF SinkState, SameTask, SameHand
  <2>4. ~ SinkDone' /\ ~ SinkClosed'
    BY <2>1, <2>2, <2>3 DEF SinkDone, SinkClosed, SameTask, Stepwise
  <2>5. LeaseInv'
    BY <2>1, <2>3, <2>4, SameLease DEF Unleased
  <2>6. Range(sink.burst) = {}
    BY <2>1 DEF Range
  <2>7. sink.flight = {} /\ Due(Taken) \subseteq Kept /\ \A b \in 1..Taken : b < Taken => Due(b) \subseteq Kept
    BY <2>1, <2>6 DEF SinkInv, HandInv, KeptInv
  <2>8. \A b \in 1..Taken : Due(b) \subseteq Kept
    <3>1. Taken \in Int
      BY <1>0 DEF Taken, SinkState
    <3> QED
      BY <2>7, <3>1
  <2> QED
    BY <1>0, <2>1, <2>2, <2>3, <2>4, <2>5, <2>7, <2>8, MovesOn DEF SameStore
<1>5. CASE SinkFlush
  <2> DEFINE p == IF sink.kind = "kafka" THEN "ended" ELSE "take"
  <2>1. /\ sink' = [sink EXCEPT !.pc = p] /\ stored' = stored /\ SameStore /\ sink.pc = "flush"
    BY <1>5 DEF SinkFlush, SameStore, SinkAt
  <2>2. p \in {"ended", "take"} /\ (p = "ended" => sink.kind = "kafka")
    OBVIOUS
  <2> HIDE DEF p
  <2>3. sink' \in SinkState /\ SameTask /\ SameHand /\ sink'.pc = p /\ sink'.unrevoked = sink.unrevoked
    BY <1>0, <2>1, <2>2 DEF SinkState, SameTask, SameHand
  <2>4. SinkClosed' => SinkClosed
    BY <2>1, <2>2, <2>3 DEF SinkDone, SinkClosed
  <2>5. LeaseInv'
    BY <2>1, <2>3, <2>4, SameLease DEF Unleased
  <2>6. sink.flight = {} /\ (SinkClosed => Taken = Len(SinkBursts))
    BY <2>1 DEF SinkInv, HandInv
  <2>7. sink'.pc # "close"
    BY <2>2, <2>3
  <2> QED
    BY <1>0, <2>1, <2>2, <2>3, <2>4, <2>5, <2>6, <2>7, MovesOn DEF SameStore
<1>6. CASE SinkLanded
  <2> DEFINE none == <<>>
  <2>0. none \in Seq(RecordNo)
    OBVIOUS
  <2> HIDE DEF none
  <2>1. /\ sink' = [sink EXCEPT !.pc = "take", !.burst = none] /\ stored' = stored /\ SameStore
        /\ sink.pc = "await" /\ sink.flight = {}
    BY <1>6 DEF SinkLanded, SameStore, SinkAt, none
  <2>2. sink' \in SinkState /\ SameTask /\ sink'.pc = "take" /\ sink'.flight = {} /\ sink'.next = sink.next
    BY <1>0, <2>0, <2>1 DEF SinkState, SameTask
  <2>3. ~ SinkDone' /\ ~ SinkClosed'
    BY <2>2 DEF SinkDone, SinkClosed
  <2>4. LeaseInv'
    BY <2>1, <2>2, <2>3, SameLease DEF Unleased
  <2>5. Due(Taken) \subseteq Kept /\ \A b \in 1..Taken : b < Taken => Due(b) \subseteq Kept
    BY <2>1 DEF SinkInv, HandInv, KeptInv
  <2>6. \A b \in 1..Taken : Due(b) \subseteq Kept
    <3>1. Taken \in Int
      BY <1>0 DEF Taken, SinkState
    <3> QED
      BY <2>5, <3>1
  <2>7. Taken' = Taken /\ Kept' = Kept
    BY <2>1, <2>2 DEF Taken, Kept
  <2>8. SinkType'
    BY <2>1, <2>2, <2>7 DEF SinkInv, SinkType, SameStore
  <2>9. HandInv'
    BY <2>2, <2>3, <2>6, <2>7, SameDue DEF HandInv
  <2>10. KeptInv'
    BY <2>1, <2>2, <2>7, SameDue DEF SinkInv, KeptInv, SameTask
  <2> QED
    BY <2>4, <2>8, <2>9, <2>10 DEF SinkInv
<1> QED
  BY <1>1, <1>2, <1>3, <1>4, <1>5, <1>6


LEMMA SinkLeaseStep ==
  ASSUME SinkInv, SinkClose \/ KeeperStops \/ LeaseExpires \/ ForeignWrite
  PROVE  SinkInv'
<1>0. sink \in SinkState /\ kv \in [SinkKeys -> Int]
  BY DEF SinkInv, SinkType
<1>1. WithoutLeased \in [SinkKeys -> Int]
  BY <1>0 DEF WithoutLeased
<1>2. CASE SinkClose
  <2> DEFINE p == IF sink.kind = "kafka" THEN "flush" ELSE "ended"
  <2>1. PICK revoked \in BOOLEAN :
          /\ sink' = [sink EXCEPT !.pc = p, !.unrevoked = ~ revoked]
          /\ IF revoked /\ lease = "live"
             THEN lease' = "gone" /\ kv' = WithoutLeased /\ leased' = {}
             ELSE UNCHANGED <<lease, kv, leased>>
          /\ revoked = FALSE => lease = "live"
    BY <1>2 DEF SinkClose
  <2>2. sink.pc = "close" /\ keeper' = "off" /\ stored' = stored
    BY <1>2 DEF SinkClose, SinkAt
  <2>3. p \in {"flush", "ended"}
    OBVIOUS
  <2> HIDE DEF p
  <2>4. sink' \in SinkState /\ SameTask /\ SameHand /\ sink'.pc = p
    BY <1>0, <2>1, <2>3 DEF SinkState, SameTask, SameHand
  <2>5. sink.flight = {} /\ Taken = Len(SinkBursts)
    BY <2>2 DEF SinkInv, HandInv
  <2>6. kv' \in [SinkKeys -> Int]
    BY <1>0, <1>1, <2>1
  <2>7. leased' = {} \/ sink'.unrevoked = TRUE
    <3>1. CASE revoked
      BY <2>1, <3>1 DEF SinkInv, LeaseInv
    <3>2. CASE ~ revoked
      BY <1>0, <2>1, <3>2 DEF SinkState
    <3> QED
      BY <3>1, <3>2
  <2>8. (\A k \in leased' : k \in SinkKeys /\ kv'[k] > 0) /\ (leased' # {} => lease' = "live")
    BY <2>1 DEF SinkInv, LeaseInv
  <2>10. sink.ttl = TRUE => lease' \in {"live", "gone"} /\ \A k \in SinkKeys : kv'[k] > 0 => k \in leased'
    <3>1. sink.ttl = TRUE => lease \in {"live", "gone"} /\ \A k \in SinkKeys : kv[k] > 0 => k \in leased
      BY <2>2 DEF SinkInv, LeaseInv, Unleased
    <3> QED
      BY <1>0, <2>1, <3>1 DEF WithoutLeased
  <2>9. LeaseInv'
    BY <2>2, <2>4, <2>7, <2>8, <2>10 DEF LeaseInv, SameTask
  <2> QED
    BY <2>2, <2>3, <2>4, <2>5, <2>6, <2>9, MovesOn
<1>3. ASSUME sink' = sink, stored' = stored, kv' \in [SinkKeys -> Int], LeaseInv'
      PROVE  SinkInv'
  <2>1. SinkType'
    BY <1>3 DEF SinkInv, SinkType, Taken
  <2>4. SameTask
    BY <1>3 DEF SameTask
  <2>2. HandInv'
    BY <1>3, <2>4, SameDue DEF SinkInv, HandInv, Taken, Kept, Given, SinkDone, SinkClosed
  <2>3. KeptInv'
    BY <1>3, <2>4, SameDue DEF SinkInv, KeptInv, Taken, Kept
  <2> QED
    BY <1>3, <2>1, <2>2, <2>3 DEF SinkInv
<1>4. CASE KeeperStops
  BY <1>0, <1>3, <1>4 DEF KeeperStops, SinkInv, LeaseInv, SinkClosed, SinkDone
<1>5. CASE LeaseExpires
  <2>1. /\ lease' = "gone" /\ kv' = WithoutLeased /\ leased' = {}
        /\ UNCHANGED <<sink, stored, keeper>>
    BY <1>5 DEF LeaseExpires
  <2>2. sink.ttl = TRUE => \A k \in SinkKeys : ~ (kv'[k] > 0)
    BY <1>0, <2>1 DEF SinkInv, LeaseInv, WithoutLeased
  <2>3. LeaseInv'
    BY <2>1, <2>2 DEF SinkInv, LeaseInv, SinkClosed, SinkDone
  <2> QED
    BY <1>1, <1>3, <2>1, <2>3
<1>6. CASE ForeignWrite
  <2>1. PICK k \in Foreign : /\ kv[k] = 0 /\ kv' = [kv EXCEPT ![k] = -1]
                             /\ UNCHANGED <<sink, stored, leased, lease, keeper>>
    BY <1>6 DEF ForeignWrite
  <2> DEFINE foreign == -1
  <2>2. kv' \in [SinkKeys -> Int]
    <3>1. foreign \in Int /\ kv' = [kv EXCEPT ![k] = foreign]
      BY <2>1
    <3> HIDE DEF foreign
    <3> QED
      BY <1>0, <3>1
  <2>3. \A l \in leased : l \in SinkKeys /\ l # k /\ kv'[l] > 0
    BY <1>0, <2>1 DEF SinkInv, LeaseInv
  <2>5. \A l \in SinkKeys : kv'[l] > 0 => kv[l] > 0
    BY <1>0, <2>1
  <2>4. LeaseInv'
    BY <2>1, <2>3, <2>5 DEF SinkInv, LeaseInv, SinkClosed, SinkDone
  <2> QED
    BY <1>3, <2>1, <2>2, <2>4
<1> QED
  BY <1>2, <1>4, <1>5, <1>6

LEMMA SinkTakeStep ==
  ASSUME SinkInv, SinkTake
  PROVE  SinkInv'
<1>0. sink \in SinkState /\ kv \in [SinkKeys -> Int] /\ sink.next \in Nat /\ sink.next >= 1
      /\ Taken <= Len(SinkBursts) /\ Taken = sink.next - 1 /\ stored \in Seq(RecordNo)
  BY DEF SinkInv, SinkType, SinkState, Taken
<1>1. sink.pc = "take" /\ stored' = stored /\ SameStore
  BY DEF SinkTake, SinkAt, SameStore
<1>2. sink.flight = {} /\ \A b \in 1..Taken : Due(b) \subseteq Kept
  BY <1>1 DEF SinkInv, HandInv
<1>3. Len(SinkBursts) \in Nat
  BY BurstFacts
<1>4. CASE sink.next > Len(SinkBursts)
  <2>1. sink' = [sink EXCEPT !.pc = "close"]
    BY <1>4 DEF SinkTake
  <2>2. sink' \in SinkState /\ SameTask /\ SameHand /\ sink'.pc = "close"
    BY <1>0, <2>1 DEF SinkState, SameTask, SameHand
  <2>3. ~ SinkDone' /\ ~ SinkClosed'
    BY <2>2 DEF SinkDone, SinkClosed
  <2>4. LeaseInv'
    BY <1>1, <2>2, <2>3, SameLease DEF Unleased
  <2>5. Taken = Len(SinkBursts)
    BY <1>0, <1>3, <1>4
  <2> QED
    BY <1>0, <1>1, <1>2, <2>2, <2>3, <2>4, <2>5, MovesOn DEF SameStore
<1>5. CASE ~ (sink.next > Len(SinkBursts))
  <2> DEFINE n == sink.next
             given == SinkBursts[n]
  <2>1. n \in 1..Len(SinkBursts) /\ n + 1 \in Nat
    BY <1>0, <1>3, <1>5
  <2>2. sink' = [sink EXCEPT !.pc = "send", !.burst = given, !.next = n + 1]
    BY <1>5 DEF SinkTake
  <2>3. given \in Seq(RecordNo) /\ Increasing(given) /\ Range(given) = Given(n)
    BY <2>1, BurstFacts DEF Given
  <2>4. \A c \in 1..Taken : c \in 1..Len(SinkBursts) /\ c < n
    BY <1>0, <2>1
  <2>5. Below(Kept, Given(n))
    BY <2>1, <2>4, BurstFacts, DueFacts, SMTT(30) DEF SinkInv, KeptInv, Below
  <2> HIDE DEF given
  <2>6. /\ sink' \in SinkState /\ SameTask /\ sink'.pc = "send" /\ sink'.burst = given
        /\ sink'.next = n + 1 /\ sink'.flight = {}
    BY <1>0, <1>2, <2>1, <2>2, <2>3 DEF SinkState, SameTask
  <2>7. ~ SinkDone' /\ ~ SinkClosed'
    BY <2>6 DEF SinkDone, SinkClosed
  <2>8. LeaseInv'
    BY <1>1, <2>6, <2>7, SameLease DEF Unleased
  <2>9. Taken' = n /\ Taken = n - 1 /\ Kept' = Kept
    BY <1>0, <1>1, <2>6 DEF Taken, Kept
  <2>10. SinkType'
    BY <1>0, <1>1, <2>1, <2>6, <2>9 DEF SinkType, SameStore
  <2>17. Due(n) \subseteq Given(n)
    BY DueFacts
  <2>11. HandInv'
    BY <2>1, <2>3, <2>5, <2>6, <2>7, <2>9, <2>17, SameDue DEF HandInv, Given, given
  <2>12. \A b \in 1..n : b < n => b \in 1..Taken
    BY <2>1, <2>9
  <2>13. \A b \in 1..Taken : b \in 1..n
    BY <2>1, <2>9
  <2>14. sink.kind = "kdb" => \A b \in 1..n : Due(b) \subseteq Kept \/ Due(b) \cap Kept = {}
    <3>1. Given(n) \cap Kept = {}
      <4> SUFFICES ASSUME NEW r \in Given(n), r \in Kept PROVE FALSE
        OBVIOUS
      <4>1. r < r /\ r \in Nat
        BY <2>1, <2>5, BurstFacts DEF Below, RecordNo
      <4> QED
        BY <4>1
    <3>2. \A b \in 1..n : b = n \/ b < n
      BY <2>1
    <3> QED
      BY <1>2, <2>12, <2>17, <3>1, <3>2
  <2>15. /\ \A b \in 1..n : b < n => Due(b) \subseteq Kept
         /\ \A r \in Kept : \E b \in 1..n : r \in Due(b)
         /\ sink.kind # "kafka" => Increasing(stored)
    BY <1>2, <2>12, <2>13 DEF SinkInv, KeptInv
  <2>16. KeptInv'
    BY <1>1, <2>6, <2>9, <2>14, <2>15, SameDue DEF KeptInv, SameTask
  <2> QED
    BY <2>8, <2>10, <2>11, <2>16 DEF SinkInv
<1> QED
  BY <1>4, <1>5


LEMMA StoresHead ==
  ASSUME SinkInv, sink.pc = "send", sink.kind \in Stepwise, sink.burst # <<>>,
         sink' = [sink EXCEPT !.burst = Tail(@)], stored' = Append(stored, Head(sink.burst)),
         kv' \in [SinkKeys -> Int], LeaseInv'
  PROVE  SinkInv'
<1> DEFINE h == Head(sink.burst)
           t == Tail(sink.burst)
<1>0. /\ sink \in SinkState /\ stored \in Seq(RecordNo) /\ sink.burst \in Seq(RecordNo)
      /\ sink.next >= 1 /\ Taken <= Len(SinkBursts) /\ sink.next \in Nat /\ Taken \in Int
      /\ sink.kind # "kafka" /\ sink.kind # "kdb"
  BY DEF SinkInv, SinkType, SinkState, Taken, Stepwise
<1>1. /\ h \in RecordNo /\ t \in Seq(RecordNo) /\ Range(sink.burst) = {h} \cup Range(t)
      /\ Increasing(sink.burst) => Increasing(t) /\ Below({h}, Range(t))
  BY <1>0, HeadTailOf
<1>2. /\ Taken >= 1 /\ Range(sink.burst) \subseteq Given(Taken)
      /\ Due(Taken) \subseteq Kept \cup Range(sink.burst)
      /\ Increasing(sink.burst) /\ Below(Kept, Range(sink.burst)) /\ sink.flight = {}
  BY DEF SinkInv, HandInv
<1>3. /\ \A b \in 1..Taken : b < Taken => Due(b) \subseteq Kept
      /\ \A r \in Kept : \E b \in 1..Taken : r \in Due(b)
      /\ Increasing(stored)
  BY <1>0 DEF SinkInv, KeptInv
<1>4. sink' = [sink EXCEPT !.burst = t] /\ stored' = Append(stored, h)
  OBVIOUS
<1> HIDE DEF h, t
<1>5. Below(Kept, {h}) /\ Below(Kept \cup {h}, Range(t))
  BY <1>1, <1>2 DEF Below
<1>6. stored' \in Seq(RecordNo) /\ Kept' = Kept \cup {h} /\ Increasing(stored')
  BY <1>0, <1>1, <1>3, <1>4, <1>5, AppendOf DEF Kept
<1>7. /\ sink' \in SinkState /\ SameTask /\ sink'.pc = "send" /\ sink'.burst = t
      /\ sink'.next = sink.next /\ sink'.flight = {}
  BY <1>0, <1>1, <1>2, <1>4 DEF SinkState, SameTask
<1>8. ~ SinkDone' /\ ~ SinkClosed' /\ Taken' = Taken
  BY <1>7 DEF SinkDone, SinkClosed, Taken
<1>9. SinkType'
  BY <1>0, <1>6, <1>7, <1>8 DEF SinkType
<1>10. HandInv'
  BY <1>1, <1>2, <1>5, <1>6, <1>7, <1>8, SameDue DEF HandInv, Given, SameTask
<1>11. Taken \in 1..Taken /\ h \in Due(Taken)
  BY <1>0, <1>1, <1>2, DueFacts
<1>12. KeptInv'
  BY <1>0, <1>3, <1>6, <1>7, <1>8, <1>11, SameDue DEF KeptInv, SameTask
<1> QED
  BY <1>9, <1>10, <1>12 DEF SinkInv

LEMMA SinkSendStep ==
  ASSUME SinkInv, EtcdPut \/ RedisPublish \/ RedisXAdd \/ FluvioSend
  PROVE  SinkInv'
<1>0. sink \in SinkState /\ kv \in [SinkKeys -> Int] /\ sink.burst \in Seq(RecordNo)
  BY DEF SinkInv, SinkType, SinkState
<1>1. ASSUME NEW kind \in Stepwise, SendOne(kind) PROVE SinkInv'
  <2>1. /\ sink.pc = "send" /\ sink.kind \in Stepwise /\ sink.burst # <<>>
        /\ sink' = [sink EXCEPT !.burst = Tail(@)] /\ stored' = Append(stored, Head(sink.burst))
        /\ SameStore
    BY <1>1 DEF SendOne, SinkAt, SameStore
  <2>2. ~ SinkClosed' /\ SameTask
    <3>1. sink'.pc = "send" /\ SameTask
      BY <1>0, <2>1 DEF SinkState, SameTask
    <3> QED
      BY <3>1 DEF SinkClosed, SinkDone
  <2>3. LeaseInv'
    BY <2>1, <2>2, SameLease DEF Unleased
  <2> QED
    BY <1>0, <2>1, <2>3, StoresHead DEF SameStore
<1>2. CASE EtcdPut
  <2> DEFINE r == Head(sink.burst)
             k == SinkKeyOf[r]
  <2>1. sink.pc = "send" /\ sink.kind \in Stepwise /\ sink.burst # <<>> /\ lease' = lease /\ keeper' = keeper
    BY <1>2 DEF EtcdPut, SinkAt, Stepwise
  <2>2. CASE sink' = [sink EXCEPT !.pc = "ended", !.err = TRUE] /\ UNCHANGED <<stored, kv, leased>>
    <3>1. sink' \in SinkState /\ SameTask /\ SameHand /\ sink'.pc = "ended" /\ sink'.err = TRUE
      BY <1>0, <2>2 DEF SinkState, SameTask, SameHand
    <3>2. ~ SinkDone' /\ ~ SinkClosed'
      BY <3>1 DEF SinkDone, SinkClosed
    <3>3. LeaseInv'
      BY <2>1, <2>2, <3>1, <3>2, SameLease DEF SameStore, Unleased
    <3> QED
      BY <1>0, <2>1, <2>2, <3>1, <3>2, <3>3, MovesOn
  <2>3. CASE /\ ~ (sink.ttl /\ lease = "gone")
             /\ sink' = [sink EXCEPT !.burst = Tail(@)]
             /\ stored' = Append(stored, r)
             /\ kv' = [kv EXCEPT ![k] = r]
             /\ leased' = IF lease = "live" THEN leased \cup {k} ELSE leased
    <3>1. r \in Given(Taken) /\ Taken \in 1..Len(SinkBursts)
      <4>1. Range(sink.burst) \subseteq Given(Taken) /\ Taken >= 1 /\ Taken <= Len(SinkBursts) /\ Taken \in Int
        BY <1>0, <2>1 DEF SinkInv, HandInv, SinkType, Taken, SinkState
      <4>2. r \in Range(sink.burst)
        BY <1>0, <2>1, HeadTailOf
      <4> QED
        BY <4>1, <4>2, BurstFacts
    <3>2. r \in SinkRecords /\ r \in RecordNo /\ k \in SinkKeys
      BY <3>1, BurstFacts DEF SinkKeys
    <3>3. r \in Int /\ r > 0
      BY <3>2 DEF RecordNo
    <3> HIDE DEF r, k
    <3>4. kv' \in [SinkKeys -> Int] /\ kv'[k] = r /\ \A l \in SinkKeys : l # k => kv'[l] = kv[l]
      BY <1>0, <2>3, <3>2, <3>3
    <3>5. ~ SinkClosed' /\ sink'.ttl = sink.ttl
      <4>1. sink'.pc = "send" /\ sink'.ttl = sink.ttl
        BY <1>0, <2>1, <2>3 DEF SinkState
      <4> QED
        BY <4>1 DEF SinkClosed, SinkDone
    <3>6. \A l \in leased : l \in SinkKeys /\ kv[l] > 0
      BY DEF SinkInv, LeaseInv
    <3>7. \A l \in leased \cup {k} : l \in SinkKeys /\ kv'[l] > 0
      BY <3>2, <3>3, <3>4, <3>6
    <3>9. sink.ttl = TRUE => lease = "live" /\ \A l \in SinkKeys : kv'[l] > 0 => l \in leased \cup {k}
      BY <2>1, <2>3, <3>4 DEF SinkInv, LeaseInv, Unleased
    <3>8. LeaseInv'
      BY <2>1, <2>3, <3>5, <3>7, <3>9 DEF SinkInv, LeaseInv
    <3> QED
      BY <2>1, <2>3, <3>4, <3>8, StoresHead DEF r
  <2> QED
    BY <1>2, <2>2, <2>3 DEF EtcdPut
<1> QED
  BY <1>1, <1>2 DEF RedisPublish, RedisXAdd, FluvioSend, Stepwise


LEMMA SinkStartStep ==
  ASSUME SinkInv, KafkaSendAll \/ PgInsertAll
  PROVE  SinkInv'
<1>0. /\ sink \in SinkState /\ stored \in Seq(RecordNo) /\ sink.burst \in Seq(RecordNo)
      /\ sink.next >= 1 /\ Taken <= Len(SinkBursts) /\ sink.next \in Nat /\ Taken \in Int
      /\ sink.width \in Nat /\ sink.rows \in SinkTables /\ kv \in [SinkKeys -> Int]
  BY DEF SinkInv, SinkType, SinkState, Taken
<1>1. sink.pc = "send" /\ sink.kind \in Concurrent /\ sink.kind \notin Stepwise
  BY DEF KafkaSendAll, PgInsertAll, SinkAt, Concurrent, Stepwise
<1>2. /\ Taken >= 1 /\ sink.burst = SinkBursts[Taken] /\ Given(Taken) = Range(sink.burst)
      /\ Below(Kept, Range(sink.burst)) /\ Range(sink.burst) \subseteq Given(Taken)
  BY <1>1 DEF SinkInv, HandInv, Given
<1>3. Taken \in 1..Len(SinkBursts)
  BY <1>0, <1>2, BurstFacts
<1>4. Given(Taken) \subseteq RecordNo /\ Given(Taken) \subseteq SinkRecords
  BY <1>3, BurstFacts
<1>5. PICK w \in Nat : StartAll(w)
  <2>1. CASE KafkaSendAll
    BY <2>1 DEF KafkaSendAll
  <2>2. CASE PgInsertAll
    <3>1. CASE sink.width = 0 /\ sink.burst # <<>>
      <4> DEFINE row == sink.rows[Head(sink.burst)]
      <4>1. Head(sink.burst) \in SinkRecords
        BY <1>0, <1>2, <1>4, <3>1, HeadTailOf
      <4>2. row \in Seq(STRING)
        BY <1>0, <4>1, SinksAssumption
      <4>3. Len(row) + 1 \in Nat
        BY <4>2, LenProperties
      <4> QED
        BY <2>2, <3>1, <4>3 DEF PgInsertAll
    <3>2. CASE ~ (sink.width = 0 /\ sink.burst # <<>>)
      BY <1>0, <2>2, <3>2 DEF PgInsertAll
    <3> QED
      BY <3>1, <3>2
  <2> QED
    BY <2>1, <2>2
<1> DEFINE all == Range(sink.burst)
<1>6. sink' = [sink EXCEPT !.pc = "await", !.flight = all, !.width = w] /\ stored' = stored /\ SameStore
  BY <1>5 DEF StartAll, SameStore
<1>7. all = Given(Taken) /\ all \in SUBSET RecordNo /\ Below(Kept, all)
  BY <1>2, <1>4
<1> HIDE DEF all
<1>8. /\ sink' \in SinkState /\ SameTask /\ sink'.pc = "await" /\ sink'.flight = all
      /\ sink'.next = sink.next
  BY <1>0, <1>6, <1>7 DEF SinkState, SameTask
<1>9. ~ SinkDone' /\ ~ SinkClosed' /\ Taken' = Taken /\ Kept' = Kept
  BY <1>6, <1>8 DEF SinkDone, SinkClosed, Taken, Kept
<1>10. LeaseInv'
  BY <1>1, <1>6, <1>8, <1>9, SameLease DEF Unleased
<1>11. SinkType'
  BY <1>0, <1>6, <1>8, <1>9 DEF SinkType, SameStore
<1>14. Due(Taken) \subseteq Given(Taken)
  BY DueFacts
<1>12. HandInv'
  BY <1>1, <1>2, <1>7, <1>8, <1>9, <1>14, SameDue DEF HandInv, Given, SameTask
<1>13. KeptInv'
  BY <1>6, <1>8, <1>9, SameDue DEF SinkInv, KeptInv, SameTask
<1> QED
  BY <1>10, <1>11, <1>12, <1>13 DEF SinkInv

LEMMA SinkLandStep ==
  ASSUME SinkInv, SinkLand \/ SinkRefused
  PROVE  SinkInv'
<1>0. /\ sink \in SinkState /\ stored \in Seq(RecordNo) /\ sink.flight \subseteq RecordNo
      /\ sink.next >= 1 /\ Taken <= Len(SinkBursts) /\ sink.next \in Nat /\ Taken \in Int
      /\ kv \in [SinkKeys -> Int]
  BY DEF SinkInv, SinkType, SinkState, Taken
<1>1. PICK r \in sink.flight :
        /\ \/ /\ stored' = Append(stored, r) /\ sink' = [sink EXCEPT !.flight = @ \ {r}]
              /\ sink.kind = "postgres" => \A s \in sink.flight : s >= r
           \/ /\ stored' = stored
              /\ sink' = [sink EXCEPT !.flight = @ \ {r}, !.pc = "ended", !.err = TRUE]
        /\ SameStore
  BY DEF SinkLand, SinkRefused, SameStore
<1>2. /\ Taken >= 1 /\ sink.flight \subseteq Given(Taken) /\ sink.kind \in Concurrent
      /\ sink.pc = "await" \/ (sink.pc = "ended" /\ sink.err = TRUE)
      /\ sink.kind # "kafka" => Below(Kept, sink.flight)
  BY DEF SinkInv, HandInv
<1> DEFINE left == sink.flight \ {r}
<1>3. left \in SUBSET RecordNo /\ left \subseteq Given(Taken)
  BY <1>0, <1>2
<1>4. sink.kind \in {"kafka", "postgres"}
  BY <1>2 DEF Concurrent
<1>5. CASE /\ stored' = Append(stored, r) /\ sink' = [sink EXCEPT !.flight = left]
           /\ sink.kind = "postgres" => \A s \in sink.flight : s >= r
  <2>1. sink.kind # "kafka" => Below(Kept \cup {r}, left) /\ Below(Kept, {r})
    <3> SUFFICES ASSUME sink.kind # "kafka" PROVE Below(Kept \cup {r}, left) /\ Below(Kept, {r})
      OBVIOUS
    <3>1. \A s \in left : r < s
      BY <1>0, <1>4, <1>5 DEF RecordNo
    <3> QED
      BY <1>2, <3>1 DEF Below
  <2> HIDE DEF left
  <2>2. stored' \in Seq(RecordNo) /\ Kept' = Kept \cup {r}
        /\ (Increasing(stored) /\ Below(Kept, {r}) => Increasing(stored'))
    BY <1>0, <1>5, AppendOf DEF Kept
  <2>3. /\ sink' \in SinkState /\ SameTask /\ sink'.pc = sink.pc /\ sink'.err = sink.err
        /\ sink'.flight = left /\ sink'.next = sink.next /\ sink'.burst = sink.burst
        /\ sink'.unrevoked = sink.unrevoked
    BY <1>0, <1>3, <1>5 DEF SinkState, SameTask
  <2>4. ~ SinkDone' /\ ~ SinkClosed' /\ Taken' = Taken
    BY <1>2, <2>3 DEF SinkDone, SinkClosed, Taken
  <2>5. LeaseInv'
    BY <1>1, <1>2, <2>3, <2>4, SameLease DEF Unleased
  <2>6. SinkType'
    BY <1>0, <1>1, <2>2, <2>3, <2>4 DEF SinkType, SameStore
  <2>7. sink.pc = "await" => Due(Taken) \subseteq (Kept \cup {r}) \cup left
    BY DEF SinkInv, HandInv, left
  <2>8. HandInv'
    BY <1>2, <1>3, <2>1, <2>2, <2>3, <2>4, <2>7, SameDue DEF HandInv, Given, SameTask
  <2>9. Taken \in 1..Taken /\ r \in Due(Taken)
    BY <1>0, <1>2, <1>4, DueFacts
  <2>10. KeptInv'
    BY <1>4, <2>1, <2>2, <2>3, <2>4, <2>9, SameDue DEF SinkInv, KeptInv, SameTask
  <2> QED
    BY <2>5, <2>6, <2>8, <2>10 DEF SinkInv
<1>6. CASE /\ stored' = stored
           /\ sink' = [sink EXCEPT !.flight = left, !.pc = "ended", !.err = TRUE]
  <2>1. sink.kind # "kafka" => Below(Kept, left)
    BY <1>2 DEF Below
  <2> HIDE DEF left
  <2>2. /\ sink' \in SinkState /\ SameTask /\ sink'.pc = "ended" /\ sink'.err = TRUE
        /\ sink'.flight = left /\ sink'.next = sink.next
    BY <1>0, <1>3, <1>6 DEF SinkState, SameTask
  <2>3. ~ SinkDone' /\ ~ SinkClosed' /\ Taken' = Taken /\ Kept' = Kept
    BY <1>6, <2>2 DEF SinkDone, SinkClosed, Taken, Kept
  <2>4. LeaseInv'
    BY <1>1, <2>2, <2>3, SameLease DEF Unleased
  <2>5. SinkType'
    BY <1>0, <1>1, <1>6, <2>2, <2>3 DEF SinkType, SameStore
  <2>6. HandInv'
    BY <1>2, <1>3, <2>1, <2>2, <2>3 DEF HandInv, Given, SameTask
  <2>7. KeptInv'
    BY <1>6, <2>2, <2>3, SameDue DEF SinkInv, KeptInv, SameTask
  <2> QED
    BY <2>4, <2>5, <2>6, <2>7 DEF SinkInv
<1> QED
  BY <1>1, <1>5, <1>6

LEMMA SinkKdbStep ==
  ASSUME SinkInv, KdbInsert
  PROVE  SinkInv'
<1>0. /\ sink \in SinkState /\ stored \in Seq(RecordNo) /\ sink.burst \in Seq(RecordNo)
      /\ sink.next >= 1 /\ Taken <= Len(SinkBursts) /\ sink.next \in Nat /\ Taken \in Int
      /\ kv \in [SinkKeys -> Int]
  BY DEF SinkInv, SinkType, SinkState, Taken
<1> DEFINE none == <<>>
<1>1. none \in Seq(RecordNo)
  OBVIOUS
<1>2. /\ sink.pc = "send" /\ sink.kind = "kdb" /\ SameStore
      /\ \/ sink' = [sink EXCEPT !.pc = "ended", !.err = TRUE] /\ stored' = stored
         \/ /\ sink' = [sink EXCEPT !.pc = "take", !.burst = none] /\ stored' = stored
            /\ ~ Ragged(sink.burst) /\ ColumnsOf(sink.burst) = {}
         \/ /\ sink' = [sink EXCEPT !.pc = "take", !.burst = none] /\ stored' = stored \o sink.burst
            /\ ColumnsOf(sink.burst) # {}
  BY DEF KdbInsert, SinkAt, SameStore
<1> HIDE DEF none
<1>3. sink.kind \notin Stepwise /\ sink.kind # "kafka"
  BY <1>2 DEF Stepwise
<1>4. /\ Taken >= 1 /\ Given(Taken) = Range(sink.burst) /\ sink.flight = {}
      /\ Increasing(sink.burst) /\ Below(Kept, Range(sink.burst)) /\ SinkBursts[Taken] = sink.burst
  BY <1>2, <1>3 DEF SinkInv, HandInv, Given
<1>7. Taken \in 1..Taken /\ Taken \in 1..Len(SinkBursts)
  BY <1>0, <1>4, BurstFacts
<1>8. DOMAIN sink.burst = 1..Len(sink.burst) /\ Len(sink.burst) \in Nat /\ (sink.burst # none => 1 \in DOMAIN sink.burst)
  BY <1>0, LenProperties, EmptySeq DEF none
<1>9. \A i \in DOMAIN sink.burst : sink.burst[i] \in Range(sink.burst) /\ sink.rows[sink.burst[i]] \in Seq(STRING)
  <2> SUFFICES ASSUME NEW i \in DOMAIN sink.burst
               PROVE  sink.burst[i] \in Range(sink.burst) /\ sink.rows[sink.burst[i]] \in Seq(STRING)
    OBVIOUS
  <2>1. sink.burst[i] \in Range(sink.burst)
    BY DEF Range
  <2>2. sink.burst[i] \in SinkRecords
    BY <1>4, <1>7, <2>1, BurstFacts
  <2> QED
    BY <1>0, <2>1, <2>2, SinksAssumption DEF SinkState
<1>5. CASE sink' = [sink EXCEPT !.pc = "ended", !.err = TRUE] /\ stored' = stored
  <2>1. sink' \in SinkState /\ SameTask /\ SameHand /\ sink'.pc = "ended" /\ sink'.err = TRUE
    BY <1>0, <1>5 DEF SinkState, SameTask, SameHand
  <2>2. ~ SinkDone' /\ ~ SinkClosed'
    BY <2>1 DEF SinkDone, SinkClosed
  <2>3. LeaseInv'
    BY <1>2, <2>1, <2>2, SameLease DEF Unleased
  <2> QED
    BY <1>0, <1>2, <1>5, <2>1, <2>2, <2>3, MovesOn DEF SameStore
<1>10. CASE /\ sink' = [sink EXCEPT !.pc = "take", !.burst = none] /\ stored' = stored
            /\ ~ Ragged(sink.burst) /\ ColumnsOf(sink.burst) = {}
  <2>1. /\ sink' \in SinkState /\ SameTask /\ sink'.pc = "take" /\ sink'.flight = {}
        /\ sink'.next = sink.next
    BY <1>0, <1>1, <1>4, <1>10 DEF SinkState, SameTask
  <2>2. ~ SinkDone' /\ ~ SinkClosed' /\ Taken' = Taken /\ Kept' = Kept
    BY <1>10, <2>1 DEF SinkDone, SinkClosed, Taken, Kept
  <2>3. LeaseInv'
    BY <1>2, <2>1, <2>2, SameLease DEF Unleased
  <2>4. SinkType'
    BY <1>0, <1>2, <1>10, <2>1, <2>2 DEF SinkType, SameStore
  <2>5. \A r \in Range(sink.burst) : sink.rows[r] = <<>>
    <3> SUFFICES ASSUME NEW i \in DOMAIN sink.burst PROVE sink.rows[sink.burst[i]] = <<>>
      BY DEF Range
    <3>1. 1 \in DOMAIN sink.burst /\ sink.burst # <<>>
      BY <1>8 DEF none
    <3>2. DOMAIN sink.rows[sink.burst[1]] = {}
      BY <1>10, <3>1 DEF ColumnsOf
    <3>3. Len(sink.rows[sink.burst[1]]) = 0
      <4> DEFINE row == sink.rows[sink.burst[1]]
      <4>1. row \in Seq(STRING) /\ DOMAIN row = {}
        BY <1>9, <3>1, <3>2
      <4> HIDE DEF row
      <4>2. Len(row) \in Nat /\ DOMAIN row = 1..Len(row)
        BY <4>1, LenProperties
      <4>3. Len(row) > 0 => 1 \in 1..Len(row)
        BY <4>2
      <4>4. Len(row) = 0
        BY <4>1, <4>2, <4>3
      <4> QED
        BY <4>4 DEF row
    <3>4. Len(sink.rows[sink.burst[i]]) = 0
      BY <1>10, <3>3 DEF Ragged
    <3> QED
      BY <1>9, <3>4, EmptySeq
  <2>6. Due(Taken) = {}
    BY <1>2, <1>4, <2>5 DEF Due
  <2>7. \A b \in 1..Taken : Due(b) \subseteq Kept
    <3>1. \A b \in 1..Taken : b < Taken => Due(b) \subseteq Kept
      BY DEF SinkInv, KeptInv
    <3>2. \A b \in 1..Taken : b < Taken \/ b = Taken
      BY <1>0
    <3> QED
      BY <2>6, <3>1, <3>2
  <2>8. HandInv'
    BY <2>1, <2>2, <2>7, SameDue DEF HandInv
  <2>9. KeptInv'
    BY <1>10, <2>1, <2>2, SameDue DEF SinkInv, KeptInv, SameTask
  <2> QED
    BY <2>3, <2>4, <2>8, <2>9 DEF SinkInv
<1>6. CASE /\ sink' = [sink EXCEPT !.pc = "take", !.burst = none] /\ stored' = stored \o sink.burst
           /\ ColumnsOf(sink.burst) # {}
  <2>11. Due(Taken) = Given(Taken)
    <3>1. sink.burst # <<>> /\ 1 \in DOMAIN sink.burst
      BY <1>6, <1>8 DEF ColumnsOf, none
    <3>2. DOMAIN sink.rows[sink.burst[1]] # {}
      BY <1>6, <3>1 DEF ColumnsOf
    <3>3. sink.rows[sink.burst[1]] # <<>>
      BY <3>2
    <3>4. \E r \in Range(SinkBursts[Taken]) : sink.rows[r] # <<>>
      BY <1>4, <1>9, <3>1, <3>3
    <3> QED
      BY <3>4 DEF Due, Given
  <2>1. /\ sink' \in SinkState /\ SameTask /\ sink'.pc = "take" /\ sink'.flight = {}
        /\ sink'.next = sink.next
    BY <1>0, <1>1, <1>4, <1>6 DEF SinkState, SameTask
  <2>2. ~ SinkDone' /\ ~ SinkClosed' /\ Taken' = Taken
    BY <2>1 DEF SinkDone, SinkClosed, Taken
  <2>3. LeaseInv'
    BY <1>2, <2>1, <2>2, SameLease DEF Unleased
  <2>4. Increasing(stored)
    BY <1>3 DEF SinkInv, KeptInv
  <2>5. stored' \in Seq(RecordNo) /\ Kept' = Kept \cup Given(Taken) /\ Increasing(stored')
    BY <1>0, <1>4, <1>6, <2>4, ConcatOf DEF Kept
  <2>6. SinkType'
    BY <1>0, <1>2, <2>1, <2>2, <2>5 DEF SinkType, SameStore
  <2>7. \A b \in 1..Taken : Due(b) \subseteq Kept \cup Given(Taken)
    <3>1. \A b \in 1..Taken : b < Taken => Due(b) \subseteq Kept
      BY DEF SinkInv, KeptInv
    <3>2. \A b \in 1..Taken : b < Taken \/ b = Taken
      BY <1>0
    <3> QED
      BY <2>11, <3>1, <3>2
  <2>8. \A r \in Kept \cup Given(Taken) : \E b \in 1..Taken : r \in Due(b)
    <3>1. \A r \in Kept : \E b \in 1..Taken : r \in Due(b)
      BY DEF SinkInv, KeptInv
    <3> QED
      BY <1>7, <2>11, <3>1
  <2>9. HandInv'
    BY <2>1, <2>2, <2>5, <2>7, SameDue DEF HandInv
  <2>10. KeptInv'
    BY <2>1, <2>2, <2>5, <2>7, <2>8, SameDue DEF KeptInv, SameTask
  <2> QED
    BY <2>3, <2>6, <2>9, <2>10 DEF SinkInv
<1> QED
  BY <1>2, <1>5, <1>6, <1>10

LEMMA SinkStep ==
  ASSUME SinkInv, SinkNext
  PROVE  SinkInv'
  BY SinkPlainStep, SinkLeaseStep, SinkTakeStep, SinkSendStep, SinkStartStep, SinkLandStep, SinkKdbStep
     DEF SinkNext, SinkTask

LEMMA SinkStart ==
  ASSUME SinkInit
  PROVE  SinkInv
<1> DEFINE none == <<>>
<1>1. none \in Seq(RecordNo) /\ Range(none) = {} /\ Increasing(none)
  BY DEF Range, Increasing
<1>2. Len(SinkBursts) \in Nat
  BY BurstFacts
<1>3. PICK kind \in SinkKinds, ttl \in BOOLEAN, force \in BOOLEAN, rows \in SinkTables :
        sink = [kind |-> kind, ttl |-> ttl, force |-> force, pc |-> "connect", rows |-> rows,
                next |-> 1, burst |-> none, flight |-> {}, width |-> 0,
                unrevoked |-> FALSE, err |-> FALSE]
  BY DEF SinkInit
<1>4. stored = none /\ kv = [k \in SinkKeys |-> 0] /\ leased = {}
  BY DEF SinkInit
<1>5. kind \in AllKinds
  BY SinksAssumption DEF AllKinds
<1> HIDE DEF none
<1>6. sink \in SinkState /\ sink.pc = "connect" /\ sink.next = 1 /\ sink.flight = {}
  BY <1>1, <1>3, <1>5 DEF SinkState
<1>7. Taken = 0 /\ Kept = {} /\ ~ SinkDone /\ ~ SinkClosed
  BY <1>1, <1>4, <1>6 DEF Taken, Kept, SinkDone, SinkClosed
<1>8. SinkType
  BY <1>1, <1>2, <1>4, <1>6, <1>7 DEF SinkType
<1>9. LeaseInv
  BY <1>4, <1>6, <1>7 DEF LeaseInv, Unleased
<1>10. HandInv
  BY <1>6, <1>7 DEF HandInv
<1>11. KeptInv
  BY <1>1, <1>4, <1>7 DEF KeptInv
<1> QED
  BY <1>8, <1>9, <1>10, <1>11 DEF SinkInv

LEMMA SinkInvariant == Spec => []SinkInv
<1>1. Init => SinkInv
  BY SinkStart DEF Init
<1>2. ASSUME SinkInv, UNCHANGED sinkVars PROVE SinkInv'
  <2>1. SameTask
    BY <1>2 DEF sinkVars, SameTask
  <2> QED
    BY <1>2, <2>1, SameDue
       DEF SinkInv, SinkType, LeaseInv, HandInv, KeptInv, SinkDone, SinkClosed, Taken, Kept, Given, sinkVars
<1>3. SinkInv /\ [Next]_vars => SinkInv'
  BY <1>2, SinkStep, Turns
<1> QED
  BY <1>1, <1>3, PTL DEF Spec

(* Whichever adapter it is, however its bursts are cut and whatever the    *)
(* server refuses: no record is there before those due of the bursts it    *)
(* follows, a task that ends without an error has left all records that    *)
(* are due and no lease it could revoke, and the keys of one that fails    *)
(* hang on its lease.                                                      *)
THEOREM SinksStaySound == Spec => []SinksSound
<1>1. ASSUME SinkInv PROVE SinksSound
  <2>0. sink \in SinkState /\ stored \in Seq(RecordNo) /\ Taken <= Len(SinkBursts) /\ Taken \in Int
    BY <1>1 DEF SinkInv, SinkType, SinkState, Taken
  <2>1. DOMAIN stored = 1..Len(stored) /\ \A i \in DOMAIN stored : stored[i] \in Kept
    BY <2>0, LenProperties DEF Kept, Range
  <2>2. \A b \in 1..Taken : b \in 1..Len(SinkBursts)
    BY <2>0, BurstFacts
  <2>3. ASSUME NEW r \in Kept PROVE BurstOf(r) \in 1..Taken /\ r \in Due(BurstOf(r))
    <3>5. PICK b \in 1..Taken : r \in Due(b)
      BY <1>1 DEF SinkInv, KeptInv
    <3>1. r \in Given(b)
      BY <3>5, DueFacts
    <3>2. b \in DOMAIN SinkBursts /\ b \in 1..Len(SinkBursts)
      BY <2>2, BurstFacts
    <3>3. BurstOf(r) \in DOMAIN SinkBursts /\ r \in Given(BurstOf(r))
      BY <3>1, <3>2 DEF BurstOf, Given
    <3>4. BurstOf(r) = b
      BY <3>1, <3>2, <3>3, BurstFacts
    <3> QED
      BY <3>4, <3>5
  <2>4. \A i \in DOMAIN stored : \A b \in 1..(BurstOf(stored[i]) - 1) : Due(b) \subseteq Kept
    <3> SUFFICES ASSUME NEW i \in DOMAIN stored, NEW b \in 1..(BurstOf(stored[i]) - 1)
                 PROVE  Due(b) \subseteq Kept
      OBVIOUS
    <3>1. BurstOf(stored[i]) \in 1..Taken
      BY <2>1, <2>3
    <3>2. b \in 1..Taken /\ b < Taken
      BY <2>0, <3>1
    <3> QED
      BY <1>1, <3>2 DEF SinkInv, KeptInv
  <2>5. sink.kind = "kdb" => \A i \in DOMAIN stored : Given(BurstOf(stored[i])) \subseteq Kept
    <3> SUFFICES ASSUME sink.kind = "kdb", NEW i \in DOMAIN stored
                 PROVE  Given(BurstOf(stored[i])) \subseteq Kept
      OBVIOUS
    <3>1. BurstOf(stored[i]) \in 1..Taken /\ stored[i] \in Due(BurstOf(stored[i])) /\ stored[i] \in Kept
      BY <2>1, <2>3
    <3>2. Due(BurstOf(stored[i])) = Given(BurstOf(stored[i]))
      BY <3>1, DueFacts
    <3> QED
      BY <1>1, <3>1, <3>2 DEF SinkInv, KeptInv
  <2>6. ASSUME SinkDone PROVE Kept = UNION {Due(b) : b \in DOMAIN SinkBursts}
    <3>1. Taken = Len(SinkBursts) /\ \A b \in 1..Taken : Due(b) \subseteq Kept
      BY <1>1, <2>6 DEF SinkInv, HandInv, SinkClosed
    <3>2. \A b \in DOMAIN SinkBursts : Due(b) \subseteq Kept
      BY <3>1, BurstFacts
    <3>3. \A r \in Kept : \E b \in DOMAIN SinkBursts : r \in Due(b)
      BY <1>1, <2>2, BurstFacts DEF SinkInv, KeptInv
    <3> QED
      BY <3>2, <3>3
  <2>7. (sink.pc = "ended" /\ ~ sink.err) => SinkDone
    BY <2>0 DEF SinkDone, SinkState
  <2>8. PublishedInOrder
    <3>1. sink.kind # "kafka" => \A i, j \in DOMAIN stored : i < j => stored[i] < stored[j]
      BY <1>1, <2>1 DEF SinkInv, KeptInv, Increasing
    <3> QED
      BY <2>4, <2>5, <2>6, <2>7, <3>1 DEF PublishedInOrder, Given, Kept
  <2>9. LeaseReleased
    <3>1. sink.ttl => sink.ttl = TRUE
      BY <2>0 DEF SinkState
    <3> QED
      BY <1>1, <2>7, <3>1 DEF SinkInv, LeaseInv, SinkClosed, LeaseReleased
  <2> QED
    BY <2>8, <2>9 DEF SinksSound
<1> QED
  BY <1>1, SinkInvariant, PTL

(* Neither a write without force nor the end of the lease takes a key from *)
(* another client: a leased key is one the task wrote and nobody else did. *)
THEOREM ForeignKeysAreKept == Spec => NoOverwrite
<1> DEFINE Leaves == \A k \in SinkKeys : (kv[k] = -1 /\ ~ sink.force) => kv'[k] = -1
<1>1. ASSUME SinkInv, SinkNext PROVE Leaves
  <2> SUFFICES ASSUME NEW k \in SinkKeys, kv[k] = -1, ~ sink.force PROVE kv'[k] = -1
    OBVIOUS
  <2>0. kv \in [SinkKeys -> Int]
    BY <1>1 DEF SinkInv, SinkType
  <2>1. k \notin leased
    BY <1>1 DEF SinkInv, LeaseInv
  <2>2. CASE kv' = kv
    BY <2>2
  <2>3. CASE kv' = WithoutLeased
    BY <2>1, <2>3 DEF WithoutLeased
  <2>4. CASE EtcdPut
    <3> DEFINE l == SinkKeyOf[Head(sink.burst)]
    <3>1. kv' = kv \/ (kv' = [kv EXCEPT ![l] = Head(sink.burst)] /\ kv[l] = 0)
      BY <2>4 DEF EtcdPut, MayWrite
    <3> HIDE DEF l
    <3> QED
      BY <2>0, <3>1
  <2>5. CASE ForeignWrite
    <3>1. PICK l \in Foreign : kv[l] = 0 /\ kv' = [kv EXCEPT ![l] = -1]
      BY <2>5 DEF ForeignWrite
    <3> QED
      BY <2>0, <3>1
  <2>6. EtcdPut \/ ForeignWrite \/ kv' = kv \/ kv' = WithoutLeased
    BY <1>1 DEF SinkNext, SinkTask, SinkFails, SinkConnect, EtcdGrant, SinkTake, RedisPublish, RedisXAdd,
       FluvioSend, SendOne, SinkSent, KafkaSendAll, PgInsertAll, StartAll, SinkLand, SinkLanded, KdbInsert,
       SinkFlush, SinkClose, SinkRefused, KeeperStops, LeaseExpires
  <2> QED
    BY <2>2, <2>3, <2>4, <2>5, <2>6
<1>2. SinkInv /\ [Next]_vars => [Leaves]_sinkVars
  BY <1>1, Turns
<1> QED
  BY <1>2, SinkInvariant, PTL DEF Spec, NoOverwrite
-----------------------------------------------------------------------------
(* The file cache *)

Paths == Keys \X {"cache", "tmp"}
AnswersTo(s) == Answers(running, Slices[s])
InHand == {"touch", "touching", "put", "writing", "scan", "evict", "rename"}

ReaderType(p) ==
  /\ DOMAIN reader[p] = {"pc", "slice", "got", "inode", "victims", "need", "out", "failed"}
  /\ reader[p].inode \in Inodes \cup {0}
  /\ reader[p].slice \in Nat \ {0}
  /\ reader[p].pc # "done" => reader[p].slice <= Len(Slices)
  /\ reader[p].pc \in {"touching", "writing"} => reader[p].inode # 0

CacheType ==
  /\ running \in CacheTeams
  /\ names \in [Paths -> Inodes \cup {0}]
  /\ DOMAIN data = Inodes
  /\ DOMAIN reader = CacheProcesses
  /\ \A p \in CacheProcesses : ReaderType(p)

(* An inode has one name, its rows are the answer to the query in the name *)
(* or torn, and a writer that holds it writes rows for that name, wherever *)
(* the name has moved meanwhile.                                           *)
FilesInv ==
  /\ \A m, n \in Paths : names[m] = names[n] /\ m # n => names[m] = 0
  /\ \A n \in Paths :
       names[n] # 0 => data[names[n]] = Torn \/ data[names[n]] \in Answers(running, n[1])
  /\ \A n \in Paths, p \in CacheProcesses :
       names[n] # 0 /\ names[n] = reader[p].inode => n[1] = MyKey(p)

(* What a process is about to emit, and what it has emitted. *)
RowsOf(p) ==
  /\ reader[p].pc \in InHand => reader[p].got \in AnswersTo(reader[p].slice)
  /\ reader[p].pc # "done" => Len(reader[p].out) = reader[p].slice - 1
  /\ (reader[p].pc = "done" /\ reader[p].failed # TRUE) => Len(reader[p].out) = Len(Slices)
  /\ reader[p].out \in Seq(UNION {AnswersTo(s) : s \in 1..Len(Slices)})
  /\ \A s \in 1..Len(reader[p].out) : reader[p].out[s] \in AnswersTo(s)

RowsInv == \A p \in running : RowsOf(p)

CacheInv == CacheType /\ FilesInv /\ RowsInv


LEMMA SliceFacts ==
  /\ Len(Slices) \in Nat /\ Len(Slices) >= 1 /\ DOMAIN Slices = 1..Len(Slices)
  /\ Inodes \subseteq Nat \ {0}
  /\ \A p \in CacheProcesses : \A s \in 1..Len(Slices) : Slices[s] \in Keys
<1>1. Len(Slices) \in Nat /\ Len(Slices) >= 1 /\ DOMAIN Slices = 1..Len(Slices)
  BY FileCacheAssumption, LenProperties, EmptySeq
<1>2. Inodes \subseteq Nat \ {0}
  BY DEF Inodes
<1>3. \A p \in CacheProcesses : \A s \in 1..Len(Slices) : Slices[s] \in Keys
  BY <1>1 DEF Keys, KeyOf, Range
<1> QED
  BY <1>1, <1>2, <1>3

LEMMA MyKeyIsKey ==
  ASSUME CacheInv, NEW p \in running
  PROVE  /\ p \in CacheProcesses /\ MyKey(p) = Slices[reader[p].slice]
         /\ reader[p].pc # "done" =>
              /\ reader[p].slice \in 1..Len(Slices)
              /\ MyKey(p) \in Keys
              /\ CachePath(MyKey(p)) \in Paths /\ TmpPath(MyKey(p)) \in Paths
<1>1. p \in CacheProcesses
  BY FileCacheAssumption DEF CacheInv, CacheType
<1>2. MyKey(p) = Slices[reader[p].slice]
  BY DEF MyKey, KeyOf, Query
<1>3. ASSUME reader[p].pc # "done" PROVE reader[p].slice \in 1..Len(Slices)
  BY <1>1, <1>3, SliceFacts DEF CacheInv, CacheType, ReaderType
<1>4. \A k \in Keys : CachePath(k) \in Paths /\ TmpPath(k) \in Paths
  BY DEF CachePath, TmpPath, Paths
<1> QED
  BY <1>1, <1>2, <1>3, <1>4, SliceFacts

(* There are more inodes than names and writers together. *)
LEMMA FreeInodeIsFree ==
  ASSUME CacheInv, NEW p \in CacheProcesses
  PROVE  /\ FreeInode \in Inodes
         /\ \A n \in Paths : names[n] # FreeInode
         /\ \A q \in CacheProcesses : reader[q].inode # FreeInode
<1> DEFINE L == Len(Slices)
           P == Cardinality(CacheProcesses)
           named == {names[n] : n \in Paths}
           held == {reader[q].inode : q \in CacheProcesses}
<1>1. IsFiniteSet(CacheProcesses) /\ P \in Nat /\ P >= 1
  BY FileCacheAssumption, FS_CardinalityType, FS_EmptySet
<1>2. IsFiniteSet(1..L) /\ Cardinality(1..L) = L /\ L \in Nat
  BY SliceFacts, FS_Interval
<1>3. IsFiniteSet(Keys) /\ Cardinality(Keys) \in Nat /\ Cardinality(Keys) <= L
  <2>1. Keys = {Slices[s] : s \in 1..L}
    BY SliceFacts DEF Keys, KeyOf, Range
  <2> DEFINE f == [s \in 1..L |-> Slices[s]]
             S == {Slices[s] : s \in 1..L}
  <2>2. f \in [1..L -> S] /\ \A y \in S : \E s \in 1..L : f[s] = y
    OBVIOUS
  <2>3. f \in Surjection(1..L, S)
    BY <2>2 DEF Surjection
  <2>4. IsFiniteSet(S) /\ Cardinality(S) <= Cardinality(1..L)
    BY <1>2, <2>3, FS_Surjection
  <2> QED
    BY <1>2, <2>1, <2>4, FS_CardinalityType
<1>4. IsFiniteSet({"cache", "tmp"}) /\ Cardinality({"cache", "tmp"}) = 2
  <2>1. IsFiniteSet({"cache"}) /\ Cardinality({"cache"}) = 1
    BY FS_Singleton
  <2>2. {"cache", "tmp"} = {"cache"} \cup {"tmp"} /\ "tmp" \notin {"cache"}
    OBVIOUS
  <2> QED
    BY <2>1, <2>2, FS_AddElement
<1>5. IsFiniteSet(Paths) /\ Cardinality(Paths) = Cardinality(Keys) * 2
  BY <1>3, <1>4, FS_Product DEF Paths
<1>6. IsFiniteSet(named) /\ Cardinality(named) <= Cardinality(Paths)
  <2> DEFINE f == [n \in Paths |-> names[n]]
  <2>1. f \in [Paths -> named] /\ \A y \in named : \E n \in Paths : f[n] = y
    OBVIOUS
  <2>2. f \in Surjection(Paths, named)
    BY <2>1 DEF Surjection
  <2> QED
    BY <1>5, <2>2, FS_Surjection
<1>7. IsFiniteSet(held) /\ Cardinality(held) <= P
  <2> DEFINE f == [q \in CacheProcesses |-> reader[q].inode]
  <2>1. f \in [CacheProcesses -> held] /\ \A y \in held : \E q \in CacheProcesses : f[q] = y
    OBVIOUS
  <2>2. f \in Surjection(CacheProcesses, held)
    BY <2>1 DEF Surjection
  <2> QED
    BY <1>1, <2>2, FS_Surjection
<1> HIDE DEF L, P, named, held
<1>8. /\ Cardinality(named) \in Nat /\ Cardinality(held) \in Nat
      /\ IsFiniteSet(named \cup held) /\ Cardinality(named \cup held) \in Nat
      /\ Cardinality(named \cup held) <= Cardinality(named) + Cardinality(held)
  <2>1. /\ Cardinality(named) \in Nat /\ Cardinality(held) \in Nat
        /\ IsFiniteSet(named \cap held) /\ IsFiniteSet(named \cup held)
    BY <1>6, <1>7, FS_CardinalityType, FS_Intersection, FS_Union
  <2>2. Cardinality(named \cap held) \in Nat /\ Cardinality(named \cup held) \in Nat
    BY <2>1, FS_CardinalityType
  <2>3. Cardinality(named \cup held) = Cardinality(named) + Cardinality(held) - Cardinality(named \cap held)
    BY <1>6, <1>7, FS_Union
  <2> QED
    BY <2>1, <2>2, <2>3
<1>9. Cardinality(named \cup held) <= 2 * L + P
  BY <1>1, <1>2, <1>3, <1>5, <1>6, <1>7, <1>8
<1>10. ~ (Inodes \subseteq named \cup held)
  <2>1. 2 * L + 2 * P \in Nat /\ Inodes = 1..(2 * L + 2 * P)
    BY <1>1, <1>2 DEF Inodes, L, P
  <2>2. IsFiniteSet(Inodes) /\ Cardinality(Inodes) = 2 * L + 2 * P
    <3> DEFINE m == 2 * L + 2 * P
    <3>1. m \in Nat /\ Inodes = 1..m
      BY <2>1
    <3> HIDE DEF m
    <3>2. IsFiniteSet(1..m) /\ Cardinality(1..m) = m
      BY <3>1, FS_Interval
    <3> QED
      BY <3>1, <3>2 DEF m
  <2>3. Inodes \subseteq named \cup held => Cardinality(Inodes) <= Cardinality(named \cup held)
    BY <1>8, FS_Subset
  <2> QED
    BY <1>1, <1>2, <1>8, <1>9, <2>2, <2>3
<1>11. PICK i \in Inodes : i \notin named /\ i \notin held
  BY <1>10
<1>12. DOMAIN names = Paths
  BY DEF CacheInv, CacheType
<1>13. /\ \A n \in DOMAIN names : names[n] # i
       /\ \A q \in CacheProcesses : reader[q].inode # i
  BY <1>11, <1>12 DEF named, held
<1>14. /\ FreeInode \in Inodes
       /\ \A n \in DOMAIN names : names[n] # FreeInode
       /\ \A q \in CacheProcesses : reader[q].inode # FreeInode
  BY <1>13 DEF FreeInode
<1> QED
  BY <1>12, <1>14


Others(p) == \A q \in CacheProcesses : q # p => reader'[q] = reader[q]

(* The files are as sound as before when names only disappear and a writer *)
(* that still holds an inode is still at the same slice.                   *)
LEMMA NamesGo ==
  ASSUME CacheInv, data' = data, running' = running,
         \A n \in Paths : names'[n] = names[n] \/ names'[n] = 0,
         \A q \in CacheProcesses : \/ reader'[q].inode = 0
                                   \/ /\ reader'[q].inode = reader[q].inode
                                      /\ reader'[q].slice = reader[q].slice
  PROVE  FilesInv'
<1>1. \A m, n \in Paths : names'[m] = names'[n] /\ m # n => names'[m] = 0
  BY DEF CacheInv, FilesInv
<1>2. \A n \in Paths :
        names'[n] # 0 => data[names'[n]] = Torn \/ data[names'[n]] \in Answers(running, n[1])
  BY DEF CacheInv, FilesInv
<1>3. ASSUME NEW n \in Paths, NEW p \in CacheProcesses, names'[n] # 0, names'[n] = reader'[p].inode
      PROVE  n[1] = Slices[reader'[p].slice]
  <2>1. names[n] # 0 /\ names[n] = reader[p].inode /\ reader'[p].slice = reader[p].slice
    BY <1>3
  <2>2. n[1] = Slices[reader[p].slice]
    BY <2>1 DEF CacheInv, FilesInv, MyKey, KeyOf, Query
  <2> QED
    BY <2>1, <2>2
<1> QED
  BY <1>1, <1>2, <1>3 DEF FilesInv, MyKey, KeyOf, Query

(* A step of one reader. *)
LEMMA OneReader ==
  ASSUME CacheInv, NEW p \in running, running' = running, Others(p), DOMAIN reader' = CacheProcesses,
         DOMAIN data' = Inodes, names' \in [Paths -> Inodes \cup {0}],
         ReaderType(p)', RowsOf(p)', FilesInv'
  PROVE  CacheInv'
<1>1. running \in CacheTeams /\ running \subseteq CacheProcesses
  BY FileCacheAssumption DEF CacheInv, CacheType
<1>2. \A q \in CacheProcesses : ReaderType(q)'
  <2> SUFFICES ASSUME NEW q \in CacheProcesses, q # p PROVE ReaderType(q)'
    OBVIOUS
  <2>1. reader'[q] = reader[q] /\ ReaderType(q)
    BY DEF Others, CacheInv, CacheType
  <2> QED
    BY <2>1 DEF ReaderType
<1>3. \A q \in running : RowsOf(q)'
  <2> SUFFICES ASSUME NEW q \in running, q # p PROVE RowsOf(q)'
    OBVIOUS
  <2>1. reader'[q] = reader[q] /\ RowsOf(q)
    BY <1>1 DEF Others, CacheInv, RowsInv
  <2> QED
    BY <2>1 DEF RowsOf, AnswersTo
<1>4. CacheType' /\ RowsInv'
  BY <1>1, <1>2, <1>3 DEF CacheType, RowsInv
<1> QED
  BY <1>4 DEF CacheInv

(* A step that touches no file: the reader moves from one point to another *)
(* of the same slice.                                                      *)
LEMMA ReaderMoves ==
  ASSUME CacheInv, NEW p \in running, running' = running, Others(p), DOMAIN reader' = CacheProcesses,
         data' = data, names' \in [Paths -> Inodes \cup {0}],
         \A n \in Paths : names'[n] = names[n] \/ names'[n] = 0,
         DOMAIN reader'[p] = DOMAIN reader[p], reader'[p].slice = reader[p].slice,
         reader'[p].inode = 0 \/ reader'[p].inode = reader[p].inode,
         reader'[p].out = reader[p].out, reader[p].pc # "done",
         reader'[p].pc \notin {"touching", "writing"},
         reader'[p].pc = "done" => reader'[p].failed = TRUE,
         reader'[p].pc \in InHand => reader'[p].got \in AnswersTo(reader[p].slice)
  PROVE  CacheInv'
<1>1. p \in CacheProcesses
  BY MyKeyIsKey
<1>2. FilesInv'
  <2>1. \A q \in CacheProcesses : \/ reader'[q].inode = 0
                                  \/ /\ reader'[q].inode = reader[q].inode
                                     /\ reader'[q].slice = reader[q].slice
    BY DEF Others
  <2> QED
    BY <2>1, NamesGo
<1>3. ReaderType(p)'
  BY <1>1 DEF CacheInv, CacheType, ReaderType
<1>4. RowsOf(p)'
  BY DEF CacheInv, RowsInv, RowsOf, AnswersTo
<1>5. DOMAIN data' = Inodes
  BY DEF CacheInv, CacheType
<1> QED
  BY <1>2, <1>3, <1>4, <1>5, OneReader

LEMMA CachePlainStep ==
  ASSUME CacheInv, NEW p \in CacheProcesses,
         CacheGet(p) \/ CacheQuery(p) \/ CacheQueryFails(p) \/ CacheScan(p) \/ CacheEvict(p) \/ CacheEvicted(p)
  PROVE  CacheInv'
<1>1. p \in running
  BY DEF CacheGet, CacheQuery, CacheQueryFails, CacheScan, CacheEvict, CacheEvicted, At
<1>2. /\ DOMAIN reader = CacheProcesses /\ names \in [Paths -> Inodes \cup {0}]
      /\ DOMAIN reader[p] = {"pc", "slice", "got", "inode", "victims", "need", "out", "failed"}
      /\ running \in CacheTeams
  BY DEF CacheInv, CacheType, ReaderType
<1>3. MyKey(p) = Slices[reader[p].slice] /\ (reader[p].pc # "done" => CachePath(MyKey(p)) \in Paths)
  BY <1>1, MyKeyIsKey
<1>4. RowsOf(p)
  BY <1>1 DEF CacheInv, RowsInv
<1>5. CASE CacheGet(p)
  <2> DEFINE i == names[CachePath(MyKey(p))]
  <2>1. /\ reader[p].pc = "get" /\ UNCHANGED <<names, data, running>>
        /\ \/ /\ i # 0 /\ data[i] # Torn
              /\ reader' = [reader EXCEPT ![p].pc = "touch", ![p].got = data[i]]
           \/ reader' = [reader EXCEPT ![p].pc = "query"]
    BY <1>5 DEF CacheGet, At, Parses
  <2>2. CASE i # 0 /\ data[i] # Torn /\ reader' = [reader EXCEPT ![p].pc = "touch", ![p].got = data[i]]
    <3>1. data[i] \in Answers(running, CachePath(MyKey(p))[1])
      BY <1>1, <1>3, <2>1, <2>2 DEF CacheInv, FilesInv
    <3>2. data[i] \in AnswersTo(reader[p].slice)
      BY <1>3, <3>1 DEF CachePath, AnswersTo
    <3> HIDE DEF i
    <3>3. /\ reader'[p].pc = "touch" /\ reader'[p].got = data[i] /\ reader'[p].slice = reader[p].slice
          /\ reader'[p].inode = reader[p].inode /\ reader'[p].out = reader[p].out
          /\ DOMAIN reader'[p] = DOMAIN reader[p] /\ DOMAIN reader' = CacheProcesses /\ Others(p)
      BY <1>2, <2>2 DEF Others
    <3> QED
      BY <1>1, <1>2, <2>1, <3>2, <3>3, ReaderMoves
  <2>3. CASE reader' = [reader EXCEPT ![p].pc = "query"]
    <3>1. /\ reader'[p].pc = "query" /\ reader'[p].slice = reader[p].slice
          /\ reader'[p].inode = reader[p].inode /\ reader'[p].out = reader[p].out
          /\ DOMAIN reader'[p] = DOMAIN reader[p] /\ DOMAIN reader' = CacheProcesses /\ Others(p)
      BY <1>2, <2>3 DEF Others
    <3> QED
      BY <1>1, <1>2, <2>1, <3>1, ReaderMoves DEF InHand
  <2> QED
    BY <2>1, <2>2, <2>3
<1>6. CASE CacheQuery(p)
  <2> DEFINE a == <<Connection[p], Query(p)>>
  <2>1. /\ reader[p].pc = "query" /\ UNCHANGED <<names, data, running>>
        /\ reader' = [reader EXCEPT ![p].pc = "put", ![p].got = a]
    BY <1>6 DEF CacheQuery, At
  <2>2. a \in AnswersTo(reader[p].slice)
    BY <1>1 DEF AnswersTo, Answers, Query
  <2> HIDE DEF a
  <2>3. /\ reader'[p].pc = "put" /\ reader'[p].got = a /\ reader'[p].slice = reader[p].slice
        /\ reader'[p].inode = reader[p].inode /\ reader'[p].out = reader[p].out
        /\ DOMAIN reader'[p] = DOMAIN reader[p] /\ DOMAIN reader' = CacheProcesses /\ Others(p)
    BY <1>2, <2>1 DEF Others
  <2> QED
    BY <1>1, <1>2, <2>1, <2>2, <2>3, ReaderMoves
<1>7. CASE CacheQueryFails(p)
  <2>1. /\ reader[p].pc = "query" /\ UNCHANGED <<names, data, running>>
        /\ reader' = [reader EXCEPT ![p].pc = "done", ![p].failed = TRUE]
    BY <1>7 DEF CacheQueryFails, At
  <2>2. /\ reader'[p].pc = "done" /\ reader'[p].failed = TRUE /\ reader'[p].slice = reader[p].slice
        /\ reader'[p].inode = reader[p].inode /\ reader'[p].out = reader[p].out
        /\ DOMAIN reader'[p] = DOMAIN reader[p] /\ DOMAIN reader' = CacheProcesses /\ Others(p)
    BY <1>2, <2>1 DEF Others
  <2> QED
    BY <1>1, <1>2, <2>1, <2>2, ReaderMoves DEF InHand
<1>8. CASE CacheScan(p)
  <2>1. PICK listed, need, pc :
          /\ reader[p].pc = "scan" /\ UNCHANGED <<names, data, running>> /\ pc \in {"rename", "evict"}
          /\ reader' = [reader EXCEPT ![p].victims = listed, ![p].need = need, ![p].pc = pc]
    BY <1>8 DEF CacheScan, At
  <2>2. /\ reader'[p].pc = pc /\ reader'[p].got = reader[p].got /\ reader'[p].slice = reader[p].slice
        /\ reader'[p].inode = reader[p].inode /\ reader'[p].out = reader[p].out
        /\ DOMAIN reader'[p] = DOMAIN reader[p] /\ DOMAIN reader' = CacheProcesses /\ Others(p)
    BY <1>2, <2>1 DEF Others
  <2>3. reader[p].got \in AnswersTo(reader[p].slice)
    BY <1>4, <2>1 DEF RowsOf, InHand
  <2> QED
    BY <1>1, <1>2, <2>1, <2>2, <2>3, ReaderMoves
<1>9. CASE CacheEvict(p)
  <2>1. PICK n, victims, need :
          /\ reader[p].pc = "evict" /\ UNCHANGED <<data, running>> /\ names' = [names EXCEPT ![n] = 0]
          /\ reader' = [reader EXCEPT ![p].victims = victims, ![p].need = need]
    BY <1>9 DEF CacheEvict, At, Unlink
  <2>2. /\ reader'[p].pc = "evict" /\ reader'[p].got = reader[p].got /\ reader'[p].slice = reader[p].slice
        /\ reader'[p].inode = reader[p].inode /\ reader'[p].out = reader[p].out
        /\ DOMAIN reader'[p] = DOMAIN reader[p] /\ DOMAIN reader' = CacheProcesses /\ Others(p)
    BY <1>2, <2>1 DEF Others
  <2>3. reader[p].got \in AnswersTo(reader[p].slice)
    BY <1>4, <2>1 DEF RowsOf, InHand
  <2>4. names' \in [Paths -> Inodes \cup {0}] /\ \A m \in Paths : names'[m] = names[m] \/ names'[m] = 0
    BY <1>2, <2>1
  <2> QED
    BY <1>1, <2>1, <2>2, <2>3, <2>4, ReaderMoves
<1>10. CASE CacheEvicted(p)
  <2> DEFINE none == <<>>
  <2>1. /\ reader[p].pc = "evict" /\ UNCHANGED <<names, data, running>>
        /\ reader' = [reader EXCEPT ![p].pc = "rename", ![p].victims = none, ![p].need = 0]
    BY <1>10 DEF CacheEvicted, At
  <2> HIDE DEF none
  <2>2. /\ reader'[p].pc = "rename" /\ reader'[p].got = reader[p].got /\ reader'[p].slice = reader[p].slice
        /\ reader'[p].inode = reader[p].inode /\ reader'[p].out = reader[p].out
        /\ DOMAIN reader'[p] = DOMAIN reader[p] /\ DOMAIN reader' = CacheProcesses /\ Others(p)
    BY <1>2, <2>1 DEF Others
  <2>3. reader[p].got \in AnswersTo(reader[p].slice)
    BY <1>4, <2>1 DEF RowsOf, InHand
  <2> QED
    BY <1>1, <1>2, <2>1, <2>2, <2>3, ReaderMoves
<1> QED
  BY <1>5, <1>6, <1>7, <1>8, <1>9, <1>10


(* Opening a file for writing: the inode is the name's own or nobody's, so *)
(* no other writer's rows can end up under this name.                      *)
LEMMA TruncateStep ==
  ASSUME CacheInv, NEW p \in running, NEW n \in Paths, NEW pc \in {"touching", "writing"},
         reader[p].pc \in InHand, n[1] = MyKey(p), Truncate(p, n, pc), running' = running
  PROVE  CacheInv'
<1>1. /\ p \in CacheProcesses /\ reader[p].pc # "done" /\ MyKey(p) = Slices[reader[p].slice]
  BY MyKeyIsKey DEF InHand
<1>2. /\ DOMAIN reader = CacheProcesses /\ names \in [Paths -> Inodes \cup {0}] /\ DOMAIN data = Inodes
      /\ DOMAIN reader[p] = {"pc", "slice", "got", "inode", "victims", "need", "out", "failed"}
      /\ reader[p].slice \in Nat \ {0} /\ reader[p].slice <= Len(Slices)
  BY <1>1 DEF CacheInv, CacheType, ReaderType
<1> DEFINE i == IF names[n] = 0 THEN FreeInode ELSE names[n]
<1>3. /\ names' = [names EXCEPT ![n] = i] /\ data' = [data EXCEPT ![i] = Torn]
      /\ reader' = [reader EXCEPT ![p].pc = pc, ![p].inode = i]
  BY DEF Truncate
<1>4. i \in Inodes /\ i # 0
  BY <1>1, <1>2, FreeInodeIsFree, SliceFacts
<1>5. \A m \in Paths : m # n => names[m] # i
  BY <1>1, <1>4, FreeInodeIsFree DEF CacheInv, FilesInv
<1>6. \A q \in CacheProcesses : reader[q].inode = i => names[n] = i
  BY <1>1, FreeInodeIsFree
<1> HIDE DEF i
<1>7. /\ reader'[p].pc = pc /\ reader'[p].inode = i /\ reader'[p].got = reader[p].got
      /\ reader'[p].slice = reader[p].slice /\ reader'[p].out = reader[p].out
      /\ DOMAIN reader'[p] = DOMAIN reader[p] /\ DOMAIN reader' = CacheProcesses /\ Others(p)
  BY <1>1, <1>2, <1>3 DEF Others
<1>8. /\ names' \in [Paths -> Inodes \cup {0}] /\ names'[n] = i
      /\ \A m \in Paths : m # n => names'[m] = names[m]
      /\ DOMAIN data' = Inodes /\ data'[i] = Torn /\ \A j \in Inodes : j # i => data'[j] = data[j]
  BY <1>2, <1>3, <1>4
<1>9. ReaderType(p)'
  BY <1>2, <1>4, <1>7 DEF ReaderType
<1>10. RowsOf(p)'
  BY <1>1, <1>7 DEF CacheInv, RowsInv, RowsOf, InHand, AnswersTo
<1>11. \A m, l \in Paths : names'[m] = names'[l] /\ m # l => names'[m] = 0
  BY <1>5, <1>8 DEF CacheInv, FilesInv
<1>12. \A m \in Paths :
         names'[m] # 0 => data'[names'[m]] = Torn \/ data'[names'[m]] \in Answers(running, m[1])
  <2> SUFFICES ASSUME NEW m \in Paths, m # n, names[m] # 0
               PROVE  data'[names[m]] = Torn \/ data'[names[m]] \in Answers(running, m[1])
    BY <1>8
  <2>1. names[m] \in Inodes /\ names[m] # i
    BY <1>2, <1>5
  <2> QED
    BY <1>8, <2>1 DEF CacheInv, FilesInv
<1>13. ASSUME NEW m \in Paths, NEW q \in CacheProcesses, names'[m] # 0, names'[m] = reader'[q].inode
       PROVE  m[1] = Slices[reader'[q].slice]
  <2>1. CASE q = p
    <3>1. m = n
      BY <1>5, <1>7, <1>8, <1>13, <2>1
    <3> QED
      BY <1>1, <1>7, <2>1, <3>1
  <2>2. CASE q # p
    <3>1. reader'[q] = reader[q]
      BY <1>7, <2>2 DEF Others
    <3>2. names[m] = names'[m]
      BY <1>6, <1>8, <1>13, <3>1
    <3> QED
      BY <1>13, <3>1, <3>2 DEF CacheInv, FilesInv, MyKey, KeyOf, Query
  <2> QED
    BY <2>1, <2>2
<1>14. FilesInv'
  BY <1>11, <1>12, <1>13 DEF FilesInv, MyKey, KeyOf, Query
<1> QED
  BY <1>7, <1>8, <1>9, <1>10, <1>14, OneReader

(* The rows of a slice are emitted. *)
LEMMA EmitsRows ==
  ASSUME CacheInv, NEW p \in running, reader[p].pc \in InHand, running' = running,
         reader' = [reader EXCEPT ![p] = EmitRows(p, reader[p].got)]
  PROVE  /\ ReaderType(p)' /\ RowsOf(p)' /\ Others(p) /\ DOMAIN reader' = CacheProcesses
         /\ reader'[p].inode = 0
<1>1. p \in CacheProcesses /\ reader[p].slice \in 1..Len(Slices)
  BY MyKeyIsKey DEF InHand
<1>2. /\ DOMAIN reader = CacheProcesses
      /\ DOMAIN reader[p] = {"pc", "slice", "got", "inode", "victims", "need", "out", "failed"}
      /\ reader[p].got \in AnswersTo(reader[p].slice)
      /\ reader[p].pc # "done" /\ Len(reader[p].out) = reader[p].slice - 1
      /\ reader[p].out \in Seq(UNION {AnswersTo(s) : s \in 1..Len(Slices)})
      /\ \A s \in 1..Len(reader[p].out) : reader[p].out[s] \in AnswersTo(s)
  BY <1>1 DEF CacheInv, CacheType, ReaderType, RowsInv, RowsOf, InHand
<1> DEFINE A == UNION {AnswersTo(s) : s \in 1..Len(Slices)}
           a == reader[p].got
           out == Append(reader[p].out, a)
           none == <<>>
           next == IF reader[p].slice < Len(Slices) THEN "get" ELSE "done"
<1>3. reader'[p] = [reader[p] EXCEPT !.out = out, !.slice = @ + 1, !.inode = 0, !.got = Torn,
                                     !.victims = none, !.need = 0, !.pc = next]
  BY <1>1, <1>2 DEF EmitRows
<1>4. Others(p) /\ DOMAIN reader' = CacheProcesses
  BY <1>1, <1>2 DEF Others
<1>5. a \in A /\ a \in AnswersTo(reader[p].slice)
  BY <1>1, <1>2
<1>6. Len(Slices) \in Nat /\ (next = "get" => reader[p].slice < Len(Slices))
      /\ (next # "get" => next = "done" /\ reader[p].slice = Len(Slices))
  BY <1>1, SliceFacts
<1> HIDE DEF A, a, none, next
<1>7. /\ out \in Seq(A) /\ Len(out) = Len(reader[p].out) + 1
      /\ \A s \in 1..Len(reader[p].out) : out[s] = reader[p].out[s]
      /\ out[Len(reader[p].out) + 1] = a
  BY <1>2, <1>5, AppendProperties DEF A
<1> HIDE DEF out
<1>8. /\ reader'[p].pc = next /\ reader'[p].slice = reader[p].slice + 1 /\ reader'[p].inode = 0
      /\ reader'[p].out = out /\ DOMAIN reader'[p] = DOMAIN reader[p]
  <2> DEFINE r == reader[p]
             x == r.slice + 1
             v == Torn
  <2>1. reader'[p] = [r EXCEPT !.out = out, !.slice = x, !.inode = 0, !.got = v,
                               !.victims = none, !.need = 0, !.pc = next]
    BY <1>3
  <2>2. DOMAIN r = {"pc", "slice", "got", "inode", "victims", "need", "out", "failed"}
    BY <1>2
  <2> HIDE DEF r, x, v
  <2>3. /\ reader'[p].pc = next /\ reader'[p].slice = x /\ reader'[p].inode = 0
        /\ reader'[p].out = out /\ DOMAIN reader'[p] = DOMAIN r
    BY <2>1, <2>2
  <2> QED
    BY <2>3 DEF r, x
<1>9. ReaderType(p)'
  BY <1>1, <1>2, <1>6, <1>8 DEF ReaderType
<1>10. \A s \in 1..Len(out) : out[s] \in AnswersTo(s)
  <2> SUFFICES ASSUME NEW s \in 1..Len(out) PROVE out[s] \in AnswersTo(s)
    OBVIOUS
  <2>1. CASE s = reader[p].slice
    BY <1>1, <1>2, <1>5, <1>7, <2>1
  <2>2. CASE s # reader[p].slice
    <3>1. s \in 1..Len(reader[p].out)
      BY <1>1, <1>2, <1>7, <2>2
    <3> QED
      BY <1>2, <1>7, <3>1
  <2> QED
    BY <2>1, <2>2
<1>11. next \notin InHand
  BY <1>6 DEF InHand
<1>12. Len(out) = (reader[p].slice + 1) - 1 /\ (next = "done" => Len(out) = Len(Slices))
  BY <1>1, <1>2, <1>6, <1>7
<1>13. out \in Seq(UNION {AnswersTo(s) : s \in 1..Len(Slices)})
  BY <1>7 DEF A
<1>14. RowsOf(p)'
  BY <1>8, <1>10, <1>11, <1>12, <1>13 DEF RowsOf, AnswersTo
<1> QED
  BY <1>4, <1>8, <1>9, <1>14

(* The second half of a write: the rows go to the inode that was opened,   *)
(* which has this slice's key or no name any more.                         *)
LEMMA WritesRows ==
  ASSUME CacheInv, NEW p \in running, reader[p].pc \in {"touching", "writing"},
         data' = [data EXCEPT ![reader[p].inode] = reader[p].got],
         names' = names, running' = running,
         \A q \in CacheProcesses : \/ reader'[q].inode = 0
                                   \/ /\ reader'[q].inode = reader[q].inode
                                      /\ reader'[q].slice = reader[q].slice
  PROVE  FilesInv' /\ DOMAIN data' = Inodes
<1> DEFINE i == reader[p].inode
           rows == reader[p].got
<1>1. p \in CacheProcesses /\ MyKey(p) = Slices[reader[p].slice] /\ running \in CacheTeams
  BY MyKeyIsKey DEF CacheInv, CacheType
<1>2. i \in Inodes /\ i # 0 /\ DOMAIN data = Inodes
  BY <1>1 DEF CacheInv, CacheType, ReaderType
<1>3. rows \in Answers(running, MyKey(p))
  BY <1>1 DEF CacheInv, RowsInv, RowsOf, InHand, AnswersTo
<1>4. data' = [data EXCEPT ![i] = rows]
  OBVIOUS
<1>6. \A n \in Paths : names[n] = i => n[1] = MyKey(p)
  BY <1>1, <1>2 DEF CacheInv, FilesInv
<1> HIDE DEF i, rows
<1>7. DOMAIN data' = Inodes /\ data'[i] = rows /\ \A j \in Inodes : j # i => data'[j] = data[j]
  BY <1>2, <1>4
<1>8. \A m \in Paths : names[m] # 0 => names[m] \in Inodes
  BY DEF CacheInv, CacheType
<1>9. \A m \in Paths :
        names[m] # 0 => data'[names[m]] = Torn \/ data'[names[m]] \in Answers(running, m[1])
  <2> SUFFICES ASSUME NEW m \in Paths, names[m] # 0
               PROVE  data'[names[m]] = Torn \/ data'[names[m]] \in Answers(running, m[1])
    OBVIOUS
  <2>1. CASE names[m] = i
    BY <1>3, <1>6, <1>7, <2>1
  <2>2. CASE names[m] # i
    BY <1>7, <1>8, <2>2 DEF CacheInv, FilesInv
  <2> QED
    BY <2>1, <2>2
<1>10. ASSUME NEW n \in Paths, NEW q \in CacheProcesses, names[n] # 0, names[n] = reader'[q].inode
       PROVE  n[1] = Slices[reader'[q].slice]
  <2>1. names[n] = reader[q].inode /\ reader'[q].slice = reader[q].slice
    BY <1>10
  <2> QED
    BY <1>10, <2>1 DEF CacheInv, FilesInv, MyKey, KeyOf, Query
<1>11. \A m, n \in Paths : names[m] = names[n] /\ m # n => names[m] = 0
  BY DEF CacheInv, FilesInv
<1> QED
  BY <1>7, <1>9, <1>10, <1>11 DEF FilesInv, MyKey, KeyOf, Query

LEMMA CacheWriteStep ==
  ASSUME CacheInv, NEW p \in CacheProcesses,
         CacheTouchOpen(p) \/ CacheTouchWrite(p) \/ CachePutOpen(p) \/ CachePutWrite(p) \/ CacheRename(p)
  PROVE  CacheInv'
<1>1. p \in running
  BY DEF CacheTouchOpen, CacheTouchWrite, CachePutOpen, CachePutWrite, CacheRename, At
<1>2. /\ DOMAIN reader = CacheProcesses /\ names \in [Paths -> Inodes \cup {0}]
      /\ DOMAIN reader[p] = {"pc", "slice", "got", "inode", "victims", "need", "out", "failed"}
      /\ ReaderType(p) /\ RowsOf(p)
  BY <1>1 DEF CacheInv, CacheType, ReaderType, RowsInv
<1>3. /\ MyKey(p) = Slices[reader[p].slice]
      /\ reader[p].pc # "done" => CachePath(MyKey(p)) \in Paths /\ TmpPath(MyKey(p)) \in Paths
      /\ CachePath(MyKey(p))[1] = MyKey(p) /\ TmpPath(MyKey(p))[1] = MyKey(p)
      /\ CachePath(MyKey(p)) # TmpPath(MyKey(p))
  BY <1>1, MyKeyIsKey DEF CachePath, TmpPath
<1>4. CASE CacheTouchOpen(p)
  BY <1>1, <1>3, <1>4, TruncateStep DEF CacheTouchOpen, At, InHand
<1>5. CASE CachePutOpen(p)
  BY <1>1, <1>3, <1>5, TruncateStep DEF CachePutOpen, At, InHand
<1>6. CASE CacheTouchWrite(p)
  <2>1. /\ reader[p].pc = "touching" /\ data' = [data EXCEPT ![reader[p].inode] = reader[p].got]
        /\ reader' = [reader EXCEPT ![p] = EmitRows(p, reader[p].got)]
        /\ UNCHANGED <<names, running>>
    BY <1>6 DEF CacheTouchWrite, At
  <2>2. /\ ReaderType(p)' /\ RowsOf(p)' /\ Others(p) /\ DOMAIN reader' = CacheProcesses
        /\ reader'[p].inode = 0
    BY <1>1, <2>1, EmitsRows DEF InHand
  <2>3. \A q \in CacheProcesses : \/ reader'[q].inode = 0
                                  \/ /\ reader'[q].inode = reader[q].inode
                                     /\ reader'[q].slice = reader[q].slice
    BY <2>2 DEF Others
  <2>4. FilesInv' /\ DOMAIN data' = Inodes
    BY <1>1, <2>1, <2>3, WritesRows
  <2> QED
    BY <1>1, <1>2, <2>1, <2>2, <2>4, OneReader
<1>7. CASE CachePutWrite(p)
  <2> DEFINE pc == IF CacheLimit < U64Max THEN "scan" ELSE "rename"
  <2>1. /\ reader[p].pc = "writing" /\ data' = [data EXCEPT ![reader[p].inode] = reader[p].got]
        /\ reader' = [reader EXCEPT ![p].inode = 0, ![p].pc = pc]
        /\ UNCHANGED <<names, running>>
    BY <1>7 DEF CachePutWrite, At
  <2>2. pc \in {"scan", "rename"}
    OBVIOUS
  <2> HIDE DEF pc
  <2>3. /\ reader'[p].pc = pc /\ reader'[p].inode = 0 /\ reader'[p].got = reader[p].got
        /\ reader'[p].slice = reader[p].slice /\ reader'[p].out = reader[p].out
        /\ DOMAIN reader'[p] = DOMAIN reader[p] /\ DOMAIN reader' = CacheProcesses /\ Others(p)
    BY <1>2, <2>1 DEF Others
  <2>4. \A q \in CacheProcesses : \/ reader'[q].inode = 0
                                  \/ /\ reader'[q].inode = reader[q].inode
                                     /\ reader'[q].slice = reader[q].slice
    BY <2>3 DEF Others
  <2>5. FilesInv' /\ DOMAIN data' = Inodes
    BY <1>1, <2>1, <2>4, WritesRows
  <2>6. ReaderType(p)'
    BY <1>2, <2>1, <2>2, <2>3 DEF ReaderType
  <2>7. RowsOf(p)'
    BY <1>2, <2>1, <2>2, <2>3 DEF RowsOf, InHand, AnswersTo
  <2> QED
    BY <1>1, <1>2, <2>1, <2>3, <2>5, <2>6, <2>7, OneReader
<1>8. CASE CacheRename(p)
  <2> DEFINE t == TmpPath(MyKey(p))
             c == CachePath(MyKey(p))
             i == names[t]
  <2>1. /\ reader[p].pc = "rename" /\ UNCHANGED <<data, running>>
        /\ reader' = [reader EXCEPT ![p] = EmitRows(p, reader[p].got)]
        /\ names' = IF i = 0 THEN names ELSE [names EXCEPT ![t] = 0, ![c] = i]
    BY <1>8 DEF CacheRename, At
  <2>2. /\ ReaderType(p)' /\ RowsOf(p)' /\ Others(p) /\ DOMAIN reader' = CacheProcesses
        /\ reader'[p].inode = 0
    BY <1>1, <2>1, EmitsRows DEF InHand
  <2>3. \A q \in CacheProcesses : \/ reader'[q].inode = 0
                                  \/ /\ reader'[q].inode = reader[q].inode
                                     /\ reader'[q].slice = reader[q].slice
    BY <2>2 DEF Others
  <2>4. DOMAIN data' = Inodes
    BY <2>1 DEF CacheInv, CacheType
  <2>5. CASE i = 0
    <3>1. names' = names
      BY <2>1, <2>5
    <3>2. FilesInv'
      BY <2>1, <2>3, <3>1, NamesGo
    <3> QED
      BY <1>1, <1>2, <2>1, <2>2, <2>4, <3>1, <3>2, OneReader
  <2>6. CASE i # 0
    <3>1. t \in Paths /\ c \in Paths /\ t # c /\ t[1] = c[1] /\ i \in Inodes
      BY <1>2, <1>3, <2>1, <2>6
    <3>2. \A m \in Paths : m # t => names[m] # i
      BY <2>6, <3>1 DEF CacheInv, FilesInv
    <3>3. names' = [names EXCEPT ![t] = 0, ![c] = i]
      BY <2>1, <2>6
    <3>4. names[t] = i
      OBVIOUS
    <3> HIDE DEF i, t, c
    <3>5. /\ names' \in [Paths -> Inodes \cup {0}] /\ names'[t] = 0 /\ names'[c] = i
          /\ \A m \in Paths : m # t /\ m # c => names'[m] = names[m]
      BY <1>2, <3>1, <3>3
    <3>6. \A m, l \in Paths : names'[m] = names'[l] /\ m # l => names'[m] = 0
      BY <3>2, <3>5 DEF CacheInv, FilesInv
    <3>7. \A m \in Paths : names'[m] # 0 => \E l \in Paths : l[1] = m[1] /\ names[l] = names'[m]
      BY <3>1, <3>4, <3>5
    <3>8. \A m \in Paths :
            names'[m] # 0 => data'[names'[m]] = Torn \/ data'[names'[m]] \in Answers(running, m[1])
      <4> SUFFICES ASSUME NEW m \in Paths, names'[m] # 0
                   PROVE  data'[names'[m]] = Torn \/ data'[names'[m]] \in Answers(running, m[1])
        OBVIOUS
      <4>1. PICK l \in Paths : l[1] = m[1] /\ names[l] = names'[m]
        BY <3>7
      <4> QED
        BY <2>1, <4>1 DEF CacheInv, FilesInv
    <3>9. ASSUME NEW m \in Paths, NEW q \in CacheProcesses, names'[m] # 0, names'[m] = reader'[q].inode
          PROVE  m[1] = Slices[reader'[q].slice]
      <4>1. PICK l \in Paths : l[1] = m[1] /\ names[l] = names'[m]
        BY <3>7, <3>9
      <4>2. names[l] = reader[q].inode /\ reader'[q].slice = reader[q].slice
        BY <2>3, <3>9, <4>1
      <4> QED
        BY <3>9, <4>1, <4>2 DEF CacheInv, FilesInv, MyKey, KeyOf, Query
    <3>10. FilesInv'
      BY <2>1, <3>6, <3>8, <3>9 DEF FilesInv, MyKey, KeyOf, Query
    <3> QED
      BY <1>1, <2>1, <2>2, <2>4, <3>5, <3>10, OneReader
  <2> QED
    BY <2>5, <2>6
<1> QED
  BY <1>4, <1>5, <1>6, <1>7, <1>8


LEMMA CacheStart ==
  ASSUME CacheInit
  PROVE  CacheInv
<1> DEFINE none == <<>>
<1>1. /\ names = [n \in Paths |-> 0] /\ data = [i \in Inodes |-> Torn]
      /\ reader = [p \in CacheProcesses |-> FreshReader] /\ running \in CacheTeams
  BY DEF CacheInit, Paths
<1>2. running \subseteq CacheProcesses
  BY <1>1, FileCacheAssumption
<1>3. /\ FreshReader.pc = "get" /\ FreshReader.slice = 1 /\ FreshReader.inode = 0
      /\ FreshReader.out = none
      /\ DOMAIN FreshReader = {"pc", "slice", "got", "inode", "victims", "need", "out", "failed"}
  BY DEF FreshReader
<1>4. Len(none) = 0 /\ \A S : none \in Seq(S)
  OBVIOUS
<1> HIDE DEF none
<1>5. \A p \in CacheProcesses : reader[p] = FreshReader
  BY <1>1
<1>6. \A p \in CacheProcesses : ReaderType(p)
  BY <1>3, <1>5, SliceFacts DEF ReaderType
<1>7. \A p \in running : RowsOf(p)
  <2> SUFFICES ASSUME NEW p \in running PROVE RowsOf(p)
    OBVIOUS
  <2>1. reader[p] = FreshReader
    BY <1>2, <1>5
  <2>2. none \in Seq(UNION {AnswersTo(s) : s \in 1..Len(Slices)})
    BY <1>4
  <2>3. reader[p].pc = "get" /\ reader[p].out = none /\ reader[p].slice = 1
    BY <1>3, <2>1
  <2>4. reader[p].pc \notin InHand /\ reader[p].pc # "done"
    BY <2>3 DEF InHand
  <2>5. \A s \in 1..Len(reader[p].out) : reader[p].out[s] \in AnswersTo(s)
    BY <1>4, <2>3
  <2> QED
    BY <1>4, <2>2, <2>3, <2>4, <2>5 DEF RowsOf
<1>8. CacheType
  BY <1>1, <1>6 DEF CacheType
<1>9. FilesInv
  BY <1>1 DEF FilesInv
<1> QED
  BY <1>7, <1>8, <1>9 DEF CacheInv, RowsInv

LEMMA CacheFaultStep ==
  ASSUME CacheInv, (\E p \in CacheProcesses : CacheCrash(p)) \/ CacheClear \/ CacheClearRemove
  PROVE  CacheInv'
<1>0. /\ DOMAIN reader = CacheProcesses /\ names \in [Paths -> Inodes \cup {0}] /\ DOMAIN data = Inodes
      /\ running \subseteq CacheProcesses
  BY FileCacheAssumption DEF CacheInv, CacheType
<1>1. ASSUME NEW p \in CacheProcesses, CacheCrash(p) PROVE CacheInv'
  <2> DEFINE none == <<>>
  <2>1. /\ p \in running /\ reader' = [reader EXCEPT ![p] = FreshReader]
        /\ UNCHANGED <<names, data, running>>
    BY <1>1 DEF CacheCrash
  <2>2. reader'[p] = FreshReader /\ DOMAIN reader' = CacheProcesses /\ Others(p)
    BY <1>0, <2>1 DEF Others
  <2>3. /\ FreshReader.pc = "get" /\ FreshReader.slice = 1 /\ FreshReader.inode = 0
        /\ FreshReader.out = none
        /\ DOMAIN FreshReader = {"pc", "slice", "got", "inode", "victims", "need", "out", "failed"}
    BY DEF FreshReader
  <2>4. Len(none) = 0 /\ \A S : none \in Seq(S)
    OBVIOUS
  <2> HIDE DEF none
  <2>5. ReaderType(p)'
    BY <2>2, <2>3, SliceFacts DEF ReaderType
  <2>6. RowsOf(p)'
    BY <2>2, <2>3, <2>4 DEF RowsOf, InHand
  <2>7. \A q \in CacheProcesses : \/ reader'[q].inode = 0
                                  \/ /\ reader'[q].inode = reader[q].inode
                                     /\ reader'[q].slice = reader[q].slice
    BY <2>2, <2>3 DEF Others
  <2>8. FilesInv'
    BY <2>1, <2>7, NamesGo
  <2> QED
    BY <1>0, <2>1, <2>2, <2>5, <2>6, <2>8, OneReader
<1>2. ASSUME reader' = reader, data' = data, running' = running, names' \in [Paths -> Inodes \cup {0}],
             \A n \in Paths : names'[n] = names[n] \/ names'[n] = 0
      PROVE  CacheInv'
  <2>1. FilesInv'
    BY <1>2, NamesGo
  <2>2. CacheType' /\ RowsInv'
    BY <1>2 DEF CacheInv, CacheType, ReaderType, RowsInv, RowsOf, AnswersTo
  <2> QED
    BY <2>1, <2>2 DEF CacheInv
<1>3. CASE CacheClear
  BY <1>0, <1>2, <1>3 DEF CacheClear
<1>4. CASE CacheClearRemove
  <2>1. PICK n : names' = [names EXCEPT ![n] = 0] /\ reader' = reader /\ data' = data /\ running' = running
    BY <1>4 DEF CacheClearRemove, Unlink
  <2>2. names' \in [Paths -> Inodes \cup {0}] /\ \A m \in Paths : names'[m] = names[m] \/ names'[m] = 0
    BY <1>0, <2>1
  <2> QED
    BY <1>2, <2>1, <2>2
<1> QED
  BY <1>1, <1>3, <1>4

(* Whatever the processes that share a folder, the databases they are      *)
(* connected to, their crashes between the two halves of a write,          *)
(* evictions and clear() leave on disk: no process emits torn rows or      *)
(* another slice's rows, none is left out, and the rows are an answer of   *)
(* a database which some process of the folder reads.                      *)
THEOREM CacheStaysTransparent == Spec => []CacheTransparent
<1>1. Init => CacheInv
  BY CacheStart DEF Init
<1>2. ASSUME CacheInv, CacheNext PROVE CacheInv'
  BY <1>2, CachePlainStep, CacheWriteStep, CacheFaultStep DEF CacheNext, CacheStep
<1>3. ASSUME CacheInv, UNCHANGED cacheVars PROVE CacheInv'
  <2>1. names' = names /\ data' = data /\ reader' = reader /\ running' = running
    BY <1>3 DEF cacheVars
  <2>2. CacheType'
    BY <1>3, <2>1 DEF CacheInv, CacheType, ReaderType
  <2>3. FilesInv'
    BY <1>3, <2>1, NamesGo
  <2>4. RowsInv'
    BY <1>3, <2>1 DEF CacheInv, RowsInv, RowsOf, AnswersTo
  <2> QED
    BY <2>2, <2>3, <2>4 DEF CacheInv
<1>4. CacheInv /\ [Next]_vars => CacheInv'
  BY <1>2, <1>3, Turns
<1>5. ASSUME CacheInv PROVE CacheTransparent
  <2> SUFFICES ASSUME NEW p \in running
               PROVE  /\ \A s \in DOMAIN reader[p].out : reader[p].out[s] \in Answers(running, Slices[s])
                      /\ (reader[p].pc = "done" /\ ~ reader[p].failed) => Len(reader[p].out) = Len(Slices)
    BY DEF CacheTransparent
  <2>1. RowsOf(p)
    BY <1>5 DEF CacheInv, RowsInv
  <2>2. DOMAIN reader[p].out = 1..Len(reader[p].out)
    BY <2>1, LenProperties DEF RowsOf
  <2>3. (~ reader[p].failed) => reader[p].failed # TRUE
    OBVIOUS
  <2> QED
    BY <2>1, <2>2, <2>3 DEF RowsOf, AnswersTo
<1> QED
  BY <1>1, <1>4, <1>5, PTL DEF Spec
-----------------------------------------------------------------------------
(* The ZeroMQ publisher *)

Publisher ==
  [pc : {"start", "register", "running", "revoke", "end", "endLogged", "stopped", "stoppedLogged", "failed"},
   realtime : BOOLEAN, named : BOOLEAN, cycles : Nat, connected : BOOLEAN, acceptedAt : Int,
   buffer : Seq(Nat), bufferStart : Int, due : Nat]
Subscriber == [at : Int, subscribed : BOOLEAN, event : BOOLEAN, got : Seq(Nat)]
Registration == [key : BOOLEAN, expires : Nat, thread : {"none", "alive", "ended"}, shutdown : BOOLEAN]

PublisherType == zmq \in Publisher /\ peer \in Subscriber /\ registry \in Registration /\ zmqClock \in Nat

(* The node sees an accept after it happened, so once it takes the         *)
(* subscription to have arrived, it has.                                   *)
AcceptInv ==
  /\ peer.at = None => peer.subscribed = FALSE /\ peer.event = FALSE
  /\ peer.at # None => 0 <= peer.at /\ peer.at <= zmqClock
  /\ peer.at # None /\ peer.subscribed = FALSE => zmqClock < peer.at + Propagation
  /\ zmq.acceptedAt # None =>
       peer.at # None /\ peer.event = FALSE /\ peer.at <= zmq.acceptedAt /\ zmq.acceptedAt <= zmqClock
  /\ zmq.acceptedAt = None <=> zmq.due = 0
  /\ zmq.connected = TRUE => zmq.acceptedAt # None /\ peer.subscribed = TRUE /\ Len(zmq.buffer) = 0
  /\ zmq.pc \in {"start", "register"} => zmq.cycles = 0 /\ Len(zmq.buffer) = 0 /\ zmq.acceptedAt = None

StoppedStream ==
  /\ zmq.connected = FALSE => Len(peer.got) = 0 \/ (Len(peer.got) = 1 /\ peer.got[1] = 0)
  /\ zmq.connected = FALSE /\ zmq.due # 0 => Len(zmq.buffer) = zmq.cycles - zmq.due + 1
  /\ zmq.connected = TRUE =>
       /\ Len(peer.got) = (zmq.cycles - zmq.due + 1) + 1 /\ peer.got[Len(peer.got)] = 0
       /\ zmq.cycles - zmq.due + 1 \in Nat
       /\ \A x \in 1..(zmq.cycles - zmq.due + 1) : peer.got[x] = zmq.due + x - 1

(* What is kept back are the last messages; once an accept has been seen,  *)
(* what was given out and what is kept back start at the same message.     *)
StreamInv ==
  /\ Len(zmq.buffer) <= zmq.cycles
  /\ \A x \in 1..Len(zmq.buffer) : zmq.buffer[x] = zmq.cycles - Len(zmq.buffer) + x
  /\ ~ PublisherStopped =>
       /\ zmq.connected = FALSE => Len(peer.got) = 0
       /\ zmq.due # 0 =>
            /\ Len(peer.got) + Len(zmq.buffer) = zmq.cycles - zmq.due + 1
            /\ \A x \in 1..Len(peer.got) : peer.got[x] = zmq.due + x - 1
  /\ PublisherStopped => StoppedStream

(* The name and its thread end before the node does. *)
NameInv ==
  /\ zmq.pc \in {"start", "register"} \/ (zmq.pc = "running" /\ zmq.named = FALSE) =>
       registry.key = FALSE /\ registry.thread = "none"
  /\ zmq.pc \in {"end", "endLogged", "stopped", "stoppedLogged"} => registry.thread # "alive"
  /\ zmq.pc \in {"end", "stopped"} => registry.key = FALSE

PublisherInv == PublisherType /\ AcceptInv /\ StreamInv /\ NameInv


LEMMA PublisherEnvStep ==
  ASSUME PublisherInv, ZmqTick \/ Accepted \/ FilterArrives
  PROVE  PublisherInv'
<1>0. /\ zmq \in Publisher /\ peer \in Subscriber /\ registry \in Registration /\ zmqClock \in Nat
      /\ Propagation \in Nat \ {0}
  BY ZmqAssumption DEF PublisherInv, PublisherType
<1>1. CASE ZmqTick
  <2>1. /\ zmq' = zmq /\ peer' = peer /\ registry' = registry /\ zmqClock' = zmqClock + 1
        /\ peer.at # None /\ ~ peer.subscribed => zmqClock + 1 < peer.at + Propagation
    BY <1>1 DEF ZmqTick
  <2>2. PublisherType'
    BY <1>0, <2>1 DEF PublisherType
  <2>3. peer.subscribed = FALSE => ~ peer.subscribed
    OBVIOUS
  <2>4. AcceptInv'
    BY <1>0, <2>1, <2>3 DEF PublisherInv, AcceptInv, Subscriber, Publisher
  <2>5. StreamInv' /\ NameInv'
    BY <2>1 DEF PublisherInv, StreamInv, StoppedStream, PublisherStopped, NameInv
  <2> QED
    BY <2>2, <2>4, <2>5 DEF PublisherInv
<1>2. CASE Accepted
  <2>1. /\ zmq' = zmq /\ registry' = registry /\ zmqClock' = zmqClock /\ peer.at = None
        /\ peer' = [peer EXCEPT !.at = zmqClock, !.event = TRUE]
    BY <1>2 DEF Accepted
  <2>2. zmqClock \in Int
    BY <1>0
  <2>3. /\ peer' \in Subscriber /\ peer'.at = zmqClock /\ peer'.subscribed = peer.subscribed
        /\ peer'.got = peer.got
    BY <1>0, <2>1, <2>2 DEF Subscriber
  <2>4. PublisherType'
    BY <1>0, <2>1, <2>3 DEF PublisherType
  <2>5. AcceptInv'
    BY <1>0, <2>1, <2>3 DEF PublisherInv, AcceptInv, None
  <2>6. StreamInv' /\ NameInv'
    BY <2>1, <2>3 DEF PublisherInv, StreamInv, StoppedStream, PublisherStopped, NameInv
  <2> QED
    BY <2>4, <2>5, <2>6 DEF PublisherInv
<1>3. CASE FilterArrives
  <2>1. /\ zmq' = zmq /\ registry' = registry /\ zmqClock' = zmqClock /\ peer.at # None
        /\ peer' = [peer EXCEPT !.subscribed = TRUE]
    BY <1>3 DEF FilterArrives
  <2>2. /\ peer' \in Subscriber /\ peer'.at = peer.at /\ peer'.subscribed = TRUE
        /\ peer'.got = peer.got /\ peer'.event = peer.event
    BY <1>0, <2>1 DEF Subscriber
  <2>3. PublisherType'
    BY <1>0, <2>1, <2>2 DEF PublisherType
  <2>4. AcceptInv'
    BY <1>0, <2>1, <2>2 DEF PublisherInv, AcceptInv
  <2>5. StreamInv' /\ NameInv'
    BY <2>1, <2>2 DEF PublisherInv, StreamInv, StoppedStream, PublisherStopped, NameInv
  <2> QED
    BY <2>3, <2>4, <2>5 DEF PublisherInv
<1> QED
  BY <1>1, <1>2, <1>3

(* The steps that move the node on, and those of its registration. *)
LEMMA PublisherMoves ==
  ASSUME PublisherInv, NEW p, zmq' = [zmq EXCEPT !.pc = p], zmq' \in Publisher,
         registry' \in Registration, peer' = peer, zmqClock' = zmqClock,
         p \in {"start", "register"} => zmq.pc \in {"start", "register"},
         p = "running" => zmq.pc \in {"register", "running"},
         p \in {"stopped", "stoppedLogged"} <=> zmq.pc \in {"stopped", "stoppedLogged"},
         NameInv'
  PROVE  PublisherInv'
<1>0. zmq \in Publisher /\ peer \in Subscriber /\ zmqClock \in Nat
  BY DEF PublisherInv, PublisherType
<1>1. /\ zmq'.pc = p /\ zmq'.cycles = zmq.cycles /\ zmq'.connected = zmq.connected
      /\ zmq'.acceptedAt = zmq.acceptedAt /\ zmq'.buffer = zmq.buffer /\ zmq'.due = zmq.due
  BY <1>0 DEF Publisher
<1>2. PublisherType'
  BY <1>0 DEF PublisherType
<1>3. AcceptInv'
  BY <1>1 DEF PublisherInv, AcceptInv
<1>4. StreamInv'
  BY <1>1, ZenonT(40) DEF PublisherInv, StreamInv, StoppedStream, PublisherStopped
<1> QED
  BY <1>2, <1>3, <1>4 DEF PublisherInv

LEMMA PublisherNameStep ==
  ASSUME PublisherInv,
         NameExpires \/ Register \/ KeepAlive \/ KeepAliveTold \/ RevokeLease \/ SenderStart \/ SenderStop
  PROVE  PublisherInv'
<1>0. /\ zmq \in Publisher /\ registry \in Registration /\ zmqClock \in Nat /\ LeaseTtl \in Nat
      /\ zmq = [zmq EXCEPT !.pc = zmq.pc] /\ NameInv
  BY ZmqAssumption DEF PublisherInv, PublisherType, Publisher
<1>1. ASSUME zmq' = zmq, peer' = peer, zmqClock' = zmqClock, registry' \in Registration, NameInv'
      PROVE  PublisherInv'
  <2> DEFINE p == zmq.pc
  <2>1. zmq' = [zmq EXCEPT !.pc = p] /\ zmq' \in Publisher
    BY <1>0, <1>1
  <2>2. p = zmq.pc
    OBVIOUS
  <2> HIDE DEF p
  <2> QED
    BY <1>1, <2>1, <2>2, PublisherMoves
<1>2. CASE NameExpires
  <2>1. zmq' = zmq /\ peer' = peer /\ zmqClock' = zmqClock /\ registry' = [registry EXCEPT !.key = FALSE]
    BY <1>2 DEF NameExpires
  <2>2. registry' \in Registration /\ registry'.key = FALSE /\ registry'.thread = registry.thread
    BY <1>0, <2>1 DEF Registration
  <2>3. NameInv'
    BY <1>0, <2>1, <2>2 DEF NameInv
  <2> QED
    BY <1>1, <2>1, <2>2, <2>3
<1>3. CASE KeepAlive \/ KeepAliveTold
  <2> DEFINE e == zmqClock + LeaseTtl
  <2>1. /\ zmq' = zmq /\ peer' = peer /\ zmqClock' = zmqClock /\ registry.thread = "alive"
        /\ \/ registry' = [registry EXCEPT !.expires = e]
           \/ registry' = [registry EXCEPT !.thread = "ended"]
    BY <1>3 DEF KeepAlive, KeepAliveTold
  <2>2. e \in Nat
    BY <1>0
  <2> HIDE DEF e
  <2>3. registry' \in Registration
    BY <1>0, <2>1, <2>2 DEF Registration
  <2>4. NameInv'
    BY <1>0, <2>1 DEF NameInv, Registration
  <2> QED
    BY <1>1, <2>1, <2>3, <2>4
<1>4. CASE Register
  <2> DEFINE e == zmqClock + LeaseTtl
  <2>0. e \in Nat
    BY <1>0
  <2>1. /\ zmq.pc = "register" /\ peer' = peer /\ zmqClock' = zmqClock
        /\ \/ /\ zmq' = [zmq EXCEPT !.pc = "running"]
              /\ registry' = IF zmq.named
                   THEN [registry EXCEPT !.key = TRUE, !.expires = e, !.thread = "alive"] ELSE registry
           \/ zmq' = [zmq EXCEPT !.pc = "failed"] /\ registry' = registry
    BY <1>4 DEF Register
  <2> HIDE DEF e
  <2>2. registry' \in Registration
    BY <1>0, <2>0, <2>1 DEF Registration
  <2>3. zmq' \in Publisher /\ zmq'.named = zmq.named /\ zmq'.pc \in {"running", "failed"}
    BY <1>0, <2>1 DEF Publisher
  <2>4. NameInv'
    <3>1. CASE zmq.named = FALSE
      <4>1. ~ zmq.named
        BY <3>1
      <4>2. registry' = registry
        BY <2>1, <4>1
      <4> QED
        BY <1>0, <2>1, <2>3, <4>2 DEF NameInv
    <3>2. CASE zmq.named # FALSE
      BY <2>3, <3>2 DEF NameInv
    <3> QED
      BY <3>1, <3>2
  <2>5. CASE zmq' = [zmq EXCEPT !.pc = "running"]
    BY <2>1, <2>2, <2>3, <2>4, <2>5, PublisherMoves
  <2>6. CASE zmq' = [zmq EXCEPT !.pc = "failed"]
    BY <2>1, <2>2, <2>3, <2>4, <2>6, PublisherMoves
  <2> QED
    BY <2>1, <2>5, <2>6
<1>5. CASE RevokeLease
  <2>1. /\ zmq.pc = "revoke" /\ peer' = peer /\ zmqClock' = zmqClock /\ registry.thread \in {"none", "ended"}
        /\ \/ zmq' = [zmq EXCEPT !.pc = "end"] /\ registry' = [registry EXCEPT !.key = FALSE]
           \/ zmq' = [zmq EXCEPT !.pc = "endLogged"] /\ registry' = registry
    BY <1>5 DEF RevokeLease
  <2>2. registry' \in Registration
    BY <1>0, <2>1 DEF Registration
  <2>3. CASE zmq' = [zmq EXCEPT !.pc = "end"] /\ registry' = [registry EXCEPT !.key = FALSE]
    <3>1. zmq' \in Publisher /\ zmq'.pc = "end" /\ registry'.key = FALSE /\ registry'.thread = registry.thread
      BY <1>0, <2>3 DEF Publisher, Registration
    <3>2. NameInv'
      BY <2>1, <3>1 DEF NameInv
    <3> QED
      BY <2>1, <2>2, <2>3, <3>1, <3>2, PublisherMoves
  <2>4. CASE zmq' = [zmq EXCEPT !.pc = "endLogged"] /\ registry' = registry
    <3>1. zmq' \in Publisher /\ zmq'.pc = "endLogged"
      BY <1>0, <2>4 DEF Publisher
    <3>2. NameInv'
      BY <2>1, <2>4, <3>1 DEF NameInv
    <3> QED
      BY <2>1, <2>2, <2>4, <3>1, <3>2, PublisherMoves
  <2> QED
    BY <2>1, <2>3, <2>4
<1>6. CASE SenderStart
  <2>1. PICK p \in {"register", "failed"} :
          /\ zmq.pc = "start" /\ zmq' = [zmq EXCEPT !.pc = p]
          /\ peer' = peer /\ registry' = registry /\ zmqClock' = zmqClock
    BY <1>6 DEF SenderStart
  <2>2. zmq' \in Publisher /\ zmq'.pc = p
    BY <1>0, <2>1 DEF Publisher
  <2>3. NameInv'
    BY <1>0, <2>1, <2>2 DEF NameInv
  <2> QED
    BY <1>0, <2>1, <2>2, <2>3, PublisherMoves
<1>7. CASE SenderStop
  <2> DEFINE p == IF zmq.named THEN "revoke" ELSE "end"
  <2>1. /\ zmq.pc = "running" /\ zmq' = [zmq EXCEPT !.pc = p] /\ peer' = peer /\ zmqClock' = zmqClock
        /\ registry' = [registry EXCEPT !.shutdown = TRUE]
    BY <1>7 DEF SenderStop
  <2>2. p \in {"revoke", "end"} /\ (p = "end" => zmq.named = FALSE)
    BY <1>0 DEF Publisher
  <2> HIDE DEF p
  <2>3. zmq' \in Publisher /\ zmq'.pc = p
    BY <1>0, <2>1, <2>2 DEF Publisher
  <2>4. registry' \in Registration /\ registry'.key = registry.key /\ registry'.thread = registry.thread
    BY <1>0, <2>1 DEF Registration
  <2>5. NameInv'
    BY <1>0, <2>1, <2>2, <2>3, <2>4 DEF NameInv
  <2> QED
    BY <2>1, <2>2, <2>3, <2>4, <2>5, PublisherMoves
<1> QED
  BY <1>2, <1>3, <1>4, <1>5, <1>6, <1>7


(* A cycle of the node: z is the node after it has looked at its monitor   *)
(* and its clock.  It takes the subscriber to be connected only when the   *)
(* subscription has arrived, and never in the cycle that sees the accept.  *)
LEMMA CycleFacts ==
  ASSUME PublisherInv, zmq.pc = "running",
         NEW z, z = [Settled(CheckMonitor(zmq)) EXCEPT !.cycles = @ + 1]
  PROVE  /\ z \in Publisher /\ z.pc = "running" /\ z.named = zmq.named
         /\ z.cycles = zmq.cycles + 1 /\ z.buffer = zmq.buffer
         /\ z.acceptedAt = None <=> z.due = 0
         /\ z.acceptedAt # None =>
              peer.at # None /\ peer.at <= z.acceptedAt /\ z.acceptedAt <= zmqClock
         /\ z.acceptedAt = None => peer.event = FALSE
         /\ z.connected = TRUE => z.acceptedAt # None /\ peer.subscribed = TRUE
         /\ zmq.connected = TRUE => z.connected = TRUE
         /\ z.due # 0 =>
              /\ Len(peer.got) + Len(zmq.buffer) = zmq.cycles - z.due + 1
              /\ \A x \in 1..Len(peer.got) : peer.got[x] = z.due + x - 1
<1>0. /\ zmq \in Publisher /\ peer \in Subscriber /\ zmqClock \in Nat /\ Propagation \in Nat \ {0}
      /\ AcceptInv /\ StreamInv
  BY ZmqAssumption DEF PublisherInv, PublisherType
<1>1. /\ zmq.buffer \in Seq(Nat) /\ Len(zmq.buffer) \in Nat /\ zmq.cycles \in Nat /\ zmq.due \in Nat
      /\ peer.got \in Seq(Nat) /\ Len(peer.got) \in Nat /\ zmq.acceptedAt \in Int /\ zmqClock \in Int
      /\ peer.at \in Int /\ zmq.cycles + 1 \in Nat
      /\ zmq.connected \in BOOLEAN /\ peer.subscribed \in BOOLEAN /\ peer.event \in BOOLEAN
  BY <1>0, LenProperties DEF Publisher, Subscriber
<1> DEFINE y == CheckMonitor(zmq)
           first == IF zmq.buffer = <<>> THEN zmq.cycles + 1 ELSE Head(zmq.buffer)
           late == y.acceptedAt # None /\ zmqClock - y.acceptedAt >= Propagation
           c == y.connected \/ late
<1>2. first \in Nat /\ first = zmq.cycles - Len(zmq.buffer) + 1 /\ first >= 1
  <2>1. CASE zmq.buffer = <<>>
    BY <1>1, <2>1
  <2>2. CASE zmq.buffer # <<>>
    <3>1. Len(zmq.buffer) >= 1 /\ Head(zmq.buffer) = zmq.buffer[1]
      BY <1>1, <2>2, EmptySeq, HeadTailProperties
    <3>2. /\ Len(zmq.buffer) <= zmq.cycles
          /\ \A x \in 1..Len(zmq.buffer) : zmq.buffer[x] = zmq.cycles - Len(zmq.buffer) + x
      BY <1>0 DEF StreamInv, PublisherStopped
    <3>3. 1 \in 1..Len(zmq.buffer)
      BY <1>1, <3>1
    <3>4. zmq.buffer[1] = zmq.cycles - Len(zmq.buffer) + 1
      BY <3>2, <3>3
    <3>5. first = zmq.buffer[1]
      BY <2>2, <3>1
    <3> HIDE DEF first
    <3> QED
      BY <1>1, <3>1, <3>2, <3>4, <3>5
  <2> QED
    BY <2>1, <2>2
<1>3. \/ /\ zmq.connected = FALSE /\ peer.event = TRUE
         /\ y = [zmq EXCEPT !.acceptedAt = zmqClock, !.due = first]
      \/ (zmq.connected = TRUE \/ peer.event = FALSE) /\ y = zmq
  BY <1>1 DEF CheckMonitor
<1> HIDE DEF y, first
<1>4. /\ y \in Publisher /\ y.pc = "running" /\ y.named = zmq.named /\ y.cycles = zmq.cycles
      /\ y.buffer = zmq.buffer /\ y.connected = zmq.connected
  BY <1>0, <1>1, <1>2, <1>3 DEF Publisher
<1>5. \/ /\ zmq.connected = FALSE /\ peer.event = TRUE /\ y.acceptedAt = zmqClock /\ y.due = first
      \/ /\ (zmq.connected = TRUE \/ peer.event = FALSE)
         /\ y.acceptedAt = zmq.acceptedAt /\ y.due = zmq.due
  BY <1>0, <1>3 DEF Publisher
<1>6. c \in BOOLEAN /\ (c = TRUE <=> (y.connected = TRUE \/ late))
  BY <1>1, <1>4
<1>7. Settled(y) = [y EXCEPT !.connected = c]
  BY DEF Settled
<1> HIDE DEF c
<1>8. z = [[y EXCEPT !.connected = c] EXCEPT !.cycles = @ + 1]
  BY <1>7 DEF y
<1>9. /\ z \in Publisher /\ z.pc = y.pc /\ z.named = y.named /\ z.cycles = y.cycles + 1
      /\ z.buffer = y.buffer /\ z.acceptedAt = y.acceptedAt /\ z.due = y.due /\ z.connected = c
  <2> DEFINE w == [y EXCEPT !.connected = c]
             n == w.cycles + 1
  <2>1. /\ w \in Publisher /\ w.pc = y.pc /\ w.named = y.named /\ w.cycles = y.cycles
        /\ w.buffer = y.buffer /\ w.acceptedAt = y.acceptedAt /\ w.due = y.due /\ w.connected = c
    BY <1>4, <1>6 DEF Publisher
  <2>2. z = [w EXCEPT !.cycles = n]
    BY <1>8
  <2>3. n \in Nat /\ n = y.cycles + 1
    BY <1>1, <1>4, <2>1
  <2> HIDE DEF w, n
  <2>4. /\ z \in Publisher /\ z.pc = w.pc /\ z.named = w.named /\ z.cycles = n
        /\ z.buffer = w.buffer /\ z.acceptedAt = w.acceptedAt /\ z.due = w.due /\ z.connected = w.connected
    BY <2>1, <2>2, <2>3 DEF Publisher
  <2> QED
    BY <2>1, <2>3, <2>4
<1>10. /\ z.acceptedAt = None <=> z.due = 0
       /\ z.acceptedAt # None => peer.at # None /\ peer.at <= z.acceptedAt /\ z.acceptedAt <= zmqClock
       /\ z.acceptedAt = None => peer.event = FALSE
  BY <1>0, <1>1, <1>2, <1>5, <1>9 DEF AcceptInv, None
<1>11. z.connected = TRUE => z.acceptedAt # None /\ peer.subscribed = TRUE
  <2>1. CASE zmq.connected = TRUE
    BY <1>0, <1>5, <1>9, <2>1 DEF AcceptInv
  <2>2. CASE zmq.connected = FALSE /\ z.connected = TRUE
    <3>1. z.acceptedAt # None /\ zmqClock - z.acceptedAt >= Propagation
      BY <1>4, <1>6, <1>9, <2>2
    <3>2. peer.at # None /\ peer.at <= z.acceptedAt
      BY <1>10, <3>1
    <3>3. z.acceptedAt \in Int
      BY <1>9 DEF Publisher
    <3>4. ~ (zmqClock < peer.at + Propagation)
      BY <1>0, <1>1, <3>1, <3>2, <3>3
    <3>5. peer.subscribed # FALSE
      BY <1>0, <3>2, <3>4 DEF AcceptInv
    <3> QED
      BY <1>1, <3>1, <3>5
  <2> QED
    BY <1>1, <2>1, <2>2
<1>12. zmq.connected = TRUE => z.connected = TRUE
  BY <1>4, <1>6, <1>9
<1>13. z.due # 0 => /\ Len(peer.got) + Len(zmq.buffer) = zmq.cycles - z.due + 1
                    /\ \A x \in 1..Len(peer.got) : peer.got[x] = z.due + x - 1
  <2>1. CASE zmq.connected = FALSE /\ y.due = first
    <3>1. Len(peer.got) = 0
      BY <1>0, <2>1 DEF StreamInv, PublisherStopped
    <3> QED
      BY <1>1, <1>2, <1>9, <2>1, <3>1
  <2>2. CASE y.due = zmq.due
    BY <1>0, <1>9, <2>2 DEF StreamInv, PublisherStopped
  <2> QED
    BY <1>5, <2>1, <2>2
<1> QED
  BY <1>4, <1>9, <1>10, <1>11, <1>12, <1>13

LEMMA PublisherCycleStep ==
  ASSUME PublisherInv, ZmqSenderCycle
  PROVE  PublisherInv'
<1> DEFINE z == [Settled(CheckMonitor(zmq)) EXCEPT !.cycles = @ + 1]
           start == IF z.bufferStart = None THEN zmqClock ELSE z.bufferStart
           sent == Append(z.buffer, z.cycles)
           none == <<>>
           last == <<z.cycles>>
<1>0. /\ zmq \in Publisher /\ peer \in Subscriber /\ zmqClock \in Nat /\ registry \in Registration
      /\ AcceptInv /\ StreamInv /\ NameInv /\ zmq.pc = "running"
      /\ registry' = registry /\ zmqClock' = zmqClock
  BY DEF PublisherInv, PublisherType, ZmqSenderCycle
<1>1. \/ /\ z.connected /\ peer' = [Socket(sent) EXCEPT !.event = FALSE]
         /\ zmq' = [z EXCEPT !.buffer = none, !.bufferStart = None]
      \/ /\ ~ z.connected /\ peer' = [peer EXCEPT !.event = FALSE]
         /\ \/ /\ z.acceptedAt = None
               /\ zmq' = [z EXCEPT !.buffer = last, !.bufferStart = zmqClock]
            \/ zmq' = [z EXCEPT !.buffer = sent, !.bufferStart = start]
  BY DEF ZmqSenderCycle, Stale
<1>2. /\ z \in Publisher /\ z.pc = "running" /\ z.named = zmq.named
      /\ z.cycles = zmq.cycles + 1 /\ z.buffer = zmq.buffer
      /\ z.acceptedAt = None <=> z.due = 0
      /\ z.acceptedAt # None => peer.at # None /\ peer.at <= z.acceptedAt /\ z.acceptedAt <= zmqClock
      /\ z.acceptedAt = None => peer.event = FALSE
      /\ z.connected = TRUE => z.acceptedAt # None /\ peer.subscribed = TRUE
      /\ zmq.connected = TRUE => z.connected = TRUE
      /\ z.due # 0 =>
           /\ Len(peer.got) + Len(zmq.buffer) = zmq.cycles - z.due + 1
           /\ \A x \in 1..Len(peer.got) : peer.got[x] = z.due + x - 1
  BY <1>0, CycleFacts
<1> HIDE DEF z
<1>3. /\ z.connected \in BOOLEAN /\ z.bufferStart \in Int /\ z.cycles \in Nat /\ z.due \in Nat
      /\ z.buffer \in Seq(Nat) /\ Len(z.buffer) \in Nat /\ start \in Int /\ zmqClock \in Int /\ None \in Int
      /\ peer.got \in Seq(Nat) /\ Len(peer.got) \in Nat /\ zmq.cycles \in Nat
      /\ peer.subscribed \in BOOLEAN /\ zmq.connected \in BOOLEAN
  BY <1>0, <1>2, LenProperties DEF Publisher, Subscriber, None
<1>4. /\ Len(z.buffer) <= zmq.cycles
      /\ \A x \in 1..Len(z.buffer) : z.buffer[x] = zmq.cycles - Len(z.buffer) + x
  BY <1>0, <1>2 DEF StreamInv, PublisherStopped
<1>5. /\ sent \in Seq(Nat) /\ Len(sent) = Len(z.buffer) + 1 /\ sent[Len(z.buffer) + 1] = z.cycles
      /\ \A x \in 1..Len(z.buffer) : sent[x] = z.buffer[x]
  BY <1>3, AppendProperties
<1>6. \A x \in 1..Len(sent) : sent[x] = z.cycles - Len(sent) + x
  <2> SUFFICES ASSUME NEW x \in 1..Len(sent) PROVE sent[x] = z.cycles - Len(sent) + x
    OBVIOUS
  <2>1. CASE x = Len(z.buffer) + 1
    BY <1>3, <1>5, <2>1
  <2>2. CASE x # Len(z.buffer) + 1
    <3>1. x \in 1..Len(z.buffer)
      BY <1>3, <1>5, <2>2
    <3>2. sent[x] = zmq.cycles - Len(z.buffer) + x
      BY <1>4, <1>5, <3>1
    <3> QED
      BY <1>2, <1>3, <1>5, <3>2
  <2> QED
    BY <2>1, <2>2
<1>7. none \in Seq(Nat) /\ Len(none) = 0 /\ last \in Seq(Nat) /\ Len(last) = 1 /\ last[1] = z.cycles
  BY <1>3
<1> HIDE DEF sent, none, last, start
<1>8. zmq'.pc = "running" /\ zmq'.named = zmq.named => NameInv'
  BY <1>0 DEF NameInv
<1>9. CASE z.connected = TRUE
  <2>1. peer' = [Socket(sent) EXCEPT !.event = FALSE] /\ zmq' = [z EXCEPT !.buffer = none, !.bufferStart = None]
    BY <1>1, <1>9
  <2> DEFINE got == peer.got \o sent
  <2>2. Socket(sent) = [peer EXCEPT !.got = got]
    BY <1>2, <1>9 DEF Socket
  <2>3. /\ got \in Seq(Nat) /\ Len(got) = Len(peer.got) + Len(sent)
        /\ \A x \in 1..(Len(peer.got) + Len(sent)) :
             got[x] = IF x <= Len(peer.got) THEN peer.got[x] ELSE sent[x - Len(peer.got)]
    BY <1>3, <1>5, ConcatProperties
  <2> HIDE DEF got
  <2>4. /\ peer' \in Subscriber /\ peer'.got = got /\ peer'.at = peer.at /\ peer'.event = FALSE
        /\ peer'.subscribed = peer.subscribed
    BY <1>0, <2>1, <2>2, <2>3 DEF Subscriber
  <2>5. /\ zmq' \in Publisher /\ zmq'.pc = "running" /\ zmq'.named = zmq.named /\ zmq'.buffer = none
        /\ zmq'.cycles = z.cycles /\ zmq'.connected = TRUE /\ zmq'.acceptedAt = z.acceptedAt /\ zmq'.due = z.due
    BY <1>2, <1>3, <1>7, <1>9, <2>1 DEF Publisher
  <2>6. PublisherType'
    BY <1>0, <2>4, <2>5 DEF PublisherType
  <2>7. z.acceptedAt # None /\ peer.subscribed = TRUE /\ z.due # 0
    BY <1>2, <1>9
  <2>8. AcceptInv'
    BY <1>0, <1>2, <1>7, <2>4, <2>5, <2>7 DEF AcceptInv
  <2> DEFINE g == Len(peer.got)
             b == Len(z.buffer)
             n == zmq.cycles
             d == z.due
  <2>9. /\ g \in Nat /\ b \in Nat /\ n \in Nat /\ d \in Nat /\ d >= 1 /\ g + b = n - d + 1
        /\ z.cycles = n + 1 /\ Len(sent) = b + 1 /\ Len(got) = g + (b + 1)
        /\ \A x \in 1..g : peer.got[x] = d + x - 1
        /\ \A x \in 1..(g + (b + 1)) : got[x] = IF x <= g THEN peer.got[x] ELSE sent[x - g]
    <3>1. g + b = n - d + 1 /\ (\A x \in 1..g : peer.got[x] = d + x - 1) /\ z.cycles = n + 1
      BY <1>2, <2>7
    <3>2. g \in Nat /\ b \in Nat /\ n \in Nat /\ d \in Nat /\ d # 0
      BY <1>3, <2>7
    <3>3. Len(sent) = b + 1
      BY <1>5
    <3>4. /\ Len(got) = g + (b + 1)
          /\ \A x \in 1..(g + (b + 1)) : got[x] = IF x <= g THEN peer.got[x] ELSE sent[x - g]
      BY <2>3, <3>3
    <3> HIDE DEF g, b, n, d
    <3> QED
      BY <3>1, <3>2, <3>3, <3>4
  <2>10. \A x \in 1..(b + 1) : sent[x] = (n + 1) - (b + 1) + x
    BY <1>6, <2>9
  <2> HIDE DEF g, b, n, d
  <2>11. Len(got) = (n + 1) - d + 1
    BY <2>9
  <2>12. Len(got) = z.cycles - z.due + 1
    BY <2>9, <2>11 DEF d
  <2>13. \A x \in 1..Len(got) : got[x] = d + x - 1
    <3> SUFFICES ASSUME NEW x \in 1..(g + (b + 1)) PROVE got[x] = d + x - 1
      BY <2>9
    <3>1. CASE x <= g
      <4>1. x \in 1..g
        BY <2>9, <3>1
      <4> QED
        BY <2>9, <3>1, <4>1
    <3>2. CASE ~ (x <= g)
      <4>1. x - g \in 1..(b + 1)
        BY <2>9, <3>2
      <4>2. got[x] = sent[x - g]
        BY <2>9, <3>2
      <4>3. got[x] = (n + 1) - (b + 1) + (x - g)
        BY <2>10, <4>1, <4>2
      <4> QED
        BY <2>9, <4>3
    <3> QED
      BY <3>1, <3>2
  <2>14. \A x \in 1..Len(got) : got[x] = z.due + x - 1
    BY <2>13 DEF d
  <2>16. StreamInv'
    BY <1>3, <1>7, <2>4, <2>5, <2>7, <2>12, <2>14, <2>3 DEF StreamInv, PublisherStopped
  <2> QED
    BY <1>8, <2>5, <2>6, <2>8, <2>16 DEF PublisherInv
<1>10. ASSUME z.connected = FALSE, NEW buffer \in Seq(Nat), NEW from \in Int,
              peer' = [peer EXCEPT !.event = FALSE],
              zmq' = [z EXCEPT !.buffer = buffer, !.bufferStart = from],
              Len(buffer) <= z.cycles, \A x \in 1..Len(buffer) : buffer[x] = z.cycles - Len(buffer) + x,
              z.acceptedAt # None => Len(buffer) = Len(z.buffer) + 1
       PROVE  PublisherInv'
  <2>1. /\ peer' \in Subscriber /\ peer'.got = peer.got /\ peer'.at = peer.at /\ peer'.event = FALSE
        /\ peer'.subscribed = peer.subscribed
    BY <1>0, <1>10 DEF Subscriber
  <2>2. /\ zmq' \in Publisher /\ zmq'.pc = "running" /\ zmq'.named = zmq.named /\ zmq'.buffer = buffer
        /\ zmq'.cycles = z.cycles /\ zmq'.connected = FALSE /\ zmq'.acceptedAt = z.acceptedAt /\ zmq'.due = z.due
    BY <1>2, <1>10 DEF Publisher
  <2>3. zmq.connected = FALSE
    BY <1>2, <1>3, <1>10
  <2>4. Len(peer.got) = 0
    BY <1>0, <2>3 DEF StreamInv, PublisherStopped
  <2>5. PublisherType'
    BY <1>0, <2>1, <2>2 DEF PublisherType
  <2>6. AcceptInv'
    BY <1>0, <1>2, <2>1, <2>2 DEF AcceptInv
  <2>7. z.due # 0 => Len(peer.got) + Len(buffer) = z.cycles - z.due + 1
    <3> SUFFICES ASSUME z.due # 0 PROVE Len(peer.got) + Len(buffer) = z.cycles - z.due + 1
      OBVIOUS
    <3> DEFINE g == Len(peer.got)
               b == Len(z.buffer)
               n == zmq.cycles
               d == z.due
    <3>1. g + b = n - d + 1 /\ z.cycles = n + 1 /\ z.acceptedAt # None
      BY <1>2
    <3>2. g \in Nat /\ b \in Nat /\ n \in Nat /\ d \in Nat
      BY <1>3
    <3>3. Len(buffer) = b + 1
      BY <1>10, <3>1
    <3> HIDE DEF g, b, n, d
    <3>4. g + (b + 1) = (n + 1) - d + 1
      BY <3>1, <3>2
    <3> QED
      BY <3>1, <3>3, <3>4 DEF g, d
  <2>8. StreamInv'
    BY <1>10, <2>1, <2>2, <2>4, <2>7 DEF StreamInv, PublisherStopped
  <2> QED
    BY <1>8, <2>2, <2>5, <2>6, <2>8 DEF PublisherInv
<1>11. CASE z.connected = FALSE
  <2>1. CASE z.acceptedAt = None /\ zmq' = [z EXCEPT !.buffer = last, !.bufferStart = zmqClock]
    <3>1. Len(last) <= z.cycles /\ \A x \in 1..Len(last) : last[x] = z.cycles - Len(last) + x
      BY <1>2, <1>3, <1>7
    <3> QED
      BY <1>1, <1>3, <1>7, <1>10, <1>11, <2>1, <3>1
  <2>2. CASE zmq' = [z EXCEPT !.buffer = sent, !.bufferStart = start]
    <3>1. Len(sent) <= z.cycles
      BY <1>2, <1>3, <1>4, <1>5
    <3> QED
      BY <1>1, <1>3, <1>5, <1>6, <1>10, <1>11, <2>2, <3>1
  <2> QED
    BY <1>1, <1>11, <2>1, <2>2
<1> QED
  BY <1>3, <1>9, <1>11

LEMMA PublisherEndStep ==
  ASSUME PublisherInv, SendEnd
  PROVE  PublisherInv'
<1> DEFINE p == IF zmq.pc = "end" THEN "stopped" ELSE "stoppedLogged"
           end == <<0>>
           got == peer.got \o end
<1>0. /\ zmq \in Publisher /\ peer \in Subscriber /\ zmqClock \in Nat /\ registry \in Registration
      /\ AcceptInv /\ StreamInv /\ NameInv /\ zmq.pc \in {"end", "endLogged"}
      /\ registry' = registry /\ zmqClock' = zmqClock /\ zmq' = [zmq EXCEPT !.pc = p]
      /\ peer' = Socket(end)
  BY DEF PublisherInv, PublisherType, SendEnd
<1>1. p \in {"stopped", "stoppedLogged"} /\ (p = "stopped" => zmq.pc = "end")
  BY <1>0
<1>2. end \in Seq(Nat) /\ Len(end) = 1 /\ end[1] = 0 /\ peer.got \in Seq(Nat) /\ Len(peer.got) \in Nat
  BY <1>0, LenProperties DEF Subscriber
<1> HIDE DEF p, end
<1> DEFINE g == Len(peer.got)
<1>3. /\ got \in Seq(Nat) /\ Len(got) = g + 1 /\ g \in Nat
      /\ \A x \in 1..(g + 1) : got[x] = IF x <= g THEN peer.got[x] ELSE end[x - g]
  <2>1. /\ got \in Seq(Nat) /\ Len(got) = g + Len(end)
        /\ \A x \in 1..(g + Len(end)) : got[x] = IF x <= g THEN peer.got[x] ELSE end[x - g]
    BY <1>2, ConcatProperties
  <2> QED
    BY <1>2, <2>1
<1>4. peer' = peer \/ peer' = [peer EXCEPT !.got = got]
  BY <1>0 DEF Socket
<1> HIDE DEF got
<1>5. /\ zmq' \in Publisher /\ zmq'.pc = p /\ zmq'.connected = zmq.connected /\ zmq'.due = zmq.due
      /\ zmq'.acceptedAt = zmq.acceptedAt /\ zmq'.buffer = zmq.buffer
  BY <1>0, <1>1 DEF Publisher
<1>6. /\ peer' \in Subscriber /\ peer'.at = peer.at /\ peer'.subscribed = peer.subscribed
      /\ peer'.event = peer.event /\ peer'.got \in {peer.got, got}
  BY <1>0, <1>3, <1>4 DEF Subscriber
<1>7. PublisherType'
  BY <1>0, <1>5, <1>6 DEF PublisherType
<1>8. AcceptInv'
  BY <1>0, <1>1, <1>5, <1>6 DEF AcceptInv
<1>9. ~ PublisherStopped /\ PublisherStopped' /\ zmq'.cycles = zmq.cycles /\ zmq.connected \in BOOLEAN
  BY <1>0, <1>1, <1>5 DEF PublisherStopped, Publisher
<1>10. StoppedStream'
  <2>1. CASE zmq.connected = FALSE
    <3>1. g = 0 /\ Len(zmq.buffer) \in Nat
      BY <1>0, <1>9, <2>1, LenProperties DEF StreamInv, Publisher
    <3>2. peer'.got = got => Len(peer'.got) = 1 /\ peer'.got[1] = 0
      BY <1>2, <1>3, <3>1
    <3>3. peer'.got = peer.got => Len(peer'.got) = 0
      BY <3>1
    <3>4. zmq.due # 0 => Len(zmq.buffer) = zmq.cycles - zmq.due + 1
      <4> DEFINE m == zmq.cycles - zmq.due + 1
      <4>1. zmq.due # 0 => g + Len(zmq.buffer) = m
        BY <1>0, <1>9 DEF StreamInv
      <4> HIDE DEF m
      <4>2. zmq.due # 0 => Len(zmq.buffer) = m
        BY <3>1, <4>1
      <4> QED
        BY <4>2 DEF m
    <3> HIDE DEF g
    <3>5. zmq'.connected = FALSE /\ zmq'.connected # TRUE
      BY <1>5, <2>1
    <3>6. Len(peer'.got) = 0 \/ (Len(peer'.got) = 1 /\ peer'.got[1] = 0)
      BY <1>6, <3>2, <3>3
    <3>7. zmq'.due # 0 => Len(zmq'.buffer) = zmq'.cycles - zmq'.due + 1
      BY <1>5, <1>9, <3>4
    <3> QED
      BY <3>5, <3>6, <3>7 DEF StoppedStream
  <2>2. CASE zmq.connected = TRUE
    <3>1. Len(zmq.buffer) = 0 /\ zmq.due # 0 /\ peer.subscribed = TRUE
      BY <1>0, <2>2 DEF AcceptInv
    <3>2. peer'.got = got
      BY <1>0, <3>1 DEF Socket, Subscriber, got
    <3> DEFINE m == zmq.cycles - zmq.due + 1
    <3>3. g + Len(zmq.buffer) = m /\ \A x \in 1..g : peer.got[x] = zmq.due + x - 1
      BY <1>0, <1>9, <3>1 DEF StreamInv
    <3>4. g = m
      <4> HIDE DEF m
      <4> QED
        BY <1>3, <3>1, <3>3
    <3>5. Len(got) = m + 1 /\ got[m + 1] = 0 /\ m \in Nat
      <4> HIDE DEF m, g
      <4> QED
        BY <1>2, <1>3, <3>4
    <3>6. \A x \in 1..m : got[x] = zmq.due + x - 1
      <4> HIDE DEF m, g
      <4>1. \A x \in 1..g : got[x] = peer.got[x]
        BY <1>3
      <4> QED
        BY <3>3, <3>4, <4>1
    <3>7. zmq'.cycles - zmq'.due + 1 = m /\ zmq'.due = zmq.due /\ zmq'.connected # FALSE
      BY <1>5, <1>9, <2>2
    <3> HIDE DEF m, g
    <3>8. /\ Len(peer'.got) = m + 1 /\ peer'.got[Len(peer'.got)] = 0 /\ m \in Nat
          /\ \A x \in 1..m : peer'.got[x] = zmq.due + x - 1
      BY <3>2, <3>5, <3>6
    <3> QED
      BY <3>7, <3>8 DEF StoppedStream
  <2> QED
    BY <1>9, <2>1, <2>2
<1>11. StreamInv'
  BY <1>0, <1>5, <1>9, <1>10 DEF StreamInv
<1>12. NameInv'
  BY <1>0, <1>1, <1>5 DEF NameInv
<1> QED
  BY <1>7, <1>8, <1>11, <1>12 DEF PublisherInv

LEMMA PublisherStart ==
  ASSUME ZmqInit
  PROVE  PublisherInv
<1> DEFINE none == <<>>
<1>1. PICK realtime \in BOOLEAN, named \in BOOLEAN :
        zmq = [pc |-> "start", realtime |-> realtime, named |-> named, cycles |-> 0,
               connected |-> FALSE, acceptedAt |-> None, buffer |-> none, bufferStart |-> None, due |-> 0]
  BY DEF ZmqInit
<1>2. /\ peer = [at |-> None, subscribed |-> FALSE, event |-> FALSE, got |-> none]
      /\ registry = [key |-> FALSE, expires |-> 0, thread |-> "none", shutdown |-> FALSE]
      /\ zmqClock = 0
  BY DEF ZmqInit
<1>3. none \in Seq(Nat) /\ Len(none) = 0 /\ None \in Int
  BY DEF None
<1> HIDE DEF none
<1>4. PublisherType
  BY <1>1, <1>2, <1>3 DEF PublisherType, Publisher, Subscriber, Registration
<1>5. AcceptInv
  BY <1>1, <1>2, <1>3 DEF AcceptInv
<1>6. StreamInv /\ NameInv
  BY <1>1, <1>2, <1>3 DEF StreamInv, PublisherStopped, NameInv
<1> QED
  BY <1>4, <1>5, <1>6 DEF PublisherInv

(* A sequence of consecutive numbers. *)
LEMMA Consecutive ==
  ASSUME NEW s \in Seq(Nat), NEW d \in Nat, \A x \in 1..Len(s) : s[x] = d + x - 1
  PROVE  s = [x \in 1..Len(s) |-> d + x - 1]
<1>1. s = [x \in 1..Len(s) |-> s[x]]
  BY LenProperties
<1> QED
  BY <1>1

(* However late the node sees an accept and whenever it discards what it   *)
(* kept back: a subscriber it takes to listen has every message since its  *)
(* accept was seen, without a gap and with the end of the stream after a   *)
(* stop, and one that is not yet listening has nothing but that end; and   *)
(* after a stop nothing renews the name, which is gone or was logged.      *)
THEOREM PublisherStaysSound == Spec => []PublisherSound
<1>1. Init => PublisherInv
  BY PublisherStart DEF Init
<1>2. ASSUME PublisherInv, ZmqNext PROVE PublisherInv'
  BY <1>2, PublisherEnvStep, PublisherNameStep, PublisherCycleStep, PublisherEndStep DEF ZmqNext
<1>3. ASSUME PublisherInv, UNCHANGED zmqVars PROVE PublisherInv'
  <2>1. zmq' = zmq /\ peer' = peer /\ registry' = registry /\ zmqClock' = zmqClock
    BY <1>3 DEF zmqVars
  <2>2. PublisherType' /\ NameInv'
    BY <1>3, <2>1 DEF PublisherInv, PublisherType, NameInv
  <2>3. AcceptInv'
    BY <1>3, <2>1 DEF PublisherInv, AcceptInv
  <2>4. StreamInv'
    BY <1>3, <2>1 DEF PublisherInv, StreamInv, PublisherStopped, StoppedStream
  <2> QED
    BY <2>2, <2>3, <2>4 DEF PublisherInv
<1>4. PublisherInv /\ [Next]_vars => PublisherInv'
  BY <1>2, <1>3, Turns
<1>5. ASSUME PublisherInv PROVE PublisherSound
  <2>0. /\ zmq \in Publisher /\ peer \in Subscriber /\ registry \in Registration /\ StreamInv /\ NameInv
        /\ AcceptInv
    BY <1>5 DEF PublisherInv, PublisherType
  <2>1. /\ peer.got \in Seq(Nat) /\ Len(peer.got) \in Nat /\ zmq.buffer \in Seq(Nat) /\ Len(zmq.buffer) \in Nat
        /\ zmq.cycles \in Nat /\ zmq.due \in Nat
    BY <2>0, LenProperties DEF Publisher, Subscriber
  <2>2. zmq.connected = FALSE => (zmq.due # 0 => zmq.buffer = Owed) /\ (peer.got = <<>> \/ (PublisherStopped /\ peer.got = <<0>>))
    <3> SUFFICES ASSUME zmq.connected = FALSE
                 PROVE  (zmq.due # 0 => zmq.buffer = Owed) /\ (peer.got = <<>> \/ (PublisherStopped /\ peer.got = <<0>>))
      OBVIOUS
    <3> DEFINE m == zmq.cycles - zmq.due + 1
               b == Len(zmq.buffer)
    <3>1. zmq.due # 0 => b = m
      <4>1. CASE PublisherStopped
        BY <2>0, <4>1 DEF StreamInv, StoppedStream
      <4>2. CASE ~ PublisherStopped
        <5>1. Len(peer.got) = 0 /\ (zmq.due # 0 => Len(peer.got) + b = m)
          BY <2>0, <4>2 DEF StreamInv
        <5> HIDE DEF m, b
        <5>2. b \in Nat
          BY <2>1 DEF b
        <5> QED
          BY <5>1, <5>2
      <4> QED
        BY <4>1, <4>2
    <3>2. zmq.due # 0 => zmq.buffer = Owed
      <4> SUFFICES ASSUME zmq.due # 0 PROVE zmq.buffer = Owed
        OBVIOUS
      <4>1. \A x \in 1..b : zmq.buffer[x] = zmq.cycles - b + x
        BY <2>0 DEF StreamInv
      <4>2. \A x \in 1..b : zmq.buffer[x] = zmq.due + x - 1
        <5> SUFFICES ASSUME NEW x \in 1..b PROVE zmq.buffer[x] = zmq.due + x - 1
          OBVIOUS
        <5>1. zmq.buffer[x] = zmq.cycles - b + x /\ b \in Nat /\ b = zmq.cycles - zmq.due + 1
          BY <2>1, <3>1, <4>1
        <5> HIDE DEF b
        <5> QED
          BY <2>1, <5>1
      <4>3. zmq.buffer = [x \in 1..b |-> zmq.due + x - 1]
        BY <2>1, <4>2, Consecutive
      <4> QED
        BY <3>1, <4>3 DEF Owed
    <3>3. Len(peer.got) = 0 \/ (PublisherStopped /\ Len(peer.got) = 1 /\ peer.got[1] = 0)
      BY <2>0 DEF StreamInv, StoppedStream
    <3>4. CASE Len(peer.got) = 0
      BY <2>1, <3>2, <3>4, EmptySeq
    <3>5. CASE PublisherStopped /\ Len(peer.got) = 1 /\ peer.got[1] = 0
      <4>1. Len(<<0>>) = 1 /\ <<0>> \in Seq(Nat) /\ <<0>>[1] = 0
        OBVIOUS
      <4>2. peer.got = <<0>>
        BY <2>1, <3>5, <4>1, SeqEqual
      <4> QED
        BY <3>2, <3>5, <4>2
    <3> QED
      BY <3>3, <3>4, <3>5
  <2>6. zmq.connected = TRUE => zmq.buffer = <<>> /\ peer.got = (IF PublisherStopped THEN Append(Owed, 0) ELSE Owed)
    <3> SUFFICES ASSUME zmq.connected = TRUE
                 PROVE  zmq.buffer = <<>> /\ peer.got = (IF PublisherStopped THEN Append(Owed, 0) ELSE Owed)
      OBVIOUS
    <3> DEFINE m == zmq.cycles - zmq.due + 1
               d == zmq.due
               got == peer.got
    <3>1. Len(zmq.buffer) = 0 /\ zmq.due # 0
      BY <2>0 DEF AcceptInv
    <3>2. zmq.buffer = <<>>
      BY <2>1, <3>1, EmptySeq
    <3>3. CASE ~ PublisherStopped
      <4>1. Len(got) + Len(zmq.buffer) = m /\ \A x \in 1..Len(got) : got[x] = d + x - 1
        BY <2>0, <3>1, <3>3 DEF StreamInv
      <4>2. got = [x \in 1..Len(got) |-> d + x - 1]
        BY <2>1, <4>1, Consecutive
      <4>3. Len(got) = m
        <5> HIDE DEF m
        <5> QED
          BY <2>1, <3>1, <4>1
      <4> QED
        BY <3>2, <3>3, <4>2, <4>3 DEF Owed
    <3>4. CASE PublisherStopped
      <4>1. /\ Len(got) = m + 1 /\ got[m + 1] = 0 /\ m \in Nat
            /\ \A x \in 1..m : got[x] = d + x - 1
        BY <2>0, <3>4 DEF StreamInv, StoppedStream
      <4>2. Owed = [x \in 1..m |-> d + x - 1]
        BY DEF Owed
      <4>3. d \in Nat /\ d # 0 /\ got \in Seq(Nat)
        BY <2>1, <3>1
      <4> HIDE DEF m, d, got
      <4>4. \A x \in 1..m : d + x - 1 \in Nat
        BY <4>1, <4>3
      <4>5. Owed \in Seq(Nat) /\ Len(Owed) = m /\ \A x \in 1..m : Owed[x] = got[x]
        BY <4>1, <4>2, <4>4
      <4>6. /\ Append(Owed, 0) \in Seq(Nat) /\ Len(Append(Owed, 0)) = m + 1 /\ Append(Owed, 0)[m + 1] = 0
            /\ \A x \in 1..m : Append(Owed, 0)[x] = Owed[x]
        BY <4>5, AppendProperties
      <4>7. \A x \in 1..(m + 1) : x \in 1..m \/ x = m + 1
        BY <4>1
      <4>8. \A x \in 1..Len(got) : got[x] = Append(Owed, 0)[x]
        BY <4>1, <4>5, <4>6, <4>7
      <4>9. got = Append(Owed, 0)
        BY <4>1, <4>3, <4>6, <4>8, SeqEqual
      <4> QED
        BY <3>2, <3>4, <4>9 DEF got
    <3> QED
      BY <3>3, <3>4
  <2>7. zmq.connected \in BOOLEAN
    BY <2>0 DEF Publisher
  <2>3. NoGap
    BY <2>2, <2>6, <2>7 DEF NoGap
  <2>4. PublisherStopped => registry.thread # "alive" /\ (registry.key => zmq.pc = "stoppedLogged")
    BY <2>0 DEF NameInv, PublisherStopped, Registration
  <2>5. NameReleased
    BY <2>4 DEF NameReleased
  <2> QED
    BY <2>3, <2>5 DEF PublisherSound
<1> QED
  BY <1>1, <1>4, <1>5, PTL DEF Spec
-----------------------------------------------------------------------------
(* Subscriptions: etcd, postgres, redis, kafka, fluvio and KDB+ *)

LogWrite == [key : SubKeys, del : BOOLEAN, ok : BOOLEAN, time : Nat]

SubPcs == {"watch", "get", "xrange", "register", "query", "live", "invalid", "ended"}

SubscriberState ==
  [kind : {"etcd", "xread", "pubsub", "postgres", "kafka", "fluvio", "kdb"}, from : Int,
   realtime : BOOLEAN, pc : SubPcs, cursor : Int, base : Nat, inbox : Seq(Nat),
   seen : Seq(Int), registered : BOOLEAN, err : BOOLEAN]

SubType == log \in Seq(LogWrite) /\ link \in BOOLEAN /\ sub \in SubscriberState

(* Timestamps never fall. *)
LogInv == \A v, w \in 1..N : v <= w => log[v].time <= log[w].time

(* A pull subscriber has yielded what lies between its start and its cursor. *)
PullInv ==
  sub.kind \in {"xread", "kafka", "fluvio"} =>
    /\ sub.from <= sub.cursor
    /\ sub.cursor = sub.from \/ sub.cursor <= N
    /\ sub.seen = Upto(sub.from, sub.cursor)
    /\ sub.pc = "xrange" => sub.from = 0 /\ sub.cursor = 0

(* The last live write a pushed subscriber has been given. *)
Reached == sub.cursor + (Len(sub.seen) - sub.base)

(* What waits in the inbox beyond the snapshot is the next write, the one  *)
(* after it, and so on, up to the last write while the connection is up.   *)
InboxInv ==
  /\ \A i \in 1..Len(sub.inbox) : sub.inbox[i] > sub.cursor => sub.inbox[i] > Reached
  /\ \A i, j \in 1..Len(sub.inbox) :
       i < j /\ sub.inbox[i] > sub.cursor /\ sub.inbox[j] > sub.cursor
         => sub.inbox[i] < sub.inbox[j]
  /\ \A i \in 1..Len(sub.inbox) : \A w \in (Reached + 1)..sub.inbox[i] :
       \E k \in 1..i : sub.inbox[k] = w
  /\ link /\ Reached < N => \E i \in 1..Len(sub.inbox) : sub.inbox[i] = N

PushInv ==
  sub.kind \in {"etcd", "pubsub", "kdb"} =>
    /\ sub.cursor \in 0..N /\ sub.base <= Len(sub.seen) /\ Reached <= N
    /\ sub.kind # "etcd" => sub.base = 0
    /\ \A i \in 1..Len(sub.inbox) : sub.inbox[i] <= N
    /\ sub.kind # "etcd" => \A i \in 1..Len(sub.inbox) :
         sub.inbox[i] > sub.cursor \/ (sub.inbox[i] = Noise /\ sub.kind = "kdb")
    /\ \A i \in 1..sub.base : sub.seen[i] \in 1..sub.cursor
    /\ \A i, j \in 1..sub.base : i # j => sub.seen[i] # sub.seen[j]
    /\ \A i \in (sub.base + 1)..Len(sub.seen) : sub.seen[i] = sub.cursor + (i - sub.base)
    /\ sub.pc = "live" => sub.registered /\ InboxInv
    /\ sub.kind = "etcd" /\ sub.pc = "live" =>
         {sub.seen[i] : i \in 1..sub.base} = Present(sub.cursor)
    /\ sub.pc \in {"watch", "get", "register"} => sub.seen = <<>> /\ sub.base = 0
    /\ sub.pc = "register" => sub.inbox = <<>> /\ ~ sub.registered
    /\ sub.pc = "get" => sub.registered

(* The rows up to the cursor's timestamp have been given, or one as old. *)
PgInv ==
  sub.kind = "postgres" =>
    /\ sub.base = 0
    /\ \A i \in 1..Len(sub.seen) :
         sub.seen[i] \in 1..N /\ log[sub.seen[i]].time <= sub.cursor
    /\ \A i, j \in 1..Len(sub.seen) : i < j => sub.seen[i] < sub.seen[j]
    /\ \A w \in 1..N : sub.from < log[w].time /\ log[w].time <= sub.cursor =>
         \E i \in 1..Len(sub.seen) : log[sub.seen[i]].time = log[w].time
    /\ \/ sub.cursor = sub.from
       \/ Len(sub.seen) > 0 /\ sub.cursor = log[sub.seen[Len(sub.seen)]].time
    /\ sub.pc \in {"query", "live"} => sub.registered
    /\ sub.pc = "live" /\ link /\ sub.inbox = <<>> =>
         \A w \in 1..N : log[w].time <= sub.cursor

SubInv == SubType /\ LogInv /\ PullInv /\ PushInv /\ PgInv /\ LossIsReported

LEMMA SubTyped ==
  ASSUME SubType
  PROVE  /\ N \in Nat /\ DOMAIN log = 1..N
         /\ \A w \in 1..N : log[w] \in LogWrite /\ log[w].time \in Nat /\ log[w].key \in SubKeys
         /\ sub.from \in Int /\ sub.cursor \in Int /\ sub.base \in Nat
         /\ sub.inbox \in Seq(Nat) /\ Len(sub.inbox) \in Nat
         /\ \A i \in 1..Len(sub.inbox) : sub.inbox[i] \in Nat
         /\ sub.seen \in Seq(Int) /\ Len(sub.seen) \in Nat
         /\ DOMAIN sub.seen = 1..Len(sub.seen)
         /\ \A i \in 1..Len(sub.seen) : sub.seen[i] \in Int
         /\ Reached \in Int
<1>1. /\ log \in Seq(LogWrite) /\ sub.inbox \in Seq(Nat) /\ sub.seen \in Seq(Int)
      /\ sub.from \in Int /\ sub.cursor \in Int /\ sub.base \in Nat
  BY DEF SubType, SubscriberState
<1>2. \A w \in 1..Len(log) : log[w] \in LogWrite
  BY <1>1
<1>3. \A w \in 1..Len(log) : log[w].time \in Nat /\ log[w].key \in SubKeys
  BY <1>2 DEF LogWrite
<1>4. N \in Nat /\ DOMAIN log = 1..N
  BY <1>1, LenProperties DEF N
<1>5. /\ Len(sub.inbox) \in Nat /\ \A i \in 1..Len(sub.inbox) : sub.inbox[i] \in Nat
      /\ Len(sub.seen) \in Nat /\ DOMAIN sub.seen = 1..Len(sub.seen)
      /\ \A i \in 1..Len(sub.seen) : sub.seen[i] \in Int
  BY <1>1, LenProperties
<1>6. Reached \in Int
  BY <1>1, <1>5 DEF Reached
<1>7. \A w \in 1..N : log[w] \in LogWrite /\ log[w].time \in Nat /\ log[w].key \in SubKeys
  BY <1>2, <1>3 DEF N
<1> QED
  BY <1>1, <1>4, <1>5, <1>6, <1>7

(* Upto(a, b) is a+1, ..., b, and grows at its end. *)
LEMMA UptoOf ==
  ASSUME NEW a \in Int, NEW b \in Int
  PROVE  /\ Upto(a, b) \in Seq(Int)
         /\ Len(Upto(a, b)) \in Nat
         /\ a <= b => Len(Upto(a, b)) = b - a
         /\ b <= a => Len(Upto(a, b)) = 0
         /\ \A i \in 1..Len(Upto(a, b)) : Upto(a, b)[i] = a + i
<1> DEFINE n == IF b > a THEN b - a ELSE 0
           u == [i \in 1..n |-> a + i]
<1>1. n \in Nat /\ (a <= b => n = b - a) /\ (b <= a => n = 0)
  OBVIOUS
<1> HIDE DEF n
<1>2. u \in [1..n -> Int]
  OBVIOUS
<1>3. u \in Seq(Int) /\ Len(u) = n
  BY <1>1, <1>2, SeqDef
<1>4. \A i \in 1..n : u[i] = a + i
  OBVIOUS
<1>5. Upto(a, b) = u
  BY DEF Upto, n
<1> HIDE DEF u
<1> QED
  BY <1>1, <1>3, <1>4, <1>5

LEMMA UptoGrows ==
  ASSUME NEW a \in Int, NEW b \in Int, NEW c \in Int, a <= b, b <= c
  PROVE  Upto(a, b) \o Upto(b, c) = Upto(a, c)
<1> DEFINE s == Upto(a, b)
           t == Upto(b, c)
           u == Upto(a, c)
<1>1. /\ s \in Seq(Int) /\ Len(s) = b - a /\ \A i \in 1..Len(s) : s[i] = a + i
      /\ t \in Seq(Int) /\ Len(t) = c - b /\ \A i \in 1..Len(t) : t[i] = b + i
      /\ u \in Seq(Int) /\ Len(u) = c - a /\ \A i \in 1..Len(u) : u[i] = a + i
  <2>1. s \in Seq(Int) /\ Len(s) = b - a /\ \A i \in 1..Len(s) : s[i] = a + i
    <3> HIDE DEF s
    <3>1. s = Upto(a, b)
      BY DEF s
    <3> QED
      BY <3>1, UptoOf
  <2>2. t \in Seq(Int) /\ Len(t) = c - b /\ \A i \in 1..Len(t) : t[i] = b + i
    <3> HIDE DEF t
    <3>1. t = Upto(b, c)
      BY DEF t
    <3> QED
      BY <3>1, UptoOf
  <2>3. u \in Seq(Int) /\ Len(u) = c - a /\ \A i \in 1..Len(u) : u[i] = a + i
    <3> HIDE DEF u
    <3>1. u = Upto(a, c) /\ a <= c
      BY DEF u
    <3> QED
      BY <3>1, UptoOf
  <2> QED
    BY <2>1, <2>2, <2>3
<1> HIDE DEF s, t, u
<1>2. /\ s \o t \in Seq(Int) /\ Len(s \o t) = Len(u)
      /\ \A i \in 1..Len(u) : (s \o t)[i] = IF i <= Len(s) THEN s[i] ELSE t[i - Len(s)]
  <2>1. Len(u) = Len(s) + Len(t)
    BY <1>1
  <2>2. /\ s \o t \in Seq(Int) /\ Len(s \o t) = Len(s) + Len(t)
        /\ \A i \in 1..(Len(s) + Len(t)) :
             (s \o t)[i] = IF i <= Len(s) THEN s[i] ELSE t[i - Len(s)]
    BY <1>1, ConcatProperties
  <2> QED
    BY <2>1, <2>2
<1>3. \A i \in 1..Len(u) : (s \o t)[i] = u[i]
  <2> SUFFICES ASSUME NEW i \in 1..Len(u) PROVE (s \o t)[i] = u[i]
    OBVIOUS
  <2>1. CASE i <= Len(s)
    BY <1>1, <1>2, <2>1
  <2>2. CASE ~(i <= Len(s))
    <3>1. i - Len(s) \in 1..Len(t) /\ b + (i - Len(s)) = a + i
      BY <1>1, <2>2
    <3>2. (s \o t)[i] = t[i - Len(s)]
      BY <1>2, <2>2
    <3> QED
      BY <1>1, <3>1, <3>2
  <2> QED
    BY <2>1, <2>2
<1>4. s \o t = u
  BY <1>1, <1>2, <1>3, SeqEqual
<1> QED
  BY <1>4 DEF s, t, u

LEMMA UptoOne ==
  ASSUME NEW a \in Int
  PROVE  <<a + 1>> = Upto(a, a + 1)
<1> DEFINE u == Upto(a, a + 1)
<1>0. a + 1 \in Int /\ a <= a + 1 /\ (a + 1) - a = 1
  OBVIOUS
<1>1. u \in Seq(Int) /\ Len(u) = 1 /\ \A i \in 1..Len(u) : u[i] = a + i
  BY <1>0, UptoOf
<1> HIDE DEF u
<1>2. <<a + 1>> \in Seq(Int) /\ Len(<<a + 1>>) = 1 /\ <<a + 1>>[1] = a + 1
  OBVIOUS
<1>3. u = <<a + 1>>
  <2>1. \A i \in 1..Len(u) : u[i] = <<a + 1>>[i]
    BY <1>1, <1>2
  <2> QED
    BY <2>1, <1>1, <1>2, SeqEqual
<1> QED
  BY <1>3 DEF u

LEMMA UptoNone ==
  ASSUME NEW a \in Int
  PROVE  Upto(a, a) = <<>>
<1>1. Upto(a, a) \in Seq(Int) /\ Len(Upto(a, a)) = 0
  BY UptoOf
<1> QED
  BY <1>1, EmptySeq

-----------------------------------------------------------------------------
(* The fields of the subscriber that no step changes. *)
SameSub == sub'.kind = sub.kind /\ sub'.from = sub.from

(* A subscription that ends with an error, or for fluvio without one. *)
LEMMA SubStops ==
  ASSUME SubInv, sub' = SubFail \/ (sub' = SubEnd /\ sub.kind = "fluvio"),
         log' = log, link' \in BOOLEAN
  PROVE  SubInv'
<1>1. /\ sub' \in SubscriberState /\ SameSub /\ sub'.pc = "ended"
      /\ sub'.cursor = sub.cursor /\ sub'.base = sub.base /\ sub'.inbox = sub.inbox
      /\ sub'.seen = sub.seen /\ (sub.kind # "fluvio" => sub'.err = TRUE)
  BY DEF SubInv, SubType, SubscriberState, SubPcs, SubFail, SubEnd, SameSub
<1>2. Reached' = Reached /\ N' = N
  BY <1>1 DEF Reached, N
<1>3. SubType' /\ LogInv'
  BY <1>1, <1>2 DEF SubInv, SubType, LogInv
<1>4. PullInv'
  BY <1>1, <1>2 DEF SubInv, PullInv, SameSub
<1>5. PushInv'
  BY <1>1, <1>2 DEF SubInv, PushInv, SameSub
<1>6. PgInv'
  BY <1>1, <1>2 DEF SubInv, PgInv, SameSub
<1>7. LossIsReported'
  BY <1>1 DEF LossIsReported, SameSub
<1> QED
  BY <1>3, <1>4, <1>5, <1>6, <1>7 DEF SubInv

LEMMA LinkStep ==
  ASSUME SubInv, LinkDrop
  PROVE  SubInv'
<1>1. link' = FALSE /\ log' = log /\ sub' = sub
  BY DEF LinkDrop
<1>2. Reached' = Reached /\ N' = N
  BY <1>1 DEF Reached, N
<1>3. SubType' /\ LogInv' /\ PullInv' /\ PgInv' /\ LossIsReported'
  BY <1>1, <1>2 DEF SubInv, SubType, LogInv, PullInv, PgInv, LossIsReported
<1>4. InboxInv => InboxInv'
  BY <1>1, <1>2 DEF InboxInv
<1>5. Present(sub.cursor)' = Present(sub.cursor)
  BY <1>1 DEF Present
<1>6. PushInv'
  BY <1>1, <1>2, <1>4, <1>5 DEF SubInv, PushInv
<1> QED
  BY <1>3, <1>6 DEF SubInv

(* The server's log grows, and what it pushes is the new write. *)
LEMMA WriteStep ==
  ASSUME SubInv, ServerWrite
  PROVE  SubInv'
<1> SubType /\ LogInv /\ PullInv /\ PushInv /\ PgInv /\ LossIsReported
  BY DEF SubInv
<1>1. PICK key \in SubKeys, del \in BOOLEAN, tie \in BOOLEAN, ok \in BOOLEAN :
        /\ log' = Append(log, [key |-> key, del |-> del, ok |-> ok,
                               time |-> IF N = 0 THEN 1
                                        ELSE log[N].time + (IF tie THEN 0 ELSE 1)])
        /\ sub' = IF sub.registered /\ link
                  THEN [sub EXCEPT !.inbox = Append(@, N + 1)] ELSE sub
        /\ link' = link
  BY DEF ServerWrite
<1>0. /\ N \in Nat /\ \A w \in 1..N : log[w].time \in Nat
      /\ Len(sub.inbox) \in Nat /\ Len(sub.seen) \in Nat /\ sub.base \in Nat
      /\ \A i \in 1..Len(sub.inbox) : sub.inbox[i] \in Nat
      /\ sub.cursor \in Int /\ sub.from \in Int
  BY SubTyped
<1> DEFINE time == IF N = 0 THEN 1 ELSE log[N].time + (IF tie THEN 0 ELSE 1)
           new == [key |-> key, del |-> del, ok |-> ok, time |-> time]
           q == Append(sub.inbox, N + 1)
<1>2. time \in Nat /\ \A w \in 1..N : log[w].time <= time
  <2>1. CASE N = 0
    BY <2>1, SubTyped
  <2>2. CASE N # 0
    <3>1. N \in 1..N /\ \A w \in 1..N : w <= N /\ log[w].time <= log[N].time
      BY <2>2, SubTyped DEF LogInv
    <3>2. log[N].time \in Nat /\ \A w \in 1..N : log[w].time \in Nat
      BY <3>1, SubTyped
    <3>3. time = log[N].time \/ time = log[N].time + 1
      BY <2>2, <3>2
    <3> HIDE DEF time
    <3> QED
      BY <3>1, <3>2, <3>3
  <2> QED
    BY <2>1, <2>2
<1> HIDE DEF time
<1>3. new \in LogWrite /\ new.time = time
  BY <1>2 DEF LogWrite
<1>4. log' = Append(log, new)
  BY <1>1 DEF time
<1> HIDE DEF new
<1>5. /\ log' \in Seq(LogWrite) /\ N' = N + 1 /\ log'[N + 1] = new
      /\ \A w \in 1..N : log'[w] = log[w]
  BY <1>3, <1>4, AppendProperties DEF N, SubType
<1>6. /\ q \in Seq(Nat) /\ Len(q) = Len(sub.inbox) + 1 /\ q[Len(sub.inbox) + 1] = N + 1
      /\ \A i \in 1..Len(sub.inbox) : q[i] = sub.inbox[i]
  BY SubTyped, AppendProperties
<1> HIDE DEF q
<1>7. /\ sub' \in SubscriberState /\ SameSub /\ sub'.pc = sub.pc /\ sub'.cursor = sub.cursor
      /\ sub'.base = sub.base /\ sub'.seen = sub.seen /\ sub'.registered = sub.registered
      /\ sub'.err = sub.err
      /\ sub'.inbox = IF sub.registered /\ link THEN q ELSE sub.inbox
  BY <1>1, <1>6 DEF SubType, SubscriberState, SameSub, q
<1>8. SubType'
  BY <1>1, <1>5, <1>7 DEF SubType
<1>9. LogInv'
  <2> SUFFICES ASSUME NEW v \in 1..(N + 1), NEW w \in 1..(N + 1), v <= w
               PROVE  log'[v].time <= log'[w].time
    BY <1>5 DEF LogInv
  <2>1. CASE w = N + 1 /\ v = N + 1
    BY <1>2, <1>3, <1>5, <2>1
  <2>2. CASE w = N + 1 /\ v # N + 1
    <3>1. v \in 1..N
      BY <1>0, <2>2
    <3> QED
      BY <1>2, <1>3, <1>5, <2>2, <3>1
  <2>3. CASE w # N + 1
    <3>1. v \in 1..N /\ w \in 1..N
      BY <1>0, <2>3
    <3> QED
      BY <1>5, <3>1 DEF LogInv
  <2> QED
    BY <2>1, <2>2, <2>3
<1>10. PullInv'
  BY <1>5, <1>7, SubTyped DEF PullInv, SameSub
<1>11. Reached' = Reached
  BY <1>7 DEF Reached
<1>12. PushInv'
  <2> SUFFICES ASSUME sub.kind \in {"etcd", "pubsub", "kdb"} PROVE PushInv'
    BY <1>7 DEF PushInv, SameSub
  <2>1. /\ sub.cursor \in 0..N /\ sub.base <= Len(sub.seen) /\ Reached <= N
        /\ \A i \in 1..Len(sub.inbox) : sub.inbox[i] <= N
    BY DEF PushInv
  <2>2. \A i \in 1..Len(sub'.inbox) : sub'.inbox[i] <= N'
    <3>1. CASE sub'.inbox = sub.inbox
      BY <1>0, <1>5, <2>1, <3>1
    <3>2. CASE sub'.inbox = q
      <4> SUFFICES ASSUME NEW i \in 1..(Len(sub.inbox) + 1) PROVE q[i] <= N + 1
        BY <1>5, <1>6, <3>2
      <4>1. CASE i = Len(sub.inbox) + 1
        BY <1>0, <1>6, <4>1
      <4>2. CASE i # Len(sub.inbox) + 1
        <5>1. i \in 1..Len(sub.inbox)
          BY <1>0, <4>2
        <5>2. q[i] = sub.inbox[i] /\ sub.inbox[i] <= N /\ sub.inbox[i] \in Nat
          BY <1>0, <1>6, <2>1, <5>1
        <5> QED
          BY <1>0, <5>2
      <4> QED
        BY <4>1, <4>2
    <3> QED
      BY <1>7, <3>1, <3>2
  <2>3. Present(sub.cursor)' = Present(sub.cursor)
    <3>1. \A w \in 1..sub.cursor : w \in 1..N /\ log'[w] = log[w]
      BY <1>0, <1>5, <2>1
    <3>2. \A w \in 1..sub.cursor : \A v \in (w + 1)..sub.cursor : v \in 1..sub.cursor
      BY <2>1, SubTyped
    <3> QED
      BY <1>7, <3>1, <3>2 DEF Present
  <2>4. ASSUME sub.pc = "live" PROVE InboxInv'
    <3>0. sub.registered /\ InboxInv
      BY <2>4 DEF PushInv
    <3>1. CASE ~ link
      BY <1>1, <1>7, <1>11, <3>0, <3>1 DEF InboxInv
    <3>2. CASE link
      <4> DEFINE n == Len(sub.inbox)
      <4>0. n \in Nat /\ Reached \in Int /\ sub.cursor \in Int /\ N \in Nat
        BY SubTyped
      <4>a. /\ \A i \in 1..n : sub.inbox[i] > sub.cursor => sub.inbox[i] > Reached
            /\ \A i, j \in 1..n :
                 i < j /\ sub.inbox[i] > sub.cursor /\ sub.inbox[j] > sub.cursor
                   => sub.inbox[i] < sub.inbox[j]
            /\ \A i \in 1..n : \A w \in (Reached + 1)..sub.inbox[i] :
                 \E k \in 1..i : sub.inbox[k] = w
            /\ Reached < N => \E i \in 1..n : sub.inbox[i] = N
        BY <3>0, <3>2 DEF InboxInv
      <4>b. Len(q) = n + 1 /\ q[n + 1] = N + 1 /\ \A i \in 1..n : q[i] = sub.inbox[i]
        BY <1>6
      <4>c. sub'.inbox = q
        BY <1>7, <3>0, <3>2
      <4>d. \A i \in 1..n : sub.inbox[i] \in Nat
        BY SubTyped
      <4> HIDE DEF n
      <4>1. \A i \in 1..(n + 1) : q[i] > sub.cursor => q[i] > Reached
        BY <2>1, <4>0, <4>a, <4>b
      <4>2. \A i, j \in 1..(n + 1) : i < j /\ q[i] > sub.cursor /\ q[j] > sub.cursor => q[i] < q[j]
        <5> SUFFICES ASSUME NEW i \in 1..(n + 1), NEW j \in 1..(n + 1), i < j,
                            q[i] > sub.cursor, q[j] > sub.cursor
                     PROVE  q[i] < q[j]
          OBVIOUS
        <5>1. i \in 1..n
          BY <4>0
        <5>2. CASE j = n + 1
          BY <2>1, <4>0, <4>b, <4>d, <5>1, <5>2 DEF n
        <5>3. CASE j # n + 1
          BY <4>0, <4>a, <4>b, <5>1, <5>3
        <5> QED
          BY <5>2, <5>3
      <4>3. ASSUME NEW i \in 1..(n + 1), NEW w \in (Reached + 1)..q[i]
            PROVE  \E k \in 1..i : q[k] = w
        <5>1. CASE i \in 1..n
          <6>1. PICK k \in 1..i : sub.inbox[k] = w
            BY <4>a, <4>b, <4>3, <5>1
          <6>2. k \in 1..n
            BY <4>0, <5>1
          <6> QED
            BY <4>b, <6>1, <6>2
        <5>2. CASE i = n + 1 /\ w = N + 1
          BY <4>0, <4>b, <5>2
        <5>3. CASE i = n + 1 /\ w # N + 1
          <6>1. w \in (Reached + 1)..N /\ Reached < N
            BY <4>0, <4>b, <4>3, <5>3
          <6>2. PICK l \in 1..n : sub.inbox[l] = N
            BY <4>a, <6>1
          <6>3. PICK k \in 1..l : sub.inbox[k] = w
            BY <4>a, <6>1, <6>2
          <6>4. k \in 1..n /\ k \in 1..i
            BY <4>0, <5>3
          <6> QED
            BY <4>b, <6>3, <6>4
        <5> QED
          BY <4>0, <5>1, <5>2, <5>3
      <4>4. \E i \in 1..(n + 1) : q[i] = N + 1
        BY <4>0, <4>b
      <4> QED
        BY <1>5, <1>7, <1>11, <4>1, <4>2, <4>3, <4>4, <4>b, <4>c DEF InboxInv
    <3> QED
      BY <3>1, <3>2
  <2>6. sub.kind # "etcd" => \A i \in 1..Len(sub'.inbox) :
          sub'.inbox[i] > sub.cursor \/ (sub'.inbox[i] = Noise /\ sub.kind = "kdb")
    <3>0. ASSUME sub.kind # "etcd" PROVE \A i \in 1..Len(sub.inbox) :
            sub.inbox[i] > sub.cursor \/ (sub.inbox[i] = Noise /\ sub.kind = "kdb")
      BY <3>0 DEF PushInv
    <3>1. CASE sub'.inbox = sub.inbox
      BY <3>0, <3>1
    <3>2. CASE sub'.inbox = q
      <4>1. \A i \in 1..(Len(sub.inbox) + 1) : i \in 1..Len(sub.inbox) \/ i = Len(sub.inbox) + 1
        BY <1>0
      <4>2. N + 1 > sub.cursor
        BY <1>0, <2>1
      <4> QED
        BY <1>6, <3>0, <3>2, <4>1, <4>2
    <3> QED
      BY <1>7, <3>1, <3>2
  <2>5. sub'.cursor \in 0..N' /\ Reached' <= N'
    <3>1. Reached \in Int
      BY SubTyped
    <3> QED
      BY <1>0, <1>5, <1>7, <1>11, <2>1, <3>1
  <2>7. /\ sub'.base <= Len(sub'.seen) /\ (sub'.kind # "etcd" => sub'.base = 0)
        /\ \A i \in 1..sub'.base : sub'.seen[i] \in 1..sub'.cursor
        /\ \A i, j \in 1..sub'.base : i # j => sub'.seen[i] # sub'.seen[j]
        /\ \A i \in (sub'.base + 1)..Len(sub'.seen) : sub'.seen[i] = sub'.cursor + (i - sub'.base)
    BY <1>7 DEF PushInv, SameSub
  <2>8. sub'.kind = "etcd" /\ sub'.pc = "live" =>
          {sub'.seen[i] : i \in 1..sub'.base} = Present(sub.cursor)'
    BY <1>7, <2>3 DEF PushInv, SameSub
  <2>9. /\ sub'.pc \in {"watch", "get", "register"} => sub'.seen = <<>> /\ sub'.base = 0
        /\ sub'.pc = "register" => sub'.inbox = <<>> /\ ~ sub'.registered
        /\ sub'.pc \in {"get", "live"} => sub'.registered
    BY <1>7 DEF PushInv, SameSub
  <2>10. sub'.kind # "etcd" => \A i \in 1..Len(sub'.inbox) :
           sub'.inbox[i] > sub'.cursor \/ (sub'.inbox[i] = Noise /\ sub'.kind = "kdb")
    BY <1>7, <2>6 DEF SameSub
  <2>11. sub'.pc = "live" => InboxInv'
    BY <1>7, <2>4
  <2> QED
    BY <2>2, <2>5, <2>7, <2>8, <2>9, <2>10, <2>11 DEF PushInv
<1>13. PgInv'
  <2> SUFFICES ASSUME sub.kind = "postgres" PROVE PgInv'
    BY <1>7 DEF PgInv, SameSub
  <2>1. \A i \in 1..Len(sub.seen) :
          sub.seen[i] \in 1..N /\ sub.seen[i] \in 1..(N + 1) /\ log'[sub.seen[i]] = log[sub.seen[i]]
          /\ log[sub.seen[i]].time <= sub.cursor
    <3>1. \A w \in 1..N : w \in 1..(N + 1)
      BY <1>0
    <3> QED
      BY <1>5, <3>1 DEF PgInv
  <2>2. \A w \in 1..(N + 1) : sub.from < log'[w].time /\ log'[w].time <= sub.cursor =>
          \E i \in 1..Len(sub.seen) : log'[sub.seen[i]].time = log'[w].time
    <3> SUFFICES ASSUME NEW w \in 1..(N + 1), sub.from < log'[w].time, log'[w].time <= sub.cursor
                 PROVE  \E i \in 1..Len(sub.seen) : log'[sub.seen[i]].time = log'[w].time
      OBVIOUS
    <3>1. CASE w \in 1..N
      <4>1. \E i \in 1..Len(sub.seen) : log[sub.seen[i]].time = log[w].time
        BY <1>5, <3>1 DEF PgInv
      <4> QED
        BY <1>5, <2>1, <3>1, <4>1
    <3>2. CASE w = N + 1
      <4>1. log'[w].time = time /\ sub.from < time /\ time <= sub.cursor
        BY <1>3, <1>5, <3>2
      <4>2. /\ Len(sub.seen) \in 1..Len(sub.seen)
            /\ sub.cursor = log[sub.seen[Len(sub.seen)]].time
        BY <1>2, <4>1, SubTyped DEF PgInv
      <4>3. log[sub.seen[Len(sub.seen)]].time <= time
        BY <1>2, <2>1, <4>2
      <4>a. log'[sub.seen[Len(sub.seen)]].time = sub.cursor
        BY <2>1, <4>2
      <4>b. time = sub.cursor
        BY <1>0, <1>2, <4>1, <4>2, <4>3
      <4>4. log'[sub.seen[Len(sub.seen)]].time = log'[w].time
        BY <4>1, <4>a, <4>b
      <4> QED
        BY <4>2, <4>4
    <3> QED
      BY <3>1, <3>2, SubTyped
  <2>3. \/ sub.cursor = sub.from
        \/ Len(sub.seen) > 0 /\ sub.cursor = log'[sub.seen[Len(sub.seen)]].time
    BY <2>1, SubTyped DEF PgInv
  <2>4. ~ (sub.pc = "live" /\ link' /\ sub'.inbox = <<>>)
    <3>1. CASE sub.pc = "live" /\ link
      <4>1. sub'.inbox = q
        BY <1>7, <3>1 DEF PgInv
      <4> QED
        BY <1>6, <4>1, SubTyped
    <3> QED
      BY <1>1, <3>1
  <2>5. /\ \A i \in 1..Len(sub'.seen) :
             sub'.seen[i] \in 1..N' /\ log'[sub'.seen[i]].time <= sub'.cursor
        /\ \A w \in 1..N' : sub'.from < log'[w].time /\ log'[w].time <= sub'.cursor =>
             \E i \in 1..Len(sub'.seen) : log'[sub'.seen[i]].time = log'[w].time
    <3>1. N' = N + 1 /\ sub'.seen = sub.seen /\ sub'.from = sub.from /\ sub'.cursor = sub.cursor
      BY <1>5, <1>7 DEF SameSub
    <3>2. \A i \in 1..Len(sub.seen) :
            sub.seen[i] \in 1..(N + 1) /\ log'[sub.seen[i]].time <= sub.cursor
      BY <2>1
    <3> QED
      BY <2>2, <3>1, <3>2
  <2>6. /\ sub'.base = 0
        /\ \A i, j \in 1..Len(sub'.seen) : i < j => sub'.seen[i] < sub'.seen[j]
        /\ sub'.pc \in {"query", "live"} => sub'.registered
    BY <1>7 DEF PgInv
  <2>7. \/ sub'.cursor = sub'.from
        \/ Len(sub'.seen) > 0 /\ sub'.cursor = log'[sub'.seen[Len(sub'.seen)]].time
    BY <1>7, <2>3 DEF SameSub
  <2> QED
    BY <1>7, <2>4, <2>5, <2>6, <2>7 DEF PgInv
<1>14. LossIsReported'
  BY <1>7 DEF LossIsReported, SameSub
<1> QED
  BY <1>8, <1>9, <1>10, <1>12, <1>13, <1>14 DEF SubInv

(* A message without a write is skipped like an event of the snapshot. *)
LEMMA NoiseStep ==
  ASSUME SubInv, ServerNoise
  PROVE  SubInv'
<1> SubType /\ LogInv /\ PullInv /\ PushInv /\ PgInv /\ LossIsReported
  BY DEF SubInv
<1> DEFINE n == Len(sub.inbox)
           q == Append(sub.inbox, Noise)
<1>0. /\ n \in Nat /\ Reached \in Int /\ sub.cursor \in Int /\ N \in Nat
      /\ \A i \in 1..n : sub.inbox[i] \in Nat
  BY SubTyped
<1>1. /\ sub.kind \in {"kdb", "postgres"} /\ sub' = [sub EXCEPT !.inbox = q]
      /\ log' = log /\ link' = link
  BY DEF ServerNoise
<1>2. /\ q \in Seq(Nat) /\ Len(q) = n + 1 /\ q[n + 1] = 0
      /\ \A i \in 1..n : q[i] = sub.inbox[i]
  BY SubTyped, AppendProperties DEF Noise
<1> HIDE DEF q, n
<1>3. /\ sub' \in SubscriberState /\ SameSub /\ sub'.pc = sub.pc /\ sub'.cursor = sub.cursor
      /\ sub'.base = sub.base /\ sub'.seen = sub.seen /\ sub'.registered = sub.registered
      /\ sub'.err = sub.err /\ sub'.inbox = q
  BY <1>1, <1>2 DEF SubType, SubscriberState, SameSub
<1>4. N' = N /\ Reached' = Reached /\ SubType' /\ LogInv' /\ PullInv' /\ LossIsReported'
  BY <1>1, <1>3 DEF N, Reached, SubType, LogInv, PullInv, LossIsReported, SameSub
<1>5. PushInv'
  <2> SUFFICES ASSUME sub.kind = "kdb" PROVE PushInv'
    BY <1>1, <1>3 DEF PushInv, SameSub
  <2>1. /\ sub.cursor \in 0..N /\ \A i \in 1..n : sub.inbox[i] <= N
        /\ \A i \in 1..n : sub.inbox[i] > sub.cursor \/ sub.inbox[i] = Noise
    BY DEF PushInv, n
  <2>2. \A i \in 1..(n + 1) : q[i] <= N /\ (q[i] > sub.cursor \/ q[i] = Noise)
    <3> SUFFICES ASSUME NEW i \in 1..(n + 1)
                 PROVE  q[i] <= N /\ (q[i] > sub.cursor \/ q[i] = Noise)
      OBVIOUS
    <3>1. CASE i \in 1..n
      BY <1>2, <2>1, <3>1
    <3>2. CASE i = n + 1
      BY <1>0, <1>2, <3>2 DEF Noise
    <3> QED
      BY <1>0, <3>1, <3>2
  <2>3. ASSUME sub.pc = "live" PROVE InboxInv'
    <3>a. /\ \A i \in 1..n : sub.inbox[i] > sub.cursor => sub.inbox[i] > Reached
          /\ \A i, j \in 1..n :
               i < j /\ sub.inbox[i] > sub.cursor /\ sub.inbox[j] > sub.cursor
                 => sub.inbox[i] < sub.inbox[j]
          /\ \A i \in 1..n : \A w \in (Reached + 1)..sub.inbox[i] :
               \E k \in 1..i : sub.inbox[k] = w
          /\ link /\ Reached < N => \E i \in 1..n : sub.inbox[i] = N
          /\ Reached >= sub.cursor
      BY <2>3, SubTyped DEF InboxInv, PushInv, n, Reached
    <3>b. \A i \in 1..(n + 1) : q[i] > sub.cursor => i \in 1..n
      BY <1>0, <1>2, <2>1
    <3>1. \A i \in 1..(n + 1) : q[i] > sub.cursor => q[i] > Reached
      BY <1>2, <3>a, <3>b
    <3>2. \A i, j \in 1..(n + 1) : i < j /\ q[i] > sub.cursor /\ q[j] > sub.cursor => q[i] < q[j]
      BY <1>2, <3>a, <3>b
    <3>3. ASSUME NEW i \in 1..(n + 1), NEW w \in (Reached + 1)..q[i]
          PROVE  \E k \in 1..i : q[k] = w
      <4>1. CASE i \in 1..n
        <5>1. PICK k \in 1..i : sub.inbox[k] = w
          BY <1>2, <3>a, <3>3, <4>1
        <5>2. k \in 1..n
          BY <1>0, <4>1
        <5> QED
          BY <1>2, <5>1, <5>2
      <4>2. CASE i = n + 1
        BY <1>0, <1>2, <2>1, <3>a, <3>3, <4>2
      <4> QED
        BY <1>0, <4>1, <4>2
    <3>4. link /\ Reached < N => \E i \in 1..(n + 1) : q[i] = N
      <4>1. \A i \in 1..n : i \in 1..(n + 1)
        BY <1>0
      <4> QED
        BY <1>2, <3>a, <4>1
    <3> QED
      BY <1>1, <1>2, <1>3, <1>4, <3>1, <3>2, <3>3, <3>4 DEF InboxInv
  <2>4. \A i \in 1..Len(sub'.inbox) :
          sub'.inbox[i] <= N' /\ (sub'.inbox[i] > sub'.cursor \/ sub'.inbox[i] = Noise)
    BY <1>2, <1>3, <1>4, <2>2
  <2>5. \A i \in 1..Len(sub'.inbox) : sub'.inbox[i] <= N'
    BY <2>4
  <2>6. \A i \in 1..Len(sub'.inbox) : sub'.inbox[i] > sub'.cursor \/ sub'.inbox[i] = Noise
    BY <2>4
  <2>7. sub.pc # "register"
    BY DEF PushInv, ServerNoise
  <2> QED
    BY <1>3, <1>4, <2>3, <2>5, <2>6, <2>7 DEF PushInv, SameSub
<1>6. PgInv'
  <2>1. q # <<>>
    BY <1>0, <1>2
  <2> QED
    BY <1>1, <1>3, <1>4, <2>1 DEF PgInv, SameSub
<1> QED
  BY <1>4, <1>5, <1>6 DEF SubInv

ReadsInbox ==
  /\ log' = log /\ link' = link
  /\ sub' = [See(IF Head(sub.inbox) > sub.cursor THEN <<Head(sub.inbox)>> ELSE <<>>)
               EXCEPT !.inbox = Tail(@)]

(* The head of the inbox: what lies beyond the snapshot is the next write, *)
(* everything else is skipped.                                             *)
LEMMA InboxRead ==
  ASSUME SubInv, sub.kind \in {"etcd", "pubsub", "kdb"}, sub.pc = "live", sub.inbox # <<>>,
         ReadsInbox
  PROVE  SubInv'
<1> SubType /\ LogInv /\ PullInv /\ PushInv /\ PgInv /\ LossIsReported /\ InboxInv
  BY DEF SubInv, PushInv
<1> DEFINE n == Len(sub.inbox)
           h == Head(sub.inbox)
           q == Tail(sub.inbox)
           s == IF h > sub.cursor THEN Append(sub.seen, h) ELSE sub.seen
<1>0. /\ n \in Nat /\ Reached \in Int /\ sub.cursor \in Int /\ N \in Nat /\ sub.base \in Nat
      /\ \A i \in 1..n : sub.inbox[i] \in Nat
      /\ sub.seen \in Seq(Int) /\ Len(sub.seen) \in Nat
      /\ Reached = sub.cursor + (Len(sub.seen) - sub.base) /\ sub.base <= Len(sub.seen)
  BY SubTyped DEF PushInv, Reached
<1>1. /\ q \in Seq(Nat) /\ Len(q) = n - 1 /\ h \in Nat /\ h = sub.inbox[1] /\ n >= 1
      /\ \A i \in 1..(n - 1) : q[i] = sub.inbox[i + 1]
  BY SubTyped, HeadTailProperties, EmptySeq
<1>2. h > sub.cursor => h = Reached + 1
  <2> SUFFICES ASSUME h > sub.cursor PROVE h = Reached + 1
    OBVIOUS
  <2>1. h > Reached
    BY <1>0, <1>1 DEF InboxInv
  <2>a. 1 \in 1..n /\ Reached + 1 \in (Reached + 1)..sub.inbox[1]
    <3>1. n \in Nat /\ n >= 1 /\ Reached \in Int /\ sub.inbox[1] \in Nat /\ sub.inbox[1] > Reached
      BY <1>0, <1>1, <2>1
    <3> HIDE DEF n
    <3> QED
      BY <3>1
  <2>2. \E k \in 1..1 : sub.inbox[k] = Reached + 1
    BY <2>a DEF InboxInv
  <2> QED
    BY <1>1, <2>2
<1>3. /\ s \in Seq(Int)
      /\ Len(s) = IF h > sub.cursor THEN Len(sub.seen) + 1 ELSE Len(sub.seen)
      /\ \A i \in 1..Len(sub.seen) : s[i] = sub.seen[i]
      /\ h > sub.cursor => s[Len(sub.seen) + 1] = h
  <2> DEFINE t == Append(sub.seen, h)
  <2>0. h \in Int /\ sub.seen \in Seq(Int)
    BY <1>0, <1>1
  <2>1. /\ t \in Seq(Int) /\ Len(t) = Len(sub.seen) + 1 /\ t[Len(sub.seen) + 1] = h
        /\ \A i \in 1..Len(sub.seen) : t[i] = sub.seen[i]
    BY <2>0, AppendProperties
  <2> HIDE DEF t
  <2>2. s = IF h > sub.cursor THEN t ELSE sub.seen
    BY DEF t
  <2> HIDE DEF s
  <2> QED
    BY <2>0, <2>1, <2>2
<1>4. sub' = [sub EXCEPT !.seen = s, !.inbox = q]
  <2>1. CASE h > sub.cursor
    <3>1. sub.seen \o <<h>> = Append(sub.seen, h)
      BY <1>0, <1>1, AppendIsConcat
    <3> QED
      BY <2>1, <3>1 DEF ReadsInbox, See, SubType, SubscriberState
  <2>2. CASE ~(h > sub.cursor)
    <3>1. sub.seen \o <<>> = sub.seen
      BY <1>0, ConcatEmptySeq
    <3> QED
      BY <2>2, <3>1 DEF ReadsInbox, See, SubType, SubscriberState
  <2> QED
    BY <2>1, <2>2
<1>a. {sub.seen[i] : i \in 1..sub.base} = {s[i] : i \in 1..sub.base}
  <2>1. \A i \in 1..sub.base : i \in 1..Len(sub.seen)
    BY <1>0
  <2> QED
    BY <1>3, <2>1
<1>b. log' = log /\ link' = link
  BY DEF ReadsInbox
<1> HIDE DEF q, n, s, h
<1>5. /\ sub' \in SubscriberState /\ SameSub /\ sub'.pc = sub.pc /\ sub'.cursor = sub.cursor
      /\ sub'.base = sub.base /\ sub'.seen = s /\ sub'.registered = sub.registered
      /\ sub'.err = sub.err /\ sub'.inbox = q
  BY <1>1, <1>3, <1>4 DEF SubType, SubscriberState, SameSub
<1>6. N' = N /\ SubType' /\ LogInv' /\ PullInv' /\ PgInv' /\ LossIsReported'
  BY <1>5, <1>b DEF N, SubType, LogInv, PullInv, PgInv, LossIsReported, SameSub
<1>7. Reached' = IF h > sub.cursor THEN h ELSE Reached
  <2>1. CASE h > sub.cursor
    <3>1. Reached' = sub.cursor + ((Len(sub.seen) + 1) - sub.base)
      BY <1>3, <1>5, <2>1 DEF Reached
    <3>2. \A a, b, c \in Int : a + ((b + 1) - c) = (a + (b - c)) + 1
      OBVIOUS
    <3>3. Reached' = Reached + 1
      BY <1>0, <3>1, <3>2
    <3> QED
      BY <1>2, <2>1, <3>3
  <2>2. CASE ~(h > sub.cursor)
    BY <1>3, <1>5, <2>2 DEF Reached
  <2> QED
    BY <2>1, <2>2
<1>8. h <= N /\ Reached <= N /\ sub.cursor <= Reached
  <2>1. 1 \in 1..n
    BY <1>0, <1>1
  <2>2. Reached <= N /\ sub.inbox[1] <= N
    BY <2>1 DEF PushInv, n
  <2> QED
    BY <1>0, <1>1, <2>2
<1>9. /\ Reached <= Reached' /\ Reached' \in Int /\ Reached' <= N
  BY <1>0, <1>1, <1>2, <1>7, <1>8
<1>10. \A i \in 1..(n - 1) : i + 1 \in 1..n /\ 1 < i + 1 /\ 1 \in 1..n
  BY <1>0, <1>1
<1>11. InboxInv'
  <2>a. /\ \A i \in 1..n : sub.inbox[i] > sub.cursor => sub.inbox[i] > Reached
        /\ \A i, j \in 1..n :
             i < j /\ sub.inbox[i] > sub.cursor /\ sub.inbox[j] > sub.cursor
               => sub.inbox[i] < sub.inbox[j]
        /\ \A i \in 1..n : \A w \in (Reached + 1)..sub.inbox[i] :
             \E k \in 1..i : sub.inbox[k] = w
        /\ link /\ Reached < N => \E i \in 1..n : sub.inbox[i] = N
    BY DEF InboxInv, n
  <2>1. \A i \in 1..(n - 1) : q[i] > sub.cursor => q[i] > Reached'
    BY <1>1, <1>7, <1>10, <2>a
  <2>2. \A i, j \in 1..(n - 1) : i < j /\ q[i] > sub.cursor /\ q[j] > sub.cursor => q[i] < q[j]
    <3>1. \A i, j \in 1..(n - 1) : i < j => i + 1 < j + 1
      BY <1>0
    <3> QED
      BY <1>1, <1>10, <2>a, <3>1
  <2>b. \A w \in Int : w > Reached' => sub.inbox[1] # w
    BY <1>0, <1>1, <1>2, <1>7, <1>8
  <2>3. ASSUME NEW i \in 1..(n - 1), NEW w \in (Reached' + 1)..q[i]
        PROVE  \E k \in 1..i : q[k] = w
    <3>1. w \in Int /\ w > Reached' /\ w \in (Reached + 1)..sub.inbox[i + 1]
      <4>1. i + 1 \in 1..n /\ q[i] = sub.inbox[i + 1] /\ sub.inbox[i + 1] \in Nat
        BY <1>0, <1>1, <1>10
      <4>2. \A a, b \in Int, c \in Nat : a <= b =>
              \A x \in (b + 1)..c : x \in Int /\ x > b /\ x \in (a + 1)..c
        OBVIOUS
      <4>3. w \in (Reached' + 1)..sub.inbox[i + 1]
        BY <2>3, <4>1
      <4> QED
        BY <1>0, <1>9, <4>1, <4>2, <4>3
    <3>2. PICK k \in 1..(i + 1) : sub.inbox[k] = w
      BY <1>10, <2>a, <3>1
    <3>3. k # 1
      BY <2>b, <3>1, <3>2
    <3>4. k - 1 \in 1..i /\ k - 1 \in 1..(n - 1) /\ (k - 1) + 1 = k
      BY <1>0, <3>3
    <3>5. q[k - 1] = w
      BY <1>1, <3>2, <3>4
    <3> QED
      BY <3>4, <3>5
  <2>4. ASSUME link, Reached' < N PROVE \E i \in 1..(n - 1) : q[i] = N
    <3>1. PICK k \in 1..n : sub.inbox[k] = N
      BY <1>0, <1>9, <2>4, <2>a
    <3>2. k # 1
      BY <1>0, <2>b, <2>4, <3>1, <1>9
    <3>3. k - 1 \in 1..(n - 1) /\ (k - 1) + 1 = k
      BY <1>0, <3>2
    <3>4. q[k - 1] = N
      BY <1>1, <3>1, <3>3
    <3> QED
      BY <3>3, <3>4
  <2> QED
    <3>1. n - 1 = Len(sub'.inbox) /\ sub'.inbox = q /\ sub'.cursor = sub.cursor /\ N' = N
      BY <1>1, <1>5, <1>6
    <3>2. \A i \in 1..Len(sub'.inbox) : sub'.inbox[i] > sub'.cursor => sub'.inbox[i] > Reached'
      BY <2>1, <3>1
    <3>3. \A i, j \in 1..Len(sub'.inbox) :
            i < j /\ sub'.inbox[i] > sub'.cursor /\ sub'.inbox[j] > sub'.cursor
              => sub'.inbox[i] < sub'.inbox[j]
      BY <2>2, <3>1
    <3>a. \A i \in 1..(n - 1) : \A w \in (Reached' + 1)..q[i] : \E k \in 1..i : q[k] = w
      BY <2>3
    <3>4. \A i \in 1..Len(sub'.inbox) : \A w \in (Reached' + 1)..sub'.inbox[i] :
            \E k \in 1..i : sub'.inbox[k] = w
      BY <3>1, <3>a
    <3>5. link' /\ Reached' < N' => \E i \in 1..Len(sub'.inbox) : sub'.inbox[i] = N'
      BY <1>b, <2>4, <3>1
    <3> HIDE <3>1
    <3> QED
      BY <3>2, <3>3, <3>4, <3>5 DEF InboxInv
<1>12. \A i \in (sub.base + 1)..Len(s) : s[i] = sub.cursor + (i - sub.base)
  <2> SUFFICES ASSUME NEW i \in (sub.base + 1)..Len(s)
               PROVE  s[i] = sub.cursor + (i - sub.base)
    OBVIOUS
  <2>1. CASE i <= Len(sub.seen)
    <3>1. i \in (sub.base + 1)..Len(sub.seen) /\ i \in 1..Len(sub.seen)
      BY <1>0, <2>1
    <3> QED
      BY <1>3, <3>1 DEF PushInv
  <2>2. CASE ~(i <= Len(sub.seen))
    <3>1. h > sub.cursor /\ i = Len(sub.seen) + 1
      BY <1>0, <1>3, <2>2
    <3>2. s[i] = h /\ h = Reached + 1
      BY <1>2, <1>3, <3>1
    <3>3. \A a, b, c \in Int : a + ((b + 1) - c) = (a + (b - c)) + 1
      OBVIOUS
    <3>4. sub.cursor + ((Len(sub.seen) + 1) - sub.base) = Reached + 1
      <4>1. sub.cursor \in Int /\ Len(sub.seen) \in Int /\ sub.base \in Int
        BY <1>0
      <4>2. Reached = sub.cursor + (Len(sub.seen) - sub.base)
        BY <1>0
      <4> QED
        BY <3>3, <4>1, <4>2
    <3> QED
      BY <3>1, <3>2, <3>4
  <2> QED
    BY <2>1, <2>2
<1>13. \A i \in 1..sub.base : s[i] = sub.seen[i]
  <2>1. \A i \in 1..sub.base : i \in 1..Len(sub.seen)
    BY <1>0
  <2> QED
    BY <1>3, <2>1
<1>14. sub.base <= Len(s)
  BY <1>0, <1>3
<1>15. \A i \in 1..(n - 1) : /\ q[i] <= N
                             /\ sub.kind # "etcd" =>
                                  q[i] > sub.cursor \/ (q[i] = Noise /\ sub.kind = "kdb")
  BY <1>1, <1>10 DEF PushInv, n
<1>16. Present(sub.cursor)' = Present(sub.cursor)
  BY <1>5, <1>b DEF Present
<1>c. n - 1 = Len(sub'.inbox)
  BY <1>1, <1>5
<1>17. PushInv'
  <2>1. \A i \in 1..Len(sub'.inbox) : sub'.inbox[i] <= N'
    BY <1>5, <1>6, <1>15, <1>c
  <2>2. sub'.kind # "etcd" => \A i \in 1..Len(sub'.inbox) :
          sub'.inbox[i] > sub'.cursor \/ (sub'.inbox[i] = Noise /\ sub'.kind = "kdb")
    BY <1>5, <1>15, <1>c DEF SameSub
  <2>3. /\ \A i \in 1..sub'.base : sub'.seen[i] \in 1..sub'.cursor
        /\ \A i, j \in 1..sub'.base : i # j => sub'.seen[i] # sub'.seen[j]
    BY <1>5, <1>13 DEF PushInv
  <2>4. \A i \in (sub'.base + 1)..Len(sub'.seen) : sub'.seen[i] = sub'.cursor + (i - sub'.base)
    BY <1>5, <1>12
  <2>5. sub'.cursor \in 0..N' /\ sub'.base <= Len(sub'.seen) /\ Reached' <= N'
        /\ (sub'.kind # "etcd" => sub'.base = 0)
    BY <1>5, <1>6, <1>9, <1>14 DEF PushInv, SameSub
  <2>6. sub'.kind = "etcd" => {sub'.seen[i] : i \in 1..sub'.base} = Present(sub.cursor)'
    <3>1. sub.kind = "etcd" => {sub.seen[i] : i \in 1..sub.base} = Present(sub.cursor)
      BY DEF PushInv
    <3>2. {sub'.seen[i] : i \in 1..sub'.base} = {s[i] : i \in 1..sub.base}
      BY <1>5
    <3> QED
      BY <1>5, <1>16, <1>a, <3>1, <3>2 DEF SameSub
  <2>7. sub'.pc = "live" /\ sub'.registered
    BY <1>5 DEF PushInv
  <2> QED
    BY <1>11, <2>1, <2>2, <2>3, <2>4, <2>5, <2>6, <2>7 DEF PushInv
<1> QED
  BY <1>6, <1>17 DEF SubInv

(* A function into a finite set that repeats no value, and has as many     *)
(* arguments as the set has members, has every member as a value.          *)
LEMMA AllOf ==
  ASSUME NEW S, IsFiniteSet(S), NEW f \in [1..Cardinality(S) -> S],
         \A i, j \in 1..Cardinality(S) : i # j => f[i] # f[j]
  PROVE  {f[i] : i \in 1..Cardinality(S)} = S
<1>1. Cardinality(S) \in Nat
  BY FS_CardinalityType
<1> DEFINE D == 1..Cardinality(S)
<1>2. IsFiniteSet(D) /\ Cardinality(D) = Cardinality(S)
  BY <1>1, FS_Interval
<1>3. f \in Injection(D, S)
  BY DEF Injection, IsInjective
<1> HIDE DEF D
<1>4. f \in Surjection(D, S)
  BY <1>2, <1>3, FS_Injection
<1>5. \A x \in S : \E i \in D : f[i] = x
  BY <1>4 DEF Surjection
<1> QED
  BY <1>5 DEF D

(* The pairs of the snapshot: one for each key that is present. *)
LEMMA PresentFacts ==
  ASSUME SubType, NEW n \in 0..N
  PROVE  /\ Present(n) \subseteq 1..n /\ IsFiniteSet(Present(n))
<1>1. n \in Int /\ Present(n) \subseteq 1..n
  BY SubTyped DEF Present
<1> QED
  BY <1>1, FS_Interval, FS_Subset

LEMMA EtcdStep ==
  ASSUME SubInv, EtcdWatch \/ EtcdGet
  PROVE  SubInv'
<1> SubType /\ LogInv /\ PullInv /\ PushInv /\ PgInv /\ LossIsReported
  BY DEF SubInv
<1>0. /\ N \in Nat /\ sub.kind = "etcd" /\ sub.seen = <<>> /\ sub.base = 0
      /\ sub.cursor \in 0..N /\ \A i \in 1..Len(sub.inbox) : sub.inbox[i] <= N
      /\ log' = log /\ link' = link
  BY SubTyped DEF EtcdWatch, EtcdGet, SubAt, PushInv
<1>n. N' = N
  BY <1>0 DEF N
<1>1. CASE EtcdWatch
  <2> DEFINE q == <<0>>
  <2>1. q \in Seq(Nat) /\ Len(q) = 1 /\ q[1] = 0
    OBVIOUS
  <2>2. sub' = [sub EXCEPT !.pc = "get", !.registered = TRUE, !.inbox = q]
    BY <1>1 DEF EtcdWatch, Noise
  <2> HIDE DEF q
  <2>3. /\ sub' \in SubscriberState /\ SameSub /\ sub'.pc = "get" /\ sub'.cursor = sub.cursor
        /\ sub'.base = sub.base /\ sub'.seen = sub.seen /\ sub'.inbox = q
        /\ sub'.registered = TRUE
    BY <2>1, <2>2 DEF SubType, SubscriberState, SubPcs, SameSub
  <2>4. SubType' /\ LogInv' /\ PullInv' /\ PgInv' /\ LossIsReported'
    BY <1>0, <2>3 DEF SubType, LogInv, PullInv, PgInv, LossIsReported, SameSub, N
  <2>5. \A i \in 1..Len(q) : q[i] <= N
    BY <1>0, <2>1
  <2>6. Reached' = Reached
    BY <2>3 DEF Reached
  <2>7. PushInv'
    BY <1>0, <1>n, <2>3, <2>5, <2>6 DEF PushInv, SameSub
  <2> QED
    BY <2>4, <2>7 DEF SubInv
<1>2. CASE EtcdGet
  <2> DEFINE C == Cardinality(Present(N))
  <2>1. PICK order \in {s \in [1..C -> Present(N)] :
                          \A i, j \in DOMAIN s : i < j => log[s[i]].key < log[s[j]].key} :
          sub' = [See(order) EXCEPT !.pc = "live", !.cursor = N, !.base = Len(order)]
    BY <1>2 DEF EtcdGet
  <2>2. /\ Present(N) \subseteq 1..N /\ IsFiniteSet(Present(N)) /\ C \in Nat
    BY <1>0, PresentFacts, FS_CardinalityType
  <2> HIDE DEF C
  <2>3. /\ order \in [1..C -> Present(N)] /\ DOMAIN order = 1..C
        /\ \A i, j \in 1..C : i < j => log[order[i]].key < log[order[j]].key
    BY <2>1
  <2>4. order \in Seq(Int) /\ Len(order) = C /\ \A i \in 1..C : order[i] \in 1..N
    <3>1. order \in [1..C -> Int]
      BY <1>0, <2>2, <2>3
    <3> QED
      BY <2>2, <2>3, <3>1, SeqDef
  <2>5. \A i, j \in 1..C : i # j => order[i] # order[j]
    <3> SUFFICES ASSUME NEW i \in 1..C, NEW j \in 1..C, i < j, order[i] = order[j] PROVE FALSE
      BY <2>2
    <3>1. log[order[i]].key \in Int
      BY <2>4, SubTyped, SubscriptionsAssumption
    <3> QED
      BY <2>3, <3>1
  <2>6. {order[i] : i \in 1..C} = Present(N)
    BY <2>2, <2>3, <2>5, AllOf DEF C
  <2>7. sub.seen \o order = order
    BY <1>0, <2>4, ConcatEmptySeq
  <2>8. sub' = [sub EXCEPT !.seen = order, !.pc = "live", !.cursor = N, !.base = C]
    BY <2>1, <2>4, <2>7 DEF See, SubType, SubscriberState
  <2>9. /\ sub' \in SubscriberState /\ SameSub /\ sub'.pc = "live" /\ sub'.cursor = N
        /\ sub'.base = C /\ sub'.seen = order /\ sub'.inbox = sub.inbox
        /\ sub'.registered = sub.registered
    <3>1. N \in Int
      BY <1>0
    <3> HIDE <1>0
    <3> QED
      BY <2>2, <2>4, <2>8, <3>1 DEF SubType, SubscriberState, SubPcs, SameSub
  <2>10. SubType' /\ LogInv' /\ PullInv' /\ PgInv' /\ LossIsReported'
    BY <1>0, <2>9 DEF SubType, LogInv, PullInv, PgInv, LossIsReported, SameSub, N
  <2>11. Reached' = N
    <3>1. Reached' = N + (C - C)
      BY <2>4, <2>9 DEF Reached
    <3> QED
      BY <1>0, <2>2, <3>1
  <2>12. InboxInv'
    <3>1. Len(sub.inbox) \in Nat /\ \A i \in 1..Len(sub.inbox) : sub.inbox[i] \in Nat
      BY SubTyped
    <3>2. \A i \in 1..Len(sub.inbox) : ~(sub.inbox[i] > N) /\ (N + 1)..sub.inbox[i] = {}
      BY <1>0, <3>1
    <3> QED
      BY <1>0, <1>n, <2>9, <2>11, <3>2 DEF InboxInv
  <2>13. Present(sub.cursor)' = Present(N)
    BY <1>0, <2>9 DEF Present
  <2>14. sub.registered
    BY <1>2 DEF EtcdGet, SubAt, PushInv
  <2>15. \A i \in (C + 1)..Len(order) : FALSE
    BY <2>2, <2>4
  <2>16. /\ sub'.cursor \in 0..N' /\ sub'.base <= Len(sub'.seen) /\ Reached' <= N'
         /\ \A i \in 1..Len(sub'.inbox) : sub'.inbox[i] <= N'
    BY <1>0, <1>n, <2>2, <2>4, <2>9, <2>11
  <2>17. /\ \A i \in 1..sub'.base : sub'.seen[i] \in 1..sub'.cursor
         /\ \A i, j \in 1..sub'.base : i # j => sub'.seen[i] # sub'.seen[j]
         /\ \A i \in (sub'.base + 1)..Len(sub'.seen) : sub'.seen[i] = sub'.cursor + (i - sub'.base)
    BY <2>4, <2>5, <2>9, <2>15
  <2>18. {sub'.seen[i] : i \in 1..sub'.base} = Present(sub.cursor)'
    BY <2>6, <2>9, <2>13
  <2>19. sub'.registered /\ sub'.kind = "etcd" /\ sub'.pc = "live"
    BY <1>0, <2>9, <2>14 DEF SameSub
  <2>20. PushInv'
    BY <2>12, <2>16, <2>17, <2>18, <2>19 DEF PushInv
  <2> QED
    BY <2>10, <2>20 DEF SubInv
<1> QED
  BY <1>1, <1>2

Registers == sub' = [sub EXCEPT !.pc = "live", !.registered = TRUE, !.cursor = N]

LEMMA RegisterStep ==
  ASSUME SubInv, RedisSubscribe \/ KdbSubscribe
  PROVE  SubInv'
<1> SubType /\ LogInv /\ PullInv /\ PushInv /\ PgInv /\ LossIsReported
  BY DEF SubInv
<1>0. /\ N \in Nat /\ sub.kind \in {"pubsub", "kdb"} /\ sub.pc = "register"
      /\ log' = log /\ link' = link
      /\ sub' = SubFail \/ Registers
  BY SubTyped DEF RedisSubscribe, KdbSubscribe, SubAt, Registers
<1>1. CASE sub' = SubFail
  BY <1>0, <1>1, SubStops DEF SubType
<1>2. CASE Registers
  <2>0. /\ sub.seen = <<>> /\ sub.base = 0 /\ sub.inbox = <<>>
    BY <1>0 DEF PushInv
  <2>1. /\ sub' \in SubscriberState /\ SameSub /\ sub'.pc = "live" /\ sub'.cursor = N
        /\ sub'.base = 0 /\ sub'.seen = <<>> /\ sub'.inbox = <<>> /\ sub'.registered = TRUE
    <3>1. N \in Int
      BY <1>0
    <3>2. /\ sub' \in SubscriberState /\ SameSub /\ sub'.pc = "live" /\ sub'.cursor = N
          /\ sub'.base = sub.base /\ sub'.seen = sub.seen /\ sub'.inbox = sub.inbox
          /\ sub'.registered = TRUE
      BY <1>2, <3>1 DEF SubType, SubscriberState, SubPcs, SameSub, Registers
    <3> QED
      BY <2>0, <3>2
  <2>2. N' = N /\ Len(sub'.seen) = 0 /\ Len(sub'.inbox) = 0
    BY <1>0, <2>1 DEF N
  <2>3. SubType' /\ LogInv' /\ PullInv' /\ PgInv' /\ LossIsReported'
    BY <1>0, <2>1 DEF SubType, LogInv, PullInv, PgInv, LossIsReported, SameSub, N
  <2>4. Reached' = N
    BY <1>0, <2>1, <2>2 DEF Reached
  <2>5. InboxInv'
    BY <1>0, <2>2, <2>4 DEF InboxInv
  <2>6. PushInv'
    BY <1>0, <2>1, <2>2, <2>4, <2>5 DEF PushInv, SameSub
  <2> QED
    BY <2>3, <2>6 DEF SubInv
<1> QED
  BY <1>0, <1>1, <1>2

(* The reads of the pushed subscriptions. *)
LEMMA ReadStep ==
  ASSUME SubInv, EtcdNext \/ PubSubNext \/ KdbReceive
  PROVE  SubInv'
<1> SubType /\ PushInv
  BY DEF SubInv
<1>0. /\ sub.kind \in {"etcd", "pubsub", "kdb"} /\ sub.pc = "live" /\ log' = log /\ link' = link
  BY DEF EtcdNext, PubSubNext, KdbReceive, SubAt
<1>1. CASE sub' = SubFail
  BY <1>0, <1>1, SubStops DEF SubType
<1>2. CASE sub' # SubFail
  <2>1. sub.inbox # <<>>
    BY <1>2 DEF EtcdNext, PubSubNext, KdbReceive
  <2> DEFINE h == Head(sub.inbox)
             none == <<>>
             one == <<h>>
  <2>2. h \in Nat /\ h = sub.inbox[1] /\ 1 \in 1..Len(sub.inbox) /\ sub.cursor \in Nat
    BY <1>0, <2>1, SubTyped, HeadTailProperties, EmptySeq DEF PushInv
  <2>3. /\ sub.seen \in Seq(Int) /\ sub.seen \o none = sub.seen
    BY SubTyped, ConcatEmptySeq
  <2>a. /\ ~(h > sub.cursor) /\ sub' = [See(none) EXCEPT !.inbox = Tail(@)] => ReadsInbox
        /\ h > sub.cursor /\ sub' = [See(one) EXCEPT !.inbox = Tail(@)] => ReadsInbox
    BY <1>0 DEF ReadsInbox
  <2>4. CASE EtcdNext
    <3>1. sub' = [See(IF h = 0 \/ h <= sub.cursor THEN none ELSE one) EXCEPT !.inbox = Tail(@)]
      BY <2>1, <2>4 DEF EtcdNext, Noise, InSnapshot
    <3>2. h = 0 \/ h <= sub.cursor <=> ~(h > sub.cursor)
      BY <2>2
    <3> QED
      BY <1>0, <2>1, <2>a, <3>1, <3>2, InboxRead
  <2>5. CASE PubSubNext
    <3>1. sub' = [See(one) EXCEPT !.inbox = Tail(@)]
      BY <2>1, <2>5 DEF PubSubNext
    <3>2. h > sub.cursor
      BY <2>2, <2>5 DEF PushInv, PubSubNext, SubAt
    <3> QED
      BY <1>0, <2>1, <2>a, <3>1, <3>2, InboxRead
  <2>6. CASE KdbReceive
    <3>1. CASE h = 0
      <4>1. sub' = [sub EXCEPT !.inbox = Tail(@)]
        BY <2>1, <2>6, <3>1 DEF KdbReceive, Noise
      <4>2. sub' = [See(none) EXCEPT !.inbox = Tail(@)]
        BY <2>3, <4>1 DEF See, SubType, SubscriberState
      <4> QED
        BY <1>0, <2>1, <2>2, <2>a, <3>1, <4>2, InboxRead
    <3>2. CASE h # 0
      <4>1. sub' = [See(one) EXCEPT !.inbox = Tail(@)]
        BY <1>2, <2>1, <2>6, <3>2 DEF KdbReceive, Noise
      <4>2. h > sub.cursor
        BY <2>2, <2>6, <3>2 DEF PushInv, KdbReceive, SubAt, Noise
      <4> QED
        BY <1>0, <2>1, <2>a, <4>1, <4>2, InboxRead
    <3> QED
      BY <3>1, <3>2
  <2> QED
    BY <2>4, <2>5, <2>6
<1> QED
  BY <1>1, <1>2

(* Every non-empty set of naturals has a least one. *)
LEMMA LeastOf ==
  ASSUME NEW T \in SUBSET Nat, T # {}
  PROVE  \E x \in T : \A y \in T : x <= y
<1>1. IsWellFoundedOn(OpToRel(<, Nat), Nat)
  BY NatLessThanWellFounded
<1>2. \E x \in T : \A y \in T : ~(<<y, x>> \in OpToRel(<, Nat))
  BY <1>1, WFMin
<1>3. ASSUME NEW x \in Nat, NEW y \in Nat, ~(<<y, x>> \in OpToRel(<, Nat)) PROVE x <= y
  BY <1>3 DEF OpToRel
<1> QED
  BY <1>2, <1>3

LEMMA MinOf ==
  ASSUME NEW T \in SUBSET Nat, T # {}
  PROVE  Min(T) \in T /\ \A y \in T : Min(T) <= y
<1>1. \E x \in T : \A y \in T : x <= y
  BY LeastOf
<1> QED
  BY <1>1 DEF Min

-----------------------------------------------------------------------------
(* The subscriptions that pull from a cursor *)

Pulls(to) ==
  /\ log' = log /\ link' = link
  /\ sub' \in SubscriberState /\ SameSub /\ sub'.pc = "live" /\ sub'.cursor = to
  /\ sub'.seen = sub.seen \o Upto(sub.cursor, to)

LEMMA PullStep ==
  ASSUME SubInv, sub.kind \in {"xread", "kafka", "fluvio"}, NEW to \in Int,
         sub.cursor <= to, to <= N, Pulls(to)
  PROVE  SubInv'
<1> SubType /\ LogInv /\ PullInv /\ LossIsReported
  BY DEF SubInv
<1>0. sub.from \in Int /\ sub.cursor \in Int /\ N \in Nat /\ sub.from <= sub.cursor
      /\ sub.seen = Upto(sub.from, sub.cursor)
  BY SubTyped DEF PullInv
<1>1. /\ log' = log /\ link' = link
      /\ sub' \in SubscriberState /\ SameSub /\ sub'.pc = "live" /\ sub'.cursor = to
  BY DEF Pulls
<1>2. sub'.seen = Upto(sub.from, to)
  <2>1. sub'.seen = sub.seen \o Upto(sub.cursor, to)
    BY DEF Pulls
  <2>2. Upto(sub.from, sub.cursor) \o Upto(sub.cursor, to) = Upto(sub.from, to)
    BY <1>0, UptoGrows
  <2> QED
    BY <1>0, <2>1, <2>2
<1>3. N' = N /\ sub.from <= to
  BY <1>0, <1>1 DEF N
<1>4. SubType' /\ LogInv'
  BY <1>1, <1>3 DEF SubType, LogInv
<1>5. PullInv'
  BY <1>1, <1>2, <1>3 DEF PullInv, SameSub
<1>6. PushInv' /\ PgInv' /\ LossIsReported'
  BY <1>1 DEF PushInv, PgInv, LossIsReported, SameSub
<1> QED
  BY <1>4, <1>5, <1>6 DEF SubInv

LEMMA CursorStep ==
  ASSUME SubInv, XRange \/ XRead \/ KafkaRecv \/ FluvioNext
  PROVE  SubInv'
<1> SubType /\ PullInv
  BY DEF SubInv
<1>0. /\ N \in Nat /\ sub.cursor \in Int /\ sub.from \in Int /\ sub.seen \in Seq(Int)
      /\ log' = log /\ link' = link /\ sub.kind \in {"xread", "kafka", "fluvio"}
  BY SubTyped DEF XRange, XRead, KafkaRecv, FluvioNext, SubAt
<1> DEFINE all == Upto(sub.cursor, N)
           one == Upto(sub.cursor, sub.cursor + 1)
<1>1. /\ all \in Seq(Int) /\ one \in Seq(Int)
      /\ sub.seen \o all \in Seq(Int) /\ sub.seen \o one \in Seq(Int)
  <2>1. sub.cursor + 1 \in Int /\ N \in Int
    BY <1>0
  <2>2. all \in Seq(Int) /\ one \in Seq(Int)
    BY <1>0, <2>1, UptoOf
  <2> QED
    BY <1>0, <2>2, ConcatProperties
<1>2. <<sub.cursor + 1>> = one
  BY <1>0, UptoOne
<1> HIDE DEF one, all
<1> DEFINE a == sub.seen \o all
           o == sub.seen \o one
<1>a. a \in Seq(Int) /\ o \in Seq(Int)
  BY <1>1
<1>n. N \in Nat /\ N \in Int /\ sub.cursor + 1 \in Int
  BY <1>0
<1>3. CASE XRange
  <2>1. sub.pc = "xrange" /\ sub.cursor = 0
    BY <1>0, <1>3 DEF XRange, SubAt, PullInv
  <2>2. sub' = [sub EXCEPT !.seen = a, !.pc = "live", !.cursor = N, !.base = N]
    BY <1>3, <2>1 DEF XRange, See, all, SubType, SubscriberState
  <2> HIDE DEF a
  <2>3. /\ sub' \in SubscriberState /\ SameSub /\ sub'.pc = "live" /\ sub'.cursor = N
        /\ sub'.seen = a
    BY <1>n, <1>a, <2>2 DEF SubType, SubscriberState, SubPcs, SameSub
  <2>4. Pulls(N)
    BY <1>0, <2>3 DEF Pulls, a, all
  <2> QED
    BY <1>0, <2>1, <2>4, PullStep
<1>4. CASE XRead /\ link
  <2>1. sub.pc = "live" /\ N > sub.cursor /\ sub' = [sub EXCEPT !.seen = a, !.cursor = N]
    BY <1>4 DEF XRead, SubAt, See, all, SubType, SubscriberState
  <2> HIDE DEF a
  <2>3. /\ sub' \in SubscriberState /\ SameSub /\ sub'.pc = "live" /\ sub'.cursor = N
        /\ sub'.seen = a
    BY <1>n, <1>a, <2>1 DEF SubType, SubscriberState, SubPcs, SameSub
  <2>4. Pulls(N)
    BY <1>0, <2>3 DEF Pulls, a, all
  <2> QED
    BY <1>0, <2>1, <2>4, PullStep
<1>5. CASE sub' = SubFail \/ (sub' = SubEnd /\ sub.kind = "fluvio")
  BY <1>0, <1>5, SubStops DEF SubType
<1>6. CASE /\ sub.pc = "live" /\ N > sub.cursor
           /\ sub' = [See(<<sub.cursor + 1>>) EXCEPT !.cursor = @ + 1]
  <2>1. sub' = [sub EXCEPT !.seen = o, !.cursor = sub.cursor + 1]
    BY <1>2, <1>6 DEF See, SubType, SubscriberState
  <2> HIDE DEF o
  <2>3. /\ sub' \in SubscriberState /\ SameSub /\ sub'.pc = "live" /\ sub'.cursor = sub.cursor + 1
        /\ sub'.seen = o
    <3>1. sub.pc = "live"
      BY <1>6
    <3> QED
      BY <1>n, <1>a, <2>1, <3>1 DEF SubType, SubscriberState, SubPcs, SameSub
  <2>4. Pulls(sub.cursor + 1)
    BY <1>0, <2>3 DEF Pulls, o, one
  <2>5. sub.cursor + 1 \in Int /\ sub.cursor <= sub.cursor + 1 /\ sub.cursor + 1 <= N
    BY <1>0, <1>6
  <2> QED
    BY <1>0, <2>4, <2>5, PullStep
<1>7. CASE sub' = sub
  BY <1>0, <1>7 DEF SubInv, SubType, LogInv, PullInv, PushInv, PgInv, LossIsReported, N, SubAt
<1> QED
  BY <1>3, <1>4, <1>5, <1>6, <1>7 DEF XRead, KafkaRecv, FluvioNext, SubAt

-----------------------------------------------------------------------------
(* postgres_sub *)

LEMMA PgQueryStep ==
  ASSUME SubInv, PgQuery
  PROVE  SubInv'
<1> SubType /\ LogInv /\ PullInv /\ PushInv /\ PgInv /\ LossIsReported
  BY DEF SubInv
<1>0. /\ N \in Nat /\ sub.cursor \in Int /\ sub.from \in Int /\ sub.seen \in Seq(Int)
      /\ Len(sub.seen) \in Nat /\ \A i \in 1..Len(sub.seen) : sub.seen[i] \in Int
      /\ \A w \in 1..N : log[w].time \in Nat
  BY SubTyped, SMTT(30)
<1>1. PICK old \in 0..N :
        LET bad  == {w \in (old + 1)..N : ~ log[w].ok}
            last == IF bad = {} THEN N ELSE Min(bad) - 1
        IN  /\ SubAt("postgres", "query") /\ link
            /\ \A w \in 1..N : log[w].time > sub.cursor <=> w > old
            /\ sub' = [See(Upto(old, last))
                         EXCEPT !.cursor = IF last > old THEN log[last].time ELSE @,
                                !.pc = IF bad = {} THEN "live" ELSE "ended",
                                !.err = bad # {}]
            /\ UNCHANGED <<log, link, noise>>
  BY DEF PgQuery
<1> DEFINE bad  == {w \in (old + 1)..N : ~ log[w].ok}
           last == IF bad = {} THEN N ELSE Min(bad) - 1
           u == Upto(old, last)
           s == sub.seen \o u
           c == IF last > old THEN log[last].time ELSE sub.cursor
           pc == IF bad = {} THEN "live" ELSE "ended"
           e == bad # {}
           L == Len(sub.seen)
<1>2. /\ sub.kind = "postgres" /\ sub.pc = "query" /\ log' = log /\ link' = link
      /\ \A w \in 1..N : log[w].time > sub.cursor <=> w > old
  BY <1>1 DEF SubAt
<1>3. sub' = [sub EXCEPT !.seen = s, !.cursor = c, !.pc = pc, !.err = e]
  BY <1>1 DEF See, SubType, SubscriberState
<1>4. last \in old..N /\ (bad = {} => last = N)
  <2>1. CASE bad = {}
    BY <1>0, <2>1
  <2>2. CASE bad # {}
    <3>1. bad \in SUBSET Nat
      BY <1>0
    <3> HIDE DEF bad
    <3>2. Min(bad) \in bad
      BY <2>2, <3>1, MinOf
    <3>3. Min(bad) \in (old + 1)..N
      BY <3>2 DEF bad
    <3> QED
      BY <1>0, <2>2, <3>3
  <2> QED
    BY <2>1, <2>2
<1>5. /\ pc \in SubPcs /\ e \in BOOLEAN /\ (pc = "ended" => e) /\ (pc = "live" => last = N)
      /\ pc \in {"live", "ended"}
  BY <1>4 DEF SubPcs
<1> HIDE DEF bad, pc, e
<1> HIDE DEF last
<1>k. old \in Nat /\ last \in Nat /\ old <= last /\ last <= N /\ N \in Nat
  BY <1>0, <1>4
<1>6. /\ u \in Seq(Int) /\ Len(u) = last - old /\ \A i \in 1..(last - old) : u[i] = old + i
  <2>1. old \in Int /\ last \in Int /\ old <= last
    BY <1>k
  <2>2. Upto(old, last) \in Seq(Int) /\ Len(Upto(old, last)) = last - old
        /\ \A i \in 1..Len(Upto(old, last)) : Upto(old, last)[i] = old + i
    BY <2>1, UptoOf
  <2> QED
    BY <2>2
<1> HIDE DEF u
<1>7. /\ s \in Seq(Int) /\ Len(s) = L + (last - old)
      /\ \A i \in 1..(L + (last - old)) : s[i] = IF i <= L THEN sub.seen[i] ELSE u[i - L]
  <2>1. /\ sub.seen \o u \in Seq(Int) /\ Len(sub.seen \o u) = Len(sub.seen) + Len(u)
        /\ \A i \in 1..(Len(sub.seen) + Len(u)) :
             (sub.seen \o u)[i] = IF i <= Len(sub.seen) THEN sub.seen[i] ELSE u[i - Len(sub.seen)]
    BY <1>0, <1>6, ConcatProperties
  <2> QED
    BY <1>6, <2>1
<1>8. /\ c \in Int
      /\ last > old => c = log[last].time
      /\ ~(last > old) => c = sub.cursor
  BY <1>0, <1>4
<1> HIDE DEF s, c
<1>9. /\ sub' \in SubscriberState /\ SameSub /\ sub'.pc = pc /\ sub'.cursor = c
      /\ sub'.base = sub.base /\ sub'.seen = s /\ sub'.err = e
      /\ sub'.registered = sub.registered
  BY <1>3, <1>5, <1>7, <1>8 DEF SubType, SubscriberState, SameSub
<1>10. N' = N
  BY <1>2 DEF N
<1>11. SubType' /\ LogInv' /\ PullInv' /\ PushInv' /\ LossIsReported'
  BY <1>2, <1>5, <1>9, <1>10 DEF SubType, LogInv, PullInv, PushInv, LossIsReported, SameSub
<1> HIDE DEF L
<1>l. L = Len(sub.seen) /\ L \in Nat
  BY <1>0 DEF L
<1>12. c >= sub.cursor /\ \A w \in 1..N : w <= last => log[w].time <= c
  <2>1. CASE last > old
    <3>1. last \in 1..N
      BY <1>0, <1>4, <2>1
    <3>2. log[last].time > sub.cursor /\ \A w \in 1..N : w <= last => log[w].time <= log[last].time
      BY <1>2, <2>1, <3>1 DEF LogInv
    <3> QED
      BY <1>0, <1>8, <2>1, <3>1, <3>2
  <2>2. CASE ~(last > old)
    BY <1>0, <1>2, <1>4, <1>8, <2>2
  <2> QED
    BY <2>1, <2>2
<1>13. \A i \in 1..L : /\ sub.seen[i] \in 1..old /\ s[i] = sub.seen[i]
                       /\ i \in 1..(L + (last - old))
  <2>1. \A i \in 1..L : sub.seen[i] \in 1..N /\ log[sub.seen[i]].time <= sub.cursor
    BY <1>2, <1>l DEF PgInv
  <2>2. \A i \in 1..L : ~(log[sub.seen[i]].time > sub.cursor)
    BY <1>0, <2>1
  <2>3. \A i \in 1..L : ~(sub.seen[i] > old)
    BY <1>2, <2>1, <2>2
  <2>4. \A i \in 1..L : i \in 1..(L + (last - old)) /\ i <= L
    BY <1>0, <1>4, <1>l
  <2> QED
    BY <1>0, <1>7, <2>1, <2>3, <2>4
<1>14. \A w \in (old + 1)..last :
         L + (w - old) \in 1..(L + (last - old)) /\ s[L + (w - old)] = w
  <2> SUFFICES ASSUME NEW w \in (old + 1)..last
               PROVE  L + (w - old) \in 1..(L + (last - old)) /\ s[L + (w - old)] = w
    OBVIOUS
  <2>1. /\ L + (w - old) \in 1..(L + (last - old)) /\ ~(L + (w - old) <= L)
        /\ (L + (w - old)) - L = w - old /\ w - old \in 1..(last - old) /\ old + (w - old) = w
    BY <1>0, <1>4, <1>l
  <2> QED
    BY <1>6, <1>7, <2>1
<1>15. \A i \in (L + 1)..(L + (last - old)) : s[i] = old + (i - L) /\ s[i] \in (old + 1)..last
  <2> SUFFICES ASSUME NEW i \in (L + 1)..(L + (last - old))
               PROVE  s[i] = old + (i - L) /\ s[i] \in (old + 1)..last
    OBVIOUS
  <2>1. /\ i \in 1..(L + (last - old)) /\ ~(i <= L) /\ i - L \in 1..(last - old)
        /\ old + (i - L) \in (old + 1)..last
    <3>1. \A l, a, b \in Nat : a <= b => \A x \in (l + 1)..(l + (b - a)) :
            /\ x \in 1..(l + (b - a)) /\ ~(x <= l) /\ x - l \in 1..(b - a)
            /\ a + (x - l) \in (a + 1)..b
      OBVIOUS
    <3>2. L \in Nat
      BY <1>l
    <3> QED
      BY <1>k, <3>1, <3>2
  <2>2. s[i] = u[i - L] /\ u[i - L] = old + (i - L)
    BY <1>6, <1>7, <2>1
  <2> QED
    BY <2>1, <2>2
<1>16. \A i \in 1..Len(s) : s[i] \in 1..N /\ log[s[i]].time <= c
  <2>0. \A w \in 1..last : w \in 1..N /\ log[w].time <= c
    BY <1>k, <1>12
  <2> SUFFICES ASSUME NEW i \in 1..(L + (last - old)) PROVE s[i] \in 1..last
    BY <1>7, <2>0
  <2>1. CASE i \in 1..L
    BY <1>0, <1>4, <1>13, <2>1
  <2>2. CASE i \notin 1..L
    <3>1. i \in (L + 1)..(L + (last - old))
      BY <1>0, <1>l, <2>2
    <3> QED
      BY <1>0, <1>4, <1>15, <3>1
  <2> QED
    BY <2>1, <2>2
<1>17. \A i, j \in 1..Len(s) : i < j => s[i] < s[j]
  <2> SUFFICES ASSUME NEW i \in 1..(L + (last - old)), NEW j \in 1..(L + (last - old)), i < j
               PROVE  s[i] < s[j]
    BY <1>7
  <2>1. CASE i \in 1..L /\ j \in 1..L
    BY <1>2, <1>13, <1>l, <2>1 DEF PgInv
  <2>2. CASE j \notin 1..L
    <3>1. j \in (L + 1)..(L + (last - old))
      BY <1>0, <1>4, <1>l, <2>2
    <3>2. CASE i \in 1..L
      <4>1. s[i] \in 1..old /\ s[j] \in (old + 1)..last
        BY <1>13, <1>15, <3>1, <3>2
      <4> QED
        BY <1>k, <4>1
    <3>3. CASE i \notin 1..L
      <4>1. i \in (L + 1)..(L + (last - old))
        BY <1>0, <1>4, <1>l, <3>3
      <4>2. s[i] = old + (i - L) /\ s[j] = old + (j - L)
        BY <1>15, <3>1, <4>1
      <4>3. \A l, a \in Nat, x, y \in Int : x < y => a + (x - l) < a + (y - l)
        OBVIOUS
      <4>4. L \in Nat /\ i \in Int /\ j \in Int
        BY <1>k, <1>l
      <4> QED
        BY <1>k, <4>2, <4>3, <4>4
    <3> QED
      BY <3>2, <3>3
  <2>3. j \in 1..L => i \in 1..L
    BY <1>0, <1>l
  <2> QED
    BY <2>1, <2>2, <2>3
<1>18. \A w \in 1..N : sub.from < log[w].time /\ log[w].time <= c =>
         \E i \in 1..Len(s) : log[s[i]].time = log[w].time
  <2> SUFFICES ASSUME NEW w \in 1..N, sub.from < log[w].time, log[w].time <= c
               PROVE  \E i \in 1..(L + (last - old)) : log[s[i]].time = log[w].time
    BY <1>7
  <2>1. CASE w <= old
    <3>1. log[w].time <= sub.cursor
      BY <1>0, <1>2, <1>4, <2>1
    <3>2. PICK i \in 1..L : log[sub.seen[i]].time = log[w].time
      BY <1>2, <1>l, <3>1 DEF PgInv
    <3> QED
      BY <1>13, <3>2
  <2>2. CASE ~(w <= old) /\ w <= last
    <3>1. w \in (old + 1)..last
      BY <1>0, <1>4, <2>2
    <3> QED
      BY <1>14, <3>1
  <2>3. CASE ~(w <= old) /\ ~(w <= last)
    <3>1. w > old /\ log[w].time > sub.cursor
      BY <1>0, <1>2, <1>4, <2>3
    <3>2. last > old
      BY <1>0, <1>4, <1>8, <3>1
    <3>3. last \in (old + 1)..last /\ last \in 1..N /\ log[last].time <= log[w].time
      BY <1>0, <1>4, <2>3, <3>2 DEF LogInv
    <3>4. log[last].time = log[w].time
      BY <1>0, <1>8, <3>2, <3>3
    <3> QED
      BY <1>14, <3>3, <3>4
  <2> QED
    BY <2>1, <2>2, <2>3
<1>19. c = sub.from \/ (Len(s) > 0 /\ c = log[s[Len(s)]].time)
  <2>1. CASE last > old
    <3>1. last \in (old + 1)..last /\ Len(s) = L + (last - old) /\ Len(s) > 0
      BY <1>0, <1>4, <1>7, <1>l, <2>1
    <3> QED
      BY <1>8, <1>14, <2>1, <3>1
  <2>2. CASE ~(last > old)
    <3>1. last - old = 0 /\ Len(s) = L /\ c = sub.cursor
      <4>1. last = old
        BY <1>k, <2>2
      <4> QED
        BY <1>k, <1>7, <1>8, <1>l, <2>2, <4>1
    <3>2. L > 0 => s[L] = sub.seen[L]
      BY <1>13, <1>l
    <3> QED
      BY <1>2, <1>l, <3>1, <3>2 DEF PgInv
  <2> QED
    BY <2>1, <2>2
<1>20. pc = "live" => \A w \in 1..N : log[w].time <= c
  BY <1>0, <1>5, <1>12
<1>21. sub'.base = 0 /\ sub.registered
  BY <1>2, <1>9 DEF PgInv
<1>22. PgInv'
  <2>1. /\ \A i \in 1..Len(sub'.seen) :
             sub'.seen[i] \in 1..N' /\ log'[sub'.seen[i]].time <= sub'.cursor
        /\ \A i, j \in 1..Len(sub'.seen) : i < j => sub'.seen[i] < sub'.seen[j]
    BY <1>2, <1>9, <1>10, <1>16, <1>17
  <2>2. \A w \in 1..N' : sub'.from < log'[w].time /\ log'[w].time <= sub'.cursor =>
          \E i \in 1..Len(sub'.seen) : log'[sub'.seen[i]].time = log'[w].time
    BY <1>2, <1>9, <1>10, <1>18 DEF SameSub
  <2>3. \/ sub'.cursor = sub'.from
        \/ Len(sub'.seen) > 0 /\ sub'.cursor = log'[sub'.seen[Len(sub'.seen)]].time
    BY <1>2, <1>9, <1>19 DEF SameSub
  <2>4. sub'.pc = "live" => \A w \in 1..N' : log'[w].time <= sub'.cursor
    BY <1>2, <1>9, <1>10, <1>20
  <2>5. sub'.base = 0 /\ sub'.registered
    BY <1>9, <1>21
  <2> QED
    BY <2>1, <2>2, <2>3, <2>4, <2>5 DEF PgInv
<1> QED
  BY <1>11, <1>22 DEF SubInv

LEMMA PgPlainStep ==
  ASSUME SubInv, PgListen \/ PgWake
  PROVE  SubInv'
<1> SubType /\ LogInv /\ PullInv /\ PushInv /\ PgInv /\ LossIsReported
  BY DEF SubInv
<1> DEFINE none == <<>>
<1>0. /\ sub.kind = "postgres" /\ log' = log /\ link' = link /\ none \in Seq(Nat)
  BY DEF PgListen, PgWake, SubAt
<1> HIDE DEF none
<1>1. CASE sub' = SubFail
  BY <1>0, <1>1, SubStops DEF SubType
<1>2. CASE \/ sub' = [sub EXCEPT !.pc = "query", !.registered = TRUE]
           \/ sub.pc = "live" /\ sub' = [sub EXCEPT !.pc = "query", !.inbox = none]
  <2>1. /\ sub' \in SubscriberState /\ SameSub /\ sub'.pc = "query" /\ sub'.cursor = sub.cursor
        /\ sub'.base = sub.base /\ sub'.seen = sub.seen
        /\ sub'.registered = TRUE \/ (sub.pc = "live" /\ sub'.registered = sub.registered)
    BY <1>0, <1>2 DEF SubType, SubscriberState, SubPcs, SameSub
  <2>2. N' = N
    BY <1>0 DEF N
  <2>a. sub'.kind = "postgres"
    BY <1>0, <2>1 DEF SameSub
  <2>b. PullInv' /\ PushInv' /\ LossIsReported'
    BY <2>1, <2>a DEF PullInv, PushInv, LossIsReported
  <2>3. SubType' /\ LogInv' /\ PullInv' /\ PushInv' /\ LossIsReported'
    BY <1>0, <2>1, <2>2, <2>b DEF SubType, LogInv
  <2>c. sub'.registered
    BY <1>0, <2>1 DEF PgInv
  <2>4. PgInv'
    BY <1>0, <2>1, <2>2, <2>a, <2>c DEF PgInv, SameSub
  <2> QED
    BY <2>3, <2>4 DEF SubInv
<1> QED
  BY <1>1, <1>2 DEF PgListen, PgWake, SubAt, none

-----------------------------------------------------------------------------
LEMMA SubStep ==
  ASSUME SubInv, SubNext
  PROVE  SubInv'
<1>1. CASE RequestFails \/ FluvioInvalid
  <2>1. sub' = SubFail /\ log' = log /\ link' \in BOOLEAN
    BY <1>1 DEF RequestFails, FluvioInvalid, SubInv, SubType
  <2> QED
    BY <2>1, SubStops
<1> QED
  BY <1>1, WriteStep, NoiseStep, LinkStep, EtcdStep, RegisterStep, ReadStep, CursorStep,
     PgQueryStep, PgPlainStep DEF SubNext

LEMMA SubStart == SubInit => SubInv
<1> SUFFICES ASSUME SubInit PROVE SubInv
  OBVIOUS
<1> DEFINE none == <<>>
<1>0. none \in Seq(LogWrite) /\ none \in Seq(Nat) /\ none \in Seq(Int) /\ Len(none) = 0
  OBVIOUS
<1>1. PICK kind \in SubKinds, from \in SubStarts, realtime \in BOOLEAN :
        /\ from # 0 => kind \in {"postgres", "kafka", "fluvio"}
        /\ from < 0 => kind = "fluvio"
        /\ sub = [kind |-> kind, from |-> from, realtime |-> realtime,
                  pc |-> IF kind = "fluvio" /\ from < 0 THEN "invalid" ELSE FirstStep(kind),
                  cursor |-> from, base |-> 0, inbox |-> none, seen |-> none,
                  registered |-> FALSE, err |-> FALSE]
  BY DEF SubInit
<1> DEFINE first == IF kind = "fluvio" /\ from < 0 THEN "invalid" ELSE FirstStep(kind)
<1>2. log = none /\ link = TRUE /\ from \in Int
      /\ kind \in {"etcd", "xread", "pubsub", "postgres", "kafka", "fluvio", "kdb"}
  BY SubscriptionsAssumption DEF SubInit
<1>3. /\ first \in SubPcs /\ first # "ended"
      /\ first = "xrange" => from = 0
      /\ kind \in {"etcd", "pubsub", "kdb"} => first \in {"watch", "register"} /\ from = 0
      /\ kind = "postgres" => first = "register"
  BY <1>1, <1>2 DEF FirstStep, SubPcs
<1> HIDE DEF none, first
<1>4. /\ sub \in SubscriberState /\ sub.kind = kind /\ sub.from = from /\ sub.pc = first
      /\ sub.cursor = from /\ sub.base = 0 /\ sub.inbox = none /\ sub.seen = none
      /\ sub.registered = FALSE
  BY <1>0, <1>1, <1>2, <1>3 DEF SubscriberState, first
<1>5. N = 0 /\ (from = 0 => Reached = 0)
  BY <1>0, <1>2, <1>4 DEF N, Reached
<1>6. SubType /\ LogInv /\ LossIsReported
  BY <1>0, <1>2, <1>3, <1>4, <1>5 DEF SubType, LogInv, LossIsReported
<1>7. PullInv
  <2>1. none = Upto(from, from)
    BY <1>2, UptoNone DEF none
  <2> QED
    BY <1>2, <1>3, <1>4, <2>1 DEF PullInv
<1>8. PushInv
  BY <1>0, <1>2, <1>3, <1>4, <1>5 DEF PushInv, none
<1>9. PgInv
  BY <1>0, <1>2, <1>3, <1>4, <1>5 DEF PgInv
<1> QED
  BY <1>6, <1>7, <1>8, <1>9 DEF SubInv

LEMMA HandoffHolds == SubInv => HandoffExact
<1> SUFFICES ASSUME SubInv PROVE HandoffExact
  OBVIOUS
<1> SubType /\ PullInv /\ PushInv /\ PgInv
  BY DEF SubInv
<1> DEFINE L == Len(sub.seen)
<1>0. /\ N \in Nat /\ sub.cursor \in Int /\ sub.from \in Int /\ sub.base \in Nat
      /\ sub.seen \in Seq(Int) /\ L \in Nat /\ DOMAIN sub.seen = 1..L
      /\ sub.kind \in {"etcd", "xread", "pubsub", "postgres", "kafka", "fluvio", "kdb"}
      /\ Reached = sub.cursor + (L - sub.base)
  BY SubTyped DEF SubType, SubscriberState, Reached
<1> DEFINE Once == \A i, j \in 1..L : i # j => sub.seen[i] # sub.seen[j]
           Live == \A i, j \in (sub.base + 1)..L : i < j => sub.seen[i] < sub.seen[j]
<1>1. CASE sub.kind \in {"xread", "kafka", "fluvio"}
  <2>1. sub.seen = Upto(sub.from, sub.cursor) /\ sub.from <= sub.cursor
    BY <1>1 DEF PullInv
  <2>2. L = sub.cursor - sub.from /\ \A i \in 1..L : sub.seen[i] = sub.from + i
    <3> DEFINE t == Upto(sub.from, sub.cursor)
    <3>1. t \in Seq(Int) /\ Len(t) = sub.cursor - sub.from
          /\ \A i \in 1..Len(t) : t[i] = sub.from + i
      BY <1>0, <2>1, UptoOf
    <3> HIDE DEF t
    <3>2. sub.seen = t
      BY <2>1 DEF t
    <3> QED
      BY <3>1, <3>2
  <2> HIDE DEF L
  <2>a. sub.from \in Int /\ sub.base \in Nat /\ L \in Nat
    BY <1>0
  <2>b. \A i \in (sub.base + 1)..L : i \in 1..L
    BY <2>a
  <2>3. Once /\ Live
    BY <2>2, <2>a, <2>b
  <2>4. ASSUME SubIdle PROVE sub.seen = Upto(sub.from, N)
    <3>1. sub.cursor >= N
      BY <1>1, <2>4 DEF SubIdle
    <3>2. CASE sub.cursor = N
      BY <2>1, <3>2
    <3>3. CASE sub.cursor # N
      <4>1. sub.cursor = sub.from /\ N <= sub.from
        BY <1>0, <1>1, <3>1, <3>3 DEF PullInv
      <4>a. sub.from \in Int /\ N \in Int
        BY <1>0
      <4>2. Upto(sub.from, N) \in Seq(Int) /\ Len(Upto(sub.from, N)) = 0
        BY <4>1, <4>a, UptoOf
      <4>3. Upto(sub.from, N) = <<>> /\ Upto(sub.from, sub.from) = <<>>
        BY <1>0, <4>2, UptoNone, EmptySeq
      <4> QED
        BY <2>1, <4>1, <4>3
    <3> QED
      BY <3>2, <3>3
  <2> QED
    BY <1>0, <1>1, <2>3, <2>4 DEF HandoffExact, L
<1>2. CASE sub.kind \in {"etcd", "pubsub", "kdb"}
  <2>1. /\ sub.cursor \in 0..N /\ sub.base <= L /\ Reached <= N
        /\ sub.kind # "etcd" => sub.base = 0
        /\ \A i \in 1..sub.base : sub.seen[i] \in 1..sub.cursor
        /\ \A i, j \in 1..sub.base : i # j => sub.seen[i] # sub.seen[j]
        /\ \A i \in (sub.base + 1)..L : sub.seen[i] = sub.cursor + (i - sub.base)
    BY <1>2 DEF PushInv
  <2> HIDE DEF L
  <2>2. Live
    <3> SUFFICES ASSUME NEW i \in (sub.base + 1)..L, NEW j \in (sub.base + 1)..L, i < j
                 PROVE  sub.seen[i] < sub.seen[j]
      OBVIOUS
    <3>1. sub.seen[i] = sub.cursor + (i - sub.base) /\ sub.seen[j] = sub.cursor + (j - sub.base)
      BY <2>1
    <3>2. sub.cursor \in Int /\ sub.base \in Nat /\ L \in Nat
      BY <1>0
    <3> QED
      BY <3>1, <3>2
  <2>3. Once
    <3>a. sub.cursor \in Int /\ sub.base \in Nat /\ L \in Nat
      BY <1>0
    <3> SUFFICES ASSUME NEW i \in 1..L, NEW j \in 1..L, i < j PROVE sub.seen[i] # sub.seen[j]
      BY <3>a
    <3>1. CASE j <= sub.base
      <4>1. i \in 1..sub.base /\ j \in 1..sub.base /\ i # j
        BY <3>1, <3>a
      <4> QED
        BY <2>1, <4>1
    <3>2. CASE i > sub.base
      <4>1. i \in (sub.base + 1)..L /\ j \in (sub.base + 1)..L
        BY <3>2, <3>a
      <4>2. sub.seen[i] = sub.cursor + (i - sub.base) /\ sub.seen[j] = sub.cursor + (j - sub.base)
        BY <2>1, <4>1
      <4> QED
        BY <3>a, <4>2
    <3>3. CASE i <= sub.base /\ j > sub.base
      <4>1. i \in 1..sub.base /\ j \in (sub.base + 1)..L
        BY <1>0, <3>3
      <4>2. sub.seen[i] \in 1..sub.cursor /\ sub.seen[j] = sub.cursor + (j - sub.base)
        BY <2>1, <4>1
      <4>3. j - sub.base > 0
        BY <3>3, <3>a
      <4> QED
        BY <3>a, <4>2, <4>3
    <3> QED
      BY <1>0, <3>1, <3>2, <3>3
  <2>4. ASSUME SubIdle PROVE Reached = N
    <3>1. sub.pc = "live" /\ link /\ sub.inbox = <<>>
      BY <1>2, <2>4 DEF SubIdle, Pushed
    <3>2. InboxInv /\ Len(sub.inbox) = 0
      BY <1>2, <3>1 DEF PushInv
    <3>3. ~(Reached < N)
      BY <3>1, <3>2 DEF InboxInv
    <3> QED
      BY <1>0, <2>1, <3>3
  <2>5. ASSUME SubIdle, sub.kind = "etcd"
        PROVE  /\ {sub.seen[i] : i \in 1..sub.base} = Present(sub.cursor)
               /\ {sub.seen[i] : i \in (sub.base + 1)..L} = (sub.cursor + 1)..N
    <3>1. {sub.seen[i] : i \in 1..sub.base} = Present(sub.cursor)
      BY <2>5 DEF PushInv, SubIdle
    <3>a. /\ sub.cursor \in Int /\ sub.base \in Nat /\ L \in Nat /\ N \in Nat
          /\ N = sub.cursor + (L - sub.base)
      BY <1>0, <2>4, <2>5
    <3>2. ASSUME NEW i \in (sub.base + 1)..L PROVE sub.seen[i] \in (sub.cursor + 1)..N
      <4>1. sub.seen[i] = sub.cursor + (i - sub.base)
        BY <2>1
      <4> QED
        BY <3>a, <4>1
    <3>3. ASSUME NEW w \in (sub.cursor + 1)..N PROVE \E i \in (sub.base + 1)..L : sub.seen[i] = w
      <4>1. /\ sub.base + (w - sub.cursor) \in (sub.base + 1)..L
            /\ sub.cursor + ((sub.base + (w - sub.cursor)) - sub.base) = w
        BY <3>a
      <4>2. sub.seen[sub.base + (w - sub.cursor)] = w
        BY <2>1, <4>1
      <4> QED
        BY <4>1, <4>2
    <3> QED
      BY <3>1, <3>2, <3>3
  <2>6. ASSUME SubIdle, sub.kind # "etcd" PROVE sub.seen = Upto(sub.cursor, N)
    <3>1. sub.base = 0 /\ L = N - sub.cursor /\ \A i \in 1..L : sub.seen[i] = sub.cursor + i
      <4>1. /\ sub.cursor \in Int /\ L \in Nat /\ N \in Nat /\ sub.base = 0
            /\ N = sub.cursor + (L - 0)
        BY <1>0, <2>1, <2>4, <2>6
      <4>2. \A i \in 1..L : i \in (0 + 1)..L /\ i - 0 = i
        BY <4>1
      <4>3. L = N - sub.cursor
        BY <4>1
      <4>4. \A i \in (0 + 1)..L : sub.seen[i] = sub.cursor + (i - 0)
        BY <2>1, <4>1
      <4> QED
        BY <4>1, <4>2, <4>3, <4>4
    <3>2. /\ Upto(sub.cursor, N) \in Seq(Int) /\ Len(Upto(sub.cursor, N)) = L
          /\ \A i \in 1..L : Upto(sub.cursor, N)[i] = sub.cursor + i
      <4>1. sub.cursor \in Int /\ N \in Int /\ sub.cursor <= N
        BY <1>0, <2>1
      <4>2. /\ Upto(sub.cursor, N) \in Seq(Int) /\ Len(Upto(sub.cursor, N)) = N - sub.cursor
            /\ \A i \in 1..Len(Upto(sub.cursor, N)) : Upto(sub.cursor, N)[i] = sub.cursor + i
        BY <4>1, UptoOf
      <4> QED
        BY <3>1, <4>2
    <3> QED
      BY <1>0, <3>1, <3>2, SeqEqual DEF L
  <2> QED
    BY <1>0, <1>2, <2>2, <2>3, <2>5, <2>6 DEF HandoffExact, L
<1>3. CASE sub.kind = "postgres"
  <2>1. /\ sub.base = 0 /\ \A i \in 1..L : sub.seen[i] \in 1..N
        /\ \A i, j \in 1..L : i < j => sub.seen[i] < sub.seen[j]
    BY <1>3 DEF PgInv
  <2> HIDE DEF L
  <2>2. Live
    BY <1>0, <2>1
  <2>3. Once
    <3>a. N \in Nat /\ L \in Nat
      BY <1>0
    <3> SUFFICES ASSUME NEW i \in 1..L, NEW j \in 1..L, i < j PROVE sub.seen[i] # sub.seen[j]
      BY <3>a
    <3>1. sub.seen[i] < sub.seen[j] /\ sub.seen[i] \in 1..N /\ sub.seen[j] \in 1..N
      BY <2>1
    <3> QED
      BY <3>1, <3>a
  <2>4. ASSUME SubIdle, NEW w \in 1..N, log[w].time > sub.from
        PROVE  \E i \in 1..L : log[sub.seen[i]].time = log[w].time
    <3>1. log[w].time <= sub.cursor
      BY <1>3, <2>4 DEF SubIdle, Pushed, PgInv
    <3>2. log[w].time \in Nat
      BY SubTyped
    <3> QED
      BY <1>0, <1>3, <2>4, <3>1, <3>2 DEF PgInv, L
  <2> QED
    BY <1>0, <1>3, <2>2, <2>3, <2>4 DEF HandoffExact, L
<1> QED
  BY <1>0, <1>1, <1>2, <1>3

(* Subscribing adapters hand over from their snapshot to the live updates  *)
(* without losing or repeating a write, and never fall silent without an   *)
(* error, for every number of writes, keys and start positions.            *)
THEOREM SubscriptionsStayExact == Spec => []SubscriptionsExact
<1>1. Init => SubInv
  BY SubStart DEF Init
<1>2. SubInv /\ UNCHANGED subVars => SubInv'
  <2> SUFFICES ASSUME SubInv, UNCHANGED subVars PROVE SubInv'
    OBVIOUS
  <2>1. log' = log /\ link' = link /\ sub' = sub
    BY DEF subVars
  <2>2. N' = N /\ Reached' = Reached /\ Present(sub.cursor)' = Present(sub.cursor)
    BY <2>1 DEF N, Reached, Present
  <2>3. InboxInv' = InboxInv
    BY <2>1, <2>2 DEF InboxInv
  <2>4. SubType' /\ LogInv' /\ PullInv' /\ PgInv' /\ LossIsReported'
    BY <2>1, <2>2 DEF SubInv, SubType, LogInv, PullInv, PgInv, LossIsReported
  <2>5. PushInv'
    BY <2>1, <2>2, <2>3 DEF SubInv, PushInv
  <2> QED
    BY <2>4, <2>5 DEF SubInv
<1>3. SubInv /\ [Next]_vars => SubInv'
  BY <1>2, SubStep, Turns
<1>4. SubInv => SubscriptionsExact
  BY HandoffHolds DEF SubInv, SubscriptionsExact
<1> QED
  BY <1>1, <1>3, <1>4, PTL DEF Spec

-----------------------------------------------------------------------------
(* The web adapter *)

WebFrame == [type : {"data", "complete", "hello"}, topic : WebTopics \cup {""}, n : Nat]
PageMessage == [type : {"data"}, n : Nat]
                 \cup [type : {"subscribe", "unsubscribe"}, topics : SUBSET WebTopics]
PageValue == [socket : Ids, n : Nat]

SocketState ==
  [page : {"none", "connecting", "open", "closed"}, task : {"none", "reading", "draining", "ended"},
   up : Seq(PageMessage), down : Seq(WebFrame), out : Seq(WebFrame),
   forwarders : SUBSET WebTopics, tasks : [WebTopics -> Seq(Seq(WebFrame))]]

ServerState ==
  [server : {"none", "running", "failed", "noop", "stopped"}, sent : [WebTopics -> Nat],
   ended : SUBSET WebTopics, queue : Seq(PageValue), listening : BOOLEAN]

ClientState ==
  [wasm : BOOLEAN, closed : BOOLEAN, finished : BOOLEAN, timer : BOOLEAN, socket : Nat,
   opened : Nat, listeners : SUBSET WebListeners]

PageState ==
  [role : {"views", "sends"}, got : [WebTopics -> Seq(Nat)], taken : Seq(PageValue),
   published : Nat, calls : Nat]

WebType ==
  /\ web \in ServerState /\ sockets \in [Ids -> SocketState]
  /\ client \in ClientState /\ page \in PageState

(* A socket the page may still be given frames of. *)
Active(s) == s.page \in {"connecting", "open"}

(* The page has at most one such socket, the client's, and none while it   *)
(* waits to connect.                                                       *)
ClientInv ==
  /\ client.socket <= client.opened /\ client.opened <= MaxSockets
  /\ \A c \in Ids : sockets[c].page = "none" <=> c > client.opened
  /\ \A c \in Ids : Active(sockets[c]) => c = client.socket
  /\ client.timer => \A c \in Ids : ~ Active(sockets[c])
  /\ ~ client.wasm => client.opened = 0 /\ ~ client.timer

(* The frames the one task of a topic's forwarder has not forwarded. *)
Task(s, t) == IF s.tasks[t] = <<>> THEN <<>> ELSE s.tasks[t][1]

(* Nothing is sent before the open event, nothing is delivered before it   *)
(* or after the close, and each forwarder has one task, of its topic.      *)
SocketInv(s) ==
  /\ s.page \in {"none", "connecting"} => s.up = <<>> /\ s.forwarders = {}
  /\ s.page # "open" => s.down = <<>>
  /\ s.page = "none" => s.task = "none" /\ s.out = <<>>
  /\ s.page = "open" => s.task # "none"
  /\ \A t \in WebTopics : Len(s.tasks[t]) = IF t \in s.forwarders THEN 1 ELSE 0
  /\ \A t \in WebTopics : \A y \in 1..Len(Task(s, t)) : Task(s, t)[y].topic = t

(* The numbers of the marked messages of a queue, and that they rise. *)
Numbers(q, M) == {q[x].n : x \in {y \in 1..Len(q) : q[y] \in M}}
Rising(q, M) == \A x, y \in 1..Len(q) : x < y /\ q[x] \in M /\ q[y] \in M => q[x].n < q[y].n

FramesOf(t) == [type : {"data"}, topic : {t}, n : Nat]
ValuesBy(c) == [socket : {c}, n : Nat]
Sent == [type : {"data"}, n : Nat]

(* Frames go through a broadcast receiver, the connection's queue and the  *)
(* socket: what is further on its way was sent earlier.                    *)
Chain(g, d, o, k, M, n) ==
  /\ Increasing(g) /\ Rising(d, M) /\ Rising(o, M) /\ Rising(k, M)
  /\ Below(Range(g), Numbers(d, M) \cup Numbers(o, M) \cup Numbers(k, M))
  /\ Below(Numbers(d, M), Numbers(o, M) \cup Numbers(k, M))
  /\ Below(Numbers(o, M), Numbers(k, M))
  /\ Below(Range(g) \cup Numbers(d, M) \cup Numbers(o, M) \cup Numbers(k, M), {n + 1})

(* What the page has been given of a topic, and what is under way on a     *)
(* socket that can still deliver.                                          *)
DownOf(s, g, t, n) ==
  /\ Chain(g, <<>>, <<>>, <<>>, FramesOf(t), n)
  /\ Active(s) => Chain(g, s.down, s.out, Task(s, t), FramesOf(t), n)

(* Values of the page pass through the socket and the listener's queue. *)
UpOf(c, taken, queue, up, n) ==
  /\ Rising(taken, ValuesBy(c)) /\ Rising(queue, ValuesBy(c)) /\ Rising(up, Sent)
  /\ Below(Numbers(taken, ValuesBy(c)), Numbers(queue, ValuesBy(c)) \cup Numbers(up, Sent))
  /\ Below(Numbers(queue, ValuesBy(c)), Numbers(up, Sent))
  /\ Below(Numbers(taken, ValuesBy(c)) \cup Numbers(queue, ValuesBy(c)) \cup Numbers(up, Sent), {n + 1})

(* The control frames under way that mention a topic. *)
About(q, t) == {x \in 1..Len(q) : q[x] \notin Sent /\ t \in q[x].topics}

(* The last control frame under way about a topic, or else the server's    *)
(* forwarders, say whether the page listens to it.                         *)
Tracks(q, F, t, wanted) ==
  /\ About(q, t) = {} => ((t \in F) <=> wanted)
  /\ \A x \in About(q, t) : (\A y \in About(q, t) : y <= x) => ((q[x].type = "subscribe") <=> wanted)

ControlOf(s, listeners) ==
  s.page = "open" /\ s.task = "reading" =>
    \A t \in WebTopics : Tracks(s.up, s.forwarders, t, HasTopicListener(listeners, t))

WebInv ==
  /\ WebType /\ ClientInv
  /\ \A c \in Ids : /\ SocketInv(sockets[c]) /\ ControlOf(sockets[c], client.listeners)
                    /\ UpOf(c, page.taken, web.queue, sockets[c].up, page.published)
  /\ \A c \in Ids, t \in WebTopics : DownOf(sockets[c], page.got[t], t, web.sent[t])

(* A queue r is q with e put at its end, or without its head h. *)
Grows(q, r, e) ==
  /\ Len(q) \in Nat /\ Len(r) = Len(q) + 1 /\ r[Len(q) + 1] = e
  /\ \A i \in 1..Len(q) : r[i] = q[i]

Shrinks(q, r, h) ==
  /\ Len(q) \in Nat /\ Len(q) >= 1 /\ Len(r) = Len(q) - 1 /\ h = q[1]
  /\ \A i \in 1..Len(r) : r[i] = q[i + 1]

LEMMA FramesMove ==
  /\ \A q \in Seq(WebFrame), e \in WebFrame : Append(q, e) \in Seq(WebFrame) /\ Grows(q, Append(q, e), e)
  /\ \A q \in Seq(WebFrame) : q # <<>> =>
       Head(q) \in WebFrame /\ Tail(q) \in Seq(WebFrame) /\ Shrinks(q, Tail(q), Head(q))
  BY AppendProperties, HeadTailProperties, LenProperties, EmptySeq DEF Grows, Shrinks

LEMMA MessagesMove ==
  /\ \A q \in Seq(PageMessage), e \in PageMessage :
       Append(q, e) \in Seq(PageMessage) /\ Grows(q, Append(q, e), e)
  /\ \A q \in Seq(PageMessage) : q # <<>> =>
       Head(q) \in PageMessage /\ Tail(q) \in Seq(PageMessage) /\ Shrinks(q, Tail(q), Head(q))
  BY AppendProperties, HeadTailProperties, LenProperties, EmptySeq DEF Grows, Shrinks

LEMMA ValuesMove ==
  /\ \A q \in Seq(PageValue), e \in PageValue :
       Append(q, e) \in Seq(PageValue) /\ Grows(q, Append(q, e), e)
  /\ \A q \in Seq(PageValue) : q # <<>> =>
       Head(q) \in PageValue /\ Tail(q) \in Seq(PageValue) /\ Shrinks(q, Tail(q), Head(q))
  BY AppendProperties, HeadTailProperties, LenProperties, EmptySeq DEF Grows, Shrinks

(* What that does to the numbers of a queue. *)
LEMMA NumbersGrow ==
  ASSUME NEW q, NEW r, NEW e, NEW M, Grows(q, r, e)
  PROVE  /\ e \in M => Numbers(r, M) = Numbers(q, M) \cup {e.n}
         /\ e \notin M => Numbers(r, M) = Numbers(q, M)
<1>1. /\ Len(r) = Len(q) + 1 /\ r[Len(q) + 1] = e
      /\ \A i \in 1..Len(q) : r[i] = q[i]
      /\ Len(q) \in Nat
  BY DEF Grows
<1>2. /\ \A i \in 1..Len(r) : i \in 1..Len(q) \/ i = Len(q) + 1
      /\ \A i \in 1..Len(q) : i \in 1..Len(r)
      /\ Len(q) + 1 \in 1..Len(r)
  BY <1>1
<1> QED
  BY <1>1, <1>2 DEF Numbers

LEMMA RisingGrow ==
  ASSUME NEW q, NEW r, NEW e, NEW M, Grows(q, r, e), Rising(q, M),
         e \in M => Below(Numbers(q, M), {e.n})
  PROVE  Rising(r, M)
<1>1. /\ Len(r) = Len(q) + 1 /\ r[Len(q) + 1] = e
      /\ \A i \in 1..Len(q) : r[i] = q[i]
      /\ Len(q) \in Nat
  BY DEF Grows
<1> SUFFICES ASSUME NEW x \in 1..Len(r), NEW y \in 1..Len(r), x < y, r[x] \in M, r[y] \in M
             PROVE  r[x].n < r[y].n
  BY DEF Rising
<1>2. x \in 1..Len(q)
  BY <1>1
<1>3. CASE y \in 1..Len(q)
  BY <1>1, <1>2, <1>3 DEF Rising
<1>4. CASE y = Len(q) + 1
  <2>1. e \in M /\ q[x] \in M /\ q[x].n \in Numbers(q, M)
    BY <1>1, <1>2, <1>4 DEF Numbers
  <2> QED
    BY <1>1, <1>2, <1>4, <2>1 DEF Below
<1> QED
  BY <1>1, <1>3, <1>4

LEMMA NumbersShrink ==
  ASSUME NEW q, NEW r, NEW h, NEW M, Shrinks(q, r, h)
  PROVE  /\ h \in M => Numbers(q, M) = Numbers(r, M) \cup {h.n}
         /\ h \notin M => Numbers(q, M) = Numbers(r, M)
<1>1. /\ Len(r) = Len(q) - 1
      /\ \A i \in 1..Len(r) : r[i] = q[i + 1]
      /\ h = q[1] /\ Len(q) \in Nat /\ Len(q) >= 1
  BY DEF Shrinks
<1>2. \A i \in 1..Len(q) : i = 1 \/ (i - 1 \in 1..Len(r) /\ r[i - 1] = q[i])
  <2> SUFFICES ASSUME NEW i \in 1..Len(q), i # 1 PROVE i - 1 \in 1..Len(r) /\ r[i - 1] = q[i]
    OBVIOUS
  <2>1. i - 1 \in 1..Len(r) /\ (i - 1) + 1 = i
    BY <1>1
  <2> QED
    BY <1>1, <2>1
<1>3. 1 \in 1..Len(q) /\ \A i \in 1..Len(r) : i + 1 \in 1..Len(q) /\ r[i] = q[i + 1]
  BY <1>1
<1>4. ASSUME NEW v \in Numbers(q, M) PROVE v \in Numbers(r, M) \/ (h \in M /\ v = h.n)
  <2>1. PICK i \in 1..Len(q) : q[i] \in M /\ v = q[i].n
    BY <1>4 DEF Numbers
  <2>2. CASE i = 1
    BY <1>1, <2>1, <2>2
  <2>3. CASE i # 1
    <3>1. i - 1 \in 1..Len(r) /\ r[i - 1] \in M /\ v = r[i - 1].n
      BY <1>2, <2>1, <2>3
    <3> QED
      BY <3>1 DEF Numbers
  <2> QED
    BY <2>2, <2>3
<1>5. ASSUME NEW v \in Numbers(r, M) PROVE v \in Numbers(q, M)
  <2>1. PICK i \in 1..Len(r) : r[i] \in M /\ v = r[i].n
    BY <1>5 DEF Numbers
  <2>2. i + 1 \in 1..Len(q) /\ q[i + 1] \in M /\ v = q[i + 1].n
    BY <1>3, <2>1
  <2> QED
    BY <2>2 DEF Numbers
<1>6. h \in M => h.n \in Numbers(q, M)
  BY <1>1, <1>3 DEF Numbers
<1> QED
  BY <1>4, <1>5, <1>6

LEMMA RisingShrink ==
  ASSUME NEW q, NEW r, NEW h, NEW M, Shrinks(q, r, h), Rising(q, M)
  PROVE  Rising(r, M) /\ (h \in M => Below({h.n}, Numbers(r, M)))
<1>1. /\ Len(r) = Len(q) - 1
      /\ \A i \in 1..Len(r) : r[i] = q[i + 1]
      /\ h = q[1] /\ Len(q) \in Nat /\ Len(q) >= 1
  BY DEF Shrinks
<1>2. /\ 1 \in 1..Len(q)
      /\ \A i \in 1..Len(r) : i + 1 \in 1..Len(q) /\ r[i] = q[i + 1] /\ 1 < i + 1
      /\ \A i, j \in 1..Len(r) : i < j => i + 1 < j + 1
  BY <1>1
<1>3. Rising(r, M)
  BY <1>2 DEF Rising
<1>4. ASSUME h \in M, NEW v \in Numbers(r, M) PROVE h.n < v
  <2>1. PICK i \in 1..Len(r) : r[i] \in M /\ v = r[i].n
    BY <1>4 DEF Numbers
  <2>2. i + 1 \in 1..Len(q) /\ q[i + 1] \in M /\ v = q[i + 1].n /\ 1 < i + 1
    BY <1>2, <2>1
  <2> QED
    BY <1>1, <1>2, <1>4, <2>2 DEF Rising
<1> QED
  BY <1>3, <1>4 DEF Below

LEMMA NumbersNone ==
  ASSUME NEW M
  PROVE  Numbers(<<>>, M) = {} /\ Rising(<<>>, M)
  BY DEF Numbers, Rising

LEMMA NumbersNat ==
  ASSUME NEW q, NEW M, \A m \in M : m.n \in Nat
  PROVE  Numbers(q, M) \subseteq Nat
  BY DEF Numbers

LEMMA GivenAppend ==
  ASSUME NEW g \in Seq(Nat), NEW v \in Nat
  PROVE  /\ Append(g, v) \in Seq(Nat)
         /\ Range(Append(g, v)) = Range(g) \cup {v}
         /\ Increasing(g) /\ Below(Range(g), {v}) => Increasing(Append(g, v))
<1> DEFINE r == Append(g, v)
<1>1. /\ r \in Seq(Nat) /\ Len(r) = Len(g) + 1 /\ r[Len(g) + 1] = v
      /\ \A i \in 1..Len(g) : r[i] = g[i]
      /\ Len(g) \in Nat /\ DOMAIN g = 1..Len(g) /\ DOMAIN r = 1..(Len(g) + 1)
  BY AppendProperties, LenProperties
<1> HIDE DEF r
<1>2. Range(r) = Range(g) \cup {v}
  BY <1>1, SMTT(20) DEF Range
<1>3. ASSUME Increasing(g), Below(Range(g), {v}) PROVE Increasing(r)
  <2>1. \A i \in 1..Len(g) : g[i] < v
    BY <1>1, <1>3 DEF Below, Range
  <2> SUFFICES ASSUME NEW x \in 1..Len(r), NEW y \in 1..Len(r), x < y PROVE r[x] < r[y]
    BY DEF Increasing
  <2>2. x \in 1..Len(g)
    BY <1>1
  <2>3. CASE y \in 1..Len(g)
    BY <1>1, <1>3, <2>2, <2>3 DEF Increasing
  <2>4. CASE y = Len(g) + 1
    BY <1>1, <2>1, <2>2, <2>4
  <2> QED
    BY <1>1, <2>3, <2>4
<1> QED
  BY <1>1, <1>2, <1>3 DEF r

(* The moves of a chain: a frame is sent, forwarded, written, taken or     *)
(* lost, and a stage is emptied.                                           *)
LEMMA ChainMoves ==
  ASSUME NEW g \in Seq(Nat), NEW d \in Seq(WebFrame), NEW o \in Seq(WebFrame), NEW k \in Seq(WebFrame),
         NEW M, \A m \in M : m.n \in Nat, NEW n \in Nat, Chain(g, d, o, k, M, n)
  PROVE  /\ \A f \in WebFrame : f \in M /\ f.n = n + 1 => Chain(g, d, o, Append(k, f), M, n + 1)
         /\ \A f \in WebFrame : f \notin M => Chain(g, d, o, Append(k, f), M, n)
         /\ \A f \in WebFrame : f \notin M => Chain(g, d, Append(o, f), k, M, n)
         /\ Chain(g, d, o, k, M, n + 1)
         /\ k # <<>> => Chain(g, d, o, Tail(k), M, n) /\ Chain(g, d, Append(o, Head(k)), Tail(k), M, n)
         /\ o # <<>> => Chain(g, d, Tail(o), k, M, n) /\ Chain(g, Append(d, Head(o)), Tail(o), k, M, n)
         /\ d # <<>> => /\ Chain(g, Tail(d), o, k, M, n)
                        /\ Head(d) \in M => Chain(Append(g, Head(d).n), Tail(d), o, k, M, n)
         /\ Chain(g, d, o, <<>>, M, n) /\ Chain(g, d, <<>>, <<>>, M, n) /\ Chain(g, <<>>, <<>>, <<>>, M, n)
         /\ \A f \in WebFrame : f \notin M => Chain(g, <<>>, <<f>>, <<>>, M, n)
<1> DEFINE G == Range(g)
           D == Numbers(d, M)
           O == Numbers(o, M)
           K == Numbers(k, M)
<1>1. G \subseteq Nat /\ D \subseteq Nat /\ O \subseteq Nat /\ K \subseteq Nat
  <2>1. D \subseteq Nat /\ O \subseteq Nat /\ K \subseteq Nat
    BY NumbersNat
  <2>2. G \subseteq Nat
    BY LenProperties, ElementOfSeq DEF Range
  <2> QED
    BY <2>1, <2>2
<1>2. /\ Increasing(g) /\ Rising(d, M) /\ Rising(o, M) /\ Rising(k, M)
      /\ Below(G, D \cup O \cup K) /\ Below(D, O \cup K) /\ Below(O, K)
      /\ Below(G \cup D \cup O \cup K, {n + 1})
  BY DEF Chain
<1> HIDE DEF G, D, O, K
<1>3. \A v \in G \cup D \cup O \cup K : v < n + 1 /\ v < n + 2
  BY <1>1, <1>2 DEF Below
<1>4. \A f \in WebFrame : f \in M /\ f.n = n + 1 => Chain(g, d, o, Append(k, f), M, n + 1)
  <2> SUFFICES ASSUME NEW f \in WebFrame, f \in M, f.n = n + 1
               PROVE  Chain(g, d, o, Append(k, f), M, n + 1)
    OBVIOUS
  <2> DEFINE r == Append(k, f)
  <2>0. Grows(k, r, f)
    BY FramesMove
  <2> HIDE DEF r
  <2>1. Numbers(r, M) = K \cup {n + 1} /\ Rising(r, M)
    <3>1. Below(Numbers(k, M), {f.n})
      BY <1>2 DEF Below, K
    <3>2. Numbers(r, M) = K \cup {f.n}
      BY <2>0, NumbersGrow DEF K
    <3> QED
      BY <1>2, <2>0, <3>1, <3>2, RisingGrow
  <2>2. Below(G, D \cup O \cup (K \cup {n + 1})) /\ Below(D, O \cup (K \cup {n + 1}))
        /\ Below(O, K \cup {n + 1}) /\ Below(G \cup D \cup O \cup (K \cup {n + 1}), {n + 1 + 1})
    BY <1>2, <1>3 DEF Below
  <2> QED
    BY <1>2, <2>1, <2>2 DEF Chain, G, D, O, r
<1>5. \A f \in WebFrame : f \notin M => Chain(g, d, o, Append(k, f), M, n)
  <2> SUFFICES ASSUME NEW f \in WebFrame, f \notin M PROVE Chain(g, d, o, Append(k, f), M, n)
    OBVIOUS
  <2>0. Grows(k, Append(k, f), f)
    BY FramesMove
  <2>1. Numbers(Append(k, f), M) = K
    BY <2>0, NumbersGrow DEF K
  <2>2. Rising(Append(k, f), M)
    BY <1>2, <2>0, RisingGrow
  <2> QED
    BY <1>2, <2>1, <2>2 DEF Chain, G, D, O
<1>a. \A f \in WebFrame : f \notin M => Chain(g, d, Append(o, f), k, M, n)
  <2> SUFFICES ASSUME NEW f \in WebFrame, f \notin M PROVE Chain(g, d, Append(o, f), k, M, n)
    OBVIOUS
  <2>0. Grows(o, Append(o, f), f)
    BY FramesMove
  <2>1. Numbers(Append(o, f), M) = O
    BY <2>0, NumbersGrow DEF O
  <2>2. Rising(Append(o, f), M)
    BY <1>2, <2>0, RisingGrow
  <2> QED
    BY <1>2, <2>1, <2>2 DEF Chain, G, D, K
<1>6. Chain(g, d, o, k, M, n + 1)
  <2>1. Below(G \cup D \cup O \cup K, {n + 1 + 1})
    BY <1>3 DEF Below
  <2> QED
    BY <1>2, <2>1 DEF Chain, G, D, O, K
<1>7. ASSUME k # <<>>
      PROVE  Chain(g, d, o, Tail(k), M, n) /\ Chain(g, d, Append(o, Head(k)), Tail(k), M, n)
  <2> DEFINE h == Head(k)
             H == IF h \in M THEN {h.n} ELSE {}
             T == Numbers(Tail(k), M)
  <2>0. /\ h \in WebFrame /\ Shrinks(k, Tail(k), h) /\ Grows(o, Append(o, h), h)
    BY <1>7, FramesMove
  <2> HIDE DEF h, T
  <2>1. K = T \cup H /\ Rising(Tail(k), M) /\ Below(H, T)
    BY <1>2, <2>0, NumbersShrink, RisingShrink DEF K, T, Below
  <2>2. Numbers(Append(o, h), M) = O \cup H
    <3>1. /\ h \in M => Numbers(Append(o, h), M) = Numbers(o, M) \cup {h.n}
          /\ h \notin M => Numbers(Append(o, h), M) = Numbers(o, M)
      BY <2>0, NumbersGrow
    <3> QED
      BY <3>1 DEF O
  <2>3. Rising(Append(o, h), M)
    <3>1. h \in M => Below(O, {h.n})
      BY <1>2, <2>1 DEF Below
    <3> QED
      BY <1>2, <2>0, <3>1, RisingGrow DEF O
  <2> HIDE DEF H
  <2>4. /\ Below(G, D \cup O \cup T) /\ Below(D, O \cup T) /\ Below(O, T)
        /\ Below(G \cup D \cup O \cup T, {n + 1})
    BY <1>2, <2>1 DEF Below
  <2>5. /\ Below(G, D \cup (O \cup H) \cup T) /\ Below(D, (O \cup H) \cup T) /\ Below(O \cup H, T)
        /\ Below(G \cup D \cup (O \cup H) \cup T, {n + 1})
    BY <1>2, <2>1 DEF Below
  <2>6. Chain(g, d, o, Tail(k), M, n)
    BY <1>2, <2>1, <2>4 DEF Chain, G, D, O, T
  <2>7. Chain(g, d, Append(o, h), Tail(k), M, n)
    BY <1>2, <2>1, <2>2, <2>3, <2>5 DEF Chain, G, D, O, T
  <2> QED
    BY <2>6, <2>7 DEF h
<1>8. ASSUME o # <<>>
      PROVE  Chain(g, d, Tail(o), k, M, n) /\ Chain(g, Append(d, Head(o)), Tail(o), k, M, n)
  <2> DEFINE h == Head(o)
             H == IF h \in M THEN {h.n} ELSE {}
             T == Numbers(Tail(o), M)
  <2>0. /\ h \in WebFrame /\ Shrinks(o, Tail(o), h) /\ Grows(d, Append(d, h), h)
    BY <1>8, FramesMove
  <2> HIDE DEF h, T
  <2>1. O = T \cup H /\ Rising(Tail(o), M) /\ Below(H, T)
    BY <1>2, <2>0, NumbersShrink, RisingShrink DEF O, T, Below
  <2>2. Numbers(Append(d, h), M) = D \cup H
    <3>1. /\ h \in M => Numbers(Append(d, h), M) = Numbers(d, M) \cup {h.n}
          /\ h \notin M => Numbers(Append(d, h), M) = Numbers(d, M)
      BY <2>0, NumbersGrow
    <3> QED
      BY <3>1 DEF D
  <2>3. Rising(Append(d, h), M)
    <3>1. h \in M => Below(D, {h.n})
      BY <1>2, <2>1 DEF Below
    <3> QED
      BY <1>2, <2>0, <3>1, RisingGrow DEF D
  <2> HIDE DEF H
  <2>4. /\ Below(G, D \cup T \cup K) /\ Below(D, T \cup K) /\ Below(T, K)
        /\ Below(G \cup D \cup T \cup K, {n + 1})
    BY <1>2, <2>1 DEF Below
  <2>5. /\ Below(G, (D \cup H) \cup T \cup K) /\ Below(D \cup H, T \cup K) /\ Below(T, K)
        /\ Below(G \cup (D \cup H) \cup T \cup K, {n + 1})
    BY <1>2, <2>1 DEF Below
  <2>6. Chain(g, d, Tail(o), k, M, n)
    BY <1>2, <2>1, <2>4 DEF Chain, G, D, K, T
  <2>7. Chain(g, Append(d, h), Tail(o), k, M, n)
    BY <1>2, <2>1, <2>2, <2>3, <2>5 DEF Chain, G, D, K, T
  <2> QED
    BY <2>6, <2>7 DEF h
<1>9. ASSUME d # <<>>
      PROVE  /\ Chain(g, Tail(d), o, k, M, n)
             /\ Head(d) \in M => Chain(Append(g, Head(d).n), Tail(d), o, k, M, n)
  <2> DEFINE h == Head(d)
             H == IF h \in M THEN {h.n} ELSE {}
             T == Numbers(Tail(d), M)
  <2>0. h \in WebFrame /\ Shrinks(d, Tail(d), h)
    BY <1>9, FramesMove
  <2> HIDE DEF h, T
  <2>1. D = T \cup H /\ Rising(Tail(d), M) /\ Below(H, T)
    BY <1>2, <2>0, NumbersShrink, RisingShrink DEF D, T, Below
  <2>4. /\ Below(G, T \cup O \cup K) /\ Below(T, O \cup K)
        /\ Below(G \cup T \cup O \cup K, {n + 1})
    BY <1>2, <2>1 DEF Below
  <2>5. Chain(g, Tail(d), o, k, M, n)
    BY <1>2, <2>1, <2>4 DEF Chain, G, O, K, T
  <2>6. ASSUME h \in M PROVE Chain(Append(g, h.n), Tail(d), o, k, M, n)
    <3>1. h.n \in Nat /\ h.n \in D /\ Below({h.n}, T)
      BY <2>1, <2>6
    <3>2. Below(G, {h.n})
      BY <1>2, <3>1 DEF Below
    <3>3. Increasing(Append(g, h.n)) /\ Range(Append(g, h.n)) = G \cup {h.n}
      BY <1>2, <3>1, <3>2, GivenAppend DEF G
    <3>4. /\ Below(G \cup {h.n}, T \cup O \cup K)
          /\ Below((G \cup {h.n}) \cup T \cup O \cup K, {n + 1})
      BY <1>2, <2>1, <3>1 DEF Below
    <3> QED
      BY <1>2, <2>1, <2>4, <3>3, <3>4 DEF Chain, O, K, T
  <2> QED
    BY <2>5, <2>6 DEF h
<1>10. Chain(g, d, o, <<>>, M, n) /\ Chain(g, d, <<>>, <<>>, M, n) /\ Chain(g, <<>>, <<>>, <<>>, M, n)
  <2>1. /\ Below(G, D \cup O \cup {}) /\ Below(D, O \cup {}) /\ Below(O, {})
        /\ Below(G \cup D \cup O \cup {}, {n + 1})
        /\ Below(G, D \cup {} \cup {}) /\ Below(D, {} \cup {}) /\ Below({}, {})
        /\ Below(G \cup D \cup {} \cup {}, {n + 1})
        /\ Below(G, {} \cup {} \cup {}) /\ Below({}, {} \cup {})
        /\ Below(G \cup {} \cup {} \cup {}, {n + 1})
    BY <1>2 DEF Below
  <2> QED
    BY <1>2, <2>1, NumbersNone DEF Chain, G, D, O
<1>11. \A f \in WebFrame : f \notin M => Chain(g, <<>>, <<f>>, <<>>, M, n)
  <2> SUFFICES ASSUME NEW f \in WebFrame, f \notin M PROVE Chain(g, <<>>, <<f>>, <<>>, M, n)
    OBVIOUS
  <2>1. Len(<<f>>) = 1 /\ <<f>>[1] = f
    OBVIOUS
  <2>2. \A x \in 1..Len(<<f>>) : <<f>>[x] \notin M
    BY <2>1
  <2>3. Numbers(<<f>>, M) = {} /\ Rising(<<f>>, M)
    BY <2>2 DEF Numbers, Rising
  <2> QED
    BY <1>10, <2>3, NumbersNone DEF Chain
<1> QED
  BY <1>4, <1>5, <1>a, <1>6, <1>7, <1>8, <1>9, <1>10, <1>11

LEMMA SocketTyped ==
  ASSUME NEW s \in SocketState
  PROVE  /\ s.page \in {"none", "connecting", "open", "closed"}
         /\ s.task \in {"none", "reading", "draining", "ended"}
         /\ s.up \in Seq(PageMessage) /\ s.down \in Seq(WebFrame) /\ s.out \in Seq(WebFrame)
         /\ s.forwarders \subseteq WebTopics /\ s.tasks \in [WebTopics -> Seq(Seq(WebFrame))]
         /\ s = [page |-> s.page, task |-> s.task, up |-> s.up, down |-> s.down, out |-> s.out,
                 forwarders |-> s.forwarders, tasks |-> s.tasks]
  BY DEF SocketState

LEMMA WebTyped ==
  ASSUME WebType
  PROVE  /\ \A c \in Ids : sockets[c] \in SocketState
         /\ web.sent \in [WebTopics -> Nat] /\ web.queue \in Seq(PageValue)
         /\ client.socket \in Nat /\ client.opened \in Nat /\ client.listeners \subseteq WebListeners
         /\ page.got \in [WebTopics -> Seq(Nat)] /\ page.taken \in Seq(PageValue)
         /\ page.published \in Nat
         /\ MaxSockets \in Nat
  BY WebAssumption DEF WebType, ServerState, ClientState, PageState

(* A step of one socket, which takes frames away from the page's values    *)
(* and moves the frames of the topics on.                                  *)
LEMMA SocketMoves ==
  ASSUME WebInv, NEW c \in Ids, NEW s \in SocketState, sockets' = [sockets EXCEPT ![c] = s],
         web' = web, page' = page, client' \in ClientState, client'.listeners = client.listeners,
         ClientInv', SocketInv(s), ControlOf(s, client.listeners), Rising(s.up, Sent),
         Numbers(s.up, Sent) \subseteq Numbers(sockets[c].up, Sent),
         \A t \in WebTopics : DownOf(s, page.got[t], t, web.sent[t])
  PROVE  WebInv'
<1>1. /\ \A d \in Ids : sockets'[d] = IF d = c THEN s ELSE sockets[d]
      /\ sockets' \in [Ids -> SocketState]
  BY DEF WebInv, WebType
<1>2. WebType'
  BY <1>1 DEF WebInv, WebType
<1>3. ASSUME NEW d \in Ids
      PROVE  /\ SocketInv(sockets'[d]) /\ ControlOf(sockets'[d], client'.listeners)
             /\ UpOf(d, page'.taken, web'.queue, sockets'[d].up, page'.published)
  <2>1. CASE d = c
    <3>1. UpOf(c, page.taken, web.queue, sockets[c].up, page.published)
      BY DEF WebInv
    <3>2. UpOf(c, page.taken, web.queue, s.up, page.published)
      BY <3>1 DEF UpOf, Below
    <3> QED
      BY <1>1, <2>1, <3>2
  <2>2. CASE d # c
    BY <1>1, <2>2 DEF WebInv
  <2> QED
    BY <2>1, <2>2
<1>4. ASSUME NEW d \in Ids, NEW t \in WebTopics
      PROVE  DownOf(sockets'[d], page'.got[t], t, web'.sent[t])
  BY <1>1 DEF WebInv
<1> QED
  BY <1>2, <1>3, <1>4 DEF WebInv

(* Such a step keeps the client's socket when it neither opens nor forgets *)
(* one.                                                                    *)
LEMMA ClientKeeps ==
  ASSUME WebInv, NEW c \in Ids, NEW s \in SocketState, sockets' = [sockets EXCEPT ![c] = s],
         client'.socket = client.socket, client'.opened = client.opened, client'.wasm = client.wasm,
         client'.timer = client.timer,
         (s.page = "none") <=> (sockets[c].page = "none"), Active(s) => Active(sockets[c])
  PROVE  ClientInv'
<1>1. \A d \in Ids : sockets'[d] = IF d = c THEN s ELSE sockets[d]
  BY DEF WebInv, WebType
<1>2. \A d \in Ids : /\ (sockets'[d].page = "none") <=> (sockets[d].page = "none")
                     /\ Active(sockets'[d]) => Active(sockets[d])
  BY <1>1
<1> QED
  BY <1>2 DEF WebInv, ClientInv

(* Control frames: one more at the end decides for its topics, and the     *)
(* first one leaves the queue for the forwarders.                          *)
LEMMA TracksGrow ==
  ASSUME NEW q, NEW r, NEW e, NEW F, NEW t, NEW was \in BOOLEAN, NEW wanted \in BOOLEAN,
         Grows(q, r, e), Tracks(q, F, t, was),
         e \in Sent \/ t \notin e.topics => (was <=> wanted),
         e \notin Sent /\ t \in e.topics => ((e.type = "subscribe") <=> wanted)
  PROVE  Tracks(r, F, t, wanted)
<1>1. /\ Len(r) = Len(q) + 1 /\ r[Len(q) + 1] = e
      /\ \A i \in 1..Len(q) : r[i] = q[i]
      /\ Len(q) \in Nat
  BY DEF Grows
<1>2. /\ \A i \in 1..Len(r) : i \in 1..Len(q) \/ i = Len(q) + 1
      /\ \A i \in 1..Len(q) : i \in 1..Len(r)
      /\ Len(q) + 1 \in 1..Len(r)
  BY <1>1
<1>3. ASSUME e \in Sent \/ t \notin e.topics PROVE Tracks(r, F, t, wanted)
  <2>1. About(r, t) = About(q, t)
    BY <1>1, <1>2, <1>3 DEF About
  <2>2. \A x \in About(q, t) : r[x] = q[x]
    BY <1>1 DEF About
  <2> QED
    BY <1>3, <2>1, <2>2 DEF Tracks
<1>4. ASSUME e \notin Sent, t \in e.topics PROVE Tracks(r, F, t, wanted)
  <2>1. Len(q) + 1 \in About(r, t)
    BY <1>1, <1>2, <1>4 DEF About
  <2>2. ASSUME NEW x \in About(r, t), \A y \in About(r, t) : y <= x
        PROVE  x = Len(q) + 1
    <3>1. x \in 1..Len(r) /\ Len(q) + 1 <= x
      BY <2>1, <2>2 DEF About
    <3> QED
      BY <1>1, <3>1
  <2>3. \A x \in About(r, t) : (\A y \in About(r, t) : y <= x) => ((r[x].type = "subscribe") <=> wanted)
    BY <1>1, <1>4, <2>2
  <2> QED
    BY <2>1, <2>3 DEF Tracks
<1> QED
  BY <1>3, <1>4

LEMMA TracksShrink ==
  ASSUME NEW q, NEW r, NEW h, NEW F, NEW G, NEW t, NEW wanted \in BOOLEAN,
         Shrinks(q, r, h), Tracks(q, F, t, wanted),
         h \in Sent \/ t \notin h.topics => ((t \in G) <=> (t \in F)),
         h \notin Sent /\ t \in h.topics => ((t \in G) <=> (h.type = "subscribe"))
  PROVE  Tracks(r, G, t, wanted)
<1>1. /\ Len(r) = Len(q) - 1
      /\ \A i \in 1..Len(r) : r[i] = q[i + 1]
      /\ h = q[1] /\ Len(q) \in Nat /\ Len(q) >= 1
  BY DEF Shrinks
<1>2. \A i \in 1..Len(q) : i = 1 \/ (i - 1 \in 1..Len(r) /\ r[i - 1] = q[i])
  <2> SUFFICES ASSUME NEW i \in 1..Len(q), i # 1 PROVE i - 1 \in 1..Len(r) /\ r[i - 1] = q[i]
    OBVIOUS
  <2>1. i - 1 \in 1..Len(r) /\ (i - 1) + 1 = i
    BY <1>1
  <2> QED
    BY <1>1, <2>1
<1>3. /\ 1 \in 1..Len(q)
      /\ \A i \in 1..Len(r) : i + 1 \in 1..Len(q) /\ r[i] = q[i + 1]
  BY <1>1
<1>4. ASSUME NEW x \in About(r, t) PROVE x + 1 \in About(q, t) /\ q[x + 1] = r[x] /\ x \in Nat
  BY <1>1, <1>3, <1>4 DEF About
<1>5. ASSUME NEW x \in About(q, t), x # 1 PROVE x - 1 \in About(r, t)
  BY <1>2, <1>5 DEF About
<1>6. ASSUME NEW x \in About(r, t), \A y \in About(r, t) : y <= x
      PROVE  (r[x].type = "subscribe") <=> wanted
  <2>1. ASSUME NEW y \in About(q, t) PROVE y <= x + 1
    <3>1. x \in Nat /\ y \in Nat
      BY <1>4, <1>1 DEF About
    <3>2. CASE y = 1
      BY <3>1, <3>2
    <3>3. CASE y # 1
      <4>1. y - 1 <= x
        BY <1>5, <1>6, <3>3
      <4> QED
        BY <3>1, <4>1
    <3> QED
      BY <3>2, <3>3
  <2> QED
    BY <1>4, <2>1 DEF Tracks
<1>7. ASSUME About(r, t) = {}, h \in Sent \/ t \notin h.topics PROVE (t \in F) <=> wanted
  <2>1. About(q, t) = {}
    <3> SUFFICES ASSUME NEW x \in About(q, t) PROVE FALSE
      OBVIOUS
    <3>1. x = 1
      BY <1>5, <1>7
    <3> QED
      BY <1>1, <1>7, <3>1 DEF About
  <2> QED
    BY <2>1 DEF Tracks
<1>8. ASSUME About(r, t) = {}, h \notin Sent, t \in h.topics PROVE (h.type = "subscribe") <=> wanted
  <2>1. 1 \in About(q, t)
    BY <1>1, <1>3, <1>8 DEF About
  <2>2. \A x \in About(q, t) : x = 1
    BY <1>5, <1>8
  <2>3. \A y \in About(q, t) : y <= 1
    BY <2>2
  <2> QED
    BY <1>1, <2>1, <2>3 DEF Tracks
<1>9. About(r, t) = {} => ((t \in G) <=> wanted)
  BY <1>7, <1>8
<1> QED
  BY <1>6, <1>9 DEF Tracks

LEMMA TaskOf ==
  ASSUME NEW s \in SocketState, SocketInv(s), NEW t \in WebTopics
  PROVE  /\ Task(s, t) \in Seq(WebFrame)
         /\ t \notin s.forwarders => s.tasks[t] = <<>> /\ Task(s, t) = <<>>
         /\ t \in s.forwarders => Len(s.tasks[t]) = 1 /\ Task(s, t) = s.tasks[t][1] /\ s.tasks[t] # <<>>
<1>1. s.tasks[t] \in Seq(Seq(WebFrame))
  BY SocketTyped
<1>2. CASE t \in s.forwarders
  <2>1. Len(s.tasks[t]) = 1
    BY <1>2 DEF SocketInv
  <2>2. s.tasks[t] # <<>>
    BY <2>1
  <2>3. s.tasks[t][1] \in Seq(WebFrame)
    BY <1>1, <2>1
  <2> QED
    BY <1>2, <2>1, <2>2, <2>3 DEF Task
<1>3. CASE t \notin s.forwarders
  <2>1. s.tasks[t] = <<>>
    BY <1>1, <1>3, EmptySeq DEF SocketInv
  <2>2. Task(s, t) = <<>>
    BY <2>1 DEF Task
  <2> QED
    BY <1>3, <2>1, <2>2
<1> QED
  BY <1>2, <1>3

(* What the invariant says of one socket. *)
LEMMA WebFacts ==
  ASSUME WebInv, NEW c \in Ids
  PROVE  /\ sockets[c] \in SocketState /\ SocketInv(sockets[c])
         /\ ControlOf(sockets[c], client.listeners)
         /\ Rising(sockets[c].up, Sent)
         /\ \A t \in WebTopics : /\ page.got[t] \in Seq(Nat) /\ web.sent[t] \in Nat
                                 /\ Task(sockets[c], t) \in Seq(WebFrame)
                                 /\ DownOf(sockets[c], page.got[t], t, web.sent[t])
         /\ \A t \in WebTopics : \A m \in FramesOf(t) : m.n \in Nat
<1>1. sockets[c] \in SocketState /\ SocketInv(sockets[c])
  BY WebTyped DEF WebInv
<1>2. \A t \in WebTopics : page.got[t] \in Seq(Nat) /\ web.sent[t] \in Nat
  BY WebTyped DEF WebInv
<1>3. \A t \in WebTopics : Task(sockets[c], t) \in Seq(WebFrame)
  BY <1>1, TaskOf
<1>4. \A t \in WebTopics : \A m \in FramesOf(t) : m.n \in Nat
  BY DEF FramesOf
<1> QED
  BY <1>1, <1>2, <1>3, <1>4 DEF WebInv, UpOf

(* The chain of an active socket may move as ChainMoves says; the page's   *)
(* own part stands by itself.                                              *)
LEMMA ChainOf ==
  ASSUME WebInv, NEW c \in Ids, NEW t \in WebTopics, Active(sockets[c])
  PROVE  LET s == sockets[c]
             g == page.got[t]
             k == Task(s, t)
             n == web.sent[t]
             M == FramesOf(t)
         IN /\ \A f \in WebFrame : f \in M /\ f.n = n + 1 => Chain(g, s.down, s.out, Append(k, f), M, n + 1)
            /\ \A f \in WebFrame : f \notin M => Chain(g, s.down, s.out, Append(k, f), M, n)
            /\ \A f \in WebFrame : f \notin M => Chain(g, s.down, Append(s.out, f), k, M, n)
            /\ Chain(g, s.down, s.out, k, M, n)
            /\ Chain(g, s.down, s.out, k, M, n + 1)
            /\ k # <<>> => /\ Chain(g, s.down, s.out, Tail(k), M, n)
                           /\ Chain(g, s.down, Append(s.out, Head(k)), Tail(k), M, n)
            /\ s.out # <<>> => /\ Chain(g, s.down, Tail(s.out), k, M, n)
                               /\ Chain(g, Append(s.down, Head(s.out)), Tail(s.out), k, M, n)
            /\ s.down # <<>> => /\ Chain(g, Tail(s.down), s.out, k, M, n)
                                /\ Head(s.down) \in M =>
                                     Chain(Append(g, Head(s.down).n), Tail(s.down), s.out, k, M, n)
            /\ Chain(g, s.down, s.out, <<>>, M, n) /\ Chain(g, s.down, <<>>, <<>>, M, n)
            /\ Chain(g, <<>>, <<>>, <<>>, M, n)
            /\ \A f \in WebFrame : f \notin M => Chain(g, <<>>, <<f>>, <<>>, M, n)
<1> DEFINE s == sockets[c]
           g == page.got[t]
           k == Task(s, t)
           n == web.sent[t]
           M == FramesOf(t)
<1>1. /\ g \in Seq(Nat) /\ s.down \in Seq(WebFrame) /\ s.out \in Seq(WebFrame) /\ k \in Seq(WebFrame)
      /\ \A m \in M : m.n \in Nat
      /\ n \in Nat /\ Chain(g, s.down, s.out, k, M, n)
  BY WebFacts, SocketTyped DEF DownOf
<1> DEFINE d == s.down
           o == s.out
<1> HIDE DEF g, k, n, M, d, o
<1>2. /\ g \in Seq(Nat) /\ d \in Seq(WebFrame) /\ o \in Seq(WebFrame) /\ k \in Seq(WebFrame)
      /\ \A m \in M : m.n \in Nat
      /\ n \in Nat /\ Chain(g, d, o, k, M, n)
  BY <1>1 DEF d, o
<1>3. /\ \A f \in WebFrame : f \in M /\ f.n = n + 1 => Chain(g, d, o, Append(k, f), M, n + 1)
      /\ \A f \in WebFrame : f \notin M => Chain(g, d, o, Append(k, f), M, n)
      /\ \A f \in WebFrame : f \notin M => Chain(g, d, Append(o, f), k, M, n)
      /\ Chain(g, d, o, k, M, n + 1)
      /\ k # <<>> => Chain(g, d, o, Tail(k), M, n) /\ Chain(g, d, Append(o, Head(k)), Tail(k), M, n)
      /\ o # <<>> => Chain(g, d, Tail(o), k, M, n) /\ Chain(g, Append(d, Head(o)), Tail(o), k, M, n)
      /\ d # <<>> => /\ Chain(g, Tail(d), o, k, M, n)
                     /\ Head(d) \in M => Chain(Append(g, Head(d).n), Tail(d), o, k, M, n)
      /\ Chain(g, d, o, <<>>, M, n) /\ Chain(g, d, <<>>, <<>>, M, n) /\ Chain(g, <<>>, <<>>, <<>>, M, n)
      /\ \A f \in WebFrame : f \notin M => Chain(g, <<>>, <<f>>, <<>>, M, n)
  BY <1>2, ChainMoves
<1> QED
  BY <1>2, <1>3 DEF g, k, n, M, d, o

LEMMA AcceptStep ==
  ASSUME WebInv, NEW c \in Ids, Accept(c)
  PROVE  WebInv'
<1> DEFINE o == sockets[c]
           s == [o EXCEPT !.task = "reading", !.out = <<Hello>>]
<1>1. /\ o \in SocketState /\ SocketInv(o) /\ Rising(o.up, Sent)
  BY WebFacts
<1>2. /\ o.page = "connecting" /\ o.task = "none" /\ web' = web /\ client' = client /\ page' = page
      /\ sockets' = [sockets EXCEPT ![c].task = "reading", ![c].out = <<Hello>>]
  BY <1>1 DEF Accept, SocketInv
<1>3. Hello \in WebFrame /\ \A t \in WebTopics : Hello \notin FramesOf(t)
  BY DEF Hello, WebFrame, FramesOf
<1>4. <<Hello>> \in Seq(WebFrame)
  BY <1>3
<1>5. sockets' = [sockets EXCEPT ![c] = s]
  BY <1>1, <1>2 DEF WebInv, WebType
<1>6. /\ s.page = o.page /\ s.task = "reading" /\ s.up = o.up /\ s.down = o.down /\ s.out = <<Hello>>
      /\ s.forwarders = o.forwarders /\ s.tasks = o.tasks
  BY <1>1 DEF SocketState
<1>7. s \in SocketState
  BY <1>1, <1>4 DEF SocketState
<1> HIDE DEF s, o
<1>8. \A t \in WebTopics : Task(s, t) = Task(o, t)
  BY <1>6 DEF Task
<1>9. SocketInv(s)
  BY <1>1, <1>2, <1>6, <1>8 DEF SocketInv
<1>10. ControlOf(s, client.listeners)
  BY <1>2, <1>6 DEF ControlOf
<1>11. Active(s) /\ Active(o)
  BY <1>2, <1>6 DEF Active
<1>12. ASSUME NEW t \in WebTopics PROVE DownOf(s, page.got[t], t, web.sent[t])
  <2>1. s.down = <<>> /\ Task(s, t) = <<>>
    BY <1>1, <1>2, <1>6, <1>8, TaskOf DEF SocketInv
  <2>2. /\ Chain(page.got[t], <<>>, <<Hello>>, <<>>, FramesOf(t), web.sent[t])
        /\ Chain(page.got[t], <<>>, <<>>, <<>>, FramesOf(t), web.sent[t])
    BY <1>3, <1>11, ChainOf DEF o
  <2> QED
    BY <1>6, <2>1, <2>2 DEF DownOf
<1>13. ClientInv'
  BY <1>2, <1>5, <1>6, <1>7, <1>11, ClientKeeps DEF o
<1>14. client' \in ClientState
  BY <1>2 DEF WebInv, WebType
<1> QED
  BY <1>1, <1>2, <1>5, <1>6, <1>7, <1>9, <1>10, <1>12, <1>13, <1>14, SocketMoves DEF o

(* A control frame or a value of the page is read. *)
LEMMA ArrivedFacts ==
  ASSUME WebInv, NEW c \in Ids, NEW type, FrameArrived(c, type)
  PROVE  LET o == sockets[c]
             h == Head(o.up)
         IN /\ o \in SocketState /\ SocketInv(o) /\ o.task = "reading" /\ o.page \notin {"none", "connecting"}
            /\ h \in PageMessage /\ h.type = type /\ Tail(o.up) \in Seq(PageMessage)
            /\ Shrinks(o.up, Tail(o.up), h)
            /\ Rising(Tail(o.up), Sent) /\ Numbers(Tail(o.up), Sent) \subseteq Numbers(o.up, Sent)
            /\ type = "data" => h \in Sent
            /\ type # "data" => h \notin Sent /\ h.topics \subseteq WebTopics
<1> DEFINE o == sockets[c]
           h == Head(o.up)
<1>1. o \in SocketState /\ SocketInv(o) /\ Rising(o.up, Sent) /\ o.up \in Seq(PageMessage)
  BY WebFacts, SocketTyped
<1>2. o.task = "reading" /\ o.up # <<>> /\ h.type = type
  BY DEF FrameArrived
<1>3. o.page \notin {"none", "connecting"}
  BY <1>1, <1>2 DEF SocketInv
<1>4. h \in PageMessage /\ Tail(o.up) \in Seq(PageMessage) /\ Shrinks(o.up, Tail(o.up), h)
  BY <1>1, <1>2, MessagesMove
<1> HIDE DEF h
<1>5. /\ type = "data" => h \in Sent
      /\ type # "data" => h \notin Sent /\ h.topics \subseteq WebTopics
  BY <1>2, <1>4 DEF PageMessage, Sent
<1>6. Rising(Tail(o.up), Sent)
  BY <1>1, <1>4, RisingShrink
<1>7. Numbers(Tail(o.up), Sent) \subseteq Numbers(o.up, Sent)
  <2>1. /\ h \in Sent => Numbers(o.up, Sent) = Numbers(Tail(o.up), Sent) \cup {h.n}
        /\ h \notin Sent => Numbers(o.up, Sent) = Numbers(Tail(o.up), Sent)
    BY <1>4, NumbersShrink
  <2> QED
    BY <2>1
<1> QED
  BY <1>1, <1>2, <1>3, <1>4, <1>5, <1>6, <1>7 DEF h

LEMMA ServerSubscribeStep ==
  ASSUME WebInv, NEW c \in Ids, ServerSubscribe(c)
  PROVE  WebInv'
<1> DEFINE o == sockets[c]
           h == Head(o.up)
           fresh == h.topics \ o.forwarders
           tasks == [t \in WebTopics |-> IF t \in fresh THEN Append(o.tasks[t], <<>>) ELSE o.tasks[t]]
           r == Tail(o.up)
           F == o.forwarders \cup fresh
           s == [o EXCEPT !.up = r, !.forwarders = F, !.tasks = tasks]
<1>1. FrameArrived(c, "subscribe")
  BY DEF ServerSubscribe
<1>2. /\ o \in SocketState /\ SocketInv(o) /\ o.task = "reading" /\ o.page \notin {"none", "connecting"}
      /\ h \in PageMessage /\ h.type = "subscribe" /\ r \in Seq(PageMessage)
      /\ Shrinks(o.up, r, h) /\ Rising(r, Sent) /\ Numbers(r, Sent) \subseteq Numbers(o.up, Sent)
      /\ h \notin Sent /\ h.topics \subseteq WebTopics
  BY <1>1, ArrivedFacts
<1>3. /\ o.tasks \in [WebTopics -> Seq(Seq(WebFrame))] /\ o.forwarders \subseteq WebTopics
  BY <1>2, SocketTyped
<1>4. /\ sockets' = [sockets EXCEPT ![c].up = r, ![c].forwarders = F, ![c].tasks = tasks]
      /\ web' = web /\ client' = client /\ page' = page
  BY DEF ServerSubscribe
<1>5. tasks \in [WebTopics -> Seq(Seq(WebFrame))]
  <2>1. <<>> \in Seq(WebFrame)
    OBVIOUS
  <2> DEFINE none == <<>>
  <2> HIDE DEF none
  <2>2. \A t \in WebTopics : Append(o.tasks[t], none) \in Seq(Seq(WebFrame))
    BY <1>3, <2>1 DEF none
  <2> QED
    BY <1>3, <2>2 DEF none
<1>6. F \subseteq WebTopics /\ F = o.forwarders \cup h.topics
  BY <1>2, <1>3
<1>7. \A t \in WebTopics : tasks[t] = IF t \in fresh THEN Append(o.tasks[t], <<>>) ELSE o.tasks[t]
  OBVIOUS
<1> HIDE DEF tasks, r, F
<1>8. sockets' = [sockets EXCEPT ![c] = s]
  BY <1>2, <1>4 DEF WebInv, WebType
<1>9. /\ s.page = o.page /\ s.task = o.task /\ s.up = r /\ s.down = o.down /\ s.out = o.out
      /\ s.forwarders = F /\ s.tasks = tasks
  BY <1>2 DEF SocketState
<1>10. s \in SocketState
  BY <1>2, <1>5, <1>6 DEF SocketState
<1> HIDE DEF s
<1>11. ASSUME NEW t \in WebTopics
       PROVE  Task(s, t) = Task(o, t) /\ Len(s.tasks[t]) = IF t \in F THEN 1 ELSE 0
  <2>1. CASE t \in fresh
    <3>1. o.tasks[t] = <<>> /\ Task(o, t) = <<>>
      BY <1>2, <2>1, TaskOf
    <3> DEFINE none == <<>>
    <3>a. none \in Seq(Seq(WebFrame)) /\ none \in Seq(WebFrame) /\ Len(none) = 0
      OBVIOUS
    <3> HIDE DEF none
    <3>b. tasks[t] = Append(none, none)
      BY <1>7, <2>1, <3>1 DEF none
    <3>c. Len(tasks[t]) = 1 /\ tasks[t][1] = none
      BY <3>a, <3>b, AppendProperties
    <3>2. Len(tasks[t]) = 1 /\ tasks[t][1] = <<>> /\ tasks[t] # <<>>
      BY <3>c DEF none
    <3> QED
      BY <1>9, <2>1, <3>1, <3>2 DEF Task, F
  <2>2. CASE t \notin fresh
    BY <1>2, <1>7, <1>9, <2>2 DEF Task, F, SocketInv
  <2> QED
    BY <2>1, <2>2
<1>12. SocketInv(s)
  BY <1>2, <1>9, <1>11 DEF SocketInv
<1>13. ControlOf(s, client.listeners)
  <2> SUFFICES ASSUME s.page = "open", NEW t \in WebTopics
               PROVE  Tracks(r, F, t, HasTopicListener(client.listeners, t))
    BY <1>9 DEF ControlOf
  <2> DEFINE wanted == HasTopicListener(client.listeners, t)
  <2>1. Tracks(o.up, o.forwarders, t, wanted)
    BY <1>2, <1>9, WebFacts DEF ControlOf
  <2>2. wanted \in BOOLEAN
    BY DEF HasTopicListener
  <2> HIDE DEF wanted
  <2> DEFINE A == o.forwarders
             q == o.up
  <2>a. Shrinks(q, r, h) /\ h \notin Sent /\ h.type = "subscribe" /\ Tracks(q, A, t, wanted)
    BY <1>2, <2>1
  <2>b. F = A \cup h.topics
    BY <1>6
  <2> HIDE DEF h, A, q
  <2>3. Tracks(r, F, t, wanted)
    BY <2>a, <2>b, <2>2, TracksShrink
  <2> QED
    BY <2>3 DEF wanted
<1>14. ASSUME NEW t \in WebTopics PROVE DownOf(s, page.got[t], t, web.sent[t])
  <2>1. DownOf(o, page.got[t], t, web.sent[t])
    BY WebFacts
  <2> QED
    BY <1>9, <1>11, <2>1 DEF DownOf, Active
<1>15. ClientInv'
  BY <1>4, <1>8, <1>9, <1>10, ClientKeeps DEF Active
<1>16. client' \in ClientState
  BY <1>4 DEF WebInv, WebType
<1> QED
  BY <1>2, <1>4, <1>8, <1>9, <1>10, <1>12, <1>13, <1>14, <1>15, <1>16, SocketMoves

LEMMA ServerUnsubscribeStep ==
  ASSUME WebInv, NEW c \in Ids, ServerUnsubscribe(c)
  PROVE  WebInv'
<1> DEFINE o == sockets[c]
           h == Head(o.up)
           tasks == [t \in WebTopics |-> IF t \in h.topics THEN <<>> ELSE o.tasks[t]]
           r == Tail(o.up)
           F == o.forwarders \ h.topics
           s == [o EXCEPT !.up = r, !.forwarders = F, !.tasks = tasks]
<1>1. FrameArrived(c, "unsubscribe")
  BY DEF ServerUnsubscribe
<1>2. /\ o \in SocketState /\ SocketInv(o) /\ o.task = "reading" /\ o.page \notin {"none", "connecting"}
      /\ h \in PageMessage /\ h.type = "unsubscribe" /\ r \in Seq(PageMessage)
      /\ Shrinks(o.up, r, h) /\ Rising(r, Sent) /\ Numbers(r, Sent) \subseteq Numbers(o.up, Sent)
      /\ h \notin Sent /\ h.topics \subseteq WebTopics
  BY <1>1, ArrivedFacts
<1>3. /\ o.tasks \in [WebTopics -> Seq(Seq(WebFrame))] /\ o.forwarders \subseteq WebTopics
  BY <1>2, SocketTyped
<1>4. /\ sockets' = [sockets EXCEPT ![c].up = r, ![c].forwarders = F, ![c].tasks = tasks]
      /\ web' = web /\ client' = client /\ page' = page
  BY DEF ServerUnsubscribe
<1>5. tasks \in [WebTopics -> Seq(Seq(WebFrame))] /\ F \subseteq WebTopics
  BY <1>3
<1>6. \A t \in WebTopics : tasks[t] = IF t \in h.topics THEN <<>> ELSE o.tasks[t]
  OBVIOUS
<1> HIDE DEF tasks, r, F
<1>8. sockets' = [sockets EXCEPT ![c] = s]
  BY <1>2, <1>4 DEF WebInv, WebType
<1>9. /\ s.page = o.page /\ s.task = o.task /\ s.up = r /\ s.down = o.down /\ s.out = o.out
      /\ s.forwarders = F /\ s.tasks = tasks
  BY <1>2 DEF SocketState
<1>10. s \in SocketState
  BY <1>2, <1>5 DEF SocketState
<1> HIDE DEF s
<1>11. ASSUME NEW t \in WebTopics
       PROVE  /\ Task(s, t) = Task(o, t) \/ Task(s, t) = <<>>
              /\ Len(s.tasks[t]) = IF t \in F THEN 1 ELSE 0
  <2>1. CASE t \in h.topics
    BY <1>6, <1>9, <2>1 DEF Task, F
  <2>2. CASE t \notin h.topics
    BY <1>2, <1>6, <1>9, <2>2 DEF Task, F, SocketInv
  <2> QED
    BY <2>1, <2>2
<1>12. SocketInv(s)
  BY <1>2, <1>9, <1>11 DEF SocketInv
<1>13. ControlOf(s, client.listeners)
  <2> SUFFICES ASSUME s.page = "open", NEW t \in WebTopics
               PROVE  Tracks(r, F, t, HasTopicListener(client.listeners, t))
    BY <1>9 DEF ControlOf
  <2> DEFINE wanted == HasTopicListener(client.listeners, t)
  <2>1. Tracks(o.up, o.forwarders, t, wanted)
    BY <1>2, <1>9, WebFacts DEF ControlOf
  <2>2. wanted \in BOOLEAN
    BY DEF HasTopicListener
  <2> HIDE DEF wanted
  <2> DEFINE A == o.forwarders
             q == o.up
  <2>a. Shrinks(q, r, h) /\ h \notin Sent /\ h.type # "subscribe" /\ Tracks(q, A, t, wanted)
    BY <1>2, <2>1
  <2>b. F = A \ h.topics
    BY DEF F
  <2> HIDE DEF h, A, q
  <2>3. Tracks(r, F, t, wanted)
    BY <2>a, <2>b, <2>2, TracksShrink
  <2> QED
    BY <2>3 DEF wanted
<1>14. ASSUME NEW t \in WebTopics PROVE DownOf(s, page.got[t], t, web.sent[t])
  <2>1. DownOf(o, page.got[t], t, web.sent[t])
    BY WebFacts
  <2>2. Active(o) => Chain(page.got[t], o.down, o.out, <<>>, FramesOf(t), web.sent[t])
    BY ChainOf
  <2> QED
    BY <1>9, <1>11, <2>1, <2>2 DEF DownOf, Active
<1>15. ClientInv'
  BY <1>4, <1>8, <1>9, <1>10, ClientKeeps DEF Active
<1>16. client' \in ClientState
  BY <1>4 DEF WebInv, WebType
<1> QED
  BY <1>2, <1>4, <1>8, <1>9, <1>10, <1>12, <1>13, <1>14, <1>15, <1>16, SocketMoves

LEMMA ForwardStep ==
  ASSUME WebInv, NEW c \in Ids, NEW topic \in WebTopics, Forward(c, topic)
  PROVE  WebInv'
<1> DEFINE o == sockets[c]
           k == Task(o, topic)
           out == IF Len(o.out) < OutboundCapacity THEN Append(o.out, Head(k)) ELSE o.out
           w == [o.tasks[topic] EXCEPT ![1] = Tail(k)]
           tasks == [o.tasks EXCEPT ![topic] = w]
           s == [o EXCEPT !.tasks = tasks, !.out = out]
<1>1. /\ o \in SocketState /\ SocketInv(o) /\ Rising(o.up, Sent)
      /\ o.tasks \in [WebTopics -> Seq(Seq(WebFrame))] /\ o.out \in Seq(WebFrame)
      /\ k \in Seq(WebFrame)
  BY WebFacts, SocketTyped
<1>2. PICK x \in DOMAIN o.tasks[topic] :
        /\ o.tasks[topic][x] # <<>>
        /\ sockets' = [sockets EXCEPT
             ![c].tasks[topic][x] = Tail(@),
             ![c].out = IF Len(@) < OutboundCapacity THEN Append(@, Head(o.tasks[topic][x])) ELSE @]
        /\ web' = web /\ client' = client /\ page' = page
  BY DEF Forward
<1>3. topic \in o.forwarders /\ x = 1 /\ k = o.tasks[topic][1] /\ Len(o.tasks[topic]) = 1
  <2>1. o.tasks[topic] # <<>>
    BY <1>2
  <2>2. topic \in o.forwarders
    BY <1>1, <2>1, TaskOf
  <2>3. Len(o.tasks[topic]) = 1 /\ k = o.tasks[topic][1]
    BY <1>1, <2>2, TaskOf
  <2>4. DOMAIN o.tasks[topic] = 1..Len(o.tasks[topic])
    BY <1>1
  <2> QED
    BY <1>2, <2>2, <2>3, <2>4
<1>4. k # <<>> /\ Head(k) \in WebFrame /\ Tail(k) \in Seq(WebFrame) /\ Shrinks(k, Tail(k), Head(k))
  BY <1>1, <1>2, <1>3, FramesMove
<1>5. out \in Seq(WebFrame)
  BY <1>1, <1>4, FramesMove
<1>w. w \in Seq(Seq(WebFrame)) /\ Len(w) = 1 /\ w[1] = Tail(k)
  <2> DEFINE z == o.tasks[topic]
             v == Tail(k)
             B == Seq(WebFrame)
  <2>1. z \in Seq(B) /\ Len(z) = 1 /\ v \in B /\ 1 \in 1..Len(z)
    BY <1>1, <1>3, <1>4
  <2>2. w = [z EXCEPT ![1] = v]
    OBVIOUS
  <2> HIDE DEF z, v, w, B
  <2>3. z \in [1..1 -> B]
    BY <2>1, LenProperties
  <2>4. w \in [1..1 -> B] /\ w[1] = v
    BY <2>1, <2>2, <2>3
  <2>5. w \in Seq(B)
    <3> DEFINE n == 1
    <3>1. n \in Nat /\ w \in [1..n -> B]
      BY <2>4
    <3> HIDE DEF n
    <3> QED
      BY <3>1, SeqDef
  <2>6. Len(w) = 1
    BY <2>4, <2>5, LenProperties
  <2> QED
    BY <2>4, <2>5, <2>6 DEF v, B
<1> HIDE DEF w
<1>6. /\ tasks \in [WebTopics -> Seq(Seq(WebFrame))]
      /\ tasks[topic] = w
      /\ \A t \in WebTopics : t # topic => tasks[t] = o.tasks[t]
  BY <1>1, <1>w
<1>7. Len(tasks[topic]) = 1 /\ tasks[topic][1] = Tail(k) /\ tasks[topic] # <<>>
  <2>1. Len(tasks[topic]) = 1 /\ tasks[topic][1] = Tail(k)
    BY <1>w, <1>6
  <2> QED
    BY <2>1
<1>8. sockets' = [sockets EXCEPT ![c] = s]
  <2>1. sockets \in [Ids -> SocketState]
    BY DEF WebInv, WebType
  <2> DEFINE A == [sockets EXCEPT ![c].tasks[topic][1] = Tail(@)]
             e == IF Len(o.out) < OutboundCapacity THEN Append(o.out, Head(k)) ELSE o.out
  <2>2. A = [sockets EXCEPT ![c] = [o EXCEPT !.tasks = tasks]]
    BY <1>3 DEF tasks, w
  <2>3. sockets' = [A EXCEPT ![c].out =
                      IF Len(@) < OutboundCapacity THEN Append(@, Head(o.tasks[topic][1])) ELSE @]
    BY <1>2, <1>3
  <2> HIDE DEF A, tasks, w
  <2>4. A[c] = [o EXCEPT !.tasks = tasks] /\ A[c].out = o.out
    BY <1>1, <2>1, <2>2 DEF SocketState
  <2>5. sockets' = [A EXCEPT ![c].out = out]
    BY <1>3, <2>3, <2>4
  <2>6. sockets' = [A EXCEPT ![c] = [A[c] EXCEPT !.out = out]]
    BY <2>5
  <2> HIDE DEF out
  <2>7. [A[c] EXCEPT !.out = out] = s
    BY <1>1, <2>4 DEF SocketState
  <2> QED
    BY <2>1, <2>2, <2>6, <2>7
<1> HIDE DEF out, tasks
<1>9. /\ s.page = o.page /\ s.task = o.task /\ s.up = o.up /\ s.down = o.down /\ s.out = out
      /\ s.forwarders = o.forwarders /\ s.tasks = tasks
  BY <1>1 DEF SocketState
<1>10. s \in SocketState
  BY <1>1, <1>5, <1>6 DEF SocketState
<1> HIDE DEF s, k
<1>11. /\ Task(s, topic) = Tail(k)
       /\ \A t \in WebTopics : t # topic => Task(s, t) = Task(o, t)
       /\ \A t \in WebTopics : Len(s.tasks[t]) = Len(o.tasks[t])
  BY <1>3, <1>6, <1>7, <1>9 DEF Task
<1>12. \A y \in 1..Len(k) : k[y].topic = topic
  BY <1>1 DEF k, SocketInv
<1>13. /\ \A y \in 1..Len(Tail(k)) : Tail(k)[y].topic = topic
       /\ \A t \in WebTopics : t # topic => Head(k) \notin FramesOf(t)
  <2>1. /\ \A y \in 1..Len(Tail(k)) : Tail(k)[y] = k[y + 1] /\ y + 1 \in 1..Len(k)
        /\ Head(k) = k[1] /\ 1 \in 1..Len(k)
    BY <1>4 DEF Shrinks
  <2>2. Head(k).topic = topic
    BY <1>12, <2>1
  <2> QED
    BY <1>12, <2>1, <2>2 DEF FramesOf
<1>14. SocketInv(s)
  <2>1. \A t \in WebTopics : \A y \in 1..Len(Task(s, t)) : Task(s, t)[y].topic = t
    BY <1>1, <1>11, <1>13, ZenonT(40) DEF SocketInv
  <2>2. s.page = "none" => s.out = <<>>
    <3>1. o.page # "none"
      BY <1>1, <1>3 DEF SocketInv
    <3> QED
      BY <1>9, <3>1
  <2> QED
    BY <1>1, <1>9, <1>11, <2>1, <2>2 DEF SocketInv
<1>15. ControlOf(s, client.listeners)
  BY <1>9, WebFacts DEF ControlOf
<1>16. ASSUME NEW t \in WebTopics PROVE DownOf(s, page.got[t], t, web.sent[t])
  <2> DEFINE g == page.got[t]
             M == FramesOf(t)
             n == web.sent[t]
             d == o.down
  <2>0. Chain(g, <<>>, <<>>, <<>>, M, n)
    BY WebFacts DEF DownOf
  <2> SUFFICES ASSUME Active(o) PROVE Chain(g, d, out, Task(s, t), M, n)
    BY <1>9, <2>0 DEF DownOf, Active
  <2>1. CASE t = topic
    <3>1. Chain(g, d, o.out, Tail(k), M, n) /\ Chain(g, d, Append(o.out, Head(k)), Tail(k), M, n)
      BY <1>4, <2>1, ChainOf DEF k
    <3> QED
      BY <1>11, <2>1, <3>1 DEF out
  <2>2. CASE t # topic
    <3>1. /\ Chain(g, d, o.out, Task(o, t), M, n)
          /\ \A f \in WebFrame : f \notin M => Chain(g, d, Append(o.out, f), Task(o, t), M, n)
      BY ChainOf
    <3>2. Chain(g, d, Append(o.out, Head(k)), Task(o, t), M, n)
      BY <1>4, <1>13, <2>2, <3>1
    <3> QED
      BY <1>11, <2>2, <3>1, <3>2 DEF out
  <2> QED
    BY <2>1, <2>2
<1>17. ClientInv'
  BY <1>2, <1>8, <1>9, <1>10, ClientKeeps, ZenonT(40) DEF Active
<1>18. client' \in ClientState
  BY <1>2 DEF WebInv, WebType
<1> QED
  BY <1>1, <1>2, <1>8, <1>9, <1>10, <1>14, <1>15, <1>16, <1>17, <1>18, SocketMoves

LEMMA WriteFrameStep ==
  ASSUME WebInv, NEW c \in Ids, Write(c)
  PROVE  WebInv'
<1> DEFINE o == sockets[c]
           out == Tail(o.out)
           down == IF o.page = "open" THEN Append(o.down, Head(o.out)) ELSE o.down
           s == [o EXCEPT !.out = out, !.down = down]
<1>1. /\ o \in SocketState /\ SocketInv(o) /\ Rising(o.up, Sent)
      /\ o.out \in Seq(WebFrame) /\ o.down \in Seq(WebFrame)
  BY WebFacts, SocketTyped
<1>2. /\ o.out # <<>>
      /\ sockets' = [sockets EXCEPT ![c].out = Tail(@),
                       ![c].down = IF sockets[c].page = "open" THEN Append(@, Head(sockets[c].out)) ELSE @]
      /\ web' = web /\ client' = client /\ page' = page
  BY DEF Write
<1>3. out \in Seq(WebFrame) /\ down \in Seq(WebFrame)
  BY <1>1, <1>2, FramesMove
<1>4. sockets' = [sockets EXCEPT ![c] = s]
  BY <1>1, <1>2 DEF WebInv, WebType
<1> HIDE DEF out, down
<1>5. /\ s.page = o.page /\ s.task = o.task /\ s.up = o.up /\ s.down = down /\ s.out = out
      /\ s.forwarders = o.forwarders /\ s.tasks = o.tasks
  BY <1>1 DEF SocketState
<1>6. s \in SocketState
  BY <1>1, <1>3 DEF SocketState
<1> HIDE DEF s
<1>7. \A t \in WebTopics : Task(s, t) = Task(o, t)
  BY <1>5 DEF Task
<1>8. SocketInv(s)
  <2>1. o.page # "none" /\ (o.page # "open" => down = <<>>)
    BY <1>1, <1>2 DEF SocketInv, down
  <2> QED
    BY <1>1, <1>5, <1>7, <2>1 DEF SocketInv
<1>9. ControlOf(s, client.listeners)
  BY <1>5, WebFacts DEF ControlOf
<1>10. ASSUME NEW t \in WebTopics PROVE DownOf(s, page.got[t], t, web.sent[t])
  <2>1. Chain(page.got[t], <<>>, <<>>, <<>>, FramesOf(t), web.sent[t])
    BY WebFacts DEF DownOf
  <2>2. ASSUME Active(o)
        PROVE  Chain(page.got[t], down, out, Task(o, t), FramesOf(t), web.sent[t])
    BY <1>2, <2>2, ChainOf DEF down, out
  <2> QED
    BY <1>5, <1>7, <2>1, <2>2 DEF DownOf, Active
<1>11. ClientInv'
  BY <1>2, <1>4, <1>5, <1>6, ClientKeeps DEF Active
<1>12. client' \in ClientState
  BY <1>2 DEF WebInv, WebType
<1> QED
  BY <1>1, <1>2, <1>4, <1>5, <1>6, <1>8, <1>9, <1>10, <1>11, <1>12, SocketMoves

(* The page takes a frame from an open socket. *)
LEMMA ArrivesFacts ==
  ASSUME WebInv, NEW c \in Ids, NEW type, Arrives(c, type)
  PROVE  LET o == sockets[c]
             s == [o EXCEPT !.down = Tail(o.down)]
         IN /\ sockets' = [sockets EXCEPT ![c] = s] /\ s \in SocketState
            /\ o.page = "open" /\ o.down # <<>> /\ Head(o.down) \in WebFrame /\ Head(o.down).type = type
            /\ s.page = o.page /\ s.task = o.task /\ s.up = o.up /\ s.down = Tail(o.down)
            /\ s.out = o.out /\ s.forwarders = o.forwarders /\ s.tasks = o.tasks
            /\ Active(o) /\ Active(s) /\ SocketInv(s)
            /\ ControlOf(s, client.listeners) /\ Rising(s.up, Sent)
            /\ \A t \in WebTopics : Task(s, t) = Task(o, t)
<1> DEFINE o == sockets[c]
           down == Tail(o.down)
           s == [o EXCEPT !.down = down]
<1>1. o \in SocketState /\ SocketInv(o) /\ o.down \in Seq(WebFrame) /\ Rising(o.up, Sent)
  BY WebFacts, SocketTyped
<1>2. /\ o.page = "open" /\ o.down # <<>> /\ Head(o.down).type = type
      /\ sockets' = [sockets EXCEPT ![c].down = Tail(@)]
  BY DEF Arrives
<1>3. Head(o.down) \in WebFrame /\ down \in Seq(WebFrame)
  BY <1>1, <1>2, FramesMove
<1>4. sockets' = [sockets EXCEPT ![c] = s]
  BY <1>1, <1>2 DEF WebInv, WebType
<1> HIDE DEF down
<1>5. /\ s.page = o.page /\ s.task = o.task /\ s.up = o.up /\ s.down = down
      /\ s.out = o.out /\ s.forwarders = o.forwarders /\ s.tasks = o.tasks
  BY <1>1 DEF SocketState
<1>6. s \in SocketState
  BY <1>1, <1>3 DEF SocketState
<1> HIDE DEF s
<1>7. \A t \in WebTopics : Task(s, t) = Task(o, t)
  BY <1>5 DEF Task
<1>8. SocketInv(s)
  BY <1>1, <1>2, <1>5, <1>7 DEF SocketInv
<1>9. ControlOf(s, client.listeners) /\ Active(o) /\ Active(s) /\ Rising(s.up, Sent)
  BY <1>1, <1>2, <1>5, WebFacts DEF ControlOf, Active
<1> QED
  BY <1>2, <1>3, <1>4, <1>5, <1>6, <1>7, <1>8, <1>9 DEF s, down

LEMMA HandleStep ==
  ASSUME WebInv, NEW c \in Ids, HandleHello(c) \/ HandleComplete(c)
  PROVE  WebInv'
<1> DEFINE o == sockets[c]
           s == [o EXCEPT !.down = Tail(o.down)]
<1>1. PICK type : Arrives(c, type)
  BY DEF HandleHello, HandleComplete
<1>2. /\ sockets' = [sockets EXCEPT ![c] = s] /\ s \in SocketState
      /\ o.page = "open" /\ o.down # <<>> /\ s.page = o.page
      /\ s.up = o.up /\ s.down = Tail(o.down) /\ s.out = o.out
      /\ Active(o) /\ Active(s) /\ SocketInv(s)
      /\ ControlOf(s, client.listeners) /\ Rising(s.up, Sent)
      /\ \A t \in WebTopics : Task(s, t) = Task(o, t)
  BY <1>1, ArrivesFacts
<1>3. /\ web' = web /\ page' = page /\ client' \in ClientState
      /\ client'.listeners = client.listeners /\ client'.timer = client.timer
      /\ client'.socket = client.socket /\ client'.opened = client.opened /\ client'.wasm = client.wasm
  BY DEF HandleHello, HandleComplete, WebInv, WebType, ClientState
<1> HIDE DEF s
<1>4. ASSUME NEW t \in WebTopics PROVE DownOf(s, page.got[t], t, web.sent[t])
  <2>1. /\ Chain(page.got[t], <<>>, <<>>, <<>>, FramesOf(t), web.sent[t])
        /\ Chain(page.got[t], Tail(o.down), o.out, Task(o, t), FramesOf(t), web.sent[t])
    BY <1>2, ChainOf
  <2> QED
    BY <1>2, <2>1 DEF DownOf
<1>5. ClientInv'
  BY <1>2, <1>3, ClientKeeps
<1> QED
  BY <1>2, <1>3, <1>4, <1>5, SocketMoves

(* The page's part of a socket that can no longer deliver. *)
LEMMA DownClosed ==
  ASSUME WebInv, NEW s, ~ Active(s), NEW t \in WebTopics, NEW c \in Ids
  PROVE  DownOf(s, page.got[t], t, web.sent[t])
  BY WebFacts DEF DownOf

LEMMA ReaderEndsStep ==
  ASSUME WebInv, NEW c \in Ids, ReaderEnds(c)
  PROVE  WebInv'
<1> DEFINE o == sockets[c]
           none == <<>>
           tasks == [t \in WebTopics |-> <<>>]
           s == [o EXCEPT !.task = "draining", !.up = none, !.forwarders = {}, !.tasks = tasks]
<1>1. o \in SocketState /\ SocketInv(o)
  BY WebFacts
<1>2. /\ o.page = "closed" /\ web' = web /\ client' = client /\ page' = page
      /\ sockets' = [sockets EXCEPT ![c].task = "draining", ![c].up = none, ![c].forwarders = {},
                                    ![c].tasks = tasks]
  BY DEF ReaderEnds
<1>3. /\ none \in Seq(PageMessage) /\ tasks \in [WebTopics -> Seq(Seq(WebFrame))]
      /\ \A t \in WebTopics : tasks[t] = <<>>
      /\ Rising(none, Sent) /\ Numbers(none, Sent) = {}
  BY NumbersNone
<1> HIDE DEF tasks, none
<1>4. sockets' = [sockets EXCEPT ![c] = s]
  BY <1>1, <1>2 DEF WebInv, WebType
<1>5. /\ s.page = o.page /\ s.task = "draining" /\ s.up = none /\ s.down = o.down
      /\ s.out = o.out /\ s.forwarders = {} /\ s.tasks = tasks
  BY <1>1 DEF SocketState
<1>6. s \in SocketState
  BY <1>1, <1>3 DEF SocketState
<1> HIDE DEF s
<1>7. \A t \in WebTopics : Task(s, t) = <<>> /\ Len(s.tasks[t]) = 0
  BY <1>3, <1>5 DEF Task
<1>8. SocketInv(s)
  BY <1>1, <1>2, <1>5, <1>7 DEF SocketInv
<1>9. ControlOf(s, client.listeners) /\ ~ Active(s)
  BY <1>2, <1>5 DEF ControlOf, Active
<1>10. \A t \in WebTopics : DownOf(s, page.got[t], t, web.sent[t])
  BY <1>9, DownClosed
<1>11. ClientInv'
  <2>1. (s.page = "none") <=> (o.page = "none")
    BY <1>5
  <2> QED
    BY <1>2, <1>4, <1>6, <1>9, <2>1, ClientKeeps
<1>12. client' \in ClientState
  BY <1>2 DEF WebInv, WebType
<1>13. Rising(s.up, Sent) /\ Numbers(s.up, Sent) \subseteq Numbers(o.up, Sent)
  BY <1>3, <1>5
<1> QED
  BY <1>2, <1>4, <1>6, <1>8, <1>9, <1>10, <1>11, <1>12, <1>13, SocketMoves

LEMMA WriterEndsStep ==
  ASSUME WebInv, NEW c \in Ids, WriterEnds(c)
  PROVE  WebInv'
<1> DEFINE o == sockets[c]
           s == [o EXCEPT !.task = "ended"]
<1>1. o \in SocketState /\ SocketInv(o) /\ Rising(o.up, Sent)
  BY WebFacts
<1>2. /\ o.task = "draining" /\ web' = web /\ client' = client /\ page' = page
      /\ sockets' = [sockets EXCEPT ![c].task = "ended"]
  BY DEF WriterEnds
<1>4. sockets' = [sockets EXCEPT ![c] = s]
  BY <1>1, <1>2 DEF WebInv, WebType
<1>5. /\ s.page = o.page /\ s.task = "ended" /\ s.up = o.up /\ s.down = o.down
      /\ s.out = o.out /\ s.forwarders = o.forwarders /\ s.tasks = o.tasks
  BY <1>1 DEF SocketState
<1>6. s \in SocketState
  BY <1>1 DEF SocketState
<1> HIDE DEF s
<1>7. \A t \in WebTopics : Task(s, t) = Task(o, t)
  BY <1>5 DEF Task
<1>8. SocketInv(s)
  BY <1>1, <1>2, <1>5, <1>7 DEF SocketInv
<1>9. ControlOf(s, client.listeners) /\ (Active(s) <=> Active(o))
  BY <1>5 DEF ControlOf, Active
<1>10. ASSUME NEW t \in WebTopics PROVE DownOf(s, page.got[t], t, web.sent[t])
  <2>1. DownOf(o, page.got[t], t, web.sent[t])
    BY WebFacts
  <2> QED
    BY <1>5, <1>7, <1>9, <2>1 DEF DownOf
<1>11. ClientInv'
  <2>1. ((s.page = "none") <=> (o.page = "none")) /\ (Active(s) => Active(o))
    BY <1>5, <1>9
  <2> QED
    BY <1>2, <1>4, <1>6, <2>1, ClientKeeps
<1>12. client' \in ClientState
  BY <1>2 DEF WebInv, WebType
<1> QED
  BY <1>1, <1>2, <1>4, <1>5, <1>6, <1>8, <1>9, <1>10, <1>11, <1>12, SocketMoves

(* A socket the page has left. *)
LEMMA LeavesStep ==
  ASSUME WebInv, NEW c \in Ids, Active(sockets[c]), web' = web, page' = page, client' \in ClientState,
         client'.listeners = client.listeners, client'.opened = client.opened, client'.wasm = client.wasm,
         client'.socket \in {0, client.socket},
         sockets' = [sockets EXCEPT ![c] = [sockets[c] EXCEPT !.page = "closed", !.down = <<>>]]
  PROVE  WebInv'
<1> DEFINE o == sockets[c]
           none == <<>>
           s == [o EXCEPT !.page = "closed", !.down = none]
<1>1. o \in SocketState /\ SocketInv(o) /\ Rising(o.up, Sent)
  BY WebFacts
<1>2. none \in Seq(WebFrame)
  OBVIOUS
<1>3. sockets' = [sockets EXCEPT ![c] = s]
  OBVIOUS
<1> HIDE DEF none
<1>5. /\ s.page = "closed" /\ s.task = o.task /\ s.up = o.up /\ s.down = none
      /\ s.out = o.out /\ s.forwarders = o.forwarders /\ s.tasks = o.tasks
  BY <1>1 DEF SocketState
<1>6. s \in SocketState
  BY <1>1, <1>2 DEF SocketState
<1> HIDE DEF s
<1>7. \A t \in WebTopics : Task(s, t) = Task(o, t)
  BY <1>5 DEF Task
<1>8. SocketInv(s)
  BY <1>1, <1>5, <1>7 DEF SocketInv, none
<1>9. ControlOf(s, client.listeners) /\ ~ Active(s)
  BY <1>5 DEF ControlOf, Active
<1>10. \A t \in WebTopics : DownOf(s, page.got[t], t, web.sent[t])
  BY <1>9, DownClosed
<1>11. ClientInv'
  <2>1. \A d \in Ids : sockets'[d] = IF d = c THEN s ELSE sockets[d]
    BY <1>3 DEF WebInv, WebType
  <2>2. c = client.socket /\ o.page # "none" /\ c <= client.opened /\ c \in Nat /\ c # 0
    BY WebTyped DEF WebInv, ClientInv, Active, Ids
  <2>3. \A d \in Ids : ~ Active(sockets'[d])
    BY <1>9, <2>1, <2>2 DEF WebInv, ClientInv
  <2>4. client.wasm
    BY <2>2, WebTyped DEF WebInv, ClientInv
  <2>5. \A d \in Ids : sockets'[d].page = "none" <=> d > client.opened
    BY <1>5, <2>1, <2>2, WebTyped DEF WebInv, ClientInv, Ids
  <2>6. client'.socket <= client'.opened /\ client'.opened <= MaxSockets
    BY WebTyped DEF WebInv, ClientInv
  <2> QED
    BY <2>3, <2>4, <2>5, <2>6 DEF ClientInv
<1> QED
  BY <1>1, <1>3, <1>5, <1>6, <1>8, <1>9, <1>10, <1>11, SocketMoves

LEMMA SocketClosedStep ==
  ASSUME WebInv, NEW c \in Ids, SocketClosed(c)
  PROVE  WebInv'
<1>1. PICK clean \in BOOLEAN : client' = [client EXCEPT !.timer = ShouldReconnect(clean)]
  BY DEF SocketClosed
<1>2. ShouldReconnect(clean) \in BOOLEAN
  BY DEF ShouldReconnect
<1>3. /\ client' \in ClientState /\ client'.listeners = client.listeners /\ client'.opened = client.opened
      /\ client'.wasm = client.wasm /\ client'.socket = client.socket
  <2> DEFINE b == ShouldReconnect(clean)
  <2> HIDE DEF b
  <2>1. client \in ClientState /\ client' = [client EXCEPT !.timer = b] /\ b \in BOOLEAN
    BY <1>1, <1>2 DEF WebInv, WebType, b
  <2> QED
    BY <2>1 DEF ClientState
<1>4. /\ Active(sockets[c]) /\ web' = web /\ page' = page
      /\ sockets' = [sockets EXCEPT ![c].page = "closed", ![c].down = <<>>]
  BY DEF SocketClosed, Active
<1>5. sockets' = [sockets EXCEPT ![c] = [sockets[c] EXCEPT !.page = "closed", !.down = <<>>]]
  BY <1>4 DEF WebInv, WebType
<1> QED
  BY <1>3, <1>4, <1>5, LeavesStep

(* A step of the client that leaves the sockets alone. *)
LEMMA ClientMoves ==
  ASSUME WebInv, web' = web, page' = page, sockets' = sockets, client' \in ClientState,
         client'.listeners = client.listeners, client'.opened = client.opened,
         client'.socket \in {0, client.socket},
         \A c \in Ids : Active(sockets[c]) => client'.socket = client.socket /\ ~ client'.timer,
         client'.wasm \/ (~ client.wasm /\ ~ client'.timer)
  PROVE  WebInv'
<1>1. WebType'
  BY DEF WebInv, WebType
<1>2. ClientInv'
  BY WebTyped DEF WebInv, ClientInv
<1> QED
  BY <1>1, <1>2 DEF WebInv

LEMMA ClientCloseStep ==
  ASSUME WebInv, ClientClose
  PROVE  WebInv'
<1>1. /\ client \in ClientState /\ client' = [client EXCEPT !.closed = TRUE, !.socket = 0]
      /\ web' = web /\ page' = page
  BY DEF ClientClose, WebInv, WebType
<1>2. /\ client' \in ClientState /\ client'.listeners = client.listeners /\ client'.opened = client.opened
      /\ client'.wasm = client.wasm /\ client'.socket = 0 /\ client'.timer = client.timer
  BY <1>1 DEF ClientState
<1> DEFINE c == client.socket
           page0 == sockets[c].page
<1>3. CASE c # 0 /\ Active(sockets[c])
  <2>1. c \in Ids
    BY <1>3, WebTyped DEF WebInv, ClientInv, Ids
  <2>2. sockets' = [sockets EXCEPT ![c].page = IF @ \in {"connecting", "open"} THEN "closed" ELSE @,
                                   ![c].down = <<>>]
    BY <1>3 DEF ClientClose
  <2>3. sockets' = [sockets EXCEPT ![c].page = "closed", ![c].down = <<>>]
    BY <1>3, <2>2 DEF Active
  <2>4. sockets' = [sockets EXCEPT ![c] = [sockets[c] EXCEPT !.page = "closed", !.down = <<>>]]
    BY <2>1, <2>3 DEF WebInv, WebType
  <2> QED
    BY <1>1, <1>2, <1>3, <2>1, <2>4, LeavesStep
<1>4. CASE c = 0 \/ ~ Active(sockets[c])
  <2>1. sockets' = sockets
    <3>1. CASE c = 0
      BY <3>1 DEF ClientClose
    <3>2. CASE c # 0
      <4>1. c \in Ids
        BY <3>2, WebTyped DEF WebInv, ClientInv, Ids
      <4>2. sockets[c] \in SocketState /\ sockets[c].down = <<>> /\ ~ Active(sockets[c])
        BY <1>4, <3>2, <4>1, WebFacts DEF SocketInv, Active
      <4>3. sockets' = [sockets EXCEPT ![c].page = IF @ \in {"connecting", "open"} THEN "closed" ELSE @,
                                       ![c].down = <<>>]
        BY <3>2 DEF ClientClose
      <4>4. sockets' = [sockets EXCEPT ![c].page = page0, ![c].down = sockets[c].down]
        BY <4>2, <4>3 DEF Active
      <4>5. sockets \in [Ids -> SocketState]
        BY DEF WebInv, WebType
      <4>6. [sockets EXCEPT ![c].page = page0, ![c].down = sockets[c].down] = sockets
        BY <4>1, <4>2, <4>5 DEF SocketState
      <4> QED
        BY <4>4, <4>6
    <3> QED
      BY <3>1, <3>2
  <2>2. \A d \in Ids : ~ Active(sockets[d])
    BY <1>4 DEF WebInv, ClientInv, Ids
  <2>3. client.wasm \/ ~ client'.timer
    BY <1>2 DEF WebInv, ClientInv
  <2>4. client'.socket \in {0, client.socket} /\ (client'.wasm \/ (~ client.wasm /\ ~ client'.timer))
    BY <1>2, <2>3
  <2> QED
    BY <1>1, <1>2, <2>1, <2>2, <2>4, ClientMoves
<1> QED
  BY <1>3, <1>4

LEMMA BootStep ==
  ASSUME WebInv, Boot
  PROVE  WebInv'
<1>1. /\ client \in ClientState /\ client' = [client EXCEPT !.wasm = TRUE, !.timer = TRUE]
      /\ web' = web /\ page' = page /\ sockets' = sockets /\ ~ client.wasm
  BY DEF Boot, WebInv, WebType
<1>2. /\ client' \in ClientState /\ client'.listeners = client.listeners /\ client'.opened = client.opened
      /\ client'.wasm /\ client'.socket = client.socket
  BY <1>1 DEF ClientState
<1>3. \A c \in Ids : ~ Active(sockets[c])
  <2>1. client.opened = 0
    BY <1>1 DEF WebInv, ClientInv
  <2>2. \A c \in Ids : sockets[c].page = "none"
    BY <2>1, WebTyped DEF WebInv, ClientInv, Ids
  <2> QED
    BY <2>2 DEF Active
<1> QED
  BY <1>1, <1>2, <1>3, ClientMoves

LEMMA ConnectStep ==
  ASSUME WebInv, Connect
  PROVE  WebInv'
<1>1. /\ client \in ClientState /\ client.timer /\ web' = web /\ page' = page
  BY DEF Connect, WebInv, WebType
<1>2. CASE client.closed
  <2>1. client' = [client EXCEPT !.timer = FALSE] /\ sockets' = sockets
    BY <1>2 DEF Connect
  <2>2. /\ client' \in ClientState /\ client'.listeners = client.listeners /\ client'.opened = client.opened
        /\ client'.wasm = client.wasm /\ client'.socket = client.socket /\ ~ client'.timer
    BY <1>1, <2>1 DEF ClientState
  <2>3. client.wasm \/ ~ client.wasm
    OBVIOUS
  <2>4. client'.socket \in {0, client.socket} /\ (client'.wasm \/ (~ client.wasm /\ ~ client'.timer))
    BY <2>2
  <2> QED
    BY <1>1, <2>1, <2>2, <2>4, ClientMoves
<1>3. CASE ~ client.closed
  <2> DEFINE c == client.opened + 1
             o == sockets[c]
             s == [o EXCEPT !.page = "connecting"]
  <2>1. /\ client' = [client EXCEPT !.timer = FALSE, !.opened = @ + 1, !.socket = client.opened + 1]
        /\ sockets' = [sockets EXCEPT ![c].page = "connecting"]
        /\ client.opened < MaxSockets
    BY <1>3 DEF Connect
  <2>2. c \in Ids /\ client.opened \in Nat /\ MaxSockets \in Nat
    BY <2>1, WebTyped DEF WebInv, Ids
  <2>3. /\ client' \in ClientState /\ client'.listeners = client.listeners /\ client'.opened = c
        /\ client'.wasm = client.wasm /\ client'.socket = c /\ ~ client'.timer
    <3> HIDE DEF c
    <3>1. client' = [client EXCEPT !.timer = FALSE, !.opened = c, !.socket = c] /\ c \in Nat
      BY <2>1, <2>2 DEF c, Ids
    <3> QED
      BY <1>1, <3>1 DEF ClientState
  <2>4. o \in SocketState /\ SocketInv(o) /\ Rising(o.up, Sent) /\ o.page = "none"
    BY <2>2, WebFacts DEF WebInv, ClientInv
  <2>5. sockets' = [sockets EXCEPT ![c] = s]
    BY <2>1, <2>2, <2>4 DEF WebInv, WebType
  <2>6. /\ s.page = "connecting" /\ s.task = o.task /\ s.up = o.up /\ s.down = o.down
        /\ s.out = o.out /\ s.forwarders = o.forwarders /\ s.tasks = o.tasks
    BY <2>4 DEF SocketState
  <2>7. s \in SocketState
    BY <2>4 DEF SocketState
  <2> HIDE DEF s, o
  <2>8. \A t \in WebTopics : Task(s, t) = Task(o, t)
    BY <2>6 DEF Task
  <2>9. SocketInv(s)
    BY <2>4, <2>6, <2>8 DEF SocketInv
  <2>10. ControlOf(s, client.listeners)
    BY <2>6 DEF ControlOf
  <2>11. ASSUME NEW t \in WebTopics PROVE DownOf(s, page.got[t], t, web.sent[t])
    <3>1. s.down = <<>> /\ s.out = <<>> /\ Task(s, t) = <<>>
      BY <2>4, <2>6, <2>8, TaskOf DEF SocketInv
    <3>2. Chain(page.got[t], <<>>, <<>>, <<>>, FramesOf(t), web.sent[t])
      BY <2>2, WebFacts DEF DownOf
    <3> QED
      BY <3>1, <3>2 DEF DownOf
  <2>12. ClientInv'
    <3>1. \A d \in Ids : sockets'[d] = IF d = c THEN s ELSE sockets[d]
      BY <2>2, <2>5 DEF WebInv, WebType
    <3>2. \A d \in Ids : Active(sockets'[d]) => d = c
      BY <1>1, <3>1 DEF WebInv, ClientInv
    <3>3. client.wasm
      BY <1>1 DEF WebInv, ClientInv
    <3>4. \A d \in Ids : sockets'[d].page = "none" <=> d > c
      <4> TAKE d \in Ids
      <4>1. sockets[d].page = "none" <=> d > client.opened
        BY DEF WebInv, ClientInv
      <4>2. d \in Nat
        BY DEF Ids
      <4> QED
        BY <2>2, <2>6, <3>1, <4>1, <4>2
    <3> QED
      BY <2>1, <2>2, <2>3, <3>2, <3>3, <3>4 DEF ClientInv
  <2> QED
    BY <1>1, <2>2, <2>3, <2>4, <2>5, <2>6, <2>7, <2>9, <2>10, <2>11, <2>12, SocketMoves DEF o
<1> QED
  BY <1>2, <1>3

LEMMA ConcatOne ==
  ASSUME NEW q \in Seq(PageMessage), NEW m \in PageMessage
  PROVE  q \o <<m>> \in Seq(PageMessage) /\ Grows(q, q \o <<m>>, m)
<1> DEFINE w == <<m>>
<1>1. w \in Seq(PageMessage) /\ Len(w) = 1 /\ w[1] = m
  OBVIOUS
<1> HIDE DEF w
<1> DEFINE r == q \o w
<1>2. /\ r \in Seq(PageMessage) /\ Len(r) = Len(q) + Len(w)
      /\ \A i \in 1..(Len(q) + Len(w)) : r[i] = IF i <= Len(q) THEN q[i] ELSE w[i - Len(q)]
  BY <1>1, ConcatProperties
<1>3. Len(q) \in Nat
  OBVIOUS
<1> HIDE DEF r
<1>4. r[Len(q) + 1] = m
  <2>1. Len(q) + 1 \in 1..(Len(q) + Len(w)) /\ ~ (Len(q) + 1 <= Len(q)) /\ (Len(q) + 1) - Len(q) = 1
    BY <1>1, <1>3
  <2> QED
    BY <1>1, <1>2, <2>1
<1>5. \A i \in 1..Len(q) : r[i] = q[i]
  BY <1>1, <1>2, <1>3
<1> QED
  BY <1>1, <1>2, <1>3, <1>4, <1>5 DEF Grows, r, w

(* The page's values under way may be overtaken by nothing it sends later. *)
LEMMA UpGrows ==
  ASSUME NEW c \in Ids, NEW taken, NEW queue, NEW up, NEW r, NEW e, NEW n \in Nat, NEW m \in Nat,
         UpOf(c, taken, queue, up, n), Grows(up, r, e), n <= m, e \in Sent => n < e.n /\ e.n <= m
  PROVE  UpOf(c, taken, queue, r, m)
<1> DEFINE T == Numbers(taken, ValuesBy(c))
           Q == Numbers(queue, ValuesBy(c))
           U == Numbers(up, Sent)
           R == Numbers(r, Sent)
<1>1. /\ Rising(taken, ValuesBy(c)) /\ Rising(queue, ValuesBy(c)) /\ Rising(up, Sent)
      /\ Below(T, Q \cup U) /\ Below(Q, U) /\ Below(T \cup Q \cup U, {n + 1})
  BY DEF UpOf
<1>2. T \subseteq Nat /\ Q \subseteq Nat /\ U \subseteq Nat
  BY NumbersNat DEF ValuesBy, Sent
<1>3. (e \in Sent => R = U \cup {e.n}) /\ (e \notin Sent => R = U)
  BY NumbersGrow
<1>4. e \in Sent => e.n \in Nat
  BY DEF Sent
<1> HIDE DEF T, Q, U, R
<1>5. \A v \in T \cup Q \cup U : v <= n /\ v < m + 1
  BY <1>1, <1>2 DEF Below
<1>6. e \in Sent => Below(U, {e.n})
  BY <1>2, <1>4, <1>5 DEF Below
<1>7. Rising(r, Sent)
  BY <1>1, <1>6, RisingGrow DEF U
<1>8. Below(T, Q \cup R) /\ Below(Q, R) /\ Below(T \cup Q \cup R, {m + 1})
  <2>1. CASE e \in Sent
    <3>1. (\A v \in T \cup Q \cup U : v < e.n) /\ e.n < m + 1
      BY <1>2, <1>4, <1>5, <2>1
    <3>2. R = U \cup {e.n}
      BY <1>3, <2>1
    <3> QED
      BY <1>1, <1>5, <3>1, <3>2 DEF Below
  <2>2. CASE e \notin Sent
    BY <1>1, <1>3, <1>5, <2>2 DEF Below
  <2> QED
    BY <2>1, <2>2
<1> QED
  BY <1>1, <1>7, <1>8 DEF UpOf, T, Q, R

LEMMA UpLater ==
  ASSUME NEW c \in Ids, NEW taken, NEW queue, NEW up, NEW n \in Nat, NEW m \in Nat,
         UpOf(c, taken, queue, up, n), n <= m
  PROVE  UpOf(c, taken, queue, up, m)
<1> DEFINE T == Numbers(taken, ValuesBy(c))
           Q == Numbers(queue, ValuesBy(c))
           U == Numbers(up, Sent)
<1>1. Below(T \cup Q \cup U, {n + 1})
  BY DEF UpOf
<1>2. T \subseteq Nat /\ Q \subseteq Nat /\ U \subseteq Nat
  BY NumbersNat DEF ValuesBy, Sent
<1> HIDE DEF T, Q, U
<1>3. Below(T \cup Q \cup U, {m + 1})
  BY <1>1, <1>2 DEF Below
<1> QED
  BY <1>3 DEF UpOf, T, Q, U

(* The page sends a message on its open socket. *)
LEMMA SendStep ==
  ASSUME WebInv, NEW c \in Ids, NEW s \in SocketState, NEW e \in PageMessage,
         Active(sockets[c]), sockets[c].task # "none", s.page = "open", s.task = sockets[c].task,
         Grows(sockets[c].up, s.up, e), s.down = sockets[c].down, s.out = sockets[c].out,
         s.forwarders = sockets[c].forwarders, s.tasks = sockets[c].tasks,
         sockets' = [sockets EXCEPT ![c] = s], web' = web,
         page' \in PageState, page'.got = page.got, page'.taken = page.taken,
         page.published <= page'.published,
         e \in Sent => page.published < e.n /\ e.n <= page'.published,
         client' \in ClientState, client'.socket = client.socket, client'.opened = client.opened,
         client'.wasm = client.wasm, client'.timer = client.timer,
         ControlOf(s, client'.listeners)
  PROVE  WebInv'
<1> DEFINE o == sockets[c]
<1>1. /\ \A d \in Ids : sockets'[d] = IF d = c THEN s ELSE sockets[d]
      /\ sockets' \in [Ids -> SocketState]
  BY DEF WebInv, WebType
<1>2. WebType'
  BY <1>1 DEF WebInv, WebType
<1>3. o \in SocketState /\ SocketInv(o) /\ o.page # "none"
  BY WebFacts DEF Active
<1>4. page.published \in Nat /\ page'.published \in Nat
  BY <1>2, WebTyped DEF WebInv, WebType, PageState
<1>5. \A t \in WebTopics : Task(s, t) = Task(o, t)
  BY DEF Task
<1>6. SocketInv(s)
  BY <1>3, <1>5 DEF SocketInv
<1>7. Active(s)
  BY DEF Active
<1>8. ClientInv'
  <2>1. ((s.page = "none") <=> (o.page = "none")) /\ (Active(s) => Active(o))
    BY <1>3
  <2> QED
    BY <2>1, ClientKeeps
<1>9. ASSUME NEW d \in Ids
      PROVE  /\ SocketInv(sockets'[d]) /\ ControlOf(sockets'[d], client'.listeners)
             /\ UpOf(d, page'.taken, web'.queue, sockets'[d].up, page'.published)
  <2>1. UpOf(d, page.taken, web.queue, sockets[d].up, page.published)
    BY DEF WebInv
  <2>2. CASE d = c
    <3>1. UpOf(c, page.taken, web.queue, s.up, page'.published)
      BY <1>4, <2>1, <2>2, UpGrows
    <3> QED
      BY <1>1, <1>6, <2>2, <3>1
  <2>3. CASE d # c
    <3>1. ~ Active(sockets[d])
      BY <2>3 DEF WebInv, ClientInv
    <3>2. ControlOf(sockets[d], client'.listeners)
      BY <3>1 DEF ControlOf, Active
    <3>3. UpOf(d, page.taken, web.queue, sockets[d].up, page'.published)
      BY <1>4, <2>1, UpLater
    <3> QED
      BY <1>1, <2>3, <3>2, <3>3 DEF WebInv
  <2> QED
    BY <2>2, <2>3
<1>10. ASSUME NEW d \in Ids, NEW t \in WebTopics
       PROVE  DownOf(sockets'[d], page'.got[t], t, web'.sent[t])
  <2>1. DownOf(sockets[d], page.got[t], t, web.sent[t])
    BY DEF WebInv
  <2>2. CASE d = c
    BY <1>1, <1>5, <2>1, <2>2 DEF DownOf
  <2>3. CASE d # c
    BY <1>1, <2>1, <2>3
  <2> QED
    BY <2>2, <2>3
<1> QED
  BY <1>2, <1>8, <1>9, <1>10 DEF WebInv

(* The page does something without sending. *)
LEMMA PageMoves ==
  ASSUME WebInv, sockets' = sockets, web' = web,
         page' \in PageState, page'.got = page.got, page'.taken = page.taken,
         page.published <= page'.published,
         client' \in ClientState, client'.socket = client.socket, client'.opened = client.opened,
         client'.wasm = client.wasm, client'.timer = client.timer,
         \A c \in Ids : ControlOf(sockets[c], client'.listeners)
  PROVE  WebInv'
<1>1. WebType'
  BY DEF WebInv, WebType
<1>2. ClientInv'
  BY DEF WebInv, ClientInv
<1>3. page.published \in Nat /\ page'.published \in Nat
  BY <1>1, WebTyped DEF WebInv, WebType, PageState
<1>4. \A c \in Ids : UpOf(c, page.taken, web.queue, sockets[c].up, page'.published)
  BY <1>3, UpLater DEF WebInv
<1> QED
  BY <1>1, <1>2, <1>4 DEF WebInv

LEMMA OpenedStep ==
  ASSUME WebInv, NEW c \in Ids, Opened(c)
  PROVE  WebInv'
<1> DEFINE o == sockets[c]
           topics == SubscribedTopics(client.listeners)
           e == [type |-> "subscribe", topics |-> topics]
           up == IF topics = {} THEN o.up ELSE o.up \o Control("subscribe", topics)
           s == [o EXCEPT !.page = "open", !.up = up]
<1>1. /\ o \in SocketState /\ SocketInv(o) /\ o.up \in Seq(PageMessage) /\ Rising(o.up, Sent)
  BY WebFacts, SocketTyped
<1>2. /\ o.page = "connecting" /\ o.task = "reading" /\ web' = web /\ client' = client /\ page' = page
      /\ sockets' = [sockets EXCEPT ![c].page = "open",
                       ![c].up = IF topics = {} THEN @ ELSE @ \o Control("subscribe", topics)]
  BY DEF Opened
<1>3. o.up = <<>> /\ o.forwarders = {} /\ Active(o)
  BY <1>1, <1>2 DEF SocketInv, Active
<1>4. topics \subseteq WebTopics /\ \A t \in WebTopics : t \in topics <=> HasTopicListener(client.listeners, t)
  BY WebTyped, WebAssumption DEF WebInv, SubscribedTopics, HasTopicListener
<1> HIDE DEF topics
<1>5. e \in PageMessage /\ e \notin Sent /\ e.type = "subscribe" /\ e.topics = topics
  BY <1>4 DEF PageMessage, Sent
<1>6. topics # {} => up = o.up \o <<e>>
  BY DEF Control
<1> HIDE DEF e
<1>7. up \in Seq(PageMessage) /\ (topics # {} => Grows(o.up, up, e)) /\ (topics = {} => up = o.up)
  <2>1. CASE topics = {}
    BY <1>1, <2>1
  <2>2. CASE topics # {}
    <3>1. up = o.up \o <<e>>
      BY <1>6, <2>2
    <3> HIDE DEF up
    <3> QED
      BY <1>1, <1>5, <2>2, <3>1, ConcatOne
  <2> QED
    BY <2>1, <2>2
<1>8. sockets' = [sockets EXCEPT ![c] = s]
  BY <1>1, <1>2 DEF WebInv, WebType
<1> HIDE DEF up
<1>9. /\ s.page = "open" /\ s.task = o.task /\ s.up = up /\ s.down = o.down
      /\ s.out = o.out /\ s.forwarders = o.forwarders /\ s.tasks = o.tasks
  BY <1>1 DEF SocketState
<1>10. s \in SocketState
  BY <1>1, <1>7 DEF SocketState
<1> HIDE DEF s
<1>11. ASSUME NEW t \in WebTopics PROVE Tracks(<<>>, {}, t, FALSE)
  BY DEF Tracks, About
<1>12. ControlOf(s, client.listeners)
  <2> SUFFICES ASSUME NEW t \in WebTopics
               PROVE  Tracks(up, {}, t, HasTopicListener(client.listeners, t))
    BY <1>3, <1>9 DEF ControlOf
  <2> DEFINE wanted == HasTopicListener(client.listeners, t)
  <2>1. wanted \in BOOLEAN /\ (wanted <=> t \in topics)
    BY <1>4 DEF HasTopicListener
  <2> HIDE DEF wanted
  <2>2. CASE topics = {}
    <3>1. wanted = FALSE
      BY <2>1, <2>2
    <3>2. Tracks(up, {}, t, wanted)
      BY <1>3, <1>7, <1>11, <2>2, <3>1
    <3> QED
      BY <3>2 DEF wanted
  <2>3. CASE topics # {}
    <3> DEFINE q == <<>>
               was == FALSE
    <3>1. Tracks(q, {}, t, was) /\ Grows(q, up, e) /\ was \in BOOLEAN
      BY <1>3, <1>7, <1>11, <2>3
    <3>2. /\ e \in Sent \/ t \notin e.topics => (was <=> wanted)
          /\ e \notin Sent /\ t \in e.topics => ((e.type = "subscribe") <=> wanted)
      BY <1>5, <2>1
    <3> HIDE DEF q, was
    <3>3. Tracks(up, {}, t, wanted)
      BY <2>1, <3>1, <3>2, TracksGrow
    <3> QED
      BY <3>3 DEF wanted
  <2> QED
    BY <2>2, <2>3
<1>13. client' \in ClientState /\ page' \in PageState /\ page.published <= page'.published
  BY <1>2, WebTyped DEF WebInv, WebType
<1>14. CASE topics # {}
  BY <1>2, <1>3, <1>5, <1>7, <1>8, <1>9, <1>10, <1>12, <1>13, <1>14, SendStep
<1>15. CASE topics = {}
  <2>1. \A t \in WebTopics : Task(s, t) = Task(o, t)
    BY <1>9 DEF Task
  <2>2. SocketInv(s)
    BY <1>1, <1>2, <1>9, <2>1 DEF SocketInv
  <2>3. ASSUME NEW t \in WebTopics PROVE DownOf(s, page.got[t], t, web.sent[t])
    <3>1. DownOf(o, page.got[t], t, web.sent[t])
      BY WebFacts
    <3> QED
      BY <1>3, <1>9, <2>1, <3>1 DEF DownOf
  <2>4. ClientInv'
    <3>1. ((s.page = "none") <=> (o.page = "none")) /\ (Active(s) => Active(o))
      BY <1>2, <1>3, <1>9
    <3> QED
      BY <1>2, <1>8, <1>10, <3>1, ClientKeeps
  <2> QED
    BY <1>1, <1>2, <1>7, <1>8, <1>9, <1>10, <1>12, <1>13, <1>15, <2>2, <2>3, <2>4, SocketMoves
<1> QED
  BY <1>14, <1>15

LEMMA PublishStep ==
  ASSUME WebInv, Publish
  PROVE  WebInv'
<1> DEFINE n == page.published + 1
           e == [type |-> "data", n |-> n]
           c == client.socket
<1>1. /\ page' = [page EXCEPT !.published = @ + 1] /\ page \in PageState /\ client \in ClientState
      /\ sockets' = Sending(client, <<e>>) /\ web' = web /\ client' = client
  BY DEF Publish, WebInv, WebType
<1>2. page.published \in Nat /\ n \in Nat /\ page.published < n
  BY <1>1 DEF PageState
<1>3. /\ page' \in PageState /\ page'.got = page.got /\ page'.taken = page.taken /\ page'.published = n
  BY <1>1, <1>2 DEF PageState
<1>4. e \in PageMessage /\ e \in Sent /\ e.n = n
  BY <1>2 DEF PageMessage, Sent
<1>a. page.published <= page'.published /\ page.published < e.n /\ e.n <= page'.published
  BY <1>2, <1>3, <1>4
<1> HIDE DEF e, n
<1>5. CASE ~ Connected(client)
  <2>1. sockets' = sockets
    BY <1>1, <1>5 DEF Sending
  <2>2. \A d \in Ids : ControlOf(sockets[d], client'.listeners)
    BY <1>1 DEF WebInv
  <2> QED
    BY <1>1, <1>3, <1>a, <2>1, <2>2, PageMoves
<1>6. CASE Connected(client)
  <2> DEFINE o == sockets[c]
             up == o.up \o <<e>>
             s == [o EXCEPT !.up = up]
  <2>1. c \in Ids /\ o.page = "open" /\ Active(o)
    BY <1>6, WebTyped DEF Connected, WebInv, ClientInv, Ids, Active
  <2>2. o \in SocketState /\ SocketInv(o) /\ o.up \in Seq(PageMessage) /\ o.task # "none"
    BY <2>1, WebFacts, SocketTyped DEF SocketInv
  <2>3. sockets' = [sockets EXCEPT ![c].up = @ \o <<e>>]
    BY <1>1, <1>6 DEF Sending
  <2>4. up \in Seq(PageMessage) /\ Grows(o.up, up, e)
    BY <1>4, <2>2, ConcatOne
  <2>5. sockets' = [sockets EXCEPT ![c] = s]
    BY <2>1, <2>2, <2>3 DEF WebInv, WebType
  <2> HIDE DEF up
  <2>6. /\ s.page = o.page /\ s.task = o.task /\ s.up = up /\ s.down = o.down
        /\ s.out = o.out /\ s.forwarders = o.forwarders /\ s.tasks = o.tasks
    BY <2>2 DEF SocketState
  <2>7. s \in SocketState
    BY <2>2, <2>4 DEF SocketState
  <2> HIDE DEF s
  <2>8. ControlOf(s, client.listeners)
    <3> SUFFICES ASSUME s.task = "reading", NEW t \in WebTopics
                 PROVE  Tracks(up, o.forwarders, t, HasTopicListener(client.listeners, t))
      BY <2>6 DEF ControlOf
    <3> DEFINE wanted == HasTopicListener(client.listeners, t)
    <3>1. wanted \in BOOLEAN
      BY DEF HasTopicListener
    <3>2. Tracks(o.up, o.forwarders, t, wanted)
      BY <2>1, <2>6, WebFacts DEF ControlOf
    <3> HIDE DEF wanted
    <3>3. Tracks(up, o.forwarders, t, wanted)
      BY <1>4, <2>4, <3>1, <3>2, TracksGrow
    <3> QED
      BY <3>3 DEF wanted
  <2> QED
    BY <1>1, <1>3, <1>4, <1>a, <2>1, <2>2, <2>4, <2>5, <2>6, <2>7, <2>8, SendStep
<1> QED
  BY <1>5, <1>6

(* The listeners of a topic change, and the server is told when the page   *)
(* begins or ceases to listen to it.                                       *)
LEMMA ListenersMove ==
  ASSUME WebInv, NEW L \in SUBSET WebListeners, NEW topic \in WebTopics,
         NEW type \in {"subscribe", "unsubscribe"},
         client' = [client EXCEPT !.listeners = L], page' = [page EXCEPT !.calls = @ + 1], web' = web,
         \A t \in WebTopics : t # topic => (HasTopicListener(L, t) <=> HasTopicListener(client.listeners, t)),
         \/ /\ sockets' = sockets
            /\ HasTopicListener(L, topic) <=> HasTopicListener(client.listeners, topic)
         \/ /\ sockets' = Sending(client, Control(type, {topic}))
            /\ (type = "subscribe") <=> HasTopicListener(L, topic)
  PROVE  WebInv'
<1> DEFINE c == client.socket
           e == [type |-> type, topics |-> {topic}]
<1>1. page \in PageState /\ client \in ClientState
  BY DEF WebInv, WebType
<1>2. /\ client' \in ClientState /\ client'.socket = client.socket /\ client'.opened = client.opened
      /\ client'.wasm = client.wasm /\ client'.timer = client.timer /\ client'.listeners = L
  BY <1>1 DEF ClientState
<1>3. /\ page' \in PageState /\ page'.got = page.got /\ page'.taken = page.taken
      /\ page'.published = page.published /\ page.published \in Nat
  BY <1>1 DEF PageState
<1>4. page.published <= page'.published
  BY <1>3
<1>5. e \in PageMessage /\ e \notin Sent /\ e.type = type /\ e.topics = {topic} /\ Control(type, {topic}) = <<e>>
  BY DEF PageMessage, Sent, Control
<1> HIDE DEF e
<1>6. CASE ~ Connected(client)
  <2>1. sockets' = sockets
    BY <1>6 DEF Sending
  <2>2. ASSUME NEW d \in Ids PROVE ControlOf(sockets[d], L)
    <3>1. sockets[d].page # "open"
      BY <1>6 DEF Connected, WebInv, ClientInv, Active, Ids
    <3> QED
      BY <3>1 DEF ControlOf
  <2> QED
    BY <1>2, <1>3, <1>4, <2>1, <2>2, PageMoves
<1>7. CASE /\ sockets' = sockets
           /\ HasTopicListener(L, topic) <=> HasTopicListener(client.listeners, topic)
  <2>1. \A t \in WebTopics : HasTopicListener(L, t) <=> HasTopicListener(client.listeners, t)
    BY <1>7
  <2>2. ASSUME NEW d \in Ids PROVE ControlOf(sockets[d], L)
    <3> SUFFICES ASSUME sockets[d].page = "open", sockets[d].task = "reading", NEW t \in WebTopics
                 PROVE  Tracks(sockets[d].up, sockets[d].forwarders, t, HasTopicListener(L, t))
      BY DEF ControlOf
    <3>1. Tracks(sockets[d].up, sockets[d].forwarders, t, HasTopicListener(client.listeners, t))
      BY WebFacts DEF ControlOf
    <3> DEFINE a == HasTopicListener(L, t)
               b == HasTopicListener(client.listeners, t)
    <3>2. a \in BOOLEAN /\ b \in BOOLEAN /\ (a <=> b)
      BY <2>1 DEF HasTopicListener
    <3> HIDE DEF a, b
    <3>3. a = b
      BY <3>2
    <3>4. Tracks(sockets[d].up, sockets[d].forwarders, t, b)
      BY <3>1 DEF b
    <3>5. Tracks(sockets[d].up, sockets[d].forwarders, t, a)
      BY <3>3, <3>4
    <3> QED
      BY <3>5 DEF a
  <2> QED
    BY <1>2, <1>3, <1>4, <1>7, <2>2, PageMoves
<1>8. CASE /\ Connected(client)
           /\ sockets' = Sending(client, Control(type, {topic}))
           /\ (type = "subscribe") <=> HasTopicListener(L, topic)
  <2> DEFINE o == sockets[c]
             up == o.up \o <<e>>
             s == [o EXCEPT !.up = up]
  <2>1. c \in Ids /\ o.page = "open" /\ Active(o)
    BY <1>8, WebTyped DEF Connected, WebInv, ClientInv, Ids, Active
  <2>2. o \in SocketState /\ SocketInv(o) /\ o.up \in Seq(PageMessage) /\ o.task # "none"
    BY <2>1, WebFacts, SocketTyped DEF SocketInv
  <2>3. sockets' = [sockets EXCEPT ![c].up = @ \o <<e>>]
    BY <1>5, <1>8 DEF Sending
  <2>4. up \in Seq(PageMessage) /\ Grows(o.up, up, e)
    BY <1>5, <2>2, ConcatOne
  <2>5. sockets' = [sockets EXCEPT ![c] = s]
    BY <2>1, <2>2, <2>3 DEF WebInv, WebType
  <2> HIDE DEF up
  <2>6. /\ s.page = o.page /\ s.task = o.task /\ s.up = up /\ s.down = o.down
        /\ s.out = o.out /\ s.forwarders = o.forwarders /\ s.tasks = o.tasks
    BY <2>2 DEF SocketState
  <2>7. s \in SocketState
    BY <2>2, <2>4 DEF SocketState
  <2> HIDE DEF s
  <2>8. ControlOf(s, L)
    <3> SUFFICES ASSUME s.task = "reading", NEW t \in WebTopics
                 PROVE  Tracks(up, o.forwarders, t, HasTopicListener(L, t))
      BY <2>6 DEF ControlOf
    <3> DEFINE was == HasTopicListener(client.listeners, t)
               wanted == HasTopicListener(L, t)
    <3>1. wanted \in BOOLEAN /\ was \in BOOLEAN
      BY DEF HasTopicListener
    <3>2. Tracks(o.up, o.forwarders, t, was)
      BY <2>1, <2>6, WebFacts DEF ControlOf
    <3>3. t # topic => (was <=> wanted)
      OBVIOUS
    <3>4. t = topic => ((type = "subscribe") <=> wanted)
      BY <1>8
    <3> HIDE DEF wanted, was
    <3>5. /\ e \in Sent \/ t \notin e.topics => (was <=> wanted)
          /\ e \notin Sent /\ t \in e.topics => ((e.type = "subscribe") <=> wanted)
      BY <1>5, <3>3, <3>4
    <3>6. Tracks(up, o.forwarders, t, wanted)
      BY <2>4, <3>1, <3>2, <3>5, TracksGrow
    <3> QED
      BY <3>6 DEF wanted
  <2> QED
    BY <1>2, <1>3, <1>4, <1>5, <2>1, <2>2, <2>4, <2>5, <2>6, <2>7, <2>8, SendStep, ZenonT(40)
<1> QED
  BY <1>6, <1>7, <1>8

LEMMA AddListenerStep ==
  ASSUME WebInv, NEW l \in WebListeners, AddListener(l)
  PROVE  WebInv'
<1> DEFINE L == client.listeners \cup {l}
<1>1. /\ client' = [client EXCEPT !.listeners = L] /\ page' = [page EXCEPT !.calls = @ + 1] /\ web' = web
      /\ sockets' = IF HasTopicListener(client.listeners, l.topic) THEN sockets
                    ELSE Sending(client, Control("subscribe", {l.topic}))
  BY DEF AddListener
<1>2. L \in SUBSET WebListeners /\ l.topic \in WebTopics
  BY WebTyped, WebAssumption DEF WebInv
<1>3. \A t \in WebTopics : t # l.topic => (HasTopicListener(L, t) <=> HasTopicListener(client.listeners, t))
  BY DEF HasTopicListener
<1>4. HasTopicListener(L, l.topic)
  BY DEF HasTopicListener
<1>5. "subscribe" \in {"subscribe", "unsubscribe"}
  OBVIOUS
<1> HIDE DEF L
<1>6. \/ /\ sockets' = sockets
         /\ HasTopicListener(L, l.topic) <=> HasTopicListener(client.listeners, l.topic)
      \/ /\ sockets' = Sending(client, Control("subscribe", {l.topic}))
         /\ ("subscribe" = "subscribe") <=> HasTopicListener(L, l.topic)
  BY <1>1, <1>4
<1> QED
  BY <1>1, <1>2, <1>3, <1>5, <1>6, ListenersMove

LEMMA RemoveListenerStep ==
  ASSUME WebInv, NEW l \in WebListeners, RemoveListener(l)
  PROVE  WebInv'
<1> DEFINE L == client.listeners \ {l}
<1>1. /\ client' = [client EXCEPT !.listeners = L] /\ page' = [page EXCEPT !.calls = @ + 1] /\ web' = web
      /\ sockets' = IF HasTopicListener(L, l.topic) THEN sockets
                    ELSE Sending(client, Control("unsubscribe", {l.topic}))
  BY DEF RemoveListener
<1>2. L \in SUBSET WebListeners /\ l.topic \in WebTopics
  BY WebTyped, WebAssumption DEF WebInv
<1>3. \A t \in WebTopics : t # l.topic => (HasTopicListener(L, t) <=> HasTopicListener(client.listeners, t))
  BY DEF HasTopicListener
<1>4. HasTopicListener(client.listeners, l.topic)
  BY DEF HasTopicListener, RemoveListener
<1>5. "unsubscribe" \in {"subscribe", "unsubscribe"} /\ "unsubscribe" # "subscribe"
  OBVIOUS
<1> HIDE DEF L
<1>6. \/ /\ sockets' = sockets
         /\ HasTopicListener(L, l.topic) <=> HasTopicListener(client.listeners, l.topic)
      \/ /\ sockets' = Sending(client, Control("unsubscribe", {l.topic}))
         /\ ("unsubscribe" = "subscribe") <=> HasTopicListener(L, l.topic)
  BY <1>1, <1>4, <1>5
<1> QED
  BY <1>1, <1>2, <1>3, <1>5, <1>6, ListenersMove

(* The values of a socket move on: read, put in the listener's queue or    *)
(* lost, and taken by the graph.                                           *)
LEMMA UpReads ==
  ASSUME NEW c \in Ids, NEW taken, NEW queue, NEW up, NEW r, NEW h, NEW z, NEW v, NEW n \in Nat,
         UpOf(c, taken, queue, up, n), Shrinks(up, r, h)
  PROVE  /\ UpOf(c, taken, queue, r, n)
         /\ Grows(queue, z, v) /\ v \in ValuesBy(c) /\ h \in Sent /\ v.n = h.n => UpOf(c, taken, z, r, n)
<1> DEFINE T == Numbers(taken, ValuesBy(c))
           Q == Numbers(queue, ValuesBy(c))
           U == Numbers(up, Sent)
           R == Numbers(r, Sent)
           Z == Numbers(z, ValuesBy(c))
<1>1. /\ Rising(taken, ValuesBy(c)) /\ Rising(queue, ValuesBy(c)) /\ Rising(up, Sent)
      /\ Below(T, Q \cup U) /\ Below(Q, U) /\ Below(T \cup Q \cup U, {n + 1})
  BY DEF UpOf
<1>2. (h \in Sent => U = R \cup {h.n}) /\ (h \notin Sent => U = R)
  BY NumbersShrink
<1>3. Rising(r, Sent) /\ (h \in Sent => Below({h.n}, R))
  BY <1>1, RisingShrink
<1>4. R \subseteq U
  BY <1>2
<1> HIDE DEF T, Q, U, R, Z
<1>5. Below(T, Q \cup R) /\ Below(Q, R) /\ Below(T \cup Q \cup R, {n + 1})
  BY <1>1, <1>4 DEF Below
<1>6. UpOf(c, taken, queue, r, n)
  BY <1>1, <1>3, <1>5 DEF UpOf, T, Q, R
<1>7. ASSUME Grows(queue, z, v), v \in ValuesBy(c), h \in Sent, v.n = h.n PROVE UpOf(c, taken, z, r, n)
  <2>1. Z = Q \cup {h.n}
    BY <1>7, NumbersGrow DEF Z, Q
  <2>2. h.n \in U /\ Below(Q, {h.n}) /\ Below({h.n}, R) /\ Below(T, {h.n}) /\ Below({h.n}, {n + 1})
    BY <1>1, <1>2, <1>3, <1>7 DEF Below
  <2>a. Below(Numbers(queue, ValuesBy(c)), {v.n})
    BY <1>7, <2>2 DEF Q
  <2>3. Rising(z, ValuesBy(c))
    BY <1>1, <1>7, <2>a, RisingGrow
  <2>4. Below(T, Z \cup R) /\ Below(Z, R) /\ Below(T \cup Z \cup R, {n + 1})
    BY <1>5, <2>1, <2>2 DEF Below
  <2> QED
    BY <1>1, <1>3, <2>3, <2>4 DEF UpOf, T, Z, R
<1> QED
  BY <1>6, <1>7

LEMMA UpOthers ==
  ASSUME NEW c \in Ids, NEW taken, NEW queue, NEW up, NEW z, NEW v, NEW n \in Nat,
         UpOf(c, taken, queue, up, n), Grows(queue, z, v), v \notin ValuesBy(c)
  PROVE  UpOf(c, taken, z, up, n)
<1>1. Numbers(z, ValuesBy(c)) = Numbers(queue, ValuesBy(c))
  BY NumbersGrow
<1>2. Rising(z, ValuesBy(c))
  BY RisingGrow DEF UpOf
<1> QED
  BY <1>1, <1>2 DEF UpOf

LEMMA UpTakes ==
  ASSUME NEW c \in Ids, NEW taken, NEW queue, NEW up, NEW w, NEW z, NEW v, NEW n \in Nat,
         UpOf(c, taken, queue, up, n), Shrinks(queue, z, v), Grows(taken, w, v)
  PROVE  UpOf(c, w, z, up, n)
<1> DEFINE M == ValuesBy(c)
           T == Numbers(taken, M)
           Q == Numbers(queue, M)
           U == Numbers(up, Sent)
           W == Numbers(w, M)
           Z == Numbers(z, M)
<1> HIDE DEF M
<1>1. /\ Rising(taken, M) /\ Rising(queue, M) /\ Rising(up, Sent)
      /\ Below(T, Q \cup U) /\ Below(Q, U) /\ Below(T \cup Q \cup U, {n + 1})
  BY DEF UpOf, M
<1>2. (v \in M => Q = Z \cup {v.n} /\ W = T \cup {v.n}) /\ (v \notin M => Q = Z /\ W = T)
  BY NumbersShrink, NumbersGrow
<1>3. Rising(z, M) /\ (v \in M => Below({v.n}, Z))
  BY <1>1, RisingShrink
<1> HIDE DEF Q, U, W, Z
<1>4. v \in M => Below(T, {v.n})
  BY <1>1, <1>2 DEF Below
<1>5. Rising(w, M)
  BY <1>1, <1>4, RisingGrow
<1> HIDE DEF T
<1>6. Below(W, Z \cup U) /\ Below(Z, U) /\ Below(W \cup Z \cup U, {n + 1})
  <2>1. CASE v \in M
    <3>1. Q = Z \cup {v.n} /\ W = T \cup {v.n} /\ Below({v.n}, Z)
      BY <1>2, <1>3, <2>1
    <3> QED
      BY <1>1, <3>1 DEF Below
  <2>2. CASE v \notin M
    BY <1>1, <1>2, <2>2 DEF Below
  <2> QED
    BY <2>1, <2>2
<1> QED
  BY <1>1, <1>3, <1>5, <1>6 DEF UpOf, M, U, W, Z

LEMMA DispatchStep ==
  ASSUME WebInv, NEW c \in Ids, Dispatch(c)
  PROVE  WebInv'
<1> DEFINE o == sockets[c]
           h == Head(o.up)
           r == Tail(o.up)
           v == [socket |-> c, n |-> h.n]
           queue == Append(web.queue, v)
           s == [o EXCEPT !.up = r]
<1>1. FrameArrived(c, "data")
  BY DEF Dispatch
<1>2. /\ o \in SocketState /\ SocketInv(o) /\ o.task = "reading" /\ o.page \notin {"none", "connecting"}
      /\ h \in PageMessage /\ h.type = "data" /\ r \in Seq(PageMessage)
      /\ Shrinks(o.up, r, h) /\ Rising(r, Sent) /\ Numbers(r, Sent) \subseteq Numbers(o.up, Sent)
      /\ h \in Sent
  BY <1>1, ArrivedFacts
<1>3. /\ sockets' = [sockets EXCEPT ![c].up = Tail(@)] /\ client' = client /\ page' = page
      /\ web' = IF web.listening /\ Len(web.queue) < ListenerCapacity
                THEN [web EXCEPT !.queue = Append(@, [socket |-> c, n |-> Head(sockets[c].up).n])]
                ELSE web
  BY DEF Dispatch
<1>4. v \in PageValue /\ v \in ValuesBy(c) /\ v.n = h.n /\ \A d \in Ids : d # c => v \notin ValuesBy(d)
  BY <1>2 DEF PageValue, ValuesBy, Sent
<1>5. web.queue \in Seq(PageValue) /\ web \in ServerState /\ page.published \in Nat
  BY WebTyped DEF WebInv, WebType
<1>6. queue \in Seq(PageValue) /\ Grows(web.queue, queue, v)
  BY <1>4, <1>5, ValuesMove
<1>7. sockets' = [sockets EXCEPT ![c] = s]
  BY <1>2, <1>3 DEF WebInv, WebType
<1>8. web' = web \/ web' = [web EXCEPT !.queue = queue]
  BY <1>3
<1> HIDE DEF r, queue, v
<1>9. /\ s.page = o.page /\ s.task = o.task /\ s.up = r /\ s.down = o.down
      /\ s.out = o.out /\ s.forwarders = o.forwarders /\ s.tasks = o.tasks
  BY <1>2 DEF SocketState
<1>10. s \in SocketState
  BY <1>2 DEF SocketState
<1>11. /\ web' \in ServerState /\ web'.sent = web.sent /\ web'.queue \in {web.queue, queue}
  BY <1>5, <1>6, <1>8 DEF ServerState
<1> HIDE DEF s
<1>12. /\ \A d \in Ids : sockets'[d] = IF d = c THEN s ELSE sockets[d]
       /\ sockets' \in [Ids -> SocketState]
  BY <1>7, <1>10 DEF WebInv, WebType
<1>13. WebType'
  BY <1>3, <1>11, <1>12 DEF WebInv, WebType
<1>14. \A t \in WebTopics : Task(s, t) = Task(o, t)
  BY <1>9 DEF Task
<1>15. SocketInv(s)
  BY <1>2, <1>9, <1>14 DEF SocketInv
<1>16. ControlOf(s, client.listeners)
  <2> SUFFICES ASSUME s.page = "open", NEW t \in WebTopics
               PROVE  Tracks(r, o.forwarders, t, HasTopicListener(client.listeners, t))
    BY <1>9 DEF ControlOf
  <2> DEFINE wanted == HasTopicListener(client.listeners, t)
  <2>1. Tracks(o.up, o.forwarders, t, wanted)
    BY <1>2, <1>9, WebFacts DEF ControlOf
  <2>2. wanted \in BOOLEAN
    BY DEF HasTopicListener
  <2> HIDE DEF wanted, h
  <2>3. Tracks(r, o.forwarders, t, wanted)
    BY <1>2, <2>1, <2>2, TracksShrink
  <2> QED
    BY <2>3 DEF wanted
<1>17. ClientInv'
  <2>1. ((s.page = "none") <=> (o.page = "none")) /\ (Active(s) => Active(o))
    BY <1>9 DEF Active
  <2> QED
    BY <1>3, <1>7, <1>10, <2>1, ClientKeeps
<1> HIDE DEF h
<1>18. ASSUME NEW d \in Ids
       PROVE  UpOf(d, page.taken, web'.queue, sockets'[d].up, page.published)
  <2>1. UpOf(d, page.taken, web.queue, sockets[d].up, page.published)
    BY DEF WebInv
  <2>2. CASE d = c
    <3>1. UpOf(c, page.taken, web.queue, r, page.published)
      BY <1>2, <1>5, <2>1, <2>2, UpReads
    <3>2. UpOf(c, page.taken, queue, r, page.published)
      BY <1>2, <1>4, <1>5, <1>6, <2>1, <2>2, UpReads
    <3> QED
      BY <1>9, <1>11, <1>12, <2>2, <3>1, <3>2
  <2>3. CASE d # c
    <3>1. UpOf(d, page.taken, queue, sockets[d].up, page.published)
      BY <1>4, <1>5, <1>6, <2>1, <2>3, UpOthers
    <3> QED
      BY <1>11, <1>12, <2>1, <2>3, <3>1
  <2> QED
    BY <2>2, <2>3
<1>19. ASSUME NEW d \in Ids
       PROVE  SocketInv(sockets'[d]) /\ ControlOf(sockets'[d], client'.listeners)
  <2>1. CASE d = c
    BY <1>3, <1>12, <1>15, <1>16, <2>1
  <2>2. CASE d # c
    BY <1>3, <1>12, <2>2 DEF WebInv
  <2> QED
    BY <2>1, <2>2
<1>20. ASSUME NEW d \in Ids, NEW t \in WebTopics
       PROVE  DownOf(sockets'[d], page.got[t], t, web.sent[t])
  <2>1. DownOf(sockets[d], page.got[t], t, web.sent[t])
    BY DEF WebInv
  <2>2. CASE d = c
    BY <1>9, <1>12, <1>14, <2>1, <2>2 DEF DownOf, Active
  <2>3. CASE d # c
    BY <1>12, <2>1, <2>3
  <2> QED
    BY <2>2, <2>3
<1> QED
  BY <1>3, <1>11, <1>13, <1>17, <1>18, <1>19, <1>20 DEF WebInv

(* A frame reaches every receiver of its topic, which keeps the newest. *)
LEMMA BroadcastFacts ==
  ASSUME WebInv, NEW topic \in WebTopics, NEW f \in WebFrame, f.topic = topic,
         sockets' = Broadcast(topic, f), NEW c \in Ids
  PROVE  LET o == sockets[c]
             s == sockets'[c]
             q == Append(Task(o, topic), f)
         IN /\ s \in SocketState /\ s.page = o.page /\ s.task = o.task /\ s.up = o.up /\ s.down = o.down
            /\ s.out = o.out /\ s.forwarders = o.forwarders
            /\ \A t \in WebTopics : Len(s.tasks[t]) = Len(o.tasks[t])
            /\ \A t \in WebTopics : t # topic => Task(s, t) = Task(o, t)
            /\ topic \notin o.forwarders => Task(s, topic) = Task(o, topic)
            /\ topic \in o.forwarders => Task(s, topic) \in {q, Tail(q)}
            /\ q \in Seq(WebFrame) /\ q # <<>> /\ Tail(q) \in Seq(WebFrame)
<1> DEFINE o == sockets[c]
           s == sockets'[c]
           k == Task(o, topic)
           q == Append(k, f)
           Fed(u) == LET p == Append(u, f) IN IF Len(p) > BroadcastCapacity THEN Tail(p) ELSE p
           z == o.tasks[topic]
           w == [x \in DOMAIN z |-> Fed(z[x])]
           tasks == [o.tasks EXCEPT ![topic] = w]
<1>1. /\ o \in SocketState /\ SocketInv(o) /\ k \in Seq(WebFrame)
      /\ o.tasks \in [WebTopics -> Seq(Seq(WebFrame))]
  BY WebFacts, SocketTyped
<1>2. s = [o EXCEPT !.tasks = tasks]
  BY DEF Broadcast
<1>3. \A u \in Seq(WebFrame) : Fed(u) \in Seq(WebFrame) /\ Append(u, f) \in Seq(WebFrame) /\ Append(u, f) # <<>>
                               /\ Tail(Append(u, f)) \in Seq(WebFrame)
  <2> TAKE u \in Seq(WebFrame)
  <2> DEFINE p == Append(u, f)
  <2>1. p \in Seq(WebFrame) /\ Grows(u, p, f)
    BY FramesMove
  <2> HIDE DEF p
  <2>2. p # <<>>
    BY <2>1 DEF Grows
  <2>3. Tail(p) \in Seq(WebFrame)
    BY <2>1, <2>2, FramesMove
  <2> QED
    BY <2>1, <2>2, <2>3 DEF p
<1>4. q \in Seq(WebFrame) /\ q # <<>> /\ Tail(q) \in Seq(WebFrame) /\ Fed(k) \in {q, Tail(q)}
  BY <1>1, <1>3
<1> HIDE DEF Fed
<1>5. z \in Seq(Seq(WebFrame)) /\ Len(z) \in Nat /\ DOMAIN z = 1..Len(z)
      /\ \A x \in 1..Len(z) : z[x] \in Seq(WebFrame)
  BY <1>1
<1>6. w \in Seq(Seq(WebFrame)) /\ Len(w) = Len(z) /\ \A x \in 1..Len(z) : w[x] = Fed(z[x])
  <2> DEFINE n == Len(z)
             B == Seq(WebFrame)
  <2>1. n \in Nat /\ \A x \in 1..n : Fed(z[x]) \in B
    BY <1>3, <1>5
  <2>2. w = [x \in 1..n |-> Fed(z[x])]
    BY <1>5
  <2> HIDE DEF n, B, w, z
  <2>3. w \in [1..n -> B] /\ \A x \in 1..n : w[x] = Fed(z[x])
    BY <2>1, <2>2
  <2>4. w \in Seq(B)
    BY <2>1, <2>3, SeqDef
  <2>5. Len(w) = n
    BY <2>1, <2>3, <2>4, LenProperties
  <2> QED
    BY <2>3, <2>4, <2>5 DEF n, B
<1> HIDE DEF w
<1>7. /\ tasks \in [WebTopics -> Seq(Seq(WebFrame))] /\ tasks[topic] = w
      /\ \A t \in WebTopics : t # topic => tasks[t] = o.tasks[t]
  BY <1>1, <1>6
<1> HIDE DEF tasks
<1>8. /\ s.page = o.page /\ s.task = o.task /\ s.up = o.up /\ s.down = o.down
      /\ s.out = o.out /\ s.forwarders = o.forwarders /\ s.tasks = tasks /\ s \in SocketState
  BY <1>1, <1>2, <1>7 DEF SocketState
<1>9. \A t \in WebTopics : Len(s.tasks[t]) = Len(o.tasks[t])
  BY <1>6, <1>7, <1>8
<1>10. \A t \in WebTopics : t # topic => Task(s, t) = Task(o, t)
  BY <1>7, <1>8 DEF Task
<1>11. ASSUME topic \notin o.forwarders PROVE Task(s, topic) = Task(o, topic)
  <2>1. z = <<>> /\ Task(o, topic) = <<>>
    BY <1>1, <1>11, TaskOf
  <2>2. Len(w) = 0
    BY <1>6, <2>1
  <2>3. w = <<>>
    BY <1>6, <2>2, EmptySeq
  <2> QED
    BY <1>7, <1>8, <2>1, <2>3 DEF Task
<1>12. ASSUME topic \in o.forwarders PROVE Task(s, topic) \in {q, Tail(q)}
  <2>1. Len(z) = 1 /\ k = z[1]
    BY <1>1, <1>12, TaskOf
  <2>2. Len(w) = 1 /\ w[1] = Fed(k)
    BY <1>6, <2>1
  <2>3. w # <<>>
    BY <2>2
  <2>4. Task(s, topic) = Fed(k)
    BY <1>7, <1>8, <2>2, <2>3 DEF Task
  <2> QED
    BY <1>4, <2>4
<1> QED
  BY <1>4, <1>8, <1>9, <1>10, <1>11, <1>12

LEMMA BroadcastStep ==
  ASSUME WebInv, NEW topic \in WebTopics, NEW f \in WebFrame, f.topic = topic, NEW m \in Nat,
         sockets' = Broadcast(topic, f), client' = client, page' = page,
         web' \in ServerState, web'.queue = web.queue, web'.sent = [web.sent EXCEPT ![topic] = m],
         \/ f \in FramesOf(topic) /\ f.n = m /\ m = web.sent[topic] + 1
         \/ f \notin FramesOf(topic) /\ m = web.sent[topic]
  PROVE  WebInv'
<1>1. \A c \in Ids : /\ sockets'[c] \in SocketState /\ sockets'[c].page = sockets[c].page
                     /\ sockets'[c].task = sockets[c].task /\ sockets'[c].up = sockets[c].up
                     /\ sockets'[c].down = sockets[c].down /\ sockets'[c].out = sockets[c].out
                     /\ sockets'[c].forwarders = sockets[c].forwarders
                     /\ \A t \in WebTopics : Len(sockets'[c].tasks[t]) = Len(sockets[c].tasks[t])
                     /\ \A t \in WebTopics : t # topic => Task(sockets'[c], t) = Task(sockets[c], t)
                     /\ topic \notin sockets[c].forwarders => Task(sockets'[c], topic) = Task(sockets[c], topic)
                     /\ topic \in sockets[c].forwarders =>
                          Task(sockets'[c], topic) \in {Append(Task(sockets[c], topic), f),
                                                        Tail(Append(Task(sockets[c], topic), f))}
  BY BroadcastFacts
<1>2. web'.sent[topic] = m /\ \A t \in WebTopics : t # topic => web'.sent[t] = web.sent[t]
  BY WebTyped DEF WebInv
<1>3. WebType'
  <2>1. sockets' \in [Ids -> SocketState]
    BY <1>1 DEF Broadcast
  <2> QED
    BY <2>1, SMTT(30) DEF WebInv, WebType
<1>4. \A c \in Ids : Active(sockets'[c]) <=> Active(sockets[c])
  BY <1>1 DEF Active
<1>5. ClientInv'
  BY <1>1, <1>4 DEF WebInv, ClientInv
<1>6. ASSUME NEW c \in Ids PROVE SocketInv(sockets'[c])
  <2> DEFINE o == sockets[c]
             s == sockets'[c]
             k == Task(o, topic)
             q == Append(k, f)
  <2>1. SocketInv(o) /\ k \in Seq(WebFrame)
    BY WebFacts
  <2>2. \A t \in WebTopics : t # topic => \A y \in 1..Len(Task(s, t)) : Task(s, t)[y].topic = t
    BY <1>1, <2>1 DEF SocketInv
  <2>3. \A y \in 1..Len(k) : k[y].topic = topic
    BY <2>1 DEF SocketInv
  <2>4. q \in Seq(WebFrame) /\ Grows(k, q, f) /\ q # <<>>
    BY <2>1, FramesMove, BroadcastFacts
  <2>5. Shrinks(q, Tail(q), Head(q))
    BY <2>4, FramesMove
  <2> HIDE DEF q, k
  <2>6. \A y \in 1..Len(q) : q[y].topic = topic
    <3> TAKE y \in 1..Len(q)
    <3>1. Len(k) \in Nat /\ Len(q) = Len(k) + 1
      BY <2>4 DEF Grows
    <3>2. CASE y \in 1..Len(k)
      BY <2>3, <2>4, <3>2 DEF Grows
    <3>3. CASE y = Len(k) + 1
      BY <2>4, <3>3 DEF Grows
    <3> QED
      BY <3>1, <3>2, <3>3
  <2>7. \A y \in 1..Len(Tail(q)) : Tail(q)[y].topic = topic
    <3> TAKE y \in 1..Len(Tail(q))
    <3>1. y + 1 \in 1..Len(q) /\ Tail(q)[y] = q[y + 1]
      BY <2>5 DEF Shrinks
    <3> QED
      BY <2>6, <3>1
  <2>8. Task(s, topic) \in {k, q, Tail(q)}
    BY <1>1 DEF k, q
  <2>9. \A y \in 1..Len(Task(s, topic)) : Task(s, topic)[y].topic = topic
    BY <2>3, <2>6, <2>7, <2>8, ZenonT(40)
  <2> QED
    BY <1>1, <2>1, <2>2, <2>9 DEF SocketInv
<1>7. ASSUME NEW c \in Ids
      PROVE  /\ ControlOf(sockets'[c], client.listeners)
             /\ UpOf(c, page.taken, web.queue, sockets'[c].up, page.published)
  BY <1>1 DEF WebInv, ControlOf
<1>8. ASSUME NEW c \in Ids, NEW t \in WebTopics
      PROVE  DownOf(sockets'[c], page.got[t], t, web'.sent[t])
  <2> DEFINE o == sockets[c]
             s == sockets'[c]
             g == page.got[t]
             M == FramesOf(t)
             n == web.sent[t]
  <2>1. CASE t # topic
    <3>1. DownOf(o, g, t, n)
      BY WebFacts
    <3> QED
      BY <1>1, <1>2, <1>4, <2>1, <3>1 DEF DownOf
  <2>2. CASE t = topic
    <3> DEFINE k == Task(o, t)
               q == Append(k, f)
    <3>1. /\ g \in Seq(Nat) /\ n \in Nat /\ o.down \in Seq(WebFrame) /\ o.out \in Seq(WebFrame)
          /\ k \in Seq(WebFrame) /\ (\A x \in M : x.n \in Nat)
          /\ DownOf(o, g, t, n)
      BY WebFacts, SocketTyped
    <3>2. Chain(g, <<>>, <<>>, <<>>, M, m)
      <4> DEFINE none == <<>>
      <4>1. none \in Seq(WebFrame) /\ Chain(g, none, none, none, M, n)
        BY <3>1 DEF DownOf
      <4> HIDE DEF none, g, M, n
      <4>2. Chain(g, none, none, none, M, n + 1)
        BY <3>1, <4>1, ChainMoves
      <4>3. m = n \/ m = n + 1
        BY <2>2 DEF n
      <4>4. Chain(g, none, none, none, M, m)
        BY <4>1, <4>2, <4>3
      <4> QED
        BY <4>4 DEF none
    <3>3. ASSUME Active(o) PROVE Chain(g, o.down, o.out, Task(s, t), M, m)
      <4>1. Chain(g, o.down, o.out, k, M, m) /\ Chain(g, o.down, o.out, q, M, m)
        BY <2>2, <3>3, ChainOf
      <4>2. q \in Seq(WebFrame) /\ q # <<>>
        BY <2>2, BroadcastFacts
      <4>3. Task(s, t) \in {k, q, Tail(q)}
        BY <1>1, <2>2
      <4> DEFINE d == o.down
                 u == o.out
      <4>4. Chain(g, d, u, q, M, m) /\ d \in Seq(WebFrame) /\ u \in Seq(WebFrame)
        BY <3>1, <4>1
      <4> HIDE DEF g, M, q, k, d, u
      <4>5. Chain(g, d, u, Tail(q), M, m)
        BY <3>1, <4>2, <4>4, ChainMoves
      <4> QED
        BY <4>1, <4>3, <4>5 DEF d, u
    <3> QED
      BY <1>1, <1>2, <1>4, <2>2, <3>2, <3>3 DEF DownOf
  <2> QED
    BY <2>1, <2>2
<1> QED
  BY <1>3, <1>5, <1>6, <1>7, <1>8 DEF WebInv

LEMMA WebPubStep ==
  ASSUME WebInv, NEW t \in WebTopics, WebPub(t) \/ WebPubEnd(t)
  PROVE  WebInv'
<1>1. web \in ServerState /\ web.sent \in [WebTopics -> Nat] /\ web.ended \subseteq WebTopics
  BY DEF WebInv, WebType, ServerState
<1>2. CASE WebPub(t)
  <2> DEFINE m == web.sent[t] + 1
             f == Frame(t, m)
  <2>1. /\ web' = [web EXCEPT !.sent[t] = @ + 1] /\ sockets' = Broadcast(t, f)
        /\ client' = client /\ page' = page
    BY <1>2 DEF WebPub
  <2>2. m \in Nat
    BY <1>1
  <2>3. f \in WebFrame /\ f \in FramesOf(t) /\ f.n = m /\ f.topic = t
    BY <2>2 DEF Frame, WebFrame, FramesOf
  <2> DEFINE sent == [web.sent EXCEPT ![t] = m]
  <2>4. sent \in [WebTopics -> Nat] /\ web' = [web EXCEPT !.sent = sent]
    BY <1>1, <2>1, <2>2
  <2> HIDE DEF sent, f
  <2>5. web' \in ServerState /\ web'.queue = web.queue /\ web'.sent = sent
    BY <1>1, <2>4 DEF ServerState
  <2> QED
    BY <2>1, <2>2, <2>3, <2>5, BroadcastStep DEF sent
<1>3. CASE WebPubEnd(t)
  <2> DEFINE f == CompleteFrame(t)
             m == web.sent[t]
             ended == web.ended \cup {t}
  <2>1. /\ web' = [web EXCEPT !.ended = ended] /\ sockets' = Broadcast(t, f)
        /\ client' = client /\ page' = page
    BY <1>3 DEF WebPubEnd
  <2>2. m \in Nat /\ ended \subseteq WebTopics
    BY <1>1
  <2>3. f \in WebFrame /\ f \notin FramesOf(t) /\ f.topic = t
    BY DEF CompleteFrame, WebFrame, FramesOf
  <2> HIDE DEF ended, f
  <2>4. web' \in ServerState /\ web'.queue = web.queue /\ web'.sent = web.sent
    BY <1>1, <2>1, <2>2 DEF ServerState
  <2>5. web'.sent = [web.sent EXCEPT ![t] = m]
    BY <1>1, <2>4
  <2> QED
    BY <2>1, <2>2, <2>3, <2>4, <2>5, BroadcastStep
<1> QED
  BY <1>2, <1>3

(* Steps of the graph's side that leave the sockets alone. *)
LEMMA GraphSideStep ==
  ASSUME WebInv, WebStart \/ WebStartHistorical \/ WebSubTake \/ WebSubEnd
  PROVE  WebInv'
<1>1. /\ web \in ServerState /\ page \in PageState /\ web.queue \in Seq(PageValue)
      /\ page.taken \in Seq(PageValue) /\ page.published \in Nat
  BY WebTyped DEF WebInv, WebType
<1>2. sockets' = sockets /\ client' = client
  BY DEF WebStart, WebStartHistorical, WebSubTake, WebSubEnd
<1>3. ASSUME web' \in ServerState, web'.sent = web.sent, page' \in PageState, page'.got = page.got,
             \A c \in Ids : UpOf(c, page'.taken, web'.queue, sockets[c].up, page'.published)
      PROVE  WebInv'
  <2>1. WebType'
    BY <1>2, <1>3 DEF WebInv, WebType
  <2>2. ClientInv'
    BY <1>2 DEF WebInv, ClientInv
  <2> QED
    BY <1>2, <1>3, <2>1, <2>2 DEF WebInv
<1>4. CASE WebStart
  <2>1. PICK server \in {"running", "failed"} : web' = [web EXCEPT !.server = server]
    BY <1>4 DEF WebStart
  <2>2. web' \in ServerState /\ web'.sent = web.sent /\ web'.queue = web.queue /\ page' = page
    BY <1>1, <1>4, <2>1 DEF ServerState, WebStart
  <2> QED
    BY <1>1, <1>3, <2>2 DEF WebInv
<1>5. CASE WebStartHistorical
  <2>1. web' = [web EXCEPT !.server = "noop", !.listening = FALSE]
    BY <1>5 DEF WebStartHistorical
  <2>2. web' \in ServerState /\ web'.sent = web.sent /\ web'.queue = web.queue /\ page' = page
    BY <1>1, <1>5, <2>1 DEF ServerState, WebStartHistorical
  <2> QED
    BY <1>1, <1>3, <2>2 DEF WebInv
<1>6. CASE WebSubTake
  <2> DEFINE v == Head(web.queue)
             queue == Tail(web.queue)
             taken == Append(page.taken, v)
  <2>1. web.queue # <<>> /\ web' = [web EXCEPT !.queue = queue] /\ page' = [page EXCEPT !.taken = taken]
    BY <1>6 DEF WebSubTake
  <2>2. v \in PageValue /\ queue \in Seq(PageValue) /\ Shrinks(web.queue, queue, v)
    BY <1>1, <2>1, ValuesMove
  <2>3. taken \in Seq(PageValue) /\ Grows(page.taken, taken, v)
    BY <1>1, <2>2, ValuesMove
  <2> HIDE DEF v, queue, taken
  <2>4. web' \in ServerState /\ web'.sent = web.sent /\ web'.queue = queue
    BY <1>1, <2>1, <2>2 DEF ServerState
  <2>5. /\ page' \in PageState /\ page'.got = page.got /\ page'.taken = taken
        /\ page'.published = page.published
    BY <1>1, <2>1, <2>3 DEF PageState
  <2>6. \A c \in Ids : UpOf(c, taken, queue, sockets[c].up, page.published)
    <3> TAKE c \in Ids
    <3>1. UpOf(c, page.taken, web.queue, sockets[c].up, page.published)
      BY DEF WebInv
    <3> QED
      BY <1>1, <2>2, <2>3, <3>1, UpTakes
  <2> QED
    BY <1>3, <2>4, <2>5, <2>6
<1>7. CASE WebSubEnd
  <2> DEFINE none == <<>>
  <2>1. web' = [web EXCEPT !.listening = FALSE, !.queue = none] /\ page' = page
    BY <1>7 DEF WebSubEnd
  <2>2. /\ none \in Seq(PageValue)
        /\ \A c \in Ids : Rising(none, ValuesBy(c)) /\ Numbers(none, ValuesBy(c)) = {}
    BY NumbersNone
  <2> HIDE DEF none
  <2>3. web' \in ServerState /\ web'.sent = web.sent /\ web'.queue = none
    BY <1>1, <2>1, <2>2 DEF ServerState
  <2>4. \A c \in Ids : UpOf(c, page.taken, none, sockets[c].up, page.published)
    <3> TAKE c \in Ids
    <3>1. UpOf(c, page.taken, web.queue, sockets[c].up, page.published)
      BY DEF WebInv
    <3> QED
      BY <2>2, <3>1 DEF UpOf, Below
  <2> QED
    BY <1>1, <1>3, <2>1, <2>3, <2>4
<1> QED
  BY <1>4, <1>5, <1>6, <1>7

LEMMA WebStopStep ==
  ASSUME WebInv, WebStop
  PROVE  WebInv'
<1> DEFINE none == <<>>
           tasks == [t \in WebTopics |-> <<>>]
           Stopped(o) == [o EXCEPT !.task = IF o.task = "none" THEN "none" ELSE "ended", !.forwarders = {},
                                   !.out = none, !.tasks = tasks]
<1>1. /\ web' = [web EXCEPT !.server = "stopped"] /\ client' = client /\ page' = page
      /\ sockets' = [c \in Ids |-> Stopped(sockets[c])]
  BY DEF WebStop
<1>2. /\ none \in Seq(WebFrame) /\ tasks \in [WebTopics -> Seq(Seq(WebFrame))]
      /\ \A t \in WebTopics : tasks[t] = <<>>
  OBVIOUS
<1> HIDE DEF none, tasks
<1>3. ASSUME NEW c \in Ids
      PROVE  LET o == sockets[c]
                 s == sockets'[c]
             IN /\ s \in SocketState /\ s.page = o.page /\ s.up = o.up /\ s.down = o.down
                /\ s.task = (IF o.task = "none" THEN "none" ELSE "ended")
                /\ s.out = none /\ s.forwarders = {} /\ s.tasks = tasks
  <2>1. sockets[c] \in SocketState
    BY WebFacts
  <2> QED
    BY <1>1, <1>2, <2>1 DEF SocketState
<1>4. sockets' \in [Ids -> SocketState]
  BY <1>1, <1>3
<1>5. web' \in ServerState /\ web'.sent = web.sent /\ web'.queue = web.queue
  BY <1>1 DEF WebInv, WebType, ServerState
<1>6. WebType'
  BY <1>1, <1>4, <1>5 DEF WebInv, WebType
<1>7. ClientInv'
  BY <1>1, <1>3 DEF WebInv, ClientInv, Active
<1>8. ASSUME NEW c \in Ids, NEW t \in WebTopics
      PROVE  Task(sockets'[c], t) = <<>> /\ Len(sockets'[c].tasks[t]) = 0
  BY <1>2, <1>3 DEF Task
<1>9. ASSUME NEW c \in Ids
      PROVE  /\ SocketInv(sockets'[c]) /\ ControlOf(sockets'[c], client'.listeners)
             /\ UpOf(c, page'.taken, web'.queue, sockets'[c].up, page'.published)
  <2>1. SocketInv(sockets[c])
    BY WebFacts
  <2>2. SocketInv(sockets'[c])
    BY <1>3, <1>8, <2>1 DEF SocketInv, none
  <2>3. ControlOf(sockets'[c], client'.listeners)
    BY <1>3 DEF ControlOf
  <2>4. UpOf(c, page'.taken, web'.queue, sockets'[c].up, page'.published)
    BY <1>1, <1>3, <1>5 DEF WebInv
  <2> QED
    BY <2>2, <2>3, <2>4
<1>10. ASSUME NEW c \in Ids, NEW t \in WebTopics
       PROVE  DownOf(sockets'[c], page'.got[t], t, web'.sent[t])
  <2>1. Chain(page.got[t], <<>>, <<>>, <<>>, FramesOf(t), web.sent[t])
    BY WebFacts DEF DownOf
  <2>2. ASSUME Active(sockets[c])
        PROVE  Chain(page.got[t], sockets[c].down, <<>>, <<>>, FramesOf(t), web.sent[t])
    BY <2>2, ChainOf
  <2>3. Active(sockets'[c]) => Active(sockets[c])
    BY <1>3 DEF Active
  <2> QED
    BY <1>1, <1>3, <1>5, <1>8, <2>1, <2>2, <2>3 DEF DownOf, none
<1> QED
  BY <1>6, <1>7, <1>9, <1>10 DEF WebInv

LEMMA OnMessageStep ==
  ASSUME WebInv, NEW c \in Ids, OnMessage(c)
  PROVE  WebInv'
<1> DEFINE o == sockets[c]
           s == [o EXCEPT !.down = Tail(o.down)]
           f == Head(o.down)
<1>1. Arrives(c, "data")
  BY DEF OnMessage
<1>2. /\ sockets' = [sockets EXCEPT ![c] = s] /\ s \in SocketState
      /\ o.page = "open" /\ o.down # <<>> /\ s.page = o.page /\ f \in WebFrame /\ f.type = "data"
      /\ s.up = o.up /\ s.down = Tail(o.down) /\ s.out = o.out
      /\ Active(o) /\ Active(s) /\ SocketInv(s)
      /\ ControlOf(s, client.listeners) /\ Rising(s.up, Sent)
      /\ \A t \in WebTopics : Task(s, t) = Task(o, t)
  BY <1>1, ArrivesFacts
<1>3. /\ web' = web /\ client' = client
      /\ page' = IF HasTopicListener(client.listeners, f.topic)
                 THEN [page EXCEPT !.got[f.topic] = Append(@, f.n)] ELSE page
  BY DEF OnMessage
<1> HIDE DEF s, f
<1>4. \A d \in Ids : sockets'[d] = IF d = c THEN s ELSE sockets[d]
  BY <1>2 DEF WebInv, WebType
<1>5. sockets' \in [Ids -> SocketState]
  BY <1>2 DEF WebInv, WebType
<1>6. ClientInv'
  BY <1>2, <1>3, ClientKeeps
<1>7. page \in PageState /\ page.got \in [WebTopics -> Seq(Nat)]
  BY WebTyped DEF WebInv, WebType
<1>8. HasTopicListener(client.listeners, f.topic) => f.topic \in WebTopics
  BY WebTyped, WebAssumption DEF WebInv, HasTopicListener
<1>9. /\ page' \in PageState /\ page'.taken = page.taken /\ page'.published = page.published
      /\ \A t \in WebTopics :
           \/ page'.got[t] = page.got[t]
           \/ page'.got[t] = Append(page.got[t], f.n) /\ t = f.topic
  <2>1. CASE HasTopicListener(client.listeners, f.topic)
    <3> DEFINE x == f.topic
               got == [page.got EXCEPT ![x] = Append(page.got[x], f.n)]
    <3>1. x \in WebTopics /\ f.n \in Nat
      BY <1>2, <1>8, <2>1 DEF WebFrame
    <3>2. got \in [WebTopics -> Seq(Nat)] /\ \A t \in WebTopics :
            got[t] = IF t = x THEN Append(page.got[t], f.n) ELSE page.got[t]
      BY <1>7, <3>1
    <3>3. page' = [page EXCEPT !.got = got]
      BY <1>3, <1>7, <2>1, <3>1
    <3> HIDE DEF got
    <3>4. page' \in PageState /\ page'.taken = page.taken /\ page'.published = page.published /\ page'.got = got
      BY <1>7, <3>2, <3>3 DEF PageState
    <3> QED
      BY <3>2, <3>4
  <2>2. CASE ~ HasTopicListener(client.listeners, f.topic)
    BY <1>3, <1>7, <2>2
  <2> QED
    BY <2>1, <2>2
<1>10. WebType'
  BY <1>3, <1>5, <1>9 DEF WebInv, WebType
<1>11. ASSUME NEW t \in WebTopics
       PROVE  Chain(page'.got[t], Tail(o.down), o.out, Task(o, t), FramesOf(t), web.sent[t])
  <2>1. /\ Chain(page.got[t], Tail(o.down), o.out, Task(o, t), FramesOf(t), web.sent[t])
        /\ f \in FramesOf(t) =>
             Chain(Append(page.got[t], f.n), Tail(o.down), o.out, Task(o, t), FramesOf(t), web.sent[t])
    BY <1>2, ChainOf DEF f
  <2>2. t = f.topic => f \in FramesOf(t)
    BY <1>2 DEF FramesOf, WebFrame
  <2> QED
    BY <1>9, <2>1, <2>2
<1>12. ASSUME NEW t \in WebTopics
       PROVE  Chain(page'.got[t], <<>>, <<>>, <<>>, FramesOf(t), web.sent[t])
  <2> DEFINE g == page'.got[t]
             d == Tail(o.down)
             u == o.out
             k == Task(o, t)
             M == FramesOf(t)
             n == web.sent[t]
  <2>1. /\ g \in Seq(Nat) /\ d \in Seq(WebFrame) /\ u \in Seq(WebFrame) /\ k \in Seq(WebFrame)
        /\ (\A x \in M : x.n \in Nat) /\ n \in Nat /\ Chain(g, d, u, k, M, n)
    <3>1. g \in Seq(Nat)
      BY <1>9 DEF PageState
    <3>2. d \in Seq(WebFrame) /\ u \in Seq(WebFrame)
      BY <1>2, SocketTyped
    <3> QED
      BY <1>11, <3>1, <3>2, WebFacts
  <2> HIDE DEF g, d, u, k, M, n
  <2>2. Chain(g, <<>>, <<>>, <<>>, M, n)
    BY <2>1, ChainMoves
  <2> QED
    BY <2>2 DEF g, M, n
<1>13. ASSUME NEW d \in Ids
       PROVE  /\ SocketInv(sockets'[d]) /\ ControlOf(sockets'[d], client'.listeners)
              /\ UpOf(d, page'.taken, web'.queue, sockets'[d].up, page'.published)
  <2>1. CASE d = c
    BY <1>2, <1>3, <1>4, <1>9, <2>1 DEF WebInv
  <2>2. CASE d # c
    BY <1>3, <1>4, <1>9, <2>2 DEF WebInv
  <2> QED
    BY <2>1, <2>2
<1>14. ASSUME NEW d \in Ids, NEW t \in WebTopics
       PROVE  DownOf(sockets'[d], page'.got[t], t, web'.sent[t])
  <2>1. CASE d = c
    BY <1>2, <1>3, <1>4, <1>11, <1>12, <2>1 DEF DownOf
  <2>2. CASE d # c
    <3>1. ~ Active(sockets[d])
      BY <1>2, <2>2 DEF WebInv, ClientInv
    <3> QED
      BY <1>3, <1>4, <1>12, <2>2, <3>1 DEF DownOf
  <2> QED
    BY <2>1, <2>2
<1> QED
  BY <1>6, <1>10, <1>13, <1>14 DEF WebInv

LEMMA WebStep ==
  ASSUME WebInv, WebNext
  PROVE  WebInv'
<1>1. CASE \E t \in WebTopics : WebPub(t) \/ WebPubEnd(t)
  BY <1>1, WebPubStep
<1>2. CASE WebStart \/ WebStartHistorical \/ WebSubTake \/ WebSubEnd \/ WebStop
  BY <1>2, GraphSideStep, WebStopStep
<1>3. ASSUME NEW c \in Ids,
             \/ Accept(c) \/ ServerSubscribe(c) \/ ServerUnsubscribe(c) \/ Dispatch(c)
             \/ \E t \in WebTopics : Forward(c, t)
      PROVE  WebInv'
  BY <1>3, AcceptStep, ServerSubscribeStep, ServerUnsubscribeStep, DispatchStep, ForwardStep
<1>4. ASSUME NEW c \in Ids,
             \/ Write(c) \/ ReaderEnds(c) \/ WriterEnds(c)
             \/ Opened(c) \/ OnMessage(c) \/ HandleHello(c) \/ HandleComplete(c)
             \/ SocketClosed(c)
      PROVE  WebInv'
  BY <1>4, WriteFrameStep, ReaderEndsStep, WriterEndsStep, OpenedStep, OnMessageStep, HandleStep,
     SocketClosedStep
<1>5. CASE Boot \/ Connect \/ Publish \/ ClientClose
  BY <1>5, BootStep, ConnectStep, PublishStep, ClientCloseStep
<1>6. ASSUME NEW l \in WebListeners,
             \/ PageSubscribe(l) \/ PageUnsubscribe(l) \/ PageSubscribeBurst(l) \/ PageUnsubscribeBurst(l)
      PROVE  WebInv'
  BY <1>6, AddListenerStep, RemoveListenerStep
     DEF PageSubscribe, PageUnsubscribe, PageSubscribeBurst, PageUnsubscribeBurst
<1> QED
  BY <1>1, <1>2, <1>3, <1>4, <1>5, <1>6 DEF WebNext

LEMMA WebInitial ==
  ASSUME WebInit
  PROVE  WebInv
<1> DEFINE none == <<>>
           tasks == [t \in WebTopics |-> <<>>]
           zero == [t \in WebTopics |-> 0]
<1>1. /\ none \in Seq(WebFrame) /\ none \in Seq(PageMessage) /\ none \in Seq(PageValue)
      /\ none \in Seq(Nat) /\ Len(none) = 0 /\ Range(none) = {}
      /\ tasks \in [WebTopics -> Seq(Seq(WebFrame))] /\ tasks \in [WebTopics -> Seq(Nat)]
      /\ \A t \in WebTopics : tasks[t] = none
      /\ zero \in [WebTopics -> Nat] /\ \A t \in WebTopics : zero[t] = 0
  BY DEF Range
<1>2. \A M : Numbers(none, M) = {} /\ Rising(none, M)
  BY NumbersNone
<1>3. PICK role \in {"views", "sends"} :
        page = [role |-> role, got |-> tasks, taken |-> none, published |-> 0, calls |-> 0]
  BY DEF WebInit
<1>4. /\ web = [server |-> "none", sent |-> zero, ended |-> {}, queue |-> none, listening |-> TRUE]
      /\ sockets = [c \in Ids |-> [page |-> "none", task |-> "none", up |-> none, down |-> none,
                                   out |-> none, forwarders |-> {}, tasks |-> tasks]]
      /\ client = [wasm |-> FALSE, closed |-> FALSE, finished |-> FALSE, timer |-> FALSE,
                   socket |-> 0, opened |-> 0, listeners |-> {}]
  BY DEF WebInit
<1>a. none = <<>>
  OBVIOUS
<1> HIDE DEF none, tasks, zero
<1>5. WebType
  BY <1>1, <1>3, <1>4 DEF WebType, ServerState, SocketState, ClientState, PageState
<1>6. ClientInv
  BY <1>4, WebAssumption DEF ClientInv, Ids, Active
<1>7. ASSUME NEW c \in Ids, NEW t \in WebTopics PROVE Task(sockets[c], t) = none
  BY <1>1, <1>4, <1>a DEF Task
<1>8. ASSUME NEW c \in Ids
      PROVE  /\ SocketInv(sockets[c]) /\ ControlOf(sockets[c], client.listeners)
             /\ UpOf(c, page.taken, web.queue, sockets[c].up, page.published)
  <2> DEFINE s == sockets[c]
  <2>4. /\ s.page = "none" /\ s.task = "none" /\ s.up = <<>> /\ s.down = <<>> /\ s.out = <<>>
        /\ s.forwarders = {} /\ s.tasks = tasks
    BY <1>4, <1>a
  <2>5. ASSUME NEW t \in WebTopics
        PROVE  Len(s.tasks[t]) = 0 /\ 1..Len(Task(s, t)) = {}
    BY <1>1, <1>7, <2>4
  <2> HIDE DEF s
  <2>6. SocketInv(s)
    BY <2>4, <2>5 DEF SocketInv
  <2>1. SocketInv(sockets[c])
    BY <2>6 DEF s
  <2>2. ControlOf(sockets[c], client.listeners)
    BY <1>4 DEF ControlOf
  <2>3. UpOf(c, page.taken, web.queue, sockets[c].up, page.published)
    BY <1>2, <1>3, <1>4 DEF UpOf, Below
  <2> QED
    BY <2>1, <2>2, <2>3
<1>9. ASSUME NEW c \in Ids, NEW t \in WebTopics
      PROVE  DownOf(sockets[c], page.got[t], t, web.sent[t])
  <2>1. page.got[t] = none /\ ~ Active(sockets[c])
    BY <1>1, <1>3, <1>4 DEF Active
  <2>2. Increasing(none)
    BY <1>1 DEF Increasing
  <2>3. Chain(none, none, none, none, FramesOf(t), web.sent[t])
    BY <1>1, <1>2, <2>2 DEF Chain, Below
  <2> QED
    BY <1>a, <2>1, <2>3 DEF DownOf
<1> QED
  BY <1>5, <1>6, <1>8, <1>9 DEF WebInv

LEMMA WebHolds ==
  ASSUME WebInv
  PROVE  WebExact
<1>1. Ids # {}
  BY WebAssumption DEF Ids
<1>2. \A t \in WebTopics : Increasing(page.got[t])
  BY <1>1, WebFacts DEF DownOf, Chain
<1>3. ASSUME NEW x \in 1..Len(page.taken), NEW y \in 1..Len(page.taken), x < y,
             page.taken[x].socket = page.taken[y].socket
      PROVE  page.taken[x].n < page.taken[y].n
  <2> DEFINE c == page.taken[x].socket
  <2>1. page.taken[x] \in PageValue /\ page.taken[y] \in PageValue
    BY WebTyped DEF WebInv
  <2>2. c \in Ids /\ page.taken[x] \in ValuesBy(c) /\ page.taken[y] \in ValuesBy(c)
    BY <1>3, <2>1 DEF PageValue, ValuesBy
  <2>3. Rising(page.taken, ValuesBy(c))
    BY <2>2 DEF WebInv, UpOf
  <2> QED
    BY <1>3, <2>2, <2>3 DEF Rising
<1>4. ASSUME NEW c \in Ids, sockets[c].page = "open", sockets[c].task = "reading",
             \A x \in 1..Len(sockets[c].up) : sockets[c].up[x].type = "data"
      PROVE  /\ sockets[c].forwarders = SubscribedTopics(client.listeners)
             /\ \A t \in WebTopics :
                  Len(sockets[c].tasks[t]) = IF t \in sockets[c].forwarders THEN 1 ELSE 0
  <2> DEFINE o == sockets[c]
  <2>1. o \in SocketState /\ SocketInv(o) /\ ControlOf(o, client.listeners)
    BY WebFacts
  <2>2. o.up \in Seq(PageMessage) /\ o.forwarders \subseteq WebTopics
    BY <2>1, SocketTyped
  <2>3. \A x \in 1..Len(o.up) : o.up[x] \in Sent
    <3> TAKE x \in 1..Len(o.up)
    <3>1. o.up[x] \in PageMessage /\ o.up[x].type = "data"
      BY <1>4, <2>2
    <3> QED
      BY <3>1 DEF PageMessage, Sent
  <2>4. \A t \in WebTopics : About(o.up, t) = {}
    BY <2>3 DEF About
  <2>5. ASSUME NEW t \in WebTopics PROVE (t \in o.forwarders) <=> HasTopicListener(client.listeners, t)
    <3>1. Tracks(o.up, o.forwarders, t, HasTopicListener(client.listeners, t))
      BY <1>4, <2>1 DEF ControlOf
    <3> QED
      BY <2>4, <3>1 DEF Tracks
  <2>6. SubscribedTopics(client.listeners) \subseteq WebTopics
    BY WebTyped, WebAssumption DEF WebInv, SubscribedTopics
  <2>7. o.forwarders = SubscribedTopics(client.listeners)
    BY <2>2, <2>5, <2>6 DEF SubscribedTopics, HasTopicListener
  <2> QED
    BY <2>1, <2>7 DEF SocketInv
<1> QED
  BY <1>2, <1>3, <1>4 DEF WebExact, FramesOnce, ForwardersMatch

(* Over any number of reconnects, topics, listeners and dropped frames, a  *)
(* listener of the page is given the frames of its topic in the order      *)
(* web_pub sent them, each once; web_sub is given the values of a socket   *)
(* in the order they were published; and once the control frames of the    *)
(* open socket are read, the server runs one forwarder for each topic with *)
(* a listener and no other.                                                *)
THEOREM WebStaysExact == Spec => []WebExact
<1>1. Init => WebInv
  BY WebInitial DEF Init
<1>2. WebInv /\ UNCHANGED webVars => WebInv'
  <2> SUFFICES ASSUME WebInv, UNCHANGED webVars PROVE WebInv'
    OBVIOUS
  <2>1. web' = web /\ sockets' = sockets /\ client' = client /\ page' = page
    BY DEF webVars
  <2> QED
    BY <2>1 DEF WebInv, WebType, ClientInv
<1>3. WebInv /\ [Next]_vars => WebInv'
  BY <1>2, WebStep, Turns
<1>4. WebInv => WebExact
  BY WebHolds
<1> QED
  BY <1>1, <1>3, <1>4, PTL DEF Spec
=============================================================================
