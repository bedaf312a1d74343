--------------------------- MODULE OperatorGraph ----------------------------
(***************************************************************************)
(* Small graphs of operators driven by an engine: what a pipeline built    *)
(* with src/wingfoil/src/nodes/mod.rs emits for what its sources tick.     *)
(* The engine is the one GraphEngine models in detail; here a cycle is one *)
(* step that runs each dirty node once, in the order of the layers, as     *)
(* GraphEngine shows it to.  A pipeline is the sequence of its nodes, each *)
(* after its upstreams; its sources tick at any time with one of its       *)
(* values, and a HashSet is iterated in one of its orders.                 *)
(***************************************************************************)
EXTENDS Statistics

CONSTANTS
  Pipelines,   \* a sequence of records: nodes, mode, the values of the sources,
               \* orders, whether the run is bounded (RunFor::Cycles or
               \* Duration), and the bounds: number of cycles, last time
  Start        \* the start time of the run

ASSUME OperatorAssumption == Start \in Nat

VARIABLES
  pipe,       \* the pipeline that runs, one of Pipelines
  mem,        \* the fields of each node
  callbacks,  \* scheduled callbacks, a set of <<time, node>>
  time,       \* GraphState::time; Start - 1 before the first cycle
  hist,       \* history: one record for each cycle
  pc          \* "run", "failed" (cycle() returned an error), and after stop()
              \* "stopped" or "aborted"

vars == <<pipe, mem, callbacks, time, hist, pc>>

Nodes == DOMAIN pipe.nodes
OfKind(kinds) == {i \in Nodes : pipe.nodes[i].kind \in kinds}
Sources == OfKind({"source"})
always == OfKind({"AlwaysTickNode"})
historical == pipe.mode = "historical"

(* T::default() and the #[new(default)] fields. *)
New(n) ==
  [value |-> n.d] @@
  CASE n.kind \in {"CallBackStream", "FeedbackStream", "DelayNode"}
         -> [queue |-> IF n.kind = "CallBackStream" THEN n.p ELSE <<>>]
    [] n.kind \in {"DelayStream", "DelayWithResetStream"}
         -> [queue |-> <<>>, initialized |-> FALSE]
    [] n.kind \in {"IteratorStream", "TryIteratorStream", "SimpleIteratorStream"}
         -> [items |-> n.p]
    [] n.kind = "TickNode" -> [at_time |-> <<>>]
    [] n.kind \in {"ConsumerNode", "TryConsumerNode", "PrintStream"} -> [calls |-> <<>>]
    [] n.kind = "DistinctStream" -> [last |-> <<>>]
    [] n.kind = "DifferenceStream" -> [prev_val |-> <<>>]
    [] n.kind \in {"LimitStream", "LimitNode"} -> [tick_count |-> 0]
    [] n.kind \in {"ThrottleStream", "ThrottleNode"} -> [last_emit_time |-> <<>>]
    [] n.kind = "TimedStream" -> [cycles |-> 0]
    [] n.kind = "FinallyNode" -> [calls |-> <<>>]
    [] n.kind \in {"BufferStream", "CombineStream2"} -> [buffer |-> <<>>]
    [] n.kind = "WindowStream" -> [buffer |-> <<>>, next_window |-> Start + n.p]
    [] n.kind \in {"DemuxParent", "DemuxVecParent"}
         -> [map |-> [available |-> 1..n.p, in_use |-> <<>>]]
    [] n.kind = "MomentStream" -> [moments |-> NoMoments, last |-> <<>>]
    [] n.kind = "RollingMomentStream" -> [moments |-> NoMoments, buffer |-> <<>>]
    [] n.kind = "RollingSumStream" -> [buffer |-> <<>>, sum |-> 0]
    [] n.kind = "RollingExtremeStream" -> [deque |-> <<>>, index |-> 0]
    [] n.kind = "CumulativeStream" -> [acc |-> <<>>]
    [] n.kind = "EwmaStream" -> [last |-> <<>>]
    [] n.kind = "StatWindowStream" -> [buffer |-> <<>>]
    [] OTHER -> <<>>

(* start(): the callbacks a node asks for before the first cycle. *)
StartAt(n) ==
  CASE n.kind \in {"ConstantStream", "TickNode"} -> {Start}
    [] n.kind \in {"IteratorStream", "TryIteratorStream", "SimpleIteratorStream"}
         -> AddCallback(n.p)
    [] n.kind = "CallBackStream" -> IF n.p = <<>> THEN {} ELSE {n.p[1][1]}
    [] OTHER -> {}

(* MutableNode::cycle of each node type. *)
CycleNode(n, m, c) ==
  CASE n.kind = "NeverTickNode" -> NeverTickNode(n, m, c)
    [] n.kind = "AlwaysTickNode" -> AlwaysTickNode(n, m, c)
    [] n.kind = "ConstantStream" -> ConstantStream(n, m, c)
    [] n.kind = "TickNode" -> TickNode(n, m, c)
    [] n.kind = "CallBackStream" -> CallBackStream(n, m, c)
    [] n.kind = "IteratorStream" -> IteratorStream(n, m, c)
    [] n.kind = "TryIteratorStream" -> TryIteratorStream(n, m, c)
    [] n.kind = "SimpleIteratorStream" -> SimpleIteratorStream(n, m, c)
    [] n.kind = "MapStream" -> MapStream(n, m, c)
    [] n.kind = "TryMapStream" -> TryMapStream(n, m, c)
    [] n.kind = "BiMapStream" -> BiMapStream(n, m, c)
    [] n.kind = "TryBiMapStream" -> TryBiMapStream(n, m, c)
    [] n.kind = "TriMapStream" -> TriMapStream(n, m, c)
    [] n.kind = "TryTriMapStream" -> TryTriMapStream(n, m, c)
    [] n.kind = "ProducerStream" -> ProducerStream(n, m, c)
    [] n.kind = "GraphStateStream" -> GraphStateStream(n, m, c)
    [] n.kind = "WithTimeStream" -> WithTimeStream(n, m, c)
    [] n.kind = "InspectStream" -> InspectStream(n, m, c)
    [] n.kind = "SampleStream" -> SampleStream(n, m, c)
    [] n.kind = "MapFilterStream" -> MapFilterStream(n, m, c)
    [] n.kind = "FilterStream" -> FilterStream(n, m, c)
    [] n.kind = "FilterNode" -> FilterNode(n, m, c)
    [] n.kind = "MergeStream" -> MergeStream(n, m, c)
    [] n.kind = "ConsumerNode" -> ConsumerNode(n, m, c)
    [] n.kind = "TryConsumerNode" -> TryConsumerNode(n, m, c)
    [] n.kind = "FoldStream" -> FoldStream(n, m, c)
    [] n.kind = "DistinctStream" -> DistinctStream(n, m, c)
    [] n.kind = "DifferenceStream" -> DifferenceStream(n, m, c)
    [] n.kind = "LimitStream" -> LimitStream(n, m, c)
    [] n.kind = "LimitNode" -> LimitNode(n, m, c)
    [] n.kind = "ThrottleStream" -> ThrottleStream(n, m, c)
    [] n.kind = "ThrottleNode" -> ThrottleNode(n, m, c)
    [] n.kind = "PrintStream" -> PrintStream(n, m, c)
    [] n.kind = "TimedStream" -> TimedStream(n, m, c)
    [] n.kind = "FinallyNode" -> FinallyNode(n, m, c)
    [] n.kind = "BufferStream" -> BufferStream(n, m, c)
    [] n.kind = "WindowStream" -> WindowStream(n, m, c)
    [] n.kind = "DelayStream" -> DelayStream(n, m, c)
    [] n.kind = "DelayWithResetStream" -> DelayWithResetStream(n, m, c)
    [] n.kind = "DelayNode" -> DelayNode(n, m, c)
    [] n.kind = "FeedbackStream" -> FeedbackStream(n, m, c)
    [] n.kind = "FeedbackSendStream" -> FeedbackSendStream(n, m, c)
    [] n.kind = "FeedbackSendNode" -> FeedbackSendNode(n, m, c)
    [] n.kind = "CombineNode" -> CombineNode(n, m, c)
    [] n.kind = "CombineStream2" -> CombineStream2(n, m, c)
    [] n.kind = "DemuxParent" -> DemuxParent(n, m, c)
    [] n.kind = "DemuxChild" -> DemuxChild(n, m, c)
    [] n.kind = "DemuxVecParent" -> DemuxVecParent(n, m, c)
    [] n.kind = "DemuxVecChild" -> DemuxVecChild(n, m, c)
    [] n.kind = "MomentStream" -> MomentStream(n, m, c)
    [] n.kind = "RollingMomentStream" -> RollingMomentStream(n, m, c)
    [] n.kind = "RollingSumStream" -> RollingSumStream(n, m, c)
    [] n.kind = "RollingExtremeStream" -> RollingExtremeStream(n, m, c)
    [] n.kind = "CumulativeStream" -> CumulativeStream(n, m, c)
    [] n.kind = "EwmaStream" -> EwmaStream(n, m, c)
    [] n.kind = "StatWindowStream" -> StatWindowStream(n, m, c)
    [] n.kind = "source" -> Tick(m)

-----------------------------------------------------------------------------
(* One cycle.  a accumulates what the nodes did so far: their fields, who  *)
(* ticked, who is marked, the callbacks, whether an error ended the cycle. *)

Dirty(a, i) ==
  LET n == pipe.nodes[i] IN
  \/ i \in a.mark
  \/ \E k \in n.active : n.up[k] \in a.ticked

(* What the node sees of the graph. *)
View(a, n, now, last, order) ==
  [time |-> now, last |-> last, start |-> Start, order |-> order,
   v |-> [k \in DOMAIN n.up |-> a.mem[n.up[k]].value],
   on |-> [k \in DOMAIN n.up |-> n.up[k] \in a.ticked]]

(* What its result r changes. *)
After(a, i, r) ==
  LET own == [a.mem EXCEPT ![i] = r.mem]
      wakes == {s \in r.sent : pipe.nodes[s[1]].kind = "FeedbackStream"} IN
  [mem |-> IF r.sent = {} THEN own
           ELSE LET s == CHOOSE s \in r.sent : TRUE
                IN [own EXCEPT ![s[1]] = Receive(pipe.nodes[s[1]], @, s[2], s[3])],
   ticked |-> IF r.ticked THEN a.ticked \cup {i} ELSE a.ticked,
   mark |-> a.mark \cup r.mark,
   callbacks |-> a.callbacks \cup {<<t, i>> : t \in r.at} \cup {<<s[2], s[1]>> : s \in wakes},
   err |-> r.err]

The(S) == CHOOSE x \in S : TRUE

RunNode(a, i, now, last, order) ==
  IF a.err \/ ~Dirty(a, i) THEN a
  ELSE LET results == {CycleNode(n, a.mem[i], c) : n \in {pipe.nodes[i]},
                         c \in {View(a, pipe.nodes[i], now, last, order)}}
       IN The({After(a, i, r) : r \in results})

RunNodes(a, now, last, order) ==
  LET run[i \in 0..Len(pipe.nodes)] ==
        IF i = 0 THEN a
        ELSE The({RunNode(b, i, now, last, order) : b \in {run[i - 1]}})
  IN run[Len(pipe.nodes)]

(* In a replay the clock goes to the next callback, or one further when    *)
(* that is not in the future; a source can tick at any time before.  In    *)
(* realtime the callbacks that run are those of an earlier reading of the  *)
(* clock, and the time is read after that.                                 *)
NextTimes == LET due == {cb[1] : cb \in callbacks} IN
  IF historical /\ due # {}
  THEN (time + 1)..Max({time + 1, Min(due)})
  ELSE (time + 1)..pipe.end

Begin(due, on, v) ==
  [mem |-> [i \in Nodes |-> IF i \in on THEN [mem[i] EXCEPT !.value = v[i]] ELSE mem[i]],
   ticked |-> {}, mark |-> on \cup {cb[2] : cb \in due} \cup always,
   callbacks |-> callbacks \ due, err |-> FALSE]

Cycle(now, seen, on, v, last, order) ==
  LET due == {cb \in callbacks : cb[1] <= seen} IN
  /\ pc = "run" /\ Len(hist) < pipe.cycles /\ now <= pipe.end
  /\ hist # <<>> => ~Last(hist).last
  /\ on = {} /\ due = {} =>
       always # {} /\ (historical => callbacks = {} /\ now = time + 1)
  /\ \E a \in {RunNodes(Begin(due, on, v), now, last, order)} :
       /\ mem' = a.mem
       /\ callbacks' = a.callbacks
       /\ hist' = Append(hist, [time |-> now, last |-> last,
                                ticks |-> [i \in a.ticked |-> a.mem[i].value]])
       /\ pc' = IF a.err THEN "failed" ELSE "run"
  /\ time' = now
  /\ pipe' = pipe

(* stop(): finally() runs its closure once, with the last value. *)
Stop ==
  /\ pc \in {"run", "failed"}
  /\ mem' = [i \in Nodes |-> IF pipe.nodes[i].kind = "FinallyNode"
                             THEN [mem[i] EXCEPT !.calls = Append(@, mem[i].value)]
                             ELSE mem[i]]
  /\ pc' = IF pc = "run" THEN "stopped" ELSE "aborted"
  /\ UNCHANGED <<pipe, callbacks, time, hist>>

Init ==
  /\ \E k \in DOMAIN Pipelines : pipe = Pipelines[k]
  /\ mem = [i \in Nodes |-> New(pipe.nodes[i])]
  /\ callbacks = UNION {{<<t, i>> : t \in StartAt(pipe.nodes[i])} : i \in Nodes}
  /\ time = Start - 1
  /\ hist = <<>>
  /\ pc = IF \E i \in OfKind({"TryIteratorStream"}) :
                pipe.nodes[i].p # <<>> /\ ~pipe.nodes[i].p[1].ok
          THEN "failed" ELSE "run"

Next ==
  \/ \E now \in NextTimes, on \in SUBSET Sources,
        last \in (IF pipe.bounded THEN BOOLEAN ELSE {FALSE}) :
       \E seen \in (IF historical THEN {now} ELSE time..(now - 1)),
          v \in [on -> pipe.values], order \in pipe.orders :
         Cycle(now, seen, on, v, last, order)
  \/ Stop

Spec == Init /\ [][Next]_vars

-----------------------------------------------------------------------------
(* What the history says: the ticks of a node as <<time, value>>.          *)

Log(i) ==
  LET on == SelectSeq(hist, LAMBDA h : i \in DOMAIN h.ticks) IN
  [k \in DOMAIN on |-> <<on[k].time, on[k].ticks[i]>>]
Param(i) == pipe.nodes[i].p
Up(i, k) == Log(pipe.nodes[i].up[k])
In(i) == Up(i, 1)
TimesOf(s) == {s[k][1] : k \in DOMAIN s}
ValuesOf(s) == [k \in DOMAIN s |-> s[k][2]]
Upto(s, t) == SelectSeq(s, LAMBDA e : e[1] <= t)

(* The value a node shows at time t: its last tick, or what it began with. *)
Shown(i, t) ==
  LET s == Upto(Log(i), t) IN IF s = <<>> THEN pipe.nodes[i].d ELSE Last(s)[2]

(* A run can be stopped after any cycle, so the properties of what a graph *)
(* has emitted are asked of the runs that have ended without an error.     *)
Ended == pc = "stopped"

TypeOK ==
  /\ pc \in {"run", "failed", "stopped", "aborted"}
  /\ DOMAIN mem = Nodes /\ time \in (Start - 1)..pipe.end
  /\ \A cb \in callbacks : cb[1] \in Nat /\ cb[2] \in Nodes

(* delay(), delay_with_reset() and feedback(): whatever ticks at T is the  *)
(* newest value that is due by then and that no reset has forgotten, never *)
(* one that is not due, and in a replay it ticks at exactly the time it is *)
(* due, once.                                                              *)
ShiftedBy(i, in, d, resets) ==
  LET out == Log(i)
      Live(t, T) == t + d <= T /\ \A r \in resets : r < t \/ r > T
      late == {t \in TimesOf(in) : t + d <= time /\ \A r \in resets : r < t \/ r > t + d} IN
  /\ \A k \in DOMAIN out :
       LET T == out[k][1]
           due == {j \in DOMAIN in : Live(in[j][1], T)} IN
       T \in resets \/ (due # {} /\ out[k][2] = in[Max(due)][2])
  /\ historical => TimesOf(out) = {t + d : t \in late} \cup resets

DelayIsExact ==
  Ended =>
  /\ \A i \in OfKind({"DelayStream"}) : ShiftedBy(i, In(i), Param(i), {})
  /\ \A i \in OfKind({"DelayWithResetStream"}) :
       LET resets == TimesOf(Up(i, 2)) IN
       /\ ShiftedBy(i, In(i), Param(i), resets)
       /\ \A e \in ToSet(Log(i)) :
            e[1] \in resets => e[2] = Shown(pipe.nodes[i].up[1], e[1])
  /\ \A i \in OfKind({"DelayNode"}) :
       historical => TimesOf(Log(i)) = {t \in {u + Param(i) : u \in TimesOf(In(i))} : t <= time}
  /\ \A i \in OfKind({"FeedbackSendStream"}) : ShiftedBy(Param(i), In(i), 1, {})
  /\ \A i \in OfKind({"FeedbackSendNode"}) :
       historical => TimesOf(Log(Param(i))) = {t \in {u + 1 : u \in TimesOf(In(i))} : t <= time}

(* The first upstream of the node has ticked in the flagged last cycle.    *)
InLastCycle(i) ==
  hist # <<>> /\ Last(hist).last /\ pipe.nodes[i].up[1] \in DOMAIN Last(hist).ticks

(* Batching loses, repeats and reorders nothing: what buffer(), window()   *)
(* and combine() have emitted, and what they still hold, is what came in;  *)
(* a batch of window() never crosses a boundary of the interval, one of    *)
(* buffer() is full unless it is the last, and one of combine() has the    *)
(* values of a single cycle.  What is still held at the end is exactly     *)
(* this: nothing when the source ticks in the last cycle, with which       *)
(* "flushed on the last cycle" (nodes/mod.rs, buffer and window) is met,   *)
(* except the last value of a window() that begins in that very cycle,     *)
(* since window.rs flushes once a cycle; and when the source does not tick *)
(* in the last cycle, so that the node does not run in it, the batch that  *)
(* is not full or the window that is not over.                             *)
NothingDropped ==
  Ended =>
  /\ \A i \in OfKind({"BufferStream", "WindowStream"}) :
       FlattenSeq(ValuesOf(Log(i))) \o mem[i].buffer = ValuesOf(In(i))
  /\ \A i \in OfKind({"BufferStream"}) :
       LET out == Log(i) IN
       /\ \A k \in DOMAIN out : k < Len(out) => Len(out[k][2]) = Param(i)
       /\ IF InLastCycle(i) THEN mem[i].buffer = <<>> ELSE Len(mem[i].buffer) < Param(i)
  /\ \A i \in OfKind({"WindowStream"}) :
       LET in == In(i)
           out == Log(i)
           Window(j) == (in[j][1] - Start) \div Param(i)
           Before(k) == Len(FlattenSeq(ValuesOf(SubSeq(out, 1, k - 1))))
           n == Len(in)
           Begins == n > 1 /\ Window(n) # Window(n - 1) IN
       /\ \A k \in DOMAIN out :
            \A j1, j2 \in (Before(k) + 1)..(Before(k) + Len(out[k][2])) : Window(j1) = Window(j2)
       /\ Len(mem[i].buffer) = IF InLastCycle(i) /\ ~ Begins THEN 0
                               ELSE Cardinality({j \in 1..n : Window(j) = Window(n)})
  /\ \A i \in OfKind({"CombineStream2"}) :
       /\ mem[i].buffer = <<>>
       /\ \A h \in ToSet(hist) :
            LET on == {u \in ToSet(pipe.nodes[i].up) : u \in DOMAIN h.ticks} IN
            /\ (i \in DOMAIN h.ticks) = (on # {})
            /\ on # {} => ToSet(h.ticks[i]) = {h.ticks[pipe.nodes[u].up[1]] : u \in on}

(* The operators that hold values back give them in time and in order, and *)
(* keep at the end only what NothingDropped names.                         *)
TimeShiftsExact == DelayIsExact /\ NothingDropped

(* throttle(): emissions are at least an interval apart, and a value is    *)
(* dropped only when one was emitted less than an interval before it.      *)
Throttled(i) ==
  LET out == TimesOf(Log(i)) IN
  /\ out \subseteq TimesOf(In(i))
  /\ \A t, u \in out : t < u => u - t >= Param(i)
  /\ \A t \in TimesOf(In(i)) \ out : \E u \in out : u < t /\ t < u + Param(i)

(* The operators that keep state across ticks compute what a reader of the *)
(* whole history would: distinct() drops repeats, difference() subtracts   *)
(* neighbours, limit() keeps a prefix, throttle() spaces its output, merge *)
(* prefers the first source, filter() lets pass what the condition shows,  *)
(* sample() shows the latest, count() counts and collect() remembers.      *)
OperatorsMatch ==
  Ended =>
  /\ \A i \in OfKind({"DistinctStream"}) :
       LET in == In(i) IN
       Log(i) = LET keep == SelectSeq([k \in DOMAIN in |-> k],
                              LAMBDA k : k = 1 \/ in[k][2] # in[k - 1][2])
                IN [k \in DOMAIN keep |-> in[keep[k]]]
  /\ \A i \in OfKind({"DifferenceStream"}) :
       LET in == In(i) IN
       Log(i) = [k \in 1..Max({0, Len(in) - 1}) |->
                   <<in[k + 1][1], in[k + 1][2] - in[k][2]>>]
  /\ \A i \in OfKind({"LimitStream"}) :
       Log(i) = SubSeq(In(i), 1, Min({Param(i), Len(In(i))}))
  /\ \A i \in OfKind({"LimitNode"}) :
       TimesOf(Log(i)) = TimesOf(SubSeq(In(i), 1, Min({Param(i), Len(In(i))})))
  /\ \A i \in OfKind({"ThrottleStream", "ThrottleNode"}) : Throttled(i)
  /\ \A i \in OfKind({"MergeStream"}) : \A h \in ToSet(hist) :
       LET on == {k \in DOMAIN pipe.nodes[i].up : pipe.nodes[i].up[k] \in DOMAIN h.ticks} IN
       IF on = {} THEN i \notin DOMAIN h.ticks
       ELSE h.ticks[i] = h.ticks[pipe.nodes[i].up[Min(on)]]
  /\ \A i \in OfKind({"FilterStream"}) : \A h \in ToSet(hist) :
       LET u == pipe.nodes[i].up
           passes == (u[1] \in DOMAIN h.ticks \/ u[2] \in DOMAIN h.ticks) /\ Shown(u[2], h.time) IN
       IF passes THEN h.ticks[i] = Shown(u[1], h.time) ELSE i \notin DOMAIN h.ticks
  /\ \A i \in OfKind({"SampleStream"}) :
       LET on == Up(i, 2) IN
       Log(i) = [k \in DOMAIN on |-> <<on[k][1], Shown(pipe.nodes[i].up[1], on[k][1])>>]
  /\ \A i \in OfKind({"FoldStream"}) :
       LET in == ValuesOf(In(i))
           Folded(k) == IF Param(i) = "push" THEN SubSeq(in, 1, k)
                        ELSE FoldLeft(LAMBDA x, y : x + y, 0, SubSeq(in, 1, k)) IN
       ValuesOf(Log(i)) = [k \in DOMAIN in |-> Folded(k)]
  /\ \A i \in OfKind({"FinallyNode"}) :
       mem[i].calls = <<Shown(i, time)>>

(* Every statistic is the one defined over the samples of its window: the  *)
(* recurrences that push and remove samples, the running totals and the    *)
(* deques drift from the definition at no tick, for both weightings and    *)
(* every window.                                                           *)
StatNodes == OfKind({"MomentStream", "RollingMomentStream", "RollingSumStream",
                     "RollingExtremeStream", "CumulativeStream", "StatWindowStream"})

Samples(i, all, k) ==
  LET in == SubSeq(all, 1, k) IN
  CASE Param(i).window = "count" -> SubSeq(in, Max({1, k - Max({1, Param(i).size}) + 1}), k)
    [] Param(i).window = "time" -> SelectSeq(in, LAMBDA e : in[k][1] - e[1] <= Param(i).size)
    [] Param(i).window = "unbounded" -> in

(* With weights w and samples x: the mean is A / W and the sum of squared   *)
(* deviations (W B - A^2) / W, for A, B, W the sums of w x, w x^2 and w.    *)
Statistic(i, all, k) ==
  LET s == Samples(i, all, k)
      D == DOMAIN s
      N == Len(s)
      x == [j \in D |-> s[j][2]]
      w == [j \in D |-> IF Param(i).weighting = "count" THEN 1
                        ELSE IF j < N THEN s[j + 1][1] - s[j][1] ELSE 0]
      WeightOf(S) == MapThenSumSet(LAMBDA j : w[j], S)
      W == WeightOf(D)
      A == MapThenSumSet(LAMBDA j : w[j] * x[j], D)
      B == MapThenSumSet(LAMBDA j : w[j] * x[j] * x[j], D)
      middle == {x[j] : j \in {l \in D : /\ w[l] > 0
                                        /\ 2 * WeightOf({h \in D : x[h] < x[l]}) <= W
                                        /\ 2 * WeightOf({h \in D : x[h] > x[l]}) <= W}}
      stat == Param(i).stat IN
  CASE stat \in {"mean", "median"} /\ W = 0 -> Int2Q(x[N])
    [] stat = "mean" /\ W # 0 -> Q(A, W)
    [] stat = "median" /\ W # 0 -> Q(Min(middle) + Max(middle), 2)
    [] stat = "var" -> LET divisor == IF Param(i).weighting = "count" THEN W - 1 ELSE W
                       IN IF W * divisor = 0 THEN Zero ELSE Q(W * B - A * A, W * divisor)
    [] stat = "sum" -> Int2Q(MapThenSumSet(LAMBDA j : x[j], D))
    [] stat = "min" -> Int2Q(Min(Range(x)))
    [] stat = "max" -> Int2Q(Max(Range(x)))

(* ewma() as a weighted sum of all samples: a sample fades by a half with  *)
(* every tick, or with every unit of time, after it.                       *)
Ewma(i, in, k) ==
  LET Age(j) == IF Param(i).stat = "tick" THEN k - j ELSE in[k][1] - in[j][1]
      Faded(j) == 2^(Age(1) - Age(j))
      share == [j \in 1..k |-> in[j][2] * (Faded(j) - IF j = 1 THEN 0 ELSE Faded(j - 1))]
  IN Q(MapThenSumSet(LAMBDA j : share[j], 1..k), 2^Age(1))

StatisticsMatch ==
  Ended =>
  /\ \A i \in StatNodes :
       LET in == In(i) IN Log(i) = [k \in DOMAIN in |-> <<in[k][1], Statistic(i, in, k)>>]
  /\ \A i \in OfKind({"EwmaStream"}) :
       LET in == In(i) IN Log(i) = [k \in DOMAIN in |-> <<in[k][1], Ewma(i, in, k)>>]

(* A replay emits every item of an iterator, of a callback stream and of a *)
(* ticker at its own time, none twice and none skipped, up to the error of *)
(* a fallible one.                                                         *)
Replayed(i, items) ==
  LET out == Log(i) IN
  Upto(items, time) = FlattenSeq([k \in DOMAIN out |->
                        [j \in DOMAIN out[k][2] |-> <<out[k][1], out[k][2][j]>>]])
Plain(items) == LET good == SelectSeq(items, LAMBDA x : x.ok) IN
                [k \in DOMAIN good |-> <<good[k].time, good[k].value>>]

ReplayIsComplete ==
  historical /\ Ended =>
    /\ \A i \in OfKind({"IteratorStream", "TryIteratorStream"}) : Replayed(i, Plain(Param(i)))
    /\ \A i \in OfKind({"SimpleIteratorStream"}) : Log(i) = Upto(Plain(Param(i)), time)
    /\ \A i \in OfKind({"CallBackStream"}) : Log(i) = Upto(Param(i), time)
    /\ \A i \in OfKind({"TickNode"}) :
         TimesOf(Log(i)) = {t \in Start..time : (t - Start) % Param(i) = 0}

(* demux(): from its first item to the one that closes it a key goes to    *)
(* one child, and keys that are open together never share a child, apart   *)
(* from the overflow child, which is used only when no slot was free.      *)
ChildOf(i, h) == CHOOSE c \in ToSet(pipe.nodes[i].out) : c \in DOMAIN h.ticks
DemuxRoutes ==
  Ended => \A i \in OfKind({"DemuxParent"}) :
    LET up == pipe.nodes[i].up[1]
        items == SelectSeq(hist, LAMBDA h : up \in DOMAIN h.ticks)
        Key(k) == items[k].ticks[up][1]
        Closes(k) == items[k].ticks[up][2]
        Open(k, j) == \A x \in k..j : Key(x) = Key(k) => ~Closes(x)
        spill == Last(pipe.nodes[i].out) IN
    /\ \A k \in DOMAIN items :
         Cardinality({c \in ToSet(pipe.nodes[i].out) : c \in DOMAIN items[k].ticks}) = 1
    /\ \A k, j \in DOMAIN items : k < j /\ Open(k, j - 1) =>
         IF Key(k) = Key(j) THEN ChildOf(i, items[k]) = ChildOf(i, items[j])
         ELSE ChildOf(i, items[j]) = spill \/ ChildOf(i, items[k]) # ChildOf(i, items[j])
    /\ \A j \in DOMAIN items : ChildOf(i, items[j]) = spill =>
         \E k \in 1..j : /\ Key(k) = Key(j)
                         /\ Cardinality({Key(x) : x \in {y \in 1..(k - 1) : Open(y, k - 1)}})
                              >= Param(i)
=============================================================================
