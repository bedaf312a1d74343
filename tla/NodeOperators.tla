--------------------------- MODULE NodeOperators ----------------------------
(***************************************************************************)
(* How the functions and operator traits of src/wingfoil/src/nodes/mod.rs  *)
(* wire nodes into a graph.  A graph under construction is the sequence of *)
(* its nodes, each after its upstreams; an operator applied to the stream  *)
(* with index s appends its nodes, and the last of them is the stream that *)
(* it returns.                                                             *)
(***************************************************************************)
EXTENDS Integers, Sequences, TLC

(* kind, upstreams, the positions of the active ones, what it was built    *)
(* with, and the value before its first tick (T::default()).               *)
Node(kind, up, active, p, d) ==
  [kind |-> kind, up |-> up, active |-> active, p |-> p, d |-> d]

Source(d) == Node("source", <<>>, {}, 0, d)
On(g, kind, s, p, d) == Append(g, Node(kind, <<s>>, {1}, p, d))

-----------------------------------------------------------------------------
(* Free functions.  deps is the set of positions given as Dep::Active. *)

add(g, a, b) == Append(g, Node("BiMapStream", <<a, b>>, {1, 2}, "add", 0))
bimap(g, a, b, deps, f, d) == Append(g, Node("BiMapStream", <<a, b>>, deps, f, d))
trimap(g, a, b, c, deps, f) == Append(g, Node("TriMapStream", <<a, b, c>>, deps, f, 0))
try_bimap(g, a, b, deps, f) == Append(g, Node("TryBiMapStream", <<a, b>>, deps, f, 0))
try_trimap(g, a, b, c, deps, f) ==
  Append(g, Node("TryTriMapStream", <<a, b, c>>, deps, f, 0))
merge(g, sources) == Append(g, Node("MergeStream", sources, DOMAIN sources, 0, 0))
constant(g, v) == Append(g, Node("ConstantStream", <<>>, {}, 0, v))
ticker(g, period) == Append(g, Node("TickNode", <<>>, {}, period, 0))

(* One CombineNode for each stream, which share the burst of the stream    *)
(* that is appended after them.                                            *)
combine(g, streams) ==
  LET out == Len(g) + Len(streams) + 1
      nodes == [i \in DOMAIN streams |->
                  Node("CombineNode", <<streams[i]>>, {1}, out, 0)] IN
  Append(g \o nodes, Node("CombineStream2", [i \in DOMAIN streams |-> Len(g) + i],
                          DOMAIN streams, 0, <<>>))

(* The parent, size children and the overflow child. *)
DemuxWith(g, parent, child, s, size, d) ==
  LET up == Len(g) + 1
      out == [i \in 1..(size + 1) |-> up + i] IN
  Append(g, Node(parent, <<s>>, {1}, size, d) @@ [out |-> out])
    \o [i \in 1..(size + 1) |-> Node(child, <<up>>, {}, i, <<>>)]
demux(g, s, size) == DemuxWith(g, "DemuxParent", "DemuxChild", s, size, <<>>)
demux_it(g, s, size) ==
  DemuxWith(g, "DemuxVecParent", "DemuxVecChild", s, size, [i \in 1..(size + 1) |-> <<>>])

(* feedback(): the source end; its index is what the sink is given. *)
feedback(g, d) == Append(g, Node("FeedbackStream", <<>>, {}, 0, d))

-----------------------------------------------------------------------------
(* NodeOperators *)

ticked_at(g, s) == On(g, "GraphStateStream", s, "time", 0)
ticked_at_elapsed(g, s) == On(g, "GraphStateStream", s, "elapsed", 0)
produce(g, s, f) == On(g, "ProducerStream", s, f, 0)
sample(g, s, trigger) == Append(g, Node("SampleStream", <<s, trigger>>, {2}, 0, 0))
fold(g, s, f, d) == On(g, "FoldStream", s, f, d)
reduce(g, s, f) == fold(g, s, f, 0)

(* constant(1).sample(self).reduce(add) *)
count(g, s) ==
  LET a == constant(g, 1)
      b == sample(a, Len(a), s) IN reduce(b, Len(b), "add")

(* NodeFlowOperators *)

throttle_node(g, s, interval) == On(g, "ThrottleNode", s, interval, 0)
delay_node(g, s, d) == On(g, "DelayNode", s, d, 0)
limit_node(g, s, k) == On(g, "LimitNode", s, k, 0)
filter_node(g, s, condition) == Append(g, Node("FilterNode", <<s, condition>>, {1, 2}, 0, 0))
feedback_send_node(g, s, sink) == On(g, "FeedbackSendNode", s, sink, 0)

-----------------------------------------------------------------------------
(* StreamOperators *)

map(g, s, f, d) == On(g, "MapStream", s, f, d)
try_map(g, s, f) == On(g, "TryMapStream", s, f, 0)
accumulate(g, s) == fold(g, s, "push", <<>>)
buffer(g, s, capacity) == On(g, "BufferStream", s, capacity, <<>>)
window(g, s, interval) == On(g, "WindowStream", s, interval, <<>>)

(* bimap of the value and of the time at which it ticked, folded. *)
collect(g, s) ==
  LET t == ticked_at(g, s)
      b == bimap(t, Len(t), s, {1, 2}, "pair", <<>>) IN
  fold(b, Len(b), "push", <<>>)

collapse(g, s) == On(g, "MapFilterStream", s, "last", 0)
filter_map(g, s) == On(g, "MapFilterStream", s, "some", 0)
filter_none(g, s) == filter_map(g, s)
for_each(g, s) == On(g, "ConsumerNode", s, "id", 0)
try_for_each(g, s) == On(g, "TryConsumerNode", s, "fail", 0)
feedback_send(g, s, sink) == On(g, "FeedbackSendStream", s, sink, 0)
delay(g, s, d) == On(g, "DelayStream", s, d, 0)
delay_with_reset(g, s, trigger, d) ==
  Append(g, Node("DelayWithResetStream", <<s, trigger>>, {1, 2}, d, 0))
difference(g, s) == On(g, "DifferenceStream", s, 0, 0)
distinct(g, s) == On(g, "DistinctStream", s, 0, 0)
filter(g, s, condition) == Append(g, Node("FilterStream", <<s, condition>>, {1, 2}, 0, 0))
filter_value(g, s, f) == LET c == map(g, s, f, FALSE) IN filter(c, s, Len(c))
finally(g, s) == On(g, "FinallyNode", s, 0, 0)
inspect(g, s) == On(g, "InspectStream", s, 0, 0)
limit(g, s, k) == On(g, "LimitStream", s, k, 0)

(* Logging off: the stream itself; on: a bimap that passes it through. *)
logged(g, s, enabled) ==
  IF ~enabled THEN g
  ELSE LET t == ticked_at_elapsed(g, s) IN bimap(t, s, Len(t), {1, 2}, "id", 0)

not(g, s) == map(g, s, "not", FALSE)
print(g, s) == On(g, "PrintStream", s, 0, 0)
throttle(g, s, interval) == On(g, "ThrottleStream", s, interval, 0)
with_time(g, s) == On(g, "WithTimeStream", s, 0, <<>>)
timed(g, s) == On(g, "TimedStream", s, 0, 0)

(* The two halves of a stream of pairs. *)
split(g, s) == map(map(g, s, "first", 0), s, "second", 0)
=============================================================================
