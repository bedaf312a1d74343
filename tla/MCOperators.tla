---------------------------- MODULE MCOperators -----------------------------
(***************************************************************************)
(* Graphs of every operator, driven by one or two sources, by iterators or *)
(* by a ticker.                                                            *)
(***************************************************************************)
EXTENDS OperatorGraph

Pipe(nodes, mode, values, cycles, end) ==
  [nodes |-> nodes, mode |-> mode, values |-> values, orders |-> {<<1, 2>>}, bounded |-> FALSE,
   cycles |-> cycles, end |-> end]

(* On one source: everything that keeps state across ticks. *)
OneSource ==
  LET a == window(buffer(delay(<<Source(0)>>, 1, 2), 1, 2), 1, 2)
      b == throttle(limit(difference(distinct(a, 1), 1), 1, 2), 1, 2)
      c == timed(print(collapse(b, 4), 1), 1)
      d == inspect(finally(filter_value(c, 1, "odd"), 1), 1)
      e == collect(accumulate(count(d, 1), 1), 1)
      f == with_time(ticked_at_elapsed(for_each(e, 1), 1), 1)
      g == split(f, Len(f))
  IN filter_map(delay(delay_node(limit_node(throttle_node(g, 1, 2), 1, 2), 1, 1), 1, 0), 1)

(* On two: values and conditions, resets, merges, combinations. *)
TwoSources ==
  LET a == map(<<Source(0), Source(0)>>, 2, "odd", FALSE)
      b == filter_node(filter(a, 1, 3), 1, 3)
      c == combine(merge(b, <<1, 2>>), <<2, 1>>)
      d == sample(delay_with_reset(c, 1, 2, 2), 1, 2)
      e == not(add(bimap(d, 1, 2, {1}, "add", 0), 1, 2), 3)
  IN logged(logged(produce(trimap(e, 1, 2, 1, {1, 2}, "add3"), 2, "one"), 1, TRUE), 1, FALSE)

Fallible ==
  LET a == try_map(<<Source(0), Source(0)>>, 1, "fail")
      b == try_bimap(a, 2, 1, {1}, "fail")
  IN finally(try_for_each(try_trimap(b, 1, 2, 1, {1}, "fail"), 2), 1)

(* The sum of the source and of its own last value, and a signal. *)
Feedback ==
  LET a == feedback(feedback(<<Source(0)>>, 0), 0)
      b == bimap(a, 1, 2, {1}, "add", 0)
  IN feedback_send_node(feedback_send(b, 4, 2), 1, 3)

At(t, v) == [time |-> t, value |-> v, ok |-> TRUE]
Items == <<<<>>, <<At(1, 1), At(1, 2), At(4, 1)>>, <<At(0, 1), At(2, 2), At(3, 1)>>,
          <<At(2, 1), [At(3, 2) EXCEPT !.ok = FALSE]>>, <<[At(0, 1) EXCEPT !.ok = FALSE]>>>>

Good(items) == SelectSeq(items, LAMBDA e : e.ok)
It(kind, items, d) == Node(kind, <<>>, {}, items, d)
Replay(x, y) ==
  LET a == ticker(<<It("IteratorStream", Good(x), <<>>),
                    It("SimpleIteratorStream", Good(y), 0),
                    It("TryIteratorStream", x, <<>>),
                    It("CallBackStream", <<<<1, 2>>, <<3, 1>>>>, 0)>>, 2)
      b == constant(delay(a, 2, 1), 2)
  IN Append(b, Node("NeverTickNode", <<>>, {}, 0, 0))
Replays == [r \in 1..(Len(Items) * Len(Items)) |->
              Replay(Items[(r - 1) \div Len(Items) + 1], Items[((r - 1) % Len(Items)) + 1])]

Everything ==
  count(<<Source(0), Node("AlwaysTickNode", <<>>, {}, 0, 0)>>, 2)

Moments ==
  LET a == moment(moment(<<Source(0)>>, 1, "mean", "count", "unbounded", 0),
                  1, "var", "time", "unbounded", 0)
      b == moment(moment(a, 1, "mean", "time", "count", 2), 1, "var", "count", "count", 3)
      c == moment(moment(b, 1, "var", "time", "time", 3), 1, "var", "count", "time", 3)
      d == extreme(sum(c, 1, "count", 2), 1, "min", "count", 2)
      e == extreme(extreme(d, 1, "max", "count", 2), 1, "max", "time", 2)
      f == sum(extreme(e, 1, "min", "unbounded", 0), 1, "time", 2)
      h == median(median(f, 1, "count", "count", 4), 1, "time", "time", 4)
  IN ewma(ewma(sum(h, 1, "unbounded", 0), 1, "tick"), 1, "half")

Both(nodes, values, cycles, end) ==
  <<Pipe(nodes, "historical", values, cycles, end), Pipe(nodes, "realtime", values, cycles, end)>>

(* A HashSet of free slots that is iterated in one order, with more keys   *)
(* than slots, and in any order.                                           *)
Items2(keys) == {<<k, close>> : k \in keys, close \in BOOLEAN}
Demux(keys, orders) ==
  [Pipe(demux(<<Source(<<>>)>>, 1, 2), "historical", Items2(keys), 4, 3)
     EXCEPT !.orders = orders]
Demuxes ==
  <<Demux({"a", "b", "c"}, {<<1, 2>>}), Demux({"a", "b"}, {<<1, 2>>, <<2, 1>>}),
    Pipe(demux_it(combine(<<Source(<<>>), Source(<<>>)>>, <<1, 2>>), 5, 1),
         "historical", Items2({"a", "b"}), 2, 1)>>

MCPipelines ==
  <<[Pipe(OneSource, "historical", {1, 2}, 4, 5) EXCEPT !.bounded = TRUE],
    Pipe(OneSource, "realtime", {1, 2}, 3, 3)>>
  \o Both(TwoSources, {1, 2}, 3, 3) \o Both(Feedback, {1}, 4, 5)
  \o <<Pipe(Fallible, "historical", {1, 2}, 2, 2), Pipe(Everything, "historical", {1}, 3, 4),
       Pipe(Moments, "historical", {-1, 0, 2}, 4, 6)>>
  \o [r \in DOMAIN Replays |-> Pipe(Replays[r], "historical", {1}, 6, 5)]
  \o Demuxes
=============================================================================
