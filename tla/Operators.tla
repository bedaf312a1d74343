----------------------------- MODULE Operators -----------------------------
(***************************************************************************)
(* The nodes of src/wingfoil/src/nodes/ as step functions, one operator    *)
(* per node type, named for it.  X(n, m, c) is one call of cycle():        *)
(*                                                                         *)
(*   n  what the node was built with: kind, up (its upstreams, the indices *)
(*      of other nodes), active (which positions of up trigger it), p      *)
(*      (interval, limit, capacity, name of the closure, ...)              *)
(*   m  its fields, of which value is what downstreams peek at             *)
(*   c  what it can see: time, last (is_last_cycle), start (start_time),   *)
(*      v (the peeked values of its upstreams), on (which of them ticked), *)
(*      order (the iteration order of a HashSet)                           *)
(*                                                                         *)
(* The result holds the new fields, Ok(ticked) or an error, the callbacks  *)
(* asked for (at), the nodes marked dirty (mark) and the values pushed to  *)
(* feedback queues (sent).  An Option is a sequence of at most one value.  *)
(***************************************************************************)
EXTENDS Integers, SequencesExt

Tick(m) == [mem |-> m, ticked |-> TRUE, err |-> FALSE,
            at |-> {}, mark |-> {}, sent |-> {}]
Quiet(m) == [Tick(m) EXCEPT !.ticked = FALSE]
Fail(m) == [Quiet(m) EXCEPT !.err = TRUE]
Emit(m, v) == Tick([m EXCEPT !.value = v])
TickIf(b, m) == [Tick(m) EXCEPT !.ticked = b]

(* Closures handed to the operators.  "fail" stands for one that can return *)
(* an error: it refuses the value 2.                                       *)
Call(f, a) ==
  CASE f = "id" -> a[1]
    [] f = "inc" -> a[1] + 1
    [] f = "one" -> 1
    [] f = "add" -> a[1] + a[2]
    [] f = "add3" -> a[1] + a[2] + a[3]
    [] f = "pair" -> <<a[1], a[2]>>
    [] f = "push" -> Append(a[1], a[2])
    [] f = "odd" -> a[1] % 2 = 1
    [] f = "not" -> ~a[1]
    [] f = "first" -> a[1][1]
    [] f = "second" -> a[1][2]
    [] f = "fail" -> a[1]

Refuses(f, a) == f = "fail" /\ a[1] = 2

(* Closures that return an Option. *)
Picks(f, x) ==
  CASE f = "last" -> IF x = <<>> THEN <<>> ELSE <<Last(x)>>
    [] f = "some" -> IF x % 2 = 1 THEN <<x>> ELSE <<>>

-----------------------------------------------------------------------------
(* What a TimeQueue promises, see EventQueue: stable by time, an entry that *)
(* is queued already is not queued again.                                  *)

Push(q, v, t) ==
  IF \E i \in DOMAIN q : q[i] = <<t, v>> THEN q
  ELSE InsertAt(q, 1 + Cardinality({i \in DOMAIN q : q[i][1] <= t}), <<t, v>>)

Due(q, now) == SelectSeq(q, LAMBDA e : e[1] <= now)
Later(q, now) == SelectSeq(q, LAMBDA e : e[1] > now)

(* while let Some(v) = queue.pop_if_pending(now): the last one stays. *)
PopPending(m, now) ==
  LET due == Due(m.queue, now) IN
  IF due = <<>> THEN Quiet(m)
  ELSE Emit([m EXCEPT !.queue = Later(m.queue, now)], Last(due)[2])

-----------------------------------------------------------------------------
(* Sources of ticks *)

NeverTickNode(n, m, c) == Quiet(m)
AlwaysTickNode(n, m, c) == Tick(m)
ConstantStream(n, m, c) == Tick(m)

(* The next tick is anchored to the last one that was due, not to the time *)
(* at which it ran.                                                        *)
TickNode(n, m, c) ==
  LET next == n.p + IF m.at_time = <<>> THEN c.time ELSE m.at_time[1] IN
  [Tick([m EXCEPT !.at_time = <<next>>]) EXCEPT !.at = {next}]

CallBackStream(n, m, c) ==
  LET r == PopPending(m, c.time)
      q == r.mem.queue IN
  [r EXCEPT !.at = IF q = <<>> THEN {} ELSE {q[1][1]}]

(* Items are [time, value, ok]; ok is FALSE for the Err of a fallible one. *)
AddCallback(items) == IF items = <<>> THEN {} ELSE {items[1].time}

Burst(items, now) ==
  SubSeq(items, 1, Max({k \in 0..Len(items) :
                         \A i \in 1..k : items[i].ok /\ items[i].time = now}))

(* A wrong form of IteratorStream: it ticks when there is more to come. *)
IteratorTicksForMore(n, m, c) ==
  LET b == Burst(m.items, c.time)
      rest == SubSeq(m.items, Len(b) + 1, Len(m.items)) IN
  [TickIf(rest # <<>>, [m EXCEPT !.items = rest,
                                 !.value = [i \in DOMAIN b |-> b[i].value]])
     EXCEPT !.at = AddCallback(rest)]

IteratorStream(n, m, c) ==
  LET b == Burst(m.items, c.time)
      rest == SubSeq(m.items, Len(b) + 1, Len(m.items)) IN
  [TickIf(b # <<>>, [m EXCEPT !.items = rest,
                              !.value = [i \in DOMAIN b |-> b[i].value]])
     EXCEPT !.at = AddCallback(rest)]

TryIteratorStream(n, m, c) ==
  LET r == IteratorStream(n, m, c)
      rest == r.mem.items IN
  IF rest # <<>> /\ ~rest[1].ok
  THEN Fail([r.mem EXCEPT !.items = Tail(rest)])
  ELSE r

SimpleIteratorStream(n, m, c) ==
  LET item == m.items[1]
      rest == Tail(m.items)
      m2 == [m EXCEPT !.items = rest, !.value = item.value] IN
  IF rest # <<>> /\ rest[1].time <= item.time THEN Fail(m2)
  ELSE [Tick(m2) EXCEPT !.at = AddCallback(rest)]

-----------------------------------------------------------------------------
(* Operators without memory of their own *)

MapStream(n, m, c) == Emit(m, Call(n.p, c.v))
TryMapStream(n, m, c) == IF Refuses(n.p, c.v) THEN Fail(m)
                         ELSE Emit(m, Call(n.p, c.v))
BiMapStream(n, m, c) == Emit(m, Call(n.p, c.v))
TryBiMapStream(n, m, c) == TryMapStream(n, m, c)
TriMapStream(n, m, c) == Emit(m, Call(n.p, c.v))
TryTriMapStream(n, m, c) == TryMapStream(n, m, c)
ProducerStream(n, m, c) == Emit(m, Call(n.p, <<>>))
GraphStateStream(n, m, c) ==
  Emit(m, IF n.p = "elapsed" THEN c.time - c.start ELSE c.time)
WithTimeStream(n, m, c) == Emit(m, <<c.time, c.v[1]>>)
InspectStream(n, m, c) == Emit(m, c.v[1])
SampleStream(n, m, c) == Emit(m, c.v[1])

(* collapse() and filter_map(): None does not tick. *)
MapFilterStream(n, m, c) ==
  LET o == Picks(n.p, c.v[1]) IN IF o = <<>> THEN Quiet(m) ELSE Emit(m, o[1])

(* Both inputs are active: a condition that turns true lets the value pass *)
(* again.                                                                  *)
FilterStream(n, m, c) == IF c.v[2] THEN Emit(m, c.v[1]) ELSE Quiet(m)
FilterNode(n, m, c) == TickIf(c.v[2], m)

(* The first upstream that ticked, in the order they were supplied. *)
MergeStream(n, m, c) ==
  IF \A i \in DOMAIN c.on : ~c.on[i] THEN Quiet(m)
  ELSE Emit(m, c.v[Min({i \in DOMAIN c.on : c.on[i]})])

(* for_each and try_for_each: the calls of the closure are kept. *)
ConsumerNode(n, m, c) ==
  Tick([m EXCEPT !.calls = Append(@, <<c.time, c.v[1]>>)])
TryConsumerNode(n, m, c) ==
  IF Refuses(n.p, c.v) THEN Fail(m) ELSE ConsumerNode(n, m, c)

-----------------------------------------------------------------------------
(* Operators with memory *)

FoldStream(n, m, c) == Emit(m, Call(n.p, <<m.value, c.v[1]>>))

DistinctStream(n, m, c) ==
  IF m.last = <<c.v[1]>> THEN Quiet(m)
  ELSE Emit([m EXCEPT !.last = <<c.v[1]>>], c.v[1])

DifferenceStream(n, m, c) ==
  LET m2 == [m EXCEPT !.prev_val = <<c.v[1]>>] IN
  IF m.prev_val = <<>> THEN Quiet(m2) ELSE Emit(m2, c.v[1] - m.prev_val[1])

LimitStream(n, m, c) ==
  IF m.tick_count >= n.p THEN Quiet(m)
  ELSE Emit([m EXCEPT !.tick_count = @ + 1], c.v[1])
LimitNode(n, m, c) ==
  IF m.tick_count >= n.p THEN Quiet(m) ELSE Tick([m EXCEPT !.tick_count = @ + 1])

(* A wrong form of ShouldEmit: a value at the end of the interval is dropped. *)
ShouldEmitAfter(n, m, c) ==
  m.last_emit_time = <<>> \/ c.time - m.last_emit_time[1] > n.p

ShouldEmit(n, m, c) ==
  m.last_emit_time = <<>> \/ c.time - m.last_emit_time[1] >= n.p
ThrottleStream(n, m, c) ==
  IF ShouldEmit(n, m, c)
  THEN Emit([m EXCEPT !.last_emit_time = <<c.time>>], c.v[1]) ELSE Quiet(m)
ThrottleNode(n, m, c) ==
  IF ShouldEmit(n, m, c)
  THEN Tick([m EXCEPT !.last_emit_time = <<c.time>>]) ELSE Quiet(m)

PrintStream(n, m, c) == Emit([m EXCEPT !.calls = Append(@, c.v[1])], c.v[1])
TimedStream(n, m, c) == Emit([m EXCEPT !.cycles = @ + 1], c.v[1])
FinallyNode(n, m, c) == Emit(m, c.v[1])

Flush(m) == Emit([m EXCEPT !.buffer = <<>>], m.buffer)

BufferStream(n, m, c) ==
  LET m2 == [m EXCEPT !.buffer = Append(@, c.v[1])] IN
  IF Len(m2.buffer) >= n.p \/ c.last THEN Flush(m2) ELSE Quiet(m2)

(* A wrong form of WindowStream, without the flush of the last cycle. *)
WindowKeepsLast(n, m, c) ==
  LET over == c.time >= m.next_window
      flushed == over /\ m.buffer # <<>>
      next == IF over THEN m.next_window + n.p * ((c.time - m.next_window) \div n.p + 1)
                      ELSE m.next_window
      r == IF flushed THEN Flush(m) ELSE Quiet(m)
  IN TickIf(flushed, [r.mem EXCEPT !.next_window = next, !.buffer = Append(@, c.v[1])])

(* The boundary moves past now in steps of the interval; the value of this *)
(* cycle belongs to the window that begins there.  The flush of the last   *)
(* cycle is left out when a boundary was flushed in the same cycle.        *)
WindowStream(n, m, c) ==
  LET over == c.time >= m.next_window
      flushed == over /\ m.buffer # <<>>
      next == IF over THEN m.next_window + n.p * ((c.time - m.next_window) \div n.p + 1)
                      ELSE m.next_window
      r == IF flushed THEN Flush(m) ELSE Quiet(m)
      m2 == [r.mem EXCEPT !.next_window = next, !.buffer = Append(@, c.v[1])] IN
  IF ~flushed /\ c.last THEN Flush(m2) ELSE TickIf(flushed, m2)

Delayed(m, n, c) ==
  LET next == c.time + n.p
      first == IF m.initialized THEN m
               ELSE [m EXCEPT !.value = c.v[1], !.initialized = TRUE]
      m2 == IF c.on[1] THEN [first EXCEPT !.queue = Push(@, c.v[1], next)] ELSE m IN
  [PopPending(m2, c.time) EXCEPT !.at = IF c.on[1] THEN {next} ELSE {}]

DelayStream(n, m, c) == IF n.p = 0 THEN Emit(m, c.v[1]) ELSE Delayed(m, n, c)

(* The trigger, its second upstream, snaps to the current value and forgets *)
(* what is pending, a value of the same cycle included.                    *)
DelayWithResetStream(n, m, c) ==
  IF c.on[2] THEN Emit([m EXCEPT !.queue = <<>>, !.initialized = TRUE], c.v[1])
  ELSE DelayStream(n, m, c)

DelayNode(n, m, c) ==
  IF n.p = 0 THEN Tick(m)
  ELSE LET next == c.time + n.p
           m2 == IF c.on[1] THEN [m EXCEPT !.queue = Push(@, 0, next)] ELSE m IN
       [PopPending(m2, c.time) EXCEPT !.at = IF c.on[1] THEN {next} ELSE {}]

(* n.p is the index of the paired FeedbackStream. *)
FeedbackStream(n, m, c) == PopPending(m, c.time)
Send(r, n, c, v) == [r EXCEPT !.sent = {<<n.p, c.time + 1, v>>}]
FeedbackSendStream(n, m, c) == Send(Emit(m, c.v[1]), n, c, c.v[1])
FeedbackSendNode(n, m, c) == Send(Tick(m), n, c, 0)

(* combine(): each CombineNode pushes to the burst that it shares with the *)
(* CombineStream2 n.p, which takes it once they have all run.              *)
CombineNode(n, m, c) == [Tick(m) EXCEPT !.sent = {<<n.p, c.time, c.v[1]>>}]
CombineStream2(n, m, c) == Flush(m)

(* What a node finds of a value that another one sent it: the feedback     *)
(* stream has a queue and gets a callback, the burst of combine() is a     *)
(* plain vector.                                                           *)
Receive(n, m, t, v) ==
  IF n.kind = "CombineStream2" THEN [m EXCEPT !.buffer = Append(@, v)]
  ELSE [m EXCEPT !.queue = Push(@, v, t)]

-----------------------------------------------------------------------------
(* Demultiplexing: n.p is the number of slots, n.out[s] the index of the   *)
(* child of slot s, n.out[n.p + 1] that of the overflow child.  A value is *)
(* <<key, close>>.  in_use[k] is the Option<usize> of the code, absent     *)
(* keys are not in its domain.                                             *)

Overflow == 0
PeekAvailable(m, c) ==
  LET free == SelectSeq(c.order, LAMBDA s : s \in m.available) IN
  IF free = <<>> THEN Overflow ELSE free[1]

Release(m, key, c) ==
  IF key \notin DOMAIN m.in_use THEN [map |-> m, slot |-> PeekAvailable(m, c)]
  ELSE LET s == m.in_use[key] IN
       [map |-> [m EXCEPT !.in_use = [k \in DOMAIN m.in_use \ {key} |-> m.in_use[k]],
                          !.available = @ \cup ({s} \ {Overflow})],
        slot |-> s]

(* A wrong form of GetOrInsert: the slot stays available. *)
InsertKeepsSlot(m, key, c) ==
  IF key \in DOMAIN m.in_use THEN [map |-> m, slot |-> m.in_use[key]]
  ELSE [map |-> [m EXCEPT !.in_use = (key :> PeekAvailable(m, c)) @@ @],
        slot |-> PeekAvailable(m, c)]

GetOrInsert(m, key, c) ==
  IF key \in DOMAIN m.in_use THEN [map |-> m, slot |-> m.in_use[key]]
  ELSE LET s == PeekAvailable(m, c) IN
       [map |-> [m EXCEPT !.in_use = [k \in DOMAIN m.in_use \cup {key} |->
                                        IF k = key THEN s ELSE m.in_use[k]],
                          !.available = @ \ {s}],
        slot |-> s]

Entry(m, item, c) == IF item[2] THEN Release(m, item[1], c) ELSE GetOrInsert(m, item[1], c)
Child(n, slot) == IF slot = Overflow THEN n.out[n.p + 1] ELSE n.out[slot]

DemuxParent(n, m, c) ==
  LET e == Entry(m.map, c.v[1], c) IN
  [Quiet([m EXCEPT !.value = c.v[1], !.map = e.map])
     EXCEPT !.mark = {Child(n, e.slot)}]

DemuxChild(n, m, c) == Emit(m, c.v[1])

(* value[i] is the row of the child with index i in n.out. *)
DemuxVecParent(n, m, c) ==
  LET Row(slot) == IF slot = Overflow THEN n.p + 1 ELSE slot
      One(acc, item) ==
        LET e == Entry(acc.map, item, c) IN
        [map |-> e.map,
         rows |-> [acc.rows EXCEPT ![Row(e.slot)] = Append(@, item)],
         mark |-> acc.mark \cup {Child(n, e.slot)}]
      r == FoldLeft(One, [map |-> m.map, rows |-> [i \in 1..(n.p + 1) |-> <<>>],
                          mark |-> {}], c.v[1]) IN
  [Quiet([m EXCEPT !.value = r.rows, !.map = r.map]) EXCEPT !.mark = r.mark]

DemuxVecChild(n, m, c) == Emit(m, c.v[1][n.p])
=============================================================================
