---------------------------- MODULE GraphEngine -----------------------------
(***************************************************************************)
(* graph.rs, Graph::run_nodes and everything it calls: the run loop, the   *)
(* callbacks that make nodes dirty, and cycle(), which runs the dirty      *)
(* nodes layer by layer.  The graph itself is the one GraphWiring builds;  *)
(* it does not change here.                                                *)
(*                                                                         *)
(* The engine is one thread.  Its steps interleave with the wall clock and *)
(* with other threads that send to the ready channel through a             *)
(* ReadyNotifier.  A node is any program: while it is in Node::cycle it    *)
(* calls the methods of GraphState it likes, in any order, and returns     *)
(* true, false or an error.                                                *)
(***************************************************************************)
EXTENDS Integers, Sequences

CONSTANTS
  Node,
  Layer,          \* NodeData::layer
  LayerCount,     \* dirty_nodes_by_layer.len()
  Downstreams,    \* NodeData::downstreams
  CallbackNodes,  \* the nodes that call add_callback
  AlwaysNodes,    \* the nodes that call always_callback
  NotifyNodes,    \* the nodes that have given a ReadyNotifier to another thread
  FeedbackTo,     \* the feedback sources each node sends to
  MarkTargets,    \* the nodes each node marks dirty itself (demux children)
  Failing,        \* the nodes whose cycle() may return an error
  Realtime,       \* RunMode::RealTime, otherwise HistoricalFrom(StartTime)
  StartTime,      \* the wall clock, or the historical time, when run_nodes begins
  RunFors,        \* the values of RunFor explored
  U32Max,         \* u32::MAX
  NanoMax,        \* NanoTime::MAX, later than any time of a behaviour
  CallbackTimes,  \* the times nodes ask callbacks for
  MaxNow,         \* bound on the wall clock
  MaxNotify,      \* bound on the number of ready notifications
  NoNode

Edge == [node : Node, active : BOOLEAN]
RunFor == [kind : {"Duration", "Cycles", "Forever"}, bound : Nat]
Event == [value : Node, time : Nat]

(* GraphWiringProofs!LayersAreOrdered and LayersHaveLists establish the    *)
(* conjuncts on Layer.  A demux parent marks only its children, which are  *)
(* passive downstreams.                                                    *)
ASSUME EngineAssumption ==
  /\ LayerCount \in Nat
  /\ Layer \in [Node -> 0..(LayerCount - 1)]
  /\ Downstreams \in [Node -> Seq(Edge)]
  /\ \A n \in Node : \A d \in 1..Len(Downstreams[n]) :
       Layer[n] < Layer[Downstreams[n][d].node]
  /\ MarkTargets \in [Node -> SUBSET Node]
  /\ \A n \in Node : \A m \in MarkTargets[n] : Layer[n] < Layer[m]
  /\ CallbackNodes \subseteq Node
  /\ AlwaysNodes \subseteq Node
  /\ NotifyNodes \subseteq Node
  /\ FeedbackTo \in [Node -> SUBSET Node]
  /\ Failing \subseteq Node
  /\ Realtime \in BOOLEAN
  /\ StartTime \in Nat
  /\ RunFors \subseteq RunFor
  /\ U32Max \in Nat
  /\ NanoMax \in Nat
  /\ CallbackTimes \subseteq Nat
  /\ MaxNow \in Nat
  /\ MaxNotify \in Nat
  /\ NoNode \notin Node

VARIABLES
  run_for,        \* state.run_for
  time,           \* state.time
  first_cycle,    \* state.first_cycle
  is_last_cycle,  \* state.is_last_cycle
  scheduled,      \* state.scheduled_callbacks, as the set of EventSet
  always,         \* state.always_callbacks
  ready,          \* state.ready_callbacks, the channel
  node_dirty,     \* state.node_dirty
  dirty,          \* state.dirty_nodes_by_layer
  node_ticked,    \* state.node_ticked
  cycles,         \* the local cycles of run_nodes
  progressed,     \* the local progressed of process_callbacks_*
  k,              \* position in always_callbacks, or in a downstream list
  lyr, i, len,    \* the loop variables of cycle(), and the bound of the inner one
  current,        \* the index of cycle_node: state.current_node_index at "node"
  now,            \* the wall clock
  notified,       \* how many notifications other threads have sent
  ran,            \* history: the nodes run in this cycle
  last_time,      \* history: the time of the last finished cycle, -1 before
  flagged,        \* history: how many cycles began with is_last_cycle set
  late,           \* history: how many cycles began at or after the end time
  pc

clock == <<now, notified>>
history == <<ran, last_time, flagged, late>>
queues == <<scheduled, always, ready>>
marks == <<node_dirty, dirty>>
cursor == <<lyr, i, len, current>>
loop == <<run_for, time, first_cycle, is_last_cycle, cycles>>
vars == <<loop, queues, marks, node_ticked, progressed, k, cursor, clock, history, pc>>

ES == INSTANCE EventSet WITH Value <- Node, Time <- Nat, None <- NoNode,
                             events <- scheduled, result <- current

Larger(a, b) == IF a >= b THEN a ELSE b
Smaller(a, b) == IF a <= b THEN a ELSE b
Layers == 0..(LayerCount - 1)

TypeOK ==
  /\ run_for \in RunFor
  /\ time \in Nat
  /\ first_cycle \in BOOLEAN
  /\ is_last_cycle \in BOOLEAN
  /\ scheduled \subseteq Event
  /\ always \in Seq(Node)
  /\ ready \in Seq(Node)
  /\ node_dirty \in [Node -> BOOLEAN]
  /\ dirty \in [Layers -> Seq(Node)]
  /\ node_ticked \in [Node -> BOOLEAN]
  /\ cycles \in Nat
  /\ progressed \in BOOLEAN
  /\ k \in Nat /\ k >= 1
  /\ lyr \in 0..LayerCount
  /\ i \in Nat /\ i >= 1
  /\ len \in Nat
  /\ current \in Node \cup {NoNode}
  /\ pc \in {"node", "ticked"} => current \in Node
  /\ now \in Nat
  /\ notified \in Nat
  /\ ran \subseteq Node
  /\ last_time \in Nat \cup {-1}
  /\ flagged \in Nat
  /\ late \in Nat
  /\ pc \in {"top", "historical", "drain", "always", "scheduled", "wait", "snap",
             "cycle", "layer", "node", "ticked", "end", "done", "failed"}

-----------------------------------------------------------------------------
(* resolve_start_end: the bounds of the run.                               *)
end_time == IF run_for.kind = "Duration" THEN StartTime + run_for.bound ELSE NanoMax
end_cycle == IF run_for.kind = "Cycles" THEN run_for.bound ELSE U32Max

(* What start() of the nodes may leave behind: callbacks, always callbacks *)
(* and notifications already sent.                                         *)
Init ==
  /\ run_for \in RunFors
  /\ time = 0 /\ first_cycle = TRUE /\ is_last_cycle = FALSE
  /\ scheduled \in SUBSET [value : CallbackNodes, time : CallbackTimes]
  /\ always \in {<<>>} \cup {<<n>> : n \in AlwaysNodes}
  /\ ready = <<>>
  /\ node_dirty = [n \in Node |-> FALSE]
  /\ dirty = [l \in Layers |-> <<>>]
  /\ node_ticked = [n \in Node |-> FALSE]
  /\ cycles = 0 /\ progressed = FALSE /\ k = 1
  /\ lyr = 0 /\ i = 1 /\ len = 0 /\ current = NoNode
  /\ now = StartTime /\ notified = 0
  /\ ran = {} /\ last_time = -1 /\ flagged = 0 /\ late = 0
  /\ pc = "top"

(* mark_dirty, of Graph and of GraphState, which are the same. *)
mark_dirty(n) ==
  IF node_dirty[n] THEN UNCHANGED marks
  ELSE /\ node_dirty' = [node_dirty EXCEPT ![n] = TRUE]
       /\ dirty' = [dirty EXCEPT ![Layer[n]] = Append(@, n)]

-----------------------------------------------------------------------------
(* run_nodes: the top of the loop. *)
cycles_done == cycles >= end_cycle
time_done == time >= end_time

Finished == cycles_done \/ (is_last_cycle /\ time_done)

Stop ==
  /\ pc = "top" /\ Finished
  /\ pc' = "done"
  /\ UNCHANGED <<loop, queues, marks, node_ticked, progressed, k, cursor, clock, history>>

(* A wrong form of LoopAgain, which flags a cycle too early. *)
LoopFlaggedEarly ==
  /\ pc = "top" /\ ~ Finished
  /\ is_last_cycle' = (is_last_cycle \/ cycles + 2 >= end_cycle \/ time_done)
  /\ progressed' = FALSE
  /\ pc' = IF Realtime THEN "drain" ELSE "historical"
  /\ UNCHANGED <<run_for, time, first_cycle, cycles, queues, marks, node_ticked, k,
                 cursor, clock, history>>

LoopAgain ==
  /\ pc = "top" /\ ~ Finished
  /\ is_last_cycle' = (is_last_cycle \/ cycles + 1 >= end_cycle \/ time_done)
  /\ progressed' = FALSE
  /\ pc' = IF Realtime THEN "drain" ELSE "historical"
  /\ UNCHANGED <<run_for, time, first_cycle, cycles, queues, marks, node_ticked, k,
                 cursor, clock, history>>

(* The time of the earliest callback. *)
next_scheduled_time == (CHOOSE e \in ES!Earliest(scheduled) : TRUE).time

(* process_callbacks_historical: the time of the next cycle. *)
NextTime ==
  IF scheduled # {}
  THEN IF first_cycle THEN next_scheduled_time ELSE Larger(next_scheduled_time, time + 1)
  ELSE IF first_cycle THEN time ELSE time + 1

(* process_callbacks_historical: a notification is an error, no callback   *)
(* at all ends the run, otherwise the clock of the replay advances.        *)
HistoricalRefuse ==
  /\ pc = "historical" /\ ready # <<>>
  /\ pc' = "failed"
  /\ UNCHANGED <<loop, queues, marks, node_ticked, progressed, k, cursor, clock, history>>

HistoricalEnd ==
  /\ pc = "historical" /\ ready = <<>>
  /\ scheduled = {} /\ always = <<>>
  /\ pc' = "done"
  /\ UNCHANGED <<loop, queues, marks, node_ticked, progressed, k, cursor, clock, history>>

HistoricalAdvance ==
  /\ pc = "historical" /\ ready = <<>>
  /\ scheduled # {} \/ always # <<>>
  /\ time' = NextTime
  /\ first_cycle' = FALSE
  /\ k' = 1
  /\ pc' = "always"
  /\ UNCHANGED <<run_for, is_last_cycle, cycles, queues, marks, node_ticked, progressed,
                 cursor, clock, history>>

(* process_ready_callbacks: take what the other threads have sent. *)
DrainReady ==
  /\ pc = "drain" /\ ready # <<>>
  /\ mark_dirty(Head(ready))
  /\ ready' = Tail(ready)
  /\ progressed' = TRUE
  /\ UNCHANGED <<loop, scheduled, always, node_ticked, k, cursor, clock, history, pc>>

DrainDone ==
  /\ pc = "drain" /\ ready = <<>>
  /\ k' = 1
  /\ pc' = "always"
  /\ UNCHANGED <<loop, queues, marks, node_ticked, progressed, cursor, clock, history>>

(* process_scheduled_callbacks: first the always callbacks ... *)
MarkAlways ==
  /\ pc = "always" /\ k <= Len(always)
  /\ mark_dirty(always[k])
  /\ progressed' = TRUE
  /\ k' = k + 1
  /\ UNCHANGED <<loop, queues, node_ticked, cursor, clock, history, pc>>

AlwaysDone ==
  /\ pc = "always" /\ k > Len(always)
  /\ pc' = "scheduled"
  /\ UNCHANGED <<loop, queues, marks, node_ticked, progressed, k, cursor, clock, history>>

(* ... then all callbacks due at the time the engine has, which in         *)
(* realtime is the time of the previous pass of the loop.                  *)
PopScheduled ==
  /\ pc = "scheduled"
  /\ \E e \in ES!Earliest(scheduled) :
       /\ e.time <= time
       /\ mark_dirty(e.value)
       /\ scheduled' = scheduled \ {e}
  /\ progressed' = TRUE
  /\ UNCHANGED <<loop, always, ready, node_ticked, k, cursor, clock, history, pc>>

NoneDue == \A e \in scheduled : e.time > time

(* A wrong form of wait_until, which forgets the end. *)
WaitForCallback == IF scheduled = {} THEN NanoMax ELSE next_scheduled_time

(* process_callbacks_realtime: with nothing to do yet the engine waits for *)
(* a notification until the next callback or the end of the run.           *)
wait_until == Smaller(end_time, IF scheduled = {} THEN NanoMax ELSE next_scheduled_time)

(* wait_ready_callback does not wait at all when that is past.             *)
AfterScheduled ==
  IF Realtime THEN IF progressed \/ now > wait_until THEN "snap" ELSE "wait"
              ELSE IF progressed THEN "cycle" ELSE "done"

ScheduledDone ==
  /\ pc = "scheduled" /\ NoneDue
  /\ pc' = AfterScheduled
  /\ UNCHANGED <<loop, queues, marks, node_ticked, progressed, k, cursor, clock, history>>

(* wait_ready_callback: a notification arrives, or the timeout passes; one *)
(* that arrives at the timeout is taken now or left for the next pass.     *)
WaitReceive ==
  /\ pc = "wait" /\ ready # <<>>
  /\ mark_dirty(Head(ready))
  /\ ready' = Tail(ready)
  /\ progressed' = TRUE
  /\ pc' = "snap"
  /\ UNCHANGED <<loop, scheduled, always, node_ticked, k, cursor, clock, history>>

WaitTimeout ==
  /\ pc = "wait" /\ now >= wait_until
  /\ pc' = "snap"
  /\ UNCHANGED <<loop, queues, marks, node_ticked, progressed, k, cursor, clock, history>>

(* A wrong form of SnappedTime: the clock alone. *)
SnappedNow == now

SnappedTime == Larger(now, time + 1)

(* process_callbacks_realtime, its last assignment, and the way back: a    *)
(* cycle, or the top of the loop when nothing is dirty (`continue').       *)
SnapTime ==
  /\ pc = "snap"
  /\ time' = SnappedTime
  /\ pc' = IF progressed THEN "cycle" ELSE "top"
  /\ UNCHANGED <<run_for, first_cycle, is_last_cycle, cycles, queues, marks, node_ticked,
                 progressed, k, cursor, clock, history>>

-----------------------------------------------------------------------------
(* cycle(): the first layer. *)
BeginCycle ==
  /\ pc = "cycle"
  /\ len' = IF LayerCount > 0 THEN Len(dirty[0]) ELSE 0
  /\ flagged' = IF is_last_cycle THEN flagged + 1 ELSE flagged
  /\ late' = IF time_done THEN late + 1 ELSE late
  /\ pc' = "layer"
  /\ UNCHANGED <<loop, queues, marks, node_ticked, progressed, k, lyr, i, current, clock,
                 ran, last_time>>

(* cycle(): the nodes of a layer, as many as were dirty when the layer was *)
(* reached, one after the other.                                           *)
EnterNode ==
  /\ pc = "layer" /\ lyr < LayerCount /\ i <= len
  /\ current' = dirty[lyr][i]
  /\ ran' = ran \cup {dirty[lyr][i]}
  /\ pc' = "node"
  /\ UNCHANGED <<loop, queues, marks, node_ticked, progressed, k, lyr, i, len, clock,
                 last_time, flagged, late>>

(* The next layer, whose length is read when it is reached.                *)
NextLayer ==
  /\ pc = "layer" /\ lyr < LayerCount /\ i > len
  /\ lyr' = lyr + 1
  /\ i' = 1
  /\ len' = IF lyr + 1 < LayerCount THEN Len(dirty[lyr + 1]) ELSE 0
  /\ UNCHANGED <<loop, queues, marks, node_ticked, progressed, k, current, clock, history, pc>>

(* Inside Node::cycle: the methods of GraphState.                          *)
AddCallback(t) ==
  /\ pc = "node" /\ current \in CallbackNodes
  /\ scheduled' = scheduled \cup {[value |-> current, time |-> t]}
  /\ UNCHANGED <<loop, always, ready, marks, node_ticked, progressed, k, cursor, clock,
                 history, pc>>

(* FeedbackSink::send schedules the paired source one nanosecond on.       *)
FeedbackSend(n) ==
  /\ pc = "node"
  /\ scheduled' = scheduled \cup {[value |-> n, time |-> time + 1]}
  /\ UNCHANGED <<loop, always, ready, marks, node_ticked, progressed, k, cursor, clock,
                 history, pc>>

AlwaysCallback ==
  /\ pc = "node" /\ current \in AlwaysNodes
  /\ ~ \E a \in 1..Len(always) : always[a] = current
  /\ always' = Append(always, current)
  /\ UNCHANGED <<loop, scheduled, ready, marks, node_ticked, progressed, k, cursor, clock,
                 history, pc>>

(* A demux parent makes one of its children dirty instead of ticking.      *)
MarkTarget(m) ==
  /\ pc = "node"
  /\ mark_dirty(m)
  /\ UNCHANGED <<loop, queues, node_ticked, progressed, k, cursor, clock, history, pc>>

(* cycle_node: the node has not ticked, has ticked, or has failed.         *)
ReturnFalse ==
  /\ pc = "node"
  /\ current' = NoNode
  /\ i' = i + 1
  /\ pc' = "layer"
  /\ UNCHANGED <<loop, queues, marks, node_ticked, progressed, k, lyr, len, clock, history>>

ReturnTrue ==
  /\ pc = "node"
  /\ node_ticked' = [node_ticked EXCEPT ![current] = TRUE]
  /\ k' = 1
  /\ pc' = "ticked"
  /\ UNCHANGED <<loop, queues, marks, progressed, cursor, clock, history>>

ReturnError ==
  /\ pc = "node" /\ current \in Failing
  /\ current' = NoNode
  /\ pc' = "failed"
  /\ UNCHANGED <<loop, queues, marks, node_ticked, progressed, k, lyr, i, len, clock, history>>

(* A wrong form of Propagate, which stops at the first edge. *)
PropagateFirst ==
  /\ pc = "ticked" /\ k <= Len(Downstreams[current])
  /\ IF Downstreams[current][k].active
     THEN mark_dirty(Downstreams[current][k].node)
     ELSE UNCHANGED marks
  /\ k' = Len(Downstreams[current]) + 1
  /\ UNCHANGED <<loop, queues, node_ticked, progressed, cursor, clock, history, pc>>

(* cycle_node: a tick makes the active downstreams dirty, edge by edge.    *)
Propagate ==
  /\ pc = "ticked" /\ k <= Len(Downstreams[current])
  /\ IF Downstreams[current][k].active
     THEN mark_dirty(Downstreams[current][k].node)
     ELSE UNCHANGED marks
  /\ k' = k + 1
  /\ UNCHANGED <<loop, queues, node_ticked, progressed, cursor, clock, history, pc>>

PropagateDone ==
  /\ pc = "ticked" /\ k > Len(Downstreams[current])
  /\ current' = NoNode
  /\ i' = i + 1
  /\ pc' = "layer"
  /\ UNCHANGED <<loop, queues, marks, node_ticked, progressed, k, lyr, len, clock, history>>

CycleDone ==
  /\ pc = "layer" /\ lyr = LayerCount
  /\ pc' = "end"
  /\ UNCHANGED <<loop, queues, marks, node_ticked, progressed, k, cursor, clock, history>>

(* reset() and cycles += 1. *)
EndCycle ==
  /\ pc = "end"
  /\ dirty' = [l \in Layers |-> <<>>]
  /\ node_dirty' = [n \in Node |-> FALSE]
  /\ node_ticked' = [n \in Node |-> FALSE]
  /\ cycles' = cycles + 1
  /\ lyr' = 0 /\ i' = 1 /\ len' = 0
  /\ last_time' = time /\ ran' = {}
  /\ pc' = "top"
  /\ UNCHANGED <<run_for, time, first_cycle, is_last_cycle, queues, progressed, k,
                 current, clock, flagged, late>>

-----------------------------------------------------------------------------
(* The environment: time passes, and another thread notifies a node.       *)
Running == pc \notin {"done", "failed"}

Tick ==
  /\ Running /\ Realtime /\ now < MaxNow
  /\ now' = now + 1
  /\ UNCHANGED <<loop, queues, marks, node_ticked, progressed, k, cursor, notified, history, pc>>

Notify(n) ==
  /\ Running /\ notified < MaxNotify
  /\ ready' = Append(ready, n)
  /\ notified' = notified + 1
  /\ UNCHANGED <<loop, scheduled, always, marks, node_ticked, progressed, k, cursor, now,
                 history, pc>>

(* The steps the engine takes by itself, and what a node does. *)
Engine == \/ Stop \/ LoopAgain
          \/ HistoricalRefuse \/ HistoricalEnd \/ HistoricalAdvance
          \/ DrainReady \/ DrainDone \/ MarkAlways \/ AlwaysDone
          \/ PopScheduled \/ ScheduledDone \/ WaitReceive \/ WaitTimeout \/ SnapTime
          \/ BeginCycle \/ EnterNode \/ NextLayer \/ Propagate \/ PropagateDone \/ CycleDone \/ EndCycle

Return == ReturnFalse \/ ReturnTrue \/ ReturnError

Call == \/ \E t \in CallbackTimes : AddCallback(t)
        \/ \E n \in FeedbackTo[current] : FeedbackSend(n)
        \/ AlwaysCallback
        \/ \E m \in MarkTargets[current] : MarkTarget(m)

Next == Engine \/ Return \/ (pc = "node" /\ Call) \/ Tick \/ \E n \in NotifyNodes : Notify(n)

(* The engine's thread runs while it can, a node's cycle() returns, and    *)
(* the clock goes on; nobody has to notify.                                *)
Fairness == WF_vars(Engine) /\ WF_vars(Return) /\ WF_vars(Tick)

Spec == Init /\ [][Next]_vars /\ Fairness

-----------------------------------------------------------------------------
(* n reads m: m is an upstream of n, active or passive.                    *)
Reads(n, m) == \/ \E d \in 1..Len(Downstreams[m]) : Downstreams[m][d].node = n
               \/ n \in MarkTargets[m]

(* No glitch: when a node runs, every node it reads that is due to run in  *)
(* the same cycle has run already, and none of them becomes due later in   *)
(* that cycle.                                                             *)
GlitchFree == \A n \in ran : \A m \in Node : Reads(n, m) /\ node_dirty[m] => m \in ran

(* Nothing is lost within a cycle: when the layers are done, every node    *)
(* that a callback, a notification, a demux parent or a tick made dirty    *)
(* has run, and so has every active downstream of every node that ticked.  *)
NothingLost ==
  pc = "end" =>
    /\ \A n \in Node : node_dirty[n] => n \in ran
    /\ \A n \in Node : node_ticked[n] =>
         \A d \in 1..Len(Downstreams[n]) :
           Downstreams[n][d].active => Downstreams[n][d].node \in ran

(* Nothing is left over between cycles: at the top of the loop no node is  *)
(* dirty or ticked and no list holds one, also after a pass without a      *)
(* cycle (the `continue' of the realtime loop).                            *)
CleanTop ==
  pc = "top" => /\ \A n \in Node : ~ node_dirty[n] /\ ~ node_ticked[n]
                /\ \A l \in Layers : dirty[l] = <<>>

(* A node runs at most once in a cycle, however many reasons it has. *)
OncePerCycle == [][pc = "layer" /\ pc' = "node" => current' \notin ran]_vars

(* Every cycle has a later time than the cycle before it, in both modes. *)
TimeAdvances == pc \in {"cycle", "layer", "node", "ticked"} => time > last_time

(* In a replay no callback is passed over: when a cycle begins, all that   *)
(* were due have been taken, and the clock moves past the time of a        *)
(* callback only if that time was not after the cycle before (it was asked *)
(* for in the past).                                                       *)
ReplayOnTime ==
  ~ Realtime =>
    /\ pc \in {"always", "scheduled"} =>
         \A e \in scheduled : e.time >= time \/ e.time <= last_time
    /\ pc = "cycle" => NoneDue

(* is_last_cycle() is true in at most one cycle, and that cycle is the     *)
(* last one.                                                               *)
OneLastCycle == flagged <= 1 /\ (flagged = 1 /\ pc = "top" => Finished)

(* A run for a duration overruns its end by two cycles at most: the one    *)
(* that reaches it and the one flagged as the last.                        *)
OverrunBounded == late <= 2

(* What a cycle promises to the nodes: no glitch, nothing lost, and a      *)
(* clean slate for the next one.                                           *)
CyclesSound == GlitchFree /\ NothingLost /\ CleanTop

(* A replay keeps to its callbacks and to its bounds.                      *)
ReplaySound == ReplayOnTime /\ OneLastCycle /\ OverrunBounded

(* So does a realtime run, whose passes may do nothing and whose clock is  *)
(* the wall clock.                                                         *)
PassesSound == TimeAdvances /\ CleanTop /\ OverrunBounded

-----------------------------------------------------------------------------
(* The inductive invariant that the proofs of the properties above rest on. *)

InCycle == pc \in {"layer", "node", "ticked", "end"}
InNode == pc \in {"node", "ticked"}
BeforeCycle == pc \in {"historical", "drain", "always", "scheduled", "wait", "snap", "cycle"}

(* The lists of cycle() hold exactly the nodes marked in node_dirty, each  *)
(* once and in the list of its layer.                                      *)
MarksAgree ==
  /\ \A n \in Node : node_dirty[n] =>
       \E p \in 1..Len(dirty[Layer[n]]) : dirty[Layer[n]][p] = n
  /\ \A l \in Layers : \A p \in 1..Len(dirty[l]) :
       Layer[dirty[l][p]] = l /\ node_dirty[dirty[l][p]]
  /\ \A l \in Layers : \A p, q \in 1..Len(dirty[l]) : dirty[l][p] = dirty[l][q] => p = q

(* The loop variables of cycle(): the length that was read when the layer  *)
(* was reached is still the length of its list.                            *)
CursorInv ==
  /\ ~ InCycle /\ pc # "failed" => lyr = 0 /\ i = 1 /\ ran = {}
  /\ InCycle /\ lyr < LayerCount => len = Len(dirty[lyr]) /\ i <= len + 1
  /\ InNode => lyr < LayerCount /\ i <= len /\ current = dirty[lyr][i]
  /\ pc = "end" => lyr = LayerCount

(* The nodes run so far are the dirty ones up to the cursor. *)
RanInv ==
  InCycle =>
    /\ \A n \in Node : node_dirty[n] /\ Layer[n] < lyr => n \in ran
    /\ lyr < LayerCount => \A p \in 1..Len(dirty[lyr]) :
         dirty[lyr][p] \in ran <=> p < i \/ (p = i /\ InNode)
    /\ \A n \in ran : node_dirty[n] /\ Layer[n] <= lyr

(* A tick has reached the downstreams, up to the edge it is at. *)
TickInv ==
  \A n \in Node : node_ticked[n] =>
    \A d \in 1..Len(Downstreams[n]) :
      Downstreams[n][d].active /\ ~ (pc = "ticked" /\ current = n /\ d >= k)
        => node_dirty[Downstreams[n][d].node]

(* A pass that has not progressed has left no mark. *)
QuietInv ==
  /\ ~ InCycle /\ pc # "failed" => \A n \in Node : ~ node_ticked[n]
  /\ pc \in {"top", "historical"}
       \/ (pc \in {"drain", "always", "scheduled", "wait", "snap"} /\ ~ progressed)
     => \A n \in Node : ~ node_dirty[n]

(* The clock of the engine against that of the cycles it has finished. *)
TimeInv ==
  /\ last_time <= time
  /\ ~ Realtime /\ first_cycle =>
       time = 0 /\ last_time = -1 /\ pc \in {"top", "historical", "done", "failed"}
  /\ ~ Realtime /\ ~ first_cycle /\ pc \in {"top", "historical"} => last_time = time
  /\ ~ Realtime /\ pc \in {"always", "scheduled"} => time > last_time
  /\ Realtime => pc # "historical"
  /\ ~ Realtime => pc \notin {"drain", "wait", "snap"}

(* The flag of the last cycle, and the cycles beyond the end of the run. *)
LastInv ==
  /\ is_last_cycle => cycles + 1 >= end_cycle \/ time_done
  /\ flagged > 0 => is_last_cycle
  /\ BeforeCycle => flagged = 0
  /\ late > 0 => time_done
  /\ BeforeCycle => late <= 1 /\ (late = 1 => is_last_cycle)
  /\ late = 2 => is_last_cycle

EngineInv ==
  /\ TypeOK /\ MarksAgree /\ CursorInv /\ RanInv /\ TickInv /\ QuietInv
  /\ TimeInv /\ LastInv
  /\ GlitchFree /\ TimeAdvances /\ ReplayOnTime /\ OneLastCycle /\ OverrunBounded

-----------------------------------------------------------------------------
(* What another thread has sent is not forgotten: the node it notified     *)
(* runs in a later cycle, or the run ends.                                 *)
NotifiedRuns ==
  \A n \in Node : (n \notin ran /\ \E r \in 1..Len(ready) : ready[r] = n)
                  ~> (n \in ran \/ ~ Running)

(* A callback that was asked for fires: its node runs in a cycle of that   *)
(* time or later, or the run ends.                                         *)
CallbackFires ==
  \A n \in Node, t \in 0..MaxNow :
    (pc = "top" /\ [value |-> n, time |-> t] \in scheduled)
      ~> ((n \in ran /\ time >= t) \/ ~ Running)

(* A run for a duration ends, whatever the nodes do.                       *)
DurationEnds == run_for.kind = "Duration" /\ end_time <= MaxNow ~> ~ Running

(* The realtime loop makes progress: notifications and callbacks are       *)
(* served, and a duration is kept.                                         *)
EngineProgress == NotifiedRuns /\ CallbackFires /\ DurationEnds
=============================================================================
