---------------------------- MODULE GraphWiring -----------------------------
(***************************************************************************)
(* graph.rs, Graph::initialise and Graph::initialise_node: the crawl of    *)
(* the sub-graph below the root nodes with an explicit work stack, and the *)
(* linking of the downstream edges.                                        *)
(*                                                                         *)
(* A node stands for its own index: the index of the code is the position  *)
(* of the node in `nodes'.  What Node::upstreams() answers is read once,   *)
(* by WiringFrame::new, so it is a parameter of the behaviour.             *)
(***************************************************************************)
EXTENDS Integers, Sequences, Functions

CONSTANTS Node,
          Wirings,   \* the wirings explored: functions from Node to UpStreams
          RootLists  \* the root lists explored: sequences of nodes

(* struct UpStreams, and struct Edge with the node for its index. *)
UpStreams == [active : Seq(Node), passive : Seq(Node)]
Edge == [node : Node, active : BOOLEAN]

ASSUME WiringAssumption == /\ Wirings \subseteq [Node -> UpStreams]
                           /\ RootLists \subseteq Seq(Node)

VARIABLES declared,      \* Node::upstreams() of every node
          roots,         \* the argument of Graph::new
          next_root,     \* position of the loop over roots in initialise
          stack,         \* the work stack of initialise_node
          in_progress,   \* the nodes on the stack
          nodes,         \* state.nodes, in the order of registration
          layer,         \* NodeData::layer of the registered nodes
          upstreams,     \* NodeData::upstreams
          downstreams,   \* NodeData::downstreams
          i, j,          \* the loop variables of the linking
          max_layer,     \* the local max_layer of initialise
          dirty_layers,  \* dirty_nodes_by_layer.len()
          wiring_error,  \* state.wiring_error.is_some()
          pc

input == <<declared, roots>>
graph == <<nodes, layer, upstreams>>
linking == <<downstreams, i, j, max_layer, dirty_layers>>
vars == <<input, next_root, stack, in_progress, graph, linking, wiring_error, pc>>

Frame == [node : Node, upstreams : Seq(Edge), next : Nat, layer : Nat, edges : Seq(Edge)]

TypeOK ==
  /\ declared \in [Node -> UpStreams]
  /\ roots \in Seq(Node)
  /\ next_root \in Nat \ {0}
  /\ stack \in Seq(Frame)
  /\ in_progress \subseteq Node
  /\ nodes \in Seq(Node)
  /\ layer \in [Node -> Nat]
  /\ upstreams \in [Node -> Seq(Edge)]
  /\ downstreams \in [Node -> Seq(Edge)]
  /\ i \in Nat \ {0}
  /\ j \in Nat \ {0}
  /\ max_layer \in Int
  /\ dirty_layers \in Int
  /\ wiring_error \in BOOLEAN
  /\ pc \in {"roots", "crawl", "link", "done"}

Init ==
  /\ declared \in Wirings
  /\ roots \in RootLists
  /\ next_root = 1
  /\ stack = <<>>
  /\ in_progress = {}
  /\ nodes = <<>>
  /\ layer = [n \in Node |-> 0]
  /\ upstreams = [n \in Node |-> <<>>]
  /\ downstreams = [n \in Node |-> <<>>]
  /\ i = 1
  /\ j = 1
  /\ max_layer = -1
  /\ dirty_layers = 0
  /\ wiring_error = FALSE
  /\ pc = "roots"

(* GraphState::seen: the node has been registered. *)
Seen(n) == n \in Range(nodes)

Larger(a, b) == IF a >= b THEN a ELSE b

Edges(ns, active) == [k \in 1..Len(ns) |-> [node |-> ns[k], active |-> active]]

(* WiringFrame::new: the active upstreams, then the passive ones. *)
UpstreamList(ups) == Edges(ups.active, TRUE) \o Edges(ups.passive, FALSE)

NewFrame(n) == [node |-> n, upstreams |-> UpstreamList(declared[n]),
                next |-> 1, layer |-> 0, edges |-> <<>>]

Top == stack[Len(stack)]
UpstreamLeft == Top.next <= Len(Top.upstreams)
Upstream == Top.upstreams[Top.next]

(* A wrong form of SkipRoot, which stays where it is. *)
SkipRootStays ==
  /\ pc = "roots" /\ next_root <= Len(roots)
  /\ Seen(roots[next_root])
  /\ UNCHANGED <<input, next_root, stack, in_progress, graph, linking, wiring_error, pc>>

(* initialise, the loop over the roots: a root that is registered already  *)
(* is skipped, another one is crawled from an empty stack.                 *)
SkipRoot ==
  /\ pc = "roots" /\ next_root <= Len(roots)
  /\ Seen(roots[next_root])
  /\ next_root' = next_root + 1
  /\ UNCHANGED <<input, stack, in_progress, graph, linking, wiring_error, pc>>

StartRoot ==
  /\ pc = "roots" /\ next_root <= Len(roots)
  /\ ~ Seen(roots[next_root])
  /\ in_progress' = {roots[next_root]}
  /\ stack' = <<NewFrame(roots[next_root])>>
  /\ pc' = "crawl"
  /\ UNCHANGED <<input, next_root, graph, linking, wiring_error>>

(* A wrong form of WithEdge: a layer that passive upstreams do not raise.  *)
WithEdgeActiveLayer(f, e) ==
  [f EXCEPT !.edges = Append(f.edges, e),
            !.layer = IF e.active THEN Larger(f.layer, layer[e.node] + 1) ELSE f.layer,
            !.next = f.next + 1]

(* The frame with one more edge, to an upstream that has its layer. *)
WithEdge(f, e) == [f EXCEPT !.edges = Append(f.edges, e),
                            !.layer = Larger(f.layer, layer[e.node] + 1),
                            !.next = f.next + 1]

(* initialise_node: the next upstream is registered. *)
RecordEdge ==
  /\ pc = "crawl" /\ stack # <<>> /\ UpstreamLeft
  /\ Seen(Upstream.node)
  /\ stack' = [stack EXCEPT ![Len(stack)] = WithEdge(Top, Upstream)]
  /\ UNCHANGED <<input, next_root, in_progress, graph, linking, wiring_error, pc>>

(* initialise_node: the next upstream is on the stack, a wiring cycle. The *)
(* error is stashed and nothing further is wired.                          *)
CycleDetected ==
  /\ pc = "crawl" /\ stack # <<>> /\ UpstreamLeft
  /\ ~ Seen(Upstream.node)
  /\ Upstream.node \in in_progress
  /\ wiring_error' = TRUE
  /\ pc' = "done"
  /\ UNCHANGED <<input, next_root, stack, in_progress, graph, linking>>

(* initialise_node: the next upstream is new; its frame goes on top and    *)
(* `next' stays, so the edge is recorded on the way back.                  *)
Descend ==
  /\ pc = "crawl" /\ stack # <<>> /\ UpstreamLeft
  /\ ~ Seen(Upstream.node)
  /\ Upstream.node \notin in_progress
  /\ in_progress' = in_progress \cup {Upstream.node}
  /\ stack' = Append(stack, NewFrame(Upstream.node))
  /\ UNCHANGED <<input, next_root, graph, linking, wiring_error, pc>>

(* initialise_node: all upstreams of the top frame are registered, so the  *)
(* node is (push_node and nodes.push).                                     *)
Finalise ==
  /\ pc = "crawl" /\ stack # <<>> /\ ~ UpstreamLeft
  /\ stack' = SubSeq(stack, 1, Len(stack) - 1)
  /\ in_progress' = in_progress \ {Top.node}
  /\ nodes' = Append(nodes, Top.node)
  /\ layer' = [layer EXCEPT ![Top.node] = Top.layer]
  /\ upstreams' = [upstreams EXCEPT ![Top.node] = Top.edges]
  /\ UNCHANGED <<input, next_root, linking, wiring_error, pc>>

(* initialise_node returns the index of the root. *)
RootDone ==
  /\ pc = "crawl" /\ stack = <<>>
  /\ next_root' = next_root + 1
  /\ pc' = "roots"
  /\ UNCHANGED <<input, stack, in_progress, graph, linking, wiring_error>>

RootsDone ==
  /\ pc = "roots" /\ next_root > Len(roots)
  /\ pc' = "link"
  /\ UNCHANGED <<input, next_root, stack, in_progress, graph, linking, wiring_error>>

(* A wrong form of LinkEdge: every downstream edge is active. *)
LinkEdgeActive ==
  LET edge == upstreams[nodes[i]][j]
  IN  /\ pc = "link" /\ i <= Len(nodes) /\ j <= Len(upstreams[nodes[i]])
      /\ downstreams' = [downstreams EXCEPT ![edge.node] =
                           Append(@, [node |-> nodes[i], active |-> TRUE])]
      /\ j' = j + 1
      /\ UNCHANGED <<input, next_root, stack, in_progress, graph, i, max_layer,
                     dirty_layers, wiring_error, pc>>

(* initialise, the inner loop: upstream edge j of node i gets its mirror. *)
LinkEdge ==
  LET edge == upstreams[nodes[i]][j]
  IN  /\ pc = "link" /\ i <= Len(nodes) /\ j <= Len(upstreams[nodes[i]])
      /\ downstreams' = [downstreams EXCEPT ![edge.node] =
                           Append(@, [node |-> nodes[i], active |-> edge.active])]
      /\ j' = j + 1
      /\ UNCHANGED <<input, next_root, stack, in_progress, graph, i, max_layer,
                     dirty_layers, wiring_error, pc>>

(* initialise, the outer loop: the layer of node i counts for max_layer. *)
LinkNode ==
  /\ pc = "link" /\ i <= Len(nodes) /\ j > Len(upstreams[nodes[i]])
  /\ max_layer' = Larger(max_layer, layer[nodes[i]])
  /\ i' = i + 1
  /\ j' = 1
  /\ UNCHANGED <<input, next_root, stack, in_progress, graph, downstreams,
                 dirty_layers, wiring_error, pc>>

(* initialise, the last loop: one list of dirty nodes for every layer. *)
LinkDone ==
  /\ pc = "link" /\ i > Len(nodes)
  /\ dirty_layers' = max_layer + 1
  /\ pc' = "done"
  /\ UNCHANGED <<input, next_root, stack, in_progress, graph, downstreams, i, j,
                 max_layer, wiring_error>>

Next == \/ SkipRoot \/ StartRoot \/ RecordEdge \/ CycleDetected \/ Descend
        \/ Finalise \/ RootDone \/ RootsDone \/ LinkEdge \/ LinkNode \/ LinkDone

(* Graph::new runs to its end on the calling thread. *)
Spec == Init /\ [][Next]_vars /\ WF_vars(Next)

-----------------------------------------------------------------------------
Done == pc = "done"

(* A node of the graph is on a higher layer than each of its upstreams,    *)
(* active or passive, and registered after them: what lets cycle() run the *)
(* layers once, in order, and never run a node before what it reads.       *)
LayerOrder ==
  \A k \in 1..Len(nodes) :
    \A e \in 1..Len(upstreams[nodes[k]]) :
      LET up == upstreams[nodes[k]][e].node
      IN  /\ \E l \in 1..(k - 1) : nodes[l] = up
          /\ layer[up] < layer[nodes[k]]

(* No node is registered twice, and none that is registered is on the      *)
(* stack: an index identifies a node for good.                             *)
RegisteredOnce ==
  /\ \A k, l \in 1..Len(nodes) : nodes[k] = nodes[l] => k = l
  /\ \A k \in 1..Len(stack) : ~ Seen(stack[k].node)

(* The stack holds each node at most once and in_progress is what is on    *)
(* it, so that membership is the test for a back edge.                     *)
StackInProgress ==
  /\ \A k, l \in 1..Len(stack) : stack[k].node = stack[l].node => k = l
  /\ in_progress = {stack[k].node : k \in 1..Len(stack)}

(* A frame has recorded the edges of the upstreams it has passed, all of   *)
(* them registered and on a lower layer than the frame's.                  *)
GoodFrame(f) ==
  /\ f.upstreams = UpstreamList(declared[f.node])
  /\ f.next \in 1..(Len(f.upstreams) + 1)
  /\ Len(f.edges) = f.next - 1
  /\ \A m \in 1..Len(f.edges) :
       /\ f.edges[m] = f.upstreams[m]
       /\ Seen(f.edges[m].node)
       /\ layer[f.edges[m].node] < f.layer

FrameInv == \A k \in 1..Len(stack) : GoodFrame(stack[k])

(* Each frame waits for the upstream that the frame above it wires. *)
StackIsPath ==
  \A k \in 1..(Len(stack) - 1) :
    /\ stack[k].next <= Len(stack[k].upstreams)
    /\ stack[k].upstreams[stack[k].next].node = stack[k + 1].node

(* A registered node has the edges it declared, in their order. *)
EdgesAsDeclared ==
  \A k \in 1..Len(nodes) : upstreams[nodes[k]] = UpstreamList(declared[nodes[k]])

(* n declares m as one of its upstreams. *)
Declares(n, m) ==
  \E k \in 1..Len(UpstreamList(declared[n])) : UpstreamList(declared[n])[k].node = m

(* A wiring error has a witness: the frames from some m up to the top are  *)
(* a closed walk over declared upstreams.  No acyclic graph is refused.    *)
ErrorHasCycle ==
  wiring_error =>
    \E m \in 1..Len(stack) :
      /\ \A k \in m..(Len(stack) - 1) : Declares(stack[k].node, stack[k + 1].node)
      /\ Declares(stack[Len(stack)].node, stack[m].node)

(* dirty_nodes_by_layer has a list for the layer of every node: mark_dirty *)
(* never indexes past its end.                                             *)
EveryLayerHasItsList ==
  Done /\ ~ wiring_error => \A k \in 1..Len(nodes) : layer[nodes[k]] < dirty_layers

(* The layers are in order, and mark_dirty has a list for each of them.    *)
LayersSound == LayerOrder /\ EveryLayerHasItsList

(* The phases follow each other; what the linking has seen and leaves. *)
PhaseInv ==
  /\ \A k \in 1..Len(nodes) : k < i => layer[nodes[k]] <= max_layer
  /\ Done /\ ~ wiring_error => i > Len(nodes) /\ dirty_layers = max_layer + 1
  /\ pc \in {"roots", "crawl"} => i = 1
  /\ wiring_error => Done

(* The inductive invariant of the crawl. *)
WiringInv ==
  /\ TypeOK
  /\ RegisteredOnce
  /\ StackInProgress
  /\ FrameInv
  /\ StackIsPath
  /\ EdgesAsDeclared
  /\ LayerOrder
  /\ ErrorHasCycle
  /\ PhaseInv
=============================================================================
