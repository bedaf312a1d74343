---------------------------- MODULE DynamicGraph ----------------------------
(***************************************************************************)
(* graph.rs, Graph::run from end to end, with the feature dynamic-graph:   *)
(* the calls of setup, start, stop and teardown on the nodes, and what     *)
(* cycle() does after the nodes have run: the removals and the additions   *)
(* they asked for, with the layers fixed in place.                         *)
(*                                                                         *)
(* Which nodes a cycle marks is GraphEngine's subject.  Here a cycle runs  *)
(* any nodes that are registered and active: callbacks and notifications   *)
(* of a removed node stay in the queues and still mark it.  A node stands  *)
(* for its index.  The lists of edges are sets: neither their order nor a  *)
(* repeated edge makes a difference to removal and layers, so the queue of *)
(* fix_layers, which is filled from them, is a set too.                    *)
(***************************************************************************)
EXTENDS Integers, Sequences, Functions

CONSTANTS
  Node,
  Declared,     \* Node::upstreams() as a list of edges, active ones first
  Initial,      \* the nodes GraphWiring has registered, in order
  InitialLayer, \* their layers
  InitialLists, \* dirty_nodes_by_layer.len() after initialise
  Adds,         \* the nodes each node passes to add_upstream
  Removes,      \* the nodes each node passes to remove_node
  Fails,        \* pairs <<call, node>>: the calls that may return an error
  MaxCycles,    \* bound on the engine cycles
  MaxRequests,  \* bound on the calls of add_upstream and remove_node
  MaxLayer,     \* bound on the layers fix_layers gives, for graphs with a cycle
  NoNode

Edge == [node : Node, active : BOOLEAN]
Call == {"setup", "start", "cycle", "stop", "teardown"}
PendingAddition == [node : Node, caller : Node, active : BOOLEAN, recycle : BOOLEAN]

Heads(es) == {es[x].node : x \in 1..Len(es)}

(* What GraphWiring establishes of the initial graph: it is closed under   *)
(* upstreams, and its layers are ordered and have their lists.             *)
ASSUME DynamicAssumption ==
  /\ Declared \in [Node -> Seq(Edge)]
  /\ Initial \in Seq(Node)
  /\ \A x, y \in 1..Len(Initial) : Initial[x] = Initial[y] => x = y
  /\ InitialLayer \in [Node -> Nat]
  /\ InitialLists \in Nat
  /\ \A n \in Range(Initial) :
       /\ InitialLayer[n] < InitialLists
       /\ \A m \in Heads(Declared[n]) :
            m \in Range(Initial) /\ InitialLayer[m] < InitialLayer[n]
  /\ Adds \in [Node -> SUBSET Node]
  /\ Removes \in [Node -> SUBSET Node]
  /\ Fails \subseteq Call \X Node
  /\ MaxCycles \in Nat
  /\ MaxRequests \in Nat
  /\ MaxLayer \in Nat
  /\ NoNode \notin Node

VARIABLES
  nodes,              \* state.nodes, in the order of registration
  layer,              \* NodeData::layer
  upstreams,          \* NodeData::upstreams
  downstreams,        \* NodeData::downstreams
  active,             \* the nodes with NodeData::active
  dirty_layers,       \* dirty_nodes_by_layer.len()
  pending_removals,   \* state.pending_removals
  pending_additions,  \* state.pending_additions
  additions,          \* the local additions of process_pending_additions
  start_index,        \* the local start_index: how many nodes were there before
  pos,                \* position of the loop at hand
  path,               \* the crawl of initialise_node: from the leaf to the top frame
  queue,              \* the queue of fix_layers
  walk, visited,      \* the stack and the visited set of the recycle walk
  recycled,           \* the nodes that got a recycle callback in this batch
  current,            \* state.current_node_index inside cycle()
  tried,              \* history: how often a call was made on a node
  ok,                 \* history: the calls that returned Ok
  errors,             \* the results of the phases of run() that are errors
  cycles, requests,
  pc

graph == <<nodes, layer, upstreams, downstreams, active, dirty_layers>>
pending == <<pending_removals, pending_additions, requests>>
batch == <<additions, start_index>>
crawl == <<path, queue, walk, visited, recycled>>
history == <<tried, ok>>
vars == <<graph, pending, batch, pos, crawl, current, history, errors, cycles, pc>>

Registered == Range(nodes)

(* The nodes of the batch: registered since start_index was taken. *)
NewNodes == {nodes[x] : x \in (start_index + 1)..Len(nodes)}

GraphType ==
  /\ nodes \in Seq(Node)
  /\ layer \in [Node -> Nat]
  /\ upstreams \in [Node -> SUBSET Edge]
  /\ downstreams \in [Node -> SUBSET Edge]
  /\ active \subseteq Node
  /\ dirty_layers \in Nat

RequestType ==
  /\ pending_removals \in Seq(Node)
  /\ pending_additions \in Seq(PendingAddition)
  /\ additions \in Seq(PendingAddition)
  /\ start_index \in Nat
  /\ pos \in Nat /\ pos >= 1
  /\ current \in Node \cup {NoNode}
  /\ cycles \in Nat
  /\ requests \in Nat

CrawlType ==
  /\ path \in Seq(Node)
  /\ queue \subseteq Node
  /\ walk \subseteq Node
  /\ visited \subseteq Node
  /\ recycled \subseteq Node

CallType ==
  /\ tried \in [Call -> [Node -> Nat]]
  /\ ok \subseteq Call \X Node
  /\ errors \subseteq {"setup", "start", "run", "stop", "teardown"}
  /\ pc \in {"setup", "start", "cycle", "node", "removals", "additions", "crawl", "link",
             "wire", "fix", "walk", "newsetup", "newstart", "stop", "teardown", "done"}

TypeOK == GraphType /\ RequestType /\ CrawlType /\ CallType

EdgeTo(n, act) == [node |-> n, active |-> act]
EdgesOf(n) == {Declared[n][x] : x \in 1..Len(Declared[n])}

Init ==
  /\ nodes = Initial
  /\ layer = InitialLayer
  /\ upstreams = [n \in Node |-> IF n \in Range(Initial) THEN EdgesOf(n) ELSE {}]
  /\ downstreams = [n \in Node |->
       {e \in Edge : e.node \in Range(Initial) /\ EdgeTo(n, e.active) \in EdgesOf(e.node)}]
  /\ active = Range(Initial)
  /\ dirty_layers = InitialLists
  /\ pending_removals = <<>> /\ pending_additions = <<>> /\ requests = 0
  /\ additions = <<>> /\ start_index = Len(Initial)
  /\ pos = 1
  /\ path = <<>> /\ queue = {} /\ walk = {} /\ visited = {} /\ recycled = {}
  /\ current = NoNode
  /\ tried = [c \in Call |-> [n \in Node |-> 0]]
  /\ ok = {}
  /\ errors = {}
  /\ cycles = 0
  /\ pc = "setup"

-----------------------------------------------------------------------------
(* A call on a node, and its result. *)
Try(c, n) == tried' = [tried EXCEPT ![c][n] = @ + 1]

Succeed(c, n) == Try(c, n) /\ ok' = ok \cup {<<c, n>>}

Err(c, n) == <<c, n>> \in Fails /\ Try(c, n) /\ UNCHANGED ok

(* An error of run_nodes: run() goes on to stop_nodes. *)
RunFails ==
  /\ errors' = errors \cup {"run"}
  /\ pc' = "stop"
  /\ pos' = 1

Phases == {"setup", "start", "stop", "teardown"}

(* A wrong form of Follows: the error of start returns at once, with `?'.  *)
FollowsStartReturns(phase, failed) ==
  CASE phase = "setup" -> IF failed THEN "done" ELSE "start"
    [] phase = "start" -> IF failed THEN "done" ELSE "cycle"
    [] phase = "stop" -> "teardown"
    [] phase = "teardown" -> "done"

(* run(): what follows a phase.  An error of setup returns at once, one of *)
(* start skips the run loop, one of stop does not keep teardown from being *)
(* tried; the errors that are left go to first_error.                      *)
Follows(phase, failed) ==
  CASE phase = "setup" -> IF failed THEN "done" ELSE "start"
    [] phase = "start" -> IF failed THEN "stop" ELSE "cycle"
    [] phase = "stop" -> "teardown"
    [] phase = "teardown" -> "done"

(* apply_nodes: the next node, unless it has been removed. *)
ApplyNode ==
  LET n == nodes[pos]
  IN  /\ pc \in Phases /\ pos <= Len(nodes)
      /\ IF n \in active THEN Succeed(pc, n) ELSE UNCHANGED history
      /\ pos' = pos + 1
      /\ UNCHANGED <<graph, pending, batch, crawl, current, errors, cycles, pc>>

(* apply_nodes returns the first error; the nodes after it are not called. *)
ApplyError ==
  LET n == nodes[pos]
  IN  /\ pc \in Phases /\ pos <= Len(nodes)
      /\ n \in active
      /\ Err(pc, n)
      /\ errors' = errors \cup {pc}
      /\ pc' = Follows(pc, TRUE)
      /\ pos' = 1
      /\ UNCHANGED <<graph, pending, batch, crawl, current, cycles>>

ApplyDone ==
  /\ pc \in Phases /\ pos > Len(nodes)
  /\ pc' = Follows(pc, FALSE)
  /\ pos' = 1
  /\ UNCHANGED <<graph, pending, batch, crawl, current, history, errors, cycles>>

-----------------------------------------------------------------------------
(* cycle_node: a node that is marked is run if it is active. *)
EnterNode(n) ==
  /\ pc = "cycle" /\ cycles < MaxCycles /\ n \in Registered
  /\ n \in active
  /\ current' = n
  /\ pc' = "node"
  /\ UNCHANGED <<graph, pending, batch, pos, crawl, history, errors, cycles>>

AddUpstream(n, act, recycle) ==
  /\ pc = "node" /\ requests < MaxRequests
  /\ pending_additions' = Append(pending_additions,
       [node |-> n, caller |-> current, active |-> act, recycle |-> recycle])
  /\ requests' = requests + 1
  /\ UNCHANGED <<graph, pending_removals, batch, pos, crawl, current, history, errors,
                 cycles, pc>>

RemoveNode(n) ==
  /\ pc = "node" /\ requests < MaxRequests
  /\ pending_removals' = Append(pending_removals, n)
  /\ requests' = requests + 1
  /\ UNCHANGED <<graph, pending_additions, batch, pos, crawl, current, history, errors,
                 cycles, pc>>

Return ==
  /\ pc = "node"
  /\ current' = NoNode
  /\ pc' = "cycle"
  /\ UNCHANGED <<graph, pending, batch, pos, crawl, history, errors, cycles>>

ReturnError ==
  /\ pc = "node" /\ <<"cycle", current>> \in Fails
  /\ current' = NoNode
  /\ RunFails
  /\ UNCHANGED <<graph, pending, batch, crawl, history, cycles>>

(* cycle(): the nodes have run, the marks are reset. *)
NodesDone ==
  /\ pc = "cycle" /\ cycles < MaxCycles
  /\ cycles' = cycles + 1
  /\ recycled' = {}
  /\ pos' = 1
  /\ pc' = "removals"
  /\ UNCHANGED <<graph, pending, batch, path, queue, walk, visited, current, history, errors>>

(* run_nodes: a bound of the run has been reached, between two cycles. *)
RunEnds ==
  /\ pc = "cycle"
  /\ pending_removals = <<>> /\ pending_additions = <<>>
  /\ pc' = "stop"
  /\ pos' = 1
  /\ UNCHANGED <<graph, pending, batch, crawl, current, history, errors, cycles>>

-----------------------------------------------------------------------------
(* process_pending_removals *)
Removal == pending_removals[pos]

SkipRemoval ==
  /\ pc = "removals" /\ pos <= Len(pending_removals)
  /\ Removal \notin Registered \/ Removal \notin active
  /\ pos' = pos + 1
  /\ UNCHANGED <<graph, pending, batch, crawl, current, history, errors, cycles, pc>>

(* A wrong form of Unlink, which leaves the downstream nodes alone. *)
UnlinkAbove(r) ==
  /\ downstreams' = [n \in Node |->
       IF \E e \in upstreams[r] : e.node = n
       THEN {e \in downstreams[n] : e.node # r} ELSE downstreams[n]]
  /\ upstreams' = upstreams

(* The node is taken out of the lists of its neighbours.  Its own lists    *)
(* stay as they are.                                                       *)
Unlink(r) ==
  /\ downstreams' = [n \in Node |->
       IF \E e \in upstreams[r] : e.node = n
       THEN {e \in downstreams[n] : e.node # r} ELSE downstreams[n]]
  /\ upstreams' = [n \in Node |->
       IF \E e \in downstreams[r] : e.node = n
       THEN {e \in upstreams[n] : e.node # r} ELSE upstreams[n]]

Remove ==
  /\ pc = "removals" /\ pos <= Len(pending_removals)
  /\ Removal \in Registered /\ Removal \in active
  /\ Unlink(Removal)
  /\ tried' = [tried EXCEPT !["stop"][Removal] = @ + 1, !["teardown"][Removal] = @ + 1]
  /\ ok' = ok \cup {<<"stop", Removal>>, <<"teardown", Removal>>}
  /\ active' = active \ {Removal}
  /\ pos' = pos + 1
  /\ UNCHANGED <<nodes, layer, dirty_layers, pending, batch, crawl, current, errors,
                 cycles, pc>>

(* stop() or teardown() of the removed node fails: the node is unlinked    *)
(* but still active, and the requests that were left are dropped.          *)
RemoveStopError ==
  /\ pc = "removals" /\ pos <= Len(pending_removals)
  /\ Removal \in Registered /\ Removal \in active
  /\ Unlink(Removal)
  /\ Err("stop", Removal)
  /\ pending_removals' = <<>>
  /\ RunFails
  /\ UNCHANGED <<nodes, layer, active, dirty_layers, pending_additions, requests, batch,
                 crawl, current, cycles>>

RemoveTeardownError ==
  /\ pc = "removals" /\ pos <= Len(pending_removals)
  /\ Removal \in Registered /\ Removal \in active
  /\ Unlink(Removal)
  /\ <<"teardown", Removal>> \in Fails
  /\ tried' = [tried EXCEPT !["stop"][Removal] = @ + 1, !["teardown"][Removal] = @ + 1]
  /\ ok' = ok \cup {<<"stop", Removal>>}
  /\ pending_removals' = <<>>
  /\ RunFails
  /\ UNCHANGED <<nodes, layer, active, dirty_layers, pending_additions, requests, batch,
                 crawl, current, cycles>>

RemovalsDone ==
  /\ pc = "removals" /\ pos > Len(pending_removals)
  /\ pending_removals' = <<>>
  /\ additions' = pending_additions
  /\ pending_additions' = <<>>
  /\ start_index' = Len(nodes)
  /\ pos' = 1
  /\ pc' = IF pending_additions = <<>> THEN "cycle" ELSE "additions"
  /\ UNCHANGED <<graph, requests, crawl, current, history, errors, cycles>>

-----------------------------------------------------------------------------
(* process_pending_additions, the first loop: initialise_node for the leaf *)
(* of every addition.  This is the crawl of GraphWiring in larger steps:   *)
(* the edges and the layer of a node are recorded when it is registered.   *)
CrawlSkip ==
  /\ pc = "additions" /\ pos <= Len(additions)
  /\ additions[pos].node \in Registered
  /\ pos' = pos + 1
  /\ UNCHANGED <<graph, pending, batch, crawl, current, history, errors, cycles, pc>>

CrawlStart ==
  /\ pc = "additions" /\ pos <= Len(additions)
  /\ additions[pos].node \notin Registered
  /\ path' = <<additions[pos].node>>
  /\ pc' = "crawl"
  /\ UNCHANGED <<graph, pending, batch, pos, queue, walk, visited, recycled, current, history,
                 errors, cycles>>

Top == path[Len(path)]

(* The crawl of node n meets its upstream x next: those before are done.   *)
Meets(n, x) ==
  /\ x \in 1..Len(Declared[n])
  /\ Declared[n][x].node \notin Registered
  /\ \A y \in 1..(x - 1) : Declared[n][y].node \in Registered

CrawlDescend ==
  /\ pc = "crawl" /\ path # <<>>
  /\ \E x \in 1..Len(Declared[Top]) :
       /\ Meets(Top, x)
       /\ Declared[Top][x].node \notin Range(path)
       /\ path' = Append(path, Declared[Top][x].node)
  /\ UNCHANGED <<graph, pending, batch, pos, queue, walk, visited, recycled, current, history,
                 errors, cycles, pc>>

(* A wrong form of CrawlCycle: the nodes in progress are not looked at and *)
(* the crawl goes round.  The path is cut back to where it met the node    *)
(* first, which keeps it short.                                            *)
CrawlCycleUnseen ==
  /\ pc = "crawl" /\ path # <<>>
  /\ \E x \in 1..Len(Declared[Top]), y \in 1..Len(path) :
       /\ Meets(Top, x)
       /\ Declared[Top][x].node = path[y]
       /\ path' = SubSeq(path, 1, y)
  /\ UNCHANGED <<graph, pending, batch, pos, queue, walk, visited, recycled, current, history,
                 errors, cycles, pc>>

(* The crawl finds the cycles of what the nodes declare.  The edge from    *)
(* the caller to the leaf is made later and is not looked at: a leaf that  *)
(* reads its caller closes a cycle that nobody reports.                    *)
CrawlCycle ==
  /\ pc = "crawl" /\ path # <<>>
  /\ \E x \in 1..Len(Declared[Top]) : Meets(Top, x) /\ Declared[Top][x].node \in Range(path)
  /\ path' = <<>>
  /\ RunFails
  /\ UNCHANGED <<graph, pending, batch, queue, walk, visited, recycled, current, history,
                 cycles>>

(* The layer that the upstreams ask for, as a set of one: one above the    *)
(* highest, 0 for a source.                                                *)
Required(es) ==
  IF es = {} THEN {0}
  ELSE {layer[e.node] + 1 : e \in {h \in es : \A f \in es : layer[f.node] <= layer[h.node]}}

CrawlRegister ==
  /\ pc = "crawl" /\ path # <<>>
  /\ \A x \in 1..Len(Declared[Top]) : Declared[Top][x].node \in Registered
  /\ nodes' = Append(nodes, Top)
  /\ \E required \in Required(EdgesOf(Top)) : layer' = [layer EXCEPT ![Top] = required]
  /\ upstreams' = [upstreams EXCEPT ![Top] = EdgesOf(Top)]
  /\ active' = active \cup {Top}
  /\ path' = SubSeq(path, 1, Len(path) - 1)
  /\ UNCHANGED <<downstreams, dirty_layers, pending, batch, pos, queue, walk, visited,
                 recycled, current, history, errors, cycles, pc>>

CrawlLeafDone ==
  /\ pc = "crawl" /\ path = <<>>
  /\ pos' = pos + 1
  /\ pc' = "additions"
  /\ UNCHANGED <<graph, pending, batch, crawl, current, history, errors, cycles>>

AdditionsCrawled ==
  /\ pc = "additions" /\ pos > Len(additions)
  /\ pos' = start_index + 1
  /\ pc' = "link"
  /\ UNCHANGED <<graph, pending, batch, crawl, current, history, errors, cycles>>

(* The upstreams of a new node learn of it. *)
LinkNew ==
  /\ pc = "link" /\ pos <= Len(nodes)
  /\ downstreams' = [n \in Node |-> downstreams[n] \cup
       {e \in Edge : e.node = nodes[pos] /\ EdgeTo(n, e.active) \in upstreams[nodes[pos]]}]
  /\ pos' = pos + 1
  /\ UNCHANGED <<nodes, layer, upstreams, active, dirty_layers, pending, batch, crawl,
                 current, history, errors, cycles, pc>>

LinkDone ==
  /\ pc = "link" /\ pos > Len(nodes)
  /\ pos' = 1
  /\ pc' = "wire"
  /\ UNCHANGED <<graph, pending, batch, crawl, current, history, errors, cycles>>

-----------------------------------------------------------------------------
(* The loop that wires the caller above each leaf.  The set wired_edges of *)
(* the code holds the pairs of the additions before this one.              *)
Wired(a) == \E x \in 1..(pos - 1) : /\ additions[x].caller = a.caller
                                    /\ additions[x].node = a.node

WireCaller ==
  LET a == additions[pos]
  IN  /\ pc = "wire" /\ pos <= Len(additions)
      /\ IF Wired(a) THEN UNCHANGED <<upstreams, downstreams>>
         ELSE /\ upstreams' = [upstreams EXCEPT ![a.caller] = @ \cup {EdgeTo(a.node, a.active)}]
              /\ downstreams' = [downstreams EXCEPT ![a.node] = @ \cup {EdgeTo(a.caller, a.active)}]
      /\ queue' = {a.caller}
      /\ pc' = "fix"
      /\ UNCHANGED <<nodes, layer, active, dirty_layers, pending, batch, pos, path, walk,
                     visited, recycled, current, history, errors, cycles>>

Larger(a, b) == IF a >= b THEN a ELSE b

(* A wrong form of FixLayer, which does not propagate. *)
FixLayerAlone(n) ==
  /\ pc = "fix" /\ n \in queue
  /\ \E required \in Required(upstreams[n]) :
      LET fixed == Larger(layer[n], required) IN
      /\ fixed <= MaxLayer
      /\ layer' = [layer EXCEPT ![n] = fixed]
      /\ queue' = queue \ {n}
      /\ dirty_layers' = Larger(dirty_layers, fixed + 1)
  /\ UNCHANGED <<nodes, upstreams, downstreams, active, pending, batch, pos, path, walk,
                 visited, recycled, current, history, errors, cycles, pc>>

(* fix_layers: a node of the queue is raised above its upstreams; if that  *)
(* changes its layer, its downstream nodes are looked at again.  On a      *)
(* cycle this goes on until the memory for the lists is used up.           *)
FixLayer(n) ==
  /\ pc = "fix" /\ n \in queue
  /\ \E required \in Required(upstreams[n]) :
      LET fixed == Larger(layer[n], required) IN
      /\ fixed <= MaxLayer
      /\ layer' = [layer EXCEPT ![n] = fixed]
      /\ queue' = (queue \ {n}) \cup
                  (IF fixed > layer[n] THEN {e.node : e \in downstreams[n]} ELSE {})
      /\ dirty_layers' = Larger(dirty_layers, fixed + 1)
  /\ UNCHANGED <<nodes, upstreams, downstreams, active, pending, batch, pos, path, walk,
                 visited, recycled, current, history, errors, cycles, pc>>

(* fix_layers is done; a recycle starts its walk at the leaf. *)
FixDone ==
  LET a == additions[pos]
  IN  /\ pc = "fix" /\ queue = {}
      /\ walk' = IF a.recycle THEN {a.node} ELSE {}
      /\ visited' = {}
      /\ pc' = "walk"
      /\ UNCHANGED <<graph, pending, batch, pos, path, queue, recycled, current, history,
                     errors, cycles>>

Above(n) == {e.node : e \in upstreams[n]}

(* A new node that hangs on the graph as it was, or on nothing.            *)
Attached(n) == Above(n) = {} \/ ~ (Above(n) \subseteq NewNodes)

(* The recycle walk upwards through the new nodes: the attachment points   *)
(* get a callback one nanosecond on.                                       *)
Walk(n) ==
  /\ pc = "walk" /\ n \in walk
  /\ visited' = visited \cup {n}
  /\ recycled' = IF Attached(n) THEN recycled \cup {n} ELSE recycled
  /\ walk' = (walk \cup (Above(n) \cap NewNodes)) \ visited'
  /\ UNCHANGED <<graph, pending, batch, pos, path, queue, current, history, errors, cycles, pc>>

WalkDone ==
  /\ pc = "walk" /\ walk = {}
  /\ pos' = pos + 1
  /\ pc' = "wire"
  /\ UNCHANGED <<graph, pending, batch, crawl, current, history, errors, cycles>>

WireDone ==
  /\ pc = "wire" /\ pos > Len(additions)
  /\ pos' = start_index + 1
  /\ pc' = "newsetup"
  /\ UNCHANGED <<graph, pending, batch, crawl, current, history, errors, cycles>>

-----------------------------------------------------------------------------
(* The last two loops: all new nodes are set up, then all are started. *)
NewCall == IF pc = "newsetup" THEN "setup" ELSE "start"

CallNew ==
  /\ pc \in {"newsetup", "newstart"} /\ pos <= Len(nodes)
  /\ Succeed(NewCall, nodes[pos])
  /\ pos' = pos + 1
  /\ UNCHANGED <<graph, pending, batch, crawl, current, errors, cycles, pc>>

CallNewError ==
  /\ pc \in {"newsetup", "newstart"} /\ pos <= Len(nodes)
  /\ Err(NewCall, nodes[pos])
  /\ RunFails
  /\ UNCHANGED <<graph, pending, batch, crawl, current, cycles>>

CallNewDone ==
  /\ pc \in {"newsetup", "newstart"} /\ pos > Len(nodes)
  /\ pos' = start_index + 1
  /\ pc' = IF pc = "newsetup" THEN "newstart" ELSE "cycle"
  /\ UNCHANGED <<graph, pending, batch, crawl, current, history, errors, cycles>>

-----------------------------------------------------------------------------
Lifecycle == ApplyNode \/ ApplyError \/ ApplyDone

Cycle ==
  \/ \E n \in Node : EnterNode(n)
  \/ current # NoNode /\ \E n \in Adds[current], act, recycle \in BOOLEAN :
       AddUpstream(n, act, recycle)
  \/ current # NoNode /\ \E n \in Removes[current] : RemoveNode(n)
  \/ Return \/ ReturnError \/ NodesDone \/ RunEnds

Removals == \/ SkipRemoval \/ Remove \/ RemoveStopError \/ RemoveTeardownError
            \/ RemovalsDone

Additions ==
  \/ CrawlSkip \/ CrawlStart \/ CrawlDescend \/ CrawlCycle \/ CrawlRegister
  \/ CrawlLeafDone \/ AdditionsCrawled \/ LinkNew \/ LinkDone
  \/ WireCaller \/ FixDone \/ WalkDone \/ WireDone
  \/ \E n \in Node : FixLayer(n) \/ Walk(n)
  \/ CallNew \/ CallNewError \/ CallNewDone

(* The engine thread goes through the batch without waiting for anything.  *)
Batch == Removals \/ Additions

Next == Lifecycle \/ Cycle \/ Batch

Spec == Init /\ [][Next]_vars /\ WF_vars(Batch)

-----------------------------------------------------------------------------
(* Between batches every active node is above each of its upstreams,       *)
(* whatever was added below, above or beside it: the next cycle still runs *)
(* no node before what it reads.                                           *)
LayersOrdered ==
  pc = "cycle" => \A n \in active : \A e \in upstreams[n] : layer[e.node] < layer[n]

(* Between batches every registered node's layer has its list: mark_dirty  *)
(* indexes dirty_nodes_by_layer with it unchecked.                         *)
ListsCoverLayers == pc = "cycle" => \A n \in Registered : layer[n] < dirty_layers

(* Between batches two active nodes agree on the edge between them: a tick *)
(* reaches exactly the nodes that read it, and none that has let it go.    *)
LinksAgree ==
  pc = "cycle" =>
    \A n, m \in active, act \in BOOLEAN :
      EdgeTo(n, act) \in upstreams[m] <=> EdgeTo(m, act) \in downstreams[n]

(* A removal leaves no trace of the node in the lists of any active node,  *)
(* although it looks for the neighbours in the node's own lists only.      *)
RemovalDetaches ==
  [][\A r \in active \ active', m \in active', act \in BOOLEAN :
       EdgeTo(r, act) \notin upstreams'[m] /\ EdgeTo(r, act) \notin downstreams'[m]]_vars

(* cycle() is called only on a node that has been set up and started and   *)
(* on which stop() has not been called: removed nodes still have callbacks *)
(* in the queue, and new nodes are marked before they are started.         *)
RunsStarted ==
  current # NoNode =>
    /\ <<"setup", current>> \in ok
    /\ <<"start", current>> \in ok
    /\ tried["stop"][current] = 0

(* After every batch the graph is as good as a newly wired one, and only   *)
(* nodes that were started run.                                            *)
GraphSound == LayersOrdered /\ LinksAgree /\ RunsStarted

(* A callback was asked for n, or for a node it reads, directly or through *)
(* others: every set that holds n and what its members read has one.       *)
UpwardClosed(set) == \A n \in set : Above(n) \subseteq set

CalledBack(n) ==
  \A set \in SUBSET Node : n \in set /\ UpwardClosed(set) => recycled \cap set # {}

(* When the walks of the recycled additions are done, a callback has been  *)
(* asked for a node from which the leaf is reached.                        *)
RecycleReaches ==
  pc = "newsetup" =>
    \A x \in 1..Len(additions) : additions[x].recycle => CalledBack(additions[x].node)

Done == pc = "done"

(* When run() returns, whatever failed in setup of a dynamic node, start   *)
(* or cycle(), each node that has been started has been stopped and each   *)
(* that has been set up has been torn down, as long as stop and teardown   *)
(* themselves do not fail and the setup of the graph did not.              *)
Released ==
  Done /\ errors \cap {"setup", "stop", "teardown"} = {} =>
    \A n \in Node :
      /\ <<"start", n>> \in ok => <<"stop", n>> \in ok
      /\ <<"setup", n>> \in ok => <<"teardown", n>> \in ok

(* stop() and teardown() are called at most once on a node, by its removal *)
(* or by the end of the run, unless one of the two fails on that node.     *)
StoppedOnce ==
  \A n \in Node : {<<"stop", n>>, <<"teardown", n>>} \cap Fails = {} =>
    tried["stop"][n] <= 1 /\ tried["teardown"][n] <= 1

(* The batches and the shutdown leave every node as it should be: its      *)
(* layer has a list, a recycled addition is called back, and the node is   *)
(* stopped and released, once.                                             *)
LifecycleSound == ListsCoverLayers /\ RecycleReaches /\ StoppedOnce /\ Released

(* Some nodes each read one of the others, or themselves. *)
Cyclic == \E set \in SUBSET Registered : set # {} /\ \A n \in set : Above(n) \cap set # {}

(* The batch ends: the crawl, the fixing of layers and the walk stop, in a *)
(* cycle that the new nodes declare among themselves as well.  The one     *)
(* exception is a leaf that reads its own caller: fix_layers raises the    *)
(* nodes of that cycle in turns and never returns (CyclesRefused).         *)
BatchEnds == pc = "removals" ~> pc \in {"cycle", "stop"} \/ (pc = "fix" /\ Cyclic)

(* "a cycle in a dynamically-added subgraph propagates as an error"        *)
(* (process_pending_additions): no batch wires nodes into a cycle.  The    *)
(* code does, through the edge from the caller to the leaf.                *)
CyclesRefused == pc = "fix" => ~ Cyclic
-----------------------------------------------------------------------------
(* The inductive invariant behind LayersOrdered, LinksAgree, RunsStarted   *)
(* and RemovalDetaches.                                                    *)
Running == pc \notin {"stop", "teardown", "done"}

(* What lists mention is registered. *)
ListsRegistered ==
  /\ active \subseteq Registered
  /\ \A n \in Node :
       /\ \A e \in upstreams[n] \cup downstreams[n] : e.node \in Registered
       /\ n \notin Registered => upstreams[n] = {} /\ downstreams[n] = {}

(* The requests: callers are nodes of the graph, the leaves crawled so far *)
(* are registered, and the crawl at hand is a path of new nodes.           *)
RequestsInv ==
  /\ \A x \in 1..Len(pending_additions) : pending_additions[x].caller \in Registered
  /\ \A x \in 1..Len(additions) : additions[x].caller \in Registered
  /\ pc \in {"additions", "crawl"} =>
       \A x \in 1..Len(additions) : x < pos => additions[x].node \in Registered
  /\ pc \in {"link", "wire", "fix", "walk"} =>
       \A x \in 1..Len(additions) : additions[x].node \in Registered
  /\ pc \in {"crawl", "fix", "walk"} => pos <= Len(additions)
  /\ start_index <= Len(nodes)
  /\ pc = "node" => current \in active
  /\ pc # "node" => current = NoNode

PathInv ==
  pc = "crawl" =>
    /\ path = <<>> => additions[pos].node \in Registered
    /\ path # <<>> => path[1] = additions[pos].node
    /\ \A x \in 1..Len(path) :
         /\ path[x] \notin Registered
         /\ \A y \in 1..Len(path) : path[x] = path[y] => x = y

(* The new nodes that no upstream knows of yet. *)
Unlinked ==
  IF pc \in {"additions", "crawl"} THEN NewNodes
  ELSE IF pc = "link" THEN {nodes[x] : x \in pos..Len(nodes)}
  ELSE {}

MirrorInv ==
  Running =>
    \A n \in Node, m \in active, act \in BOOLEAN :
      /\ EdgeTo(n, act) \in upstreams[m] /\ m \notin Unlinked =>
           EdgeTo(m, act) \in downstreams[n]
      /\ n \in active /\ EdgeTo(m, act) \in downstreams[n] => EdgeTo(n, act) \in upstreams[m]

LayerInv ==
  Running => \A n \in active : \A e \in upstreams[n] :
    layer[e.node] < layer[n] \/ (pc = "fix" /\ n \in queue)

StopInv ==
  Running => \A n \in Node : tried["stop"][n] = 0 \/ (n \in Registered /\ n \notin active)

(* Positions in nodes tell how far setup and start have come. *)
Old(x) == x <= start_index /\ pc \notin {"setup", "start"}
Settled == pc \in {"cycle", "node", "removals"}
SetupDue(x) == Old(x) \/ Settled \/ pc \in {"start", "newstart"}
                 \/ (pc \in {"setup", "newsetup"} /\ x < pos)
StartDue(x) == Old(x) \/ Settled \/ (pc \in {"start", "newstart"} /\ x < pos)

StartedInv ==
  /\ pc \in {"setup", "start"} => active = Registered
  /\ Running => \A x \in 1..Len(nodes) :
       /\ SetupDue(x) => <<"setup", nodes[x]>> \in ok
       /\ StartDue(x) => <<"start", nodes[x]>> \in ok

DynamicInv ==
  /\ TypeOK /\ ListsRegistered /\ RequestsInv /\ PathInv /\ MirrorInv /\ LayerInv
  /\ StopInv /\ StartedInv

-----------------------------------------------------------------------------
(* The strengthening behind LifecycleSound. *)
DistinctInv == \A x, y \in 1..Len(nodes) : nodes[x] = nodes[y] => x = y

Covered(n) == layer[n] < dirty_layers
Leaf(x) == additions[x].node

(* A node without a list for its layer is not above the leaf of an         *)
(* addition whose caller is still to be wired, or, during the crawl, not   *)
(* above an upstream of a node on the path.                                *)
BelowLeaf(n, x) == layer[n] <= layer[Leaf(x)]
BelowPath(n) ==
  \E y \in 1..Len(path) : \E m \in Heads(Declared[path[y]]) :
    m \in Registered /\ layer[n] <= layer[m]

CoverInv ==
  \A n \in Registered :
    \/ Covered(n)
    \/ ~Running
    \/ /\ pc \in {"additions", "crawl"}
       /\ \E x \in 1..Len(additions) : x < pos /\ BelowLeaf(n, x)
    \/ pc = "crawl" /\ (IF path = <<>> THEN BelowLeaf(n, pos) ELSE BelowPath(n))
    \/ pc = "link" /\ \E x \in 1..Len(additions) : BelowLeaf(n, x)
    \/ pc \in {"wire", "fix"} /\ \E x \in 1..Len(additions) : x >= pos /\ BelowLeaf(n, x)
    \/ pc = "walk" /\ \E x \in 1..Len(additions) : x > pos /\ BelowLeaf(n, x)

(* The leaves that have been wired have their lists, the one at hand once  *)
(* its caller has been fixed.  The path follows upstreams.                 *)
LeafInv ==
  /\ pc \in {"wire", "fix", "walk"} => \A x \in 1..Len(additions) : x < pos => Covered(Leaf(x))
  /\ pc = "walk" => Covered(Leaf(pos))
  /\ pc = "fix" => \/ Covered(Leaf(pos))
                   \/ additions[pos].caller \in queue /\ Leaf(pos) \in Above(additions[pos].caller)
  /\ pc = "crawl" => \A y \in 2..Len(path) : path[y] \in Heads(Declared[path[y - 1]])

(* The walk has seen nodes that lie above the leaf, and will see all of    *)
(* those that are reached through new nodes.                               *)
WalkInv ==
  /\ pc \in {"additions", "crawl", "link", "wire", "fix", "walk"} => NewNodes \subseteq active
  /\ pc = "walk" =>
       /\ additions[pos].recycle => Leaf(pos) \in walk \cup visited
       /\ walk \cup visited \subseteq {Leaf(pos)} \cup NewNodes
       /\ \A n \in visited : /\ Attached(n) => n \in recycled
                             /\ Above(n) \cap NewNodes \subseteq walk \cup visited
       /\ \A set \in SUBSET Node :
            Leaf(pos) \in set /\ UpwardClosed(set) => walk \cup visited \subseteq set

RecycleInv ==
  /\ pc \in {"wire", "fix", "walk"} =>
       \A x \in 1..Len(additions) : x < pos /\ additions[x].recycle => CalledBack(Leaf(x))
  /\ RecycleReaches

(* stop and teardown are still to come for every active node whose turn it *)
(* has not been.                                                           *)
Unfailing(n) == {<<"stop", n>>, <<"teardown", n>>} \cap Fails = {}
Waiting(call, x) ==
  \/ Running
  \/ pc = "stop" /\ (call = "teardown" \/ x >= pos)
  \/ pc = "teardown" /\ call = "teardown" /\ x >= pos

OnceInv ==
  \A n \in Node, call \in {"stop", "teardown"} : Unfailing(n) =>
    /\ tried[call][n] <= 1
    /\ n \notin Registered => tried[call][n] = 0
    /\ n \in active => \A x \in 1..Len(nodes) :
                        nodes[x] = n /\ Waiting(call, x) => tried[call][n] = 0

(* Whoever is set up or started is registered; a removed node has been     *)
(* stopped and torn down, and so have the nodes the end of the run has     *)
(* come to.                                                                *)
ReleaseInv ==
  /\ \A n \in Node : <<"setup", n>> \in ok \/ <<"start", n>> \in ok => n \in Registered
  /\ \A n \in Registered : n \notin active => {<<"stop", n>>, <<"teardown", n>>} \subseteq ok
  /\ pc = "stop" => \A x \in 1..Len(nodes) : x < pos => <<"stop", nodes[x]>> \in ok
  /\ pc \in {"teardown", "done"} /\ errors \cap {"setup", "stop"} = {} =>
       \A n \in Registered : <<"stop", n>> \in ok
  /\ pc = "teardown" => \A x \in 1..Len(nodes) : x < pos => <<"teardown", nodes[x]>> \in ok
  /\ pc = "done" /\ errors \cap {"setup", "teardown"} = {} =>
       \A n \in Registered : <<"teardown", n>> \in ok

LifecycleInv ==
  /\ DynamicInv /\ DistinctInv /\ CoverInv /\ LeafInv /\ WalkInv /\ RecycleInv
  /\ OnceInv /\ ReleaseInv
=============================================================================
