------------------------- MODULE GraphWiringProofs --------------------------
(***************************************************************************)
(* Every graph Graph::new accepts is layered, whatever the number of nodes *)
(* and edges, and every graph it refuses has a cycle.                      *)
(***************************************************************************)
EXTENDS GraphWiring, SequenceTheorems, TLAPS

LEMMA EdgesType ==
  ASSUME NEW ns \in Seq(Node), NEW act \in BOOLEAN
  PROVE  Edges(ns, act) \in Seq(Edge) /\ Len(Edges(ns, act)) = Len(ns)
<1>1. \A m \in 1..Len(ns) : [node |-> ns[m], active |-> act] \in Edge
  BY DEF Edge
<1>2. Len(ns) \in Nat
  OBVIOUS
<1> QED BY <1>1, <1>2, IsASeq DEF Edges

LEMMA NewFrameType ==
  ASSUME TypeOK, NEW n \in Node
  PROVE  /\ NewFrame(n) \in Frame
         /\ NewFrame(n).node = n
         /\ NewFrame(n).upstreams = UpstreamList(declared[n])
         /\ NewFrame(n).next = 1
         /\ NewFrame(n).layer = 0
         /\ NewFrame(n).edges = <<>>
<1>1. declared[n].active \in Seq(Node) /\ declared[n].passive \in Seq(Node)
  BY DEF TypeOK, UpStreams
<1>2. /\ Edges(declared[n].active, TRUE) \in Seq(Edge)
      /\ Edges(declared[n].passive, FALSE) \in Seq(Edge)
  BY <1>1, EdgesType
<1>3. UpstreamList(declared[n]) \in Seq(Edge)
  BY <1>2, ConcatProperties DEF UpstreamList
<1>4. <<>> \in Seq(Edge)
  OBVIOUS
<1> QED BY <1>3, <1>4 DEF NewFrame, Frame

(* Facts about the top of the stack and the upstream it looks at. *)
LEMMA TopType ==
  ASSUME TypeOK, stack # <<>>
  PROVE  /\ Len(stack) \in Nat \ {0}
         /\ Top \in Frame
         /\ Top.node \in Node
         /\ Top.upstreams \in Seq(Edge)
         /\ Top.edges \in Seq(Edge)
         /\ Top.layer \in Nat
         /\ Top.next \in Nat
<1>1. Len(stack) \in Nat \ {0}
  BY DEF TypeOK
<1>2. Top \in Frame
  BY <1>1, ElementOfSeq DEF TypeOK, Top
<1> QED BY <1>1, <1>2 DEF Frame

LEMMA UpstreamType ==
  ASSUME TypeOK, FrameInv, stack # <<>>, UpstreamLeft
  PROVE  /\ Upstream \in Edge
         /\ Upstream.node \in Node
         /\ Top.next \in 1..Len(Top.upstreams)
<1>1. Top.next \in 1..Len(Top.upstreams)
  BY TopType DEF FrameInv, GoodFrame, Top, UpstreamLeft
<1>2. Upstream \in Edge
  BY <1>1, TopType, ElementOfSeq DEF Upstream
<1> QED BY <1>1, <1>2 DEF Edge

(* What the steps that leave the stack and the graph alone preserve. *)
LEMMA QuietStep ==
  ASSUME WiringInv, UNCHANGED <<input, stack, in_progress, graph, wiring_error>>
  PROVE  /\ RegisteredOnce' /\ StackInProgress' /\ FrameInv' /\ StackIsPath'
         /\ EdgesAsDeclared' /\ LayerOrder' /\ ErrorHasCycle'
<1>1. /\ declared' = declared /\ stack' = stack /\ in_progress' = in_progress
      /\ nodes' = nodes /\ layer' = layer /\ upstreams' = upstreams
      /\ wiring_error' = wiring_error
  BY DEF input, graph
<1>2. RegisteredOnce' /\ StackInProgress' /\ StackIsPath' /\ LayerOrder'
  BY <1>1 DEF WiringInv, RegisteredOnce, StackInProgress, StackIsPath, LayerOrder, Seen
<1>3. FrameInv'
  BY <1>1 DEF WiringInv, FrameInv, GoodFrame, Seen
<1>4. EdgesAsDeclared'
  BY <1>1 DEF WiringInv, EdgesAsDeclared
<1>5. ErrorHasCycle'
  <2>1. ErrorHasCycle
    BY DEF WiringInv
  <2> QED BY <1>1, <2>1 DEF ErrorHasCycle, Declares
<1> QED BY <1>2, <1>3, <1>4, <1>5

(* PhaseInv only looks at what the crawl does not touch, and at registered  *)
(* nodes, of which none has been linked while the crawl runs.              *)
LEMMA CrawlPhaseInv ==
  ASSUME WiringInv, pc \in {"roots", "crawl"}, pc' \in {"roots", "crawl"},
         UNCHANGED <<linking, wiring_error>>
  PROVE  PhaseInv'
<1>1. i = 1 /\ i' = 1 /\ ~ Done' /\ ~ wiring_error'
  BY DEF WiringInv, PhaseInv, linking, Done
<1> QED BY <1>1 DEF PhaseInv

LEMMA SkipRootInv == WiringInv /\ SkipRoot => WiringInv'
<1> SUFFICES ASSUME WiringInv, SkipRoot PROVE WiringInv'
  OBVIOUS
<1>1. TypeOK'
  BY DEF WiringInv, TypeOK, SkipRoot, input, graph, linking
<1>2. PhaseInv'
  BY CrawlPhaseInv DEF SkipRoot
<1> QED BY <1>1, <1>2, QuietStep DEF SkipRoot, WiringInv

LEMMA RootDoneInv == WiringInv /\ RootDone => WiringInv'
<1> SUFFICES ASSUME WiringInv, RootDone PROVE WiringInv'
  OBVIOUS
<1>1. TypeOK'
  BY DEF WiringInv, TypeOK, RootDone, input, graph, linking
<1>2. PhaseInv'
  BY CrawlPhaseInv DEF RootDone
<1> QED BY <1>1, <1>2, QuietStep DEF RootDone, WiringInv

LEMMA RootsDoneInv == WiringInv /\ RootsDone => WiringInv'
<1> SUFFICES ASSUME WiringInv, RootsDone PROVE WiringInv'
  OBVIOUS
<1>1. TypeOK'
  BY DEF WiringInv, TypeOK, RootsDone, input, graph, linking
<1>2. PhaseInv'
  BY DEF WiringInv, PhaseInv, RootsDone, graph, linking, Done
<1> QED BY <1>1, <1>2, QuietStep DEF RootsDone, WiringInv

LEMMA LinkEdgeInv == WiringInv /\ LinkEdge => WiringInv'
<1> SUFFICES ASSUME WiringInv, LinkEdge PROVE WiringInv'
  OBVIOUS
<1> DEFINE edge == upstreams[nodes[i]][j]
           down == [node |-> nodes[i], active |-> edge.active]
<1>1. i \in 1..Len(nodes) /\ nodes[i] \in Node
  BY ElementOfSeq DEF LinkEdge, WiringInv, TypeOK
<1>2. edge \in Edge
  <2>1. upstreams[nodes[i]] \in Seq(Edge)
    BY <1>1 DEF WiringInv, TypeOK
  <2>2. j \in 1..Len(upstreams[nodes[i]])
    BY <2>1 DEF LinkEdge, WiringInv, TypeOK
  <2> QED BY <2>1, <2>2, ElementOfSeq
<1>3. edge.node \in Node /\ down \in Edge
  BY <1>1, <1>2 DEF Edge
<1>4. downstreams' \in [Node -> Seq(Edge)]
  <2>1. downstreams' = [downstreams EXCEPT ![edge.node] = Append(@, down)]
    BY DEF LinkEdge
  <2>2. Append(downstreams[edge.node], down) \in Seq(Edge)
    BY <1>3, AppendProperties DEF WiringInv, TypeOK
  <2> HIDE DEF edge, down
  <2> QED BY <2>1, <2>2, <1>3 DEF WiringInv, TypeOK
<1>5. TypeOK'
  <2>1. j' = j + 1 /\ UNCHANGED <<input, next_root, stack, in_progress, graph, i,
                                  max_layer, dirty_layers, wiring_error, pc>>
    BY DEF LinkEdge
  <2> HIDE DEF edge, down
  <2> QED BY <1>4, <2>1 DEF WiringInv, TypeOK, input, graph
<1>6. PhaseInv'
  BY DEF WiringInv, PhaseInv, LinkEdge, graph, Done
<1> QED BY <1>5, <1>6, QuietStep DEF LinkEdge, WiringInv

LEMMA LinkNodeInv == WiringInv /\ LinkNode => WiringInv'
<1> SUFFICES ASSUME WiringInv, LinkNode PROVE WiringInv'
  OBVIOUS
<1>1. i \in 1..Len(nodes) /\ nodes[i] \in Node /\ layer[nodes[i]] \in Nat
  BY ElementOfSeq DEF LinkNode, WiringInv, TypeOK
<1>2. TypeOK'
  <2>1. max_layer' \in Int
    BY <1>1 DEF WiringInv, TypeOK, LinkNode, Larger
  <2>2. i' \in Nat \ {0} /\ j' \in Nat \ {0}
    BY DEF WiringInv, TypeOK, LinkNode
  <2>3. UNCHANGED <<input, next_root, stack, in_progress, graph, downstreams,
                    dirty_layers, wiring_error, pc>>
    BY DEF LinkNode
  <2> QED BY <2>1, <2>2, <2>3 DEF WiringInv, TypeOK, input, graph
<1>3. PhaseInv'
  <2>1. ASSUME NEW k \in 1..Len(nodes), k < i + 1 PROVE layer[nodes[k]] <= max_layer'
    <3>1. layer[nodes[k]] \in Nat /\ max_layer \in Int /\ i \in Nat
      BY ElementOfSeq DEF WiringInv, TypeOK
    <3>2. CASE k < i
      BY <3>1, <3>2, <1>1 DEF WiringInv, PhaseInv, LinkNode, Larger
    <3>3. CASE k = i
      BY <3>1, <3>3, <1>1 DEF LinkNode, Larger
    <3> QED BY <2>1, <3>1, <3>2, <3>3
  <2> QED BY <2>1 DEF WiringInv, LinkNode, PhaseInv, Done, graph
<1> QED BY <1>2, <1>3, QuietStep DEF LinkNode, WiringInv

LEMMA LinkDoneInv == WiringInv /\ LinkDone => WiringInv'
<1> SUFFICES ASSUME WiringInv, LinkDone PROVE WiringInv'
  OBVIOUS
<1>1. TypeOK'
  BY DEF WiringInv, TypeOK, LinkDone, input, graph
<1>2. PhaseInv'
  BY DEF WiringInv, PhaseInv, LinkDone, graph, Done
<1> QED BY <1>1, <1>2, QuietStep DEF LinkDone, WiringInv

LEMMA StutterInv == WiringInv /\ UNCHANGED vars => WiringInv'
<1> SUFFICES ASSUME WiringInv, UNCHANGED vars PROVE WiringInv'
  OBVIOUS
<1>1. TypeOK'
  BY DEF WiringInv, TypeOK, vars, input, graph, linking
<1>2. PhaseInv'
  BY DEF WiringInv, PhaseInv, vars, graph, linking, Done
<1> QED BY <1>1, <1>2, QuietStep DEF vars, WiringInv

-----------------------------------------------------------------------------
(* The steps of the crawl. *)

LEMMA StartRootInv == WiringInv /\ StartRoot => WiringInv'
<1> SUFFICES ASSUME WiringInv, StartRoot PROVE WiringInv'
  OBVIOUS
<1> DEFINE r == roots[next_root]
           f == NewFrame(r)
<1>0. TypeOK
  BY DEF WiringInv
<1>1. r \in Node
  BY <1>0, ElementOfSeq DEF StartRoot, TypeOK
<1>2. /\ f \in Frame /\ f.node = r /\ f.next = 1 /\ f.layer = 0 /\ f.edges = <<>>
      /\ f.upstreams = UpstreamList(declared[r])
  BY <1>0, <1>1, NewFrameType
<1>3. /\ stack' = <<f>> /\ in_progress' = {r} /\ ~ Seen(r) /\ pc' = "crawl" /\ pc = "roots"
      /\ declared' = declared /\ roots' = roots /\ next_root' = next_root
      /\ nodes' = nodes /\ layer' = layer /\ upstreams' = upstreams
      /\ UNCHANGED <<linking, wiring_error>>
  BY DEF StartRoot, input, graph
<1> HIDE DEF f, r
<1>4. stack' \in Seq(Frame) /\ Len(stack') = 1 /\ stack'[1] = f
  BY <1>2, <1>3
<1>5. TypeOK'
  BY <1>0, <1>1, <1>3, <1>4 DEF TypeOK, linking
<1>6. RegisteredOnce'
  BY <1>2, <1>3, <1>4 DEF WiringInv, RegisteredOnce, Seen
<1>7. StackInProgress'
  BY <1>2, <1>3, <1>4 DEF StackInProgress
<1>8. FrameInv'
  <2>1. f.upstreams \in Seq(Edge) /\ Len(f.upstreams) \in Nat /\ Len(f.edges) = 0
    BY <1>2 DEF Frame
  <2> QED BY <1>2, <1>3, <1>4, <2>1 DEF FrameInv, GoodFrame
<1>9. StackIsPath'
  BY <1>4 DEF StackIsPath
<1>10. EdgesAsDeclared' /\ LayerOrder'
  BY <1>3 DEF WiringInv, EdgesAsDeclared, LayerOrder
<1>11. PhaseInv'
  BY <1>3, CrawlPhaseInv
<1>12. ErrorHasCycle'
  BY <1>3 DEF ErrorHasCycle, WiringInv, PhaseInv, Done
<1> QED BY <1>5, <1>6, <1>7, <1>8, <1>9, <1>10, <1>11, <1>12 DEF WiringInv

LEMMA RecordEdgeInv == WiringInv /\ RecordEdge => WiringInv'
<1> SUFFICES ASSUME WiringInv, RecordEdge PROVE WiringInv'
  OBVIOUS
<1> DEFINE top == Len(stack)
           f == stack[top]
           up == f.upstreams[f.next]
           g == WithEdge(f, up)
<1>0. TypeOK /\ FrameInv
  BY DEF WiringInv
<1>1. /\ top \in Nat \ {0} /\ f \in Frame /\ up \in Edge /\ up.node \in Node
      /\ f.next \in 1..Len(f.upstreams) /\ f.edges \in Seq(Edge)
      /\ f.layer \in Nat /\ f.upstreams \in Seq(Edge)
  BY <1>0, TopType, UpstreamType DEF RecordEdge, Top, Upstream
<1>2. /\ stack' = [stack EXCEPT ![top] = g] /\ Seen(up.node)
      /\ in_progress' = in_progress /\ pc' = "crawl" /\ pc = "crawl"
      /\ declared' = declared /\ roots' = roots /\ next_root' = next_root
      /\ nodes' = nodes /\ layer' = layer /\ upstreams' = upstreams
      /\ UNCHANGED <<linking, wiring_error>>
  BY DEF RecordEdge, Top, Upstream, input, graph
<1>20. GoodFrame(f)
  BY <1>0, <1>1 DEF FrameInv
<1> HIDE DEF up, f
<1>3. layer[up.node] \in Nat
  BY <1>0, <1>1 DEF TypeOK
<1>4. Append(f.edges, up) \in Seq(Edge) /\ Len(Append(f.edges, up)) = Len(f.edges) + 1
  BY <1>1, AppendProperties
<1>5. /\ g \in Frame /\ g.node = f.node /\ g.upstreams = f.upstreams
      /\ g.next = f.next + 1 /\ g.edges = Append(f.edges, up)
      /\ g.layer = Larger(f.layer, layer[up.node] + 1)
  <2>1. Larger(f.layer, layer[up.node] + 1) \in Nat /\ f.next + 1 \in Nat
    BY <1>1, <1>3 DEF Larger
  <2>2. f \in [node : Node, upstreams : Seq(Edge), next : Nat, layer : Nat, edges : Seq(Edge)]
    BY <1>1 DEF Frame
  <2>3. g = [f EXCEPT !.edges = Append(f.edges, up),
                      !.layer = Larger(f.layer, layer[up.node] + 1),
                      !.next = f.next + 1]
    BY DEF WithEdge
  <2> HIDE DEF g
  <2>4. g.edges = Append(f.edges, up) /\ g.node = f.node /\ g.upstreams = f.upstreams
    BY <2>2, <2>3
  <2>5. g.next = f.next + 1 /\ g.layer = Larger(f.layer, layer[up.node] + 1)
    BY <2>2, <2>3
  <2>6. g \in Frame
    BY <1>4, <2>1, <2>2, <2>3 DEF Frame
  <2> QED BY <2>4, <2>5, <2>6
<1>6. g.layer >= f.layer /\ g.layer > layer[up.node] /\ g.layer \in Nat
  BY <1>1, <1>3, <1>5 DEF Larger
<1> HIDE DEF g
<1>7. /\ stack' \in Seq(Frame) /\ Len(stack') = top /\ stack'[top] = g
      /\ \A k \in 1..top : k # top => stack'[k] = stack[k]
  BY <1>0, <1>1, <1>2, <1>5, ExceptSeq DEF TypeOK
<1>8. \A k \in 1..top : stack'[k].node = stack[k].node
  BY <1>5, <1>7 DEF f
<1>9. TypeOK'
  BY <1>0, <1>2, <1>7 DEF TypeOK, linking
<1>10. RegisteredOnce'
  BY <1>2, <1>7, <1>8 DEF WiringInv, RegisteredOnce, Seen
<1>100. StackInProgress'
  <2>1. {stack'[k].node : k \in 1..top} = {stack[k].node : k \in 1..top}
    BY <1>8
  <2> QED BY <1>2, <1>7, <1>8, <2>1 DEF WiringInv, StackInProgress
<1>11. FrameInv'
  <2>0. declared' = declared /\ nodes' = nodes /\ layer' = layer /\ Len(stack') = top
    BY <1>2, <1>7
  <2> SUFFICES ASSUME NEW k \in 1..top PROVE GoodFrame(stack'[k])
    BY <2>0 DEF FrameInv, GoodFrame, Seen
  <2>1. CASE k # top
    BY <1>0, <1>7, <2>1 DEF FrameInv
  <2>2. CASE k = top
    <3>1. /\ f.upstreams = UpstreamList(declared[f.node])
          /\ Len(f.edges) = f.next - 1
          /\ \A m \in 1..Len(f.edges) :
               /\ f.edges[m] = f.upstreams[m]
               /\ Seen(f.edges[m].node)
               /\ layer[f.edges[m].node] < f.layer
      BY <1>20 DEF GoodFrame
    <3>2. ASSUME NEW m \in 1..Len(g.edges)
          PROVE  /\ g.edges[m] = g.upstreams[m]
                 /\ Seen(g.edges[m].node)
                 /\ layer[g.edges[m].node] < g.layer
      <4>1. CASE m \in 1..Len(f.edges)
        <5>1. g.edges[m] = f.edges[m]
          BY <1>1, <1>5, <4>1, AppendProperties
        <5>2. f.edges[m] \in Edge
          BY <1>1, <4>1, ElementOfSeq
        <5>3. layer[f.edges[m].node] \in Nat
          BY <1>0, <5>2 DEF TypeOK, Edge
        <5>4. layer[f.edges[m].node] < g.layer
          <6>1. layer[f.edges[m].node] < f.layer
            BY <3>1, <4>1
          <6>2. f.layer \in Nat /\ g.layer \in Nat /\ f.layer <= g.layer
            BY <1>1, <1>6
          <6> HIDE DEF f
          <6> QED BY <5>3, <6>1, <6>2
        <5> QED BY <1>5, <3>1, <4>1, <5>1, <5>4
      <4>2. CASE m = Len(f.edges) + 1
        <5>1. g.edges[m] = up
          BY <1>1, <1>5, <4>2, AppendProperties
        <5>2. m = f.next
          BY <1>1, <3>1, <4>2
        <5> QED BY <1>2, <1>5, <1>6, <5>1, <5>2 DEF up
      <4> QED BY <1>1, <1>4, <1>5, <4>1, <4>2
    <3>3. g.next \in 1..(Len(g.upstreams) + 1) /\ Len(g.edges) = g.next - 1
      BY <1>1, <1>4, <1>5, <3>1
    <3> QED BY <1>5, <1>7, <2>2, <3>1, <3>2, <3>3 DEF GoodFrame
  <2> QED BY <2>1, <2>2
<1>12. StackIsPath'
  <2>1. \A k \in 1..(top - 1) : stack'[k] = stack[k] /\ stack'[k + 1].node = stack[k + 1].node
    BY <1>1, <1>7, <1>8
  <2> QED BY <1>7, <2>1 DEF WiringInv, StackIsPath
<1>13. EdgesAsDeclared' /\ LayerOrder'
  BY <1>2 DEF WiringInv, EdgesAsDeclared, LayerOrder
<1>14. PhaseInv'
  BY <1>2, CrawlPhaseInv
<1>15. ErrorHasCycle'
  BY <1>2 DEF ErrorHasCycle, WiringInv, PhaseInv, Done
<1> QED BY <1>9, <1>10, <1>100, <1>11, <1>12, <1>13, <1>14, <1>15 DEF WiringInv

LEMMA CycleDetectedInv == WiringInv /\ CycleDetected => WiringInv'
<1> SUFFICES ASSUME WiringInv, CycleDetected PROVE WiringInv'
  OBVIOUS
<1> DEFINE top == Len(stack)
<1>0. TypeOK /\ FrameInv
  BY DEF WiringInv
<1>1. /\ declared' = declared /\ stack' = stack /\ in_progress' = in_progress
      /\ roots' = roots /\ next_root' = next_root
      /\ nodes' = nodes /\ layer' = layer /\ upstreams' = upstreams
      /\ wiring_error' = TRUE /\ pc' = "done" /\ pc = "crawl" /\ stack # <<>>
      /\ UNCHANGED linking
  BY DEF CycleDetected, input, graph
<1>2. TypeOK'
  BY <1>0, <1>1 DEF TypeOK, linking
<1>3. RegisteredOnce' /\ StackInProgress' /\ StackIsPath' /\ LayerOrder' /\ EdgesAsDeclared'
  BY <1>1 DEF WiringInv, RegisteredOnce, StackInProgress, StackIsPath, LayerOrder,
              EdgesAsDeclared, Seen
<1>4. FrameInv'
  BY <1>1 DEF WiringInv, FrameInv, GoodFrame, Seen
<1>5. PhaseInv'
  BY <1>1 DEF WiringInv, PhaseInv, Done, linking
<1>6. ErrorHasCycle'
  <2>1. top \in Nat \ {0} /\ Upstream.node \in in_progress /\ Top.next \in 1..Len(Top.upstreams)
    BY <1>0, TopType, UpstreamType DEF CycleDetected
  <2>2. PICK m \in 1..top : stack[m].node = Upstream.node
    BY <2>1 DEF WiringInv, StackInProgress
  <2>3. \A k \in 1..top : stack[k].upstreams = UpstreamList(declared[stack[k].node])
    BY <1>0 DEF FrameInv, GoodFrame
  <2>4. Declares(stack[top].node, stack[m].node)
    BY <2>1, <2>2, <2>3 DEF Declares, Top, Upstream
  <2>5. ASSUME NEW k \in m..(top - 1)
        PROVE  Declares(stack[k].node, stack[k + 1].node)
    <3>1. k \in 1..(top - 1) /\ k \in 1..top /\ k + 1 \in 1..top
      BY <2>1, <2>2
    <3>2. /\ stack[k].next <= Len(stack[k].upstreams)
          /\ stack[k].upstreams[stack[k].next].node = stack[k + 1].node
      BY <3>1 DEF WiringInv, StackIsPath
    <3>3. stack[k].next \in 1..Len(stack[k].upstreams)
      <4>1. stack[k] \in Frame
        BY <1>0, <3>1, ElementOfSeq DEF TypeOK
      <4>2. Len(stack[k].upstreams) \in Nat
        BY <4>1 DEF Frame
      <4>3. stack[k].next \in 1..(Len(stack[k].upstreams) + 1)
        BY <1>0, <3>1 DEF FrameInv, GoodFrame
      <4> QED BY <3>2, <4>2, <4>3
    <3> QED BY <2>3, <3>1, <3>2, <3>3 DEF Declares
  <2>6. \E l \in 1..top :
          /\ \A k \in l..(top - 1) : Declares(stack[k].node, stack[k + 1].node)
          /\ Declares(stack[top].node, stack[l].node)
    BY <2>4, <2>5
  <2> QED BY <1>1, <2>6 DEF ErrorHasCycle, Declares
<1> QED BY <1>2, <1>3, <1>4, <1>5, <1>6 DEF WiringInv

LEMMA DescendInv == WiringInv /\ Descend => WiringInv'
<1> SUFFICES ASSUME WiringInv, Descend PROVE WiringInv'
  OBVIOUS
<1> DEFINE top == Len(stack)
           u == Upstream.node
           f == NewFrame(u)
<1>0. TypeOK /\ FrameInv /\ top \in Nat \ {0}
  BY TopType DEF WiringInv, Descend
<1>1. u \in Node /\ Top.next \in 1..Len(Top.upstreams) /\ Top.upstreams[Top.next].node = u
  BY <1>0, UpstreamType DEF Descend, Upstream
<1>2. /\ f \in Frame /\ f.node = u /\ f.next = 1 /\ f.layer = 0 /\ f.edges = <<>>
      /\ f.upstreams = UpstreamList(declared[u])
  BY <1>0, <1>1, NewFrameType
<1>3. /\ stack' = Append(stack, f) /\ in_progress' = in_progress \cup {u}
      /\ ~ Seen(u) /\ u \notin in_progress /\ pc' = "crawl" /\ pc = "crawl"
      /\ declared' = declared /\ roots' = roots /\ next_root' = next_root
      /\ nodes' = nodes /\ layer' = layer /\ upstreams' = upstreams
      /\ UNCHANGED <<linking, wiring_error>>
  BY DEF Descend, input, graph
<1> HIDE DEF f, u
<1>4. /\ stack' \in Seq(Frame) /\ Len(stack') = top + 1 /\ stack'[top + 1] = f
      /\ \A k \in 1..top : stack'[k] = stack[k]
  BY <1>0, <1>2, <1>3, AppendProperties DEF TypeOK
<1>5. TypeOK'
  BY <1>0, <1>1, <1>3, <1>4 DEF TypeOK, linking
<1>6. RegisteredOnce'
  <2>1. ASSUME NEW k \in 1..(top + 1) PROVE ~ Seen(stack'[k].node)
    <3>1. CASE k = top + 1
      BY <1>2, <1>3, <1>4, <3>1
    <3>2. CASE k \in 1..top
      BY <1>4, <3>2 DEF WiringInv, RegisteredOnce
    <3> QED BY <1>0, <3>1, <3>2
  <2> QED BY <1>3, <1>4, <2>1 DEF WiringInv, RegisteredOnce, Seen
<1>7. StackInProgress'
  <2>1. \A k \in 1..top : stack[k].node # u /\ stack[k].node \in in_progress
    BY <1>3 DEF WiringInv, StackInProgress
  <2>2. {stack'[k].node : k \in 1..(top + 1)} = {stack[k].node : k \in 1..top} \cup {u}
    BY <1>0, <1>2, <1>4
  <2>3. \A k, l \in 1..(top + 1) : stack'[k].node = stack'[l].node => k = l
    BY <1>0, <1>2, <1>4, <2>1 DEF WiringInv, StackInProgress
  <2> QED BY <1>3, <1>4, <2>2, <2>3 DEF WiringInv, StackInProgress
<1>8. FrameInv'
  <2>1. ASSUME NEW k \in 1..(top + 1) PROVE GoodFrame(stack'[k])
    <3>1. CASE k = top + 1
      <4>1. Len(f.upstreams) \in Nat /\ Len(f.edges) = 0
        BY <1>2 DEF Frame
      <4> QED BY <1>2, <1>4, <3>1, <4>1 DEF GoodFrame
    <3>2. CASE k \in 1..top
      BY <1>0, <1>4, <3>2 DEF FrameInv
    <3> QED BY <1>0, <3>1, <3>2
  <2> QED BY <1>3, <1>4, <2>1 DEF FrameInv, GoodFrame, Seen
<1>9. StackIsPath'
  <2>1. ASSUME NEW k \in 1..top
        PROVE  /\ stack'[k].next <= Len(stack'[k].upstreams)
               /\ stack'[k].upstreams[stack'[k].next].node = stack'[k + 1].node
    <3>1. CASE k = top
      BY <1>0, <1>1, <1>2, <1>4, <3>1 DEF Top
    <3>2. CASE k \in 1..(top - 1)
      BY <1>0, <1>4, <3>2 DEF WiringInv, StackIsPath
    <3> QED BY <1>0, <3>1, <3>2
  <2> QED BY <1>0, <1>4, <2>1 DEF StackIsPath
<1>10. EdgesAsDeclared' /\ LayerOrder'
  BY <1>3 DEF WiringInv, EdgesAsDeclared, LayerOrder
<1>11. PhaseInv'
  BY <1>3, CrawlPhaseInv
<1>12. ErrorHasCycle'
  BY <1>3 DEF ErrorHasCycle, WiringInv, PhaseInv, Done
<1> QED BY <1>5, <1>6, <1>7, <1>8, <1>9, <1>10, <1>11, <1>12 DEF WiringInv

LEMMA FinaliseInv == WiringInv /\ Finalise => WiringInv'
<1> SUFFICES ASSUME WiringInv, Finalise PROVE WiringInv'
  OBVIOUS
<1> DEFINE top == Len(stack)
           f == stack[top]
           n == f.node
           N == Len(nodes)
<1>0. TypeOK /\ FrameInv /\ top \in Nat \ {0} /\ N \in Nat
  <2>1. TypeOK /\ FrameInv /\ stack # <<>>
    BY DEF WiringInv, Finalise
  <2>2. N \in Nat
    BY <2>1 DEF TypeOK
  <2> QED BY <2>1, <2>2, TopType
<1>1. /\ f \in Frame /\ n \in Node /\ f.upstreams \in Seq(Edge) /\ f.edges \in Seq(Edge)
      /\ f.layer \in Nat /\ f.next > Len(f.upstreams) /\ f.next \in Nat
  BY <1>0, TopType DEF Finalise, Top, UpstreamLeft
<1>2. GoodFrame(f)
  BY <1>0 DEF FrameInv
<1>3. ~ Seen(n) /\ \A k \in 1..(top - 1) : stack[k].node # n
  BY <1>0 DEF WiringInv, RegisteredOnce, StackInProgress
<1>4. /\ stack' = SubSeq(stack, 1, top - 1) /\ in_progress' = in_progress \ {n}
      /\ nodes' = Append(nodes, n)
      /\ layer' = [layer EXCEPT ![n] = f.layer]
      /\ upstreams' = [upstreams EXCEPT ![n] = f.edges]
      /\ pc' = "crawl" /\ pc = "crawl"
      /\ declared' = declared /\ roots' = roots /\ next_root' = next_root
      /\ UNCHANGED <<linking, wiring_error>>
  BY DEF Finalise, Top, input
<1>5. /\ stack' \in Seq(Frame) /\ Len(stack') = top - 1
      /\ \A k \in 1..(top - 1) : stack'[k] = stack[k]
  <2>1. \A k \in 1..(top - 1) : stack[k] \in Frame
    BY <1>0, ElementOfSeq DEF TypeOK
  <2>2. 1 \in Int /\ top - 1 \in Int /\ (top - 1) - 1 + 1 = top - 1 /\ top - 1 >= 0
    BY <1>0
  <2> DEFINE s == SubSeq(stack, 1, top - 1)
  <2>3. /\ s \in Seq(Frame)
        /\ Len(s) = IF 1 <= top - 1 THEN (top - 1) - 1 + 1 ELSE 0
        /\ \A k \in 1..((top - 1) - 1 + 1) : s[k] = stack[1 + k - 1]
    BY <2>1, <2>2, SubSeqProperties
  <2> HIDE DEF s
  <2>4. Len(s) = top - 1
    <3>1. CASE top = 1
      BY <2>3, <3>1
    <3>2. CASE 1 <= top - 1
      BY <2>2, <2>3, <3>2
    <3>3. top = 1 \/ 1 <= top - 1
      <4>1. top \in Nat /\ top # 0
        BY <1>0
      <4> HIDE DEF top
      <4> QED BY <4>1
    <3> QED BY <3>1, <3>2, <3>3
  <2>6. \A k \in 1..(top - 1) : 1 + k - 1 = k /\ k \in 1..((top - 1) - 1 + 1)
    BY <1>0
  <2>7. \A k \in 1..(top - 1) : s[k] = stack[k]
    BY <2>3, <2>6
  <2>5. stack' = s
    BY <1>4 DEF s
  <2> QED BY <2>3, <2>4, <2>5, <2>7
<1>6. /\ nodes' \in Seq(Node) /\ Len(nodes') = N + 1 /\ nodes'[N + 1] = n
      /\ \A k \in 1..N : nodes'[k] = nodes[k]
  BY <1>0, <1>1, <1>4, AppendProperties DEF TypeOK
<1>21. \A m : Seen(m) <=> \E k \in 1..N : nodes[k] = m
  <2>1. DOMAIN nodes = 1..N
    BY <1>0 DEF TypeOK
  <2> QED BY <2>1 DEF Seen, Range
<1>7. \A k \in 1..N : nodes[k] # n /\ nodes[k] \in Node
  BY <1>0, <1>3, ElementOfSeq DEF Seen, Range, TypeOK
<1>8. \A m \in Node : Seen(m) => m # n /\ layer'[m] = layer[m] /\ m \in Range(nodes')
  <2>1. ASSUME NEW m \in Node, Seen(m) PROVE m \in Range(nodes')
    <3>1. PICK k \in 1..N : nodes[k] = m
      BY <1>0, <2>1 DEF Seen, Range, TypeOK
    <3>2. k \in DOMAIN nodes' /\ nodes'[k] = m
      BY <1>0, <1>6, <3>1
    <3> QED BY <3>2 DEF Range
  <2> QED BY <1>0, <1>3, <1>4, <2>1 DEF TypeOK
<1>9. layer'[n] = f.layer /\ upstreams'[n] = f.edges
  BY <1>0, <1>1, <1>4 DEF TypeOK
<1>10. \A k \in 1..N : layer'[nodes[k]] = layer[nodes[k]] /\ upstreams'[nodes[k]] = upstreams[nodes[k]]
  BY <1>0, <1>4, <1>7 DEF TypeOK
<1>11. f.edges = UpstreamList(declared[n])
  <2>1. Len(f.edges) = Len(f.upstreams) /\ f.upstreams = UpstreamList(declared[n])
    BY <1>1, <1>2 DEF GoodFrame
  <2>2. \A m \in 1..Len(f.edges) : f.edges[m] = f.upstreams[m]
    BY <1>2 DEF GoodFrame
  <2> HIDE DEF f
  <2> QED BY <1>1, <2>1, <2>2, SeqEqual
<1>12. TypeOK'
  <2>1. in_progress' \subseteq Node
    BY <1>0, <1>4 DEF TypeOK
  <2>2. layer' \in [Node -> Nat] /\ upstreams' \in [Node -> Seq(Edge)]
    BY <1>0, <1>1, <1>4 DEF TypeOK
  <2> HIDE DEF f, n, top, N
  <2> QED BY <1>0, <1>4, <1>5, <1>6, <2>1, <2>2 DEF TypeOK, linking
<1> HIDE DEF f, n
<1>13. RegisteredOnce'
  <2>1. \A k, l \in 1..(N + 1) : nodes'[k] = nodes'[l] => k = l
    BY <1>0, <1>6, <1>7 DEF WiringInv, RegisteredOnce
  <2>2. ASSUME NEW k \in 1..(top - 1) PROVE stack'[k].node \notin Range(nodes')
    <3>1. stack'[k].node = stack[k].node /\ stack[k].node # n /\ ~ Seen(stack[k].node)
      BY <1>0, <1>3, <1>5 DEF WiringInv, RegisteredOnce
    <3>2. \A l \in 1..(N + 1) : nodes'[l] # stack[k].node
      BY <1>0, <1>6, <1>21, <3>1
    <3>3. DOMAIN nodes' = 1..(N + 1)
      BY <1>6
    <3> QED BY <3>1, <3>2, <3>3 DEF Range
  <2> QED BY <1>5, <1>6, <2>1, <2>2 DEF RegisteredOnce, Seen
<1>14. StackInProgress'
  <2>1. in_progress = {stack[k].node : k \in 1..top}
    BY DEF WiringInv, StackInProgress
  <2>2. stack[top].node = n
    BY DEF n, f
  <2>3. {stack'[k].node : k \in 1..(top - 1)} = in_progress \ {n}
    BY <1>0, <1>3, <1>5, <2>1, <2>2
  <2>4. \A k, l \in 1..(top - 1) : stack'[k].node = stack'[l].node => k = l
    BY <1>0, <1>5 DEF WiringInv, StackInProgress
  <2> QED BY <1>4, <1>5, <2>3, <2>4 DEF StackInProgress
<1>15. FrameInv'
  <2> SUFFICES ASSUME NEW k \in 1..(top - 1) PROVE GoodFrame(stack[k])'
    BY <1>5 DEF FrameInv
  <2>1. stack'[k] = stack[k] /\ GoodFrame(stack[k]) /\ stack[k] \in Frame
    BY <1>0, <1>5, ElementOfSeq DEF FrameInv, TypeOK
  <2>2. ASSUME NEW m \in 1..Len(stack[k].edges)
        PROVE  /\ stack[k].edges[m].node \in Range(nodes')
               /\ layer'[stack[k].edges[m].node] < stack[k].layer
    <3>1. stack[k].edges[m] \in Edge
      BY <2>1, ElementOfSeq DEF Frame
    <3>2. stack[k].edges[m].node \in Node
      BY <3>1 DEF Edge
    <3>3. Seen(stack[k].edges[m].node) /\ layer[stack[k].edges[m].node] < stack[k].layer
      BY <2>1 DEF GoodFrame
    <3> QED BY <1>8, <3>2, <3>3
  <2> QED BY <1>4, <2>1, <2>2 DEF GoodFrame, Seen
<1>16. StackIsPath'
  <2>1. \A k \in 1..(top - 2) : stack'[k] = stack[k] /\ stack'[k + 1] = stack[k + 1]
    BY <1>0, <1>5
  <2>2. (top - 1) - 1 = top - 2 /\ \A k \in 1..(top - 2) : k \in 1..(top - 1)
    BY <1>0
  <2> QED BY <1>0, <1>5, <2>1, <2>2 DEF WiringInv, StackIsPath
<1>17. EdgesAsDeclared'
  <2>1. ASSUME NEW k \in 1..(N + 1)
        PROVE  upstreams'[nodes'[k]] = UpstreamList(declared[nodes'[k]])
    <3>1. CASE k = N + 1
      BY <1>6, <1>9, <1>11, <3>1
    <3>2. CASE k \in 1..N
      BY <1>6, <1>10, <3>2 DEF WiringInv, EdgesAsDeclared
    <3> QED BY <1>0, <3>1, <3>2
  <2> QED BY <1>4, <1>6, <2>1 DEF EdgesAsDeclared
<1>18. LayerOrder'
  <2> SUFFICES ASSUME NEW k \in 1..(N + 1), NEW e \in 1..Len(upstreams'[nodes'[k]])
               PROVE  LET up == upstreams'[nodes'[k]][e].node
                      IN  /\ \E l \in 1..(k - 1) : nodes'[l] = up
                          /\ layer'[up] < layer'[nodes'[k]]
    BY <1>6 DEF LayerOrder
  <2>1. CASE k = N + 1
    <3>1. upstreams'[nodes'[k]] = f.edges /\ layer'[nodes'[k]] = f.layer
      BY <1>6, <1>9, <2>1
    <3> DEFINE up == f.edges[e].node
    <3>2. Seen(up) /\ layer[up] < f.layer /\ up \in Node
      <4>1. f.edges[e] \in Edge
        BY <1>1, <3>1, ElementOfSeq
      <4> QED BY <1>2, <3>1, <4>1 DEF GoodFrame, Edge
    <3>3. layer'[up] < f.layer
      BY <1>8, <3>2
    <3>4. PICK l \in 1..N : nodes[l] = up
      BY <1>21, <3>2
    <3>5. l \in 1..(k - 1) /\ nodes'[l] = up
      BY <1>0, <1>6, <2>1, <3>4
    <3> QED BY <3>1, <3>3, <3>5
  <2>2. CASE k \in 1..N
    <3>1. upstreams'[nodes'[k]] = upstreams[nodes[k]] /\ layer'[nodes'[k]] = layer[nodes[k]]
      BY <1>6, <1>10, <2>2
    <3> DEFINE up == upstreams[nodes[k]][e].node
    <3>2. layer[up] < layer[nodes[k]]
      BY <2>2, <3>1 DEF WiringInv, LayerOrder
    <3>3. PICK l \in 1..(k - 1) : nodes[l] = up
      BY <2>2, <3>1 DEF WiringInv, LayerOrder
    <3>4. l \in 1..N /\ nodes'[l] = up
      BY <1>0, <1>6, <2>2, <3>3
    <3>5. layer'[up] = layer[up]
      BY <1>10, <3>3, <3>4
    <3> QED BY <3>1, <3>2, <3>3, <3>4, <3>5
  <2> QED BY <1>0, <2>1, <2>2
<1>19. PhaseInv'
  BY <1>4, CrawlPhaseInv
<1>20. ErrorHasCycle'
  BY <1>4 DEF ErrorHasCycle, WiringInv, PhaseInv, Done
<1> QED BY <1>12, <1>13, <1>14, <1>15, <1>16, <1>17, <1>18, <1>19, <1>20 DEF WiringInv

-----------------------------------------------------------------------------
LEMMA InitInv == Init => WiringInv
<1> SUFFICES ASSUME Init PROVE WiringInv
  OBVIOUS
<1>1. TypeOK
  <2>1. declared \in [Node -> UpStreams] /\ roots \in Seq(Node)
    BY WiringAssumption DEF Init
  <2>2. layer \in [Node -> Nat] /\ upstreams \in [Node -> Seq(Edge)]
        /\ downstreams \in [Node -> Seq(Edge)]
    BY DEF Init
  <2>3. stack \in Seq(Frame) /\ nodes \in Seq(Node) /\ in_progress \subseteq Node
    BY DEF Init
  <2>4. /\ next_root \in Nat \ {0} /\ i \in Nat \ {0} /\ j \in Nat \ {0}
        /\ dirty_layers \in Int
    BY DEF Init
  <2>5. max_layer \in Int
    BY DEF Init
  <2>6. wiring_error \in BOOLEAN /\ pc \in {"roots", "crawl", "link", "done"}
    BY DEF Init
  <2> QED BY <2>1, <2>2, <2>3, <2>4, <2>5, <2>6 DEF TypeOK
<1>2. Len(stack) = 0 /\ Len(nodes) = 0
  BY DEF Init
<1>3. RegisteredOnce /\ StackInProgress /\ FrameInv /\ StackIsPath
  BY <1>2 DEF Init, RegisteredOnce, StackInProgress, FrameInv, StackIsPath
<1>4. EdgesAsDeclared /\ LayerOrder /\ ErrorHasCycle /\ PhaseInv
  BY <1>2 DEF Init, EdgesAsDeclared, LayerOrder, ErrorHasCycle, PhaseInv, Done
<1> QED BY <1>1, <1>3, <1>4 DEF WiringInv

(* The crawl keeps its invariant, whatever the wiring. *)
THEOREM WiringInvariant == Spec => []WiringInv
<1>1. WiringInv /\ [Next]_vars => WiringInv'
  BY SkipRootInv, StartRootInv, RecordEdgeInv, CycleDetectedInv, DescendInv, FinaliseInv,
     RootDoneInv, RootsDoneInv, LinkEdgeInv, LinkNodeInv, LinkDoneInv, StutterInv DEF Next
<1> QED BY <1>1, InitInv, PTL DEF Spec

(* initialise_node registers a node after its upstreams and above them:    *)
(* "in post-order, so a node is pushed only after all its upstreams".      *)
THEOREM LayersAreOrdered == Spec => []LayerOrder
<1>1. WiringInv => LayerOrder
  BY DEF WiringInv
<1> QED BY <1>1, WiringInvariant, PTL

(* "cycle detected in graph wiring" is never reported for an acyclic graph. *)
THEOREM ErrorsAreCycles == Spec => []ErrorHasCycle
<1>1. WiringInv => ErrorHasCycle
  BY DEF WiringInv
<1> QED BY <1>1, WiringInvariant, PTL

(* mark_dirty finds a list for the layer of every node that initialise has *)
(* wired.                                                                  *)
THEOREM LayersHaveLists == Spec => []EveryLayerHasItsList
<1>1. WiringInv => EveryLayerHasItsList
  <2> SUFFICES ASSUME WiringInv, Done, ~ wiring_error, NEW k \in 1..Len(nodes)
               PROVE  layer[nodes[k]] < dirty_layers
    BY DEF EveryLayerHasItsList
  <2>1. i > Len(nodes) /\ dirty_layers = max_layer + 1 /\ max_layer \in Int /\ i \in Nat
    BY DEF WiringInv, PhaseInv, TypeOK
  <2>2. layer[nodes[k]] \in Nat
    BY ElementOfSeq DEF WiringInv, TypeOK
  <2>3. Len(nodes) \in Nat
    BY DEF WiringInv, TypeOK
  <2>4. layer[nodes[k]] <= max_layer
    BY <2>1, <2>3 DEF WiringInv, PhaseInv
  <2> QED BY <2>1, <2>2, <2>4
<1> QED BY <1>1, WiringInvariant, PTL

(* initialise() leaves ordered layers, each with its list. *)
THEOREM LayersAreSound == Spec => []LayersSound
BY LayersAreOrdered, LayersHaveLists, PTL DEF LayersSound
=============================================================================
