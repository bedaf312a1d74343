------------------------- MODULE DynamicGraphProofs -------------------------
(***************************************************************************)
(* DynamicInv is an inductive invariant of DynamicGraph, for every graph,  *)
(* every sequence of additions and removals and every failing call, and so *)
(* is the stronger LifecycleInv.                                           *)
(***************************************************************************)
EXTENDS DynamicGraph, SequenceTheorems, WellFoundedInduction, TLAPS

USE DEF graph, pending, batch, crawl, history

(* The steps that leave the nodes and their edges alone. *)
Quiet == UNCHANGED <<nodes, upstreams, downstreams, active>>

(* Every step is quiet or one of the six that edit the graph. *)
LEMMA StepKinds ==
  ASSUME [Next]_vars
  PROVE  \/ Quiet \/ CrawlRegister \/ LinkNew \/ WireCaller
         \/ Remove \/ RemoveStopError \/ RemoveTeardownError
<1>1. CASE Lifecycle
  BY <1>1 DEF Lifecycle, ApplyNode, ApplyError, ApplyDone, Quiet
<1>2. CASE Cycle
  BY <1>2 DEF Cycle, EnterNode, AddUpstream, RemoveNode, Return, ReturnError, NodesDone,
              RunEnds, Quiet
<1>3. CASE Removals
  BY <1>3 DEF Removals, SkipRemoval, RemovalsDone, Quiet
<1>4. CASE Additions
  BY <1>4 DEF Additions, CrawlSkip, CrawlStart, CrawlDescend, CrawlCycle, CrawlLeafDone,
              AdditionsCrawled, LinkDone, FixLayer, FixDone, Walk, WalkDone, WireDone,
              CallNew, CallNewError, CallNewDone, Quiet
<1>5. CASE UNCHANGED vars
  BY <1>5 DEF vars, Quiet
<1> QED
  BY <1>1, <1>2, <1>3, <1>4, <1>5 DEF Next, Batch

(* The positions of nodes hold the registered nodes. *)
LEMMA Positions ==
  ASSUME GraphType
  PROVE  /\ Len(nodes) \in Nat
         /\ \A x \in 1..Len(nodes) : nodes[x] \in Registered
         /\ \A n \in Registered : \E x \in 1..Len(nodes) : n = nodes[x]
         /\ Registered \subseteq Node
<1>1. DOMAIN nodes = 1..Len(nodes) /\ Len(nodes) \in Nat
  BY DEF GraphType
<1>2. \A x \in 1..Len(nodes) : nodes[x] \in Node
  BY DEF GraphType
<1> QED
  BY <1>1, <1>2 DEF Registered, Range

(* Registration adds one node at the end. *)
LEMMA Registers ==
  ASSUME GraphType, GraphType', NEW t \in Node, nodes' = Append(nodes, t)
  PROVE  /\ Registered' = Registered \cup {t}
         /\ Len(nodes') = Len(nodes) + 1
         /\ nodes'[Len(nodes) + 1] = t
         /\ \A x \in 1..Len(nodes) : nodes'[x] = nodes[x]
<1>1. /\ Len(nodes') = Len(nodes) + 1
      /\ nodes'[Len(nodes) + 1] = t
      /\ \A x \in 1..Len(nodes) : nodes'[x] = nodes[x]
      /\ Len(nodes) \in Nat
  BY DEF GraphType
<1>2. /\ \A n \in Registered : \E x \in 1..Len(nodes) : n = nodes[x]
      /\ \A x \in 1..Len(nodes) : nodes[x] \in Registered
  BY Positions
<1>3. /\ \A n \in Registered' : \E x \in 1..Len(nodes') : n = nodes'[x]
      /\ \A x \in 1..Len(nodes') : nodes'[x] \in Registered'
  <2>1. DOMAIN nodes' = 1..Len(nodes')
    BY DEF GraphType
  <2> QED
    BY <2>1 DEF Registered, Range
<1>4. Registered' \subseteq Registered \cup {t}
  BY <1>1, <1>2, <1>3
<1>5. Registered \cup {t} \subseteq Registered'
  BY <1>1, <1>2, <1>3
<1> QED
  BY <1>1, <1>4, <1>5

LEMMA TopIsNode ==
  ASSUME CrawlType, path # <<>>
  PROVE  Top \in Node /\ Len(path) \in 1..Len(path) /\ Top = path[Len(path)]
  BY DEF CrawlType, Top

LEMMA PathShorter ==
  ASSUME CrawlType, path # <<>>
  PROVE  LET s == SubSeq(path, 1, Len(path) - 1)
         IN  /\ s \in Seq(Node)
             /\ Len(s) = Len(path) - 1
             /\ \A y \in 1..(Len(path) - 1) : s[y] = path[y]
<1> DEFINE k == Len(path) - 1
           s == SubSeq(path, 1, k)
<1>1. k \in Nat /\ \A y \in 1..k : path[y] \in Node
  BY DEF CrawlType
<1>2. /\ s \in Seq(Node)
      /\ Len(s) = IF 1 <= k THEN k - 1 + 1 ELSE 0
      /\ \A y \in 1..(k - 1 + 1) : s[y] = path[1 + y - 1]
  BY <1>1, SubSeqProperties
<1> HIDE DEF s, k
<1>3. Len(s) = k /\ \A y \in 1..k : s[y] = path[y]
  BY <1>1, <1>2
<1> QED
  BY <1>2, <1>3 DEF s, k

LEMMA RequiredIsLayer ==
  ASSUME GraphType, NEW es \in SUBSET Edge, NEW r \in Required(es)
  PROVE  r \in Nat /\ \A e \in es : layer[e.node] < r
<1>1. \A e \in es : layer[e.node] \in Nat
  BY DEF GraphType, Edge
<1> QED
  BY <1>1 DEF Required

LEMMA EdgesTyped ==
  ASSUME NEW n \in Node
  PROVE  EdgesOf(n) \in SUBSET Edge
  BY DynamicAssumption DEF EdgesOf

(* The parts of an addition. *)
LEMMA AdditionsTyped ==
  ASSUME RequestType, NEW x \in 1..Len(additions)
  PROVE  /\ additions[x].node \in Node
         /\ additions[x].caller \in Node
         /\ additions[x].active \in BOOLEAN
<1>1. additions[x] \in PendingAddition
  BY DEF RequestType
<1> QED
  BY <1>1 DEF PendingAddition

-----------------------------------------------------------------------------
LEMMA GraphTypeStep ==
  ASSUME TypeOK, [Next]_vars
  PROVE  GraphType'
<1> USE DEF GraphType
<1> GraphType /\ RequestType /\ CrawlType
  BY DEF TypeOK
<1>1. CASE CrawlRegister
  <2>1. Top \in Node
    BY <1>1, TopIsNode DEF CrawlRegister
  <2>2. EdgesOf(Top) \in SUBSET Edge
    BY <2>1, EdgesTyped
  <2>3. layer' \in [Node -> Nat]
    BY <1>1, <2>1, <2>2, RequiredIsLayer DEF CrawlRegister
  <2> QED
    BY <1>1, <2>1, <2>2, <2>3 DEF CrawlRegister
<1>2. CASE LinkNew
  BY <1>2 DEF LinkNew
<1>3. CASE WireCaller
  <2>1. /\ EdgeTo(additions[pos].node, additions[pos].active) \in Edge
        /\ EdgeTo(additions[pos].caller, additions[pos].active) \in Edge
    BY <1>3, AdditionsTyped DEF WireCaller, EdgeTo, Edge, RequestType
  <2> QED
    BY <1>3, <2>1 DEF WireCaller
<1>4. CASE Remove \/ RemoveStopError \/ RemoveTeardownError
  <2>1. Unlink(Removal) /\ UNCHANGED <<nodes, layer, dirty_layers>> /\ active' \subseteq active
    BY <1>4 DEF Remove, RemoveStopError, RemoveTeardownError
  <2>2. downstreams' \in [Node -> SUBSET Edge]
    BY <2>1 DEF Unlink
  <2>3. upstreams' \in [Node -> SUBSET Edge]
    BY <2>1 DEF Unlink
  <2> QED
    BY <2>1, <2>2, <2>3
<1>5. ASSUME NEW n \in Node, FixLayer(n) PROVE GraphType'
  <2>1. PICK required \in Required(upstreams[n]) :
          /\ layer' = [layer EXCEPT ![n] = Larger(layer[n], required)]
          /\ dirty_layers' = Larger(dirty_layers, Larger(layer[n], required) + 1)
    BY <1>5 DEF FixLayer
  <2>2. required \in Nat
    BY <2>1, RequiredIsLayer
  <2> DEFINE fixed == Larger(layer[n], required)
  <2>3. fixed \in Nat /\ Larger(dirty_layers, fixed + 1) \in Nat
    BY <2>2 DEF Larger
  <2>4. UNCHANGED <<nodes, upstreams, downstreams, active>>
    BY <1>5 DEF FixLayer
  <2> QED
    BY <2>1, <2>3, <2>4
<1>6. CASE UNCHANGED graph
  BY <1>6
<1> QED
  BY <1>1, <1>2, <1>3, <1>4, <1>5, <1>6
  DEF Next, Lifecycle, Cycle, Batch, Removals, Additions, vars, ApplyNode, ApplyError, ApplyDone,
      EnterNode, AddUpstream, RemoveNode, Return, ReturnError, NodesDone, RunEnds, SkipRemoval,
      RemovalsDone, CrawlSkip, CrawlStart, CrawlDescend, CrawlCycle, CrawlLeafDone,
      AdditionsCrawled, LinkDone, FixDone, Walk, WalkDone, WireDone, CallNew, CallNewError,
      CallNewDone
LEMMA RequestTypeStep ==
  ASSUME TypeOK, [Next]_vars
  PROVE  RequestType'
<1> USE DEF RequestType
<1> RequestType /\ GraphType
  BY DEF TypeOK
<1>1. ASSUME current # NoNode, NEW n \in Adds[current], NEW act \in BOOLEAN,
             NEW recycle \in BOOLEAN, AddUpstream(n, act, recycle)
      PROVE  RequestType'
  <2>1. [node |-> n, caller |-> current, active |-> act, recycle |-> recycle]
          \in PendingAddition
    BY <1>1, DynamicAssumption DEF PendingAddition
  <2> QED
    BY <1>1, <2>1 DEF AddUpstream
<1>2. ASSUME current # NoNode, NEW n \in Removes[current], RemoveNode(n)
      PROVE  RequestType'
  <2>1. n \in Node
    BY <1>2, DynamicAssumption
  <2> QED
    BY <1>2, <2>1 DEF RemoveNode
<1>3. CASE \E n \in Node : EnterNode(n)
  BY <1>3 DEF EnterNode
<1>4. CASE Lifecycle
  <2>1. /\ UNCHANGED <<pending, batch, current, cycles>>
        /\ pos' = pos + 1 \/ pos' = 1
    BY <1>4 DEF Lifecycle, ApplyNode, ApplyError, ApplyDone
  <2> QED
    BY <2>1
<1>5. CASE Return \/ ReturnError \/ NodesDone \/ RunEnds
  BY <1>5 DEF Return, ReturnError, NodesDone, RunEnds, RunFails
<1>6. CASE RemovalsDone
  BY <1>6, Positions DEF RemovalsDone
<1>7. CASE SkipRemoval \/ Remove \/ RemoveStopError \/ RemoveTeardownError
  <2>1. /\ pending_removals' = pending_removals \/ pending_removals' = <<>>
        /\ UNCHANGED <<pending_additions, requests, batch, current, cycles>>
        /\ pos' = pos + 1 \/ pos' = 1
    BY <1>7 DEF SkipRemoval, Remove, RemoveStopError, RemoveTeardownError, RunFails
  <2>2. pending_removals' \in Seq(Node)
    <3>1. <<>> \in Seq(Node) /\ pending_removals \in Seq(Node)
      OBVIOUS
    <3> QED
      BY <2>1, <3>1
  <2> QED
    BY <2>1, <2>2
<1>8. CASE \/ CrawlSkip \/ CrawlStart \/ CrawlDescend \/ CrawlCycle \/ CrawlRegister
           \/ CrawlLeafDone
  BY <1>8 DEF CrawlSkip, CrawlStart, CrawlDescend, CrawlCycle, CrawlRegister, CrawlLeafDone,
              RunFails
<1>9. CASE AdditionsCrawled \/ LinkNew \/ LinkDone \/ WireCaller \/ FixDone \/ WalkDone \/ WireDone
  BY <1>9 DEF AdditionsCrawled, LinkNew, LinkDone, WireCaller, FixDone, WalkDone, WireDone
<1>10. CASE \E n \in Node : FixLayer(n) \/ Walk(n)
  BY <1>10 DEF FixLayer, Walk
<1>11. CASE CallNew \/ CallNewError \/ CallNewDone
  BY <1>11 DEF CallNew, CallNewError, CallNewDone, RunFails
<1>12. CASE UNCHANGED vars
  BY <1>12 DEF vars
<1> QED
  BY <1>1, <1>2, <1>3, <1>4, <1>5, <1>6, <1>7, <1>8, <1>9, <1>10, <1>11, <1>12
  DEF Next, Cycle, Batch, Removals, Additions

LEMMA CrawlTypeStep ==
  ASSUME TypeOK, RequestsInv, [Next]_vars
  PROVE  CrawlType'
<1> USE DEF CrawlType
<1> CrawlType /\ GraphType /\ RequestType
  BY DEF TypeOK
<1>1. CASE NodesDone
  BY <1>1 DEF NodesDone
<1>2. CASE CrawlStart
  BY <1>2, AdditionsTyped DEF CrawlStart, RequestType
<1>3. CASE CrawlDescend
  <2>1. PICK x \in 1..Len(Declared[Top]) : path' = Append(path, Declared[Top][x].node)
    BY <1>3 DEF CrawlDescend
  <2>2. Declared[Top] \in Seq(Edge)
    BY <1>3, TopIsNode, DynamicAssumption DEF CrawlDescend
  <2>3. Declared[Top][x] \in Edge
    BY <2>2
  <2>4. Declared[Top][x].node \in Node
    BY <2>3 DEF Edge
  <2> QED
    BY <1>3, <2>1, <2>4 DEF CrawlDescend
<1>4. CASE CrawlCycle
  BY <1>4 DEF CrawlCycle
<1>5. CASE CrawlRegister
  BY <1>5 DEF CrawlRegister
<1>6. CASE WireCaller
  BY <1>6, AdditionsTyped DEF WireCaller, RequestType
<1>7. ASSUME NEW n \in Node, FixLayer(n) PROVE CrawlType'
  BY <1>7 DEF FixLayer, GraphType, Edge
<1>8. CASE FixDone
  BY <1>8, AdditionsTyped DEF FixDone, RequestsInv, RequestType
<1>9. ASSUME NEW n \in Node, Walk(n) PROVE CrawlType'
  BY <1>9 DEF Walk, Above, GraphType, Edge
<1>10. CASE UNCHANGED crawl
  BY <1>10
<1> QED
  BY <1>1, <1>2, <1>3, <1>4, <1>5, <1>6, <1>7, <1>8, <1>9, <1>10
  DEF Next, Lifecycle, Cycle, Batch, Removals, Additions, vars, ApplyNode, ApplyError, ApplyDone,
      EnterNode, AddUpstream, RemoveNode, Return, ReturnError, RunEnds, SkipRemoval, Remove,
      RemoveStopError, RemoveTeardownError, RemovalsDone, CrawlSkip, CrawlLeafDone,
      AdditionsCrawled, LinkNew, LinkDone, WalkDone, WireDone, CallNew, CallNewError, CallNewDone

(* The bookkeeping of calls. *)
LEMMA CallsTyped ==
  ASSUME CallType, NEW c \in Call, NEW n \in Node
  PROVE  /\ Try(c, n) => tried' \in [Call -> [Node -> Nat]]
         /\ Succeed(c, n) => tried' \in [Call -> [Node -> Nat]] /\ ok' \subseteq Call \X Node
         /\ Err(c, n) => tried' \in [Call -> [Node -> Nat]] /\ ok' \subseteq Call \X Node
<1>1. Try(c, n) => tried' \in [Call -> [Node -> Nat]]
  BY DEF CallType, Try
<1>2. ok \subseteq Call \X Node /\ ok \cup {<<c, n>>} \subseteq Call \X Node
  BY DEF CallType
<1> QED
  BY <1>1, <1>2 DEF Succeed, Err

LEMMA CallTypeStep ==
  ASSUME TypeOK, [Next]_vars
  PROVE  CallType'
<1> USE DEF CallType
<1> CallType /\ GraphType /\ RequestType
  BY DEF TypeOK
<1>0. Phases \subseteq Call /\ Phases \subseteq {"setup", "start", "run", "stop", "teardown"}
  BY DEF Phases, Call
<1>1. CASE ApplyNode \/ ApplyError
  <2>0. pos <= Len(nodes) /\ pc \in Phases
    BY <1>1 DEF ApplyNode, ApplyError
  <2>1. nodes[pos] \in Node /\ pc \in Call
    BY <1>0, <2>0 DEF GraphType, RequestType
  <2>2. tried' \in [Call -> [Node -> Nat]] /\ ok' \subseteq Call \X Node
    BY <1>1, <2>1, CallsTyped DEF ApplyNode, ApplyError
  <2>3. errors' \subseteq {"setup", "start", "run", "stop", "teardown"}
    BY <1>0, <1>1 DEF ApplyNode, ApplyError
  <2>4. pc' = pc \/ (pc' = Follows(pc, TRUE) /\ pc \in Phases)
    BY <1>1 DEF ApplyNode, ApplyError
  <2> QED
    BY <2>2, <2>3, <2>4 DEF Follows, Phases
<1>2. CASE ApplyDone
  BY <1>2 DEF ApplyDone, Follows, Phases
<1>3. CASE \E n \in Node : EnterNode(n)
  BY <1>3 DEF EnterNode
<1>4. CASE \E n, act, recycle : AddUpstream(n, act, recycle) \/ RemoveNode(n)
  BY <1>4 DEF AddUpstream, RemoveNode
<1>5. CASE Return \/ ReturnError \/ NodesDone \/ RunEnds
  BY <1>5 DEF Return, ReturnError, NodesDone, RunEnds, RunFails
<1>6. CASE SkipRemoval \/ RemovalsDone
  BY <1>6 DEF SkipRemoval, RemovalsDone
<1>7. CASE Remove \/ RemoveStopError \/ RemoveTeardownError
  <2>1. Removal \in Node /\ "stop" \in Call /\ "teardown" \in Call
    BY <1>7 DEF Remove, RemoveStopError, RemoveTeardownError, Removal, RequestType, Call
  <2>2. tried' \in [Call -> [Node -> Nat]]
    <3>1. CASE RemoveStopError
      BY <3>1, <2>1, CallsTyped DEF RemoveStopError
    <3>2. CASE Remove \/ RemoveTeardownError
      <4>1. tried' = [tried EXCEPT !["stop"][Removal] = @ + 1, !["teardown"][Removal] = @ + 1]
        BY <3>2 DEF Remove, RemoveTeardownError
      <4>2. [tried EXCEPT !["stop"][Removal] = @ + 1] \in [Call -> [Node -> Nat]]
        BY <2>1
      <4> QED
        BY <4>1, <4>2, <2>1
    <3> QED
      BY <1>7, <3>1, <3>2
  <2>3. ok' \subseteq Call \X Node
    BY <1>7, <2>1 DEF Remove, RemoveStopError, RemoveTeardownError, Err
  <2> QED
    BY <1>7, <2>2, <2>3 DEF Remove, RemoveStopError, RemoveTeardownError, RunFails
<1>8. CASE \/ CrawlSkip \/ CrawlStart \/ CrawlDescend \/ CrawlCycle \/ CrawlRegister
           \/ CrawlLeafDone
  BY <1>8 DEF CrawlSkip, CrawlStart, CrawlDescend, CrawlCycle, CrawlRegister, CrawlLeafDone,
              RunFails
<1>9. CASE AdditionsCrawled \/ LinkNew \/ LinkDone \/ WireCaller \/ FixDone \/ WalkDone \/ WireDone
  BY <1>9 DEF AdditionsCrawled, LinkNew, LinkDone, WireCaller, FixDone, WalkDone, WireDone
<1>10. CASE \E n \in Node : FixLayer(n) \/ Walk(n)
  BY <1>10 DEF FixLayer, Walk
<1>11. CASE CallNew \/ CallNewError
  <2>1. nodes[pos] \in Node /\ NewCall \in Call
    BY <1>11 DEF CallNew, CallNewError, NewCall, GraphType, RequestType, Call
  <2>2. tried' \in [Call -> [Node -> Nat]] /\ ok' \subseteq Call \X Node
    BY <1>11, <2>1, CallsTyped DEF CallNew, CallNewError
  <2> QED
    BY <1>11, <2>2 DEF CallNew, CallNewError, RunFails
<1>12. CASE CallNewDone
  BY <1>12 DEF CallNewDone
<1>13. CASE UNCHANGED vars
  BY <1>13 DEF vars
<1> QED
  BY <1>1, <1>2, <1>3, <1>4, <1>5, <1>6, <1>7, <1>8, <1>9, <1>10, <1>11, <1>12, <1>13
  DEF Next, Lifecycle, Cycle, Batch, Removals, Additions

LEMMA TypeStep ==
  ASSUME TypeOK, RequestsInv, [Next]_vars
  PROVE  TypeOK'
  BY GraphTypeStep, RequestTypeStep, CrawlTypeStep, CallTypeStep DEF TypeOK
-----------------------------------------------------------------------------
(* The lists. *)
LEMMA ListsStep ==
  ASSUME DynamicInv, [Next]_vars
  PROVE  ListsRegistered'
<1> GraphType /\ GraphType' /\ RequestType /\ CrawlType /\ ListsRegistered /\ RequestsInv
  BY GraphTypeStep DEF DynamicInv, TypeOK
<1>1. CASE Quiet
  BY <1>1 DEF Quiet, ListsRegistered, Registered
<1>2. CASE CrawlRegister
  <2>1. Top \in Node /\ nodes' = Append(nodes, Top)
    BY <1>2, TopIsNode DEF CrawlRegister
  <2>2. Registered' = Registered \cup {Top}
    BY <2>1, Registers
  <2>3. \A e \in EdgesOf(Top) : e.node \in Registered
    BY <1>2 DEF CrawlRegister, EdgesOf
  <2>4. /\ upstreams' = [upstreams EXCEPT ![Top] = EdgesOf(Top)]
        /\ downstreams' = downstreams
        /\ active' = active \cup {Top}
    BY <1>2 DEF CrawlRegister
  <2>5. upstreams'[Top] = EdgesOf(Top) /\ \A n \in Node \ {Top} : upstreams'[n] = upstreams[n]
    BY <2>1, <2>4 DEF GraphType
  <2> QED
    BY <2>1, <2>2, <2>3, <2>4, <2>5 DEF ListsRegistered
<1>3. CASE LinkNew
  <2>1. nodes[pos] \in Registered /\ nodes' = nodes /\ Registered' = Registered
    BY <1>3, Positions DEF LinkNew, RequestType, Registered
  <2>2. /\ upstreams' = upstreams /\ active' = active
        /\ \A n \in Node : downstreams'[n] = downstreams[n] \cup
             {e \in Edge : e.node = nodes[pos] /\ EdgeTo(n, e.active) \in upstreams[nodes[pos]]}
    BY <1>3 DEF LinkNew
  <2>3. ASSUME NEW n \in Node, NEW e \in downstreams'[n]
        PROVE  e.node \in Registered /\ n \in Registered
    <3>1. CASE e \in downstreams[n]
      BY <3>1 DEF ListsRegistered
    <3>2. CASE e.node = nodes[pos] /\ EdgeTo(n, e.active) \in upstreams[nodes[pos]]
      <4>1. nodes[pos] \in Node /\ EdgeTo(n, e.active).node = n
        BY <2>1, Positions DEF EdgeTo
      <4> QED
        BY <2>1, <3>2, <4>1 DEF ListsRegistered
    <3> QED
      BY <2>2, <3>1, <3>2
  <2> QED
    BY <2>1, <2>2, <2>3 DEF ListsRegistered
<1>4. CASE WireCaller
  <2> DEFINE a == additions[pos]
  <2>1. pos \in 1..Len(additions) /\ a.node \in Registered /\ a.caller \in Registered
    BY <1>4 DEF WireCaller, RequestsInv, RequestType
  <2>2. a.node \in Node /\ a.caller \in Node
    BY <2>1, AdditionsTyped
  <2>3. nodes' = nodes /\ active' = active /\ Registered' = Registered
    BY <1>4 DEF WireCaller, Registered
  <2>4. ASSUME NEW n \in Node, NEW e \in upstreams'[n]
        PROVE  e \in upstreams[n] \/ (n = a.caller /\ e.node = a.node)
    BY <1>4, <2>2, <2>4 DEF WireCaller, EdgeTo, GraphType
  <2>5. ASSUME NEW n \in Node, NEW e \in downstreams'[n]
        PROVE  e \in downstreams[n] \/ (n = a.node /\ e.node = a.caller)
    BY <1>4, <2>2, <2>5 DEF WireCaller, EdgeTo, GraphType
  <2> HIDE DEF a
  <2>6. ASSUME NEW n \in Node
        PROVE  /\ \A e \in upstreams'[n] \cup downstreams'[n] : e.node \in Registered
               /\ n \notin Registered => upstreams'[n] = {} /\ downstreams'[n] = {}
    BY <2>1, <2>4, <2>5 DEF ListsRegistered
  <2> QED
    BY <2>3, <2>6 DEF ListsRegistered
<1>5. CASE Remove \/ RemoveStopError \/ RemoveTeardownError
  <2>1. /\ Unlink(Removal) /\ nodes' = nodes /\ active' \subseteq active
        /\ Registered' = Registered
    BY <1>5 DEF Remove, RemoveStopError, RemoveTeardownError, Registered
  <2>2. \A n \in Node : upstreams'[n] \subseteq upstreams[n] /\ downstreams'[n] \subseteq downstreams[n]
    BY <2>1 DEF Unlink
  <2> QED
    BY <2>1, <2>2 DEF ListsRegistered
<1> QED
  BY <1>1, <1>2, <1>3, <1>4, <1>5, StepKinds
-----------------------------------------------------------------------------
(* Registered nodes stay registered. *)
LEMMA RegisteredGrows ==
  ASSUME TypeOK, [Next]_vars
  PROVE  Registered \subseteq Registered'
<1> GraphType /\ GraphType' /\ CrawlType
  BY GraphTypeStep DEF TypeOK
<1>1. CASE CrawlRegister
  BY <1>1, TopIsNode, Registers DEF CrawlRegister
<1>2. CASE nodes' = nodes
  BY <1>2 DEF Registered
<1> QED
  BY <1>1, <1>2, StepKinds
  DEF Quiet, LinkNew, WireCaller, Remove, RemoveStopError, RemoveTeardownError

LEMMA RequestsStep ==
  ASSUME DynamicInv, [Next]_vars
  PROVE  RequestsInv'
<1> TypeOK /\ GraphType /\ RequestType /\ RequestsInv /\ ListsRegistered /\ PathInv /\ TypeOK'
  BY TypeStep DEF DynamicInv, TypeOK
<1> Registered \subseteq Registered'
  BY RegisteredGrows
<1> USE DEF RequestsInv
<1>1. CASE Lifecycle
  <2>1. /\ UNCHANGED <<pending, additions, start_index, nodes, current>>
        /\ pc' \in {"setup", "start", "cycle", "stop", "teardown", "done"}
        /\ pc # "node"
    BY <1>1 DEF Lifecycle, ApplyNode, ApplyError, ApplyDone, Phases, Follows
  <2> QED
    BY <2>1
<1>2. ASSUME NEW n \in Node, EnterNode(n) PROVE RequestsInv'
  BY <1>2 DEF EnterNode
<1>3. ASSUME NEW n, NEW act, NEW recycle, AddUpstream(n, act, recycle) PROVE RequestsInv'
  <2> DEFINE new == [node |-> n, caller |-> current, active |-> act, recycle |-> recycle]
  <2>1. current \in Registered /\ new.caller = current
    BY <1>3 DEF AddUpstream, ListsRegistered
  <2>2. pending_additions' = Append(pending_additions, new)
    BY <1>3 DEF AddUpstream
  <2> HIDE DEF new
  <2>3. \A x \in 1..Len(pending_additions') : pending_additions'[x].caller \in Registered
    BY <2>1, <2>2 DEF RequestType
  <2> QED
    BY <1>3, <2>3 DEF AddUpstream
<1>4. ASSUME NEW n, RemoveNode(n) PROVE RequestsInv'
  BY <1>4 DEF RemoveNode
<1>5. CASE Return \/ ReturnError \/ NodesDone \/ RunEnds
  BY <1>5 DEF Return, ReturnError, NodesDone, RunEnds, RunFails
<1>6. CASE SkipRemoval \/ Remove \/ RemoveStopError \/ RemoveTeardownError
  BY <1>6 DEF SkipRemoval, Remove, RemoveStopError, RemoveTeardownError, RunFails
<1>7. CASE RemovalsDone
  BY <1>7 DEF RemovalsDone
<1>8. CASE CrawlSkip
  <2>1. /\ UNCHANGED <<pending, batch, nodes, current, pc>> /\ pos' = pos + 1 /\ pc = "additions"
        /\ additions[pos].node \in Registered'
    BY <1>8 DEF CrawlSkip, Registered
  <2>2. \A x \in 1..Len(additions) : x < pos + 1 => additions[x].node \in Registered'
    BY <2>1 DEF RequestType
  <2> QED
    BY <2>1, <2>2
<1>9. CASE CrawlStart
  BY <1>9 DEF CrawlStart
<1>10. CASE CrawlDescend \/ CrawlCycle
  BY <1>10 DEF CrawlDescend, CrawlCycle, RunFails
<1>11. CASE CrawlRegister
  <2>1. /\ UNCHANGED <<pending, batch, pos, current, pc>> /\ pc = "crawl"
        /\ active \subseteq active'
    BY <1>11 DEF CrawlRegister
  <2>2. Len(nodes') = Len(nodes) + 1 /\ Len(nodes) \in Nat /\ start_index \in Nat
    BY <1>11 DEF CrawlRegister, GraphType, RequestType
  <2> QED
    BY <2>1, <2>2
<1>12. CASE CrawlLeafDone
  <2>1. /\ UNCHANGED <<pending, batch, nodes, current>> /\ pos' = pos + 1
        /\ pc = "crawl" /\ pc' = "additions" /\ path = <<>>
    BY <1>12 DEF CrawlLeafDone
  <2>2. additions[pos].node \in Registered
    BY <2>1 DEF PathInv
  <2>3. \A x \in 1..Len(additions) : x < pos + 1 => additions[x].node \in Registered'
    BY <2>1, <2>2 DEF RequestType
  <2> QED
    BY <2>1, <2>3
<1>13. CASE AdditionsCrawled
  BY <1>13 DEF AdditionsCrawled, RequestType
<1>14. CASE LinkNew \/ LinkDone \/ WireCaller
  BY <1>14 DEF LinkNew, LinkDone, WireCaller
<1>15. CASE \E n \in Node : FixLayer(n) \/ Walk(n)
  BY <1>15 DEF FixLayer, Walk
<1>16. CASE FixDone \/ WalkDone \/ WireDone
  BY <1>16 DEF FixDone, WalkDone, WireDone
<1>17. CASE CallNew \/ CallNewError \/ CallNewDone
  BY <1>17 DEF CallNew, CallNewError, CallNewDone, RunFails
<1>18. CASE UNCHANGED vars
  BY <1>18 DEF vars
<1> QED
  BY <1>1, <1>2, <1>3, <1>4, <1>5, <1>6, <1>7, <1>8, <1>9, <1>10, <1>11, <1>12, <1>13, <1>14,
     <1>15, <1>16, <1>17, <1>18
  DEF Next, Cycle, Batch, Removals, Additions

(* The path of the crawl: only four steps lead to pc = "crawl" or stay.    *)
LEMMA PathStep ==
  ASSUME DynamicInv, [Next]_vars
  PROVE  PathInv'
<1> GraphType /\ GraphType' /\ RequestType /\ CrawlType /\ PathInv /\ CallType /\ CallType'
  BY GraphTypeStep, CallTypeStep DEF DynamicInv, TypeOK
<1>1. CASE CrawlStart
  <2>1. path' = <<additions[pos].node>> /\ additions[pos].node \notin Registered'
        /\ UNCHANGED <<additions, pos>>
    BY <1>1 DEF CrawlStart, Registered
  <2>2. Len(path') = 1 /\ path'[1] = additions[pos].node
    BY <2>1
  <2> QED
    BY <2>1, <2>2 DEF PathInv
<1>2. CASE CrawlDescend
  <2>1. PICK x \in 1..Len(Declared[Top]) : /\ Declared[Top][x].node \notin Registered
                                           /\ Declared[Top][x].node \notin Range(path)
                                           /\ path' = Append(path, Declared[Top][x].node)
    BY <1>2 DEF CrawlDescend, Meets
  <2> DEFINE t == Declared[Top][x].node
  <2>2. /\ path # <<>> /\ pc = "crawl"
        /\ UNCHANGED <<additions, pos, nodes>> /\ Registered' = Registered
    BY <1>2 DEF CrawlDescend, Registered
  <2>3. /\ Len(path) \in Nat /\ Len(path') = Len(path) + 1
        /\ path'[Len(path) + 1] = t
        /\ \A y \in 1..Len(path) : path'[y] = path[y] /\ path[y] # t
    <3>1. \A y \in 1..Len(path) : path[y] \in Range(path)
      BY DEF CrawlType, Range
    <3> QED
      BY <2>1, <3>1 DEF CrawlType
  <2>4. Len(path) >= 1 /\ path'[1] = path[1]
    BY <2>2, <2>3 DEF CrawlType
  <2> HIDE DEF t
  <2>5. ASSUME NEW y \in 1..Len(path') PROVE path'[y] \notin Registered
    BY <2>1, <2>2, <2>3 DEF PathInv, t
  <2>6. ASSUME NEW y \in 1..Len(path'), NEW z \in 1..Len(path'), path'[y] = path'[z] PROVE y = z
    BY <2>2, <2>3, <2>6 DEF PathInv
  <2>7. path' # <<>>
    BY <2>3
  <2> QED
    BY <2>2, <2>4, <2>5, <2>6, <2>7 DEF PathInv
<1>3. CASE CrawlRegister
  <2>1. /\ path # <<>> /\ pc = "crawl" /\ UNCHANGED <<additions, pos>>
        /\ path' = SubSeq(path, 1, Len(path) - 1)
        /\ nodes' = Append(nodes, Top)
    BY <1>3 DEF CrawlRegister
  <2> DEFINE k == Len(path)
  <2>2. Top \in Node /\ Top = path[k] /\ k \in Nat /\ k >= 1
    BY <2>1, TopIsNode DEF CrawlType
  <2>3. Registered' = Registered \cup {Top}
    BY <2>1, <2>2, Registers
  <2>4. Len(path') = k - 1 /\ \A y \in 1..(k - 1) : path'[y] = path[y]
    BY <2>1, PathShorter
  <2> HIDE DEF k
  <2>5. /\ path[1] = additions[pos].node
        /\ \A y \in 1..k : path[y] \notin Registered
        /\ \A y, z \in 1..k : path[y] = path[z] => y = z
    BY <2>1 DEF PathInv, k
  <2>6. ASSUME NEW y \in 1..(k - 1) PROVE path'[y] \notin Registered'
    <3>1. y \in 1..k /\ k \in 1..k /\ y # k
      BY <2>2
    <3> QED
      BY <2>2, <2>3, <2>4, <2>5, <3>1
  <2>7. \A y, z \in 1..(k - 1) : path'[y] = path'[z] => y = z
    BY <2>2, <2>4, <2>5
  <2>8. path' = <<>> => additions[pos].node \in Registered'
    <3>1. path' = <<>> => k = 1
      BY <2>2, <2>4
    <3> QED
      BY <2>2, <2>3, <2>5, <3>1
  <2>9. path' # <<>> => path'[1] = additions[pos].node
    <3>1. path' # <<>> => k - 1 >= 1
      BY <2>2, <2>4 DEF CrawlType
    <3> QED
      BY <2>2, <2>4, <2>5, <3>1
  <2> QED
    BY <2>1, <2>4, <2>6, <2>7, <2>8, <2>9 DEF PathInv
<1>4. CASE pc' # "crawl"
  BY <1>4 DEF PathInv
<1>5. CASE UNCHANGED vars
  BY <1>5 DEF vars, PathInv, Registered
<1> QED
  <2>1. CASE Lifecycle
    BY <2>1, <1>4 DEF Lifecycle, ApplyNode, ApplyError, ApplyDone, Phases, Follows
  <2>2. CASE Cycle
    BY <2>2, <1>4 DEF Cycle, EnterNode, AddUpstream, RemoveNode, Return, ReturnError, NodesDone,
                      RunEnds, RunFails
  <2>3. CASE Removals
    BY <2>3, <1>4 DEF Removals, SkipRemoval, Remove, RemoveStopError, RemoveTeardownError,
                      RemovalsDone, RunFails
  <2>4. CASE Additions
    BY <2>4, <1>1, <1>2, <1>3, <1>4
    DEF Additions, CrawlSkip, CrawlCycle, CrawlLeafDone, AdditionsCrawled, LinkNew, LinkDone,
        WireCaller, FixLayer, FixDone, Walk, WalkDone, WireDone, CallNew, CallNewError,
        CallNewDone, RunFails
  <2> QED
    BY <2>1, <2>2, <2>3, <2>4, <1>5 DEF Next, Batch
-----------------------------------------------------------------------------
(* A run that has come to its shutdown does not come back. *)
LEMMA NoReturn ==
  ASSUME [Next]_vars
  PROVE  Running' => Running
<1>1. CASE Lifecycle
  BY <1>1 DEF Lifecycle, ApplyNode, ApplyError, ApplyDone, Phases, Follows, Running
<1>2. CASE Cycle
  BY <1>2 DEF Cycle, EnterNode, AddUpstream, RemoveNode, Return, ReturnError, NodesDone,
              RunEnds, Running
<1>3. CASE Removals
  BY <1>3 DEF Removals, SkipRemoval, Remove, RemoveStopError, RemoveTeardownError,
              RemovalsDone, Running
<1>4. CASE Additions
  BY <1>4
  DEF Additions, CrawlSkip, CrawlStart, CrawlDescend, CrawlCycle, CrawlRegister, CrawlLeafDone,
      AdditionsCrawled, LinkNew, LinkDone, WireCaller, FixLayer, FixDone, Walk, WalkDone,
      WireDone, CallNew, CallNewError, CallNewDone, Running
<1>5. CASE UNCHANGED vars
  BY <1>5 DEF vars, Running
<1> QED
  BY <1>1, <1>2, <1>3, <1>4, <1>5 DEF Next, Batch

LEMMA SameEdge ==
  ASSUME NEW n, NEW m, NEW b, NEW c
  PROVE  /\ EdgeTo(n, b) = EdgeTo(m, c) <=> n = m /\ b = c
         /\ EdgeTo(n, b).node = n
         /\ EdgeTo(n, b).active = b
         /\ n \in Node /\ b \in BOOLEAN => EdgeTo(n, b) \in Edge
  BY DEF EdgeTo, Edge

(* A step that edits no list keeps the lists mirrored, unless it declares  *)
(* an unlinked node linked.                                                *)
LEMMA MirrorFrame ==
  ASSUME MirrorInv, Quiet, Running' => Running /\ Unlinked \subseteq Unlinked'
  PROVE  MirrorInv'
  BY DEF MirrorInv, Quiet

(* What unlinking takes away: the mirror leads it to every active node     *)
(* that has the removed node in a list.                                    *)
LEMMA RemovedFromUpstreams ==
  ASSUME GraphType, MirrorInv, pc = "removals", NEW r \in active, Unlink(r)
  PROVE  \A m \in active, act \in BOOLEAN :
           EdgeTo(r, act) \notin upstreams'[m] /\ EdgeTo(r, act) \notin downstreams'[m]
<1> SUFFICES ASSUME NEW m \in active, NEW act \in BOOLEAN
             PROVE  EdgeTo(r, act) \notin upstreams'[m] /\ EdgeTo(r, act) \notin downstreams'[m]
  OBVIOUS
<1>0. r \in Node /\ m \in Node /\ Running /\ Unlinked = {}
  BY DEF GraphType, Running, Unlinked
<1>1. EdgeTo(r, act).node = r /\ EdgeTo(m, act).node = m
  BY SameEdge
<1>2. EdgeTo(r, act) \in upstreams[m] => EdgeTo(m, act) \in downstreams[r]
  BY <1>0 DEF MirrorInv
<1>3. EdgeTo(r, act) \in downstreams[m] => EdgeTo(m, act) \in upstreams[r]
  BY <1>0 DEF MirrorInv
<1> QED
  BY <1>0, <1>1, <1>2, <1>3 DEF Unlink

LEMMA MirrorStep ==
  ASSUME DynamicInv, [Next]_vars
  PROVE  MirrorInv'
<1> /\ GraphType /\ GraphType' /\ RequestType /\ CrawlType /\ MirrorInv /\ ListsRegistered
    /\ PathInv /\ RequestsInv
  BY GraphTypeStep DEF DynamicInv, TypeOK
<1>0. Running' => Running
  BY NoReturn
<1>1. CASE Lifecycle
  BY <1>0, <1>1, MirrorFrame
  DEF Lifecycle, ApplyNode, ApplyError, ApplyDone, Phases, Quiet, Unlinked
<1>2. CASE Cycle
  BY <1>0, <1>2, MirrorFrame
  DEF Cycle, EnterNode, AddUpstream, RemoveNode, Return, ReturnError, NodesDone, RunEnds,
      Quiet, Unlinked
<1>3. CASE SkipRemoval \/ RemovalsDone
  BY <1>0, <1>3, MirrorFrame DEF SkipRemoval, RemovalsDone, Quiet, Unlinked
<1>4. CASE CrawlSkip \/ CrawlStart \/ CrawlDescend \/ CrawlLeafDone
  BY <1>0, <1>4, MirrorFrame
  DEF CrawlSkip, CrawlStart, CrawlDescend, CrawlLeafDone, Quiet, Unlinked, NewNodes
<1>5. CASE AdditionsCrawled
  BY <1>0, <1>5, MirrorFrame DEF AdditionsCrawled, Quiet, Unlinked, NewNodes
<1>6. CASE LinkDone
  <2>1. Unlinked = {}
    BY <1>6 DEF LinkDone, Unlinked, RequestType, GraphType
  <2> QED
    BY <1>0, <1>6, <2>1, MirrorFrame DEF LinkDone, Quiet
<1>7. CASE \/ FixDone \/ WalkDone \/ WireDone \/ CallNew \/ CallNewError \/ CallNewDone
           \/ \E n \in Node : FixLayer(n) \/ Walk(n)
  BY <1>0, <1>7, MirrorFrame
  DEF FixDone, WalkDone, WireDone, CallNew, CallNewError, CallNewDone, FixLayer, Walk, Quiet,
      Unlinked
<1>8. CASE CrawlCycle \/ RemoveStopError \/ RemoveTeardownError
  BY <1>8 DEF CrawlCycle, RemoveStopError, RemoveTeardownError, RunFails, MirrorInv, Running
<1>9. CASE CrawlRegister
  <2>1. /\ pc = "crawl" /\ pc' = "crawl" /\ start_index' = start_index
        /\ nodes' = Append(nodes, Top) /\ active' = active \cup {Top}
        /\ upstreams' = [upstreams EXCEPT ![Top] = EdgesOf(Top)] /\ downstreams' = downstreams
    BY <1>9 DEF CrawlRegister
  <2>2. Top \in Node /\ Top \notin Registered
    BY <1>9, TopIsNode DEF CrawlRegister, PathInv
  <2>3. Top \in Unlinked' /\ Unlinked \subseteq Unlinked'
    <3>1. /\ Len(nodes') = Len(nodes) + 1 /\ Len(nodes) \in Nat
          /\ nodes'[Len(nodes) + 1] = Top
          /\ \A x \in 1..Len(nodes) : nodes'[x] = nodes[x]
          /\ start_index <= Len(nodes) /\ start_index \in Nat
      BY <2>1, <2>2, Registers, Positions DEF RequestType, RequestsInv
    <3> QED
      BY <2>1, <3>1 DEF Unlinked, NewNodes
  <2>4. \A n \in Node \ {Top} : upstreams'[n] = upstreams[n]
    BY <2>1, <2>2 DEF GraphType
  <2>5. \A n \in Node, act \in BOOLEAN : EdgeTo(Top, act) \notin downstreams[n]
    BY <2>2, SameEdge DEF ListsRegistered
  <2>6. downstreams[Top] = {}
    BY <2>2 DEF ListsRegistered
  <2> QED
    BY <1>0, <2>1, <2>2, <2>3, <2>4, <2>5, <2>6 DEF MirrorInv, Running, GraphType
<1>10. CASE LinkNew
  <2> DEFINE v == nodes[pos]
  <2>1. /\ pc = "link" /\ pc' = "link" /\ pos' = pos + 1 /\ nodes' = nodes
        /\ upstreams' = upstreams /\ active' = active
        /\ pos \in 1..Len(nodes)
    BY <1>10 DEF LinkNew, RequestType
  <2>2. \A n \in Node : downstreams'[n] = downstreams[n] \cup
          {e \in Edge : e.node = v /\ EdgeTo(n, e.active) \in upstreams[v]}
    BY <1>10 DEF LinkNew
  <2>3. v \in Node
    BY <2>1, Positions
  <2>4. Unlinked \subseteq Unlinked' \cup {v}
    BY <2>1, Positions DEF Unlinked, RequestType
  <2> HIDE DEF v
  <2>5. ASSUME NEW n \in Node, NEW m \in active, NEW act \in BOOLEAN,
               EdgeTo(n, act) \in upstreams[m], m \notin Unlinked'
        PROVE  EdgeTo(m, act) \in downstreams'[n]
    <3>1. CASE m = v
      <4>1. EdgeTo(v, act) \in Edge /\ EdgeTo(v, act).node = v /\ EdgeTo(v, act).active = act
        BY <2>3, SameEdge
      <4> QED
        BY <2>2, <2>5, <3>1, <4>1
    <3>2. CASE m # v
      BY <2>1, <2>2, <2>4, <2>5, <3>2 DEF MirrorInv, Running
    <3> QED
      BY <3>1, <3>2
  <2>6. ASSUME NEW n \in active, NEW m \in active, NEW act \in BOOLEAN,
               EdgeTo(m, act) \in downstreams'[n]
        PROVE  EdgeTo(n, act) \in upstreams[m]
    <3>0. n \in Node
      BY DEF GraphType
    <3>1. CASE EdgeTo(m, act) \in downstreams[n]
      BY <2>1, <3>0, <3>1 DEF MirrorInv, Running
    <3>2. CASE EdgeTo(m, act).node = v /\ EdgeTo(n, EdgeTo(m, act).active) \in upstreams[v]
      BY <3>2, SameEdge
    <3> QED
      BY <2>2, <2>6, <3>0, <3>1, <3>2
  <2> QED
    BY <2>1, <2>5, <2>6 DEF MirrorInv
<1>11. CASE WireCaller
  <2> DEFINE a == additions[pos]
             up == EdgeTo(a.node, a.active)
             down == EdgeTo(a.caller, a.active)
  <2>1. a.node \in Node /\ a.caller \in Node /\ a.active \in BOOLEAN
    BY <1>11, AdditionsTyped DEF WireCaller, RequestType
  <2>2. pc = "wire" /\ pc' = "fix" /\ active' = active /\ Unlinked = {} /\ Unlinked' = {}
    BY <1>11 DEF WireCaller, Unlinked
  <2>3. CASE UNCHANGED <<upstreams, downstreams>>
    BY <2>2, <2>3 DEF MirrorInv, Running
  <2>4. CASE /\ upstreams' = [upstreams EXCEPT ![a.caller] = @ \cup {up}]
             /\ downstreams' = [downstreams EXCEPT ![a.node] = @ \cup {down}]
    <3>1. \A n \in Node : \A e : e \in upstreams'[n] <=> e \in upstreams[n] \/ (n = a.caller /\ e = up)
      BY <2>1, <2>4 DEF GraphType
    <3>2. \A n \in Node : \A e : e \in downstreams'[n] <=> e \in downstreams[n] \/ (n = a.node /\ e = down)
      BY <2>1, <2>4 DEF GraphType
    <3>3. \A n, act : EdgeTo(n, act) = up <=> n = a.node /\ act = a.active
      BY SameEdge
    <3>4. \A n, act : EdgeTo(n, act) = down <=> n = a.caller /\ act = a.active
      BY SameEdge
    <3> HIDE DEF a, up, down
    <3> QED
      BY <2>1, <2>2, <3>1, <3>2, <3>3, <3>4 DEF MirrorInv, Running, GraphType
  <2> QED
    BY <1>11, <2>3, <2>4 DEF WireCaller
<1>12. CASE Remove
  <2> DEFINE r == Removal
  <2>1. /\ pc = "removals" /\ pc' = "removals" /\ active' = active \ {r} /\ r \in active
        /\ Unlink(r) /\ Unlinked = {} /\ Unlinked' = {}
    BY <1>12 DEF Remove, Unlinked
  <2>2. \A n \in Node : \A e :
          /\ e \in upstreams'[n] => e \in upstreams[n]
          /\ e \in upstreams[n] /\ e.node # r => e \in upstreams'[n]
          /\ e \in downstreams'[n] => e \in downstreams[n]
          /\ e \in downstreams[n] /\ e.node # r => e \in downstreams'[n]
    BY <2>1 DEF Unlink
  <2> HIDE DEF r
  <2>4. ASSUME NEW n \in Node, NEW m \in active', NEW act \in BOOLEAN
        PROVE  /\ EdgeTo(n, act) \in upstreams'[m] => EdgeTo(m, act) \in downstreams'[n]
               /\ n \in active' /\ EdgeTo(m, act) \in downstreams'[n] =>
                    EdgeTo(n, act) \in upstreams'[m]
    <3>1. /\ m \in active /\ m \in Node /\ m # r /\ Running
          /\ EdgeTo(m, act).node = m /\ EdgeTo(n, act).node = n
      BY <2>1, SameEdge DEF GraphType, Running
    <3>2. EdgeTo(n, act) \in upstreams[m] => EdgeTo(m, act) \in downstreams[n]
      BY <2>1, <3>1 DEF MirrorInv
    <3>3. n \in active /\ EdgeTo(m, act) \in downstreams[n] => EdgeTo(n, act) \in upstreams[m]
      BY <2>1, <3>1 DEF MirrorInv
    <3>4. EdgeTo(n, act) \in upstreams'[m] => EdgeTo(m, act) \in downstreams'[n]
      BY <2>2, <3>1, <3>2
    <3>5. n \in active' => n \in active /\ n # r
      BY <2>1
    <3> QED
      BY <2>2, <3>1, <3>3, <3>4, <3>5
  <2> QED
    BY <2>1, <2>4 DEF MirrorInv
<1>13. CASE UNCHANGED vars
  BY <1>0, <1>13, MirrorFrame DEF vars, Quiet, Unlinked, NewNodes
<1> QED
  BY <1>1, <1>2, <1>3, <1>4, <1>5, <1>6, <1>7, <1>8, <1>9, <1>10, <1>11, <1>12, <1>13
  DEF Next, Batch, Removals, Additions
-----------------------------------------------------------------------------
(* Layers: fix_layers may leave an edge out of order only as long as its   *)
(* lower end is in the queue.                                              *)
LEMMA LayerFrame ==
  ASSUME LayerInv, Running' => Running, layer' = layer, active' \subseteq active,
         \A n \in active' : upstreams'[n] \subseteq upstreams[n],
         pc = "fix" => \/ queue = {}
                       \/ queue' = queue /\ pc' = "fix"
  PROVE  LayerInv'
  BY DEF LayerInv

LEMMA LayerStep ==
  ASSUME DynamicInv, [Next]_vars
  PROVE  LayerInv'
<1> /\ GraphType /\ GraphType' /\ RequestType /\ CrawlType /\ MirrorInv /\ ListsRegistered
    /\ LayerInv /\ PathInv
  BY GraphTypeStep DEF DynamicInv, TypeOK
<1>0. Running' => Running
  BY NoReturn
<1>1. CASE Lifecycle
  BY <1>0, <1>1, LayerFrame DEF Lifecycle, ApplyNode, ApplyError, ApplyDone, Phases
<1>2. CASE Cycle
  BY <1>0, <1>2, LayerFrame
  DEF Cycle, EnterNode, AddUpstream, RemoveNode, Return, ReturnError, NodesDone, RunEnds
<1>3. CASE SkipRemoval \/ RemovalsDone
  BY <1>0, <1>3, LayerFrame DEF SkipRemoval, RemovalsDone
<1>4. CASE Remove
  <2>1. \A n \in active' : upstreams'[n] \subseteq upstreams[n]
    BY <1>4 DEF Remove, Unlink, GraphType
  <2> QED
    BY <1>0, <1>4, <2>1, LayerFrame DEF Remove
<1>5. CASE CrawlCycle \/ RemoveStopError \/ RemoveTeardownError
  BY <1>5 DEF CrawlCycle, RemoveStopError, RemoveTeardownError, RunFails, LayerInv, Running
<1>6. CASE CrawlSkip \/ CrawlStart \/ CrawlDescend \/ CrawlLeafDone \/ AdditionsCrawled
  BY <1>0, <1>6, LayerFrame DEF CrawlSkip, CrawlStart, CrawlDescend, CrawlLeafDone, AdditionsCrawled
<1>7. CASE LinkNew \/ LinkDone \/ FixDone \/ WalkDone \/ WireDone
  BY <1>0, <1>7, LayerFrame DEF LinkNew, LinkDone, FixDone, WalkDone, WireDone
<1>8. CASE CallNew \/ CallNewError \/ CallNewDone \/ \E n \in Node : Walk(n)
  BY <1>0, <1>8, LayerFrame DEF CallNew, CallNewError, CallNewDone, Walk
<1>9. CASE UNCHANGED vars
  BY <1>0, <1>9, LayerFrame DEF vars
<1>10. CASE CrawlRegister
  <2>1. PICK required \in Required(EdgesOf(Top)) : layer' = [layer EXCEPT ![Top] = required]
    BY <1>10 DEF CrawlRegister
  <2>2. /\ pc = "crawl" /\ active' = active \cup {Top}
        /\ upstreams' = [upstreams EXCEPT ![Top] = EdgesOf(Top)]
        /\ \A e \in EdgesOf(Top) : e.node \in Registered
    BY <1>10 DEF CrawlRegister, EdgesOf
  <2>3. Top \in Node /\ Top \notin Registered
    BY <1>10, TopIsNode DEF CrawlRegister, PathInv
  <2>4. EdgesOf(Top) \in SUBSET Edge
    BY <2>3, EdgesTyped
  <2>5. \A e \in EdgesOf(Top) : layer[e.node] < required
    BY <2>1, <2>4, RequiredIsLayer
  <2>6. /\ upstreams'[Top] = EdgesOf(Top) /\ layer'[Top] = required
        /\ \A n \in Node \ {Top} : upstreams'[n] = upstreams[n] /\ layer'[n] = layer[n]
    BY <2>1, <2>2, <2>3 DEF GraphType
  <2>7. ASSUME NEW n \in active', NEW e \in upstreams'[n] PROVE layer'[e.node] < layer'[n]
    <3>1. n \in Node /\ e \in Edge /\ e.node \in Node
      BY <2>7 DEF GraphType, Edge
    <3>2. CASE n = Top
      BY <2>2, <2>3, <2>5, <2>6, <3>1, <3>2
    <3>3. CASE n # Top
      <4>1. n \in active /\ e \in upstreams[n] /\ layer'[n] = layer[n]
        BY <2>2, <2>6, <3>1, <3>3
      <4>2. e.node # Top
        BY <2>3, <3>1, <4>1 DEF ListsRegistered
      <4> QED
        BY <2>2, <2>6, <3>1, <4>1, <4>2 DEF LayerInv, Running
    <3> QED
      BY <3>2, <3>3
  <2> QED
    BY <2>7 DEF LayerInv
<1>11. CASE WireCaller
  <2> DEFINE a == additions[pos]
  <2>1. /\ pc = "wire" /\ pc' = "fix" /\ queue' = {a.caller}
        /\ UNCHANGED <<layer, active>>
    BY <1>11 DEF WireCaller
  <2>2. ASSUME NEW n \in active, n # a.caller PROVE upstreams'[n] = upstreams[n]
    BY <1>11, <2>2 DEF WireCaller, GraphType
  <2> HIDE DEF a
  <2> QED
    BY <2>1, <2>2 DEF LayerInv, Running
<1>12. ASSUME NEW n \in Node, FixLayer(n) PROVE LayerInv'
  <2>1. /\ pc = "fix" /\ pc' = "fix" /\ n \in queue
        /\ UNCHANGED <<upstreams, downstreams, active>>
    BY <1>12 DEF FixLayer
  <2>2. PICK required \in Required(upstreams[n]) :
          /\ layer' = [layer EXCEPT ![n] = Larger(layer[n], required)]
          /\ queue' = (queue \ {n}) \cup
                (IF Larger(layer[n], required) > layer[n] THEN {e.node : e \in downstreams[n]}
                                                          ELSE {})
    BY <1>12 DEF FixLayer
  <2> DEFINE fixed == Larger(layer[n], required)
  <2>3. required \in Nat /\ \A e \in upstreams[n] : layer[e.node] < required
    <3>1. upstreams[n] \in SUBSET Edge
      BY DEF GraphType
    <3> QED
      BY <3>1, RequiredIsLayer
  <2>4. /\ fixed \in Nat /\ fixed >= required /\ fixed >= layer[n] /\ layer[n] \in Nat
        /\ layer'[n] = fixed /\ \A m \in Node \ {n} : layer'[m] = layer[m]
    BY <2>2, <2>3 DEF Larger, GraphType
  <2>5. fixed > layer[n] => queue' = (queue \ {n}) \cup {e.node : e \in downstreams[n]}
    BY <2>2
  <2>6. queue \ {n} \subseteq queue'
    BY <2>2
  <2> HIDE DEF fixed
  <2>7. ASSUME NEW m \in active, NEW e \in upstreams[m]
        PROVE  layer'[e.node] < layer'[m] \/ m \in queue'
    <3>1. m \in Node /\ e \in Edge /\ e.node \in Node /\ layer[e.node] \in Nat /\ layer[m] \in Nat
      BY DEF GraphType, Edge
    <3>2. layer[e.node] < layer[m] \/ m \in queue
      BY <2>1 DEF LayerInv, Running
    <3>3. CASE e.node = n /\ fixed > layer[n]
      <4>1. EdgeTo(n, e.active) = e /\ e.active \in BOOLEAN
        BY <3>1, <3>3 DEF EdgeTo, Edge
      <4>2. EdgeTo(m, e.active) \in downstreams[n]
        BY <2>1, <4>1 DEF MirrorInv, Running, Unlinked
      <4> QED
        BY <2>5, <3>3, <4>2, SameEdge
    <3>4. CASE e.node = n /\ ~ (fixed > layer[n])
      BY <2>3, <2>4, <2>6, <3>1, <3>2, <3>4
    <3>5. CASE e.node # n /\ m = n
      BY <2>3, <2>4, <3>1, <3>5
    <3>6. CASE e.node # n /\ m # n
      BY <2>4, <2>6, <3>1, <3>2, <3>6
    <3> QED
      BY <3>3, <3>4, <3>5, <3>6
  <2> QED
    BY <2>1, <2>7 DEF LayerInv
<1> QED
  BY <1>1, <1>2, <1>3, <1>4, <1>5, <1>6, <1>7, <1>8, <1>9, <1>10, <1>11, <1>12
  DEF Next, Batch, Removals, Additions
-----------------------------------------------------------------------------
(* Before the shutdown stop() is called on removed nodes only. *)
LEMMA StopStep ==
  ASSUME DynamicInv, [Next]_vars
  PROVE  StopInv'
<1> /\ TypeOK /\ GraphType /\ GraphType' /\ RequestType /\ CrawlType /\ CallType
    /\ StopInv /\ PathInv /\ StartedInv /\ ListsRegistered
  BY GraphTypeStep DEF DynamicInv, TypeOK
<1> SUFFICES ASSUME Running' PROVE StopInv'
  BY DEF StopInv
<1>0. Running /\ Registered \subseteq Registered'
  BY NoReturn, RegisteredGrows
<1> USE <1>0
<1>1. CASE tried'["stop"] = tried["stop"] /\ active' = active
  BY <1>1 DEF StopInv
<1>2. CASE ApplyNode \/ ApplyError
  <2>1. pc \in {"setup", "start"} /\ active' = active
    BY <1>2 DEF ApplyNode, ApplyError, Phases, Running
  <2>2. tried'["stop"] = tried["stop"]
    BY <1>2, <2>1 DEF ApplyNode, ApplyError, Succeed, Err, Try, CallType, Call
  <2> QED
    BY <1>1, <2>1, <2>2
<1>3. CASE CallNew \/ CallNewError
  BY <1>1, <1>3 DEF CallNew, CallNewError, Succeed, Err, Try, NewCall, CallType, Call
<1>4. CASE Remove
  <2>1. /\ Removal \in Node /\ Removal \in Registered
        /\ active' = active \ {Removal}
    BY <1>4 DEF Remove, Removal, RequestType
  <2>2. \A n \in Node : n # Removal => tried'["stop"][n] = tried["stop"][n]
    BY <1>4, <2>1 DEF Remove, CallType, Call
  <2> QED
    BY <2>1, <2>2 DEF StopInv
<1>5. CASE RemoveStopError \/ RemoveTeardownError
  BY <1>5 DEF RemoveStopError, RemoveTeardownError, RunFails, Running
<1>6. CASE CrawlRegister
  <2>1. Top \in Node /\ Top \notin Registered /\ active' = active \cup {Top} /\ tried' = tried
    BY <1>6, TopIsNode DEF CrawlRegister, PathInv
  <2> QED
    BY <2>1 DEF StopInv
<1> QED
  BY <1>1, <1>2, <1>3, <1>4, <1>5, <1>6
  DEF Next, Lifecycle, Cycle, Batch, Removals, Additions, vars, ApplyDone, EnterNode, AddUpstream,
      RemoveNode, Return, ReturnError, NodesDone, RunEnds, SkipRemoval, RemovalsDone, CrawlSkip,
      CrawlStart, CrawlDescend, CrawlCycle, CrawlLeafDone, AdditionsCrawled, LinkNew, LinkDone,
      WireCaller, FixLayer, FixDone, Walk, WalkDone, WireDone, CallNewDone

(* What is due at a position has been done.  A step that only moves on     *)
(* keeps it when nothing new is due.                                       *)
LEMMA StartedFrame ==
  ASSUME StartedInv, GraphType, Running', Running, nodes' = nodes, ok \subseteq ok',
         pc' \notin {"setup", "start"},
         \A x \in 1..Len(nodes) : /\ SetupDue(x)' => SetupDue(x)
                                  /\ StartDue(x)' => StartDue(x)
  PROVE  StartedInv'
  BY DEF StartedInv

LEMMA StartedStep ==
  ASSUME DynamicInv, [Next]_vars
  PROVE  StartedInv'
<1> /\ TypeOK /\ GraphType /\ GraphType' /\ RequestType /\ CrawlType /\ CallType
    /\ RequestsInv /\ StartedInv /\ ListsRegistered
  BY GraphTypeStep DEF DynamicInv, TypeOK
<1> SUFFICES ASSUME Running' PROVE StartedInv'
  BY DEF StartedInv, Running
<1>0. Running /\ Len(nodes) \in Nat /\ pos \in Nat /\ start_index \in Nat /\ start_index <= Len(nodes)
  BY NoReturn, Positions DEF RequestType, RequestsInv
<1> USE <1>0
<1>1. CASE ApplyNode
  <2>1. /\ pc \in {"setup", "start"} /\ pc' = pc /\ pos' = pos + 1 /\ pos \in 1..Len(nodes)
        /\ UNCHANGED <<nodes, active, start_index>>
    BY <1>1 DEF ApplyNode, Phases, Running, RequestType
  <2>2. nodes[pos] \in active
    BY <2>1, Positions DEF StartedInv
  <2>3. ok' = ok \cup {<<pc, nodes[pos]>>}
    BY <1>1, <2>2 DEF ApplyNode, Succeed
  <2>4. Registered' = Registered
    BY <2>1 DEF Registered
  <2> QED
    BY <2>1, <2>3, <2>4 DEF StartedInv, SetupDue, StartDue, Old, Settled
<1>2. CASE ApplyError
  BY <1>2 DEF ApplyError, Phases, Running, Follows
<1>3. CASE ApplyDone
  <2>1. /\ pos > Len(nodes) /\ UNCHANGED <<nodes, active, ok>> /\ pos' = 1
        /\ \/ pc = "setup" /\ pc' = "start"
           \/ pc = "start" /\ pc' = "cycle"
    BY <1>3 DEF ApplyDone, Phases, Running, Follows
  <2>2. Registered' = Registered
    BY <2>1 DEF Registered
  <2> QED
    BY <2>1, <2>2 DEF StartedInv, SetupDue, StartDue, Old, Settled
<1>4. CASE Cycle
  <2>1. /\ UNCHANGED <<nodes, ok>> /\ pc \in {"cycle", "node"}
        /\ pc' \in {"cycle", "node", "removals", "stop"}
    BY <1>4 DEF Cycle, EnterNode, AddUpstream, RemoveNode, Return, ReturnError, NodesDone, RunEnds,
                RunFails
  <2>2. pc' # "stop"
    BY DEF Running
  <2> QED
    BY <2>1, <2>2, StartedFrame DEF SetupDue, StartDue, Settled
<1>5. CASE SkipRemoval \/ Remove \/ RemovalsDone
  <2>1. /\ nodes' = nodes /\ ok \subseteq ok' /\ pc = "removals"
        /\ pc' \in {"removals", "cycle", "additions"}
    BY <1>5 DEF SkipRemoval, Remove, RemovalsDone
  <2> QED
    BY <2>1, StartedFrame DEF SetupDue, StartDue, Settled
<1>6. CASE RemoveStopError \/ RemoveTeardownError \/ CrawlCycle \/ CallNewError
  BY <1>6 DEF RemoveStopError, RemoveTeardownError, CrawlCycle, CallNewError, RunFails, Running
<1>7. CASE \/ CrawlSkip \/ CrawlStart \/ CrawlDescend \/ CrawlLeafDone \/ AdditionsCrawled
           \/ LinkNew \/ LinkDone \/ WireCaller \/ FixDone \/ WalkDone
           \/ \E n \in Node : FixLayer(n) \/ Walk(n)
  <2>1. /\ UNCHANGED <<nodes, ok, start_index>>
        /\ pc \in {"additions", "crawl", "link", "wire", "fix", "walk"}
        /\ pc' \in {"additions", "crawl", "link", "wire", "fix", "walk"}
    BY <1>7 DEF CrawlSkip, CrawlStart, CrawlDescend, CrawlLeafDone, AdditionsCrawled, LinkNew,
                LinkDone, WireCaller, FixDone, WalkDone, FixLayer, Walk
  <2> QED
    BY <2>1, StartedFrame DEF SetupDue, StartDue, Old, Settled
<1>8. CASE WireDone
  <2>1. /\ UNCHANGED <<nodes, ok, start_index>> /\ pc = "wire" /\ pc' = "newsetup"
        /\ pos' = start_index + 1
    BY <1>8 DEF WireDone
  <2> QED
    BY <2>1, StartedFrame DEF SetupDue, StartDue, Old, Settled
<1>9. CASE CrawlRegister
  <2>1. /\ nodes' = Append(nodes, Top) /\ UNCHANGED <<ok, start_index, pc>> /\ pc = "crawl"
    BY <1>9 DEF CrawlRegister
  <2>2. Top \in Node
    BY <1>9, TopIsNode DEF CrawlRegister
  <2>3. /\ Len(nodes') = Len(nodes) + 1
        /\ \A x \in 1..Len(nodes) : nodes'[x] = nodes[x]
    BY <2>1, <2>2, Registers
  <2> QED
    BY <2>1, <2>3 DEF StartedInv, SetupDue, StartDue, Old, Settled
<1>10. CASE CallNew
  <2>1. /\ UNCHANGED <<nodes, start_index, pc>> /\ pc \in {"newsetup", "newstart"}
        /\ pos' = pos + 1 /\ ok' = ok \cup {<<NewCall, nodes[pos]>>} /\ pos \in 1..Len(nodes)
    BY <1>10 DEF CallNew, Succeed, RequestType
  <2>2. CASE pc = "newsetup"
    <3>1. NewCall = "setup"
      BY <2>2 DEF NewCall
    <3> QED
      BY <2>1, <2>2, <3>1 DEF StartedInv, SetupDue, StartDue, Old, Settled
  <2>3. CASE pc = "newstart"
    <3>1. NewCall = "start"
      BY <2>3 DEF NewCall
    <3> QED
      BY <2>1, <2>3, <3>1 DEF StartedInv, SetupDue, StartDue, Old, Settled
  <2> QED
    BY <2>1, <2>2, <2>3
<1>11. CASE CallNewDone
  <2>1. /\ UNCHANGED <<nodes, start_index, ok>> /\ pos > Len(nodes)
        /\ \/ pc = "newsetup" /\ pc' = "newstart" /\ pos' = start_index + 1
           \/ pc = "newstart" /\ pc' = "cycle"
    BY <1>11 DEF CallNewDone
  <2> QED
    BY <2>1, StartedFrame DEF SetupDue, StartDue, Old, Settled
<1>12. CASE UNCHANGED vars
  BY <1>12 DEF vars, StartedInv, SetupDue, StartDue, Old, Settled, Running, Registered
<1> QED
  BY <1>1, <1>2, <1>3, <1>4, <1>5, <1>6, <1>7, <1>8, <1>9, <1>10, <1>11, <1>12
  DEF Next, Lifecycle, Batch, Removals, Additions

-----------------------------------------------------------------------------
LEMMA InitInv ==
  ASSUME Init
  PROVE  DynamicInv
<1> USE DynamicAssumption
<1>1. /\ nodes = Initial /\ layer = InitialLayer /\ active = Range(Initial)
      /\ Registered = Range(Initial) /\ Range(Initial) \subseteq Node /\ pc = "setup"
      /\ Running /\ Unlinked = {}
  <2>1. Range(Initial) \subseteq Node
    BY DEF Range
  <2> QED
    BY <2>1 DEF Init, Registered, Running, Unlinked
<1>2. \A n \in Node : upstreams[n] = IF n \in Range(Initial) THEN EdgesOf(n) ELSE {}
  BY DEF Init
<1>3. \A n \in Node : downstreams[n] =
        {e \in Edge : e.node \in Range(Initial) /\ EdgeTo(n, e.active) \in EdgesOf(e.node)}
  BY DEF Init
<1>4. \A n \in Node : EdgesOf(n) \in SUBSET Edge
  BY EdgesTyped
<1>5. \A n \in Range(Initial) : \A e \in EdgesOf(n) :
        e.node \in Range(Initial) /\ layer[e.node] < layer[n]
  <2>1. \A n \in Node : \A e : e \in EdgesOf(n) => e.node \in Heads(Declared[n])
    BY DEF EdgesOf, Heads
  <2> QED
    BY <1>1, <2>1
<1>6. GraphType
  <2>1. upstreams \in [Node -> SUBSET Edge] /\ downstreams \in [Node -> SUBSET Edge]
    BY <1>4 DEF Init
  <2> QED
    BY <1>1, <2>1 DEF Init, GraphType
<1>7. RequestType /\ CrawlType /\ CallType
  BY DEF Init, RequestType, CrawlType, CallType
<1>8. ListsRegistered
  <2>1. ASSUME NEW n \in Node, NEW e \in downstreams[n]
        PROVE  e.node \in Range(Initial) /\ n \in Range(Initial)
    <3>1. e.node \in Range(Initial) /\ EdgeTo(n, e.active) \in EdgesOf(e.node)
      BY <1>3
    <3> QED
      BY <1>5, <3>1, SameEdge
  <2> QED
    BY <1>1, <1>2, <1>5, <2>1 DEF ListsRegistered
<1>9. RequestsInv /\ PathInv
  BY <1>1 DEF Init, RequestsInv, PathInv
<1>10. MirrorInv
  <2>1. ASSUME NEW n \in Node, NEW m \in active, NEW act \in BOOLEAN
        PROVE  EdgeTo(n, act) \in upstreams[m] <=> EdgeTo(m, act) \in downstreams[n]
    <3>1. m \in Range(Initial) /\ m \in Node /\ upstreams[m] = EdgesOf(m)
      BY <1>1, <1>2
    <3>2. EdgeTo(m, act) \in Edge /\ EdgeTo(m, act).node = m /\ EdgeTo(m, act).active = act
      BY <3>1, SameEdge
    <3> QED
      BY <1>3, <3>1, <3>2
  <2> QED
    BY <2>1, <1>1 DEF MirrorInv
<1>11. LayerInv
  BY <1>1, <1>2, <1>5 DEF LayerInv
<1>12. StopInv
  BY DEF Init, StopInv, Call
<1>13. StartedInv
  BY <1>1 DEF Init, StartedInv, SetupDue, StartDue, Old, Settled
<1> QED
  BY <1>6, <1>7, <1>8, <1>9, <1>10, <1>11, <1>12, <1>13 DEF DynamicInv, TypeOK

-----------------------------------------------------------------------------
(* Every run of a graph that nodes edit while it runs keeps DynamicInv.    *)
THEOREM DynamicInvariant == Spec => []DynamicInv
<1>1. DynamicInv /\ [Next]_vars => DynamicInv'
  BY TypeStep, ListsStep, RequestsStep, PathStep, MirrorStep, LayerStep, StopStep, StartedStep
  DEF DynamicInv
<1> QED
  BY <1>1, InitInv, PTL DEF Spec

(* Whatever has been added and removed, every active node is above its     *)
(* upstreams when a cycle runs: fix_layers restores the order on which     *)
(* GraphEngineProofs rests.                                                *)
THEOREM LayersStayOrdered == Spec => []LayersOrdered
<1>1. DynamicInv => LayersOrdered
  BY DEF DynamicInv, LayerInv, LayersOrdered, Running
<1> QED
  BY <1>1, DynamicInvariant, PTL

(* The lists of active nodes mirror each other when a cycle runs.          *)
THEOREM LinksStayMirrored == Spec => []LinksAgree
<1>1. DynamicInv => LinksAgree
  BY DEF DynamicInv, TypeOK, GraphType, MirrorInv, LinksAgree, Running, Unlinked
<1> QED
  BY <1>1, DynamicInvariant, PTL

(* cycle() is called on started nodes only: neither on a removed node that *)
(* still has callbacks, nor on a new one before its start().               *)
THEOREM OnlyStartedRun == Spec => []RunsStarted
<1>1. ASSUME DynamicInv PROVE RunsStarted
  <2>1. current # NoNode => pc = "node" /\ current \in active
    BY <1>1 DEF DynamicInv, RequestsInv
  <2>2. ASSUME pc = "node", current \in active
        PROVE  /\ <<"setup", current>> \in ok /\ <<"start", current>> \in ok
               /\ tried["stop"][current] = 0
    <3>1. current \in Node /\ Running
      BY <1>1, <2>2 DEF DynamicInv, TypeOK, GraphType, Running
    <3>2. PICK x \in 1..Len(nodes) : current = nodes[x]
      BY <1>1, <2>2, Positions DEF DynamicInv, TypeOK, ListsRegistered
    <3> QED
      BY <1>1, <2>2, <3>1, <3>2
      DEF DynamicInv, StopInv, StartedInv, SetupDue, StartDue, Settled
  <2> QED
    BY <2>1, <2>2 DEF RunsStarted
<1> QED
  BY <1>1, DynamicInvariant, PTL

(* A removal leaves no trace of the node in a list of an active node.      *)
THEOREM RemovalsDetach == Spec => RemovalDetaches
<1> DEFINE Detached ==
      \A r \in active \ active', m \in active', act \in BOOLEAN :
        EdgeTo(r, act) \notin upstreams'[m] /\ EdgeTo(r, act) \notin downstreams'[m]
<1>1. ASSUME DynamicInv, [Next]_vars PROVE Detached
  <2>1. CASE Remove
    <3>1. /\ pc = "removals" /\ Removal \in active /\ Unlink(Removal)
          /\ active' = active \ {Removal}
      BY <2>1 DEF Remove
    <3> QED
      BY <1>1, <3>1, RemovedFromUpstreams DEF DynamicInv, TypeOK
  <2>2. CASE active \subseteq active'
    BY <2>2
  <2> QED
    BY <1>1, <2>1, <2>2, StepKinds
    DEF Quiet, CrawlRegister, LinkNew, WireCaller, RemoveStopError, RemoveTeardownError
<1>2. DynamicInv /\ [Next]_vars => [Detached]_vars
  BY <1>1
<1> QED
  BY <1>2, DynamicInvariant, PTL DEF Spec, RemovalDetaches

(* Batches of removals and additions leave a well-wired graph of started   *)
(* nodes.                                                                  *)
THEOREM GraphStaysSound == Spec => []GraphSound
BY LayersStayOrdered, LinksStayMirrored, OnlyStartedRun, PTL DEF GraphSound
-----------------------------------------------------------------------------
(* A node is registered once. *)
LEMMA DistinctStep ==
  ASSUME DynamicInv, DistinctInv, [Next]_vars
  PROVE  DistinctInv'
<1> TypeOK /\ GraphType /\ GraphType' /\ CrawlType /\ PathInv
  BY GraphTypeStep DEF DynamicInv, TypeOK
<1>1. CASE CrawlRegister
  <2>1. /\ nodes' = Append(nodes, Top) /\ path # <<>> /\ pc = "crawl"
    BY <1>1 DEF CrawlRegister
  <2>2. Top \in Node /\ Top \notin Registered
    BY <2>1, TopIsNode DEF PathInv
  <2>3. /\ Len(nodes') = Len(nodes) + 1 /\ Len(nodes) \in Nat
        /\ nodes'[Len(nodes) + 1] = Top
        /\ \A x \in 1..Len(nodes) : nodes'[x] = nodes[x] /\ nodes[x] # Top
    BY <2>1, <2>2, Registers, Positions
  <2> QED
    BY <2>3 DEF DistinctInv
<1>2. CASE nodes' = nodes
  BY <1>2 DEF DistinctInv
<1> QED
  BY <1>1, <1>2, StepKinds
  DEF Quiet, LinkNew, WireCaller, Remove, RemoveStopError, RemoveTeardownError

(* The steps that make no call and register or remove no node. *)
Calm == /\ UNCHANGED <<nodes, active, tried, ok>>
        /\ Running
        /\ Running' \/ (pc' = "stop" /\ pos' = 1)

LEMMA CallKinds ==
  ASSUME [Next]_vars
  PROVE  \/ Calm \/ UNCHANGED vars
         \/ ApplyNode \/ ApplyError \/ ApplyDone
         \/ Remove \/ RemoveStopError \/ RemoveTeardownError
         \/ CrawlRegister \/ CallNew \/ CallNewError
<1>1. CASE Cycle
  BY <1>1 DEF Cycle, EnterNode, AddUpstream, RemoveNode, Return, ReturnError, NodesDone,
              RunEnds, RunFails, Running, Calm
<1>2. CASE SkipRemoval \/ RemovalsDone
  BY <1>2 DEF SkipRemoval, RemovalsDone, Running, Calm
<1>3. CASE \/ CrawlSkip \/ CrawlStart \/ CrawlDescend \/ CrawlCycle
           \/ CrawlLeafDone \/ AdditionsCrawled \/ LinkNew \/ LinkDone
           \/ WireCaller \/ FixDone \/ WalkDone \/ WireDone
           \/ (\E n \in Node : FixLayer(n) \/ Walk(n)) \/ CallNewDone
  BY <1>3
  DEF CrawlSkip, CrawlStart, CrawlDescend, CrawlCycle, CrawlLeafDone,
      AdditionsCrawled, LinkNew, LinkDone, WireCaller, FixLayer, FixDone, Walk, WalkDone,
      WireDone, CallNewDone, RunFails, Running, Calm
<1> QED
  BY <1>1, <1>2, <1>3 DEF Next, Lifecycle, Batch, Removals, Additions

(* The counts a call changes. *)
LEMMA TriedBy ==
  ASSUME CallType, NEW c \in Call, NEW n \in Node, Try(c, n)
  PROVE  /\ tried'[c][n] = tried[c][n] + 1
         /\ \A d \in Call, m \in Node : d # c \/ m # n => tried'[d][m] = tried[d][m]
  BY DEF CallType, Try

LEMMA OnceFrame ==
  ASSUME OnceInv, UNCHANGED <<nodes, active>>,
         \A n \in Node, c \in {"stop", "teardown"} : Unfailing(n) => tried'[c][n] = tried[c][n],
         \A c \in {"stop", "teardown"}, x \in 1..Len(nodes) : Waiting(c, x)' => Waiting(c, x)
  PROVE  OnceInv'
  BY DEF OnceInv, Unfailing, Registered

(* At the end of the run the position only grows. *)
LEMMA OnceStep ==
  ASSUME DynamicInv, DistinctInv, OnceInv, [Next]_vars
  PROVE  OnceInv'
<1> /\ TypeOK /\ GraphType /\ GraphType' /\ RequestType /\ CrawlType /\ CallType
    /\ PathInv /\ ListsRegistered
  BY GraphTypeStep DEF DynamicInv, TypeOK
<1>0. /\ "stop" \in Call /\ "teardown" \in Call
      /\ Len(nodes) \in Nat /\ pos \in Nat /\ pos >= 1
      /\ \A x \in 1..Len(nodes) : nodes[x] \in Node /\ nodes[x] \in Registered
  BY Positions DEF Call, RequestType, GraphType
<1>1. CASE Calm
  <2>1. \A c, x : Waiting(c, x)
    BY <1>1 DEF Calm, Waiting
  <2> QED
    BY <1>1, <2>1, OnceFrame DEF Calm
<1>2. CASE UNCHANGED vars
  <2>1. \A c, x : Waiting(c, x)' => Waiting(c, x)
    BY <1>2 DEF vars, Waiting, Running
  <2> QED
    BY <1>2, <2>1, OnceFrame DEF vars
<1>3. CASE ApplyDone
  <2>1. \A c \in {"stop", "teardown"}, x \in 1..Len(nodes) : Waiting(c, x)' => Waiting(c, x)
    BY <1>0, <1>3 DEF ApplyDone, Phases, Follows, Waiting, Running
  <2> QED
    BY <1>3, <2>1, OnceFrame DEF ApplyDone
<1>4. CASE ApplyError
  <2>1. \A c \in {"stop", "teardown"}, x \in 1..Len(nodes) : Waiting(c, x)' => Waiting(c, x)
    BY <1>0, <1>4 DEF ApplyError, Phases, Follows, Waiting, Running
  <2>2. /\ pc \in Phases /\ pos \in 1..Len(nodes) /\ Try(pc, nodes[pos])
        /\ <<pc, nodes[pos]>> \in Fails /\ UNCHANGED <<nodes, active>>
    BY <1>0, <1>4 DEF ApplyError, Err
  <2>3. ASSUME NEW n \in Node, NEW c \in {"stop", "teardown"}, Unfailing(n)
        PROVE  tried'[c][n] = tried[c][n]
    <3>1. c # pc \/ n # nodes[pos]
      BY <2>2, <2>3 DEF Unfailing
    <3> QED
      BY <1>0, <2>2, <3>1, TriedBy DEF Phases, Call
  <2> QED
    BY <2>1, <2>2, <2>3, OnceFrame
<1>5. CASE ApplyNode
  <2>1. /\ pc \in Phases /\ pos \in 1..Len(nodes) /\ pos' = pos + 1
        /\ UNCHANGED <<nodes, active, pc>>
    BY <1>0, <1>5 DEF ApplyNode
  <2>2. \A c \in {"stop", "teardown"}, x \in 1..Len(nodes) : Waiting(c, x)' => Waiting(c, x)
    BY <1>0, <2>1 DEF Waiting, Running
  <2>3. CASE nodes[pos] \notin active
    BY <1>5, <2>1, <2>2, <2>3, OnceFrame DEF ApplyNode
  <2>4. CASE nodes[pos] \in active /\ pc \in {"setup", "start"}
    <3>1. Try(pc, nodes[pos]) /\ pc \in Call /\ nodes[pos] \in Node
      BY <1>0, <1>5, <2>1, <2>4 DEF ApplyNode, Succeed, Call
    <3>2. \A n \in Node, c \in {"stop", "teardown"} : tried'[c][n] = tried[c][n]
      BY <1>0, <2>4, <3>1, TriedBy
    <3> QED
      BY <2>1, <2>2, <3>2, OnceFrame
  <2>5. CASE nodes[pos] \in active /\ pc \in {"stop", "teardown"}
    <3>1. Try(pc, nodes[pos]) /\ pc \in Call /\ nodes[pos] \in Node
      BY <1>0, <1>5, <2>1, <2>5 DEF ApplyNode, Succeed, Call
    <3>2. ASSUME NEW n \in Node, NEW c \in {"stop", "teardown"}, Unfailing(n)
          PROVE  /\ tried'[c][n] <= 1
                 /\ n \notin Registered' => tried'[c][n] = 0
                 /\ n \in active' => \A x \in 1..Len(nodes') :
                       nodes'[x] = n /\ Waiting(c, x)' => tried'[c][n] = 0
      <4>1. /\ tried[c][n] <= 1
            /\ n \notin Registered => tried[c][n] = 0
            /\ n \in active => \A x \in 1..Len(nodes) :
                       nodes[x] = n /\ Waiting(c, x) => tried[c][n] = 0
        BY <3>2 DEF OnceInv
      <4>2. Registered' = Registered
        BY <2>1 DEF Registered
      <4>3. CASE c = pc /\ n = nodes[pos]
        <5>1. Waiting(c, pos)
          BY <1>0, <2>5, <4>3 DEF Waiting
        <5>2. tried[c][n] = 0 /\ tried'[c][n] = 1
          BY <2>1, <2>5, <3>1, <4>1, <4>3, <5>1, TriedBy
        <5>3. \A x \in 1..Len(nodes) : nodes[x] = n => x = pos
          BY <2>1, <4>3 DEF DistinctInv
        <5>4. \A x \in 1..Len(nodes) : x = pos => ~Waiting(c, x)'
          BY <1>0, <2>1, <2>5, <4>3 DEF Waiting, Running
        <5> QED
          BY <1>0, <2>1, <4>2, <4>3, <5>2, <5>3, <5>4
      <4>4. CASE c # pc \/ n # nodes[pos]
        <5>1. tried'[c][n] = tried[c][n]
          BY <1>0, <3>1, <4>4, TriedBy
        <5> QED
          BY <2>1, <2>2, <4>1, <4>2, <5>1
      <4> QED
        BY <4>3, <4>4
    <3> QED
      BY <3>2 DEF OnceInv, Unfailing
  <2> QED
    BY <2>1, <2>3, <2>4, <2>5 DEF Phases
<1>6. CASE CallNew \/ CallNewError
  <2>1. /\ Try(NewCall, nodes[pos]) /\ pos \in 1..Len(nodes) /\ Running
        /\ NewCall \in {"setup", "start"} /\ UNCHANGED <<nodes, active>>
    BY <1>0, <1>6 DEF CallNew, CallNewError, Succeed, Err, NewCall, Running
  <2>2. \A n \in Node, c \in {"stop", "teardown"} : tried'[c][n] = tried[c][n]
    BY <1>0, <2>1, TriedBy DEF Call
  <2> QED
    BY <2>1, <2>2, OnceFrame DEF Waiting
<1>7. CASE CrawlRegister
  <2>1. /\ nodes' = Append(nodes, Top) /\ path # <<>> /\ pc = "crawl" /\ tried' = tried
        /\ active' = active \cup {Top}
    BY <1>7 DEF CrawlRegister
  <2>2. Top \in Node /\ Top \notin Registered /\ Running
    BY <2>1, TopIsNode DEF PathInv, Running
  <2>3. /\ Registered' = Registered \cup {Top}
        /\ Len(nodes') = Len(nodes) + 1
        /\ nodes'[Len(nodes) + 1] = Top
        /\ \A x \in 1..Len(nodes) : nodes'[x] = nodes[x]
    BY <2>1, <2>2, Registers
  <2>4. \A n \in Node, c \in {"stop", "teardown"} : Unfailing(n) =>
          (n \in active \/ n \notin Registered => tried[c][n] = 0)
    <3>1. \A n \in active : \E x \in 1..Len(nodes) : nodes[x] = n
      BY Positions DEF ListsRegistered
    <3>2. \A c, x : Waiting(c, x)
      BY <2>2 DEF Waiting
    <3> QED
      BY <3>1, <3>2 DEF OnceInv
  <2> QED
    BY <2>1, <2>2, <2>3, <2>4 DEF OnceInv, Unfailing
<1>8. CASE RemoveStopError \/ RemoveTeardownError
  <2>1. /\ Removal \in Node /\ pc = "removals" /\ UNCHANGED <<nodes, active>>
    BY <1>0, <1>8 DEF RemoveStopError, RemoveTeardownError, Removal, RequestType
  <2>2. ASSUME NEW n \in Node, NEW c \in {"stop", "teardown"}, Unfailing(n)
        PROVE  tried'[c][n] = tried[c][n]
    <3>1. n # Removal
      BY <1>8, <2>2 DEF RemoveStopError, RemoveTeardownError, Unfailing, Err
    <3>2. CASE RemoveStopError
      BY <1>0, <2>1, <3>1, <3>2, TriedBy DEF RemoveStopError, Err
    <3>3. CASE RemoveTeardownError
      BY <1>0, <2>1, <3>1, <3>3 DEF RemoveTeardownError, CallType
    <3> QED
      BY <1>8, <3>2, <3>3
  <2> QED
    BY <2>1, <2>2, OnceFrame DEF Waiting, Running
<1>9. CASE Remove
  <2>1. /\ Removal \in Node /\ Removal \in active /\ pc = "removals" /\ UNCHANGED <<nodes, pc>>
        /\ active' = active \ {Removal} /\ Removal \in Registered
    BY <1>0, <1>9 DEF Remove, Removal, RequestType
  <2>2. /\ \A n \in Node, c \in {"stop", "teardown"} : n # Removal => tried'[c][n] = tried[c][n]
        /\ \A c \in {"stop", "teardown"} : tried'[c][Removal] = tried[c][Removal] + 1
    BY <1>0, <1>9, <2>1 DEF Remove, CallType
  <2>3. \A c, x : Waiting(c, x) /\ Waiting(c, x)'
    BY <2>1 DEF Waiting, Running
  <2>4. Unfailing(Removal) => \A c \in {"stop", "teardown"} : tried[c][Removal] = 0
    <3>1. \E x \in 1..Len(nodes) : nodes[x] = Removal
      BY <2>1, Positions
    <3> QED
      BY <2>1, <2>3, <3>1 DEF OnceInv
  <2>5. Registered' = Registered
    BY <2>1 DEF Registered
  <2> QED
    BY <2>1, <2>2, <2>3, <2>4, <2>5 DEF OnceInv, Unfailing
<1> QED
  BY <1>1, <1>2, <1>3, <1>4, <1>5, <1>6, <1>7, <1>8, <1>9, CallKinds

(* A step that completes no call and moves past no node. *)
LEMMA ReleaseFrame ==
  ASSUME ReleaseInv, UNCHANGED <<nodes, active>>, ok \subseteq ok', Running', 
         \A n \in Node : /\ <<"setup", n>> \in ok' => <<"setup", n>> \in ok \/ n \in Registered
                         /\ <<"start", n>> \in ok' => <<"start", n>> \in ok \/ n \in Registered
  PROVE  ReleaseInv'
  BY DEF ReleaseInv, Registered, Running

LEMMA ReleaseStep ==
  ASSUME DynamicInv, ReleaseInv, [Next]_vars
  PROVE  ReleaseInv'
<1> /\ TypeOK /\ GraphType /\ GraphType' /\ RequestType /\ CrawlType /\ CallType
    /\ PathInv /\ ListsRegistered
  BY GraphTypeStep DEF DynamicInv, TypeOK
<1>0. /\ Len(nodes) \in Nat /\ pos \in Nat /\ pos >= 1
      /\ \A x \in 1..Len(nodes) : nodes[x] \in Node /\ nodes[x] \in Registered
      /\ \A n \in Registered : \E x \in 1..Len(nodes) : n = nodes[x]
      /\ Registered \subseteq Node
  BY Positions DEF RequestType, GraphType
<1>1. CASE Calm
  <2>1. CASE Running'
    BY <1>1, <2>1, ReleaseFrame DEF Calm
  <2>2. CASE pc' = "stop" /\ pos' = 1
    BY <1>1, <2>2 DEF Calm, ReleaseInv, Registered
  <2> QED
    BY <1>1, <2>1, <2>2 DEF Calm
<1>2. CASE UNCHANGED vars
  BY <1>2 DEF vars, ReleaseInv, Registered
<1>3. CASE ApplyDone
  <2>1. /\ UNCHANGED <<nodes, active, ok, errors>> /\ pos > Len(nodes) /\ pos' = 1
        /\ \/ pc = "setup" /\ pc' = "start"
           \/ pc = "start" /\ pc' = "cycle"
           \/ pc = "stop" /\ pc' = "teardown"
           \/ pc = "teardown" /\ pc' = "done"
    BY <1>3 DEF ApplyDone, Phases, Follows
  <2>2. CASE pc \in {"setup", "start"}
    BY <2>1, <2>2, ReleaseFrame DEF Running
  <2>3. CASE pc = "stop" /\ pc' = "teardown"
    <3>1. \A x \in 1..Len(nodes) : <<"stop", nodes[x]>> \in ok
      BY <1>0, <2>1, <2>3 DEF ReleaseInv
    <3>2. \A n \in Registered : <<"stop", n>> \in ok
      BY <1>0, <3>1
    <3> QED
      BY <1>0, <2>1, <2>3, <3>2 DEF ReleaseInv, Registered
  <2>4. CASE pc = "teardown" /\ pc' = "done"
    <3>1. \A x \in 1..Len(nodes) : <<"teardown", nodes[x]>> \in ok
      BY <1>0, <2>1, <2>4 DEF ReleaseInv
    <3>2. \A n \in Registered : <<"teardown", n>> \in ok
      BY <1>0, <3>1
    <3> QED
      BY <1>0, <2>1, <2>4, <3>2 DEF ReleaseInv, Registered
  <2> QED
    BY <2>1, <2>2, <2>3, <2>4
<1>4. CASE ApplyError
  <2>1. /\ UNCHANGED <<nodes, active, ok>> /\ pos' = 1 /\ errors' = errors \cup {pc}
        /\ \/ pc = "setup" /\ pc' = "done"
           \/ pc = "start" /\ pc' = "stop"
           \/ pc = "stop" /\ pc' = "teardown"
           \/ pc = "teardown" /\ pc' = "done"
    BY <1>4 DEF ApplyError, Phases, Follows, Err
  <2> QED
    BY <2>1 DEF ReleaseInv, Registered
<1>5. CASE ApplyNode
  <2>1. /\ pc \in Phases /\ pos \in 1..Len(nodes) /\ pos' = pos + 1
        /\ UNCHANGED <<nodes, active, pc, errors>>
        /\ IF nodes[pos] \in active THEN ok' = ok \cup {<<pc, nodes[pos]>>} ELSE ok' = ok
    BY <1>0, <1>5 DEF ApplyNode, Succeed
  <2>2. pc \in {"stop", "teardown"} => <<pc, nodes[pos]>> \in ok'
    BY <1>0, <2>1 DEF ReleaseInv
  <2>3. \A x \in 1..Len(nodes) : x < pos + 1 => x < pos \/ x = pos
    BY <1>0
  <2>4. CASE pc \in {"setup", "start"}
    BY <1>0, <2>1, <2>4, ReleaseFrame DEF Running
  <2>5. CASE pc = "stop"
    <3>1. \A x \in 1..Len(nodes) : x < pos + 1 => <<"stop", nodes[x]>> \in ok'
      BY <2>1, <2>2, <2>3, <2>5 DEF ReleaseInv
    <3> QED
      BY <2>1, <2>5, <3>1 DEF ReleaseInv, Registered
  <2>6. CASE pc = "teardown"
    <3>1. \A x \in 1..Len(nodes) : x < pos + 1 => <<"teardown", nodes[x]>> \in ok'
      BY <2>1, <2>2, <2>3, <2>6 DEF ReleaseInv
    <3> QED
      BY <2>1, <2>6, <3>1 DEF ReleaseInv, Registered
  <2> QED
    BY <2>1, <2>4, <2>5, <2>6 DEF Phases
<1>6. CASE CallNew
  <2>1. /\ pos \in 1..Len(nodes) /\ UNCHANGED <<nodes, active, pc>> /\ Running'
        /\ ok' = ok \cup {<<NewCall, nodes[pos]>>}
    BY <1>0, <1>6 DEF CallNew, Succeed, Running
  <2> QED
    BY <1>0, <2>1, ReleaseFrame
<1>7. CASE CallNewError \/ RemoveStopError
  <2>1. /\ UNCHANGED <<nodes, active, ok>> /\ pc' = "stop" /\ pos' = 1
    BY <1>7 DEF CallNewError, RemoveStopError, Err, RunFails
  <2> QED
    BY <2>1 DEF ReleaseInv, Registered
<1>8. CASE RemoveTeardownError
  <2>1. /\ UNCHANGED <<nodes, active>> /\ ok' = ok \cup {<<"stop", Removal>>}
        /\ pc' = "stop" /\ pos' = 1
    BY <1>8 DEF RemoveTeardownError, RunFails
  <2> QED
    BY <2>1 DEF ReleaseInv, Registered
<1>9. CASE Remove
  <2>1. /\ nodes' = nodes /\ ok' = ok \cup {<<"stop", Removal>>, <<"teardown", Removal>>}
        /\ active' = active \ {Removal} /\ pc' = "removals"
    BY <1>9 DEF Remove
  <2> QED
    BY <2>1 DEF ReleaseInv, Registered
<1>10. CASE CrawlRegister
  <2>1. /\ nodes' = Append(nodes, Top) /\ path # <<>> /\ ok' = ok /\ pc' = "crawl"
        /\ active' = active \cup {Top}
    BY <1>10 DEF CrawlRegister
  <2>2. Registered' = Registered \cup {Top}
    BY <2>1, TopIsNode, Registers
  <2> QED
    BY <2>1, <2>2 DEF ReleaseInv
<1> QED
  BY <1>1, <1>2, <1>3, <1>4, <1>5, <1>6, <1>7, <1>8, <1>9, <1>10, CallKinds
-----------------------------------------------------------------------------
(* What raising a node does to the layers and their lists. *)
LEMMA FixEffect ==
  ASSUME GraphType, NEW n \in Node, FixLayer(n)
  PROVE  /\ layer' \in [Node -> Nat] /\ dirty_layers' \in Nat /\ dirty_layers \in Nat
         /\ \A m \in Node : layer[m] \in Nat /\ layer'[m] \in Nat /\ layer[m] <= layer'[m]
         /\ \A m \in Node : m # n => layer'[m] = layer[m]
         /\ \A e \in upstreams[n] : layer[e.node] + 1 < dirty_layers'
         /\ layer'[n] < dirty_layers'
         /\ dirty_layers <= dirty_layers'
         /\ queue \ {n} \subseteq queue'
<1>1. PICK required \in Required(upstreams[n]) :
        /\ layer' = [layer EXCEPT ![n] = Larger(layer[n], required)]
        /\ queue' = (queue \ {n}) \cup (IF Larger(layer[n], required) > layer[n]
                                        THEN {e.node : e \in downstreams[n]} ELSE {})
        /\ dirty_layers' = Larger(dirty_layers, Larger(layer[n], required) + 1)
  BY DEF FixLayer
<1>2. upstreams[n] \in SUBSET Edge
  BY DEF GraphType
<1>3. required \in Nat /\ \A e \in upstreams[n] : layer[e.node] < required
  BY <1>2, RequiredIsLayer
<1>4. \A e \in upstreams[n] : e.node \in Node /\ layer[e.node] \in Nat
  BY <1>2 DEF GraphType, Edge
<1>5. layer \in [Node -> Nat] /\ dirty_layers \in Nat /\ layer[n] \in Nat
  BY DEF GraphType
<1> DEFINE fixed == Larger(layer[n], required)
<1>6. fixed \in Nat /\ fixed >= layer[n] /\ fixed >= required
  BY <1>3, <1>5 DEF Larger
<1>7. dirty_layers' \in Nat /\ dirty_layers' >= dirty_layers /\ dirty_layers' >= fixed + 1
  BY <1>1, <1>5, <1>6 DEF Larger
<1>8. layer' = [layer EXCEPT ![n] = fixed] /\ queue \ {n} \subseteq queue'
  BY <1>1
<1> HIDE DEF fixed
<1>9. /\ layer' \in [Node -> Nat] /\ layer'[n] = fixed
      /\ \A m \in Node : m # n => layer'[m] = layer[m]
  BY <1>5, <1>6, <1>8
<1>10. \A m \in Node : layer[m] \in Nat /\ layer'[m] \in Nat /\ layer[m] <= layer'[m]
  BY <1>5, <1>6, <1>9
<1>11. \A e \in upstreams[n] : layer[e.node] + 1 < dirty_layers'
  BY <1>3, <1>4, <1>6, <1>7
<1>12. layer'[n] < dirty_layers'
  BY <1>6, <1>7, <1>9
<1> QED
  BY <1>5, <1>7, <1>8, <1>9, <1>10, <1>11, <1>12

(* The leaves of the batch are nodes of the graph. *)
LEMMA LeavesAreNodes ==
  ASSUME RequestType, NEW x \in 1..Len(additions)
  PROVE  Leaf(x) \in Node /\ additions[x].caller \in Node
  BY AdditionsTyped DEF Leaf

(* fix_layers on the caller gives the leaf's layer its list. *)
LEMMA LeafStep ==
  ASSUME DynamicInv, LeafInv, [Next]_vars
  PROVE  LeafInv'
<1> /\ TypeOK /\ GraphType /\ GraphType' /\ RequestType /\ CrawlType /\ CallType
    /\ RequestsInv /\ PathInv
  BY GraphTypeStep DEF DynamicInv, TypeOK
<1>0. pos \in Nat /\ Len(additions) \in Nat /\ Len(path) \in Nat
  BY DEF RequestType, CrawlType
<1>1. CASE pc' \notin {"wire", "fix", "walk", "crawl"}
  BY <1>1 DEF LeafInv
<1>2. CASE CrawlStart
  <2>1. pc' = "crawl" /\ path' = <<additions[pos].node>>
    BY <1>2 DEF CrawlStart
  <2>2. Len(path') = 1
    BY <2>1
  <2> QED
    BY <2>1, <2>2 DEF LeafInv
<1>3. CASE CrawlDescend
  <2>1. PICK z \in 1..Len(Declared[Top]) : path' = Append(path, Declared[Top][z].node)
    BY <1>3 DEF CrawlDescend
  <2>2. pc' = "crawl" /\ pc = "crawl" /\ path # <<>>
    BY <1>3 DEF CrawlDescend
  <2>3. Top = path[Len(path)] /\ Len(path) >= 1
    BY <1>0, <2>2, TopIsNode
  <2> DEFINE t == Declared[Top][z].node
  <2>4. t \in Heads(Declared[Top])
    BY DEF Heads
  <2>5. /\ Len(path') = Len(path) + 1
        /\ path'[Len(path) + 1] = t
        /\ \A y \in 1..Len(path) : path'[y] = path[y]
    BY <2>1 DEF CrawlType
  <2> HIDE DEF t
  <2>6. ASSUME NEW y \in 2..Len(path') PROVE path'[y] \in Heads(Declared[path'[y - 1]])
    <3>1. CASE y = Len(path) + 1
      BY <1>0, <2>3, <2>4, <2>5, <3>1
    <3>2. CASE y # Len(path) + 1
      <4>1. y \in 2..Len(path) /\ y \in 1..Len(path) /\ y - 1 \in 1..Len(path)
        BY <1>0, <2>5, <3>2
      <4> QED
        BY <2>2, <2>5, <4>1 DEF LeafInv
    <3> QED
      BY <3>1, <3>2
  <2> QED
    BY <2>2, <2>6 DEF LeafInv
<1>4. CASE CrawlRegister
  <2>1. pc' = "crawl" /\ pc = "crawl" /\ path # <<>> /\ path' = SubSeq(path, 1, Len(path) - 1)
    BY <1>4 DEF CrawlRegister
  <2>2. Len(path') = Len(path) - 1 /\ \A y \in 1..(Len(path) - 1) : path'[y] = path[y]
    BY <2>1, PathShorter
  <2>3. ASSUME NEW y \in 2..Len(path') PROVE path'[y] \in Heads(Declared[path'[y - 1]])
    <3>1. y \in 2..Len(path) /\ y \in 1..(Len(path) - 1) /\ y - 1 \in 1..(Len(path) - 1)
      BY <1>0, <2>2
    <3> QED
      BY <2>1, <2>2, <3>1 DEF LeafInv
  <2> QED
    BY <2>1, <2>3 DEF LeafInv
<1>5. CASE LinkDone
  BY <1>0, <1>5 DEF LinkDone, LeafInv
<1>6. CASE WireCaller
  <2>1. /\ pc = "wire" /\ pc' = "fix" /\ pos \in 1..Len(additions)
        /\ UNCHANGED <<layer, dirty_layers, additions, pos>>
        /\ queue' = {additions[pos].caller}
        /\ \/ Wired(additions[pos])
           \/ upstreams' = [upstreams EXCEPT ![additions[pos].caller] =
                              @ \cup {EdgeTo(additions[pos].node, additions[pos].active)}]
    BY <1>6 DEF WireCaller, RequestType
  <2>2. \A x \in 1..Len(additions) : x < pos => Covered(Leaf(x))
    BY <2>1 DEF LeafInv
  <2>3. CASE Wired(additions[pos])
    <3>1. PICK x \in 1..(pos - 1) : additions[x].node = additions[pos].node
      BY <2>3 DEF Wired
    <3>2. Covered(Leaf(pos))
      BY <1>0, <2>1, <2>2, <3>1 DEF Leaf
    <3> QED
      BY <2>1, <2>2, <3>2 DEF LeafInv, Covered, Leaf
  <2>4. CASE upstreams' = [upstreams EXCEPT ![additions[pos].caller] =
                              @ \cup {EdgeTo(additions[pos].node, additions[pos].active)}]
    <3>1. additions[pos].caller \in Node
      BY <2>1, LeavesAreNodes
    <3>2. EdgeTo(additions[pos].node, additions[pos].active) \in upstreams'[additions[pos].caller]
      BY <2>4, <3>1 DEF GraphType
    <3>3. Leaf(pos)' \in Above(additions[pos].caller)'
      BY <2>1, <3>2, SameEdge DEF Above, Leaf
    <3> QED
      BY <2>1, <2>2, <3>3 DEF LeafInv, Covered, Leaf
  <2> QED
    BY <2>1, <2>3, <2>4
<1>7. ASSUME NEW n \in Node, FixLayer(n) PROVE LeafInv'
  <2>1. /\ pc = "fix" /\ pc' = "fix" /\ UNCHANGED <<additions, pos, upstreams>>
        /\ pos \in 1..Len(additions) /\ n \in queue
    BY <1>0, <1>7 DEF FixLayer, RequestsInv, RequestType
  <2>2. \A m \in Node : Covered(m) => Covered(m)'
    BY <1>7, FixEffect DEF Covered
  <2>3. \A x \in 1..Len(additions) : x < pos => Covered(Leaf(x))'
    BY <2>1, <2>2, LeavesAreNodes DEF LeafInv, Leaf, Covered
  <2>4. Leaf(pos) \in Node /\ additions[pos].caller \in Node /\ Leaf(pos)' = Leaf(pos)
    BY <2>1, LeavesAreNodes DEF Leaf
  <2>5. \/ Covered(Leaf(pos))
        \/ additions[pos].caller \in queue /\ Leaf(pos) \in Above(additions[pos].caller)
    BY <2>1 DEF LeafInv
  <2>6. CASE Covered(Leaf(pos))
    <3>1. Covered(Leaf(pos))'
      BY <2>1, <2>2, <2>4, <2>6 DEF Covered
    <3> QED
      BY <2>1, <2>3, <3>1 DEF LeafInv, Leaf, Covered
  <2>7. CASE n = additions[pos].caller /\ Leaf(pos) \in Above(additions[pos].caller)
    <3>1. PICK e \in upstreams[n] : e.node = Leaf(pos)
      BY <2>7 DEF Above
    <3>2. layer[Leaf(pos)] + 1 < dirty_layers' /\ layer[Leaf(pos)] \in Nat
      BY <1>7, <2>4, <3>1, FixEffect
    <3>3. layer'[Leaf(pos)] < dirty_layers'
      BY <1>7, <2>4, <3>2, FixEffect
    <3> QED
      BY <2>1, <2>3, <2>4, <3>3 DEF LeafInv, Leaf, Covered
  <2>8. CASE n # additions[pos].caller /\ additions[pos].caller \in queue
             /\ Leaf(pos) \in Above(additions[pos].caller)
    <3>1. additions[pos].caller \in queue'
      BY <1>7, <2>4, <2>8, FixEffect
    <3> QED
      BY <2>1, <2>3, <2>8, <3>1 DEF LeafInv, Leaf, Above, Covered
  <2> QED
    BY <2>5, <2>6, <2>7, <2>8
<1>8. CASE FixDone
  <2>1. /\ pc = "fix" /\ pc' = "walk" /\ UNCHANGED <<additions, pos, layer, dirty_layers>>
        /\ queue = {}
    BY <1>8 DEF FixDone
  <2>2. Covered(Leaf(pos)) /\ \A x \in 1..Len(additions) : x < pos => Covered(Leaf(x))
    BY <2>1 DEF LeafInv
  <2> QED
    BY <2>1, <2>2 DEF LeafInv, Covered, Leaf
<1>9. ASSUME NEW n \in Node, Walk(n) PROVE LeafInv'
  BY <1>9 DEF Walk, LeafInv, Covered, Leaf
<1>10. CASE WalkDone
  <2>1. /\ pc = "walk" /\ pc' = "wire" /\ UNCHANGED <<additions, layer, dirty_layers>>
        /\ pos' = pos + 1
    BY <1>10 DEF WalkDone
  <2>2. \A x \in 1..Len(additions) : x < pos + 1 => x < pos \/ x = pos
    BY <1>0
  <2>3. \A x \in 1..Len(additions) : x < pos + 1 => Covered(Leaf(x))
    BY <2>1, <2>2 DEF LeafInv
  <2> QED
    BY <2>1, <2>3 DEF LeafInv, Covered, Leaf
<1>11. CASE UNCHANGED vars
  BY <1>11 DEF vars, LeafInv, Covered, Leaf, Above
<1> QED
  <2>1. CASE Lifecycle
    BY <2>1, <1>1 DEF Lifecycle, ApplyNode, ApplyError, ApplyDone, Phases, Follows
  <2>2. CASE Cycle
    BY <2>2, <1>1 DEF Cycle, EnterNode, AddUpstream, RemoveNode, Return, ReturnError, NodesDone,
                      RunEnds, RunFails
  <2>3. CASE Removals
    BY <2>3, <1>1 DEF Removals, SkipRemoval, Remove, RemoveStopError, RemoveTeardownError,
                      RemovalsDone, RunFails
  <2>4. CASE Additions
    BY <2>4, <1>1, <1>2, <1>3, <1>4, <1>5, <1>6, <1>7, <1>8, <1>9, <1>10
    DEF Additions, CrawlSkip, CrawlCycle, CrawlLeafDone, AdditionsCrawled, LinkNew,
        WireDone, CallNew, CallNewError, CallNewDone, RunFails
  <2> QED
    BY <2>1, <2>2, <2>3, <2>4, <1>11 DEF Next, Batch

LEMMA CoverFrame ==
  ASSUME \A n \in Registered : Covered(n), UNCHANGED <<nodes, layer, dirty_layers>>
  PROVE  CoverInv'
  BY DEF CoverInv, Covered, Registered

(* A node without a list is below a leaf, and so gets its list with it. *)
LEMMA CoverStep ==
  ASSUME DynamicInv, CoverInv, LeafInv, [Next]_vars
  PROVE  CoverInv'
<1> /\ TypeOK /\ GraphType /\ GraphType' /\ RequestType /\ CrawlType /\ CallType
    /\ RequestsInv /\ PathInv
  BY GraphTypeStep DEF DynamicInv, TypeOK
<1>0. /\ pos \in Nat /\ pos >= 1 /\ Len(additions) \in Nat /\ Len(path) \in Nat
      /\ Registered \subseteq Node /\ dirty_layers \in Nat
      /\ \A n \in Node : layer[n] \in Nat
  BY Positions DEF RequestType, CrawlType, GraphType
<1>1. CASE ~Running'
  BY <1>1 DEF CoverInv
<1>2. CASE pc \notin {"additions", "crawl", "link", "wire", "fix", "walk"} /\ Running
           /\ UNCHANGED <<nodes, layer, dirty_layers>>
  <2>1. \A n \in Registered : Covered(n)
    BY <1>2 DEF CoverInv
  <2> QED
    BY <1>2, <2>1, CoverFrame
<1>3. CASE CrawlSkip
  <2>1. /\ pc = "additions" /\ pos' = pos + 1
        /\ UNCHANGED <<nodes, layer, dirty_layers, additions, pc>>
    BY <1>3 DEF CrawlSkip
  <2>2. ASSUME NEW n \in Registered
        PROVE  \/ Covered(n)
               \/ \E x \in 1..Len(additions) : x < pos + 1 /\ BelowLeaf(n, x)
    BY <1>0, <2>1 DEF CoverInv, Running
  <2> QED
    BY <2>1, <2>2 DEF CoverInv, Covered, Registered, BelowLeaf, Leaf
<1>4. CASE CrawlStart
  <2>1. /\ pc = "additions" /\ pc' = "crawl"
        /\ UNCHANGED <<nodes, layer, dirty_layers, additions, pos>>
    BY <1>4 DEF CrawlStart
  <2>2. ASSUME NEW n \in Registered
        PROVE  Covered(n) \/ \E x \in 1..Len(additions) : x < pos /\ BelowLeaf(n, x)
    BY <2>1 DEF CoverInv, Running
  <2> QED
    BY <2>1, <2>2 DEF CoverInv, Covered, Registered, BelowLeaf, Leaf
<1>5. CASE CrawlDescend
  <2>1. PICK z \in 1..Len(Declared[Top]) : path' = Append(path, Declared[Top][z].node)
    BY <1>5 DEF CrawlDescend
  <2>2. /\ pc' = "crawl" /\ pc = "crawl" /\ path # <<>>
        /\ UNCHANGED <<nodes, layer, dirty_layers, additions, pos>>
    BY <1>5 DEF CrawlDescend
  <2>3. /\ path' # <<>> /\ Len(path') = Len(path) + 1
        /\ \A y \in 1..Len(path) : y \in 1..Len(path') /\ path'[y] = path[y]
    BY <2>1, <1>0 DEF CrawlType
  <2>4. \A n : BelowPath(n) => BelowPath(n)'
    BY <2>2, <2>3 DEF BelowPath, Registered
  <2>5. ASSUME NEW n \in Registered
        PROVE  \/ Covered(n)
               \/ \E x \in 1..Len(additions) : x < pos /\ BelowLeaf(n, x)
               \/ BelowPath(n)
    BY <2>2 DEF CoverInv, Running
  <2> QED
    BY <2>2, <2>3, <2>4, <2>5 DEF CoverInv, Covered, Registered, BelowLeaf, Leaf
<1>6. CASE CrawlRegister
  <2>1. /\ path # <<>> /\ pc = "crawl" /\ pc' = "crawl"
        /\ UNCHANGED <<additions, pos, dirty_layers>>
        /\ path' = SubSeq(path, 1, Len(path) - 1)
        /\ nodes' = Append(nodes, Top)
    BY <1>6 DEF CrawlRegister
  <2> DEFINE k == Len(path)
  <2>2. Top \in Node /\ Top = path[k] /\ k \in Nat /\ k >= 1 /\ Top \notin Registered
    BY <1>0, <2>1, TopIsNode DEF PathInv
  <2>3. Registered' = Registered \cup {Top}
    BY <2>1, <2>2, Registers
  <2>4. Len(path') = k - 1 /\ \A y \in 1..(k - 1) : path'[y] = path[y]
    BY <2>1, PathShorter
  <2>5. PICK required \in Required(EdgesOf(Top)) : layer' = [layer EXCEPT ![Top] = required]
    BY <1>6 DEF CrawlRegister
  <2>6. /\ required \in Nat /\ \A e \in EdgesOf(Top) : layer[e.node] < required
    BY <2>2, EdgesTyped, RequiredIsLayer
  <2>7. /\ layer'[Top] = required /\ \A m \in Node : m # Top => layer'[m] = layer[m]
    BY <2>2, <2>5, <2>6 DEF GraphType
  <2>8. \A m \in Heads(Declared[Top]) : layer[m] < required
    BY <2>6 DEF Heads, EdgesOf
  <2> HIDE DEF k
  (* Whoever is not above the new node is below the path that is left.     *)
  <2>9. ASSUME NEW n \in Node, layer'[n] <= required
        PROVE  IF path' = <<>> THEN BelowLeaf(n, pos)' ELSE BelowPath(n)'
    <3>1. CASE path' = <<>>
      <4>1. k = 1
        BY <2>2, <2>4, <3>1
      <4>2. additions[pos].node = Top
        BY <2>1, <2>2, <4>1 DEF PathInv
      <4> QED
        BY <2>1, <2>7, <2>9, <3>1, <4>2 DEF BelowLeaf, Leaf
    <3>2. CASE path' # <<>>
      <4>1. k \in 2..k /\ k - 1 \in 1..(k - 1)
        <5>1. path' \in Seq(Node)
          BY <2>1, PathShorter
        <5>2. Len(path') # 0
          BY <3>2, <5>1
        <5> QED
          BY <2>2, <2>4, <5>2
      <4>2. Top \in Heads(Declared[path[k - 1]])
        BY <2>1, <2>2, <4>1 DEF LeafInv, k
      <4>3. /\ k - 1 \in 1..Len(path') /\ Top \in Heads(Declared[path'[k - 1]])
            /\ Top \in Registered' /\ layer'[n] <= layer'[Top]
        BY <2>3, <2>4, <2>7, <2>9, <4>1, <4>2
      <4>4. BelowPath(n)'
        BY <4>3 DEF BelowPath
      <4> QED
        BY <3>2, <4>4
    <3> QED
      BY <3>1, <3>2
  <2>10. ASSUME NEW n \in Registered
         PROVE  \/ Covered(n)'
                \/ \E x \in 1..Len(additions) : x < pos /\ BelowLeaf(n, x)'
                \/ IF path' = <<>> THEN BelowLeaf(n, pos)' ELSE BelowPath(n)'
    <3>1. n \in Node /\ n # Top /\ layer'[n] = layer[n]
      BY <1>0, <2>2, <2>7
    <3>2. \/ Covered(n)
          \/ \E x \in 1..Len(additions) : x < pos /\ BelowLeaf(n, x)
          \/ BelowPath(n)
      BY <2>1 DEF CoverInv, Running
    <3>3. CASE Covered(n)
      BY <2>1, <3>1, <3>3 DEF Covered
    <3>4. CASE \E x \in 1..Len(additions) : x < pos /\ BelowLeaf(n, x)
      <4>1. PICK x \in 1..Len(additions) : x < pos /\ BelowLeaf(n, x)
        BY <3>4
      <4>2. Leaf(x) \in Registered
        BY <2>1, <4>1 DEF RequestsInv, Leaf
      <4>3. layer'[Leaf(x)] = layer[Leaf(x)]
        BY <1>0, <2>2, <2>7, <4>2
      <4>4. BelowLeaf(n, x)'
        BY <2>1, <3>1, <4>1, <4>3 DEF BelowLeaf, Leaf
      <4> QED
        BY <4>1, <4>4
    <3>5. CASE BelowPath(n)
      <4>0. PICK y \in 1..Len(path) : \E m \in Heads(Declared[path[y]]) :
              m \in Registered /\ layer[n] <= layer[m]
        BY <3>5 DEF BelowPath
      <4>1. PICK m \in Heads(Declared[path[y]]) : m \in Registered /\ layer[n] <= layer[m]
        BY <4>0
      <4>2. m \in Node /\ m # Top /\ layer'[m] = layer[m]
        BY <1>0, <2>2, <2>7, <4>1
      <4>3. CASE y = k
        <5>1. layer[m] < required
          BY <2>2, <2>8, <4>1, <4>3
        <5>2. layer'[n] <= required
          BY <1>0, <2>6, <3>1, <4>1, <4>2, <5>1
        <5> QED
          BY <2>9, <3>1, <5>2
      <4>4. CASE y # k
        <5>1. y \in 1..(k - 1)
          BY <2>2, <4>4 DEF k
        <5>2. y \in 1..Len(path') /\ m \in Heads(Declared[path'[y]]) /\ m \in Registered'
          BY <2>3, <2>4, <4>1, <5>1
        <5>3. BelowPath(n)'
          BY <3>1, <4>1, <4>2, <5>2 DEF BelowPath
        <5>4. path' # <<>>
          BY <2>2, <2>4, <5>1
        <5> QED
          BY <5>3, <5>4
      <4> QED
        BY <4>3, <4>4
    <3> QED
      BY <3>2, <3>3, <3>4, <3>5
  <2>11. ASSUME NEW n, n = Top
         PROVE  IF path' = <<>> THEN BelowLeaf(n, pos)' ELSE BelowPath(n)'
    <3>1. n \in Node /\ layer'[n] <= required
      BY <2>2, <2>6, <2>7, <2>11
    <3> QED
      BY <2>9, <3>1
  <2>12. ASSUME NEW n \in Registered'
         PROVE  \/ Covered(n)'
                \/ \E x \in 1..Len(additions) : x < pos /\ BelowLeaf(n, x)'
                \/ IF path' = <<>> THEN BelowLeaf(n, pos)' ELSE BelowPath(n)'
    BY <2>3, <2>10, <2>11
  <2> QED
    BY <2>1, <2>12 DEF CoverInv
<1>7. CASE CrawlLeafDone
  <2>1. /\ pc = "crawl" /\ pc' = "additions" /\ path = <<>> /\ pos' = pos + 1
        /\ UNCHANGED <<nodes, layer, dirty_layers, additions>> /\ pos \in 1..Len(additions)
    BY <1>0, <1>7 DEF CrawlLeafDone, RequestsInv
  <2>2. ASSUME NEW n \in Registered
        PROVE  \/ Covered(n)
               \/ \E x \in 1..Len(additions) : x < pos + 1 /\ BelowLeaf(n, x)
    <3>1. \/ Covered(n)
          \/ \E x \in 1..Len(additions) : x < pos /\ BelowLeaf(n, x)
          \/ BelowLeaf(n, pos)
      BY <2>1 DEF CoverInv, Running
    <3> QED
      BY <1>0, <2>1, <3>1
  <2> QED
    BY <2>1, <2>2 DEF CoverInv, Covered, Registered, BelowLeaf, Leaf
<1>8. CASE AdditionsCrawled
  <2>1. /\ pc = "additions" /\ pc' = "link" /\ UNCHANGED <<nodes, layer, dirty_layers, additions>>
    BY <1>8 DEF AdditionsCrawled
  <2>2. ASSUME NEW n \in Registered
        PROVE  Covered(n) \/ \E x \in 1..Len(additions) : BelowLeaf(n, x)
    BY <2>1 DEF CoverInv, Running
  <2> QED
    BY <2>1, <2>2 DEF CoverInv, Covered, Registered, BelowLeaf, Leaf
<1>9. CASE LinkNew \/ LinkDone
  <2>1. /\ pc = "link"
        /\ pc' = "link" \/ (pc' = "wire" /\ pos' = 1)
        /\ UNCHANGED <<nodes, layer, dirty_layers, additions>>
    BY <1>9 DEF LinkNew, LinkDone
  <2>2. ASSUME NEW n \in Registered
        PROVE  Covered(n) \/ \E x \in 1..Len(additions) : x >= 1 /\ BelowLeaf(n, x)
    BY <1>0, <2>1 DEF CoverInv, Running
  <2> QED
    BY <2>1, <2>2 DEF CoverInv, Covered, Registered, BelowLeaf, Leaf
<1>10. CASE WireCaller
  <2>1. /\ pc = "wire" /\ pc' = "fix" /\ UNCHANGED <<nodes, layer, dirty_layers, additions, pos>>
    BY <1>10 DEF WireCaller
  <2>2. ASSUME NEW n \in Registered
        PROVE  Covered(n) \/ \E x \in 1..Len(additions) : x >= pos /\ BelowLeaf(n, x)
    BY <2>1 DEF CoverInv, Running
  <2> QED
    BY <2>1, <2>2 DEF CoverInv, Covered, Registered, BelowLeaf, Leaf
<1>11. ASSUME NEW m \in Node, FixLayer(m) PROVE CoverInv'
  <2>1. /\ pc = "fix" /\ pc' = "fix" /\ UNCHANGED <<nodes, additions, pos>>
    BY <1>11 DEF FixLayer
  <2>2. ASSUME NEW n \in Registered
        PROVE  Covered(n)' \/ \E x \in 1..Len(additions) : x >= pos /\ BelowLeaf(n, x)'
    <3>1. Covered(n) \/ \E x \in 1..Len(additions) : x >= pos /\ BelowLeaf(n, x)
      BY <2>1 DEF CoverInv, Running
    <3>2. CASE Covered(n) \/ n = m
      BY <1>0, <1>11, <3>2, FixEffect DEF Covered
    <3>3. CASE n # m /\ \E x \in 1..Len(additions) : x >= pos /\ BelowLeaf(n, x)
      <4>1. PICK x \in 1..Len(additions) : x >= pos /\ BelowLeaf(n, x)
        BY <3>3
      <4>2. Leaf(x) \in Node /\ n \in Node
        BY <1>0, LeavesAreNodes
      <4>3. /\ layer[n] \in Nat /\ layer'[n] = layer[n] /\ layer[Leaf(x)] \in Nat
            /\ layer'[Leaf(x)] \in Nat /\ layer[Leaf(x)] <= layer'[Leaf(x)]
        BY <1>11, <3>3, <4>2, FixEffect
      <4>4. layer'[n] <= layer'[Leaf(x)]
        BY <4>1, <4>3 DEF BelowLeaf
      <4>5. BelowLeaf(n, x)'
        BY <2>1, <4>4 DEF BelowLeaf, Leaf
      <4> QED
        BY <4>1, <4>5
    <3> QED
      BY <3>1, <3>2, <3>3
  <2> QED
    BY <2>1, <2>2 DEF CoverInv, Registered
<1>12. CASE FixDone
  <2>1. /\ pc = "fix" /\ pc' = "walk" /\ UNCHANGED <<nodes, layer, dirty_layers, additions, pos>>
        /\ queue = {} /\ pos \in 1..Len(additions)
    BY <1>0, <1>12 DEF FixDone, RequestsInv
  <2>2. Covered(Leaf(pos)) /\ Leaf(pos) \in Node
    BY <2>1, LeavesAreNodes DEF LeafInv
  <2>3. ASSUME NEW n \in Registered
        PROVE  Covered(n) \/ \E x \in 1..Len(additions) : x > pos /\ BelowLeaf(n, x)
    <3>1. Covered(n) \/ \E x \in 1..Len(additions) : x >= pos /\ BelowLeaf(n, x)
      BY <2>1 DEF CoverInv, Running
    <3>2. BelowLeaf(n, pos) => Covered(n)
      BY <1>0, <2>2 DEF BelowLeaf, Covered
    <3>3. \A x \in 1..Len(additions) : x >= pos => x > pos \/ x = pos
      BY <1>0
    <3> QED
      BY <3>1, <3>2, <3>3
  <2> QED
    BY <2>1, <2>3 DEF CoverInv, Covered, Registered, BelowLeaf, Leaf
<1>13. CASE WalkDone \/ \E n \in Node : Walk(n)
  <2>1. /\ pc = "walk" /\ UNCHANGED <<nodes, layer, dirty_layers, additions>>
        /\ \/ pc' = "walk" /\ pos' = pos
           \/ pc' = "wire" /\ pos' = pos + 1
    BY <1>13 DEF WalkDone, Walk
  <2>2. ASSUME NEW n \in Registered
        PROVE  Covered(n) \/ \E x \in 1..Len(additions) : x > pos /\ BelowLeaf(n, x)
    BY <2>1 DEF CoverInv, Running
  <2>3. \A x \in 1..Len(additions) : x > pos => x >= pos + 1
    BY <1>0
  <2>4. ASSUME NEW n \in Registered'
        PROVE  Covered(n)' \/ \E x \in 1..Len(additions) : x > pos /\ BelowLeaf(n, x)'
    BY <2>1, <2>2 DEF Covered, BelowLeaf, Leaf, Registered
  <2> QED
    BY <2>1, <2>3, <2>4 DEF CoverInv
<1>14. CASE WireDone
  <2>1. /\ pc = "wire" /\ pos > Len(additions) /\ UNCHANGED <<nodes, layer, dirty_layers>>
    BY <1>14 DEF WireDone
  <2>2. \A x \in 1..Len(additions) : ~ (x >= pos)
    BY <1>0, <2>1
  <2>3. \A n \in Registered : Covered(n)
    BY <2>1, <2>2 DEF CoverInv, Running
  <2> QED
    BY <2>1, <2>3, CoverFrame
<1>15. CASE UNCHANGED vars
  BY <1>15 DEF vars, CoverInv, Covered, Registered, BelowLeaf, BelowPath, Leaf, Running
<1> QED
  <2>1. CASE Lifecycle
    BY <2>1, <1>1, <1>2 DEF Lifecycle, ApplyNode, ApplyError, ApplyDone, Phases, Follows, Running
  <2>2. CASE Cycle
    BY <2>2, <1>1, <1>2 DEF Cycle, EnterNode, AddUpstream, RemoveNode, Return, ReturnError, NodesDone,
                      RunEnds, RunFails, Running
  <2>3. CASE Removals
    BY <2>3, <1>1, <1>2 DEF Removals, SkipRemoval, Remove, RemoveStopError, RemoveTeardownError,
                      RemovalsDone, RunFails, Running
  <2>4. CASE CrawlCycle \/ CallNew \/ CallNewError \/ CallNewDone
    BY <2>4, <1>1, <1>2 DEF CrawlCycle, CallNew, CallNewError, CallNewDone, RunFails, Running
  <2> QED
    BY <2>1, <2>2, <2>3, <2>4, <1>3, <1>4, <1>5, <1>6, <1>7, <1>8, <1>9, <1>10, <1>11, <1>12,
       <1>13, <1>14, <1>15
    DEF Next, Batch, Additions
-----------------------------------------------------------------------------
(* A nonempty set of layers has a least one. *)
LEMMA LeastLayer ==
  ASSUME NEW T \in SUBSET Nat, T # {}
  PROVE  \E x \in T : \A y \in T : x <= y
<1>1. IsWellFoundedOn(OpToRel(<, Nat), Nat)
  BY NatLessThanWellFounded
<1>2. \E x \in T : \A y \in T : ~(<<y, x>> \in OpToRel(<, Nat))
  BY <1>1, WFMin
<1>3. ASSUME NEW x \in Nat, NEW y \in Nat, ~(<<y, x>> \in OpToRel(<, Nat)) PROVE x <= y
  BY <1>3 DEF OpToRel
<1> QED
  BY <1>2, <1>3

(* The steps of a batch before its new nodes are set up. *)
Building == pc \in {"additions", "crawl", "link", "wire", "fix", "walk"}

LEMMA NewFrame ==
  ASSUME UNCHANGED <<nodes, start_index>>
  PROVE  NewNodes' = NewNodes
  BY DEF NewNodes

(* The new nodes are active: no removal runs inside the batch. *)
LEMMA NewActive ==
  ASSUME DynamicInv, WalkInv, [Next]_vars, Building'
  PROVE  NewNodes' \subseteq active'
<1> /\ TypeOK /\ GraphType /\ GraphType' /\ RequestType /\ CrawlType
  BY GraphTypeStep DEF DynamicInv, TypeOK
<1>1. CASE RemovalsDone
  <2>1. start_index' = Len(nodes) /\ nodes' = nodes /\ Len(nodes) \in Nat
    BY <1>1, Positions DEF RemovalsDone
  <2>2. NewNodes' = {}
    BY <2>1 DEF NewNodes
  <2> QED
    BY <2>2
<1>2. CASE CrawlRegister
  <2>1. /\ nodes' = Append(nodes, Top) /\ path # <<>> /\ active' = active \cup {Top}
        /\ start_index' = start_index /\ pc = "crawl"
    BY <1>2 DEF CrawlRegister
  <2>2. /\ Len(nodes') = Len(nodes) + 1 /\ Len(nodes) \in Nat
        /\ nodes'[Len(nodes) + 1] = Top
        /\ \A x \in 1..Len(nodes) : nodes'[x] = nodes[x]
    BY <2>1, TopIsNode, Registers, Positions
  <2>3. NewNodes \subseteq active
    BY <2>1 DEF WalkInv
  <2>4. ASSUME NEW x \in (start_index' + 1)..Len(nodes') PROVE nodes'[x] \in active'
    <3>1. start_index \in Nat
      BY DEF RequestType
    <3>2. CASE x = Len(nodes) + 1
      BY <2>1, <2>2, <3>2
    <3>3. CASE x # Len(nodes) + 1
      <4>1. x \in (start_index + 1)..Len(nodes) /\ x \in 1..Len(nodes)
        BY <2>1, <2>2, <3>1, <3>3
      <4>2. nodes[x] \in NewNodes
        BY <4>1 DEF NewNodes
      <4> QED
        BY <2>1, <2>2, <2>3, <4>1, <4>2
    <3> QED
      BY <3>2, <3>3
  <2> QED
    BY <2>4 DEF NewNodes
<1>3. CASE Building /\ UNCHANGED <<nodes, start_index, active>>
  BY <1>3, NewFrame DEF WalkInv, Building
<1> QED
  <2>1. CASE Lifecycle
    BY <2>1 DEF Lifecycle, ApplyNode, ApplyError, ApplyDone, Phases, Follows, Building
  <2>2. CASE Cycle
    BY <2>2 DEF Cycle, EnterNode, AddUpstream, RemoveNode, Return, ReturnError, NodesDone,
                RunEnds, RunFails, Building
  <2>3. CASE SkipRemoval \/ Remove \/ RemoveStopError \/ RemoveTeardownError
    BY <2>3 DEF SkipRemoval, Remove, RemoveStopError, RemoveTeardownError, RunFails, Building
  <2>4. CASE Additions
    BY <2>4, <1>2, <1>3
    DEF Additions, CrawlSkip, CrawlStart, CrawlDescend, CrawlCycle, CrawlLeafDone,
        AdditionsCrawled, LinkNew, LinkDone, WireCaller, FixLayer, FixDone, Walk, WalkDone,
        WireDone, CallNew, CallNewError, CallNewDone, RunFails, Building
  <2>5. CASE UNCHANGED vars
    BY <2>5, <1>3 DEF vars, Building
  <2> QED
    BY <2>1, <2>2, <2>3, <2>4, <2>5, <1>1 DEF Next, Batch, Removals

(* Only FixDone starts a walk and only Walk goes on with it. *)
LEMMA WalkKinds ==
  ASSUME [Next]_vars, pc' = "walk"
  PROVE  FixDone \/ (\E n \in Node : Walk(n)) \/ UNCHANGED vars
<1>1. CASE Lifecycle
  BY <1>1 DEF Lifecycle, ApplyNode, ApplyError, ApplyDone, Phases, Follows
<1>2. CASE Cycle
  BY <1>2 DEF Cycle, EnterNode, AddUpstream, RemoveNode, Return, ReturnError, NodesDone,
              RunEnds, RunFails
<1>3. CASE Removals
  BY <1>3 DEF Removals, SkipRemoval, Remove, RemoveStopError, RemoveTeardownError, RemovalsDone,
              RunFails
<1>4. CASE Additions
  BY <1>4
  DEF Additions, CrawlSkip, CrawlStart, CrawlDescend, CrawlCycle, CrawlRegister, CrawlLeafDone,
      AdditionsCrawled, LinkNew, LinkDone, WireCaller, FixLayer, WalkDone,
      WireDone, CallNew, CallNewError, CallNewDone, RunFails
<1> QED
  BY <1>1, <1>2, <1>3, <1>4 DEF Next, Batch

LEMMA WalkStep ==
  ASSUME DynamicInv, WalkInv, [Next]_vars
  PROVE  WalkInv'
<1> /\ TypeOK /\ GraphType /\ RequestType /\ CrawlType
  BY DEF DynamicInv, TypeOK
<1>1. Building' => NewNodes' \subseteq active'
  BY NewActive
<1> SUFFICES ASSUME pc' = "walk" PROVE WalkInv'
  BY <1>1 DEF WalkInv, Building
<1>2. CASE FixDone
  <2>1. /\ UNCHANGED <<nodes, upstreams, additions, pos, start_index, recycled>> /\ visited' = {}
        /\ walk' = IF additions[pos].recycle THEN {Leaf(pos)} ELSE {}
    BY <1>2 DEF FixDone, Leaf
  <2> QED
    BY <1>1, <2>1 DEF WalkInv, Building, Leaf
<1>3. ASSUME NEW n \in Node, Walk(n) PROVE WalkInv'
  <2>1. /\ pc = "walk" /\ n \in walk
        /\ visited' = visited \cup {n}
        /\ recycled' = IF Attached(n) THEN recycled \cup {n} ELSE recycled
        /\ walk' = (walk \cup (Above(n) \cap NewNodes)) \ visited'
        /\ UNCHANGED <<nodes, upstreams, additions, pos, start_index>>
    BY <1>3 DEF Walk
  <2>2. NewNodes' = NewNodes
    BY <2>1, NewFrame
  <2>3. /\ \A m : Above(m)' = Above(m) /\ Attached(m)' = Attached(m)
        /\ Leaf(pos)' = Leaf(pos)
        /\ \A set : UpwardClosed(set)' = UpwardClosed(set)
    BY <2>1, <2>2 DEF Above, Attached, Leaf, UpwardClosed
  <2>4. walk' \cup visited' = walk \cup visited \cup (Above(n) \cap NewNodes)
    BY <2>1
  <2>5. additions'[pos'].recycle => Leaf(pos)' \in walk' \cup visited'
    BY <2>1, <2>3, <2>4 DEF WalkInv
  <2>6. walk' \cup visited' \subseteq {Leaf(pos)'} \cup NewNodes'
    BY <2>1, <2>2, <2>3, <2>4 DEF WalkInv
  <2>7. ASSUME NEW m \in visited'
        PROVE  /\ Attached(m)' => m \in recycled'
               /\ (Above(m) \cap NewNodes)' \subseteq walk' \cup visited'
    BY <2>1, <2>2, <2>3, <2>4 DEF WalkInv
  <2>8. ASSUME NEW set \in SUBSET Node, Leaf(pos)' \in set, UpwardClosed(set)'
        PROVE  walk' \cup visited' \subseteq set
    <3>1. walk \cup visited \subseteq set
      BY <2>1, <2>3, <2>8 DEF WalkInv
    <3>2. Above(n) \subseteq set
      BY <2>1, <2>3, <2>8, <3>1 DEF UpwardClosed
    <3> QED
      BY <2>4, <3>1, <3>2
  <2> QED
    BY <1>1, <2>5, <2>6, <2>7, <2>8 DEF WalkInv, Building
<1>4. CASE UNCHANGED vars
  <2>1. /\ \A m : Above(m)' = Above(m)
        /\ Leaf(pos)' = Leaf(pos) /\ NewNodes' = NewNodes
        /\ \A set : UpwardClosed(set)' = UpwardClosed(set)
    BY <1>4 DEF vars, Above, Leaf, UpwardClosed, NewNodes
  <2>2. \A m : Attached(m)' = Attached(m)
    BY <2>1 DEF Attached
  <2> QED
    BY <1>4, <2>1, <2>2 DEF vars, WalkInv
<1> QED
  BY <1>2, <1>3, <1>4, WalkKinds

(* The walk has reached an attachment point: among the new nodes it has    *)
(* seen, one on the least layer hangs on no new node.                      *)
LEMMA WalkReaches ==
  ASSUME DynamicInv, WalkInv, pc = "walk", walk = {}, additions[pos].recycle
  PROVE  CalledBack(Leaf(pos))
<1> SUFFICES ASSUME NEW set \in SUBSET Node, Leaf(pos) \in set, UpwardClosed(set)
             PROVE  recycled \cap set # {}
  BY DEF CalledBack
<1>0. GraphType /\ LayerInv /\ Running
  BY DEF DynamicInv, TypeOK, Running
<1>1. /\ Leaf(pos) \in visited /\ visited \subseteq set /\ NewNodes \subseteq active
      /\ \A n \in visited : /\ Attached(n) => n \in recycled
                            /\ Above(n) \cap NewNodes \subseteq visited
  BY DEF WalkInv
<1> DEFINE S == visited \cap NewNodes
<1>2. \A n \in visited : ~Attached(n) => \E e \in upstreams[n] : e.node \in S
  BY <1>1 DEF Attached, Above
<1>3. S \subseteq active /\ S \subseteq visited
  BY <1>1
<1> HIDE DEF S
<1>4. CASE Attached(Leaf(pos))
  BY <1>1, <1>4
<1>5. CASE ~Attached(Leaf(pos))
  <2>1. S # {}
    BY <1>1, <1>2, <1>5
  <2> DEFINE T == {layer[m] : m \in S}
  <2>2. T \in SUBSET Nat /\ T # {}
    BY <1>0, <1>3, <2>1 DEF GraphType
  <2>3. PICK x \in T : \A y \in T : x <= y
    BY <2>2, LeastLayer
  <2>4. PICK m \in S : x = layer[m]
    BY <2>3
  <2>5. \A l \in S : layer[m] <= layer[l]
    BY <2>3, <2>4
  <2>6. ASSUME ~Attached(m) PROVE FALSE
    <3>1. PICK e \in upstreams[m] : e.node \in S
      BY <1>2, <1>3, <2>4, <2>6
    <3>2. layer[e.node] < layer[m]
      BY <1>0, <1>3, <2>4, <3>1 DEF LayerInv
    <3>3. layer[e.node] \in Nat /\ layer[m] \in Nat
      BY <1>0, <1>3, <2>4, <3>1 DEF GraphType
    <3> QED
      BY <2>5, <3>1, <3>2, <3>3
  <2> QED
    BY <1>1, <1>3, <2>4, <2>6
<1> QED
  BY <1>4, <1>5

(* A callback stays one when edges and callbacks are added. *)
LEMMA CalledBackStays ==
  ASSUME NEW n, CalledBack(n), recycled \subseteq recycled',
         \A m \in Node : Above(m) \subseteq Above(m)'
  PROVE  CalledBack(n)'
<1> SUFFICES ASSUME NEW set \in SUBSET Node, n \in set, UpwardClosed(set)'
             PROVE  recycled' \cap set # {}
  BY DEF CalledBack
<1>1. UpwardClosed(set)
  BY DEF UpwardClosed
<1> QED
  BY <1>1 DEF CalledBack

LEMMA RecycleStep ==
  ASSUME DynamicInv, WalkInv, RecycleInv, [Next]_vars
  PROVE  RecycleInv'
<1> /\ TypeOK /\ GraphType /\ RequestType /\ CrawlType
  BY DEF DynamicInv, TypeOK
<1>0. pos \in Nat /\ Len(additions) \in Nat
  BY DEF RequestType
<1>1. CASE pc' \notin {"wire", "fix", "walk", "newsetup"}
  BY <1>1 DEF RecycleInv, RecycleReaches
<1>2. CASE LinkDone
  BY <1>0, <1>2 DEF LinkDone, RecycleInv, RecycleReaches
<1>3. CASE /\ pc \in {"wire", "fix", "walk"} /\ pc' \in {"wire", "fix", "walk"}
           /\ UNCHANGED <<additions, pos>> /\ recycled \subseteq recycled'
           /\ \A m \in Node : Above(m) \subseteq Above(m)'
  <2>1. \A x \in 1..Len(additions) : x < pos /\ additions[x].recycle => CalledBack(Leaf(x))
    BY <1>3 DEF RecycleInv
  <2>2. \A x \in 1..Len(additions) : CalledBack(Leaf(x)) => CalledBack(Leaf(x))'
    <3>1. \A n : CalledBack(n) => CalledBack(n)'
      BY <1>3, CalledBackStays
    <3>2. ASSUME NEW x \in 1..Len(additions) PROVE Leaf(x)' = Leaf(x)
      BY <1>3 DEF Leaf
    <3> QED
      BY <3>1, <3>2 DEF CalledBack, UpwardClosed, Above
  <2> QED
    BY <1>3, <2>1, <2>2 DEF RecycleInv, RecycleReaches
<1>4. CASE WireCaller
  <2>1. /\ pc = "wire" /\ pc' = "fix" /\ UNCHANGED <<additions, pos, recycled>>
        /\ \/ upstreams' = upstreams
           \/ upstreams' = [upstreams EXCEPT ![additions[pos].caller] =
                              @ \cup {EdgeTo(additions[pos].node, additions[pos].active)}]
    BY <1>4 DEF WireCaller
  <2>2. \A m \in Node : upstreams[m] \subseteq upstreams'[m]
    BY <2>1 DEF GraphType
  <2>3. \A m \in Node : Above(m) \subseteq Above(m)'
    BY <2>2 DEF Above
  <2> QED
    BY <1>3, <2>1, <2>3
<1>5. CASE FixDone \/ \E n \in Node : FixLayer(n) \/ Walk(n)
  <2>1. /\ pc \in {"wire", "fix", "walk"} /\ pc' \in {"wire", "fix", "walk"}
        /\ UNCHANGED <<additions, pos, upstreams>> /\ recycled \subseteq recycled'
    BY <1>5 DEF FixDone, FixLayer, Walk
  <2> QED
    BY <1>3, <2>1 DEF Above
<1>6. CASE WalkDone
  <2>1. /\ pc = "walk" /\ pc' = "wire" /\ walk = {} /\ pos' = pos + 1
        /\ UNCHANGED <<additions, upstreams, recycled>>
    BY <1>6 DEF WalkDone
  <2>2. \A x \in 1..Len(additions) : x < pos /\ additions[x].recycle => CalledBack(Leaf(x))
    BY <2>1 DEF RecycleInv
  <2>3. additions[pos].recycle => CalledBack(Leaf(pos))
    BY <2>1, WalkReaches
  <2>4. \A x \in 1..Len(additions) : x < pos + 1 /\ additions[x].recycle => CalledBack(Leaf(x))
    BY <1>0, <2>2, <2>3
  <2> QED
    BY <2>1, <2>4 DEF RecycleInv, RecycleReaches, CalledBack, UpwardClosed, Above, Leaf
<1>7. CASE WireDone
  <2>1. /\ pc = "wire" /\ pc' = "newsetup" /\ pos > Len(additions)
        /\ UNCHANGED <<additions, upstreams, recycled>>
    BY <1>7 DEF WireDone
  <2>2. \A x \in 1..Len(additions) : additions[x].recycle => CalledBack(Leaf(x))
    BY <1>0, <2>1 DEF RecycleInv
  <2> QED
    BY <2>1, <2>2 DEF RecycleInv, RecycleReaches, CalledBack, UpwardClosed, Above, Leaf
<1>8. CASE CallNew \/ CallNewDone \/ UNCHANGED vars
  <2>1. \/ pc' \notin {"wire", "fix", "walk", "newsetup"}
        \/ UNCHANGED <<additions, upstreams, recycled, pc>> /\ pc = "newsetup"
        \/ UNCHANGED <<additions, upstreams, recycled, pc, pos>>
    BY <1>8 DEF CallNew, CallNewDone, vars
  <2> QED
    BY <1>1, <2>1 DEF RecycleInv, RecycleReaches, CalledBack, UpwardClosed, Above, Leaf
<1> QED
  <2>1. CASE Lifecycle
    BY <2>1, <1>1 DEF Lifecycle, ApplyNode, ApplyError, ApplyDone, Phases, Follows
  <2>2. CASE Cycle
    BY <2>2, <1>1 DEF Cycle, EnterNode, AddUpstream, RemoveNode, Return, ReturnError, NodesDone,
                      RunEnds, RunFails
  <2>3. CASE Removals
    BY <2>3, <1>1 DEF Removals, SkipRemoval, Remove, RemoveStopError, RemoveTeardownError,
                      RemovalsDone, RunFails
  <2>4. CASE \/ CrawlSkip \/ CrawlStart \/ CrawlDescend \/ CrawlCycle \/ CrawlRegister
             \/ CrawlLeafDone \/ AdditionsCrawled \/ LinkNew \/ CallNewError
    BY <2>4, <1>1
    DEF CrawlSkip, CrawlStart, CrawlDescend, CrawlCycle, CrawlRegister, CrawlLeafDone,
        AdditionsCrawled, LinkNew, CallNewError, RunFails
  <2> QED
    BY <2>1, <2>2, <2>3, <2>4, <1>2, <1>4, <1>5, <1>6, <1>7, <1>8 DEF Next, Batch, Additions

-----------------------------------------------------------------------------
LEMMA InitLifecycle ==
  ASSUME Init
  PROVE  LifecycleInv
<1> USE DynamicAssumption
<1>1. DynamicInv
  BY InitInv
<1>2. /\ nodes = Initial /\ layer = InitialLayer /\ active = Range(Initial) /\ pc = "setup"
      /\ dirty_layers = InitialLists /\ Registered = Range(Initial) /\ ok = {}
      /\ \A c \in Call, n \in Node : tried[c][n] = 0
  BY DEF Init, Registered
<1>3. DistinctInv /\ CoverInv /\ LeafInv /\ WalkInv /\ RecycleInv
  BY <1>2 DEF DistinctInv, CoverInv, Covered, LeafInv, WalkInv, RecycleInv, RecycleReaches
<1>4. OnceInv
  BY <1>2 DEF OnceInv, Call
<1>5. ReleaseInv
  BY <1>2 DEF ReleaseInv
<1> QED
  BY <1>1, <1>3, <1>4, <1>5 DEF LifecycleInv

(* Every run of an edited graph keeps LifecycleInv. *)
THEOREM LifecycleInvariant == Spec => []LifecycleInv
<1>1. LifecycleInv /\ [Next]_vars => LifecycleInv'
  <2>1. DynamicInv /\ [Next]_vars => DynamicInv'
    BY TypeStep, ListsStep, RequestsStep, PathStep, MirrorStep, LayerStep, StopStep, StartedStep
    DEF DynamicInv
  <2> QED
    BY <2>1, DistinctStep, CoverStep, LeafStep, WalkStep, RecycleStep, OnceStep, ReleaseStep
    DEF LifecycleInv
<1> QED
  BY <1>1, InitLifecycle, PTL DEF Spec

(* When a cycle runs, every registered node's layer has its list: the      *)
(* unchecked index of mark_dirty stays in range, although only the nodes   *)
(* that fix_layers looks at extend the lists.                              *)
THEOREM ListsStayLongEnough == Spec => []ListsCoverLayers
<1>1. LifecycleInv => ListsCoverLayers
  BY DEF LifecycleInv, CoverInv, Covered, ListsCoverLayers, Running
<1> QED
  BY <1>1, LifecycleInvariant, PTL

(* A recycled addition is called back at its leaf or at a node from which  *)
(* the leaf is reached, however the new nodes hang together.               *)
THEOREM RecyclesReach == Spec => []RecycleReaches
<1>1. LifecycleInv => RecycleReaches
  BY DEF LifecycleInv, RecycleInv
<1> QED
  BY <1>1, LifecycleInvariant, PTL

(* A node is stopped and torn down once, by its removal or by the end of   *)
(* the run, and not by both.                                               *)
THEOREM StopsHappenOnce == Spec => []StoppedOnce
<1>1. LifecycleInv => StoppedOnce
  BY DEF LifecycleInv, OnceInv, StoppedOnce, Unfailing
<1> QED
  BY <1>1, LifecycleInvariant, PTL

(* Whatever failed while the graph ran, what was started is stopped and    *)
(* what was set up is torn down when run() returns.                        *)
THEOREM EverythingIsReleased == Spec => []Released
<1>1. LifecycleInv => Released
  BY DEF LifecycleInv, ReleaseInv, Released, Done
<1> QED
  BY <1>1, LifecycleInvariant, PTL

(* All of this together. *)
THEOREM LifecycleStaysSound == Spec => []LifecycleSound
BY ListsStayLongEnough, RecyclesReach, StopsHappenOnce, EverythingIsReleased, PTL
DEF LifecycleSound
=============================================================================
