------------------------------- MODULE MCCore -------------------------------
(***************************************************************************)
(* What the run loop stands on, for TLC: the time queue against the        *)
(* sequence of EventQueue, and the wiring of every graph of a few nodes    *)
(* against reference definitions on the declared graph.  The two do not    *)
(* interact: a behaviour is one of the queue or one of the wiring.         *)
(***************************************************************************)
EXTENDS GraphWiring, TimeQueue, SequencesExt

CONSTANTS MaxUpstreams,  \* bound on the number of upstreams of a node
          a, b           \* two of the nodes

VARIABLE which           \* "queue" or "wiring"

coreVars == <<which, vars, queueVars>>

SeqsUpTo(n) == UNION {[1..k -> Node] : k \in 0..n}

MCWirings ==
  [Node -> {u \in [active : SeqsUpTo(MaxUpstreams), passive : SeqsUpTo(MaxUpstreams)] :
              Len(u.active) + Len(u.passive) <= MaxUpstreams}]

(* One root and two; the names of the nodes are arbitrary. *)
MCRootLists == {<<a>>, <<a, b>>}

Unwired == [n \in Node |-> [active |-> <<>>, passive |-> <<>>]]

CoreInit ==
  /\ which \in {"queue", "wiring"}
  /\ Init /\ (which = "queue" => declared = Unwired /\ roots = <<a>>)
  /\ QueueInit

QueueTurn == which = "queue" /\ QueueNext /\ UNCHANGED <<which, vars>>
WiringTurn == which = "wiring" /\ Next /\ UNCHANGED <<which, queueVars>>

(* Graph::new runs to its end on the calling thread. *)
CoreSpec == CoreInit /\ [][QueueTurn \/ WiringTurn]_coreVars /\ WF_coreVars(WiringTurn)

-----------------------------------------------------------------------------
(* The heap as the sequence of events in the order of Before. *)
HeapAsSequence ==
  LET sorted == SetToSortSeq(heap, LAMBDA e, f : Before(e, f) /\ e # f)
  IN  [k \in DOMAIN sorted |-> [value |-> sorted[k].value, time |-> sorted[k].time]]

EQ == INSTANCE EventQueue WITH queue <- HeapAsSequence

(* The queue is first-in first-out among the events of one time, earliest  *)
(* first otherwise, and suppresses exactly the duplicates: time_queue.rs   *)
(* "Distinct values at the same `time` are all kept and pop in FIFO        *)
(* (insertion) order".                                                     *)
ImplementsEventQueue == EQ!Spec

-----------------------------------------------------------------------------
DeclaredUp(n) == Range(declared[n].active) \cup Range(declared[n].passive)

(* The nodes n reaches over upstream edges, in at most k steps. *)
ReachIn[n \in Node, k \in 0..Cardinality(Node)] ==
  IF k = 0 THEN {} ELSE DeclaredUp(n) \cup UNION {ReachIn[m, k - 1] : m \in DeclaredUp(n)}

Below(n) == ReachIn[n, Cardinality(Node)]
Reachable == Range(roots) \cup UNION {Below(n) : n \in Range(roots)}

(* The length of the longest path from a source to n, in an acyclic graph. *)
DepthIn[n \in Node, k \in 0..Cardinality(Node)] ==
  IF k = 0 \/ DeclaredUp(n) = {} THEN 0
  ELSE LET ds == {DepthIn[m, k - 1] : m \in DeclaredUp(n)}
       IN  1 + CHOOSE d \in ds : \A e \in ds : d >= e

Depth(n) == DepthIn[n, Cardinality(Node)]

Count(s, x) == Cardinality({k \in 1..Len(s) : s[k] = x})

(* A wiring error is reported exactly when some node that a root reaches   *)
(* is its own transitive upstream: "cycle detected in graph wiring".       *)
CycleVerdict == Done => (wiring_error <=> \E n \in Reachable : n \in Below(n))

(* An accepted graph holds the reachable nodes and no other, every node on *)
(* the layer of its longest path from a source, with the edges it declared *)
(* in their order.                                                         *)
WiredAsDeclared ==
  Done /\ ~ wiring_error =>
    /\ Range(nodes) = Reachable
    /\ \A n \in Reachable :
         /\ layer[n] = Depth(n)
         /\ upstreams[n] = UpstreamList(declared[n])

(* The downstream edges are the upstream edges turned round, as often and  *)
(* as active as they were declared: a tick reaches exactly the nodes that  *)
(* asked for it.                                                           *)
DownstreamsMirror ==
  Done /\ ~ wiring_error =>
    \A n, m \in Node, act \in BOOLEAN :
      Count(downstreams[n], [node |-> m, active |-> act])
        = Count(upstreams[m], [node |-> n, active |-> act])

(* What initialise() accepts is the declared graph: the verdict, the nodes *)
(* with their layers and edges, and the edges turned round.                *)
WiringFaithful == CycleVerdict /\ WiredAsDeclared /\ DownstreamsMirror

(* Graph::new returns, whatever the wiring, a cyclic one included. *)
WiringEnds == which = "wiring" => <>Done
=============================================================================
