---------------------------- MODULE DynamicGroup ----------------------------
(***************************************************************************)
(* The keyed group of dynamically wired streams (nodes/dynamic_group.rs).  *)
(* A cycle of the group's node queues additions and removals with the      *)
(* graph, which processes the removals and then the additions when the     *)
(* cycle ends.  Every call of the factory makes a new stream; streams are  *)
(* numbered in the order they are made.                                    *)
(***************************************************************************)
EXTENDS Integers, Sequences, FiniteSets

CONSTANTS
  GroupKeys,   \* keys of the add and del streams
  MaxStreams   \* bound: calls of the factory

ASSUME GroupAssumption == IsFiniteSet(GroupKeys) /\ MaxStreams \in Nat

VARIABLES
  group,   \* DynamicGroupStream: its store, its value and what the cycle visits
  wiring   \* the graph: the streams that are upstreams of the group's node

groupVars == <<group, wiring>>

GroupInit ==
  /\ group = [store |-> [k \in GroupKeys |-> 0], value |-> {}, made |-> 0]
  /\ wiring = {}

Stored(store) == {store[k] : k \in GroupKeys} \ {0}

\* remove(): the stream is asked to be removed when the store has it.
Removed(store, k) == {store[k]} \ {0}

\* The end of the graph's cycle: only a stream that is wired can be removed,
\* and the removals come before the additions.
ProcessPending(removals, additions) == (wiring \ removals) \cup additions

\* A wrong form of TickedIter: the streams of the store before the removal are visited.
TickedIterBefore(before, after, ticking) == {k \in GroupKeys : before[k] \in ticking}

\* ticked_iter(): the keys whose stream ticked in this cycle.
TickedIter(before, after, ticking) == {k \in GroupKeys : after[k] \in ticking}

\* insert(): add_upstream, then the store, which forgets the key's earlier stream.
Inserted(add) == [k \in GroupKeys |-> IF k \in add THEN group.made + 1 ELSE group.store[k]]

\* A cycle of the node: the add stream ticked with a key or not, then the del
\* stream, then some of the wired streams.
GroupCycle(add, del, ticking) ==
  LET store == Inserted(add)
      kept == [k \in GroupKeys |-> IF k \in del THEN 0 ELSE store[k]]
  IN /\ group' = [store |-> kept,
                  value |-> (group.value \ del) \cup TickedIter(store, kept, ticking),
                  made |-> IF add = {} THEN group.made ELSE group.made + 1]
     /\ wiring' = ProcessPending(UNION {Removed(store, k) : k \in del},
                                 IF add = {} THEN {} ELSE {group.made + 1})

\* add_upstream asks for a callback, so a new stream ticks in a later cycle.
GroupNext ==
  \E add, del \in {{}} \cup {{k} : k \in GroupKeys}, ticking \in SUBSET wiring :
    /\ add # {} \/ del # {} \/ ticking # {}
    /\ add = {} \/ group.made < MaxStreams
    /\ GroupCycle(add, del, ticking)

-----------------------------------------------------------------------------
\* The value of the group has an entry only for a key that is registered, so
\* a key's last tick in the cycle that deletes it does not bring it back, and
\* every registered stream is wired and can tick.
GroupConsistent ==
  /\ group.value \subseteq {k \in GroupKeys : group.store[k] # 0}
  /\ Stored(group.store) \subseteq wiring

=============================================================================
