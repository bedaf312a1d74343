----------------------------- MODULE TimeQueue ------------------------------
(***************************************************************************)
(* wingfoil/src/queue/time_queue.rs: the queue behind the scheduler, the   *)
(* delay nodes, CallBackStream and feedback.  A binary min-heap of entries *)
(* ordered by (time, seq), with a linear scan that suppresses duplicates.  *)
(*                                                                         *)
(* The heap is the set of its entries: BinaryHeap is part of the standard  *)
(* library and pops a least entry.  When two entries have the same key the *)
(* choice between them is the heap's, so it is left open.                  *)
(***************************************************************************)
EXTENDS Integers, FiniteSets

CONSTANTS Value, Time, None,
          Unequal,   \* the values v with v != v (PartialEq without Eq: f64 NaN)
          MaxSeq     \* bound on next_seq, for model checking only

ASSUME TimeQueueAssumption ==
  /\ Time \subseteq Nat
  /\ None \notin Value
  /\ Unequal \subseteq Value
  /\ MaxSeq \in Nat

VARIABLES heap,      \* the entries
          next_seq,  \* the insertion counter (u64: never wraps in a run)
          result     \* what the last pop returned

queueVars == <<heap, next_seq, result>>

(* struct Entry<T> *)
Entry == [time : Time, seq : Nat, value : Value]

QueueType == /\ heap \subseteq Entry
             /\ next_seq \in Nat
             /\ result \in Value \cup {None}

QueueInit == heap = {} /\ next_seq = 0 /\ result = None

(* Ord for Entry: lexicographic on (time, seq); the value takes no part. *)
Before(a, b) == a.time < b.time \/ (a.time = b.time /\ a.seq <= b.seq)

(* BinaryHeap::peek through Reverse: a least entry. *)
Least == {e \in heap : \A f \in heap : Before(e, f)}

(* e.value == value: PartialEq, not reflexive on Unequal. *)
SameValue(v, w) == v = w /\ v \notin Unequal

push(v, t) ==
  /\ next_seq < MaxSeq
  /\ IF \E e \in heap : e.time = t /\ SameValue(e.value, v)
     THEN UNCHANGED <<heap, next_seq>>
     ELSE /\ heap' = heap \cup {[time |-> t, seq |-> next_seq, value |-> v]}
          /\ next_seq' = next_seq + 1
  /\ UNCHANGED result

(* heap.pop() of a heap that is not empty. *)
Take(e) ==
  /\ heap' = heap \ {e}
  /\ result' = e.value
  /\ UNCHANGED next_seq

TakeNone ==
  /\ result' = None
  /\ UNCHANGED <<heap, next_seq>>

pop == \/ \E e \in Least : Take(e)
       \/ heap = {} /\ TakeNone

(* A wrong pop_if_pending: the head is due strictly after its time. *)
PopStrictlyPast(now) ==
  \/ \E e \in Least : e.time < now /\ Take(e)
  \/ heap = {} /\ TakeNone
  \/ \E e \in Least : e.time >= now /\ TakeNone

(* next_time() is the time of a least entry, if there is one. *)
pop_if_pending(now) ==
  \/ \E e \in Least : e.time <= now /\ Take(e)
  \/ heap = {} /\ TakeNone
  \/ \E e \in Least : e.time > now /\ TakeNone

clear == heap' = {} /\ UNCHANGED <<next_seq, result>>

QueueNext == \/ \E v \in Value, t \in Time : push(v, t)
             \/ pop
             \/ \E now \in Time : pop_if_pending(now)
             \/ clear

QueueSpec == QueueInit /\ [][QueueNext]_queueVars

-----------------------------------------------------------------------------
(* The order of the heap is total, which is what makes the pops            *)
(* deterministic and the ties first-in first-out: no two entries share a   *)
(* sequence number, and every number handed out is below the counter, also *)
(* after pops and clears that leave the counter alone.                     *)
TotalOrder ==
  /\ \A e \in heap : e.seq < next_seq
  /\ \A e, f \in heap : e.seq = f.seq => e = f

(* "the queue holds at most one entry per distinct (value, time)", for the *)
(* values that are equal to themselves.                                    *)
NoDuplicates ==
  \A e, f \in heap : e.time = f.time /\ SameValue(e.value, f.value) => e = f

HeapInv == QueueType /\ TotalOrder /\ NoDuplicates

(* What the heap holds, as a set of events. *)
EventsOf(h) == {[value |-> e.value, time |-> e.time] : e \in h}

ES == INSTANCE EventSet WITH events <- EventsOf(heap)

(* On a payload whose equality is reflexive (node indices in the           *)
(* scheduler) the queue is the set of events the engine's model uses.      *)
ImplementsEventSet == ES!Spec
=============================================================================
