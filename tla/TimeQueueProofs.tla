-------------------------- MODULE TimeQueueProofs ---------------------------
(***************************************************************************)
(* The heap invariant of TimeQueue and its refinement of EventSet, for     *)
(* every set of values and times.                                          *)
(***************************************************************************)
EXTENDS TimeQueue, TLAPS

(* Before orders entries totally up to equal keys. *)
LEMMA LeastIsEarliest ==
  ASSUME HeapInv, NEW e \in Least
  PROVE  /\ e \in heap
         /\ \A f \in heap : e.time <= f.time
<1>1. e \in heap /\ \A f \in heap : Before(e, f)
  BY DEF Least
<1>2. ASSUME NEW f \in heap PROVE e.time <= f.time
  <2>1. e.time \in Nat /\ f.time \in Nat
    BY <1>1, TimeQueueAssumption DEF HeapInv, QueueType, Entry
  <2> QED BY <1>1, <2>1 DEF Before
<1> QED BY <1>1, <1>2

(* push keeps the numbers of the entries below the counter, so the new     *)
(* entry's number is fresh; pop and clear only remove entries.             *)
LEMMA HeapInvStep == HeapInv /\ [QueueNext]_queueVars => HeapInv'
<1> SUFFICES ASSUME HeapInv, [QueueNext]_queueVars PROVE HeapInv'
  OBVIOUS
<1> USE TimeQueueAssumption DEF HeapInv
<1>1. ASSUME NEW v \in Value, NEW t \in Time, push(v, t) PROVE HeapInv'
  <2>1. CASE \E e \in heap : e.time = t /\ SameValue(e.value, v)
    BY <1>1, <2>1 DEF push, QueueType, TotalOrder, NoDuplicates, SameValue
  <2>2. CASE ~ \E e \in heap : e.time = t /\ SameValue(e.value, v)
    <3> DEFINE new == [time |-> t, seq |-> next_seq, value |-> v]
    <3>1. /\ heap' = heap \cup {new}
          /\ next_seq' = next_seq + 1
          /\ result' = result
      BY <1>1, <2>2 DEF push
    <3>2. QueueType'
      BY <3>1 DEF QueueType, Entry
    <3>3. TotalOrder'
      BY <3>1 DEF QueueType, Entry, TotalOrder
    <3>4. NoDuplicates'
      BY <2>2, <3>1 DEF QueueType, Entry, NoDuplicates, SameValue
    <3> QED BY <3>2, <3>3, <3>4
  <2> QED BY <2>1, <2>2
<1>2. ASSUME NEW e \in heap, Take(e) PROVE HeapInv'
  BY <1>2 DEF Take, QueueType, Entry, TotalOrder, NoDuplicates, SameValue
<1>3. ASSUME TakeNone PROVE HeapInv'
  BY <1>3 DEF TakeNone, QueueType, TotalOrder, NoDuplicates, SameValue
<1>4. CASE pop
  BY <1>2, <1>3, <1>4 DEF pop, Least
<1>5. ASSUME NEW now \in Time, pop_if_pending(now) PROVE HeapInv'
  BY <1>2, <1>3, <1>5 DEF pop_if_pending, Least
<1>6. CASE clear
  BY <1>6 DEF clear, QueueType, TotalOrder, NoDuplicates, SameValue
<1>7. CASE UNCHANGED queueVars
  BY <1>7 DEF queueVars, QueueType, TotalOrder, NoDuplicates, SameValue
<1> QED BY <1>1, <1>4, <1>5, <1>6, <1>7 DEF QueueNext

(* The queue of time_queue.rs always has a total order and no duplicates.  *)
THEOREM HeapInvariant == QueueSpec => []HeapInv
<1>1. QueueInit => HeapInv
  BY TimeQueueAssumption DEF QueueInit, HeapInv, QueueType, TotalOrder, NoDuplicates
<1> QED BY <1>1, HeapInvStep, PTL DEF QueueSpec

(* When equality is reflexive an entry is known by its event, so taking an *)
(* entry takes its event and no other.                                     *)
LEMMA TakeTakesOneEvent ==
  ASSUME HeapInv, Unequal = {}, NEW e \in heap, Take(e)
  PROVE  EventsOf(heap)' = EventsOf(heap) \ {[value |-> e.value, time |-> e.time]}
<1>1. \A f \in heap : f # e => [value |-> f.value, time |-> f.time]
                               # [value |-> e.value, time |-> e.time]
  BY DEF HeapInv, NoDuplicates, SameValue, QueueType, Entry
<1> QED BY <1>1 DEF Take, EventsOf

(* A step of the heap is a step, or a stutter, of the set of events.       *)
LEMMA EventSetStep ==
  ASSUME Unequal = {}, HeapInv, [QueueNext]_queueVars
  PROVE  [ES!Next]_(ES!vars)
<1> USE TimeQueueAssumption
<1>1. ASSUME NEW v \in Value, NEW t \in Time, push(v, t)
      PROVE  ES!Push(v, t)
  <2>1. CASE \E e \in heap : e.time = t /\ SameValue(e.value, v)
    BY <1>1, <2>1 DEF push, ES!Push, EventsOf, SameValue
  <2>2. CASE ~ \E e \in heap : e.time = t /\ SameValue(e.value, v)
    <3>1. heap' = heap \cup {[time |-> t, seq |-> next_seq, value |-> v]} /\ result' = result
      BY <1>1, <2>2 DEF push
    <3>2. EventsOf(heap') = EventsOf(heap) \cup {[value |-> v, time |-> t]}
      <4> DEFINE new == [time |-> t, seq |-> next_seq, value |-> v]
      <4>1. new.value = v /\ new.time = t
        OBVIOUS
      <4> HIDE DEF new
      <4>2. heap' = heap \cup {new}
        BY <3>1 DEF new
      <4> QED BY <4>1, <4>2 DEF EventsOf
    <3> QED BY <3>1, <3>2 DEF ES!Push, EventsOf
  <2> QED BY <2>1, <2>2
<1>2. ASSUME NEW e \in Least, Take(e)
      PROVE  /\ [value |-> e.value, time |-> e.time] \in ES!Earliest(EventsOf(heap))
             /\ ES!Take([value |-> e.value, time |-> e.time])
  <2>1. e \in heap /\ \A f \in heap : e.time <= f.time
    BY LeastIsEarliest
  <2>2. [value |-> e.value, time |-> e.time] \in ES!Earliest(EventsOf(heap))
    BY <2>1 DEF ES!Earliest, EventsOf
  <2>3. EventsOf(heap)' = EventsOf(heap) \ {[value |-> e.value, time |-> e.time]}
    BY <1>2, <2>1, TakeTakesOneEvent
  <2> QED BY <1>2, <2>2, <2>3 DEF ES!Take, Take
<1>3. ASSUME TakeNone PROVE ES!TakeNone
  BY <1>3 DEF TakeNone, ES!TakeNone, EventsOf
<1>4. CASE pop
  <2>1. CASE \E e \in Least : Take(e)
    BY <1>2, <2>1 DEF ES!Next, ES!Pop
  <2>2. CASE heap = {} /\ TakeNone
    BY <1>3, <2>2 DEF ES!Next, ES!Pop, EventsOf
  <2> QED BY <1>4, <2>1, <2>2 DEF pop
<1>5. ASSUME NEW now \in Time, pop_if_pending(now) PROVE ES!PopIfPending(now)
  <2>1. ASSUME NEW e \in Least, e.time <= now, Take(e)
        PROVE  ES!PopIfPending(now)
    <3> DEFINE ev == [value |-> e.value, time |-> e.time]
    <3>1. ev \in ES!Earliest(EventsOf(heap)) /\ ES!Take(ev)
      BY <1>2, <2>1
    <3>2. ev.time <= now
      BY <2>1
    <3> QED BY <3>1, <3>2 DEF ES!PopIfPending
  <2>2. CASE heap = {} /\ TakeNone
    BY <1>3, <2>2 DEF ES!PopIfPending, EventsOf
  <2>3. ASSUME NEW e \in Least, e.time > now, TakeNone
        PROVE  ES!PopIfPending(now)
    <3>1. \A f \in heap : f.time > now
      <4>1. \A f \in heap : e.time <= f.time /\ f.time \in Nat /\ e.time \in Nat
        BY LeastIsEarliest DEF HeapInv, QueueType, Entry
      <4>2. now \in Nat
        OBVIOUS
      <4> QED BY <2>3, <4>1, <4>2
    <3>2. \A ev \in EventsOf(heap) : ev.time > now
      BY <3>1 DEF EventsOf
    <3> QED BY <1>3, <2>3, <3>2 DEF ES!PopIfPending
  <2> QED BY <1>5, <2>1, <2>2, <2>3 DEF pop_if_pending
<1>6. CASE clear
  BY <1>6 DEF clear, ES!Next, ES!Clear, EventsOf
<1>7. CASE UNCHANGED queueVars
  BY <1>7 DEF queueVars, ES!vars, EventsOf
<1> QED BY <1>1, <1>4, <1>5, <1>6, <1>7 DEF QueueNext, ES!Next

(* The queue the scheduler uses, on node indices, is the set of events of  *)
(* the engine's model: what is popped is an earliest event, is removed     *)
(* once, and nothing else is lost.                                         *)
THEOREM SchedulerQueue ==
  ASSUME Unequal = {}
  PROVE  QueueSpec => ImplementsEventSet
<1>1. QueueInit => ES!Init
  BY DEF QueueInit, ES!Init, EventsOf
<1>2. HeapInv /\ [QueueNext]_queueVars => [ES!Next]_(ES!vars)
  BY EventSetStep
<1> QED BY <1>1, <1>2, HeapInvariant, PTL DEF QueueSpec, ES!Spec, ImplementsEventSet
=============================================================================
