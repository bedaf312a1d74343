----------------------------- MODULE EventQueue -----------------------------
(***************************************************************************)
(* The full promise of a time queue: a sequence of events ordered by time, *)
(* events of the same time in the order they were pushed, a (value, time)  *)
(* pair that is queued already pushed to no effect unless the value is not *)
(* equal to itself (NaN).                                                  *)
(***************************************************************************)
EXTENDS Integers, SequencesExt

CONSTANTS Value, Time, None,
          Unequal  \* the values that are not equal to themselves (f64 NaN)

VARIABLES queue,   \* the queued events, the next to be popped first
          result   \* what the last pop returned

vars == <<queue, result>>

(* The position of a new event of time t: behind all that are not later. *)
Place(q, t) == 1 + Cardinality({i \in DOMAIN q : q[i].time <= t})

Queued(v, t) == /\ v \notin Unequal
                /\ \E i \in DOMAIN queue : queue[i] = [value |-> v, time |-> t]

Init == queue = <<>> /\ result = None

Push(v, t) ==
  /\ queue' = IF Queued(v, t) THEN queue
              ELSE InsertAt(queue, Place(queue, t), [value |-> v, time |-> t])
  /\ UNCHANGED result

PopIf(due) ==
  IF queue # <<>> /\ due
  THEN queue' = Tail(queue) /\ result' = Head(queue).value
  ELSE result' = None /\ UNCHANGED queue

Pop == PopIf(TRUE)

PopIfPending(now) == PopIf(queue # <<>> /\ Head(queue).time <= now)

Clear == queue' = <<>> /\ UNCHANGED result

Next == \/ \E v \in Value, t \in Time : Push(v, t)
        \/ Pop
        \/ \E now \in Time : PopIfPending(now)
        \/ Clear

Spec == Init /\ [][Next]_vars
=============================================================================
