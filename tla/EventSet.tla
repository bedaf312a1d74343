------------------------------ MODULE EventSet ------------------------------
(***************************************************************************)
(* What a time queue promises to the engine: a set of (value, time) events *)
(* from which only an earliest one can be taken.  The order in which       *)
(* events of the same time come out is left open here; EventQueue says     *)
(* that it is the order of insertion.                                      *)
(***************************************************************************)
EXTENDS Integers

CONSTANTS Value,   \* payloads: node indices in the scheduler, stream values in a delay
          Time,    \* a set of naturals, nanoseconds
          None     \* what Rust's Option::None stands for

VARIABLES events,  \* the queued events
          result   \* what the last pop returned

vars == <<events, result>>

Event == [value : Value, time : Time]

(* The events no other event precedes. *)
Earliest(es) == {e \in es : \A f \in es : e.time <= f.time}

Init == events = {} /\ result = None

Push(v, t) ==
  /\ events' = events \cup {[value |-> v, time |-> t]}
  /\ UNCHANGED result

Take(e) ==
  /\ events' = events \ {e}
  /\ result' = e.value

TakeNone ==
  /\ result' = None
  /\ UNCHANGED events

Pop == \/ \E e \in Earliest(events) : Take(e)
       \/ events = {} /\ TakeNone

PopIfPending(now) ==
  \/ \E e \in Earliest(events) : e.time <= now /\ Take(e)
  \/ (\A e \in events : e.time > now) /\ TakeNone

Clear == events' = {} /\ UNCHANGED result

Next == \/ \E v \in Value, t \in Time : Push(v, t)
        \/ Pop
        \/ \E now \in Time : PopIfPending(now)
        \/ Clear

Spec == Init /\ [][Next]_vars
=============================================================================
