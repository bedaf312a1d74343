--------------------------- MODULE MCGraphWorkers ---------------------------
(***************************************************************************)
(* Three values, of which one is dropped and one may make the worker fail; *)
(* their times are adjacent and apart, so that the extra cycle after a     *)
(* value falls on the next value's time and before it.                     *)
(***************************************************************************)
EXTENDS GraphWorkers

MCTimes == <<0, 1, 3>>
MCRunFors == {[kind |-> "Forever", bound |-> 0], [kind |-> "Duration", bound |-> 2],
              [kind |-> "Cycles", bound |-> 4]}

=============================================================================
