--------------------------- MODULE MCGraphEngine ----------------------------
(* GraphEngine on a graph with a diamond, a demux and a feedback loop:     *)
(*                                                                         *)
(*   src --> mid --> snk     src --> snk     kid --> snk                   *)
(*           mid ..> kid     fb  ..> snk     snk sends back to fb          *)
(*                                                                         *)
(* where ..> is a passive edge, and mid is the demux parent of kid.        *)
EXTENDS GraphEngine

CONSTANTS src, fb, mid, kid, snk

MCNode == {src, fb, mid, kid, snk}

On(n) == [node |-> n, active |-> TRUE]
Off(n) == [node |-> n, active |-> FALSE]

MCLayer == [n \in MCNode |-> CASE n \in {src, fb} -> 0 [] n = mid -> 1 [] n = kid -> 2 [] n = snk -> 3]
MCDownstreams == [n \in MCNode |-> CASE n = src -> <<On(mid), On(snk)>>
                                     [] n = fb -> <<Off(snk)>>
                                     [] n = mid -> <<Off(kid), On(snk)>>
                                     [] n = kid -> <<On(snk)>>
                                     [] n = snk -> <<>>]
MCMarkTargets == [n \in MCNode |-> IF n = mid THEN {kid} ELSE {}]
MCFeedbackTo == [n \in MCNode |-> IF n = snk THEN {fb} ELSE {}]

(* A smaller graph for the realtime runs: src --> snk, fb ..> snk, and snk *)
(* sends back to fb.                                                       *)
SmallNode == {src, fb, snk}
SmallLayer == [n \in SmallNode |-> IF n = snk THEN 1 ELSE 0]
SmallDownstreams == [n \in SmallNode |-> CASE n = src -> <<On(snk)>>
                                           [] n = fb -> <<Off(snk)>>
                                           [] n = snk -> <<>>]
SmallFeedbackTo == [n \in SmallNode |-> IF n = snk THEN {fb} ELSE {}]
SmallTargets == [n \in SmallNode |-> {}]

Lasting(d) == [kind |-> "Duration", bound |-> d]
Cycles(c) == [kind |-> "Cycles", bound |-> c]
Forever == [kind |-> "Forever", bound |-> 0]

AllRunFors == {Lasting(0), Lasting(2), Cycles(0), Cycles(1), Cycles(2), Forever}
TimedRunFors == {Lasting(1), Cycles(2), Forever}
=============================================================================
