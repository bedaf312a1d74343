------------------------------ MODULE MCLinks -------------------------------
(***************************************************************************)
(* The transports, on small instances: FIX, Aeron and iceoryx2.  They do   *)
(* not interact with each other: a behaviour is one of a single transport, *)
(* chosen at the beginning, and the others stay in one of their initial    *)
(* states.                                                                 *)
(***************************************************************************)
EXTENDS FixAdapter, AeronAdapter, Iceoryx2Adapter

CONSTANT Components   \* the components that may be chosen

VARIABLE which        \* the component that runs

vars == <<which, fixVars, aeronVars, iceVars>>

-----------------------------------------------------------------------------
(* The instances *)

MCAeronSubs ==
  {[requested |-> "Spin",     backend |-> "rusteron", watch |-> TRUE],
   [requested |-> "Spin",     backend |-> "aeron-rs", watch |-> FALSE],
   [requested |-> "Threaded", backend |-> "rusteron", watch |-> TRUE]}

-----------------------------------------------------------------------------
Init ==
  /\ which \in Components
  /\ FixInit     /\ (which # "fix"     => fix.role = "sender")
  /\ AeronInit   /\ (which # "aeron"   => ~ poller.watch)
  /\ IceInit     /\ (which # "ice"     => ~ Polling /\ ~ iceSub.slice)

FixTurn ==
  /\ which = "fix" /\ FixNext
  /\ UNCHANGED <<which, aeronVars, iceVars>>

AeronTurn ==
  /\ which = "aeron" /\ AeronNext
  /\ UNCHANGED <<which, fixVars, iceVars>>

IceTurn ==
  /\ which = "ice" /\ IceNext
  /\ UNCHANGED <<which, fixVars, aeronVars>>

Next == FixTurn \/ AeronTurn \/ IceTurn

\* The fairness of the component that runs: its threads and its graph go on.
Spec ==
  /\ Init /\ [][Next]_vars
  /\ WF_fixVars(which = "fix" /\ FixThread) /\ WF_fixVars(which = "fix" /\ FixStopping)
  /\ WF_aeronVars(which = "aeron" /\ SubOpen) /\ WF_aeronVars(which = "aeron" /\ SubStep)
  /\ WF_aeronVars(which = "aeron" /\ SubCycle) /\ WF_aeronVars(which = "aeron" /\ Settle)
  /\ WF_aeronVars(which = "aeron" /\ (PubOffer \/ PubEnd))
  /\ WF_iceVars(which = "ice" /\ IceGraph) /\ WF_iceVars(which = "ice" /\ IceThread)
=============================================================================
