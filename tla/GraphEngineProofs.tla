------------------------- MODULE GraphEngineProofs --------------------------
(***************************************************************************)
(* The engine of graph.rs on every layered graph, with any number of       *)
(* nodes, callbacks and notifications: no glitch, no lost mark, at most    *)
(* one run of a node per cycle, a clock that advances, and one last cycle. *)
(***************************************************************************)
EXTENDS GraphEngine, SequenceTheorems, WellFoundedInduction, TLAPS

(* A queue that is not empty has an earliest callback. *)
LEMMA EarliestExists ==
  ASSUME NEW S \in SUBSET Event, S # {}
  PROVE  ES!Earliest(S) # {}
<1> DEFINE T == {e.time : e \in S}
<1>1. T \subseteq Nat /\ T # {}
  BY DEF Event
<1>2. PICK t \in T : \A u \in T : ~ (<<u, t>> \in OpToRel(<, Nat))
  BY <1>1, NatLessThanWellFounded, WFMin, Zenon
<1>3. PICK e \in S : e.time = t
  BY <1>2
<1>4. \A f \in S : ~ (f.time < t)
  BY <1>1, <1>2 DEF OpToRel
<1>5. ASSUME NEW f \in S PROVE e.time <= f.time
  <2>1. e.time \in Nat /\ f.time \in Nat
    BY DEF Event
  <2> QED BY <2>1, <1>3, <1>4
<1> QED BY <1>3, <1>5 DEF ES!Earliest

LEMMA NextScheduledTime ==
  ASSUME TypeOK, scheduled # {}
  PROVE  /\ next_scheduled_time \in Nat
         /\ \A e \in scheduled : next_scheduled_time <= e.time
<1>1. scheduled \in SUBSET Event
  BY DEF TypeOK
<1>2. (CHOOSE e \in ES!Earliest(scheduled) : TRUE) \in ES!Earliest(scheduled)
  BY <1>1, EarliestExists
<1> QED BY <1>1, <1>2 DEF next_scheduled_time, ES!Earliest, Event

LEMMA BoundsType ==
  ASSUME TypeOK
  PROVE  end_time \in Nat /\ end_cycle \in Nat
BY EngineAssumption DEF TypeOK, RunFor, end_time, end_cycle

(* What mark_dirty does to the marks, whichever branch it takes. *)
LEMMA MarkDirtyType ==
  ASSUME TypeOK, NEW n \in Node, mark_dirty(n)
  PROVE  /\ node_dirty' \in [Node -> BOOLEAN]
         /\ dirty' \in [Layers -> Seq(Node)]
<1> USE EngineAssumption DEF TypeOK, Layers
<1>1. CASE node_dirty[n]
  BY <1>1 DEF mark_dirty, marks
<1>2. CASE ~ node_dirty[n]
  <2>1. dirty[Layer[n]] \in Seq(Node)
    OBVIOUS
  <2>2. Append(dirty[Layer[n]], n) \in Seq(Node)
    BY <2>1, AppendProperties
  <2>3. node_dirty' \in [Node -> BOOLEAN]
    BY <1>2 DEF mark_dirty
  <2>4. dirty' = [dirty EXCEPT ![Layer[n]] = Append(@, n)]
    BY <1>2 DEF mark_dirty
  <2> QED BY <2>2, <2>3, <2>4
<1> QED BY <1>1, <1>2

-----------------------------------------------------------------------------
(* Type correctness. *)

LEMMA TypeStep == TypeOK /\ CursorInv /\ [Next]_vars => TypeOK'
<1> SUFFICES ASSUME TypeOK, CursorInv, [Next]_vars PROVE TypeOK'
  OBVIOUS
<1> USE DEF loop, queues, marks, cursor, clock, history
<1> DEFINE MarksType == node_dirty' \in [Node -> BOOLEAN] /\ dirty' \in [Layers -> Seq(Node)]
<1>1. CASE Stop
  BY <1>1 DEF Stop, TypeOK
<1>2. CASE LoopAgain
  BY <1>2 DEF LoopAgain, TypeOK
<1>3. CASE HistoricalRefuse
  BY <1>3 DEF HistoricalRefuse, TypeOK
<1>4. CASE HistoricalEnd
  BY <1>4 DEF HistoricalEnd, TypeOK
<1>5. CASE HistoricalAdvance
  <2>1. NextTime \in Nat
    BY NextScheduledTime DEF NextTime, Larger, TypeOK
  <2>2. time' \in Nat
    BY <1>5, <2>1 DEF HistoricalAdvance
  <2>3. /\ first_cycle' = FALSE /\ k' = 1 /\ pc' = "always"
        /\ UNCHANGED <<run_for, is_last_cycle, cycles, queues, marks, node_ticked, progressed,
                       cursor, clock, history>>
    BY <1>5 DEF HistoricalAdvance
  <2>4. first_cycle' \in BOOLEAN
    BY <2>3, Zenon
  <2> QED BY <2>2, <2>3, <2>4 DEF TypeOK
<1>6. ASSUME ready # <<>> PROVE Head(ready) \in Node /\ Tail(ready) \in Seq(Node)
  BY <1>6, HeadTailProperties DEF TypeOK
<1>7. CASE DrainReady
  <2>1. MarksType
    BY <1>6, <1>7, MarkDirtyType DEF DrainReady
  <2> QED BY <1>6, <1>7, <2>1 DEF DrainReady, TypeOK
<1>8. CASE DrainDone
  BY <1>8 DEF DrainDone, TypeOK
<1>9. CASE MarkAlways
  <2>1. mark_dirty(always[k]) /\ always[k] \in Node
    BY <1>9 DEF MarkAlways, TypeOK
  <2>2. MarksType
    BY <2>1, MarkDirtyType
  <2> QED BY <1>9, <2>2 DEF MarkAlways, TypeOK
<1>10. CASE AlwaysDone
  BY <1>10 DEF AlwaysDone, TypeOK
<1>11. CASE PopScheduled
  <2>1. PICK e \in ES!Earliest(scheduled) : mark_dirty(e.value) /\ scheduled' = scheduled \ {e}
    BY <1>11 DEF PopScheduled
  <2>2. e.value \in Node
    BY <2>1 DEF ES!Earliest, Event, TypeOK
  <2>3. MarksType
    BY <2>1, <2>2, MarkDirtyType
  <2> QED BY <1>11, <2>1, <2>3 DEF PopScheduled, TypeOK
<1>12. CASE ScheduledDone
  BY <1>12 DEF ScheduledDone, AfterScheduled, TypeOK
<1>13. CASE WaitReceive
  <2>1. MarksType
    BY <1>6, <1>13, MarkDirtyType DEF WaitReceive
  <2> QED BY <1>6, <1>13, <2>1 DEF WaitReceive, TypeOK
<1>14. CASE WaitTimeout
  BY <1>14 DEF WaitTimeout, TypeOK
<1>15. CASE SnapTime
  <2>1. time' \in Nat
    BY <1>15 DEF SnapTime, SnappedTime, Larger, TypeOK
  <2> QED BY <1>15, <2>1 DEF SnapTime, TypeOK
<1>16. CASE BeginCycle
  <2>1. len' \in Nat
    BY <1>16, LenProperties, EngineAssumption DEF BeginCycle, TypeOK, Layers
  <2>2. flagged' \in Nat /\ late' \in Nat
    BY <1>16 DEF BeginCycle, TypeOK
  <2> QED BY <1>16, <2>1, <2>2 DEF BeginCycle, TypeOK
<1>17. CASE EnterNode
  <2>1. dirty[lyr] \in Seq(Node) /\ i \in 1..Len(dirty[lyr])
    BY <1>17, EngineAssumption DEF EnterNode, TypeOK, Layers, CursorInv, InCycle
  <2>2. dirty[lyr][i] \in Node
    BY <2>1, ElementOfSeq
  <2> QED BY <1>17, <2>2 DEF EnterNode, TypeOK
<1>18. CASE NextLayer
  <2>1. len' \in Nat
    BY <1>18, LenProperties, EngineAssumption DEF NextLayer, TypeOK, Layers
  <2>2. lyr' \in 0..LayerCount
    BY <1>18, EngineAssumption DEF NextLayer, TypeOK
  <2> QED BY <1>18, <2>1, <2>2 DEF NextLayer, TypeOK
<1>19. CASE Propagate
  <2>1. current \in Node
    BY <1>19 DEF Propagate, TypeOK
  <2>2. Downstreams[current][k] \in Edge
    BY <1>19, <2>1, EngineAssumption DEF Propagate, TypeOK
  <2>3. MarksType
    BY <1>19, <2>2, MarkDirtyType DEF Propagate, Edge, TypeOK
  <2> QED BY <1>19, <2>3 DEF Propagate, TypeOK
<1>20. CASE PropagateDone
  BY <1>20 DEF PropagateDone, TypeOK
<1>21. CASE CycleDone
  BY <1>21 DEF CycleDone, TypeOK
<1>22. CASE EndCycle
  <2>1. cycles' \in Nat /\ lyr' \in 0..LayerCount
    BY <1>22, EngineAssumption DEF EndCycle, TypeOK
  <2>2. MarksType
    BY <1>22, EmptySeq DEF EndCycle
  <2> QED BY <1>22, <2>1, <2>2 DEF EndCycle, TypeOK
<1>23. CASE ReturnFalse
  BY <1>23 DEF ReturnFalse, TypeOK
<1>24. CASE ReturnTrue
  BY <1>24 DEF ReturnTrue, TypeOK
<1>25. CASE ReturnError
  BY <1>25 DEF ReturnError, TypeOK
<1>26. ASSUME NEW t \in CallbackTimes, AddCallback(t) PROVE TypeOK'
  <2>1. [value |-> current, time |-> t] \in Event
    BY <1>26, EngineAssumption DEF AddCallback, TypeOK, Event
  <2> QED BY <1>26, <2>1 DEF AddCallback, TypeOK
<1>27. ASSUME NEW n \in FeedbackTo[current], FeedbackSend(n) PROVE TypeOK'
  <2>1. [value |-> n, time |-> time + 1] \in Event
    BY <1>27, EngineAssumption DEF FeedbackSend, TypeOK, Event
  <2> QED BY <1>27, <2>1 DEF FeedbackSend, TypeOK
<1>28. CASE AlwaysCallback
  <2>1. always' \in Seq(Node)
    BY <1>28, AppendProperties DEF AlwaysCallback, TypeOK
  <2> QED BY <1>28, <2>1 DEF AlwaysCallback, TypeOK
<1>29. ASSUME NEW m \in MarkTargets[current], MarkTarget(m) PROVE TypeOK'
  <2>1. m \in Node
    BY <1>29, EngineAssumption DEF MarkTarget, TypeOK
  <2>2. MarksType
    BY <1>29, <2>1, MarkDirtyType DEF MarkTarget
  <2> QED BY <1>29, <2>2 DEF MarkTarget, TypeOK
<1>30. CASE Tick
  <2>1. now' \in Nat
    BY <1>30 DEF Tick, TypeOK
  <2> QED BY <1>30, <2>1 DEF Tick, TypeOK
<1>31. ASSUME NEW n \in NotifyNodes, Notify(n) PROVE TypeOK'
  <2>1. Append(ready, n) \in Seq(Node)
    BY AppendProperties, EngineAssumption DEF TypeOK
  <2> QED BY <1>31, <2>1 DEF Notify, TypeOK
<1>32. CASE UNCHANGED vars
  BY <1>32 DEF vars, TypeOK
<1> QED
  BY <1>1, <1>2, <1>3, <1>4, <1>5, <1>7, <1>8, <1>9, <1>10, <1>11, <1>12, <1>13, <1>14,
     <1>15, <1>16, <1>17, <1>18, <1>19, <1>20, <1>21, <1>22, <1>23, <1>24, <1>25, <1>26,
     <1>27, <1>28, <1>29, <1>30, <1>31, <1>32
  DEF Next, Engine, Return, Call

-----------------------------------------------------------------------------
(* The marks.  Every step leaves them alone, clears them, or is mark_dirty *)
(* of one node; inside a cycle that node has a later layer than the node   *)
(* that runs.                                                              *)

Marking(n) ==
  /\ mark_dirty(n)
  /\ UNCHANGED <<cursor, history, node_ticked, loop>>
  /\ \/ pc \in {"drain", "always", "scheduled"} /\ pc' = pc /\ progressed'
     \/ pc = "wait" /\ pc' = "snap" /\ progressed'
     \/ InNode /\ pc' = pc /\ Layer[current] < Layer[n]

(* The actions that call mark_dirty. *)
MarkingStep ==
  \/ DrainReady \/ WaitReceive \/ MarkAlways \/ PopScheduled
  \/ Propagate /\ Downstreams[current][k].active
  \/ pc = "node" /\ \E m \in MarkTargets[current] : MarkTarget(m)

LEMMA MarkingActions ==
  ASSUME TypeOK, MarkingStep
  PROVE  \E n \in Node : Marking(n)
<1> USE DEF InNode
<1>1. ASSUME ready # <<>> PROVE Head(ready) \in Node
  BY <1>1, HeadTailProperties DEF TypeOK
<1>2. CASE DrainReady
  BY <1>1, <1>2 DEF DrainReady, Marking
<1>3. CASE WaitReceive
  BY <1>1, <1>3 DEF WaitReceive, Marking
<1>4. CASE MarkAlways
  <2>1. always[k] \in Node
    BY <1>4 DEF MarkAlways, TypeOK
  <2> QED BY <1>4, <2>1 DEF MarkAlways, Marking
<1>5. CASE PopScheduled
  <2>1. PICK e \in ES!Earliest(scheduled) : mark_dirty(e.value)
    BY <1>5 DEF PopScheduled
  <2>2. e.value \in Node
    BY <2>1 DEF ES!Earliest, Event, TypeOK
  <2> QED BY <1>5, <2>1, <2>2 DEF PopScheduled, Marking
<1>6. CASE Propagate /\ Downstreams[current][k].active
  <2>1. current \in Node /\ k \in 1..Len(Downstreams[current])
    BY <1>6, EngineAssumption DEF Propagate, TypeOK
  <2>2. Downstreams[current][k].node \in Node
    <3>1. Downstreams[current] \in Seq(Edge)
      BY <2>1, EngineAssumption
    <3>2. Downstreams[current][k] \in Edge
      BY <2>1, <3>1, ElementOfSeq
    <3> QED BY <3>2 DEF Edge
  <2>3. Layer[current] < Layer[Downstreams[current][k].node]
    BY <2>1, EngineAssumption
  <2>4. mark_dirty(Downstreams[current][k].node)
    BY <1>6 DEF Propagate
  <2> QED BY <1>6, <2>2, <2>3, <2>4 DEF Propagate, Marking
<1>7. ASSUME pc = "node", NEW m \in MarkTargets[current], MarkTarget(m)
      PROVE  Marking(m) /\ m \in Node
  <2>1. m \in Node /\ Layer[current] < Layer[m]
    BY <1>7, EngineAssumption DEF TypeOK
  <2> QED BY <1>7, <2>1 DEF MarkTarget, Marking
<1> QED BY <1>2, <1>3, <1>4, <1>5, <1>6, <1>7 DEF MarkingStep

LEMMA MarkSteps ==
  ASSUME TypeOK, [Next]_vars
  PROVE  UNCHANGED marks \/ EndCycle \/ MarkingStep
<1> SUFFICES ASSUME ~ UNCHANGED marks, ~ EndCycle PROVE MarkingStep
  OBVIOUS
<1>1. ~ (\/ Stop \/ LoopAgain \/ HistoricalRefuse \/ HistoricalEnd \/ HistoricalAdvance
         \/ DrainDone \/ AlwaysDone \/ ScheduledDone \/ WaitTimeout \/ SnapTime)
  BY DEF Stop, LoopAgain, HistoricalRefuse, HistoricalEnd, HistoricalAdvance, DrainDone,
         AlwaysDone, ScheduledDone, WaitTimeout, SnapTime
<1>2. ~ (\/ BeginCycle \/ EnterNode \/ NextLayer \/ PropagateDone \/ CycleDone
         \/ ReturnTrue \/ ReturnFalse \/ ReturnError \/ AlwaysCallback \/ Tick
         \/ UNCHANGED vars)
  BY DEF BeginCycle, EnterNode, NextLayer, PropagateDone, CycleDone, ReturnTrue,
         ReturnFalse, ReturnError, AlwaysCallback, Tick, vars
<1>3. \A x : ~ (AddCallback(x) \/ FeedbackSend(x) \/ Notify(x))
  BY DEF AddCallback, FeedbackSend, Notify
<1>4. Propagate => Downstreams[current][k].active
  BY DEF Propagate
<1> QED BY <1>1, <1>2, <1>3, <1>4 DEF Next, Engine, Return, Call, MarkingStep

(* What mark_dirty does, whichever branch it takes. *)
LEMMA MarkDirtyEffect ==
  ASSUME TypeOK, MarksAgree, NEW n \in Node, mark_dirty(n)
  PROVE  /\ \A m \in Node : node_dirty'[m] <=> node_dirty[m] \/ m = n
         /\ \A l \in Layers : l # Layer[n] => dirty'[l] = dirty[l]
         /\ MarksAgree'
<1>1. Layer[n] \in Layers /\ \A m \in Node : Layer[m] \in Layers
  BY EngineAssumption DEF Layers
<1>2. CASE node_dirty[n]
  BY <1>2 DEF mark_dirty, marks, MarksAgree
<1>3. CASE ~ node_dirty[n]
  <2> DEFINE s == dirty[Layer[n]]
             t == dirty'[Layer[n]]
  <2>1. s \in Seq(Node)
    BY <1>1 DEF TypeOK
  <2>2. \A m \in Node : node_dirty'[m] <=> node_dirty[m] \/ m = n
    BY <1>3 DEF mark_dirty, TypeOK
  <2>3. \A l \in Layers : l # Layer[n] => dirty'[l] = dirty[l]
    BY <1>3 DEF mark_dirty, TypeOK
  <2>4. t = Append(s, n)
    BY <1>1, <1>3 DEF mark_dirty, TypeOK
  <2>5. /\ Len(t) = Len(s) + 1
        /\ t[Len(s) + 1] = n
        /\ \A p \in 1..Len(s) : t[p] = s[p]
        /\ Len(s) \in Nat
    BY <2>1, <2>4, AppendProperties, LenProperties
  <2>6. \A p \in 1..Len(s) : s[p] \in Node /\ s[p] # n
    BY <1>1, <1>3, <2>1, ElementOfSeq DEF MarksAgree
  <2>7. ASSUME NEW m \in Node, node_dirty'[m]
        PROVE  \E p \in 1..Len(dirty'[Layer[m]]) : dirty'[Layer[m]][p] = m
    <3>1. CASE m = n
      BY <2>5, <3>1
    <3>2. CASE m # n
      <4>1. PICK p \in 1..Len(dirty[Layer[m]]) : dirty[Layer[m]][p] = m
        BY <2>2, <2>7, <3>2 DEF MarksAgree
      <4>2. CASE Layer[m] = Layer[n]
        BY <2>5, <4>1, <4>2
      <4>3. CASE Layer[m] # Layer[n]
        BY <1>1, <2>3, <4>1, <4>3
      <4> QED BY <4>2, <4>3
    <3> QED BY <3>1, <3>2
  <2>8. ASSUME NEW l \in Layers, NEW p \in 1..Len(dirty'[l])
        PROVE  Layer[dirty'[l][p]] = l /\ node_dirty'[dirty'[l][p]]
    <3>1. CASE l = Layer[n]
      <4>1. CASE p = Len(s) + 1
        BY <2>2, <2>5, <3>1, <4>1
      <4>2. CASE p # Len(s) + 1
        <5>1. p \in 1..Len(s) /\ dirty'[l][p] = s[p]
          BY <2>5, <2>8, <3>1, <4>2
        <5>2. s[p] \in Node /\ Layer[s[p]] = l /\ node_dirty[s[p]]
          BY <1>1, <2>6, <3>1, <5>1 DEF MarksAgree
        <5> QED BY <2>2, <5>1, <5>2
      <4> QED BY <4>1, <4>2
    <3>2. CASE l # Layer[n]
      <4>1. dirty'[l] = dirty[l] /\ dirty[l] \in Seq(Node)
        BY <2>3, <3>2 DEF TypeOK
      <4>2. dirty[l][p] \in Node /\ Layer[dirty[l][p]] = l /\ node_dirty[dirty[l][p]]
        BY <4>1, ElementOfSeq DEF MarksAgree
      <4> QED BY <2>2, <4>1, <4>2
    <3> QED BY <3>1, <3>2
  <2>9. ASSUME NEW l \in Layers, NEW p \in 1..Len(dirty'[l]), NEW q \in 1..Len(dirty'[l]),
               dirty'[l][p] = dirty'[l][q]
        PROVE  p = q
    <3>1. CASE l = Layer[n]
      <4>1. \A a, b \in 1..Len(s) : s[a] = s[b] => a = b
        BY <1>1 DEF MarksAgree
      <4> HIDE DEF s, t
      <4>2. p \in 1..(Len(s) + 1) /\ q \in 1..(Len(s) + 1) /\ t[p] = t[q]
        BY <2>5, <2>9, <3>1 DEF t
      <4> QED BY <2>5, <2>6, <4>1, <4>2
    <3>2. CASE l # Layer[n]
      BY <2>3, <2>9, <3>2 DEF MarksAgree
    <3> QED BY <3>1, <3>2
  <2> QED BY <2>2, <2>3, <2>7, <2>8, <2>9 DEF MarksAgree
<1> QED BY <1>2, <1>3

LEMMA MarksStep == TypeOK /\ MarksAgree /\ [Next]_vars => MarksAgree'
<1> SUFFICES ASSUME TypeOK, MarksAgree, [Next]_vars PROVE MarksAgree'
  OBVIOUS
<1>1. CASE UNCHANGED marks
  BY <1>1 DEF marks, MarksAgree
<1>2. CASE EndCycle
  BY <1>2, EngineAssumption DEF EndCycle, MarksAgree, Layers
<1>3. ASSUME NEW n \in Node, Marking(n) PROVE MarksAgree'
  BY <1>3, MarkDirtyEffect DEF Marking
<1> QED BY <1>1, <1>2, <1>3, MarkSteps, MarkingActions

-----------------------------------------------------------------------------
(* The cursor of cycle(), the nodes it has run, and the absence of glitches. *)

(* A node that reads another is in a later layer. *)
LEMMA ReadersAreLater ==
  ASSUME NEW n \in Node, NEW m \in Node, Reads(n, m)
  PROVE  Layer[m] < Layer[n]
BY EngineAssumption DEF Reads

LEMMA LayerType == \A n \in Node : Layer[n] \in Layers /\ Layer[n] \in Nat
<1> SUFFICES ASSUME NEW n \in Node PROVE Layer[n] \in Layers /\ Layer[n] \in Nat
  OBVIOUS
<1>1. Layer[n] \in 0..(LayerCount - 1) /\ LayerCount \in Nat
  BY EngineAssumption
<1> QED BY <1>1 DEF Layers

LEMMA CursorStep ==
  TypeOK /\ MarksAgree /\ CursorInv /\ RanInv /\ GlitchFree /\ [Next]_vars
    => CursorInv' /\ RanInv' /\ GlitchFree'
<1> SUFFICES ASSUME TypeOK, MarksAgree, CursorInv, RanInv, GlitchFree, [Next]_vars
             PROVE  CursorInv' /\ RanInv' /\ GlitchFree'
  OBVIOUS
<1> USE DEF InCycle, InNode
<1> DEFINE Held == UNCHANGED <<marks, cursor, ran>>
(* Steps that move neither the cursor nor the marks, outside a cycle. *)
<1>1. ASSUME Held, ~ InCycle, pc # "failed", pc' \notin {"layer", "node", "ticked", "end"}
      PROVE  CursorInv' /\ RanInv' /\ GlitchFree'
  BY <1>1 DEF marks, cursor, CursorInv, RanInv, GlitchFree
(* Steps that do not move them and stay where they are. *)
<1>2. ASSUME Held, pc' = pc
      PROVE  CursorInv' /\ RanInv' /\ GlitchFree'
  BY <1>2 DEF marks, cursor, CursorInv, RanInv, GlitchFree
<1>3. ASSUME NEW n \in Node, Marking(n)
      PROVE  CursorInv' /\ RanInv' /\ GlitchFree'
  <2>1. /\ \A m \in Node : node_dirty'[m] <=> node_dirty[m] \/ m = n
        /\ \A l \in Layers : l # Layer[n] => dirty'[l] = dirty[l]
    BY <1>3, MarkDirtyEffect DEF Marking
  <2>2. UNCHANGED <<lyr, i, len, current, ran>>
    BY <1>3 DEF Marking, cursor, history
  <2>3. CASE ~ InCycle
    <3>1. pc # "failed" /\ pc' \notin {"layer", "node", "ticked", "end", "failed"}
      BY <1>3, <2>3 DEF Marking
    <3>2. ran = {} /\ ran' = {}
      BY <2>2, <2>3, <3>1 DEF CursorInv
    <3> QED BY <2>2, <2>3, <3>1, <3>2 DEF CursorInv, RanInv, GlitchFree
  <2>4. CASE InCycle
    <3>1. InNode /\ pc' = pc /\ Layer[current] < Layer[n]
      BY <1>3, <2>4 DEF Marking
    <3>2. lyr < LayerCount /\ lyr \in Layers /\ current = dirty[lyr][i] /\ i \in 1..Len(dirty[lyr])
      BY <3>1, EngineAssumption DEF CursorInv, TypeOK, Layers
    <3>3. Layer[current] = lyr
      BY <3>2 DEF MarksAgree
    <3>4. dirty'[lyr] = dirty[lyr]
      BY <2>1, <3>1, <3>2, <3>3, LayerType
    <3>5. CursorInv'
      BY <2>2, <3>1, <3>4 DEF CursorInv
    <3>6. RanInv'
      <4>1. \A m \in Node : node_dirty'[m] /\ Layer[m] < lyr => m \in ran
        BY <2>1, <2>4, <3>1, <3>3, LayerType DEF RanInv, TypeOK
      <4> QED BY <2>1, <2>2, <2>4, <3>1, <3>4, <4>1 DEF RanInv, TypeOK
    <3>7. GlitchFree'
      <4>1. ASSUME NEW a \in ran, NEW m \in Node, Reads(a, m), node_dirty'[m] PROVE m \in ran
        <5>1. a \in Node /\ Layer[a] <= lyr
          BY <2>4 DEF RanInv, TypeOK
        <5>2. Layer[m] < Layer[a]
          BY <4>1, <5>1, ReadersAreLater
        <5>3. m # n
          BY <3>1, <3>3, <5>1, <5>2, LayerType DEF TypeOK
        <5> QED BY <2>1, <4>1, <5>3 DEF GlitchFree
      <4> QED BY <2>2, <4>1 DEF GlitchFree, Reads
    <3> QED BY <3>5, <3>6, <3>7
  <2> QED BY <2>3, <2>4
<1>4. CASE BeginCycle
  <2>1. lyr = 0 /\ i = 1 /\ ran = {} /\ UNCHANGED <<marks, lyr, i, current, ran>>
    BY <1>4 DEF BeginCycle, CursorInv
  <2>2. pc' = "layer" /\ len' = IF LayerCount > 0 THEN Len(dirty[0]) ELSE 0
    BY <1>4 DEF BeginCycle
  <2>3. CursorInv'
    BY <2>1, <2>2, LenProperties, EngineAssumption DEF CursorInv, marks, TypeOK, Layers
  <2>4. RanInv'
    BY <2>1, <2>2, LayerType DEF RanInv, marks
  <2>5. GlitchFree'
    BY <2>1 DEF GlitchFree
  <2> QED BY <2>3, <2>4, <2>5
<1>5. CASE EnterNode
  <2> DEFINE n == dirty[lyr][i]
  <2>1. /\ pc = "layer" /\ lyr \in Layers /\ lyr < LayerCount
        /\ i \in 1..Len(dirty[lyr]) /\ len = Len(dirty[lyr])
    BY <1>5, EngineAssumption DEF EnterNode, CursorInv, TypeOK, Layers
  <2>2. n \in Node /\ node_dirty[n] /\ Layer[n] = lyr
    BY <2>1, ElementOfSeq DEF MarksAgree, TypeOK
  <2>3. /\ pc' = "node" /\ current' = n /\ ran' = ran \cup {n}
        /\ UNCHANGED <<marks, lyr, i, len>>
    BY <1>5 DEF EnterNode
  <2>4. CursorInv'
    BY <2>1, <2>3, LenProperties DEF CursorInv, marks, TypeOK
  <2>5. RanInv'
    <3>1. \A p \in 1..Len(dirty[lyr]) : dirty[lyr][p] \in ran <=> p < i
      BY <2>1 DEF RanInv
    <3>2. \A p \in 1..Len(dirty[lyr]) : dirty[lyr][p] = n <=> p = i
      BY <2>1 DEF MarksAgree
    <3>3. \A p \in 1..Len(dirty[lyr]) : dirty[lyr][p] \in ran' <=> p < i \/ p = i
      BY <2>3, <3>1, <3>2
    <3>4. \A m \in ran' : node_dirty[m] /\ Layer[m] <= lyr
      BY <2>1, <2>2, <2>3, LayerType DEF RanInv
    <3>5. \A m \in Node : node_dirty[m] /\ Layer[m] < lyr => m \in ran'
      BY <2>1, <2>3 DEF RanInv
    <3> HIDE DEF n
    <3> QED BY <2>3, <3>3, <3>4, <3>5 DEF RanInv, marks
  <2>6. GlitchFree'
    <3>1. ASSUME NEW m \in Node, Reads(n, m), node_dirty[m] PROVE m \in ran
      <4>1. Layer[m] < lyr
        BY <2>2, <3>1, ReadersAreLater
      <4> QED BY <2>1, <3>1, <4>1 DEF RanInv
    <3> HIDE DEF n
    <3> QED BY <2>3, <3>1 DEF GlitchFree, Reads, marks
  <2> QED BY <2>4, <2>5, <2>6
<1>6. CASE NextLayer
  <2>1. /\ pc = "layer" /\ lyr \in Layers /\ lyr < LayerCount /\ len = Len(dirty[lyr]) /\ i > len
        /\ lyr \in Nat /\ LayerCount \in Nat
    BY <1>6, EngineAssumption DEF NextLayer, CursorInv, TypeOK, Layers
  <2>2. /\ pc' = "layer" /\ lyr' = lyr + 1 /\ i' = 1 /\ UNCHANGED <<marks, current, ran>>
        /\ len' = IF lyr + 1 < LayerCount THEN Len(dirty[lyr + 1]) ELSE 0
    BY <1>6 DEF NextLayer, history
  <2>3. ASSUME NEW n \in Node, node_dirty[n], Layer[n] < lyr + 1 PROVE n \in ran
    <3>1. CASE Layer[n] < lyr
      BY <2>1, <2>3, <3>1 DEF RanInv
    <3>2. CASE Layer[n] = lyr
      <4>1. PICK p \in 1..Len(dirty[lyr]) : dirty[lyr][p] = n
        BY <2>3, <3>2 DEF MarksAgree
      <4>2. p < i
        BY <2>1, <4>1 DEF TypeOK
      <4> QED BY <2>1, <4>1, <4>2 DEF RanInv
    <3> QED BY <2>1, <2>3, <3>1, <3>2, LayerType
  <2>4. \A n \in ran : n \in Node /\ node_dirty[n] /\ Layer[n] <= lyr
    BY <2>1 DEF RanInv, TypeOK
  <2>5. CursorInv'
    BY <2>1, <2>2, LenProperties DEF CursorInv, marks, TypeOK, Layers
  <2>6. RanInv'
    <3>1. ASSUME lyr + 1 < LayerCount, NEW p \in 1..Len(dirty[lyr + 1])
          PROVE  dirty[lyr + 1][p] \notin ran /\ ~ (p < 1)
      <4>1. Layer[dirty[lyr + 1][p]] = lyr + 1
        BY <2>1, <3>1 DEF MarksAgree, Layers
      <4> QED BY <2>1, <2>4, <4>1
    <3>2. \A n \in ran : node_dirty[n] /\ Layer[n] <= lyr + 1
      BY <2>1, <2>4, LayerType
    <3> QED BY <2>2, <2>3, <3>1, <3>2 DEF RanInv, marks
  <2>7. GlitchFree'
    BY <2>2 DEF GlitchFree, Reads, marks
  <2> QED BY <2>5, <2>6, <2>7
<1>7. CASE ReturnTrue
  BY <1>7 DEF ReturnTrue, marks, cursor, history, CursorInv, RanInv, GlitchFree, Reads
<1>8. ASSUME /\ InNode /\ pc' = "layer" /\ i' = i + 1
             /\ UNCHANGED <<marks, lyr, len, ran>>
      PROVE  CursorInv' /\ RanInv' /\ GlitchFree'
  <2>1. /\ lyr < LayerCount /\ i <= len /\ len = Len(dirty[lyr])
        /\ i \in Nat /\ len \in Nat
    BY <1>8 DEF CursorInv, TypeOK
  <2>2. CursorInv'
    BY <1>8, <2>1 DEF CursorInv, marks
  <2>3. RanInv'
    BY <1>8, <2>1 DEF RanInv, marks
  <2>4. GlitchFree'
    BY <1>8 DEF GlitchFree, Reads, marks
  <2> QED BY <2>2, <2>3, <2>4
<1>9. CASE ReturnFalse \/ PropagateDone
  BY <1>8, <1>9 DEF ReturnFalse, PropagateDone, history
<1>10. CASE ReturnError \/ HistoricalRefuse
  BY <1>10 DEF ReturnError, HistoricalRefuse, marks, history, cursor, CursorInv, RanInv, GlitchFree, Reads
<1>11. CASE CycleDone
  BY <1>11 DEF CycleDone, marks, cursor, history, CursorInv, RanInv, GlitchFree, Reads
<1>12. CASE EndCycle
  BY <1>12 DEF EndCycle, CursorInv, RanInv, GlitchFree
<1>13. CASE Stop \/ LoopAgain
  BY <1>1, <1>13 DEF Stop, LoopAgain, history
<1>14. CASE HistoricalEnd \/ HistoricalAdvance
  BY <1>1, <1>14 DEF HistoricalEnd, HistoricalAdvance, history
<1>15. CASE DrainDone \/ AlwaysDone \/ ScheduledDone
  BY <1>1, <1>15 DEF DrainDone, AlwaysDone, ScheduledDone, AfterScheduled, history
<1>16. CASE WaitTimeout \/ SnapTime
  BY <1>1, <1>16 DEF WaitTimeout, SnapTime, history
<1>17. ASSUME NEW t \in CallbackTimes, AddCallback(t) PROVE CursorInv' /\ RanInv' /\ GlitchFree'
  BY <1>2, <1>17 DEF AddCallback, history
<1>18. ASSUME NEW n \in FeedbackTo[current], FeedbackSend(n)
       PROVE  CursorInv' /\ RanInv' /\ GlitchFree'
  BY <1>2, <1>18 DEF FeedbackSend, history
<1>19. CASE AlwaysCallback \/ Tick
  BY <1>2, <1>19 DEF AlwaysCallback, Tick, history
<1>20. ASSUME NEW n \in NotifyNodes, Notify(n) PROVE CursorInv' /\ RanInv' /\ GlitchFree'
  BY <1>2, <1>20 DEF Notify, history
<1>21. CASE UNCHANGED vars
  BY <1>2, <1>21 DEF vars, history
<1>22. CASE Propagate /\ ~ Downstreams[current][k].active
  BY <1>2, <1>22 DEF Propagate, history
<1> QED
  BY <1>3, <1>4, <1>5, <1>6, <1>7, <1>9, <1>10, <1>11, <1>12, <1>13, <1>14, <1>15, <1>16,
     <1>17, <1>18, <1>19, <1>20, <1>21, <1>22, MarkingActions
  DEF Next, Engine, Return, Call, MarkingStep

-----------------------------------------------------------------------------
(* The ticks reach the downstreams, and passes that do nothing leave no mark. *)

LEMMA TickStep == TypeOK /\ MarksAgree /\ TickInv /\ [Next]_vars => TickInv'
<1> SUFFICES ASSUME TypeOK, MarksAgree, TickInv, [Next]_vars PROVE TickInv'
  OBVIOUS
<1>1. ASSUME NEW n \in Node, NEW d \in 1..Len(Downstreams[n])
      PROVE  Downstreams[n][d].node \in Node
  <2>1. Downstreams[n] \in Seq(Edge)
    BY EngineAssumption
  <2>2. Downstreams[n][d] \in Edge
    BY <2>1, ElementOfSeq
  <2> QED BY <2>2 DEF Edge
<1>2. ASSUME UNCHANGED node_ticked, pc # "ticked", pc' # "ticked",
             \A m \in Node : node_dirty[m] => node_dirty'[m]
      PROVE  TickInv'
  BY <1>1, <1>2 DEF TickInv
<1>3. ASSUME UNCHANGED <<marks, node_ticked, pc, k, current>> PROVE TickInv'
  BY <1>3 DEF TickInv, marks
<1>4. CASE Propagate
  <2>1. /\ pc = "ticked" /\ pc' = "ticked" /\ current' = current /\ node_ticked' = node_ticked
        /\ k \in 1..Len(Downstreams[current]) /\ k' = k + 1 /\ current \in Node
    BY <1>4, EngineAssumption DEF Propagate, cursor, TypeOK
  <2>2. /\ \A m \in Node : node_dirty[m] => node_dirty'[m]
        /\ Downstreams[current][k].active => node_dirty'[Downstreams[current][k].node]
    <3>1. CASE Downstreams[current][k].active
      BY <1>1, <1>4, <2>1, <3>1, MarkDirtyEffect DEF Propagate
    <3>2. CASE ~ Downstreams[current][k].active
      BY <1>4, <3>2 DEF Propagate, marks
    <3> QED BY <3>1, <3>2
  <2>3. ASSUME NEW n \in Node, node_ticked[n], NEW d \in 1..Len(Downstreams[n]),
               Downstreams[n][d].active, ~ (current = n /\ d >= k + 1)
        PROVE  node_dirty'[Downstreams[n][d].node]
    <3>1. CASE current = n /\ d = k
      BY <2>2, <2>3, <3>1
    <3>2. CASE ~ (current = n /\ d = k)
      <4>1. ~ (current = n /\ d >= k)
        BY <2>1, <2>3, <3>2
      <4>2. node_dirty[Downstreams[n][d].node]
        BY <2>1, <2>3, <4>1 DEF TickInv
      <4> QED BY <1>1, <2>2, <4>2
    <3> QED BY <3>1, <3>2
  <2> QED BY <2>1, <2>3 DEF TickInv
<1>5. CASE PropagateDone
  <2>1. /\ pc = "ticked" /\ pc' = "layer" /\ UNCHANGED <<marks, node_ticked>>
        /\ k > Len(Downstreams[current]) /\ k \in Nat
    BY <1>5 DEF PropagateDone, TypeOK
  <2>2. ASSUME NEW n \in Node, node_ticked[n], NEW d \in 1..Len(Downstreams[n]),
               Downstreams[n][d].active
        PROVE  node_dirty[Downstreams[n][d].node]
    <3>1. ~ (current = n /\ d >= k)
      BY <2>1, EngineAssumption
    <3> QED BY <2>2, <3>1 DEF TickInv
  <2> QED BY <2>1, <2>2 DEF TickInv, marks
<1>6. CASE ReturnTrue
  <2>1. /\ pc = "node" /\ pc' = "ticked" /\ k' = 1 /\ current' = current
        /\ UNCHANGED marks /\ \A n \in Node : n # current => node_ticked'[n] = node_ticked[n]
    BY <1>6 DEF ReturnTrue, cursor, TypeOK
  <2>2. ASSUME NEW n \in Node, node_ticked'[n], NEW d \in 1..Len(Downstreams[n]),
               Downstreams[n][d].active, ~ (current = n /\ d >= 1)
        PROVE  node_dirty[Downstreams[n][d].node]
    BY <2>1, <2>2 DEF TickInv
  <2> QED BY <2>1, <2>2 DEF TickInv, marks
<1>7. CASE EndCycle
  BY <1>7 DEF EndCycle, TickInv
<1>8. ASSUME MarkingStep, ~ Propagate PROVE TickInv'
  <2>1. PICK n \in Node : Marking(n)
    BY <1>8, MarkingActions
  <2>2. \A m \in Node : node_dirty[m] => node_dirty'[m]
    BY <2>1, MarkDirtyEffect DEF Marking
  <2>3. pc # "ticked" /\ pc' # "ticked"
    BY <1>8 DEF MarkingStep, DrainReady, WaitReceive, MarkAlways, PopScheduled, MarkTarget
  <2> QED BY <1>2, <2>1, <2>2, <2>3 DEF Marking
<1>9. CASE Stop \/ LoopAgain
  BY <1>2, <1>9 DEF Stop, LoopAgain, marks
<1>10. CASE HistoricalRefuse \/ HistoricalEnd \/ HistoricalAdvance
  BY <1>2, <1>10 DEF HistoricalRefuse, HistoricalEnd, HistoricalAdvance, marks
<1>11. CASE DrainDone \/ AlwaysDone \/ ScheduledDone
  BY <1>2, <1>11 DEF DrainDone, AlwaysDone, ScheduledDone, AfterScheduled, marks
<1>12. CASE WaitTimeout \/ SnapTime
  BY <1>2, <1>12 DEF WaitTimeout, SnapTime, marks
<1>13. CASE BeginCycle \/ EnterNode \/ NextLayer \/ CycleDone
  BY <1>2, <1>13 DEF BeginCycle, EnterNode, NextLayer, CycleDone, marks
<1>14. CASE ReturnFalse \/ ReturnError
  BY <1>2, <1>14 DEF ReturnFalse, ReturnError, marks
<1>15. ASSUME NEW x, AddCallback(x) \/ FeedbackSend(x) \/ Notify(x) PROVE TickInv'
  BY <1>3, <1>15 DEF AddCallback, FeedbackSend, Notify, marks, cursor
<1>16. CASE AlwaysCallback \/ Tick \/ UNCHANGED vars
  BY <1>3, <1>16 DEF AlwaysCallback, Tick, vars, marks, cursor
<1> QED
  BY <1>4, <1>5, <1>6, <1>7, <1>8, <1>9, <1>10, <1>11, <1>12, <1>13, <1>14, <1>15, <1>16
  DEF Next, Engine, Return, Call, MarkingStep

LEMMA QuietStep == TypeOK /\ QuietInv /\ [Next]_vars => QuietInv'
<1> SUFFICES ASSUME TypeOK, QuietInv, [Next]_vars PROVE QuietInv'
  OBVIOUS
<1> USE DEF InCycle
<1>1. CASE Stop \/ LoopAgain
  BY <1>1 DEF Stop, LoopAgain, marks, QuietInv
<1>2. CASE HistoricalRefuse \/ HistoricalEnd
  BY <1>2 DEF HistoricalRefuse, HistoricalEnd, marks, QuietInv
<1>3. CASE HistoricalAdvance
  BY <1>3 DEF HistoricalAdvance, marks, QuietInv
<1>4. ASSUME NEW n \in Node, Marking(n) PROVE QuietInv'
  BY <1>4 DEF Marking, QuietInv, InNode
<1>5. CASE DrainDone \/ AlwaysDone
  BY <1>5 DEF DrainDone, AlwaysDone, marks, QuietInv
<1>6. CASE ScheduledDone
  BY <1>6 DEF ScheduledDone, AfterScheduled, marks, QuietInv
<1>7. CASE WaitTimeout \/ SnapTime
  BY <1>7 DEF WaitTimeout, SnapTime, marks, QuietInv
<1>8. CASE BeginCycle \/ EnterNode \/ NextLayer \/ CycleDone
  BY <1>8 DEF BeginCycle, EnterNode, NextLayer, CycleDone, QuietInv
<1>9. CASE ReturnFalse \/ ReturnTrue \/ ReturnError \/ PropagateDone
  BY <1>9 DEF ReturnFalse, ReturnTrue, ReturnError, PropagateDone, QuietInv
<1>10. CASE EndCycle
  BY <1>10 DEF EndCycle, QuietInv
<1>11. ASSUME NEW x, AddCallback(x) \/ FeedbackSend(x) \/ Notify(x) PROVE QuietInv'
  BY <1>11 DEF AddCallback, FeedbackSend, Notify, marks, QuietInv
<1>12. CASE AlwaysCallback \/ Tick \/ UNCHANGED vars
  BY <1>12 DEF AlwaysCallback, Tick, vars, marks, QuietInv
<1>13. CASE Propagate
  BY <1>13 DEF Propagate, QuietInv
<1> QED
  BY <1>1, <1>2, <1>3, <1>4, <1>5, <1>6, <1>7, <1>8, <1>9, <1>10, <1>11, <1>12, <1>13,
     MarkingActions
  DEF Next, Engine, Return, Call, MarkingStep

-----------------------------------------------------------------------------
(* The clock. *)

(* In a replay the clock moves past the cycle before, and past a callback  *)
(* only if its time is not after that cycle.                               *)
LEMMA NextTimeIsLater ==
  ASSUME TypeOK, TimeInv, pc = "historical"
  PROVE  /\ NextTime \in Nat /\ NextTime > last_time /\ NextTime >= time
         /\ \A e \in scheduled : e.time >= NextTime \/ e.time <= last_time
<1>1. /\ ~ Realtime /\ time \in Nat /\ last_time \in Int
      /\ first_cycle => last_time = -1 /\ time = 0
      /\ ~ first_cycle => last_time = time
  BY EngineAssumption DEF TypeOK, TimeInv
<1>2. \A e \in scheduled : e.time \in Nat
  BY DEF TypeOK, Event
<1>3. CASE scheduled = {}
  BY <1>1, <1>3 DEF NextTime
<1>4. CASE scheduled # {}
  <2>1. next_scheduled_time \in Nat /\ \A e \in scheduled : next_scheduled_time <= e.time
    BY <1>4, NextScheduledTime
  <2> QED BY <1>1, <1>2, <1>4, <2>1 DEF NextTime, Larger
<1> QED BY <1>3, <1>4

LEMMA TimeStep ==
  TypeOK /\ TimeInv /\ TimeAdvances /\ ReplayOnTime /\ [Next]_vars
    => TimeInv' /\ TimeAdvances' /\ ReplayOnTime'
<1> SUFFICES ASSUME TypeOK, TimeInv, TimeAdvances, ReplayOnTime, [Next]_vars
             PROVE  TimeInv' /\ TimeAdvances' /\ ReplayOnTime'
  OBVIOUS
<1> DEFINE Kept == UNCHANGED <<time, first_cycle, last_time>>
           Steady == {"layer", "node", "ticked", "end", "done", "failed"}
<1>1. /\ time \in Nat /\ last_time \in Int /\ Realtime \in BOOLEAN
      /\ \A e \in scheduled : e.time \in Nat
  BY EngineAssumption DEF TypeOK, Event
(* Steps within a cycle, or out of the loop. *)
<1>2. ASSUME /\ Kept /\ pc' \in Steady
             /\ pc' \in {"layer", "node", "ticked"} => time > last_time
             /\ ~ Realtime /\ pc' \in {"layer", "node", "ticked", "end"} => ~ first_cycle
      PROVE  TimeInv' /\ TimeAdvances' /\ ReplayOnTime'
  BY <1>2 DEF TimeInv, TimeAdvances, ReplayOnTime
(* Steps that stay where they are and add no callback. *)
<1>3. ASSUME Kept, pc' = pc, scheduled' \subseteq scheduled
      PROVE  TimeInv' /\ TimeAdvances' /\ ReplayOnTime'
  BY <1>3 DEF TimeInv, TimeAdvances, ReplayOnTime, NoneDue
<1>4. CASE Stop \/ HistoricalRefuse \/ HistoricalEnd
  BY <1>2, <1>4 DEF Stop, HistoricalRefuse, HistoricalEnd, loop, history
<1>5. CASE LoopAgain
  BY <1>5 DEF LoopAgain, history, TimeInv, TimeAdvances, ReplayOnTime
<1>6. CASE HistoricalAdvance
  <2>1. /\ pc = "historical" /\ pc' = "always" /\ time' = NextTime /\ first_cycle' = FALSE
        /\ UNCHANGED <<scheduled, last_time>>
    BY <1>6 DEF HistoricalAdvance, queues, history
  <2>2. /\ NextTime \in Nat /\ NextTime > last_time
        /\ \A e \in scheduled : e.time >= NextTime \/ e.time <= last_time
    BY <2>1, NextTimeIsLater
  <2>3. ~ Realtime
    BY <2>1 DEF TimeInv
  <2>4. TimeInv'
    BY <1>1, <2>1, <2>2, <2>3 DEF TimeInv
  <2> QED BY <2>1, <2>2, <2>4 DEF TimeAdvances, ReplayOnTime
<1>7. CASE DrainReady \/ MarkAlways
  BY <1>3, <1>7 DEF DrainReady, MarkAlways, loop, queues, history
<1>8. CASE PopScheduled
  BY <1>3, <1>8 DEF PopScheduled, loop, history
<1>9. CASE DrainDone \/ AlwaysDone
  BY <1>9 DEF DrainDone, AlwaysDone, loop, queues, history, TimeInv, TimeAdvances, ReplayOnTime
<1>10. CASE ScheduledDone
  BY <1>10 DEF ScheduledDone, AfterScheduled, loop, queues, history, TimeInv, TimeAdvances,
               ReplayOnTime, NoneDue
<1>11. CASE WaitReceive \/ WaitTimeout
  BY <1>11 DEF WaitReceive, WaitTimeout, loop, history, TimeInv, TimeAdvances, ReplayOnTime
<1>12. CASE SnapTime
  <2>1. Realtime /\ last_time <= time /\ now \in Nat
    BY <1>12 DEF SnapTime, TimeInv, TypeOK
  <2>2. /\ time' >= time + 1 /\ time' \in Nat /\ UNCHANGED <<first_cycle, last_time>>
        /\ pc' \in {"cycle", "top"}
    BY <1>1, <1>12, <2>1 DEF SnapTime, SnappedTime, Larger, history
  <2> QED BY <1>1, <2>1, <2>2 DEF TimeInv, TimeAdvances, ReplayOnTime
<1>13. CASE BeginCycle
  BY <1>2, <1>13 DEF BeginCycle, loop, TimeAdvances, TimeInv
<1>14. CASE EnterNode \/ NextLayer \/ CycleDone
  BY <1>2, <1>14 DEF EnterNode, NextLayer, CycleDone, loop, history, TimeAdvances, TimeInv
<1>15. CASE ReturnFalse \/ ReturnTrue \/ ReturnError \/ PropagateDone
  BY <1>2, <1>15 DEF ReturnFalse, ReturnTrue, ReturnError, PropagateDone, loop, history,
                     TimeAdvances, TimeInv
<1>16. CASE Propagate
  BY <1>3, <1>16 DEF Propagate, loop, queues, history
<1>17. CASE EndCycle
  BY <1>1, <1>17 DEF EndCycle, TimeInv, TimeAdvances, ReplayOnTime
<1>18. ASSUME pc = "node", NEW x, AddCallback(x) \/ FeedbackSend(x) \/ MarkTarget(x)
       PROVE  TimeInv' /\ TimeAdvances' /\ ReplayOnTime'
  BY <1>2, <1>18 DEF AddCallback, FeedbackSend, MarkTarget, loop, history, TimeAdvances, TimeInv
<1>19. ASSUME NEW x, Notify(x) PROVE TimeInv' /\ TimeAdvances' /\ ReplayOnTime'
  BY <1>3, <1>19 DEF Notify, loop, history
<1>20. CASE AlwaysCallback \/ Tick \/ UNCHANGED vars
  BY <1>3, <1>20 DEF AlwaysCallback, Tick, vars, loop, queues, history
<1> QED
  BY <1>4, <1>5, <1>6, <1>7, <1>8, <1>9, <1>10, <1>11, <1>12, <1>13, <1>14, <1>15, <1>16,
     <1>17, <1>18, <1>19, <1>20
  DEF Next, Engine, Return, Call

-----------------------------------------------------------------------------
(* The last cycle. *)

LEMMA LastStep ==
  TypeOK /\ TimeInv /\ LastInv /\ OneLastCycle /\ OverrunBounded /\ [Next]_vars
    => LastInv' /\ OneLastCycle' /\ OverrunBounded'
<1> SUFFICES ASSUME TypeOK, TimeInv, LastInv, OneLastCycle, OverrunBounded, [Next]_vars
             PROVE  LastInv' /\ OneLastCycle' /\ OverrunBounded'
  OBVIOUS
<1> USE DEF BeforeCycle
<1>1. /\ end_time \in Nat /\ end_cycle \in Nat /\ time \in Nat /\ cycles \in Nat
      /\ flagged \in Nat /\ late \in Nat /\ is_last_cycle \in BOOLEAN
  BY BoundsType DEF TypeOK
<1>2. run_for' = run_for /\ end_time' = end_time /\ end_cycle' = end_cycle
  <2>1. ~ UNCHANGED run_for => FALSE
    <3>1. CASE \/ Stop \/ LoopAgain \/ HistoricalRefuse \/ HistoricalEnd \/ HistoricalAdvance
               \/ DrainReady \/ DrainDone \/ MarkAlways \/ AlwaysDone
      BY <3>1 DEF Stop, LoopAgain, HistoricalRefuse, HistoricalEnd, HistoricalAdvance,
                  DrainReady, DrainDone, MarkAlways, AlwaysDone, loop
    <3>2. CASE \/ PopScheduled \/ ScheduledDone \/ WaitReceive \/ WaitTimeout \/ SnapTime
               \/ BeginCycle \/ EnterNode \/ NextLayer \/ Propagate \/ PropagateDone
      BY <3>2 DEF PopScheduled, ScheduledDone, WaitReceive, WaitTimeout, SnapTime,
                  BeginCycle, EnterNode, NextLayer, Propagate, PropagateDone, loop
    <3>3. CASE \/ CycleDone \/ EndCycle \/ ReturnFalse \/ ReturnTrue \/ ReturnError
               \/ AlwaysCallback \/ Tick \/ UNCHANGED vars
      BY <3>3 DEF CycleDone, EndCycle, ReturnFalse, ReturnTrue, ReturnError, AlwaysCallback,
                  Tick, vars, loop
    <3>4. ASSUME NEW x, AddCallback(x) \/ FeedbackSend(x) \/ MarkTarget(x) \/ Notify(x)
          PROVE  UNCHANGED run_for
      BY <3>4 DEF AddCallback, FeedbackSend, MarkTarget, Notify, loop
    <3> QED BY <3>1, <3>2, <3>3, <3>4 DEF Next, Engine, Return, Call
  <2> QED BY <2>1 DEF end_time, end_cycle
<1> DEFINE Counts == UNCHANGED <<cycles, is_last_cycle, flagged, late>>
(* Steps that count nothing and do not come back to the top of the loop. *)
<1>3. ASSUME /\ Counts /\ time' \in Nat /\ time' >= time
             /\ pc' # "top"
             /\ pc' \in {"historical", "drain", "always", "scheduled", "wait", "snap", "cycle"}
                  => BeforeCycle
      PROVE  LastInv' /\ OneLastCycle' /\ OverrunBounded'
  <2>1. time_done => time_done'
    BY <1>1, <1>2, <1>3 DEF time_done
  <2> QED BY <1>1, <1>2, <1>3, <2>1 DEF LastInv, OneLastCycle, OverrunBounded
<1>4. ASSUME Counts, UNCHANGED <<time, pc>>
      PROVE  LastInv' /\ OneLastCycle' /\ OverrunBounded'
  BY <1>1, <1>2, <1>4 DEF LastInv, OneLastCycle, OverrunBounded, Finished, cycles_done, time_done
<1>5. CASE Stop \/ HistoricalRefuse \/ HistoricalEnd
  BY <1>1, <1>3, <1>5 DEF Stop, HistoricalRefuse, HistoricalEnd, loop, history
<1>6. CASE LoopAgain
  <2>1. /\ pc = "top" /\ ~ Finished /\ pc' \in {"historical", "drain"}
        /\ is_last_cycle' = (is_last_cycle \/ cycles + 1 >= end_cycle \/ time_done)
        /\ UNCHANGED <<time, cycles, flagged, late>>
    BY <1>6 DEF LoopAgain, history
  <2>2. flagged = 0
    BY <1>1, <2>1 DEF OneLastCycle
  <2>3. time_done' = time_done
    BY <1>2, <2>1 DEF time_done
  <2>4. late <= 1
    BY <1>1, <2>1 DEF LastInv, OverrunBounded, Finished
  <2>5. /\ is_last_cycle' => cycles + 1 >= end_cycle \/ time_done
        /\ late > 0 => is_last_cycle'
    BY <2>1 DEF LastInv
  <2>6. LastInv'
    BY <1>1, <1>2, <2>1, <2>2, <2>3, <2>4, <2>5 DEF LastInv
  <2> QED BY <1>1, <2>1, <2>2, <2>4, <2>6 DEF OneLastCycle, OverrunBounded
<1>7. CASE HistoricalAdvance
  <2>1. /\ pc = "historical" /\ pc' = "always" /\ time' = NextTime /\ Counts
    BY <1>7 DEF HistoricalAdvance, history
  <2>2. time' \in Nat /\ time' >= time
    BY <2>1, NextTimeIsLater
  <2> QED BY <1>3, <2>1, <2>2
<1>8. ASSUME NEW n \in Node, Marking(n)
      PROVE  LastInv' /\ OneLastCycle' /\ OverrunBounded'
  BY <1>1, <1>3, <1>8 DEF Marking, InNode, loop, history
<1>9. CASE DrainDone \/ AlwaysDone
  BY <1>1, <1>3, <1>9 DEF DrainDone, AlwaysDone, loop, history
<1>10. CASE ScheduledDone
  BY <1>1, <1>3, <1>10 DEF ScheduledDone, AfterScheduled, loop, history
<1>11. CASE WaitTimeout
  BY <1>1, <1>3, <1>11 DEF WaitTimeout, loop, history
<1>12. CASE SnapTime
  <2>1. /\ pc = "snap" /\ time' \in Nat /\ time' >= time /\ pc' \in {"cycle", "top"} /\ Counts
    BY <1>1, <1>12 DEF SnapTime, SnappedTime, Larger, TypeOK, history
  <2>2. CASE pc' = "cycle"
    BY <1>3, <2>1, <2>2
  <2>3. CASE pc' = "top"
    <3>1. time_done => time_done'
      BY <1>1, <1>2, <2>1 DEF time_done
    <3>2. flagged = 0 /\ late <= 1 /\ (late = 1 => is_last_cycle)
      BY <2>1 DEF LastInv
    <3> QED BY <1>1, <1>2, <2>1, <2>3, <3>1, <3>2 DEF LastInv, OneLastCycle, OverrunBounded
  <2> QED BY <2>1, <2>2, <2>3
<1>13. CASE BeginCycle
  <2>1. /\ pc = "cycle" /\ pc' = "layer" /\ UNCHANGED <<time, cycles, is_last_cycle>>
        /\ flagged' = (IF is_last_cycle THEN flagged + 1 ELSE flagged)
        /\ late' = (IF time_done THEN late + 1 ELSE late)
    BY <1>13 DEF BeginCycle, loop
  <2>2. time_done' = time_done
    BY <1>2, <2>1 DEF time_done
  <2>3. flagged = 0 /\ late <= 1 /\ (late = 1 => is_last_cycle)
    BY <2>1 DEF LastInv
  <2> QED BY <1>1, <1>2, <2>1, <2>2, <2>3 DEF LastInv, OneLastCycle, OverrunBounded
<1>14. CASE EnterNode \/ NextLayer \/ CycleDone
  BY <1>1, <1>3, <1>14 DEF EnterNode, NextLayer, CycleDone, loop, history
<1>15. CASE ReturnFalse \/ ReturnTrue \/ ReturnError \/ PropagateDone
  BY <1>1, <1>3, <1>15 DEF ReturnFalse, ReturnTrue, ReturnError, PropagateDone, loop, history
<1>16. CASE Propagate
  BY <1>4, <1>16 DEF Propagate, loop, history
<1>17. CASE EndCycle
  <2>1. /\ pc' = "top" /\ cycles' = cycles + 1 /\ UNCHANGED <<time, is_last_cycle, flagged, late>>
    BY <1>17 DEF EndCycle
  <2>2. time_done' = time_done
    BY <1>2, <2>1 DEF time_done
  <2>3. is_last_cycle => cycles + 1 >= end_cycle \/ time_done
    BY DEF LastInv
  <2>4. flagged = 1 => Finished'
    BY <1>2, <2>1, <2>2, <2>3 DEF LastInv, Finished, cycles_done
  <2> QED BY <1>1, <1>2, <2>1, <2>2, <2>4 DEF LastInv, OneLastCycle, OverrunBounded
<1>18. ASSUME NEW x, AddCallback(x) \/ FeedbackSend(x) \/ Notify(x)
       PROVE  LastInv' /\ OneLastCycle' /\ OverrunBounded'
  BY <1>4, <1>18 DEF AddCallback, FeedbackSend, Notify, loop, history
<1>19. CASE AlwaysCallback \/ Tick \/ UNCHANGED vars
  BY <1>4, <1>19 DEF AlwaysCallback, Tick, vars, loop, history
<1> QED
  BY <1>5, <1>6, <1>7, <1>8, <1>9, <1>10, <1>11, <1>12, <1>13, <1>14, <1>15, <1>16, <1>17,
     <1>18, <1>19, MarkingActions
  DEF Next, Engine, Return, Call, MarkingStep

-----------------------------------------------------------------------------
LEMMA EngineInvInit == Init => EngineInv
<1> SUFFICES ASSUME Init PROVE EngineInv
  OBVIOUS
<1> USE EngineAssumption
<1>1. TypeOK
  <2>1. scheduled \subseteq Event
    BY DEF Init, Event
  <2>2. always \in Seq(Node)
    <3>1. CASE always = <<>>
      BY <3>1
    <3>2. ASSUME NEW n \in AlwaysNodes, always = <<n>> PROVE always \in Seq(Node)
      BY <3>2
    <3> QED BY <3>1, <3>2 DEF Init
  <2>3. run_for \in RunFor /\ now \in Nat /\ lyr \in 0..LayerCount
    BY DEF Init
  <2>4. dirty \in [Layers -> Seq(Node)] /\ ready \in Seq(Node)
    BY DEF Init
  <2>5. /\ node_dirty \in [Node -> BOOLEAN] /\ node_ticked \in [Node -> BOOLEAN]
        /\ first_cycle \in BOOLEAN /\ is_last_cycle \in BOOLEAN /\ progressed \in BOOLEAN
    BY DEF Init
  <2> QED BY <2>1, <2>2, <2>3, <2>4, <2>5 DEF Init, TypeOK
<1>2. MarksAgree
  BY DEF Init, MarksAgree
<1>3. CursorInv /\ RanInv /\ GlitchFree
  BY DEF Init, CursorInv, RanInv, GlitchFree, InCycle, InNode
<1>4. TickInv /\ QuietInv
  BY DEF Init, TickInv, QuietInv, InCycle
<1>5. TimeInv /\ TimeAdvances /\ ReplayOnTime
  BY DEF Init, TimeInv, TimeAdvances, ReplayOnTime
<1>6. LastInv /\ OneLastCycle /\ OverrunBounded
  BY DEF Init, LastInv, OneLastCycle, OverrunBounded, BeforeCycle
<1> QED BY <1>1, <1>2, <1>3, <1>4, <1>5, <1>6 DEF EngineInv

LEMMA EngineInvStep == EngineInv /\ [Next]_vars => EngineInv'
BY TypeStep, MarksStep, CursorStep, TickStep, QuietStep, TimeStep, LastStep DEF EngineInv

(* The engine keeps its inductive invariant, on every layered graph.       *)
THEOREM EngineInvariant == Spec => []EngineInv
BY EngineInvInit, EngineInvStep, PTL DEF Spec

(* No node of graph.rs's cycle() ever reads a value that a later step of   *)
(* the same cycle still changes.                                           *)
THEOREM NoGlitch == Spec => []GlitchFree
<1>1. EngineInv => GlitchFree
  BY DEF EngineInv
<1> QED BY <1>1, EngineInvariant, PTL

(* When cycle() has gone through the layers, every node that was marked,   *)
(* and every active downstream of a node that ticked, has run.             *)
THEOREM MarksAreServed == Spec => []NothingLost
<1>1. EngineInv => NothingLost
  <2> SUFFICES ASSUME EngineInv, pc = "end"
               PROVE  /\ \A n \in Node : node_dirty[n] => n \in ran
                      /\ \A n \in Node : node_ticked[n] =>
                           \A d \in 1..Len(Downstreams[n]) :
                             Downstreams[n][d].active => Downstreams[n][d].node \in ran
    BY DEF NothingLost
  <2>1. lyr = LayerCount
    BY DEF EngineInv, CursorInv
  <2>2. ASSUME NEW n \in Node, node_dirty[n] PROVE n \in ran
    <3>1. Layer[n] < lyr
      BY <2>1, EngineAssumption
    <3> QED BY <2>2, <3>1 DEF EngineInv, RanInv, InCycle
  <2>3. ASSUME NEW n \in Node, node_ticked[n], NEW d \in 1..Len(Downstreams[n]),
               Downstreams[n][d].active
        PROVE  Downstreams[n][d].node \in ran
    <3>1. node_dirty[Downstreams[n][d].node]
      BY <2>3 DEF EngineInv, TickInv
    <3>2. Downstreams[n] \in Seq(Edge)
      BY EngineAssumption
    <3>3. Downstreams[n][d] \in Edge
      BY <3>2, ElementOfSeq
    <3> QED BY <2>2, <3>1, <3>3 DEF Edge
  <2> QED BY <2>2, <2>3
<1> QED BY <1>1, EngineInvariant, PTL

(* Between two cycles no mark and no tick is left, also after the empty    *)
(* passes of the realtime loop.                                            *)
THEOREM CleanBetweenCycles == Spec => []CleanTop
<1>1. EngineInv => CleanTop
  <2> SUFFICES ASSUME EngineInv, pc = "top"
               PROVE  /\ \A n \in Node : ~ node_dirty[n] /\ ~ node_ticked[n]
                      /\ \A l \in Layers : dirty[l] = <<>>
    BY DEF CleanTop
  <2>1. \A n \in Node : ~ node_dirty[n] /\ ~ node_ticked[n]
    BY DEF EngineInv, QuietInv, InCycle
  <2>2. ASSUME NEW l \in Layers PROVE dirty[l] = <<>>
    <3>1. dirty[l] \in Seq(Node)
      BY DEF EngineInv, TypeOK
    <3>2. \A p \in 1..Len(dirty[l]) : FALSE
      BY <2>1, <3>1, ElementOfSeq DEF EngineInv, MarksAgree
    <3>3. Len(dirty[l]) = 0
      BY <3>1, <3>2, LenProperties
    <3> QED BY <3>1, <3>3, EmptySeq
  <2> QED BY <2>1, <2>2
<1> QED BY <1>1, EngineInvariant, PTL

(* cycle() runs no node twice in a cycle. *)
THEOREM NodesRunOnce == Spec => OncePerCycle
<1>1. EngineInv /\ [Next]_vars => [pc = "layer" /\ pc' = "node" => current' \notin ran]_vars
  <2> SUFFICES ASSUME EngineInv, Next, pc = "layer", pc' = "node" PROVE current' \notin ran
    OBVIOUS
  <2>1. EnterNode
    <3>1. ~ (\/ Stop \/ LoopAgain \/ HistoricalRefuse \/ HistoricalEnd \/ HistoricalAdvance
             \/ DrainReady \/ DrainDone \/ MarkAlways \/ AlwaysDone
             \/ PopScheduled \/ ScheduledDone \/ WaitReceive \/ WaitTimeout \/ SnapTime)
      BY DEF Stop, LoopAgain, HistoricalRefuse, HistoricalEnd, HistoricalAdvance, DrainReady,
             DrainDone, MarkAlways, AlwaysDone, PopScheduled, ScheduledDone, WaitReceive,
             WaitTimeout, SnapTime
    <3>2. ~ (\/ BeginCycle \/ NextLayer \/ Propagate \/ PropagateDone \/ CycleDone \/ EndCycle
             \/ ReturnFalse \/ ReturnTrue \/ ReturnError \/ Tick)
      BY DEF BeginCycle, NextLayer, Propagate, PropagateDone, CycleDone, EndCycle,
             ReturnFalse, ReturnTrue, ReturnError, Tick
    <3>3. \A n : ~ Notify(n)
      BY DEF Notify
    <3> QED BY <3>1, <3>2, <3>3 DEF Next, Engine, Return
  <2>2. lyr < LayerCount /\ i \in 1..Len(dirty[lyr]) /\ current' = dirty[lyr][i]
    BY <2>1, EngineAssumption DEF EnterNode, EngineInv, CursorInv, InCycle, TypeOK
  <2>3. dirty[lyr][i] \in ran <=> i < i \/ (i = i /\ InNode)
    BY <2>2 DEF EngineInv, RanInv, InCycle
  <2> QED BY <2>2, <2>3 DEF EngineInv, TypeOK, InNode
<1> QED BY <1>1, EngineInvariant, PTL DEF Spec, OncePerCycle

(* Successive cycles have strictly later times, in both modes. *)
THEOREM ClockAdvances == Spec => []TimeAdvances
<1>1. EngineInv => TimeAdvances
  BY DEF EngineInv
<1> QED BY <1>1, EngineInvariant, PTL

(* A replay passes over no callback. *)
THEOREM ReplayIsOnTime == Spec => []ReplayOnTime
<1>1. EngineInv => ReplayOnTime
  BY DEF EngineInv
<1> QED BY <1>1, EngineInvariant, PTL

(* is_last_cycle() holds in at most one cycle, and none follows it. *)
THEOREM LastCycleIsLast == Spec => []OneLastCycle
<1>1. EngineInv => OneLastCycle
  BY DEF EngineInv
<1> QED BY <1>1, EngineInvariant, PTL

(* At most two cycles run at or after the end time of a run. *)
THEOREM OverrunIsBounded == Spec => []OverrunBounded
<1>1. EngineInv => OverrunBounded
  BY DEF EngineInv
<1> QED BY <1>1, EngineInvariant, PTL

(* What Graph::cycle and reset promise together, in both run modes. *)
THEOREM CyclesAreSound == Spec => []CyclesSound
BY NoGlitch, MarksAreServed, CleanBetweenCycles, PTL DEF CyclesSound

(* A replay passes no callback over and ends after the cycle it flags. *)
THEOREM ReplaysAreSound == Spec => []ReplaySound
BY ReplayIsOnTime, LastCycleIsLast, OverrunIsBounded, PTL DEF ReplaySound

(* The passes of the realtime loop advance the clock and leave no mark. *)
THEOREM PassesAreSound == Spec => []PassesSound
BY ClockAdvances, CleanBetweenCycles, OverrunIsBounded, PTL DEF PassesSound
=============================================================================
