------------------------ MODULE ReceiverStreamProofs ------------------------
(* Proofs about ReceiverStream, for any number of sends.                   *)
EXTENDS ReceiverStream, TLAPS

LEMMA InitInv == Init => ReceiverInv
<1> SUFFICES ASSUME Init PROVE ReceiverInv
  OBVIOUS
<1> USE DEF Init
<1>1. realtime \in BOOLEAN /\ connected \in BOOLEAN /\ stop_flag \in BOOLEAN /\ finished \in BOOLEAN
      /\ ended \in BOOLEAN
  BY Zenon
<1>2. TypeOK
  BY <1>1 DEF TypeOK
<1>3. ChannelInv
  BY DEF ChannelInv
<1>4. ThreadInv
  BY Zenon DEF ThreadInv
<1>5. ErrorInv /\ WakeInv
  BY DEF ErrorInv, WakeInv, Running
<1> QED
  BY <1>2, <1>3, <1>4, <1>5 DEF ReceiverInv

(* The messages that Append and Tail leave in the channel. *)
LEMMA AppendMessage ==
  ASSUME chan \in Seq(ThreadMessage), NEW m \in ThreadMessage
  PROVE  /\ Append(chan, m) \in Seq(ThreadMessage)
         /\ Len(Append(chan, m)) = Len(chan) + 1
         /\ \A k \in 1..Len(chan) : Append(chan, m)[k] = chan[k]
         /\ Append(chan, m)[Len(chan) + 1] = m
  OBVIOUS

LEMMA TailMessage ==
  ASSUME chan \in Seq(ThreadMessage), chan # <<>>
  PROVE  /\ Head(chan) = chan[1] /\ Head(chan) \in ThreadMessage
         /\ Tail(chan) \in Seq(ThreadMessage)
         /\ Len(chan) \in Nat /\ Len(chan) >= 1 /\ Len(Tail(chan)) = Len(chan) - 1
         /\ \A k \in 1..Len(Tail(chan)) : Tail(chan)[k] = chan[k + 1]
         /\ Tail(chan) # <<>> => Len(chan) > 1
  OBVIOUS

LEMMA TypeStep ==
  ASSUME TypeOK, [Next]_vars
  PROVE  TypeOK'
<1> USE DEF TypeOK, node, sender, Notified
<1>1. CASE SendValue
  <2>1. ValueMessage(sent + 1) \in ThreadMessage
    BY <1>1 DEF ValueMessage, ThreadMessage
  <2>2. chan' \in Seq(ThreadMessage)
    BY <1>1, <2>1, AppendMessage DEF SendValue
  <2> QED
    BY <1>1, <2>2 DEF SendValue
<1>2. CASE SendLast
  <2>1. \A m \in {"EndOfStream", "Error"} : LastMessage(m) \in ThreadMessage
    BY DEF LastMessage, ThreadMessage
  <2>2. chan' \in Seq(ThreadMessage)
    BY <1>2, <2>1, AppendMessage DEF SendLast
  <2> QED
    BY <1>2, <2>2 DEF SendLast
<1>3. CASE Notify \/ NotifyLast \/ ReturnEarly \/ SeeStop \/ DropNotify \/ DropSender \/ Finish
  <2>1. CASE Notify
    BY <2>1 DEF Notify
  <2>2. CASE NotifyLast
    BY <2>2 DEF NotifyLast
  <2>3. CASE ReturnEarly
    BY <2>3 DEF ReturnEarly
  <2>4. CASE SeeStop
    BY <2>4 DEF SeeStop
  <2>5. CASE DropNotify
    BY <2>5 DEF DropNotify
  <2>6. CASE DropSender
    <3>1. connected' \in BOOLEAN
      BY <2>6, Zenon DEF DropSender
    <3> QED
      BY <2>6, <3>1 DEF DropSender
  <2>7. CASE Finish
    BY <2>7 DEF Finish
  <2> QED
    BY <1>3, <2>1, <2>2, <2>3, <2>4, <2>5, <2>6, <2>7
<1>4. CASE Setup \/ Start \/ RunEnds \/ Wake \/ DeliverError \/ BeginDrain
  <2>1. CASE Setup
    BY <2>1 DEF Setup, FailureCause
  <2>2. CASE Start
    <3>1. \/ pc' = "wait" /\ reported' = reported
          \/ pc' = "stop" /\ reported' = reported \cup {"start"}
      BY <2>2, Zenon DEF Start
    <3>2. UNCHANGED <<realtime, chan, connected, ready, sender, stop_flag, node>>
      BY <2>2, Zenon DEF Start
    <3>3. pc' \in {"wait", "stop"} /\ reported' \subseteq FailureCause
      BY <3>1 DEF FailureCause
    <3> QED
      BY <3>2, <3>3
  <2>3. CASE RunEnds
    BY <2>3 DEF RunEnds, FailureCause
  <2>4. CASE Wake
    BY <2>4 DEF Wake, FailureCause
  <2>5. CASE DeliverError
    BY <2>5 DEF DeliverError, FailureCause
  <2>6. CASE BeginDrain
    BY <2>6 DEF BeginDrain, FailureCause
  <2> QED
    BY <1>4, <2>1, <2>2, <2>3, <2>4, <2>5, <2>6
<1>5. CASE RecvValue
  <2>1. Head(chan).value \in Nat /\ chan' \in Seq(ThreadMessage)
    BY <1>5, TailMessage DEF RecvValue, ThreadMessage
  <2> QED
    BY <1>5, <2>1 DEF RecvValue
<1>6. CASE RecvEnd
  <2>1. chan' \in Seq(ThreadMessage)
    BY <1>6, TailMessage DEF RecvEnd
  <2>2. finished' \in BOOLEAN
    BY <1>6, Zenon DEF RecvEnd
  <2> QED
    BY <1>6, <2>1, <2>2 DEF RecvEnd
<1>7. CASE RecvError
  BY <1>7, TailMessage DEF RecvError, FailureCause
<1>8. CASE DrainDone \/ Healthy \/ CleanExit \/ DeferError
  <2>1. CASE DrainDone
    BY <2>1 DEF DrainDone, FailureCause
  <2>2. CASE Healthy
    BY <2>2 DEF Healthy, FailureCause
  <2>3. CASE CleanExit
    BY <2>3 DEF CleanExit, FailureCause
  <2>4. CASE DeferError
    BY <2>4 DEF DeferError, FailureCause
  <2> QED
    BY <1>8, <2>1, <2>2, <2>3, <2>4
<1>9. CASE Stop \/ Join \/ Joined \/ Teardown
  <2>1. CASE Stop
    BY <2>1 DEF Stop, FailureCause
  <2>2. CASE Join
    BY <2>2 DEF Join, FailureCause
  <2>3. CASE Joined
    BY <2>3 DEF Joined, FailureCause
  <2>4. CASE Teardown
    BY <2>4 DEF Teardown, FailureCause
  <2> QED
    BY <1>9, <2>1, <2>2, <2>3, <2>4
<1>10. CASE UNCHANGED vars
  BY <1>10 DEF vars
<1> QED
  BY <1>1, <1>2, <1>3, <1>4, <1>5, <1>6, <1>7, <1>8, <1>9, <1>10
  DEF Next, Thread, Leaving, Engine, Cycle

(* The actions that leave channel, end flag and sending phase alone.       *)
LEMMA ThreadStep ==
  ASSUME ReceiverInv, [Next]_vars
  PROVE  ThreadInv' /\ ErrorInv'
<1> TypeOK /\ ThreadInv /\ ErrorInv
  BY DEF ReceiverInv
<1> USE DEF TypeOK, ThreadInv, ErrorInv, Running, node, sender, FailureCause
<1>1. CASE SendValue \/ SendLast \/ ReturnEarly \/ Leaving
  BY <1>1 DEF SendValue, SendLast, ReturnEarly, Leaving, Notify, NotifyLast, SeeStop,
              DropNotify, DropSender, Finish
<1>2. CASE Setup \/ Start \/ RunEnds \/ Wake
  BY <1>2 DEF Setup, Start, RunEnds, Wake
<1>3. CASE DeliverError \/ BeginDrain \/ RecvValue \/ RecvEnd \/ RecvError \/ DrainDone
  BY <1>3 DEF DeliverError, BeginDrain, RecvValue, RecvEnd, RecvError, DrainDone
<1>4. CASE Healthy \/ CleanExit \/ DeferError
  BY <1>4 DEF Healthy, CleanExit, DeferError
<1>5. CASE Stop \/ Join \/ Joined \/ Teardown
  BY <1>5 DEF Stop, Join, Joined, Teardown
<1>6. CASE UNCHANGED vars
  BY <1>6 DEF vars
<1> QED
  BY <1>1, <1>2, <1>3, <1>4, <1>5, <1>6 DEF Next, Thread, Engine, Cycle

LEMMA ChannelStep ==
  ASSUME ReceiverInv, [Next]_vars
  PROVE  ChannelInv'
<1> TypeOK /\ ThreadInv /\ ChannelInv
  BY DEF ReceiverInv
<1>1. CASE SendValue
  <2>1. ValueMessage(sent + 1) \in ThreadMessage /\ ValueMessage(sent + 1).kind = "RealtimeValue"
    BY DEF ValueMessage, ThreadMessage, TypeOK
  <2>2. /\ chan' = Append(chan, ValueMessage(sent + 1))
        /\ thread = "run" /\ thread' = "notify" /\ finished' = finished
    BY <1>1 DEF SendValue, node
  <2>3. \A k \in 1..Len(chan) : chan[k].kind = "RealtimeValue"
    BY <2>2 DEF ChannelInv, Sending
  <2>4. \A k \in 1..Len(chan') : chan'[k].kind = "RealtimeValue"
    BY <2>1, <2>2, <2>3, AppendMessage DEF TypeOK
  <2> QED
    BY <2>2, <2>4 DEF ChannelInv, Sending
<1>2. CASE SendLast
  <2> PICK m \in {"EndOfStream", "Error"} : chan' = Append(chan, LastMessage(m))
    BY <1>2 DEF SendLast
  <2>1. LastMessage(m) \in ThreadMessage
    BY DEF LastMessage, ThreadMessage
  <2>2. thread = "run" /\ thread' = "last" /\ finished' = finished
    BY <1>2 DEF SendLast, node
  <2>3. \A k \in 1..Len(chan) : chan[k].kind = "RealtimeValue"
    BY <2>2 DEF ChannelInv, Sending
  <2>4. \A k \in 1..Len(chan') : chan'[k].kind # "RealtimeValue" => k = Len(chan')
    BY <2>1, <2>3, AppendMessage DEF TypeOK
  <2> QED
    BY <2>2, <2>4 DEF ChannelInv, Sending
<1>3. CASE /\ UNCHANGED <<chan, finished>>
           /\ Sending' => Sending
           /\ thread' = "none" => thread = "none"
  BY <1>3 DEF ChannelInv
<1>4. CASE RecvValue \/ RecvError
  <2>1. /\ chan # <<>> /\ chan' = Tail(chan) /\ UNCHANGED <<finished, thread>>
        /\ ~finished
    BY <1>4 DEF RecvValue, RecvError, node, sender
  <2> QED
    <3>1. \A k \in 1..Len(chan') : chan'[k].kind # "RealtimeValue" => k = Len(chan') /\ ~Sending
      <4> SUFFICES ASSUME NEW k \in 1..Len(chan'), chan'[k].kind # "RealtimeValue"
                   PROVE  k = Len(chan') /\ ~Sending
        OBVIOUS
      <4>1. k + 1 \in 1..Len(chan) /\ chan'[k] = chan[k + 1] /\ Len(chan') = Len(chan) - 1
        BY <2>1, TailMessage DEF TypeOK
      <4>2. k + 1 = Len(chan) /\ ~Sending
        BY <4>1 DEF ChannelInv
      <4> QED
        BY <4>1, <4>2
    <3> QED
      BY <2>1, <3>1 DEF ChannelInv, Sending
<1>5. CASE RecvEnd
  <2>1. CASE chan = <<>> /\ ~connected /\ UNCHANGED chan
    BY <1>5, <2>1 DEF RecvEnd, ChannelInv, Sending, ThreadInv, sender
  <2>2. CASE chan # <<>> /\ Head(chan).kind = "EndOfStream" /\ chan' = Tail(chan)
    <3>1. Len(chan) = 1 /\ ~Sending
      <4>1. 1 \in 1..Len(chan) /\ chan[1].kind # "RealtimeValue"
        BY <2>2, TailMessage DEF TypeOK
      <4> QED
        BY <4>1 DEF ChannelInv
    <3>2. chan' = <<>>
      BY <2>2, <3>1, TailMessage DEF TypeOK
    <3> QED
      BY <1>5, <3>1, <3>2 DEF RecvEnd, ChannelInv, Sending, sender
  <2> QED
    BY <1>5, <2>1, <2>2 DEF RecvEnd
<1> QED
  BY <1>1, <1>2, <1>3, <1>4, <1>5
  DEF Next, Thread, Leaving, Engine, Cycle, Sending, node, sender, vars, ReturnEarly, Notify,
      NotifyLast, SeeStop, DropNotify, DropSender, Finish, Setup, Start, RunEnds, Wake,
      DeliverError, BeginDrain, DrainDone, Healthy, CleanExit, DeferError, Stop, Join, Joined,
      Teardown, ThreadInv

LEMMA WakeStep ==
  ASSUME ReceiverInv, [Next]_vars
  PROVE  WakeInv'
<1> TypeOK /\ ThreadInv /\ ChannelInv /\ ErrorInv /\ WakeInv
  BY DEF ReceiverInv
<1> USE DEF TypeOK, WakeInv, node, sender
<1>1. CASE SendValue \/ SendLast
  BY <1>1 DEF SendValue, SendLast
<1>2. CASE Notify \/ NotifyLast \/ DropNotify
  BY <1>2 DEF Notify, NotifyLast, DropNotify, Notified, ErrorInv, Running
<1>3. CASE ReturnEarly \/ SeeStop \/ DropSender \/ Finish
  BY <1>3 DEF ReturnEarly, SeeStop, DropSender, Finish
<1>4. CASE Setup
  <2>1. thread = "none"
    BY <1>4 DEF Setup, ThreadInv
  <2> QED
    BY <1>4, <2>1 DEF Setup, ChannelInv
<1>5. CASE Start \/ RunEnds \/ Wake \/ DeliverError \/ BeginDrain \/ RecvValue \/ RecvEnd
           \/ RecvError
  BY <1>5 DEF Start, RunEnds, Wake, DeliverError, BeginDrain, RecvValue, RecvEnd, RecvError,
              ErrorInv
<1>6. CASE DrainDone
  BY <1>6 DEF DrainDone, ChannelInv, ErrorInv
<1>7. CASE Healthy \/ CleanExit
  BY <1>7 DEF Healthy, CleanExit, ErrorInv, ThreadInv
<1>8. CASE DeferError
  BY <1>8 DEF DeferError, Notified, ErrorInv, Running
<1>9. CASE Stop \/ Join \/ Joined \/ Teardown
  BY <1>9 DEF Stop, Join, Joined, Teardown
<1>10. CASE UNCHANGED vars
  BY <1>10 DEF vars
<1> QED
  BY <1>1, <1>2, <1>3, <1>4, <1>5, <1>6, <1>7, <1>8, <1>9, <1>10
  DEF Next, Thread, Leaving, Engine, Cycle

(* A value that is sent is numbered next after the ones in the channel, and *)
(* the one that is read next after the ones that were read.                *)
LEMMA OrderSend ==
  ASSUME DeliveryInv, SendValue
  PROVE  OrderInv'
<1> TypeOK /\ ChannelInv /\ OrderInv
  BY DEF DeliveryInv, ReceiverInv
<1> DEFINE m == ValueMessage(sent + 1)
<1>1. m \in ThreadMessage /\ m.kind = "RealtimeValue" /\ m.value = sent + 1
  BY DEF ValueMessage, ThreadMessage, TypeOK
<1>2. /\ chan' = Append(chan, m) /\ sent' = sent + 1 /\ thread = "run"
      /\ UNCHANGED <<delivered, values, pc>>
  BY DEF SendValue, node
<1>3. /\ Len(chan) \in Nat /\ Len(chan') = Len(chan) + 1
      /\ \A k \in 1..Len(chan) : chan'[k] = chan[k]
      /\ chan'[Len(chan) + 1] = m
  BY <1>1, <1>2, AppendMessage DEF TypeOK
<1>4. \A k \in 1..Len(chan) : chan[k].kind = "RealtimeValue"
  BY <1>2 DEF ChannelInv, Sending
<1>5. EndsWithValue
  <2>1. chan = <<>> \/ Len(chan) \in 1..Len(chan)
    BY <1>3 DEF TypeOK
  <2> QED
    BY <1>4, <2>1 DEF EndsWithValue
<1>6. chan' # <<>> /\ EndsWithValue'
  BY <1>1, <1>3 DEF EndsWithValue
<1>7. Read' = Read /\ Read \in Nat /\ Over' = Over
  BY <1>2 DEF Read, TypeOK, Over
<1>8. ~Over => /\ Read + Len(chan) = sent
               /\ \A k \in 1..Len(chan') : chan'[k].value = Read + k
  <2> SUFFICES ASSUME ~Over
               PROVE  /\ Read + Len(chan) = sent
                      /\ \A k \in 1..Len(chan') : chan'[k].value = Read + k
    OBVIOUS
  <2>1. Read + Len(chan) = sent
    BY <1>5 DEF OrderInv
  <2>2. \A k \in 1..Len(chan) : chan'[k].value = Read + k
    BY <1>3, <1>4 DEF OrderInv
  <2>3. chan'[Len(chan) + 1].value = Read + (Len(chan) + 1)
    BY <1>1, <1>3, <1>7, <2>1
  <2> QED
    BY <1>3, <2>1, <2>2, <2>3
<1>9. ~Over => Read + Len(chan') = sent + 1
  BY <1>3, <1>7, <1>8 DEF TypeOK
<1> QED
  BY <1>2, <1>6, <1>7, <1>8, <1>9 DEF OrderInv

LEMMA OrderLast ==
  ASSUME DeliveryInv, SendLast
  PROVE  OrderInv'
<1> TypeOK /\ ChannelInv /\ OrderInv
  BY DEF DeliveryInv, ReceiverInv
<1> PICK kind \in {"EndOfStream", "Error"} : chan' = Append(chan, LastMessage(kind))
  BY DEF SendLast
<1>1. LastMessage(kind) \in ThreadMessage /\ LastMessage(kind).kind # "RealtimeValue"
  BY DEF LastMessage, ThreadMessage
<1>2. thread = "run" /\ UNCHANGED <<delivered, values, pc, sent>>
  BY DEF SendLast, node
<1>3. /\ Len(chan) \in Nat /\ Len(chan') = Len(chan) + 1
      /\ \A k \in 1..Len(chan) : chan'[k] = chan[k]
      /\ chan'[Len(chan) + 1] = LastMessage(kind)
  BY <1>1, AppendMessage DEF TypeOK
<1>4. EndsWithValue
  BY <1>2, <1>3 DEF EndsWithValue, ChannelInv, Sending, TypeOK
<1>5. chan' # <<>> /\ ~EndsWithValue'
  BY <1>1, <1>3 DEF EndsWithValue
<1>6. Read' = Read /\ Read \in Nat /\ Over' = Over
  BY <1>2 DEF Read, TypeOK, Over
<1>7. ~Over => Read + Len(chan') = sent + 1
  BY <1>3, <1>4, <1>6 DEF OrderInv, TypeOK
<1>8. ~Over => \A k \in 1..Len(chan') :
                 chan'[k].kind = "RealtimeValue" => chan'[k].value = Read + k
  BY <1>1, <1>3, <1>6 DEF OrderInv
<1> QED
  BY <1>2, <1>5, <1>6, <1>7, <1>8 DEF OrderInv

LEMMA OrderRead ==
  ASSUME DeliveryInv, RecvValue
  PROVE  OrderInv'
<1> TypeOK /\ ChannelInv /\ OrderInv
  BY DEF DeliveryInv, ReceiverInv
<1>1. /\ pc = "drain" /\ pc' = pc /\ chan # <<>> /\ Head(chan).kind = "RealtimeValue"
      /\ values' = Append(values, Head(chan).value) /\ chan' = Tail(chan)
      /\ UNCHANGED <<delivered, sent>>
  BY DEF RecvValue, sender
<1>2. /\ Head(chan) = chan[1] /\ Head(chan).value \in Nat
      /\ Len(chan) \in Nat /\ Len(chan) >= 1 /\ Len(chan') = Len(chan) - 1
      /\ \A k \in 1..Len(chan') : chan'[k] = chan[k + 1]
      /\ chan' = <<>> => Len(chan) = 1
  <2>1. /\ Head(chan) = chan[1] /\ Head(chan) \in ThreadMessage
        /\ Len(chan) \in Nat /\ Len(chan) >= 1 /\ Len(chan') = Len(chan) - 1
        /\ \A k \in 1..Len(chan') : chan'[k] = chan[k + 1]
    BY <1>1, TailMessage DEF TypeOK
  <2>2. Head(chan).value \in Nat
    BY <2>1 DEF ThreadMessage
  <2>3. chan' = <<>> => Len(chan') = 0
    OBVIOUS
  <2> QED
    BY <2>1, <2>2, <2>3
<1>3. /\ Len(values) \in Nat /\ Len(delivered) \in Nat /\ Len(values') = Len(values) + 1
      /\ \A k \in 1..Len(values) : values'[k] = values[k]
      /\ values'[Len(values) + 1] = chan[1].value
  BY <1>1, <1>2 DEF TypeOK
<1>4. ~Over /\ ~Over' /\ Read = Len(delivered) + Len(values) /\ Read' = Read + 1
  BY <1>1, <1>3 DEF Read, Over
<1>5. chan[1].value = Read + 1
  BY <1>1, <1>2, <1>4 DEF OrderInv
<1>6. \A k \in 1..Len(values') : values'[k] = Len(delivered) + k
  <2>1. \A k \in 1..Len(values) : values'[k] = Len(delivered) + k
    BY <1>1, <1>3 DEF OrderInv
  <2>2. values'[Len(values) + 1] = Len(delivered) + (Len(values) + 1)
    BY <1>3, <1>4, <1>5
  <2> QED
    BY <1>3, <2>1, <2>2
<1>7. \A k \in 1..Len(chan') : chan'[k].kind = "RealtimeValue" => chan'[k].value = Read' + k
  BY <1>2, <1>3, <1>4 DEF OrderInv
<1>8. EndsWithValue' = EndsWithValue
  <2>1. CASE chan' = <<>>
    BY <1>1, <1>2, <2>1 DEF EndsWithValue
  <2>2. CASE chan' # <<>>
    <3>1. Len(chan') \in 1..Len(chan')
      BY <1>1, <1>2, <2>2 DEF TypeOK
    <3> QED
      BY <1>1, <1>2, <2>2, <3>1 DEF EndsWithValue
  <2> QED
    BY <2>1, <2>2
<1>9. Read' + Len(chan') = Read + Len(chan)
  BY <1>2, <1>3, <1>4
<1> QED
  BY <1>1, <1>4, <1>6, <1>7, <1>8, <1>9 DEF OrderInv

(* An end of the stream, or of the thread: nothing is left in the channel. *)
LEMMA OrderEnd ==
  ASSUME DeliveryInv, RecvEnd
  PROVE  OrderInv'
<1> TypeOK /\ ChannelInv /\ OrderInv
  BY DEF DeliveryInv, ReceiverInv
<1>1. pc = "drain" /\ UNCHANGED <<delivered, values, pc, sent>>
  BY DEF RecvEnd, sender
<1>2. ~Over /\ ~Over' /\ Read' = Read /\ Read \in Nat
  BY <1>1 DEF Over, Read, TypeOK
<1>3. CASE chan = <<>> /\ UNCHANGED chan
  BY <1>1, <1>2, <1>3 DEF OrderInv, EndsWithValue
<1>4. CASE chan # <<>> /\ Head(chan).kind = "EndOfStream" /\ chan' = Tail(chan)
  <2>1. Len(chan) = 1 /\ ~EndsWithValue
    <3>1. 1 \in 1..Len(chan) /\ chan[1].kind # "RealtimeValue"
      BY <1>4, TailMessage DEF TypeOK
    <3> QED
      BY <1>4, <3>1 DEF ChannelInv, EndsWithValue
  <2>2. chan' = <<>> /\ Len(chan') = 0 /\ EndsWithValue'
    BY <1>4, <2>1, TailMessage DEF TypeOK, EndsWithValue
  <2>3. Read = sent
    BY <1>2, <2>1 DEF OrderInv, TypeOK
  <2> QED
    BY <1>1, <1>2, <2>2, <2>3 DEF OrderInv
<1> QED
  BY <1>3, <1>4 DEF RecvEnd

(* The values of a cycle follow the ones delivered before. *)
LEMMA OrderDeliver ==
  ASSUME DeliveryInv, DrainDone
  PROVE  OrderInv'
<1> TypeOK /\ OrderInv
  BY DEF DeliveryInv, ReceiverInv
<1>1. /\ pc = "drain" /\ pc' = "check" /\ delivered' = delivered \o values
      /\ UNCHANGED <<chan, values, sent>>
  BY DEF DrainDone, sender
<1>2. /\ Len(delivered) \in Nat /\ Len(values) \in Nat
      /\ Len(delivered') = Len(delivered) + Len(values)
      /\ \A k \in 1..Len(delivered) : delivered'[k] = delivered[k]
      /\ \A k \in 1..Len(values) : delivered'[Len(delivered) + k] = values[k]
  BY <1>1 DEF TypeOK
<1>3. \A k \in 1..Len(delivered') : delivered'[k] = k
  <2> SUFFICES ASSUME NEW k \in 1..Len(delivered') PROVE delivered'[k] = k
    OBVIOUS
  <2>1. CASE k \in 1..Len(delivered)
    BY <1>2, <2>1 DEF OrderInv
  <2>2. CASE k \notin 1..Len(delivered)
    <3>1. k - Len(delivered) \in 1..Len(values) /\ Len(delivered) + (k - Len(delivered)) = k
      BY <1>2, <2>2
    <3> QED
      BY <1>1, <1>2, <3>1 DEF OrderInv
  <2> QED
    BY <2>1, <2>2
<1>4. ~Over /\ ~Over' /\ Read' = Read /\ EndsWithValue' = EndsWithValue
  BY <1>1, <1>2 DEF Over, Read, EndsWithValue
<1> QED
  BY <1>1, <1>3, <1>4 DEF OrderInv

LEMMA OrderStep ==
  ASSUME DeliveryInv, [Next]_vars
  PROVE  OrderInv'
<1> TypeOK /\ OrderInv
  BY DEF DeliveryInv, ReceiverInv
<1>1. CASE SendValue \/ SendLast \/ RecvValue \/ RecvEnd \/ DrainDone
  BY <1>1, OrderSend, OrderLast, OrderRead, OrderEnd, OrderDeliver
<1>2. CASE BeginDrain
  <2>1. /\ pc = "cycle" /\ pc' = "drain" /\ values' = <<>>
        /\ UNCHANGED <<chan, sent, delivered>>
    BY <1>2 DEF BeginDrain, sender
  <2>2. Len(values') = 0 /\ Len(delivered) \in Nat
    BY <2>1 DEF TypeOK
  <2>3. ~Over /\ ~Over' /\ Read' = Read /\ EndsWithValue' = EndsWithValue
    BY <2>1, <2>2 DEF Over, Read, EndsWithValue
  <2> QED
    BY <2>1, <2>2, <2>3 DEF OrderInv
<1>3. CASE /\ UNCHANGED <<chan, sent, delivered>>
           /\ pc # "drain" /\ pc' # "drain" /\ (Over => Over')
  <2>1. Read' = Read /\ EndsWithValue' = EndsWithValue
    BY <1>3 DEF Read, EndsWithValue
  <2> QED
    BY <1>3, <2>1 DEF OrderInv
<1>4. CASE UNCHANGED <<chan, sent, delivered, values, pc>>
  <2>1. Read' = Read /\ EndsWithValue' = EndsWithValue /\ Over' = Over
    BY <1>4 DEF Read, EndsWithValue, Over
  <2> QED
    BY <1>4, <2>1 DEF OrderInv
<1>5. CASE RecvError
  BY <1>5 DEF RecvError, OrderInv, Over, node
<1>6. CASE ReturnEarly \/ Leaving
  BY <1>4, <1>6 DEF ReturnEarly, Leaving, Notify, NotifyLast, SeeStop, DropNotify, DropSender,
                    Finish, node
<1>7. CASE Setup \/ Start \/ RunEnds \/ Wake \/ DeliverError
  BY <1>3, <1>7 DEF Setup, Start, RunEnds, Wake, DeliverError, node, sender, Over
<1>8. CASE Healthy \/ CleanExit \/ DeferError \/ Stop \/ Join \/ Joined \/ Teardown
  BY <1>3, <1>8 DEF Healthy, CleanExit, DeferError, Stop, Join, Joined, Teardown, node, sender,
                    Over
<1>9. CASE UNCHANGED vars
  BY <1>4, <1>9 DEF vars
<1> QED
  BY <1>1, <1>2, <1>5, <1>6, <1>7, <1>8, <1>9 DEF Next, Thread, Engine, Cycle

LEMMA FailureStep ==
  ASSUME DeliveryInv, [Next]_vars
  PROVE  FailureInv'
<1> TypeOK /\ ThreadInv /\ ErrorInv /\ FailureInv
  BY DEF DeliveryInv, ReceiverInv
<1> USE DEF TypeOK, ThreadInv, FailureInv, node, sender
<1>1. CASE SendValue \/ SendLast \/ ReturnEarly \/ Leaving
  BY <1>1 DEF SendValue, SendLast, ReturnEarly, Leaving, Notify, NotifyLast, SeeStop,
              DropNotify, DropSender, Finish
<1>2. CASE Setup \/ Start \/ RunEnds \/ Wake
  BY <1>2 DEF Setup, Start, RunEnds, Wake
<1>3. CASE DeliverError \/ BeginDrain \/ RecvValue \/ RecvEnd \/ RecvError \/ DrainDone
  BY <1>3 DEF DeliverError, BeginDrain, RecvValue, RecvEnd, RecvError, DrainDone
<1>4. CASE Healthy \/ CleanExit \/ DeferError
  BY <1>4 DEF Healthy, CleanExit, DeferError
<1>5. CASE Stop \/ Join \/ Joined \/ Teardown
  BY <1>5 DEF Stop, Join, Joined, Teardown
<1>6. CASE UNCHANGED vars
  BY <1>6 DEF vars
<1> QED
  BY <1>1, <1>2, <1>3, <1>4, <1>5, <1>6 DEF Next, Thread, Engine, Cycle

-----------------------------------------------------------------------------
(* A node with a thread of its own keeps ReceiverInv, however its thread,  *)
(* the channel and the engine interleave.                                  *)
THEOREM ReceiverInvariant == Spec => []ReceiverInv
<1>1. ReceiverInv /\ [Next]_vars => ReceiverInv'
  BY TypeStep, ThreadStep, ChannelStep, WakeStep DEF ReceiverInv
<1> QED
  BY <1>1, InitInv, PTL DEF Spec

(* While the engine waits, every message that is in the channel has its    *)
(* notification in the queue or on its way.                                *)
THEOREM WakeupsAreKept == Spec => []NoLostWakeup
<1>1. ReceiverInv => NoLostWakeup
  BY DEF ReceiverInv, WakeInv, ErrorInv, Running, NoLostWakeup
<1> QED
  BY <1>1, ReceiverInvariant, PTL

(* A thread error that was put off is followed by a wake-up of the engine. *)
THEOREM DeferredErrorsWake == Spec => []DeferredIsWoken
<1>1. ReceiverInv => DeferredIsWoken
  BY DEF ReceiverInv, TypeOK, ThreadInv, WakeInv, ErrorInv, DeferredIsWoken
<1> QED
  BY <1>1, ReceiverInvariant, PTL

(* The thread is over and its sender dropped before the receiver is torn   *)
(* down, whatever ended the run.                                           *)
THEOREM ThreadsAreJoined == Spec => []NoThreadLeft
<1>1. ReceiverInv => NoThreadLeft
  BY DEF ReceiverInv, TypeOK, ThreadInv, ErrorInv, NoThreadLeft
<1> QED
  BY <1>1, ReceiverInvariant, PTL

(* No message waits unnoticed, and no thread outlives stop(). *)
THEOREM ReceiverIsSound == Spec => []ReceiverSound
BY WakeupsAreKept, ThreadsAreJoined, PTL DEF ReceiverSound

(* The values that were sent, read and delivered are one sequence without  *)
(* a gap, and a failure of the thread is never let go of, in any number of *)
(* sends and however thread and engine interleave.                         *)
THEOREM DeliveryInvariant == Spec => []DeliveryInv
<1>1. Init => DeliveryInv
  BY InitInv DEF Init, DeliveryInv, OrderInv, FailureInv, Read, EndsWithValue, Over
<1>2. DeliveryInv /\ [Next]_vars => DeliveryInv'
  BY TypeStep, ThreadStep, ChannelStep, WakeStep, OrderStep, FailureStep
  DEF DeliveryInv, ReceiverInv
<1> QED
  BY <1>1, <1>2, PTL DEF Spec

(* The node ticks with the values in the order of sending, each once, and  *)
(* has ticked with all of them when it has read the end of the stream; a   *)
(* failed thread makes run() fail unless the run ended while the error     *)
(* waited for its cycle.                                                   *)
THEOREM NothingIsSwallowed == Spec => []NothingSwallowed
<1>1. DeliveryInv => FailureIsReported
  BY DEF DeliveryInv, ReceiverInv, ErrorInv, FailureInv, FailureIsReported
<1>2. DeliveryInv => DeliveredInOrder
  <2> SUFFICES ASSUME DeliveryInv PROVE DeliveredInOrder
    OBVIOUS
  <2> TypeOK /\ ChannelInv /\ OrderInv
    BY DEF DeliveryInv, ReceiverInv
  <2>1. ASSUME pc = "wait", finished PROVE Len(delivered) = sent
    <3>1. chan = <<>> /\ Len(chan) = 0 /\ EndsWithValue /\ ~Over
      BY <2>1 DEF ChannelInv, EndsWithValue, Over
    <3>2. Read = Len(delivered) /\ Len(delivered) \in Nat
      BY <2>1 DEF Read, TypeOK
    <3> QED
      BY <3>1, <3>2 DEF OrderInv, TypeOK
  <2> QED
    BY <2>1 DEF DeliveredInOrder, OrderInv
<1> QED
  BY <1>1, <1>2, DeliveryInvariant, PTL DEF NothingSwallowed
=============================================================================
