---------------------------- MODULE AeronAdapter ----------------------------
(***************************************************************************)
(* The Aeron adapter (adapters/aeron): a publication and a subscription of *)
(* one stream, in two graphs.  `term` is what the publication has accepted *)
(* and `poller.pos` how far the subscription has read it.  The subscriber  *)
(* polls in its cycle (spin) or on a thread that hands fragments, and with *)
(* a status stream also the transitions, to the graph through a channel;   *)
(* the wake-up and the join of that thread are those of ReceiverStream.    *)
(* The media driver is external: it connects and disconnects the two ends, *)
(* closes them, may refuse an offer when the subscriber is behind, and may *)
(* answer with another code of its own.                                    *)
(***************************************************************************)
EXTENDS Integers, Sequences, SequencesExt

CONSTANTS
  AeronSubs,        \* the subscribers: [requested, backend, watch]
  FragmentLimit,    \* AeronSubOptions::fragment_limit
  AeronWindow,      \* slots the publisher must be ahead for back pressure
  MaxSlots,         \* bound: slots of the term buffer
  MaxBurst,         \* bound: items of a burst
  MaxDriverChanges, \* bound: connects, disconnects and closes
  MaxPubCycles      \* bound: cycles of the publisher

AeronMode == {"Spin", "Threaded"}

ASSUME AeronAssumption ==
  /\ AeronSubs \subseteq [requested : AeronMode, backend : {"rusteron", "aeron-rs"},
                     watch : BOOLEAN]
  /\ FragmentLimit \in Nat \ {0} /\ AeronWindow \in Nat \ {0}
  /\ {MaxSlots, MaxBurst, MaxDriverChanges, MaxPubCycles} \subseteq Nat

VARIABLES
  term,       \* the slots of the publication, in order
  driver,     \* the media driver
  publisher,  \* AeronPubNode, or code that claims slots itself
  poller      \* the subscriber node and its thread

aeronVars == <<term, driver, publisher, poller>>

-----------------------------------------------------------------------------
(* AeronStatusStream *)

StatusStream == [last |-> "Disconnected", out |-> <<>>]
ClearStatus(s) == [s EXCEPT !.out = <<>>]

RecordStatus(s, new) ==
  IF new # s.last THEN [last |-> new, out |-> Append(s.out, new)] ELSE s

\* A wrong form of Ticks: a transition in a cycle without data is not told.
TicksOnData(value, out) == value # <<>>

\* Whether a subscriber's cycle returns true: only then is the status node,
\* its downstream, cycled.
Ticks(value, out) == value # <<>> \/ out # <<>>

\* A backend that locks while it polls is never polled on the graph thread.
SupportsGraphThreadPoll(backend) == backend # "aeron-rs"

EffectiveMode(requested, backend) ==
  IF requested = "Spin" /\ ~SupportsGraphThreadPoll(backend) THEN "Threaded" ELSE requested

\* aeron_pub_with_status, and aeron_sub_fragment with or without a status stream.
NewPublisher ==
  [pc |-> "open", todo |-> 0, outcome |-> "none", cycles |-> 0, status |-> StatusStream,
   told |-> <<>>]

NewPoller(mode, backend, watch) ==
  [mode |-> mode, backend |-> backend, watch |-> watch, pc |-> "open", pos |-> 0, count |-> 0,
   stop |-> FALSE, chan |-> <<>>, last |-> "Disconnected", value |-> <<>>,
   status |-> StatusStream, told |-> <<>>, given |-> <<>>]

AeronInit ==
  /\ term = <<>>
  /\ driver = [connected |-> FALSE, pubClosed |-> FALSE, subClosed |-> FALSE, changes |-> 0]
  /\ publisher = NewPublisher
  /\ \E s \in AeronSubs :
       poller = NewPoller(EffectiveMode(s.requested, s.backend), s.backend, s.watch)

-----------------------------------------------------------------------------
(* The media driver.  An image is only dropped once it has been read.      *)
DriverStep ==
  /\ driver.changes < MaxDriverChanges
  /\ \/ ~driver.connected /\ driver' = [driver EXCEPT !.connected = TRUE, !.changes = @ + 1]
     \/ /\ driver.connected /\ poller.pos = Len(term)
        /\ driver' = [driver EXCEPT !.connected = FALSE, !.changes = @ + 1]
     \/ driver' = [driver EXCEPT !.pubClosed = TRUE, !.changes = @ + 1]
     \/ driver' = [driver EXCEPT !.subClosed = TRUE, !.changes = @ + 1]
  /\ UNCHANGED <<term, publisher, poller>>

\* One backend is compiled in.  aeron-rs keeps the defaults of the traits:
\* its ports never say that they are connected or closed.
Rusteron == poller.backend = "rusteron"
IsConnected == Rusteron /\ driver.connected
PubIsClosed == Rusteron /\ driver.pubClosed

\* What the driver may answer to offer and try_claim: the position, -1 or -4,
\* -2, and any other negative code.
OfferCodes ==
  IF driver.pubClosed \/ ~driver.connected THEN {"Connection", "Backend"}
  ELSE {"Ok", "Backend"} \cup
         (IF Len(term) - poller.pos >= AeronWindow THEN {"BackPressure"} ELSE {})

\* result_to_transport_error; an error of aeron-rs is no TransportError.
TransportResults ==
  {IF code = "BackPressure" /\ ~Rusteron THEN "Backend" ELSE code : code \in OfferCodes}

\* AeronHandle::publication and subscription wait until the driver has made
\* the port, or give up.
PubOpen ==
  /\ publisher.pc = "open"
  /\ \E pc \in {"idle", "failed"} : publisher' = [publisher EXCEPT !.pc = pc]
  /\ UNCHANGED <<term, driver, poller>>

SubOpen ==
  /\ poller.pc = "open"
  /\ \E pc \in {"top", "failed"} : poller' = [poller EXCEPT !.pc = pc]
  /\ UNCHANGED <<term, driver, publisher>>

Slot(state, parse) == [state |-> state, parse |-> parse]

-----------------------------------------------------------------------------
(* AeronPubNode *)

\* The end of a cycle: it ticks, so the status node runs, and ticks if there
\* is a transition.
Published(p, status) ==
  LET new == RecordStatus(p.status, status)
  IN  [p EXCEPT !.pc = "idle", !.todo = 0, !.status = new, !.told = @ \o new.out]

PubBegin ==
  /\ publisher.pc = "idle" /\ publisher.cycles < MaxPubCycles
  /\ LET p == [publisher EXCEPT !.status = ClearStatus(@), !.outcome = "none", !.cycles = @ + 1]
     IN  \/ PubIsClosed /\ publisher' = Published(p, "Closed")
         \/ /\ ~PubIsClosed
            /\ \E n \in 0..MaxBurst :
                 /\ Len(term) + n <= MaxSlots
                 /\ publisher' = [p EXCEPT !.pc = "offer", !.todo = n]
  /\ UNCHANGED <<term, driver, poller>>

\* One item of the burst; back pressure ends the cycle and drops the rest,
\* any other error ends the run.
PubOffer ==
  /\ publisher.pc = "offer" /\ publisher.todo > 0
  /\ \/ /\ "Ok" \in TransportResults
        /\ \E parse \in {"some", "skip"} : term' = Append(term, Slot("data", parse))
        /\ publisher' = [publisher EXCEPT !.todo = @ - 1, !.outcome = "Connected"]
     \/ /\ "BackPressure" \in TransportResults /\ UNCHANGED term
        /\ publisher' = Published(publisher, "BackPressured")
     \/ /\ TransportResults \cap {"Connection", "Backend"} # {} /\ UNCHANGED term
        /\ publisher' = [publisher EXCEPT !.pc = "failed"]
  /\ UNCHANGED <<driver, poller>>

PubEnd ==
  /\ publisher.pc = "offer" /\ publisher.todo = 0
  /\ publisher' = Published(publisher,
                    IF publisher.outcome # "none" THEN publisher.outcome
                    ELSE IF IsConnected THEN "Connected" ELSE "Disconnected")
  /\ UNCHANGED <<term, driver, poller>>

\* try_claim, outside a cycle: the slot is the claimer's until it is settled.
TryClaim ==
  /\ Rusteron /\ publisher.pc = "idle" /\ "Ok" \in TransportResults /\ Len(term) < MaxSlots
  /\ term' = Append(term, Slot("claimed", "some"))
  /\ publisher' = [publisher EXCEPT !.pc = "claim"]
  /\ UNCHANGED <<driver, poller>>

SlotSettled(state) == [term EXCEPT ![Len(term)].state = state]

\* A wrong form of Settle: a claim that is dropped is not aborted.
SettleOrLeak ==
  /\ publisher.pc = "claim"
  /\ term' \in {SlotSettled("data"), SlotSettled("claimed")}
  /\ publisher' = [publisher EXCEPT !.pc = "idle"]
  /\ UNCHANGED <<driver, poller>>

\* commit, abort, or a drop without either, which aborts.
Settle ==
  /\ publisher.pc = "claim"
  /\ term' \in {SlotSettled("data"), SlotSettled("padding")}
  /\ publisher' = [publisher EXCEPT !.pc = "idle"]
  /\ UNCHANGED <<driver, poller>>

-----------------------------------------------------------------------------
(* The subscriber: one pass of the poll loop of the thread, or one cycle.  *)
Threaded == poller.mode = "Threaded"

SubBegin ==
  /\ poller.pc = "top"
  /\ poller' = IF poller.stop THEN [poller EXCEPT !.pc = "stopped"]
               ELSE IF Threaded THEN [poller EXCEPT !.pc = "poll", !.count = 0]
               ELSE [poller EXCEPT !.pc = "poll", !.count = 0, !.value = <<>>,
                                   !.status = ClearStatus(@)]
  /\ UNCHANGED <<term, driver, publisher>>

\* A slot the poll can hand out: not one that is still claimed.
Available ==
  ~driver.subClosed /\ poller.pos < Len(term) /\ term[poller.pos + 1].state # "claimed"

\* The parser's value goes out; a fragment it skips or rejects is dropped.
SubFragment ==
  /\ poller.pc = "poll" /\ poller.count < FragmentLimit /\ Available
  /\ LET slot == term[poller.pos + 1]
         id == poller.pos + 1
         p == [poller EXCEPT !.pos = id, !.count = IF slot.state = "data" THEN @ + 1 ELSE @]
     IN  poller' = IF slot # Slot("data", "some") THEN p
                   ELSE IF Threaded THEN [p EXCEPT !.chan = Append(@, [data |-> id, status |-> "none"])]
                   ELSE [p EXCEPT !.value = Append(@, id)]
  /\ UNCHANGED <<term, driver, publisher>>

\* The end of a cycle in spin mode.
SpinDone(p, status) ==
  IF Ticks(p.value, status.out)
  THEN [p EXCEPT !.pc = "top", !.status = status, !.given = @ \o p.value, !.told = @ \o status.out]
  ELSE [p EXCEPT !.pc = "top", !.status = status]

SubPolled ==
  /\ poller.pc = "poll" /\ (poller.count = FragmentLimit \/ ~Available)
  /\ poller' = IF poller.watch THEN [poller EXCEPT !.pc = "closed"]
               ELSE IF Threaded THEN [poller EXCEPT !.pc = "top"]
               ELSE SpinDone(poller, poller.status)
  /\ UNCHANGED <<term, driver, publisher>>

\* The poll fails: the cycle, or the function of the thread, returns the error.
SubFails ==
  /\ poller.pc = "poll" /\ poller.count = 0
  /\ poller' = [poller EXCEPT !.pc = "failed"]
  /\ UNCHANGED <<term, driver, publisher>>

\* The status of this poll: on the stream, or as an item of the channel when
\* it is not the one of the poll before.
Observed(status) ==
  IF ~Threaded THEN SpinDone(poller, RecordStatus(poller.status, status))
  ELSE IF status = poller.last THEN [poller EXCEPT !.pc = "top"]
  ELSE [poller EXCEPT !.pc = "top", !.last = status,
                      !.chan = Append(@, [data |-> 0, status |-> status])]

SubIsClosed ==
  /\ poller.pc = "closed"
  /\ poller' = IF Rusteron /\ driver.subClosed THEN Observed("Closed") ELSE [poller EXCEPT !.pc = "connected"]
  /\ UNCHANGED <<term, driver, publisher>>

SubIsConnected ==
  /\ poller.pc = "connected"
  /\ poller' = Observed(IF IsConnected THEN "Connected" ELSE "Disconnected")
  /\ UNCHANGED <<term, driver, publisher>>

\* What a cycle makes of the items: the fragments are its burst, and the
\* statuses are recorded one after the other.
DataOf(items) ==
  FlattenSeq([i \in DOMAIN items |-> IF items[i].status = "none" THEN <<items[i].data>> ELSE <<>>])

RecordItem(s, m) == IF m.status = "none" THEN s ELSE RecordStatus(s, m.status)

\* A cycle of the threaded node: the channel is drained and taken apart.
SubCycle ==
  /\ Threaded /\ ~poller.stop /\ poller.chan # <<>>
  /\ LET status == FoldLeft(RecordItem, ClearStatus(poller.status), poller.chan)
         value == DataOf(poller.chan)
         told == IF Ticks(value, status.out) THEN status.out ELSE <<>>
     IN  poller' = [poller EXCEPT !.chan = <<>>, !.value = value, !.status = status,
                                  !.given = @ \o value, !.told = @ \o told]
  /\ UNCHANGED <<term, driver, publisher>>

\* The run ends: a thread sees the flag before its next poll.  The error of a
\* thread that has failed is swallowed here.
SubStop ==
  /\ ~poller.stop /\ poller.pc # "open" /\ (Threaded \/ poller.pc = "top")
  /\ poller' = [poller EXCEPT !.stop = TRUE]
  /\ UNCHANGED <<term, driver, publisher>>

SubStep ==
  SubBegin \/ SubFragment \/ SubPolled \/ SubIsClosed \/ SubIsConnected

AeronNext ==
  \/ DriverStep \/ PubOpen \/ SubOpen \/ PubBegin \/ PubOffer \/ PubEnd \/ TryClaim \/ Settle
  \/ SubStep \/ SubFails \/ SubCycle \/ SubStop

-----------------------------------------------------------------------------
(* FragmentsInOrder: what the graph has got, then what waits in the channel *)
(* or in the burst of this cycle, is every fragment the parser accepted up  *)
(* to the position of the subscription, in order: none is lost at the       *)
(* fragment limit, behind a fragment the parser rejects, or between the     *)
(* thread and the graph.                                                    *)
FragmentsInOrder ==
  LET all == poller.given \o (IF Threaded THEN DataOf(poller.chan)
                              ELSE IF poller.pc \in {"open", "top", "stopped"} THEN <<>> ELSE poller.value)
  IN  /\ \A i, j \in DOMAIN all : i < j => all[i] < all[j]
      /\ ToSet(all) = {i \in 1..poller.pos : term[i] = Slot("data", "some")}

(* StatusExact: what the status streams have told their consumers ends with *)
(* the status last recorded and never says the same thing twice: a          *)
(* transition in a cycle without data is told, and told once.               *)
StatusExact ==
  \A s \in {publisher, poller} :
    /\ s.status.last = (IF s.told = <<>> THEN "Disconnected" ELSE s.told[Len(s.told)])
    /\ \A i \in 1..(Len(s.told) - 1) : s.told[i] # s.told[i + 1]

(* The subscriber gives the graph what the driver has, data and status.    *)
SubscriberExact == FragmentsInOrder /\ StatusExact

(* AcceptedArrives: what the publication accepted and the parser takes      *)
(* reaches the graph, unless the subscription ends: no claim is left that   *)
(* would hold up the stream, whatever became of the code that held it.      *)
AcceptedArrives ==
  \A n \in 1..MaxSlots :
    (Len(term) >= n /\ term[n] = Slot("data", "some"))
      ~> (\/ \E i \in DOMAIN poller.given : poller.given[i] = n
          \/ poller.stop \/ poller.pc = "failed" \/ driver.subClosed)
=============================================================================
