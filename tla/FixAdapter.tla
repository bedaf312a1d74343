---------------------------- MODULE FixAdapter -----------------------------
(***************************************************************************)
(* The FIX adapter (adapters/fix/mod.rs): one node and its counterparty.   *)
(* `role` is the node: the polling initiator and acceptor (FixSpinSource,  *)
(* FixAcceptorSpin), the threaded ones (FixThreadedSource) with the inject *)
(* queue and FixSubNode, and the sending sink (FixSenderNode).  A message  *)
(* reaches the node whole or in two fragments, so that a read, and a lost  *)
(* connection, may fall between them.  A message is its kind and the       *)
(* number of its first fragment; what the codec stamps on one that is sent *)
(* is its sequence number.                                                 *)
(***************************************************************************)
EXTENDS Integers, Sequences, FiniteSets, SequencesExt

CONSTANTS
  FixFactories,   \* the functions that make a node
  FixSymbols,     \* the symbols the graph may ask for
  FixKinds,       \* kinds of message the counterparty may send
  MaxConnections, \* bound: connections in a behaviour
  MaxFragments,   \* bound: fragments the counterparty sends and failures of a listener
  MaxSends,       \* bound: messages the sink sends
  InjectCapacity  \* INJECT_QUEUE_CAPACITY

ASSUME FixAssumption ==
  /\ FixFactories \subseteq {"fix_connect", "fix_connect_tls", "fix_accept", "fix_send"}
  /\ FixKinds \subseteq {"data", "test", "logout", "heartbeat"}
  /\ MaxConnections \in Nat /\ MaxFragments \in Nat /\ MaxSends \in Nat
  /\ InjectCapacity \in Nat \ {0}
  /\ IsFiniteSet(FixSymbols)
  /\ FixSymbols \cap {"logon", "logout", "heartbeat", "data"} = {}

VARIABLES
  fix,     \* the node and its thread
  venue,   \* the counterparty and the connection
  host,    \* the graph that runs the node
  marks    \* FixSubNode

fixVars == <<fix, venue, host, marks>>

FixAcceptor == fix.role \in {"spin_acc", "thread_acc"}
FixThreaded == fix.role \in {"thread_init", "thread_tls", "thread_acc"}

NoConnection == [n |-> 0, open |-> FALSE, in |-> <<>>, out |-> <<>>,
                 half |-> 0, logged |-> FALSE, subs |-> {}, told |-> 0, jump |-> FALSE]

\* fix_connect and fix_accept make a polling or a threaded node; a TLS
\* connection always has a thread, and with it a FixSender; fix_send is a sink.
FixNode(factory, mode) ==
  CASE factory = "fix_connect" -> IF mode = "AlwaysSpin" THEN "spin_init" ELSE "thread_init"
    [] factory = "fix_connect_tls" -> "thread_tls"
    [] factory = "fix_accept" -> IF mode = "AlwaysSpin" THEN "spin_acc" ELSE "thread_acc"
    [] factory = "fix_send" -> "sender"

\* FixConnection::fix_sub: nothing is asked for before the node has run.
FixSub == [pending |-> {}, sent |-> {}, logged_in |-> FALSE, wanted |-> {}]

FixInit ==
  /\ \E factory \in FixFactories, mode \in {"AlwaysSpin", "Threaded"} :
       fix = [role |-> FixNode(factory, mode), pc |-> "top", sock |-> FALSE, buf |-> <<>>, seq |-> 0,
              handle |-> FALSE, shut |-> FALSE, stop |-> FALSE, late |-> FALSE,
              chan |-> <<>>, inject |-> <<>>]
  /\ venue = NoConnection
  /\ host = [pc |-> "start", given |-> <<>>, frags |-> 0]
  /\ marks = FixSub

-----------------------------------------------------------------------------
(* The codec and the session *)

\* find_message, over and over: a message ends with its checksum field and
\* begins where the one before ended, whatever that is.
MessageEnds(buf) ==
  LET ends == {i \in DOMAIN buf : buf[i].part # "first"}
  IN  [k \in 1 .. Cardinality(ends) |->
         CHOOSE i \in ends : Cardinality({j \in ends : j <= i}) = k]

Decoded(buf) ==
  LET ends == MessageEnds(buf)
  IN  [k \in DOMAIN ends |-> buf[IF k = 1 THEN 1 ELSE ends[k - 1] + 1]]

Undecoded(buf) ==
  LET ends == MessageEnds(buf)
  IN  IF ends = <<>> THEN buf ELSE SubSeq(buf, ends[Len(ends)] + 1, Len(buf))

\* handle_initiator and handle_acceptor: what a message is answered with, and
\* the event it becomes.
Answers(m) ==
  IF m.kind = "test" THEN <<"heartbeat">>
  ELSE IF m.kind = "logon" /\ FixAcceptor THEN <<"logon">>
  ELSE <<>>

EventOf(m) ==
  CASE m.kind = "logon" -> <<[status |-> "LoggedIn", id |-> 0]>>
    [] m.kind = "logout" -> <<[status |-> "LoggedOut", id |-> 0]>>
    [] m.kind = "data" -> <<[status |-> "Data", id |-> m.id]>>
    [] OTHER -> <<>>

Status(s) == [status |-> s, id |-> 0]

\* FixSession::send: the next sequence number on every message.
Numbered(seq, kinds) == [i \in DOMAIN kinds |-> [kind |-> kinds[i], seq |-> seq + i]]

\* drain_parse_buf on the bytes there are.
DrainedEvents(buf) ==
  LET ms == Decoded(buf) IN FlattenSeq([k \in DOMAIN ms |-> EventOf(ms[k])])
DrainedAnswers(buf) ==
  LET ms == Decoded(buf) IN FlattenSeq([k \in DOMAIN ms |-> Answers(ms[k])])

\* A write may fail once the counterparty has closed the connection.
Writes == IF venue.open THEN {TRUE} ELSE BOOLEAN

\* What MaxFragments leaves: fragments that come and, at an acceptor, sockets
\* that fail.
MoreInput ==
  LET events == host.given \o fix.chan
      errors == {i \in DOMAIN events : FixAcceptor /\ events[i].status = "Error"}
  IN  host.frags + Cardinality(errors) < MaxFragments

LogonMessage == <<"logon">>
LogoutMessage == <<"logout">>

Send(kinds) ==
  venue' = [venue EXCEPT !.out = @ \o Numbered(fix.seq, kinds)]

-----------------------------------------------------------------------------
(* The polling nodes *)

\* start: connect_with_retry and the Logon; the acceptor only binds.  Either
\* may fail, and with it the run.  The
\* LoggingIn the initiator puts in its value is cleared by its first cycle.
FixSpinStart ==
  /\ host.pc = "start" /\ fix.role \in {"spin_init", "spin_acc", "sender"}
  /\ \/ /\ fix.role = "spin_acc"
        /\ host' = [host EXCEPT !.pc = "running"]
        /\ UNCHANGED <<fix, venue>>
     \/ /\ fix.role # "spin_acc"
        /\ host' = [host EXCEPT !.pc = "running"]
        /\ venue' = [NoConnection EXCEPT !.n = 1, !.open = TRUE,
                                         !.out = Numbered(0, LogonMessage)]
        /\ fix' = [fix EXCEPT !.sock = TRUE, !.seq = 1]
     \/ /\ host' = [host EXCEPT !.pc = "failed"]
        /\ UNCHANGED <<fix, venue>>
  /\ UNCHANGED marks

\* The counterparty of an acceptor connects and sends its Logon.
PeerConnects ==
  /\ FixAcceptor /\ venue.n < MaxConnections /\ ~ venue.open /\ ~ fix.sock
  /\ IF FixThreaded THEN fix.pc = "connect" ELSE host.pc = "running"
  /\ venue' = [NoConnection EXCEPT !.n = venue.n + 1, !.open = TRUE, !.jump = venue.jump,
                 !.in = <<[kind |-> "logon", id |-> 0, part |-> "whole"]>>]
  /\ UNCHANGED <<fix, host, marks>>

\* FixAcceptorSpin::cycle, the accept.
SpinAccept ==
  /\ fix.role = "spin_acc" /\ host.pc = "running" /\ ~ fix.sock
  /\ venue.n > 0 /\ venue.open
  /\ fix' = [fix EXCEPT !.sock = TRUE]
  /\ host' = [host EXCEPT !.given = Append(@, Status("LoggingIn"))]
  /\ UNCHANGED <<venue, marks>>

\* cycle: read everything there is, then dispatch the complete messages.  At the
\* end of the stream the socket is dropped, and with it the messages of this
\* read: the initiator returns before it drains, the acceptor has no socket to
\* dispatch them with and consumes them.  The bytes of an incomplete message
\* stay in parse_buf, which then holds `left`.  A connection that is reset, at
\* the read or at an answer, fails the run.
SpinCycle(role, left) ==
  LET buf == fix.buf \o venue.in
      eof == ~ venue.open
      events == DrainedEvents(buf)
      answers == DrainedAnswers(buf)
  IN  /\ fix.role = role /\ host.pc = "running" /\ fix.sock
      /\ venue.in # <<>> \/ eof
      /\ \/ /\ eof
            /\ fix' = [fix EXCEPT !.sock = FALSE, !.buf = left]
            /\ venue' = [venue EXCEPT !.in = <<>>]
            /\ host' = [host EXCEPT !.given = Append(@, Status("Disconnected"))]
         \/ /\ ~ eof
            /\ fix' = [fix EXCEPT !.buf = Undecoded(buf), !.seq = @ + Len(answers)]
            /\ venue' = [venue EXCEPT !.in = <<>>, !.out = @ \o Numbered(fix.seq, answers)]
            /\ host' = [host EXCEPT !.given = @ \o events]
         \/ /\ eof \/ answers # <<>>
            /\ host' = [host EXCEPT !.pc = "failed"]
            /\ fix' = [fix EXCEPT !.sock = eof]
            /\ venue' = [venue EXCEPT !.open = FALSE, !.in = <<>>]
      /\ UNCHANGED marks

SpinInitiatorCycle == SpinCycle("spin_init", fix.buf \o venue.in)
SpinAcceptorCycle == SpinCycle("spin_acc", Undecoded(fix.buf \o venue.in))

\* FixSenderNode::cycle: read and answer what has come, then send; a lost
\* connection fails the run.
FixSenderCycle ==
  LET buf == fix.buf \o venue.in
      kinds == DrainedAnswers(buf) \o <<"data">>
  IN  /\ fix.role = "sender" /\ host.pc = "running"
      /\ \/ /\ venue.open /\ fix.seq < MaxSends
            /\ fix' = [fix EXCEPT !.buf = Undecoded(buf), !.seq = @ + Len(kinds)]
            /\ venue' = [venue EXCEPT !.in = <<>>, !.out = @ \o Numbered(fix.seq, kinds)]
            /\ UNCHANGED host
         \/ /\ ~ venue.open
            /\ host' = [host EXCEPT !.pc = "failed"]
            /\ fix' = [fix EXCEPT !.sock = FALSE]
            /\ UNCHANGED venue
      /\ UNCHANGED marks

\* stop: a Logout on a socket that is still there.
SpinStop ==
  /\ ~ FixThreaded /\ host.pc \in {"running", "failed"}
  /\ host' = [host EXCEPT !.pc = "stopped"]
  /\ fix' = [fix EXCEPT !.sock = FALSE, !.seq = IF fix.sock THEN @ + 1 ELSE @]
  /\ IF fix.sock THEN Send(LogoutMessage) ELSE UNCHANGED venue
  /\ UNCHANGED marks

-----------------------------------------------------------------------------
(* FixThreadedSource: the thread *)

ThreadAt(pc) == FixThreaded /\ host.pc # "start" /\ fix.pc = pc
Report(events) == fix.chan \o events

\* The loop top: stop_flag.
ThreadTop ==
  /\ ThreadAt("top")
  /\ fix' = [fix EXCEPT !.pc = IF fix.stop THEN "exit" ELSE "connect"]
  /\ UNCHANGED <<venue, host, marks>>

\* The initiator connects, or gives up after its attempts with an Error.
ThreadConnect ==
  /\ ThreadAt("connect") /\ ~ FixAcceptor
  /\ \/ /\ venue.n < MaxConnections
        /\ venue' = [NoConnection EXCEPT !.n = venue.n + 1, !.open = TRUE,
                                         !.jump = venue.jump]
        /\ fix' = [fix EXCEPT !.pc = "store", !.sock = TRUE]
     \/ /\ fix' = [fix EXCEPT !.pc = "exit", !.chan = Report(<<Status("Error")>>)]
        /\ UNCHANGED venue
  /\ UNCHANGED <<host, marks>>

\* The acceptor binds, then polls accept and, while nobody connects, the stop
\* flag; a bind or an accept that fails and an interrupted accept are reported
\* and retried from the loop top.
ThreadAccept ==
  /\ ThreadAt("connect") /\ fix.role = "thread_acc"
  /\ \/ /\ venue.n > 0 /\ venue.open /\ ~ fix.sock
        /\ fix' = [fix EXCEPT !.pc = "store", !.sock = TRUE]
     \/ /\ ~ venue.open
        /\ fix.stop \/ MoreInput
        /\ fix' = [fix EXCEPT !.pc = "top", !.chan = Report(<<Status("Error")>>)]
  /\ UNCHANGED <<venue, host, marks>>

\* A wrong form of ThreadStore: the session, with its sequence numbers, outlives
\* the connection.
ThreadStoreKeepsSession ==
  /\ ThreadAt("store")
  /\ fix' = [fix EXCEPT !.pc = "logon", !.handle = TRUE, !.buf = <<>>]
  /\ UNCHANGED <<venue, host, marks>>

\* A clone of the socket for stop(), and a fresh session.  `late` records that
\* stop() had already looked for the socket.
ThreadStore ==
  /\ ThreadAt("store")
  /\ fix' = [fix EXCEPT !.pc = "logon", !.handle = TRUE, !.seq = 0, !.buf = <<>>,
                        !.late = @ \/ host.pc = "joining"]
  /\ UNCHANGED <<venue, host, marks>>

\* The socket cannot be cloned, or wrapped in TLS: an initiator gives up.  The
\* clone that stop() shuts down outlives a failed tls_connect.
ThreadStoreFails ==
  /\ ThreadAt("store") /\ (FixAcceptor => MoreInput)
  /\ fix' = [fix EXCEPT !.pc = IF FixAcceptor THEN "top" ELSE "exit", !.sock = FALSE,
                        !.chan = Report(<<Status("Error")>>)]
  /\ venue' = [venue EXCEPT !.open = FALSE, !.in = <<>>]
  /\ UNCHANGED <<host, marks>>

TlsConnectFails ==
  /\ ThreadAt("logon") /\ fix.role = "thread_tls"
  /\ fix' = [fix EXCEPT !.pc = "exit", !.chan = Report(<<Status("Error")>>)]
  /\ UNCHANGED <<venue, host, marks>>

\* run_fix_session: LoggingIn, then the initiator's Logon.
ThreadLogon ==
  /\ ThreadAt("logon")
  /\ IF FixAcceptor
     THEN /\ fix' = [fix EXCEPT !.pc = "read", !.chan = Report(<<Status("LoggingIn")>>)]
          /\ UNCHANGED venue
     ELSE \E ok \in (IF fix.shut THEN {FALSE} ELSE Writes) :
            /\ fix' = [fix EXCEPT
                 !.pc = IF ok THEN "read" ELSE "closed",
                 !.seq = @ + 1,
                 !.chan = Report(IF ok THEN <<Status("LoggingIn")>>
                                 ELSE <<Status("LoggingIn"), Status("Error")>>)]
            /\ IF ok THEN Send(LogonMessage) ELSE UNCHANGED venue
  /\ UNCHANGED <<host, marks>>

\* An iteration of the session loop: read, drain, flush the inject queue,
\* forward the events.  A failed write ends the session before the events of
\* this read are forwarded, and what is still in the queue stays there.
ThreadRead ==
  LET buf     == fix.buf \o venue.in
      answers == DrainedAnswers(buf)
      kinds   == answers \o fix.inject
  IN  /\ ThreadAt("read") /\ ~ fix.shut
      /\ venue.in # <<>> \/ (venue.open /\ fix.inject # <<>>)
      /\ \E ok \in (IF kinds = <<>> THEN {TRUE} ELSE Writes) :
         \E taken \in (IF ok THEN Len(fix.inject) ELSE IF answers = <<>> THEN 1 ELSE 0)
                         .. Len(fix.inject) :
           /\ fix' = [fix EXCEPT
                !.buf = Undecoded(buf), !.seq = @ + Len(kinds),
                !.inject = SubSeq(@, taken + 1, Len(@)),
                !.pc = IF ok THEN "read" ELSE "closed",
                !.chan = IF ok THEN Report(DrainedEvents(buf)) ELSE @]
           /\ venue' = [venue EXCEPT !.in = <<>>,
                          !.out = IF ok THEN @ \o Numbered(fix.seq, kinds) ELSE @]
      /\ UNCHANGED <<host, marks>>

\* End of the stream, or stop() has shut the socket down.
ThreadEof ==
  /\ ThreadAt("read")
  /\ fix.shut \/ (~ venue.open /\ venue.in = <<>>)
  /\ fix' = [fix EXCEPT !.pc = "closed"]
  /\ UNCHANGED <<venue, host, marks>>

\* The handle is cleared, Disconnected is reported and the loop goes on.
ThreadClosed ==
  /\ ThreadAt("closed")
  /\ fix' = [fix EXCEPT !.pc = "top", !.handle = FALSE, !.sock = FALSE,
                        !.chan = Report(<<Status("Disconnected")>>)]
  /\ venue' = [venue EXCEPT !.open = FALSE, !.in = <<>>]
  /\ UNCHANGED <<host, marks>>

\* EndOfStream, and the thread returns.
ThreadExit ==
  /\ ThreadAt("exit")
  /\ fix' = [fix EXCEPT !.pc = "gone", !.chan = Report(<<Status("End")>>)]
  /\ UNCHANGED <<venue, host, marks>>

-----------------------------------------------------------------------------
(* FixThreadedSource and FixSubNode: the graph *)

\* setup spawns the thread.
ThreadSetup ==
  /\ FixThreaded /\ host.pc = "start"
  /\ host' = [host EXCEPT !.pc = "running"]
  /\ UNCHANGED <<fix, venue, marks>>

\* One MarketDataRequest for each symbol, in some order.
MarketDataRequests(symbols) == SetToSeq(symbols)

\* send_or_log on each: what finds the queue full is dropped.
SendOrLog(queue, msgs) ==
  queue \o SubSeq(msgs, 1, IF Len(queue) + Len(msgs) > InjectCapacity
                           THEN InjectCapacity - Len(queue) ELSE Len(msgs))

\* FixSubNode::cycle with these new symbols, once the session is logged in as
\* far as the node knows.  subscribe counts a symbol as sent whether or not
\* send_or_log found room in the queue.
Subscribe(m, fresh) ==
  LET todo == (m.pending \cup fresh) \ m.sent
  IN  IF m.logged_in
      THEN /\ marks' = [m EXCEPT !.pending = {}, !.sent = @ \cup todo]
           /\ fix' = [fix EXCEPT !.chan = <<>>,
                        !.inject = SendOrLog(@, MarketDataRequests(todo))]
      ELSE /\ marks' = [m EXCEPT !.pending = @ \cup fresh]
           /\ fix' = [fix EXCEPT !.chan = <<>>]

\* A cycle takes every event in the channel; `any LoggedIn` in the burst of
\* statuses is remembered for ever.
GraphCycle ==
  /\ FixThreaded /\ host.pc = "running" /\ fix.chan # <<>>
  /\ host' = [host EXCEPT !.given = @ \o fix.chan]
  /\ Subscribe([marks EXCEPT !.logged_in =
                  @ \/ \E i \in DOMAIN fix.chan : fix.chan[i].status = "LoggedIn"], {})
  /\ UNCHANGED venue

\* The symbol stream ticks.
NewSymbol ==
  /\ fix.role = "thread_tls" /\ host.pc = "running" /\ fix.chan = <<>>
  /\ \E s \in FixSymbols \ marks.wanted :
       Subscribe([marks EXCEPT !.wanted = @ \cup {s}], {s})
  /\ UNCHANGED <<venue, host>>

\* A wrong form of StopFlag: the flag is not set.
StopFlagForgotten ==
  /\ FixThreaded /\ host.pc = "running"
  /\ host' = [host EXCEPT !.pc = "flagged"]
  /\ UNCHANGED <<fix, venue, marks>>

\* stop(): the flag, then the live socket, then the join.
StopFlag ==
  /\ FixThreaded /\ host.pc = "running"
  /\ host' = [host EXCEPT !.pc = "flagged"]
  /\ fix' = [fix EXCEPT !.stop = TRUE]
  /\ UNCHANGED <<venue, marks>>

\* The clone that is there now is taken and shut down.
StopShutdown ==
  /\ host.pc = "flagged"
  /\ host' = [host EXCEPT !.pc = "joining"]
  /\ fix' = [fix EXCEPT !.shut = fix.handle, !.handle = FALSE]
  /\ UNCHANGED <<venue, marks>>

StopJoin ==
  /\ host.pc = "joining" /\ fix.pc = "gone"
  /\ host' = [host EXCEPT !.pc = "stopped"]
  /\ UNCHANGED <<fix, venue, marks>>

-----------------------------------------------------------------------------
(* The counterparty *)

\* It reads what the node has sent: answers a Logon with its own, and takes a
\* MarketDataRequest once logged in.
PeerReads ==
  LET m == Head(venue.out) IN
  /\ venue.open /\ venue.out # <<>>
  /\ venue' = [venue EXCEPT
       !.out = Tail(@), !.told = m.seq, !.jump = @ \/ m.seq # venue.told + 1,
       !.logged = @ \/ m.kind = "logon",
       !.subs = IF venue.logged /\ m.kind \in FixSymbols THEN @ \cup {m.kind} ELSE @,
       !.in = IF m.kind = "logon" /\ ~ FixAcceptor
              THEN Append(@, [kind |-> "logon", id |-> 0, part |-> "whole"]) ELSE @]
  /\ venue.half = 0
  /\ UNCHANGED <<fix, host, marks>>

\* It sends a message, whole or the first part of it, or the rest of one.
PeerSends ==
  /\ venue.open /\ (venue.logged \/ FixAcceptor)
  /\ MoreInput
  /\ host' = [host EXCEPT !.frags = @ + 1]
  /\ \/ /\ venue.half = 0
        /\ \E k \in FixKinds, part \in {"whole", "first"} :
             venue' = [venue EXCEPT
               !.in = Append(@, [kind |-> k, id |-> host.frags + 1, part |-> part]),
               !.half = IF part = "first" THEN host.frags + 1 ELSE 0]
     \/ /\ venue.half # 0
        /\ venue' = [venue EXCEPT
             !.in = Append(@, [kind |-> "rest", id |-> venue.half, part |-> "rest"]),
             !.half = 0]
  /\ UNCHANGED <<fix, marks>>

\* It closes the connection, also in the middle of a message.
PeerCloses ==
  /\ venue.open
  /\ venue' = [venue EXCEPT !.open = FALSE, !.half = 0, !.out = <<>>, !.logged = FALSE]
  /\ UNCHANGED <<fix, host, marks>>

FixThread ==
  \/ ThreadTop \/ ThreadConnect \/ ThreadAccept \/ ThreadStore \/ ThreadStoreFails
  \/ TlsConnectFails \/ ThreadLogon
  \/ ThreadRead \/ ThreadEof \/ ThreadClosed \/ ThreadExit
FixStopping == StopShutdown \/ StopJoin
FixNext ==
  \/ FixSpinStart \/ SpinAccept \/ SpinInitiatorCycle \/ SpinAcceptorCycle
  \/ FixSenderCycle \/ SpinStop
  \/ ThreadSetup \/ FixThread \/ GraphCycle \/ NewSymbol \/ StopFlag \/ FixStopping
  \/ PeerConnects \/ PeerReads \/ PeerSends \/ PeerCloses

-----------------------------------------------------------------------------
\* On every connection the messages of the threaded nodes, of the polling
\* initiator and of the sender carry 1, 2, 3, ... , Logon first, whatever the
\* interleaving of answers, injected requests and reconnects: the counterparty
\* is told to reset with each Logon.  `jump` is set when it reads another one.
SequenceNumbersRestart ==
  fix.role # "spin_acc" => ~ venue.jump

\* The graph is given application messages in the order they were sent and none
\* twice, across fragments and reconnects; also by the polling acceptor, which
\* keeps the first part of a message of a lost connection and reads the next
\* connection as its continuation.
DataInOrder ==
  \A i, j \in DOMAIN host.given :
    (i < j /\ host.given[i].status = "Data" /\ host.given[j].status = "Data")
      => host.given[i].id < host.given[j].id

\* split_events gives the graph the data and the statuses as two streams: two
\* statuses are neighbours in theirs when only data is between them.
Neighbours(s, i, j) ==
  /\ i < j /\ s[i].status # "Data" /\ s[j].status # "Data"
  /\ \A k \in (i + 1) .. (j - 1) : s[k].status = "Data"

\* The status stream tells one session from the next: between two LoggingIn
\* there is a Disconnected, and LoggedIn never follows Disconnected without a
\* LoggingIn.
SessionsTold ==
  LET st == host.given
  IN  \A i, j \in DOMAIN st : Neighbours(st, i, j) =>
        /\ st[i].status \in {"LoggingIn", "LoggedIn", "LoggedOut"} => st[j].status # "LoggingIn"
        /\ st[i].status = "Disconnected" => st[j].status \in {"LoggingIn", "Error", "End"}

\* Nothing is under way between the graph, the thread and the counterparty.
FixQuiet ==
  /\ fix.role = "thread_tls" /\ host.pc = "running" /\ fix.pc = "read"
  /\ fix.chan = <<>> /\ fix.inject = <<>>
  /\ venue.open /\ venue.logged /\ venue.in = <<>> /\ venue.out = <<>>
  /\ marks.logged_in

\* "Symbols that arrive before logon are queued and subscribed automatically
\* once the session is ready": in the first session every symbol asked for is
\* subscribed at the counterparty once nothing is under way, as long as the
\* inject queue has room for all of them.
SymbolsSubscribed ==
  (FixQuiet /\ venue.n = 1 /\ Cardinality(FixSymbols) <= InjectCapacity)
    => marks.wanted \subseteq venue.subs

\* A session is one session: its numbers, its messages, what its status stream
\* tells and what it asked for do not mix with those of the session before, but
\* for three things its parts except.  The polling acceptor goes on with the
\* numbers and with the half message of the connection before.  A symbol that
\* finds the inject queue full is never asked for.  And a session after the
\* first one asks for no symbol of the sessions before, although the comment at
\* the reconnect says that a resubscribe keyed on `LoggedIn` re-arms.
FixSessions == SequenceNumbersRestart /\ DataInOrder /\ SessionsTold /\ SymbolsSubscribed

\* stop() returns, also across a reconnect, while an accept polls and after a
\* connect or a bind that fails: except when the thread publishes a new socket
\* after stop() has looked for it.
FixStops == (host.pc = "flagged") ~> (host.pc = "stopped" \/ fix.late)

\* "The stop flag is checked at the loop top, so `stop()` still ends the thread
\* promptly."
FixStopsAlways == (host.pc = "flagged") ~> (host.pc = "stopped")
=============================================================================
