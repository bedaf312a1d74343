----------------------------- MODULE WebAdapter -----------------------------
(***************************************************************************)
(* The web adapter (adapters/web) and its browser client (wingfoil-js):    *)
(* the graph publishes topics to a server, which forwards them over one    *)
(* WebSocket per connection; the page publishes to the graph the other     *)
(* way.  Frames are numbered in the order they are published.              *)
(*                                                                         *)
(* A client has one socket at a time and takes a new one after an abnormal *)
(* close; the server may notice the end of the old one later, so several   *)
(* connections can be live on its side.                                    *)
(***************************************************************************)
EXTENDS Integers, Sequences, FiniteSets, SequencesExt

CONSTANTS
  WebTopics,         \* topics of web_pub
  WebListeners,      \* listeners of the page: records [topic, kind, id]
  BroadcastCapacity, \* PUBLISH_BROADCAST_CAPACITY
  OutboundCapacity,  \* CONNECTION_OUTBOUND_CAPACITY
  ListenerCapacity,  \* SUBSCRIBE_MPSC_CAPACITY
  MaxSockets,        \* bound: sockets a client opens
  MaxFrames,         \* bound: frames of a topic
  MaxPublishes,      \* bound: values the page publishes
  MaxPageCalls       \* bound: subscribe and unsubscribe calls of the page

ASSUME WebAssumption ==
  /\ \A l \in WebListeners : l.topic \in WebTopics /\ l.kind \in {"scalar", "burst"}
  /\ {BroadcastCapacity, OutboundCapacity, ListenerCapacity, MaxSockets} \subseteq Nat \ {0}
  /\ {MaxFrames, MaxPublishes, MaxPageCalls} \subseteq Nat

VARIABLES
  web,      \* WebServer, its topics, web_pub and web_sub
  sockets,  \* each connection: its two directions and the server's tasks
  client,   \* WingfoilClient
  page      \* the page, which listens to topics or publishes to the graph, and
            \* what its listeners and the graph have been given

webVars == <<web, sockets, client, page>>

Ids == 1..MaxSockets

WebInit ==
  /\ web = [server |-> "none", sent |-> [t \in WebTopics |-> 0], ended |-> {},
            queue |-> <<>>, listening |-> TRUE]
  /\ sockets = [c \in Ids |-> [page |-> "none", task |-> "none", up |-> <<>>, down |-> <<>>,
                               out |-> <<>>, forwarders |-> {},
                               tasks |-> [t \in WebTopics |-> <<>>]]]
  /\ client = [wasm |-> FALSE, closed |-> FALSE, finished |-> FALSE, timer |-> FALSE,
               socket |-> 0, opened |-> 0, listeners |-> {}]
  /\ \E role \in {"views", "sends"} :
       page = [role |-> role, got |-> [t \in WebTopics |-> <<>>], taken |-> <<>>,
               published |-> 0, calls |-> 0]

Frame(t, n) == [type |-> "data", topic |-> t, n |-> n]
CompleteFrame(t) == [type |-> "complete", topic |-> t, n |-> 0]
Hello == [type |-> "hello", topic |-> "", n |-> 0]

-----------------------------------------------------------------------------
(* The graph's side *)

\* The broadcast channel keeps the newest frames for each receiver.
Broadcast(t, frame) ==
  [c \in Ids |-> [sockets[c] EXCEPT !.tasks[t] =
     [x \in DOMAIN @ |-> LET q == Append(@[x], frame)
                         IN IF Len(q) > BroadcastCapacity THEN Tail(q) ELSE q]]]

\* start(): the address is bound and the thread spawned, or neither.
WebStart ==
  /\ web.server = "none"
  /\ \E server \in {"running", "failed"} : web' = [web EXCEPT !.server = server]
  /\ UNCHANGED <<sockets, client, page>>

\* start_historical(): a server that binds nothing.
WebStartHistorical ==
  /\ web.server = "none"
  /\ web' = [web EXCEPT !.server = "noop", !.listening = FALSE]
  /\ UNCHANGED <<sockets, client, page>>

\* web_pub: a value of the upstream, sent to whoever is subscribed.
WebPub(t) ==
  /\ web.server # "none" /\ t \notin web.ended /\ web.sent[t] < MaxFrames
  /\ web' = [web EXCEPT !.sent[t] = @ + 1]
  /\ sockets' = Broadcast(t, Frame(t, web.sent[t] + 1))
  /\ UNCHANGED <<client, page>>

\* The upstream ends: the Complete frame rides on the topic's channel.
WebPubEnd(t) ==
  /\ web.server # "none" /\ t \notin web.ended
  /\ web' = [web EXCEPT !.ended = @ \cup {t}]
  /\ sockets' = Broadcast(t, CompleteFrame(t))
  /\ UNCHANGED <<client, page>>

\* web_sub: the graph takes the next payload of its listener.
WebSubTake ==
  /\ web.listening /\ web.queue # <<>>
  /\ page' = [page EXCEPT !.taken = Append(@, Head(web.queue))]
  /\ web' = [web EXCEPT !.queue = Tail(@)]
  /\ UNCHANGED <<sockets, client>>

\* The run ends and drops the receiver of web_sub.
WebSubEnd ==
  /\ web.server # "none" /\ web.listening /\ page.role = "sends"
  /\ web' = [web EXCEPT !.listening = FALSE, !.queue = <<>>]
  /\ UNCHANGED <<sockets, client, page>>

\* stop(): the server's thread is joined, which drops every connection's tasks.
WebStop ==
  /\ web.server = "running"
  /\ web' = [web EXCEPT !.server = "stopped"]
  /\ sockets' = [c \in Ids |-> [sockets[c] EXCEPT
       !.task = IF @ = "none" THEN "none" ELSE "ended", !.forwarders = {}, !.out = <<>>,
       !.tasks = [t \in WebTopics |-> <<>>]]]
  /\ UNCHANGED <<client, page>>

-----------------------------------------------------------------------------
(* The server's side of a connection: handle_socket and its tasks *)

\* The upgrade: the writer task and the Hello frame.
Accept(c) ==
  /\ web.server = "running" /\ sockets[c].page \in {"connecting", "open"} /\ sockets[c].task = "none"
  /\ sockets' = [sockets EXCEPT ![c].task = "reading", ![c].out = <<Hello>>]
  /\ UNCHANGED <<web, client, page>>

FrameArrived(c, type) ==
  /\ sockets[c].task = "reading" /\ sockets[c].up # <<>> /\ Head(sockets[c].up).type = type

\* Subscribe: one forwarder for each topic that has none on this connection.
ServerSubscribe(c) ==
  /\ FrameArrived(c, "subscribe")
  /\ LET fresh == Head(sockets[c].up).topics \ sockets[c].forwarders
     IN sockets' = [sockets EXCEPT
          ![c].up = Tail(@), ![c].forwarders = @ \cup fresh,
          ![c].tasks = [t \in WebTopics |-> IF t \in fresh THEN Append(@[t], <<>>) ELSE @[t]]]
  /\ UNCHANGED <<web, client, page>>

\* A wrong form of ServerUnsubscribe: the task is forgotten and not aborted.
ServerUnsubscribeDetaches(c) ==
  /\ FrameArrived(c, "unsubscribe")
  /\ sockets' = [sockets EXCEPT ![c].up = Tail(@),
                                ![c].forwarders = @ \ Head(sockets[c].up).topics]
  /\ UNCHANGED <<web, client, page>>

\* Unsubscribe: the forwarder is removed and aborted with what it has not sent.
ServerUnsubscribe(c) ==
  /\ FrameArrived(c, "unsubscribe")
  /\ LET gone == Head(sockets[c].up).topics
     IN sockets' = [sockets EXCEPT
          ![c].up = Tail(@), ![c].forwarders = @ \ gone,
          ![c].tasks = [t \in WebTopics |-> IF t \in gone THEN <<>> ELSE @[t]]]
  /\ UNCHANGED <<web, client, page>>

\* dispatch_client_payload: a full listener loses the frame, a closed one is removed.
Dispatch(c) ==
  /\ FrameArrived(c, "data")
  /\ web' = IF web.listening /\ Len(web.queue) < ListenerCapacity
            THEN [web EXCEPT !.queue = Append(@, [socket |-> c, n |-> Head(sockets[c].up).n])]
            ELSE web
  /\ sockets' = [sockets EXCEPT ![c].up = Tail(@)]
  /\ UNCHANGED <<client, page>>

\* forward_broadcast: the next frame of a task's receiver, lost when the
\* connection's queue is full.
Forward(c, t) ==
  \E x \in DOMAIN sockets[c].tasks[t] :
    /\ sockets[c].tasks[t][x] # <<>>
    /\ sockets' = [sockets EXCEPT
         ![c].tasks[t][x] = Tail(@),
         ![c].out = IF Len(@) < OutboundCapacity THEN Append(@, Head(sockets[c].tasks[t][x])) ELSE @]
    /\ UNCHANGED <<web, client, page>>

\* The writer task; a frame written to a socket the page has left is lost.
Write(c) ==
  /\ sockets[c].task \in {"reading", "draining"} /\ sockets[c].out # <<>>
  /\ sockets' = [sockets EXCEPT ![c].out = Tail(@),
                  ![c].down = IF sockets[c].page = "open" THEN Append(@, Head(sockets[c].out)) ELSE @]
  /\ UNCHANGED <<web, client, page>>

\* The socket ends or fails: the forwarders are aborted, what is not read is lost.
ReaderEnds(c) ==
  /\ sockets[c].task = "reading" /\ sockets[c].page = "closed"
  /\ sockets' = [sockets EXCEPT ![c].task = "draining", ![c].up = <<>>, ![c].forwarders = {},
                                ![c].tasks = [t \in WebTopics |-> <<>>]]
  /\ UNCHANGED <<web, client, page>>

\* The writer has drained its queue and closes the socket.
WriterEnds(c) ==
  /\ sockets[c].task = "draining" /\ sockets[c].out = <<>>
  /\ sockets' = [sockets EXCEPT ![c].task = "ended"]
  /\ UNCHANGED <<web, client, page>>

-----------------------------------------------------------------------------
(* The client *)

Connected(cl) == cl.socket # 0 /\ sockets[cl.socket].page = "open"

\* sendSubscribe, sendUnsubscribe and publish: nothing is sent unless the
\* socket is open.
Sending(cl, messages) ==
  IF Connected(cl) THEN [sockets EXCEPT ![cl.socket].up = @ \o messages] ELSE sockets

Control(type, topics) == <<[type |-> type, topics |-> topics]>>

HasTopicListener(listeners, t) == \E l \in listeners : l.topic = t

SubscribedTopics(listeners) == {l.topic : l \in listeners}

\* boot(): the wasm module is loaded, then connect().
Boot ==
  /\ ~client.wasm
  /\ client' = [client EXCEPT !.wasm = TRUE, !.timer = TRUE]
  /\ UNCHANGED <<web, sockets, page>>

\* connect(): nothing once the client is closed.
Connect ==
  /\ client.timer
  /\ IF client.closed
     THEN client' = [client EXCEPT !.timer = FALSE] /\ UNCHANGED sockets
     ELSE /\ client.opened < MaxSockets
          /\ client' = [client EXCEPT !.timer = FALSE, !.opened = @ + 1, !.socket = client.opened + 1]
          /\ sockets' = [sockets EXCEPT ![client.opened + 1].page = "connecting"]
  /\ UNCHANGED <<web, page>>

\* The open event: every topic with a listener is subscribed again.
Opened(c) ==
  /\ sockets[c].page = "connecting" /\ sockets[c].task = "reading"
  /\ LET topics == SubscribedTopics(client.listeners)
     IN sockets' = [sockets EXCEPT ![c].page = "open",
                      ![c].up = IF topics = {} THEN @ ELSE @ \o Control("subscribe", topics)]
  /\ UNCHANGED <<web, client, page>>

\* The first listener of a topic asks the server for it.
AddListener(l) ==
  /\ page.role = "views" /\ page.calls < MaxPageCalls
  /\ client' = [client EXCEPT !.listeners = @ \cup {l}]
  /\ sockets' = IF HasTopicListener(client.listeners, l.topic) THEN sockets
                ELSE Sending(client, Control("subscribe", {l.topic}))
  /\ page' = [page EXCEPT !.calls = @ + 1]
  /\ UNCHANGED web

\* Nothing when the topic has no listener of this kind; the server is told when
\* it has no listener left of either.
RemoveListener(l) ==
  /\ page.role = "views" /\ page.calls < MaxPageCalls
  /\ \E k \in client.listeners : k.topic = l.topic /\ k.kind = l.kind
  /\ LET rest == client.listeners \ {l}
     IN /\ client' = [client EXCEPT !.listeners = rest]
        /\ sockets' = IF HasTopicListener(rest, l.topic) THEN sockets
                      ELSE Sending(client, Control("unsubscribe", {l.topic}))
  /\ page' = [page EXCEPT !.calls = @ + 1]
  /\ UNCHANGED web

PageSubscribe(l) == l.kind = "scalar" /\ AddListener(l)
PageUnsubscribe(l) == l.kind = "scalar" /\ RemoveListener(l)
PageSubscribeBurst(l) == l.kind = "burst" /\ AddListener(l)
PageUnsubscribeBurst(l) == l.kind = "burst" /\ RemoveListener(l)

\* publish(): LatencyTracker.send and any other value of the page.
Publish ==
  /\ page.role = "sends" /\ page.published < MaxPublishes
  /\ page' = [page EXCEPT !.published = @ + 1]
  /\ sockets' = Sending(client, <<[type |-> "data", n |-> page.published + 1]>>)
  /\ UNCHANGED <<web, client>>

Arrives(c, type) ==
  /\ sockets[c].page = "open" /\ sockets[c].down # <<>> /\ Head(sockets[c].down).type = type
  /\ sockets' = [sockets EXCEPT ![c].down = Tail(@)]

\* onMessage: a frame of a topic without listeners is dropped.
OnMessage(c) ==
  /\ Arrives(c, "data")
  /\ LET f == Head(sockets[c].down)
     IN page' = IF HasTopicListener(client.listeners, f.topic)
                THEN [page EXCEPT !.got[f.topic] = Append(@, f.n)] ELSE page
  /\ UNCHANGED <<web, client>>

\* handleControl: Hello tells the version to the connection listeners.
HandleHello(c) ==
  /\ Arrives(c, "hello")
  /\ UNCHANGED <<web, client, page>>

\* handleComplete: the end of any topic's stream ends the reconnecting.
HandleComplete(c) ==
  /\ Arrives(c, "complete")
  /\ client' = [client EXCEPT !.finished = TRUE]
  /\ UNCHANGED <<web, page>>

\* close(): the client keeps no socket and never connects again.
ClientClose ==
  /\ ~client.closed
  /\ client' = [client EXCEPT !.closed = TRUE, !.socket = 0]
  /\ sockets' = IF client.socket = 0 THEN sockets
                ELSE [sockets EXCEPT ![client.socket].page =
                        IF @ \in {"connecting", "open"} THEN "closed" ELSE @,
                      ![client.socket].down = <<>>]
  /\ UNCHANGED <<web, page>>

ShouldReconnect(clean) == ~(client.closed \/ client.finished \/ clean)

\* The close event of the socket: the server has ended it, cleanly or not, the
\* network has dropped it, or it could not be opened.
SocketClosed(c) ==
  /\ sockets[c].page \in {"connecting", "open"}
  /\ \E clean \in BOOLEAN :
       /\ clean => sockets[c].task = "ended" /\ sockets[c].down = <<>>
       /\ client' = [client EXCEPT !.timer = ShouldReconnect(clean)]
  /\ sockets' = [sockets EXCEPT ![c].page = "closed", ![c].down = <<>>]
  /\ UNCHANGED <<web, page>>

-----------------------------------------------------------------------------
WebNext ==
  \/ \E t \in WebTopics : WebPub(t) \/ WebPubEnd(t)
  \/ WebStart \/ WebStartHistorical \/ WebSubTake \/ WebSubEnd \/ WebStop
  \/ \E c \in Ids : \/ Accept(c) \/ ServerSubscribe(c) \/ ServerUnsubscribe(c) \/ Dispatch(c)
                    \/ \E t \in WebTopics : Forward(c, t)
                    \/ Write(c) \/ ReaderEnds(c) \/ WriterEnds(c)
                    \/ Opened(c) \/ OnMessage(c) \/ HandleHello(c) \/ HandleComplete(c)
                    \/ SocketClosed(c)
  \/ Boot \/ Connect \/ Publish \/ ClientClose
  \/ \E l \in WebListeners : \/ PageSubscribe(l) \/ PageUnsubscribe(l)
                             \/ PageSubscribeBurst(l) \/ PageUnsubscribeBurst(l)

-----------------------------------------------------------------------------
Increasing(s) == \A x, y \in 1..Len(s) : x < y => s[x] < s[y]

\* However the page subscribes, unsubscribes and reconnects, a listener is
\* given the frames of its topic in the order web_pub sent them and none of
\* them twice, and the graph is given the values of one socket in the order
\* the page published them.  Frames may be lost: every queue on the way is
\* bounded and drops.
FramesOnce ==
  /\ \A t \in WebTopics : Increasing(page.got[t])
  /\ \A x, y \in 1..Len(page.taken) :
       x < y /\ page.taken[x].socket = page.taken[y].socket => page.taken[x].n < page.taken[y].n

\* Once the control frames of an open socket have been read, the server runs
\* exactly one forwarder for each topic with a listener on the page, and none
\* for any other topic: no live listener is forgotten over a reconnect, and no
\* idle topic is still sent.
ForwardersMatch ==
  \A c \in Ids :
    (sockets[c].page = "open" /\ sockets[c].task = "reading"
     /\ \A x \in 1..Len(sockets[c].up) : sockets[c].up[x].type = "data")
    => /\ sockets[c].forwarders = SubscribedTopics(client.listeners)
       /\ \A t \in WebTopics :
            Len(sockets[c].tasks[t]) = IF t \in sockets[c].forwarders THEN 1 ELSE 0

\* The page sees its topics, each frame once.
WebExact == FramesOnce /\ ForwardersMatch
=============================================================================
