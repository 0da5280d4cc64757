------------------------------ MODULE Connection ------------------------------
(***************************************************************************)
(* One user's connections, from the bytes that come to the messages that   *)
(* go (transport/connection.ts, server-common.ts, message-pipeline.ts,     *)
(* dispatch/dispatcher.ts, updates/push.ts): a chunk of bytes may complete *)
(* packets, which wait until those before them are processed; a packet     *)
(* restores the layer of its session, may negotiate another, and is        *)
(* answered; pushed updates go out between, each rendered at the layer its *)
(* connection has at that moment; every message is numbered as it is sent. *)
(*                                                                         *)
(* An await is a point where other connections, pushes and the idle timer  *)
(* run.  Here the user has one auth key and its packets are all accepted:  *)
(* keys, salts, duplicates and subjects are the other modules' subject.    *)
(* Migrations written by the user do not throw.                            *)
(***************************************************************************)
EXTENDS Framing, Rendering

CONSTANTS
    Conns, Sessions,
    Clients,      \* what the clients of the connections may send: a stream each, with in
                  \* .cuts where a chunk of it may end, beside its end
    Updates,      \* the updates that may be pushed, in canonical shape
    Generated,    \* the ids generateId() may return, whatever the clock does
    DefaultLayer, \* config.defaultLayer
    KeyLayer,     \* meta.apiLayer: config.defaultLayer when the key was made
    MaxPushes,    \* bound: updates pushed
    None

(***************************************************************************)
(* A packet: a query; a query in invokeWithLayer or invokeWithoutUpdates;  *)
(* ping_delay_disconnect, with a delay or with 0; or too short for one.    *)
(***************************************************************************)
Packet == [is : {"query", "noUpdates", "short"}] \cup [is : {"withLayer"}, layer : Nat]
          \cup [is : {"ping"}, delay : BOOLEAN]

ASSUME ConnectionAssumption ==
    /\ \A cl \in Clients : DOMAIN cl = Conns /\ \A c \in Conns : LET s == cl[c] IN
        /\ IsStream(s) /\ ToldInTime(s) /\ s.packets \in Seq(Packet) /\ s.session \in Sessions
        /\ s.ws \in BOOLEAN /\ ~(s.ws /\ s.proxied) /\ s.cuts \subseteq Nat
    /\ Updates \subseteq Value({0, Newest})
    /\ \A id \in Generated : id \in Nat /\ id % 8 = 4
    /\ DefaultLayer \in Nat /\ KeyLayer \in Nat
    /\ MaxPushes \in Nat
    /\ None \notin Nat

VARIABLES
    stream,    \* what the client of each connection sends
    received,  \* how many bytes of it have come
    framer,    \* the connection's framer
    waiting,   \* its packets not yet looked at (the enqueue() chain)
    work,      \* the packet in process: the await it is at, what it read
    ctx,       \* layer, noUpdates, the last message id and the seqno counter
    idle,      \* the idle timer: the delay asked for, and whether it is armed
    socket,    \* open; closing once close() was called; closed after the close event
    held,      \* the connections the registry has
    stored,    \* the layer of each stored session
    pushes,    \* how many updates were pushed
    wire,      \* history: what was sent on each connection
    due,       \* history: the pts-bearing updates each connection was due
    agreed     \* history: the layer of the last answered negotiation of a session

conn == <<stream, received, framer>>
vars == <<conn, waiting, work, ctx, idle, socket, held, stored, pushes, wire, due, agreed>>

-----------------------------------------------------------------------------
Nothing == [at |-> "idle", packet |-> None, layer |-> 0, kept |-> None]

Init ==
    /\ stream \in Clients
    /\ received = [c \in Conns |-> 0]
    /\ framer = [c \in Conns |-> NewFramer]
    /\ waiting = [c \in Conns |-> <<>>]
    /\ work = [c \in Conns |-> Nothing]
    /\ ctx = [c \in Conns |-> [layer |-> DefaultLayer, noUpdates |-> FALSE, last |-> None, seq |-> 0]]
    /\ idle = [c \in Conns |-> [delay |-> FALSE, armed |-> FALSE]]
    /\ socket = [c \in Conns |-> "open"]
    /\ held = {}
    /\ stored = [s \in Sessions |-> None]
    /\ pushes = 0
    /\ wire = [c \in Conns |-> <<>>]
    /\ due = [c \in Conns |-> <<>>]
    /\ agreed = [s \in Sessions |-> None]

-----------------------------------------------------------------------------
(***************************************************************************)
(* sendEncrypted(): the message is encoded at the connection's layer and   *)
(* takes an id and a seqno; a closed connection drops it.                  *)
(***************************************************************************)
\* nextMessageId(): after the last id, ending in 3 for notifications, else in 1.
NextId_ClockOnly(last, generated, isNotification) ==
    CHOOSE id \in generated..(generated + 3) : id % 4 = (IF isNotification THEN 3 ELSE 1)

NextId(last, generated, isNotification) ==
    LET from == IF last # None /\ generated <= last THEN last + 1 ELSE generated
    IN CHOOSE id \in from..(from + 3) : id % 4 = (IF isNotification THEN 3 ELSE 1)

Service(name) == [is |-> name, notification |-> FALSE, content |-> FALSE, value |-> None,
                  id |-> 0, seqNo |-> 0, layer |-> 0]
NewSession == [Service("new_session_created") EXCEPT !.notification = TRUE]
Push(v) == [Service("push") EXCEPT !.notification = TRUE, !.value = v]

\* sendRpcResult(): a result in the newest shape is brought down to the client's layer.
Result(x) == [Service("rpc_result") EXCEPT !.content = TRUE, !.value = Down(Newest, x.layer)]

\* A message and the context it leaves, whatever generateId() returned.
Numbered(x, m, generated) ==
    LET id == NextId(x.last, generated, m.notification)
        odd == IF m.content THEN 1 ELSE 0
    IN [ctx |-> [x EXCEPT !.last = id, !.seq = @ + odd],
        message |-> [m EXCEPT !.id = id, !.seqNo = 2 * x.seq + odd, !.layer = x.layer]]

Open(c) == socket[c] = "open"

Written(c, messages) ==
    wire' = IF Open(c) THEN [wire EXCEPT ![c] = @ \o messages] ELSE wire

\* Messages were sent before, in the same turn, and m is; x is the context they left.
Send(c, x, before, m) ==
    \E generated \in Generated :
        LET n == Numbered(x, m, generated)
        IN ctx' = [ctx EXCEPT ![c] = n.ctx] /\ Written(c, Append(before, n.message))

Close(c) ==
    /\ socket' = [socket EXCEPT ![c] = IF @ = "open" THEN "closing" ELSE @]
    /\ idle' = IF Open(c) THEN [idle EXCEPT ![c].armed = FALSE] ELSE idle

-----------------------------------------------------------------------------
(***************************************************************************)
(* Bytes come (pump): whole packets are queued; a framing error closes the *)
(* connection, and the packets of that chunk are lost.  A WebSocket that   *)
(* was closed still takes bytes until the close event.                     *)
(***************************************************************************)
Receive(c) ==
    /\ Open(c) \/ (socket[c] = "closing" /\ stream[c].ws)
    /\ \E n \in {m \in stream[c].cuts : m < Total(stream[c])} \cup {Total(stream[c])} :
        /\ received[c] < n
        /\ received' = [received EXCEPT ![c] = n]
        /\ LET f == Data(stream[c], framer[c], n)
           IN /\ framer' = [framer EXCEPT ![c] = f]
              /\ waiting' = [waiting EXCEPT ![c] =
                                @ \o SubSeq(stream[c].packets, framer[c].read + 1, f.read)]
              /\ IF f.threw THEN Close(c) ELSE UNCHANGED <<socket, idle>>
    /\ UNCHANGED <<stream, work, ctx, held, stored, pushes, wire, due, agreed>>

\* resetDisconnect()
Reset(t) == [t EXCEPT !.armed = t.delay]

Negotiating(c) == work[c].at # "idle" /\ work[c].packet.is = "withLayer"

Peers(c) == {d \in Conns \ {c} : stream[d].session = stream[c].session}

(***************************************************************************)
(* handlePacket(), once the packets before it are done, and the reads of   *)
(* its key and salts: the timer restarts, and a connection still at the    *)
(* default layer takes the key's.  The awaits of the key and of the salts  *)
(* are one step: between them the code changes nothing that is modelled    *)
(* here, and a close or a push in between finds what it finds before or    *)
(* after both.  kept is history: the layer its client agreed for the       *)
(* session, when none of its packets changes it meanwhile.                 *)
(***************************************************************************)
Start(c) ==
    /\ work[c].at = "idle" /\ waiting[c] # <<>>
    /\ waiting' = [waiting EXCEPT ![c] = Tail(@)]
    /\ LET p == Head(waiting[c])
           changing == \E d \in Peers(c) :
               work[d].at = "save" \/ (Negotiating(d) /\ work[d].at \in {"update", "forward"})
       IN IF p.is = "short"
          THEN Close(c) /\ UNCHANGED <<work, ctx>>
          ELSE /\ idle' = [idle EXCEPT ![c] = Reset(@)]
               /\ work' = [work EXCEPT ![c] =
                              [at |-> "get", packet |-> p, layer |-> 0,
                               kept |-> IF changing THEN None ELSE agreed[stream[c].session]]]
               /\ ctx' = IF ctx[c].layer = DefaultLayer
                         THEN [ctx EXCEPT ![c].layer = KeyLayer] ELSE ctx
               /\ UNCHANGED socket
    /\ UNCHANGED <<conn, held, stored, pushes, wire, due, agreed>>

\* ensureSession() has read the session: it touches the one found, or saves one.
GetSession(c) ==
    /\ work[c].at = "get"
    /\ LET layer == stored[stream[c].session]
       IN work' = [work EXCEPT ![c] =
                      IF layer # None THEN [@ EXCEPT !.at = "touch", !.layer = layer]
                                      ELSE [@ EXCEPT !.at = "save"]]
    /\ UNCHANGED <<conn, waiting, ctx, idle, socket, held, stored, pushes, wire, due, agreed>>

(***************************************************************************)
(* The dispatch of the packet, up to its next await: x is the context, and *)
(* before what was sent in the same turn.                                  *)
(***************************************************************************)
Forward(c, x) == work' = [work EXCEPT ![c].at = "forward", ![c].layer = x.layer]

Done(c) == work' = [work EXCEPT ![c] = Nothing]

\* History: what the client of the session may rely on changes, or did.
Unsettled(c, w) == [d \in Conns |-> IF d \in Peers(c) THEN [w[d] EXCEPT !.kept = None] ELSE w[d]]

DispatchQuery(c, x, before) ==
    /\ work[c].packet.is \in {"query", "noUpdates"}
    /\ ctx' = [ctx EXCEPT ![c] = [x EXCEPT !.noUpdates = x.noUpdates \/ work[c].packet.is = "noUpdates"]]
    /\ Written(c, before)
    /\ Forward(c, x)
    /\ UNCHANGED idle

DispatchWithLayer(c, x, before) ==
    /\ work[c].packet.is = "withLayer"
    /\ ctx' = [ctx EXCEPT ![c] = [x EXCEPT !.layer = work[c].packet.layer]]
    /\ Written(c, before)
    /\ work' = Unsettled(c, [work EXCEPT ![c].at = "update"])
    /\ UNCHANGED idle

DispatchPing(c, x, before) ==
    /\ work[c].packet.is = "ping"
    /\ idle' = [idle EXCEPT ![c] = Reset([@ EXCEPT !.delay = work[c].packet.delay])]
    /\ Send(c, x, before, Service("pong"))
    /\ Done(c)

Dispatch(c, x, before) ==
    DispatchQuery(c, x, before) \/ DispatchWithLayer(c, x, before) \/ DispatchPing(c, x, before)

\* The layer of the session that was found.
Restored_Ignored(c) == ctx[c].layer
Restored(c) == work[c].layer

TouchSession(c) ==
    /\ work[c].at = "touch"
    /\ held' = held \cup {c}
    /\ Dispatch(c, [ctx[c] EXCEPT !.layer = Restored(c)], <<>>)
    /\ UNCHANGED <<conn, waiting, socket, stored, pushes, due, agreed>>

\* The session is in the storage, whatever was there.
SaveSession(c) ==
    /\ work[c].at = "save"
    /\ stored' = [stored EXCEPT ![stream[c].session] = ctx[c].layer]
    /\ agreed' = [agreed EXCEPT ![stream[c].session] = None]
    /\ work' = Unsettled(c, [work EXCEPT ![c].at = "saved", ![c].kept = None])
    /\ UNCHANGED <<conn, waiting, ctx, idle, socket, held, pushes, wire, due>>

\* It is announced, and the packet dispatched.
Announce(c) ==
    /\ work[c].at = "saved"
    /\ held' = held \cup {c}
    /\ \E generated \in Generated :
        LET n == Numbered(ctx[c], NewSession, generated)
        IN Dispatch(c, n.ctx, <<n.message>>)
    /\ UNCHANGED <<conn, waiting, socket, stored, pushes, due, agreed>>

\* The negotiated layer is stored with the session; the wrapped query goes on.
UpdateSession(c) ==
    /\ work[c].at = "update"
    /\ stored' = [stored EXCEPT ![stream[c].session] = work[c].packet.layer]
    /\ Forward(c, ctx[c])
    /\ UNCHANGED <<conn, waiting, ctx, idle, socket, held, pushes, wire, due, agreed>>

(***************************************************************************)
(* The handler answers; it got the query brought up from work.layer.       *)
(***************************************************************************)
Answer(c) ==
    /\ work[c].at = "forward"
    /\ Send(c, ctx[c], <<>>, Result(ctx[c]))
    /\ agreed' = IF Negotiating(c)
                 THEN [agreed EXCEPT ![stream[c].session] = stored[stream[c].session]] ELSE agreed
    /\ Done(c)
    /\ UNCHANGED <<conn, waiting, idle, socket, held, stored, pushes, due>>

\* The storage rejects an operation it has not done: the packet is dropped.
StorageFails(c) ==
    /\ work[c].at \in {"get", "touch", "save", "update"}
    /\ Done(c)
    /\ UNCHANGED <<conn, waiting, ctx, idle, socket, held, stored, pushes, wire, due, agreed>>

-----------------------------------------------------------------------------
(***************************************************************************)
(* deliverTo(): the update goes to each connection of the user that has    *)
(* not opted out, lowered and rendered for the connection's layer.         *)
(***************************************************************************)
\* The pts of the updates in a value, in their order.
PtsOf(v) == FlattenSeq([i \in DOMAIN v.updates |->
                           IF v.updates[i].pts # 0 THEN <<v.updates[i].pts>> ELSE <<>>])

Deliver(v) ==
    /\ pushes < MaxPushes
    /\ pushes' = pushes + 1
    /\ LET to == {c \in held : ~ctx[c].noUpdates}
           given(c) == Rendered(Lowered(v, ctx[c].layer), ctx[c].layer)
           served == {c \in to : given(c) # {}}
       IN \E generated \in [served -> Generated], body \in [served -> UNION {given(c) : c \in served}] :
            LET n(c) == Numbered(ctx[c], Push(body[c]), generated[c])
            IN /\ \A c \in served : body[c] \in given(c)
               /\ ctx' = [c \in Conns |-> IF c \in served THEN n(c).ctx ELSE ctx[c]]
               /\ wire' = [c \in Conns |-> IF c \in served /\ Open(c)
                                           THEN Append(wire[c], n(c).message) ELSE wire[c]]
               /\ due' = [c \in Conns |-> IF c \in to /\ Open(c)
                                          THEN due[c] \o PtsOf(v) ELSE due[c]]
    /\ UNCHANGED <<conn, waiting, work, idle, socket, held, stored, agreed>>

\* The idle timer runs out: close().
IdleTimeout(c) ==
    /\ idle[c].armed
    /\ idle' = [idle EXCEPT ![c].armed = FALSE]
    /\ socket' = [socket EXCEPT ![c] = IF @ = "open" THEN "closing" ELSE @]
    /\ UNCHANGED <<conn, waiting, work, ctx, held, stored, pushes, wire, due, agreed>>

\* The socket's close event, whoever closed it: the connection is unbound.
SocketClose(c) ==
    /\ socket[c] # "closed"
    /\ socket' = [socket EXCEPT ![c] = "closed"]
    /\ held' = held \ {c}
    /\ UNCHANGED <<conn, waiting, work, ctx, idle, stored, pushes, wire, due, agreed>>

Process(c) ==
    \/ Start(c) \/ GetSession(c) \/ TouchSession(c) \/ SaveSession(c) \/ Announce(c)
    \/ UpdateSession(c) \/ Answer(c) \/ StorageFails(c)

Next ==
    \/ \E c \in Conns : Receive(c) \/ Process(c) \/ IdleTimeout(c) \/ SocketClose(c)
    \/ \E v \in Updates : Deliver(v)

Spec == Init /\ [][Next]_vars

-----------------------------------------------------------------------------
Places == {"idle", "get", "touch", "save", "saved", "update", "forward"}

TypeOK ==
    /\ stream \in Clients
    /\ received \in [Conns -> Nat]
    /\ framer \in [Conns -> Framer]
    /\ waiting \in [Conns -> Seq(Packet)]
    /\ work \in [Conns -> [at : Places, packet : Packet \cup {None}, layer : Nat, kept : Nat \cup {None}]]
    /\ \A c \in Conns :
        /\ work[c].at # "idle" => work[c].packet \in Packet
        /\ work[c].at = "update" => work[c].packet.is = "withLayer"
    /\ ctx \in [Conns -> [layer : Nat, noUpdates : BOOLEAN, last : Nat \cup {None}, seq : Nat]]
    /\ idle \in [Conns -> [delay : BOOLEAN, armed : BOOLEAN]]
    /\ socket \in [Conns -> {"open", "closing", "closed"}]
    /\ held \subseteq Conns
    /\ stored \in [Sessions -> Nat \cup {None}] /\ agreed \in [Sessions -> Nat \cup {None}]
    /\ pushes \in 0..MaxPushes

\* However the bytes are cut into chunks, the packets that were read are those that
\* are whole in what has come: a header, an opening or a packet in pieces loses
\* nothing, and nothing is read twice.  (parseProxyHeader, Framing.feed)
ChunksDoNotMatter ==
    \A c \in Conns : ~framer[c].threw => framer[c].read = WholeIn(stream[c], received[c])

\* On a connection message ids increase, their low bits tell notifications from
\* answers, and a seqno is twice the content-related messages before it, odd for one
\* of them: whatever the clock does, and however pushes fall between answers.
WireNumbered ==
    \A c \in Conns : \A i \in DOMAIN wire[c] :
        LET m == wire[c][i]
            before == {j \in 1..(i - 1) : wire[c][j].content}
        IN /\ \A j \in 1..(i - 1) : wire[c][j].id < m.id
           /\ m.id % 4 = (IF m.notification THEN 3 ELSE 1)
           /\ m.seqNo = 2 * Cardinality(before) + (IF m.content THEN 1 ELSE 0)

\* The handler gets the newest shape of a query: a client that sends the shape of the
\* layer it agreed for its session, on whichever connection, is understood as such.
\* (invokeWithLayer, ensureSession, MigrationRegistry.up)
HandlerSeesNewest ==
    \A c \in Conns : work[c].at = "forward" =>
        LET p == work[c].packet
            sent == IF p.is = "withLayer" THEN p.layer ELSE work[c].kept
        IN sent # None => Up(StartRung(sent), work[c].layer) = Newest

\* What is sent has the shape the schema of the connection's layer was made of: the
\* migrations and the encoder, which find it in different ways, agree.
Shapes(m) ==
    CASE m.is = "rpc_result" -> {m.value}
      [] m.is = "push" -> {m.value.updates[i].shape : i \in DOMAIN m.value.updates} \ {0}
      [] OTHER -> {}

ShapeIn(snapshot) == Cardinality({i \in DOMAIN Rungs : Rungs[i] <= snapshot})

ShapesFit ==
    \A c \in Conns : \A i \in DOMAIN wire[c] :
        Shapes(wire[c][i]) \subseteq {ShapeIn(ResolveLayer(wire[c][i].layer))}

\* A client that counts the pts of what it is sent misses none: each pts-bearing update
\* pushed while it was connected came, as it is or as updateUnsupported, in order.
PtsAccounted ==
    \A c \in Conns :
        due[c] = FlattenSeq([i \in DOMAIN wire[c] |->
                    IF wire[c][i].is = "push" THEN PtsOf(wire[c][i].value) ELSE <<>>])
=============================================================================
