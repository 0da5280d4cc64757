--------------------------- MODULE UpdateDelivery ---------------------------
(***************************************************************************)
(* Server push: an update is published on the bus, every process that runs *)
(* an update router looks its target up in the presence map and sends it   *)
(* to the nodes found there, and those push it to their local connections  *)
(* (packages/server/src/updates, gateway.ts, bootstrap.ts, with the        *)
(* connection registry).  This is the Redis deployment: presence is one    *)
(* sorted set per target, a node's entry scored with its expiry and        *)
(* refreshed by the node's heartbeat, and the bus is Redis pub/sub.        *)
(*                                                                         *)
(* A process sends its presence commands over one connection to Redis,     *)
(* which runs them in that order; the registry changes at once, presence   *)
(* when the command runs, without anybody waiting for it, and a command    *)
(* that fails is forgotten.                                                *)
(*                                                                         *)
(* Times are relative: an entry holds the seconds it has left, so that     *)
(* there is no clock to bound.  The expiry of a whole set (pexpire, twice  *)
(* the TTL) is left out: it only removes sets whose entries have expired.  *)
(***************************************************************************)
EXTENDS Integers, Sequences, FiniteSets, SequencesExt

CONSTANTS
    Nodes, Conns, Subjects, Keys,
    NodeOf,        \* the node that holds a connection
    Routers,       \* the nodes whose process runs a router
    TTL,           \* updates.presenceTtlMs
    MinPeriod,     \* the heartbeat's least period (5 s)
    MaxLost,       \* bound: presence commands that fail
    MaxEvents,     \* bound: what clients and crashes do in one second
    MaxUpdates,    \* bound: updates published
    OptingOut,     \* the connections whose clients may opt out of updates
    Renderings,    \* what rendering an update may come to, connection by connection
    None           \* no subject, no key

Targets == Subjects \cup Keys

\* Rendered and sent; not in the connection's layer, or the send fails; rendering throws.
Outcome == {"sent", "skipped", "thrown"}

ASSUME DeliveryAssumption ==
    /\ NodeOf \in [Conns -> Nodes]
    /\ Routers \subseteq Nodes
    /\ TTL \in Nat \ {0} /\ MinPeriod \in Nat \ {0}
    /\ MaxLost \in Nat /\ MaxEvents \in Nat /\ MaxUpdates \in Nat
    /\ OptingOut \subseteq Conns /\ Renderings \subseteq [Conns -> Outcome]
    /\ IsFiniteSet(Targets)
    /\ Subjects \cap Keys = {} /\ None \notin Targets

VARIABLES
    alive,      \* the nodes that run
    socket,     \* of each connection: open, closed, or done with its packets too
    noUpdates,  \* the connections whose client opted out (ctx.noUpdates)
    regSubject, \* registry: the subject a connection is held under
    regKey,     \* registry: the auth key recorded for a connection
    keyConns,   \* registry: the connections held under each auth key
    presence,   \* Redis: the seconds left of each target's entry for each node
    commands,   \* the presence commands of each node not run yet
    beat,       \* seconds to each node's next heartbeat
    routerIn,   \* updates on their way to each router
    nodeIn,     \* routed deliveries on their way to each node
    published,  \* the targets of the updates published, in order
    renders,    \* what rendering each of them comes to
    got,        \* history: what was sent to each connection, and by which router
    lost,       \* how many presence commands failed
    events,     \* what clients and crashes did in this second
    confirmed   \* history: an entry was written since the node holds the target

registry == <<regSubject, regKey, keyConns>>
bus == <<routerIn, nodeIn, published, renders, got>>
vars == <<alive, socket, noUpdates, registry, presence, commands, beat, bus, lost, events,
          confirmed>>

-----------------------------------------------------------------------------
Period == IF TTL \div 3 > MinPeriod THEN TTL \div 3 ELSE MinPeriod

Command(cmd, t) == [cmd |-> cmd, target |-> t, update |-> 0]
Lookup(cmd, i) == [cmd |-> cmd, target |-> published[i], update |-> i]

Init ==
    /\ alive = Nodes
    /\ socket = [c \in Conns |-> "open"]
    /\ noUpdates = {}
    /\ regSubject = [c \in Conns |-> None]
    /\ regKey = [c \in Conns |-> None]
    /\ keyConns = [k \in Keys |-> {}]
    /\ presence = [t \in Targets |-> [n \in Nodes |-> 0]]
    /\ commands = [n \in Nodes |-> <<>>]
    /\ beat \in [Nodes -> 1..Period]
    /\ routerIn = [n \in Nodes |-> <<>>]
    /\ nodeIn = [n \in Nodes |-> <<>>]
    /\ published = <<>>
    /\ renders = <<>>
    /\ got = [c \in Conns |-> <<>>]
    /\ lost = 0
    /\ events = 0
    /\ confirmed = [t \in Targets |-> [n \in Nodes |-> FALSE]]

-----------------------------------------------------------------------------
(***************************************************************************)
(* The registry and the binder.                                            *)
(***************************************************************************)
Local(n) == {c \in Conns : NodeOf[c] = n}

Listed(t) == IF t \in Keys THEN keyConns[t] ELSE {c \in Conns : regSubject[c] = t}

\* The connections of node n the registry holds under target t.
Held(n, t) == Listed(t) \cap Local(n)

\* confirmed is history: what n ceases to hold is not confirmed any more.
Forget(n) ==
    confirmed' = [t \in Targets |->
                     [confirmed[t] EXCEPT ![n] = @ /\ Held(n, t)' # {}]]

Event == events < MaxEvents /\ events' = events + 1
Send(n, cmds) == commands' = [commands EXCEPT ![n] = @ \o cmds]

\* bind() is a no-op for the subject the connection is held under already.
BindCommands(c, s) == IF s \in {None, regSubject[c]} THEN <<>> ELSE <<Command("add", s)>>

Registered(c, s) == IF s = None THEN regSubject ELSE [regSubject EXCEPT ![c] = s]

\* handleEncrypted: a packet of key k, whose session has subject s, is processed
\* (one that was waiting is processed also after the socket has closed).
Packet(c, k, s) ==
    LET n == NodeOf[c]
    IN /\ n \in alive
       /\ socket[c] # "done"
       /\ socket' = IF socket[c] = "closed" THEN [socket EXCEPT ![c] = "done"] ELSE socket
       /\ Event
       /\ regKey' = [regKey EXCEPT ![c] = k]
       /\ keyConns' = IF regKey[c] = k THEN keyConns ELSE [keyConns EXCEPT ![k] = @ \cup {c}]
       /\ regSubject' = Registered(c, s)
       /\ Send(n, <<Command("add", k)>> \o BindCommands(c, s))
       /\ UNCHANGED <<alive, noUpdates, presence, beat, bus, lost>>
       /\ Forget(n)

\* The effect bindUser.
Login(c, s) ==
    LET n == NodeOf[c]
    IN /\ n \in alive
       /\ socket[c] = "open" /\ regKey[c] # None
       /\ Event
       /\ regSubject' = Registered(c, s)
       /\ Send(n, BindCommands(c, s))
       /\ UNCHANGED <<alive, socket, noUpdates, regKey, keyConns, presence, beat, bus, lost>>
       /\ Forget(n)

\* unbind(): the presence of a target goes with the node's last connection of it.
Released_Always(c) == {regSubject[c], regKey[c]} \ {None}
Released(c) ==
    {t \in {regSubject[c], regKey[c]} \ {None} : Held(NodeOf[c], t) = {c}}

Unbind(c) ==
    /\ Event
    /\ regSubject' = [regSubject EXCEPT ![c] = None]
    /\ regKey' = [regKey EXCEPT ![c] = None]
    /\ keyConns' = IF regKey[c] = None THEN keyConns
                   ELSE [keyConns EXCEPT ![regKey[c]] = @ \ {c}]
    /\ Send(NodeOf[c], SetToSeq({Command("remove", t) : t \in Released(c)}))
    /\ Forget(NodeOf[c])

\* The effect unbindUser.
Logout(c) ==
    /\ NodeOf[c] \in alive
    /\ socket[c] = "open" /\ regKey[c] # None
    /\ Unbind(c)
    /\ UNCHANGED <<alive, socket, noUpdates, presence, beat, bus, lost>>

\* A request wrapped in invokeWithoutUpdates; nothing takes it back.
OptOut(c) ==
    /\ NodeOf[c] \in alive
    /\ socket[c] = "open" /\ regKey[c] # None
    /\ c \in OptingOut
    /\ Event
    /\ noUpdates' = noUpdates \cup {c}
    /\ UNCHANGED <<alive, socket, registry, presence, commands, beat, bus, lost, confirmed>>

\* The close event of the carrier.
Close(c) ==
    /\ NodeOf[c] \in alive
    /\ socket[c] = "open"
    /\ socket' = [socket EXCEPT ![c] = "closed"]
    /\ Unbind(c)
    /\ UNCHANGED <<alive, noUpdates, presence, beat, bus, lost>>

-----------------------------------------------------------------------------
(***************************************************************************)
(* Heartbeat: the node writes its entry for everything it holds.           *)
(***************************************************************************)
Refreshed_SubjectsOnly(n) == {s \in Subjects : Held(n, s) # {}}
Refreshed(n) == {t \in Targets : Held(n, t) # {}}

Heartbeat(n) ==
    /\ n \in alive
    /\ beat[n] = 0
    /\ beat' = [beat EXCEPT ![n] = Period]
    /\ Send(n, SetToSeq({Command("add", t) : t \in Refreshed(n)}))
    /\ UNCHANGED <<alive, socket, noUpdates, registry, presence, bus, lost, events, confirmed>>

(***************************************************************************)
(* Redis runs the next command of node n: zadd, zrem, or one of the two    *)
(* commands of a lookup, which drops what has expired and then reads the   *)
(* rest.  The router sends the update to the nodes it read.                *)
(***************************************************************************)
Rest(n) == [commands EXCEPT ![n] = Tail(@)]
Confirms(n, t) == Command("remove", t) \notin ToSet(Tail(commands[n])) /\ Held(n, t) # {}

RunAdd(n) ==
    LET t == Head(commands[n]).target
    IN /\ Head(commands[n]).cmd = "add"
       /\ presence' = [presence EXCEPT ![t][n] = TTL]
       /\ confirmed' = [confirmed EXCEPT ![t][n] = @ \/ Confirms(n, t)]
       /\ commands' = Rest(n)
       /\ UNCHANGED nodeIn

RunRemove(n) ==
    /\ Head(commands[n]).cmd = "remove"
    /\ presence' = [presence EXCEPT ![Head(commands[n]).target][n] = 0]
    /\ commands' = Rest(n)
    /\ UNCHANGED <<confirmed, nodeIn>>

\* Entries with no time left are not there any more.
RunPrune(n) ==
    /\ Head(commands[n]).cmd = "prune"
    /\ commands' = [commands EXCEPT ![n] = Append(Tail(@), Lookup("range", Head(@).update))]
    /\ UNCHANGED <<presence, confirmed, nodeIn>>

Queued_First(q, d) == <<d>> \o q
Queued(q, d) == Append(q, d)

Fresh(left) == left > 0

RunRange(n) ==
    LET i == Head(commands[n]).update
        holders == {m \in alive : Fresh(presence[published[i]][m])}
    IN /\ Head(commands[n]).cmd = "range"
       /\ nodeIn' = [m \in Nodes |-> IF m \in holders
                                     THEN Queued(nodeIn[m], [update |-> i, router |-> n])
                                     ELSE nodeIn[m]]
       /\ commands' = Rest(n)
       /\ UNCHANGED <<presence, confirmed>>

Run(n) ==
    /\ commands[n] # <<>>
    /\ RunAdd(n) \/ RunRemove(n) \/ RunPrune(n) \/ RunRange(n)
    /\ UNCHANGED <<alive, socket, noUpdates, registry, beat, routerIn, published, renders, got, lost,
                   events>>

\* The command fails: the binder's are forgotten, a lookup ends the routing.
Fail(n) ==
    /\ commands[n] # <<>>
    /\ lost < MaxLost
    /\ lost' = lost + 1
    /\ commands' = Rest(n)
    /\ UNCHANGED <<alive, socket, noUpdates, registry, presence, beat, bus, events, confirmed>>

-----------------------------------------------------------------------------
(***************************************************************************)
(* Redis pub/sub hands an update to every subscriber, that is to every     *)
(* router.  How the update will render on a connection is settled here:    *)
(* connections keep their layers until it is delivered.                    *)
(***************************************************************************)
Publish(t) ==
    /\ Len(published) < MaxUpdates
    /\ published' = Append(published, t)
    /\ \E r \in Renderings : renders' = Append(renders, r)
    /\ routerIn' = [n \in Nodes |-> IF n \in Routers \cap alive
                                    THEN Append(routerIn[n], Len(published) + 1)
                                    ELSE routerIn[n]]
    /\ UNCHANGED <<alive, socket, noUpdates, registry, presence, commands, beat, nodeIn, got, lost,
                   events, confirmed>>

\* The router starts the lookup.
Route(n) ==
    /\ routerIn[n] # <<>>
    /\ Send(n, <<Lookup("prune", Head(routerIn[n]))>>)
    /\ routerIn' = [routerIn EXCEPT ![n] = Tail(@)]
    /\ UNCHANGED <<alive, socket, noUpdates, registry, presence, beat, nodeIn, published, renders,
                   got, lost, events, confirmed>>

(***************************************************************************)
(* PushService: the update goes to the node's connections of the target,   *)
(* one after the other, but for those that opted out and those on which it *)
(* renders to nothing.  An exception of the rendering ends the loop: of    *)
(* the others, the connections before that one are served (any of them, as *)
(* the order of the registry's sets is left out).                          *)
(***************************************************************************)
Rendered(n, i, outcome) ==
    {c \in Held(n, published[i]) \ noUpdates : renders[i][c] = outcome}

ServedBy_StopsAtSkipped(n, i) ==
    {S \in SUBSET Rendered(n, i, "sent") :
        Rendered(n, i, "thrown") \cup Rendered(n, i, "skipped") = {} => S = Rendered(n, i, "sent")}
ServedBy(n, i) ==
    {S \in SUBSET Rendered(n, i, "sent") :
        Rendered(n, i, "thrown") = {} => S = Rendered(n, i, "sent")}

Deliver(n) ==
    LET d == Head(nodeIn[n])
    IN /\ nodeIn[n] # <<>>
       /\ \E S \in ServedBy(n, d.update) :
              got' = [c \in Conns |-> IF c \in S THEN Append(got[c], d) ELSE got[c]]
       /\ nodeIn' = [nodeIn EXCEPT ![n] = Tail(@)]
       /\ UNCHANGED <<alive, socket, noUpdates, registry, presence, commands, beat, routerIn,
                      published, renders, lost, events, confirmed>>

-----------------------------------------------------------------------------
\* A process ends, with all it remembers; what it wrote to Redis stays.
Crash(n) ==
    /\ n \in alive
    /\ Event
    /\ alive' = alive \ {n}
    /\ socket' = [c \in Conns |-> IF c \in Local(n) THEN "done" ELSE socket[c]]
    /\ noUpdates' = noUpdates \ Local(n)
    /\ regSubject' = [c \in Conns |-> IF c \in Local(n) THEN None ELSE regSubject[c]]
    /\ regKey' = [c \in Conns |-> IF c \in Local(n) THEN None ELSE regKey[c]]
    /\ keyConns' = [k \in Keys |-> keyConns[k] \ Local(n)]
    /\ commands' = [commands EXCEPT ![n] = <<>>]
    /\ routerIn' = [routerIn EXCEPT ![n] = <<>>]
    /\ nodeIn' = [nodeIn EXCEPT ![n] = <<>>]
    /\ UNCHANGED <<presence, beat, published, renders, got, lost>>
    /\ Forget(n)

\* It starts again under the same nodeId, and clients connect to it.
Restart(n) ==
    /\ n \notin alive
    /\ Event
    /\ alive' = alive \cup {n}
    /\ socket' = [c \in Conns |-> IF c \in Local(n) THEN "open" ELSE socket[c]]
    /\ beat' = [beat EXCEPT ![n] = Period]
    /\ UNCHANGED <<noUpdates, registry, presence, commands, bus, lost, confirmed>>

\* A second passes: no command takes that long, and heartbeats are on time.
Aged_Never(left) == left
Aged(left) == IF left = 0 THEN 0 ELSE left - 1

Tick ==
    /\ \A n \in alive : beat[n] > 0 /\ commands[n] = <<>>
    /\ presence' = [t \in Targets |-> [n \in Nodes |-> Aged(presence[t][n])]]
    /\ beat' = [n \in Nodes |-> IF n \in alive THEN beat[n] - 1 ELSE beat[n]]
    /\ events' = 0
    /\ UNCHANGED <<alive, socket, noUpdates, registry, commands, bus, lost, confirmed>>

System(n) == Heartbeat(n) \/ Run(n) \/ Route(n) \/ Deliver(n)

Next ==
    \/ \E c \in Conns :
        \/ \E k \in Keys, s \in Subjects \cup {None} : Packet(c, k, s)
        \/ \E s \in Subjects : Login(c, s)
        \/ Logout(c) \/ OptOut(c) \/ Close(c)
    \/ \E n \in Nodes : System(n) \/ Fail(n) \/ Crash(n) \/ Restart(n)
    \/ \E t \in Targets : Publish(t)
    \/ Tick

Spec == Init /\ [][Next]_vars

(***************************************************************************)
(* Time passes, timers fire, Redis answers, and a node handles what it     *)
(* receives.  Clients, publishers and crashes are under no obligation.     *)
(***************************************************************************)
FairSpec ==
    /\ Spec
    /\ WF_vars(Tick)
    /\ \A n \in Nodes :
        WF_vars(Heartbeat(n)) /\ WF_vars(Run(n)) /\ WF_vars(Route(n)) /\ WF_vars(Deliver(n))

-----------------------------------------------------------------------------
(***************************************************************************)
(* The types.                                                              *)
(***************************************************************************)
Cmds == [cmd : {"add", "remove", "prune", "range"}, target : Targets, update : 0..MaxUpdates]
Delivery == [update : 1..MaxUpdates, router : Routers]

TypeOK ==
    /\ alive \subseteq Nodes
    /\ socket \in [Conns -> {"open", "closed", "done"}]
    /\ noUpdates \subseteq Conns
    /\ regSubject \in [Conns -> Subjects \cup {None}]
    /\ regKey \in [Conns -> Keys \cup {None}]
    /\ keyConns \in [Keys -> SUBSET Conns]
    /\ presence \in [Targets -> [Nodes -> 0..TTL]]
    /\ commands \in [Nodes -> Seq(Cmds)]
    /\ beat \in [Nodes -> 0..Period]
    /\ routerIn \in [Nodes -> Seq(1..MaxUpdates)]
    /\ nodeIn \in [Nodes -> Seq(Delivery)]
    /\ published \in Seq(Targets)
    /\ renders \in Seq(Renderings)
    /\ got \in [Conns -> Seq(Delivery)]
    /\ lost \in 0..MaxLost
    /\ events \in 0..MaxEvents
    /\ confirmed \in [Targets -> [Nodes -> BOOLEAN]]

(***************************************************************************)
(* Once a node's entry for a target it holds has been written, every       *)
(* lookup finds it for as long as the node runs and holds the target:      *)
(* neither connections that come, go or change their subject nor a         *)
(* heartbeat that is lost leave a gap.                                     *)
(***************************************************************************)
HeldIsRoutable ==
    \A n \in alive, t \in Targets : confirmed[t][n] => presence[t][n] > 0

(***************************************************************************)
(* A connection gets what one router routes to it at most once and in the  *)
(* order of publication, whatever targets the updates were addressed to.   *)
(***************************************************************************)
OrderedPerRouter ==
    \A c \in Conns : \A i, j \in 1..Len(got[c]) :
        i < j /\ got[c][i].router = got[c][j].router => got[c][i].update < got[c][j].update

(***************************************************************************)
(* Presence heals: a target some node holds is routed to that node in the  *)
(* end, also if the command that was to announce it failed, unless the     *)
(* node ceases to hold it.                                                 *)
(***************************************************************************)
HeldBecomesRoutable ==
    \A n \in Nodes, t \in Targets :
        Held(n, t) # {} ~> (presence[t][n] > 0 \/ Held(n, t) = {})

(***************************************************************************)
(* Presence does not linger: the entry of a node that does not hold the    *)
(* target (any more) goes in the end, after a crash, a change of subject   *)
(* or a failed command as well, unless the node comes to hold it.          *)
(***************************************************************************)
UnheldIsForgotten ==
    \A n \in Nodes, t \in Targets :
        Held(n, t) = {} ~> (presence[t][n] = 0 \/ Held(n, t) # {})

(***************************************************************************)
(* An update that reaches a running router while the node there holds the  *)
(* target, its entry written, is sent to each of the node's connections of *)
(* the target that stay, that did not opt out and that it renders on,      *)
(* unless rendering it throws on one of them: then the others may miss it. *)
(***************************************************************************)
Addressed(n, c, i) ==
    /\ i \in DOMAIN published
    /\ c \in Rendered(n, i, "sent") /\ Rendered(n, i, "thrown") = {}

Expects(n, c, i) ==
    /\ i \in ToSet(routerIn[n])
    /\ Addressed(n, c, i) /\ confirmed[published[i]][n]
    /\ lost = MaxLost

Served(n, c, i) == [update |-> i, router |-> n] \in ToSet(got[c])

UpdatesArrive ==
    \A n \in Nodes, c \in Conns, i \in 1..MaxUpdates :
        Expects(n, c, i) ~> (Served(n, c, i) \/ ~Addressed(n, c, i))
=============================================================================
