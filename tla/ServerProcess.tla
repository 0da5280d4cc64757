---------------------------- MODULE ServerProcess ----------------------------
(***************************************************************************)
(* A process that runs createServer(): listen() assembles a gateway and    *)
(* its update infrastructure and opens the carriers, close() takes them    *)
(* down, and in between connections forward business calls to the          *)
(* handlers the app registered (create-server.ts, bootstrap.ts,            *)
(* gateway.ts).  A handler asks for session effects and pushes updates     *)
(* while it runs (core/context.ts); the dispatcher applies the effects of  *)
(* its response, one storage operation after the other, and only then      *)
(* answers (dispatcher.ts).                                                *)
(*                                                                         *)
(* The app awaits listen() before it calls it again.  What the effects     *)
(* mean for keys, sessions and presence is GatewaySessions; how a          *)
(* connection takes its packets one by one is Connection.                  *)
(***************************************************************************)
EXTENDS Sequences, Integers, FiniteSets

CONSTANTS
    Listens,    \* calls of listen(); each names what it assembled
    Closes,     \* calls of close()
    Conns,      \* connections
    Subjects,
    Configs,    \* the configurations to start from
    Nobody,     \* no subject
    None,
    MaxCalls,   \* bound on the calls of a connection
    MaxAsks     \* bound on the effects a handler asks for

\* What an assembly consists of; "bus" is the bus with the router on it.
Carriers == {"ws", "tcp"}
Parts == Carriers \cup {"presence", "bus", "storage", "heartbeat"}

Configuration ==
    [updates  : {"off", "memory", "redis"},
     carriers : (SUBSET Carriers) \ {{}},
     mongo    : BOOLEAN]

Effects == [type : {"bindUser"}, subject : Subjects]
           \cup [type : {"unbindUser", "revokeKey"}, subject : {Nobody}]

\* How a handler ends: with an object, Bool or Vector; with another value, or none;
\* with a value that cannot be sent, since its down migration throws (dispatcher.ts:502)
\* or the codec cannot write it; with an AppError; with another error.
Outcomes == {"result", "scalar", "unwritable", "reject", "throw"}

ASSUME ServerAssumption ==
    /\ Configs \subseteq Configuration
    /\ None \notin Listens /\ Nobody \notin Subjects
    /\ MaxCalls \in Nat /\ MaxAsks \in Nat

VARIABLES
    config,     \* MTProtoConfig
    alive,      \* the process has not died of an uncaught error
    stage,      \* where each listen() stands
    running,    \* what runs of each assembly
    binding,    \* its carriers that wait for their port
    gateway,    \* the assembly the app object holds
    emitter,    \* the assembly whose publish() ctx.push uses
    closer,     \* where each close() stands
    closes,     \* the assembly that it closes
    at,         \* the assembly each connection belongs to
    subject,    \* whom it is served as
    calls,      \* how many calls it made
    phase,      \* where its current call stands
    bus,        \* the emitter the current call was given
    effects,    \* ctx.effects of the current call
    outcome,    \* how its handler ended
    response,   \* the effects of its response that are still to be applied
    asked,      \* history: what its handler had asked for when it ended
    applied,    \* history: the effects applied for it
    published   \* history: whose pushes each assembly's bus took

serverVars == <<config, alive, stage, running, binding, gateway, emitter, closer, closes>>
callVars == <<at, subject, calls, phase, bus, effects, outcome, response,
              asked, applied, published>>
vars == <<serverVars, callVars>>

-----------------------------------------------------------------------------
Init ==
    /\ config \in Configs
    /\ alive = TRUE
    /\ stage = [l \in Listens |-> "idle"]
    /\ running = [l \in Listens |-> {}]
    /\ binding = [l \in Listens |-> {}]
    /\ gateway = None
    /\ emitter = None
    /\ closer = [k \in Closes |-> "idle"]
    /\ closes = [k \in Closes |-> None]
    /\ at = [c \in Conns |-> None]
    /\ subject = [c \in Conns |-> Nobody]
    /\ calls = [c \in Conns |-> 0]
    /\ phase = [c \in Conns |-> "idle"]
    /\ bus = [c \in Conns |-> None]
    /\ effects = [c \in Conns |-> <<>>]
    /\ outcome = [c \in Conns |-> "result"]
    /\ response = [c \in Conns |-> <<>>]
    /\ asked = [c \in Conns |-> <<>>]
    /\ applied = [c \in Conns |-> <<>>]
    /\ published = [l \in Listens |-> {}]

-----------------------------------------------------------------------------
(***************************************************************************)
(* listen()                                                                *)
(***************************************************************************)
Settled(l) == stage[l] \in {"idle", "up", "failed"}
Starts(l, parts) == running' = [running EXCEPT ![l] = @ \cup parts]
At(l, s) == stage' = [stage EXCEPT ![l] = s]

Listen_Unguarded(l) ==
    /\ alive /\ stage[l] = "idle" /\ \A j \in Listens : Settled(j)
    /\ At(l, IF config.updates = "off" THEN "storage" ELSE "updates")
    /\ emitter' = IF config.updates = "off" THEN l ELSE emitter
    /\ UNCHANGED <<config, alive, running, binding, gateway, closer, closes, callVars>>

\* A second listen() throws.  Without updates nothing is awaited before the storage.
Listen(l) ==
    /\ alive /\ stage[l] = "idle" /\ \A j \in Listens : Settled(j)
    /\ \/ /\ gateway # None
          /\ At(l, "failed")
          /\ UNCHANGED emitter
       \/ /\ gateway = None /\ config.updates # "off"
          /\ At(l, "updates")
          /\ UNCHANGED emitter
       \/ /\ gateway = None /\ config.updates = "off"
          /\ At(l, "storage")
          /\ emitter' = l
    /\ UNCHANGED <<config, alive, running, binding, gateway, closer, closes, callVars>>

\* Presence and bus, with the router on it; createForward() replaces the emitter.
UpdatesMade(l) ==
    /\ alive /\ stage[l] = "updates"
    /\ Starts(l, {"presence", "bus"})
    /\ emitter' = l
    /\ At(l, "storage")
    /\ UNCHANGED <<config, alive, binding, gateway, closer, closes, callVars>>

\* The schema or the key cannot be loaded, MongoDB not be reached, or its indexes not
\* be made.  What is there by then stays.
AssemblyFails(l) ==
    /\ alive /\ stage[l] = "storage"
    /\ UNCHANGED running \/ (config.mongo /\ Starts(l, {"storage"}))
    /\ At(l, "failed")
    /\ UNCHANGED <<config, alive, binding, gateway, emitter, closer, closes, callVars>>

\* buildGateway() goes on to its end, and the carriers are told to listen.
Assembled(l) ==
    /\ alive /\ stage[l] = "storage"
    /\ Starts(l, {"storage"} \cup (IF config.updates = "off" THEN {} ELSE {"heartbeat"}))
    /\ gateway' = l
    /\ binding' = [binding EXCEPT ![l] = config.carriers]
    /\ At(l, "binding")
    /\ UNCHANGED <<config, alive, emitter, closer, closes, callVars>>

CarrierListens(l, carrier) ==
    /\ alive /\ carrier \in binding[l]
    /\ Starts(l, {carrier})
    /\ binding' = [binding EXCEPT ![l] = @ \ {carrier}]
    /\ At(l, IF stage[l] = "binding" /\ binding[l] = {carrier} THEN "up" ELSE stage[l])
    /\ UNCHANGED <<config, alive, gateway, emitter, closer, closes, callVars>>

\* listen() rejects; the other carrier goes on.
TcpPortTaken(l) ==
    /\ alive /\ "tcp" \in binding[l]
    /\ binding' = [binding EXCEPT ![l] = @ \ {"tcp"}]
    /\ At(l, "failed")
    /\ UNCHANGED <<config, alive, running, gateway, emitter, closer, closes, callVars>>

\* Nobody listens to the WebSocket server's 'error': the process dies.
WsPortTaken(l) ==
    /\ alive /\ "ws" \in binding[l]
    /\ alive' = FALSE
    /\ running' = [j \in Listens |-> {}]
    /\ UNCHANGED <<config, stage, binding, gateway, emitter, closer, closes, callVars>>

-----------------------------------------------------------------------------
(***************************************************************************)
(* close()                                                                 *)
(***************************************************************************)
CloserAt(k, s) == closer' = [closer EXCEPT ![k] = s]
Stops(l, parts) == running' = [running EXCEPT ![l] = @ \ parts]

CloseNothing(k) ==
    /\ alive /\ closer[k] = "idle" /\ gateway = None
    /\ CloserAt(k, "done")
    /\ UNCHANGED <<config, alive, stage, running, binding, gateway, emitter, closes, callVars>>

\* A carrier that still waits for its port will not open, and its listen() not settle.
\* Connections stay open.
Close_NotBinding(k) ==
    /\ alive /\ closer[k] = "idle" /\ gateway # None
    /\ closes' = [closes EXCEPT ![k] = gateway]
    /\ Stops(gateway, {"heartbeat"} \cup Carriers)
    /\ CloserAt(k, "storage")
    /\ UNCHANGED <<config, alive, stage, binding, gateway, emitter, callVars>>

Close(k) ==
    /\ alive /\ closer[k] = "idle" /\ gateway # None
    /\ closes' = [closes EXCEPT ![k] = gateway]
    /\ Stops(gateway, {"heartbeat"} \cup Carriers)
    /\ binding' = [binding EXCEPT ![gateway] = {}]
    /\ CloserAt(k, "storage")
    /\ UNCHANGED <<config, alive, stage, gateway, emitter, callVars>>

\* storage.close(), and if that rejects the rest is not closed.
StorageClosed(k) ==
    /\ alive /\ closer[k] = "storage"
    /\ \/ /\ Stops(closes[k], {"storage"})
          /\ CloserAt(k, IF config.updates = "off" THEN "done" ELSE "bus")
       \/ /\ config.mongo
          /\ CloserAt(k, "rejected")
          /\ UNCHANGED running
    /\ UNCHANGED <<config, alive, stage, binding, gateway, emitter, closes, callVars>>

BusClosed(k) ==
    /\ alive /\ closer[k] = "bus"
    /\ Stops(closes[k], {"bus"})
    /\ CloserAt(k, "presence")
    /\ UNCHANGED <<config, alive, stage, binding, gateway, emitter, closes, callVars>>

PresenceClosed(k) ==
    /\ alive /\ closer[k] = "presence"
    /\ Stops(closes[k], {"presence"})
    /\ CloserAt(k, "done")
    /\ UNCHANGED <<config, alive, stage, binding, gateway, emitter, closes, callVars>>

-----------------------------------------------------------------------------
(***************************************************************************)
(* Calls.                                                                  *)
(***************************************************************************)
Accept(c) ==
    /\ alive /\ at[c] = None
    /\ \E l \in Listens : running[l] \cap Carriers # {} /\ at' = [at EXCEPT ![c] = l]
    /\ UNCHANGED <<serverVars, subject, calls, phase, bus, effects, outcome, response,
                   asked, applied, published>>

NewCall(c) ==
    /\ calls[c] < MaxCalls
    /\ calls' = [calls EXCEPT ![c] = @ + 1]
    /\ effects' = [effects EXCEPT ![c] = <<>>]
    /\ response' = [response EXCEPT ![c] = <<>>]
    /\ asked' = [asked EXCEPT ![c] = <<>>]
    /\ applied' = [applied EXCEPT ![c] = <<>>]

Calls(c) ==
    /\ alive /\ at[c] # None /\ phase[c] \in {"idle", "answered", "lost"}
    /\ NewCall(c)

\* The schema has no such method, there is no handler for it, or it wants a login.
Refuse(c, code) ==
    /\ Calls(c)
    /\ code = 401 => subject[c] = Nobody
    /\ phase' = [phase EXCEPT ![c] = "answered"]
    /\ UNCHANGED <<serverVars, at, subject, bus, outcome, published>>

\* dispatchRpc() with the emitter of the moment; pre-handlers and handler share the ctx.
Forward(c) ==
    /\ Calls(c)
    /\ bus' = [bus EXCEPT ![c] = emitter]
    /\ phase' = [phase EXCEPT ![c] = "handling"]
    /\ UNCHANGED <<serverVars, at, subject, outcome, published>>

\* ctx.login(), ctx.logout(), ctx.revoke(); also by what the handler started and did not
\* wait for.
Ask(c, effect) ==
    /\ alive /\ phase[c] \in {"handling", "applying"} /\ Len(effects[c]) < MaxAsks
    /\ effects' = [effects EXCEPT ![c] = Append(@, effect)]
    /\ asked' = [asked EXCEPT ![c] = IF phase[c] = "handling" THEN Append(@, effect) ELSE @]
    /\ UNCHANGED <<serverVars, at, subject, calls, phase, bus, outcome, response,
                   applied, published>>

\* ctx.push() to a bus that still has its router.
Push(c) ==
    /\ alive /\ phase[c] \in {"handling", "applying"}
    /\ bus[c] # None /\ "bus" \in running[bus[c]]
    /\ published' = [published EXCEPT ![bus[c]] = @ \cup {c}]
    /\ UNCHANGED <<serverVars, at, subject, calls, phase, bus, effects, outcome, response,
                   asked, applied>>

\* The response takes the effects there are, also with an error.
HandlerEnds_ErrorsBare(c, o) ==
    /\ alive /\ phase[c] = "handling"
    /\ outcome' = [outcome EXCEPT ![c] = o]
    /\ response' = [response EXCEPT ![c] = IF o = "reject" THEN <<>> ELSE effects[c]]
    /\ phase' = [phase EXCEPT ![c] = "applying"]
    /\ UNCHANGED <<serverVars, at, subject, calls, bus, effects, asked, applied, published>>

HandlerEnds(c, o) ==
    /\ alive /\ phase[c] = "handling"
    /\ outcome' = [outcome EXCEPT ![c] = o]
    /\ response' = [response EXCEPT ![c] = effects[c]]
    /\ phase' = [phase EXCEPT ![c] = "applying"]
    /\ UNCHANGED <<serverVars, at, subject, calls, bus, effects, asked, applied, published>>

HasStorage(c) == ~config.mongo \/ "storage" \in running[at[c]]

\* applyEffects(), one effect.
Apply(c) ==
    /\ alive /\ phase[c] = "applying" /\ response[c] # <<>>
    /\ HasStorage(c)
    /\ LET effect == Head(response[c])
       IN subject' = [subject EXCEPT ![c] = IF effect.type = "revokeKey" THEN @ ELSE effect.subject]
    /\ applied' = [applied EXCEPT ![c] = Append(@, Head(response[c]))]
    /\ response' = [response EXCEPT ![c] = Tail(@)]
    /\ UNCHANGED <<serverVars, at, calls, phase, bus, effects, outcome, asked, published>>

\* The storage rejects: nothing is answered.
ApplyFails(c) ==
    /\ alive /\ phase[c] = "applying" /\ response[c] # <<>>
    /\ config.mongo
    /\ phase' = [phase EXCEPT ![c] = "lost"]
    /\ UNCHANGED <<serverVars, at, subject, calls, bus, effects, outcome, response,
                   asked, applied, published>>

\* An rpc_result: the result, the error, or INVALID_RESULT for what is no object, Bool or
\* Vector.
Answer_ScalarsIgnored(c) ==
    /\ alive /\ phase[c] = "applying" /\ response[c] = <<>>
    /\ outcome[c] \notin {"scalar", "unwritable"}
    /\ phase' = [phase EXCEPT ![c] = "answered"]
    /\ UNCHANGED <<serverVars, at, subject, calls, bus, effects, outcome, response, asked,
                   applied, published>>

Answer(c) ==
    /\ alive /\ phase[c] = "applying" /\ response[c] = <<>>
    /\ outcome[c] # "unwritable"
    /\ phase' = [phase EXCEPT ![c] = "answered"]
    /\ UNCHANGED <<serverVars, at, subject, calls, bus, effects, outcome, response, asked,
                   applied, published>>

\* migrations.down() or writeObject() throws, and the connection swallows it.
AnswerFails(c) ==
    /\ alive /\ phase[c] = "applying" /\ response[c] = <<>>
    /\ outcome[c] = "unwritable"
    /\ phase' = [phase EXCEPT ![c] = "lost"]
    /\ UNCHANGED <<serverVars, at, subject, calls, bus, effects, outcome, response,
                   asked, applied, published>>

-----------------------------------------------------------------------------
Assembling(l) ==
    \/ Listen(l) \/ UpdatesMade(l) \/ AssemblyFails(l) \/ Assembled(l)
    \/ \E carrier \in Carriers : CarrierListens(l, carrier)
    \/ TcpPortTaken(l) \/ WsPortTaken(l)

Closing(k) ==
    CloseNothing(k) \/ Close(k) \/ StorageClosed(k) \/ BusClosed(k) \/ PresenceClosed(k)

Ends(c) == Apply(c) \/ ApplyFails(c) \/ Answer(c) \/ AnswerFails(c)

Calling(c) ==
    \/ \E code \in {400, 404, 401} : Refuse(c, code)
    \/ Forward(c) \/ Push(c) \/ Ends(c)
    \/ \E effect \in Effects : Ask(c, effect)
    \/ \E o \in Outcomes : HandlerEnds(c, o)

Next ==
    \/ \E l \in Listens : Assembling(l)
    \/ \E k \in Closes : Closing(k)
    \/ \E c \in Conns : Accept(c) \/ Calling(c)

Spec == Init /\ [][Next]_vars

\* Handlers end, and MongoDB, Redis and the ports answer or fail.
FairSpec ==
    /\ Spec
    /\ \A l \in Listens : WF_vars(\/ UpdatesMade(l) \/ AssemblyFails(l) \/ Assembled(l)
                                  \/ \E carrier \in Carriers : CarrierListens(l, carrier)
                                  \/ TcpPortTaken(l) \/ WsPortTaken(l))
    /\ \A k \in Closes : WF_vars(StorageClosed(k) \/ BusClosed(k) \/ PresenceClosed(k))
    /\ \A c \in Conns : WF_vars(Ends(c) \/ \E o \in Outcomes : HandlerEnds(c, o))

-----------------------------------------------------------------------------
(***************************************************************************)
(* Properties.                                                             *)
(***************************************************************************)
ServerType ==
    /\ config \in Configuration
    /\ alive \in BOOLEAN
    /\ stage \in [Listens -> {"idle", "updates", "storage", "binding", "up", "failed"}]
    /\ running \in [Listens -> SUBSET Parts]
    /\ binding \in [Listens -> SUBSET Carriers]
    /\ gateway \in Listens \cup {None}
    /\ emitter \in Listens \cup {None}
    /\ closer \in [Closes -> {"idle", "storage", "bus", "presence", "done", "rejected"}]
    /\ closes \in [Closes -> Listens \cup {None}]

CallType ==
    /\ at \in [Conns -> Listens \cup {None}]
    /\ subject \in [Conns -> Subjects \cup {Nobody}]
    /\ calls \in [Conns -> Nat]
    /\ phase \in [Conns -> {"idle", "handling", "applying", "answered", "lost"}]
    /\ bus \in [Conns -> Listens \cup {None}]
    /\ effects \in [Conns -> Seq(Effects)]
    /\ outcome \in [Conns -> Outcomes]
    /\ response \in [Conns -> Seq(Effects)]
    /\ asked \in [Conns -> Seq(Effects)]
    /\ applied \in [Conns -> Seq(Effects)]
    /\ published \in [Listens -> SUBSET Conns]

TypeOK == ServerType /\ CallType

\* A client that has its a result or an error, can rely on it: all that the
\* handler had asked for when it ended is applied, in that order, and nothing that came
\* after (dispatcher.ts:436; rpc.ts:122).
AnswersFollowEffects ==
    \A c \in Conns : phase[c] = "answered" => applied[c] = asked[c]

\* Also after a listen() that failed half way and was retried, the handlers of a
\* connection push to the bus of the gateway that holds it, where its receivers are
\* (create-server.ts:135-145).
PushesStayHome ==
    \A l \in Listens : \A c \in published[l] : at[c] = l

\* A close() that fulfilled after it found a gateway has taken down all of it, also if
\* listen() was not done; nothing of another assembly runs but what a listen() that
\* failed left (bootstrap.ts:72-77).
ClosedIsDown ==
    \A k \in Closes : closer[k] = "done" /\ closes[k] # None =>
        /\ running[closes[k]] = {} /\ binding[closes[k]] = {}
        /\ \A l \in Listens \ {closes[k]} : running[l] \subseteq {"presence", "bus", "storage"}

\* A call that reaches its handler is answered in the end, also while the server closes,
\* unless the storage rejected an effect or the result cannot be written.
Excused(c) ==
    phase[c] = "lost" /\ ((response[c] # <<>> /\ config.mongo) \/ outcome[c] = "unwritable")

CallsAnswered ==
    \A c \in Conns : phase[c] = "handling" ~> phase[c] = "answered" \/ Excused(c) \/ ~alive
=============================================================================
