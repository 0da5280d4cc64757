# TLA+ specification of mt-tl

mt-tl is a gateway that speaks MTProto 2.0 to clients and calls business
handlers for them. This directory models its server (`packages/server/src`),
the test client and scenario runner (`packages/testing/src`), the schema tools
(`packages/tl/src`) and the studio's client code (`packages/studio/src`),
checks the models with TLC on small instances and proves the main safety
properties with TLAPS for all instances. Paths below are relative to the
repository; `server/` stands for `packages/server/src/`.

Contents: [the system](#the-system), [modules](#modules),
[what is checked](#what-is-checked), [what is proved](#what-is-proved),
[what the models showed](#what-the-models-showed),
[what is not modelled](#what-is-not-modelled).

## The system

A client opens a TCP or WebSocket connection, negotiates a 256-byte auth key in
three plaintext steps, and from then on sends encrypted packets, each naming the
auth key, a session id, a salt, a msg_id and a seqno. Node processes ("replicas")
share MongoDB for keys, sessions and salts, and Redis for presence and the update
bus; everything else is in the memory of one process. A process is one event
loop: what races are the awaits of different connections, and other processes.

| Component (source) | State | Operations | What makes it correct | Module |
|---|---|---|---|---|
| Carriers, `Connection` (`server/transport`) | per socket: a promise chain of packets, context (key, session, subject, layer, salt), idle timer | packet arrives, process, close, close event | one packet at a time, in order; nothing survives the close | `Connection` |
| Framing, PROXY protocol (`transport/framing.ts`, `proxy-protocol.ts`) | bytes not yet parsed | feed a chunk | the same packets whatever the chunks | `Framing` |
| Outgoing ids (`session/message-id.ts`) | last id, seqno | nextMessageId, nextSeqNo | ids increase whatever the clock does | `Connection` |
| Layers (`tl/layered-registry.ts`, `updates/render.ts`, `packages/tl/src/migrate.ts`) | schema | resolve, render, migrate up and down | what is sent is what the client's layer has | `Rendering` |
| Handshake, nonce store (`server/auth`) | nonce -> secrets, with a timer | req_pq, req_DH_params, set_client_DH_params | a key is confirmed only if both sides have it; created once | `Handshake` |
| Message pipeline (`server/message-pipeline.ts`) | none of its own | decrypt, check, session, bind, dispatch, send | checks precede effects; rejected packets change nothing | `GatewaySessions`, `Connection` |
| Inbound tracker (`session/inbound-tracker.ts`) | per connection: a window of msg_ids, high marks, last seqno | accept, note, recordAnswer, stateOf | a message runs at most once; state info is true | `InboundTracker` |
| Salt service (`session/salts.ts`) | stored: the salt windows of a key | seed, resolve, future | all nodes use one grid of windows and accept each other's salts | `SaltSchedule` |
| Session manager (`session/session-manager.ts`) | stored: session -> key, subject | ensureSession | one announcement per session; the right subject | `GatewaySessions` |
| Dispatcher (`dispatch/dispatcher.ts`) | connection context | unwrap containers, service messages, forward, apply effects | effects reach key, session, connection and registry | `GatewaySessions`, `Connection`, `ServerProcess` |
| Connection registry, presence binder | subject -> connections, key -> connections | bind, bindAuthKey, unbind | live connections are found, others are not | `GatewaySessions`, `UpdateDelivery` |
| Presence, bus, router, push (`server/updates`) | Redis: sorted set of nodes per target; queues in transit | add, remove, lookup, heartbeat, publish, route, deliver | presence follows the registry; updates arrive, once, in order | `UpdateDelivery` |
| Storage (`server/storage`) | MongoDB collections or maps | single-document operations | each operation atomic; nothing across two | in the modules that use it |
| RPC core, forwarders (`server/core`, `dispatch/forwarders`) | the effects and pushes of a call | call a handler, collect effects, answer | effects are applied before the answer | `ServerProcess` |
| Start-up (`create-server.ts`, `bootstrap.ts`, `gateway.ts`) | what has been assembled | listen, close | what is opened is closed; a push goes to its own gateway | `ServerProcess` |
| Codec (`server/tl`) | registry of definitions | encode, decode | what one side writes the other reads | `Codec`, `SchemaWire` |
| Schema tools (`packages/tl/src`) | `.tl` files, frozen layers, the studio's build | edit, freeze, build spec and wire definitions | old clients stay understood; the history is the snapshots' | `SchemaHistory`, `SchemaWire` |
| Client session (`packages/testing/src/session.ts`, `client/test-client.ts`, ported to `packages/studio/src/client/browser-session.ts`) | waiters, receive pump | invoke, expectUpdate, listen, close | each waiter is settled, each update taken once | `ClientSession` |
| Scenario runner (`packages/testing/src/cli/runner.ts`, `packages/studio/src/builder.tsx`) | sessions per user, captured values, armed expectations | connect, log in, run a step, settle | every step reported; nothing left open | `ScenarioRun` |
| Cryptography, text parsing, code generation, logger, user interface, demo application | | | | not modelled, see [below](#what-is-not-modelled) |

How they interact. A carrier hands chunks to the framer and enqueues the packets
it returns on the `Connection`; its chain runs `MessagePipeline.handlePacket` for
each. The pipeline reads the key from storage, writes the context, resolves the
salt (`SaltService`), asks the tracker, calls `ensureSession`, binds the connection
(`NodePresenceBinder` -> registry and presence) and hands the payload to the
`Dispatcher`, which forwards business calls to the registered handlers and applies
the effects their responses carry (`bindUser`, `unbindUser`, `revokeKey`) to storage,
context and binder before it answers. The close event calls the binder beside all
this. A handler's `push` goes to the bus, every router reads presence and sends to
nodes, and `PushService` walks the local registry and renders the update for each
connection's layer.

Hard here: every storage call is an await, at which other connections, on any
node, run; the close event runs at any of them; a rejected call ends the packet
in silence (`Connection.enqueue` swallows it); presence is written without
waiting; clocks differ, jump, and time windows meet them; clients resend,
reconnect and change keys; schemas of several layers are in use at once; start-up
can fail half way. `PROJECT.json` lists the hazards by line, each with the
properties that would catch it going wrong.

## Modules

| Module | Models | State <-> code |
|---|---|---|
| `InboundTracker` | `inbound-tracker.ts`, and how pipeline and dispatcher call it for outer messages, the items of containers and of containers in them, and answers; sessions that cannot be opened and handling that throws | `received`, `order`, `evictedHigh`, `maxReceived`, `lastContentSeqNo` are the class's fields; `opening` the envelope that was noted and awaits `ensureSession`; `toCome` what is unread of its containers; `pending` the request between dispatch and answer. `Verdict` = `accept()`, with the bad_msg codes as results; `Note` = `note()`; `StateByte` = `stateOf()`; `SessionFails` and `Abandon` = what `Connection.enqueue` swallows |
| `MessageLifecycle` | abstract: fresh -> taken -> retired; a taken id is handed to the dispatcher once at most, at once or after it was in hand, where it may be lost | implemented by `InboundTracker` (`Lifecycle`, `ImplementsLifecycle`) |
| `SaltSchedule` | `salts.ts` on the salt repository of `storage/mongo.ts` | `repo` the stored windows; `call[n]` an `ensure()` under way: one step per await (`ListFound`/`ListEmpty`, `AppendOne` per upsert of the unordered bulk, `Relist`, `PruneAndReturn`); `advertised` what clients have been told; `setting` the deployment: clock skew, how long calls take, whether the handshake seeded, when the key is first used |
| `GatewaySessions` | pipeline prologue, `ensureSession`, auth effects and service messages, registry, close event, storage that rejects at any await | `keys`, `sessions` the repositories; `ctx`, `queue`, `socket` the `Connection`; `work[c].at` the await the packet in process is at; `regSubject`, `regKey`, `keyConns` the registry's maps (`bySubject` is the inverse of `connSubject`, and is derived); `announced`, `ended` what connections were told and how often records were removed |
| `UpdateDelivery` | registry + binder + presence + heartbeat + bus + router + push, with crashes | `presence[t][n]` the seconds an entry has left; `commands[n]` the Redis commands of a process not run yet, in order; `routerIn`, `nodeIn` pub/sub messages under way; `noUpdates` who opted out (`ctx.noUpdates`); `renders` what rendering an update comes to on each connection: a message, nothing or an exception; `got[c]` what was sent to a connection |
| `Handshake` | `handshake.ts`, `nonce-store.ts`, with the clients that run an exchange and resend | `store`, `timers` the nonce store's map and its timeouts; `work[c]` the `handleSetClientDhParams` in process on a connection, one step per await (`Create`, `ListSalts`, `AppendSalt`, `Confirm`); `packets`, `answers` what is under way; `keys`, `salts` what is stored; `client` what the other side knows |
| `Framing` | `framing.ts`, `proxy-protocol.ts` and the data event of `tcp-server.ts`, as operators on byte counts | a framer record: `start` of the MTProto bytes, `mode` detected, bytes `used`, packets `read`, `threw`; a stream record says what a client sends |
| `Rendering` | `resolveLayer`, `representable`, both directions of the migration ladder, `renderUpdateForLayer` with containers and pts | operators |
| `Connection` | one user's connections from bytes to messages: carrier events, the chain of packets, layers negotiated and restored, pushes, numbering, the idle timer; composes `Framing` and `Rendering` | `framer`, `waiting`, `ctx`, `idle`, `socket` the fields of `Connection` and its framer; `work[c].at` the await; `held` the registry; `stored` the sessions' layers; `wire` what was sent |
| `ClientSession` | `session.ts`, `test-client.ts`, `browser-session.ts` | `pending`, `expects`, `updates`, `closed`, `initSpec`, `listening` the class's fields; `pump`, `hand`, `inbox` where the receive loop is; `timers` the armed timeouts; `outcome` how each promise was settled |
| `ScenarioRun` | `runScenario()` and the builder's `run()` | `pc`, `phase` the position in the run (dialing = the transport's `connect()`, handshaking, failed); `session` whom the run holds, and what stays open and unheld (orphan = the transport of a rejected handshake, lost = the builder's session whose recipe failed); `scope`, `deferred`, `reports` its variables; `waiters`, `unclaimed` the two queues of each client session, which `ClientSession` has in detail. `RunInit`, `RunNext`, `Settle`, ... are named so that one proof module can extend both |
| `Codec` | writer, reader and codec, byte by byte | operators. The codec's calls within each other are levels: `Written(names)[d]`, `Understand(reg, buf)[d]` say what a call with room for d more below it makes of each type and value, as functions of `d - 1` |
| `SchemaHistory` | editing, `freezeLayer`, the gateway's and the studio's registries, `buildApiSpec`, `buildWireDefs`, changelog | `schema` the `.tl` files, `frozen` the snapshots, `built` what the studio was built from |
| `SchemaWire` | `Codec` with the definitions of `SchemaHistory`: who writes and who reads with which | what is understood of requests and of answers |
| `ServerProcess` | `createServer`, `bootstrap`, `buildGateway`; `createHandlerCtx`, `dispatchRpc`, `forwardBusiness`, `applyEffects` | `stage[l]`, `running[l]`, `binding[l]` an assembly and what runs of it; `gateway`, `emitter` the app's fields; `closer[k]` a `close()` under way; `phase[c]`, `effects`, `response`, `applied` the call of a connection |
| `MC*` | the instances for TLC | values only |
| `InboundTrackerProofs`, `SaltScheduleProofs`, `GatewaySessionsProofs`, `UpdateDeliveryProofs`, `HandshakeProofs`, `ConnectionProofs`, `ClientSessionProofs`, `ServerProcessProofs` | theorems | see [below](#what-is-proved) |

Definitions named `X_Fault` beside a definition `X` (`Forgotten_OffByOne`,
`Released_Always`, ...) are not part of any specification. Each is `X` with a
plausible mistake, and each checked property is known to fail when `X` is replaced
by one of them (`mutants` in `PROJECT.json`).

Abstractions shared by all modules: encryption and logging are left out; bytes are
counted (`Framing`) or left out, except in `Codec`, where they are the subject;
whether a payload decodes, a salt matches or a storage call rejects is a choice of
the environment; random 64-bit numbers are distinct. A crash of a process is, for
what is stored, the same as its connections taking no further step, which no safety
run excludes; `UpdateDelivery`, where it loses memory that matters to others, and
`Handshake`, where it loses the nonces, have it as an action.

How the modules meet. `GatewaySessions` and `UpdateDelivery` share the registry: the
first decides which subject a connection has; to the second this is an arbitrary
choice per packet, so that what it shows holds for whatever the first can do.
`SaltSchedule` and `InboundTracker` enter `GatewaySessions` as the choice of
`CheckPacket`. `Connection` is about the bytes, layers and numbers of packets that
`GatewaySessions` accepts; `ServerProcess` about the calls in them; `ScenarioRun`
takes of `ClientSession` that an update goes to the first waiter it matches and that
every waiter is settled; `SchemaWire` extends `SchemaHistory` and `Codec`.

## What is checked

Twelve runs, all expected to pass, in seconds to a few minutes each. The bounds are
the smallest at which the cases named below occur; every property fails at
these bounds under a plausible mistake in the code (`mutants` in
`PROJECT.json`), which is how we know that they do occur. Deadlock is not checked
where clients may simply stop.

| Run | Question | Bounds, and why they are enough |
|---|---|---|
| `inbound` | Is a msg_id dispatched at most once, however it is resent (alone, in a container or a container in it, after eviction, after a clock jump, after its session failed)? Is state info true, and is what it invites to resend accepted? Is an answered request never dropped? Does the tracker implement `MessageLifecycle`? | window 2, containers of up to 2 (in the code both are 1024), 5 ids over 3 seconds, one misaligned, seqnos 0..3. Three messages suffice to evict, and the two ids of second 1 arrive in either order. Nothing bounds the nesting |
| `salts` | Do nodes that mint and prune the same schedule accept each other's salts and return complete future windows? Are live windows never replaced or pruned? | two nodes, windows of 4 s every 2 s (30 min every 15 min in the code). Four deployments: `Quick`, no schedule at first, calls that end within their second, 4 s; `Raced`, the same with calls that take a second, so that two of different seconds anchor two grids, 3 s; `Skewed`, clocks a second apart and calls that take one; `Slow`, calls of up to two seconds. The last two begin when the handshake's windows are 5 and 6 s old, and run until the first is pruned. `FutureComplete` speaks of deployments with one first window |
| `sessions` | Is a connection found by pushes for the subject it is served as? Is it told of a session once in its life? Can a subject reach another key? Is a connection that goes on using a revoked key closed? | two connections of one key and its two sessions. One logs in, revokes the key (with a request behind it in the container) or goes on with a second key, which takes a session over; the other opens and destroys that session, or logs out. 2 packets per connection, both waiting at once, so that one can be queued behind a revocation; one operation of the storage rejects, at any await, the read of the key included |
| `updates` | Does a lookup find a node that holds a target at all times once its entry was written? Do updates come once, in order? | two connections of one process, TTL 3, heartbeat 1 (the code's ratio), one failing Redis command, 2 events per second, 2 updates, crashes |
| `updates_live` | Does presence follow the registry in the end, both ways? | one connection, 2 subjects to change between, 1 event per second, 1 update |
| `updates_arrive` | Does an update arrive on every connection it is for? | two connections of a process, one of which may opt out and on which the update renders, renders to nothing or throws; a failing command, crashes, 1 event per second, 1 update |
| `handshake` | Has a client that took a dh_gen_ok a key that is stored, with the first salt it derives? Does a login on the new key stay? Is an exchange kept for its time, and freed after it? | one exchange, two connections (before and after a reconnect), 3 repeated packets: enough to start the exchange over and to have two last steps in process at once; one restart; a timer of 2 ticks, less than an exchange can last |
| `client` | Does the receive loop run while anybody waits? Is an update given out once? Is every promise settled? | 2 calls, a waiter that takes any update and one that takes the first only, 2 updates, packets of up to 2 messages |
| `connection` | Do chunk boundaries matter? Are ids and seqnos right? Do handlers get the newest shapes and clients those of their layer, with the pts accounted for? | two connections of up to two sessions, snapshots 2 and 4 with a migration between, two clock values (so that the clock stands still, or steps back), one push each; eight carriers (TCP modes, PROXY header, a stream that nearly looks like one, a wrong sequence number, short packets) cut at up to four awkward places in every combination |
| `scenario` | Is every step reported once, in order? Is no update credited twice? Does a run end, and what does it leave open? | seven scenarios of up to two users, three of them for both the command line and the builder; steps that name no user, no method or a recipe not found; 2 updates, values 1 and 2, expectations that overlap or refer to captures; transports that fail or never open, handshakes that are rejected |
| `schema` | Does the server read what clients of any layer and the studio write, and they what it writes for them? Are history and changelog those of the snapshots? | a schema of 7 lines, frozen as up to 3 layers (9, 10, 11, which the directory lists 10, 11, 9), 2 edits between. Ten values with all they consist of, byte strings at the 253/254 boundary among them; no type has more than 2 vectors and flags around it (`Nesting`) and no value is deeper than 8 calls (`Depth`) |
| `server` | Are effects applied before the answer? Does a push go to its own gateway? Is everything taken down by close()? Are calls answered? | three configurations (Redis with both carriers, memory, no updates), a failing listen() and its retry, one close() at any moment, a connection with 2 calls and 2 asks of each |

Relative times in `UpdateDelivery` (an entry counts down) make its state finite
without a bound on the clock, which its liveness properties need. The bound on
events per second also keeps clients from stopping time.

Fairness is weak fairness of single actions, and only of what the run time or a
driver does; nothing is assumed of clients.

| Run | Assumed | Because |
|---|---|---|
| `sessions` | an awaited operation settles; a socket closes after `close()` | drivers time out and reject, which is among the outcomes; the chain of `Connection.enqueue` goes on by itself. A rejected read of the key drops the packet and leaves the connection, so that `BlockedKeyIsShutOut` allows for the storage to reject while the packet waits |
| `updates_live`, `updates_arrive` | time passes, the heartbeat fires, Redis answers, sockets are read | `setInterval`, the driver's queue; a crash ends all of it for the process |
| `client` | an armed timer runs out | `setTimeout`; no answer and no packet is assumed |
| `scenario` | the run continues when what it waits for is there; armed timers run out | promise continuations, `setTimeout`: calls, expectations and each receive of the handshake have one. The `connect()` of a transport has none (`client/transport.ts:17`, `:35`), and is not assumed to end: `RunEnds` says that a run is over in the end or waits for a transport for good |
| `server` | handlers end; MongoDB, Redis and ports answer or fail | drivers time out. Handlers are the application's: nothing in the code bounds one that does not end, and its call is then not answered, so that `CallsAnswered` is conditional on this |

The other runs state safety only (`KeptForItsTime` and `LiveEntriesKept` are action
properties) and assume nothing.

## What is proved

Each theorem is for all values of the constants, under the assumptions the modules
state (`TrackerAssumption`, ...) and those named here. The shape is the same
everywhere: an invariant that the initial states satisfy and every step keeps, with
one step of the proof per action, and a last step that draws the temporal
conclusion. The property itself is rarely inductive; the paragraphs say what had to
be added, which is where the reasons lie.

Assumptions on constants that only say that the values are what they stand for: no
nonce, salt or session is `None` (`NoneIsNoEntry`, `NoneIsNoSession`); the updates of
`Connection` come in canonical shape, as a handler's `push` has them; those of
`ClientSession` are not also words for how a call ended; in `ScenarioRun` no value and
nothing the server sends is `None`, and users have different names, as the scenario's
table of users has them.

`InboundTrackerProofs` (any window, container limit, tolerances, clock values,
ids, seqnos). The invariant `IInv` adds to the type invariant and `WindowConsistent`

- `Bounded`: remembered and evicted ids are at most `maxReceived`;
- `Accounted`: an id that is known (dispatched, awaiting its session, or lost with it) is
  in the window or not above `evictedHigh`, one in the window is known, and none was
  dispatched twice. `AtMostOnce` alone is not inductive: it is this that shows that a
  forgotten id is refused;
- `ContainerSafe`: as long as n messages of a container are unread, and it had none
  inside it, whatever the next n reads can evict was accepted before it (`BeforeUpTo`);
  an envelope that awaits its session counts as one with all its messages unread.

From it follow `AtMostOnce`, `StateInfoTruthful`, `HigherIsNew`, `ResendAccepted`,
`FreshInnerVerifiable` and, step by step under the mapping `Status`, that the tracker
implements `MessageLifecycle`. `FreshInnerVerifiable` uses the assumption
`ContainerFitsWindow` (both constants of the code are 1024) and speaks of envelopes
without a container in a container: with one it is false, see below.
`AnsweredIsNeverDropped` is about requests whose answer was sent, and adds `Settled`, which
ties those to the entries marked answered. It says that `note()` never writes again to the
entry of a request that was answered, and that nothing else marks one.

`SaltScheduleProofs` (any number of nodes, any grid, skew and latency). The
repository has one entry per window, however nodes race to mint it: this is part of
the types, and rests on the insert-if-absent of `append`. `LiveEntriesKept` holds if
clocks differ by at most a window; `CallsInTime`, that a call under way works with a time
its node's clock had reached, is what makes the prune at its end harmless.

`AdvertisedSaltsAreAccepted` and `FutureSaltsAreComplete` need `Timely`: what clocks differ by
and what a call takes add up to no more than a window, half an hour in the code. The
invariant `ScheduleInv` has three parts. `AdvertisedAreStored`: a salt that was advertised is
stored until a window after its own has ended. `CallHolds`: a call that has minted, or has
nothing to mint, finds all windows it wants in the schedule, from the current one on if its
clock has reached the schedule (`Scheduled`); what it returns is still stored unless it may
be pruned (`Kept`); and a salt that is due acceptance is in the schedule and the
call's list. `GridHolds`: where there is one first window, all that is stored, listed or about
to be stored is on its grid. The arithmetic of the grid (`WantedAreWindows`, `OneCurrent`,
`Euclid`) is in lemmas.

Neither theorem excludes races of calls or clocks that differ; what they exclude is what
the code does otherwise, see below. `AdvertisedSaltAccepted` is about a node
whose clock has come to where the advertiser's stood, and not about what a node advertises
whose clock is behind the schedule's first window (`reached`). `FutureComplete` is also about
schedules with one first window (`OneAnchor`): seeded by the handshake, or first minted by
calls of the same second.

`GatewaySessionsProofs` (any number of connections, keys, sessions, subjects, any
traffic and queue bounds):

- `TypeCorrect`: among the types, `AtItsRequest`: a packet stands at an await of the
  request at its head;
- `KeyStaysReachable`: inductive as it is, with the types;
- `AuthorizedStaysReachable`: needs `PatchMatches`, that between the two awaits of bindUser
  the context holds the subject being bound. The property speaks of runs in which storage
  has not rejected yet. After that it is false: when the session's update rejects, the
  subject is in the context and not in the registry until the next packet;
- `SubjectsStayWithTheirKey`, also with failures, if no other key uses a session that a key
  logs in on (`SessionsOwned`): the invariant follows the subject through each await, from
  the key's record and the session's to the context and back, and `AsksAsSent` ties the
  login in process to the packet that asked for it. Sessions on which nobody logs in may
  change hands, as they do in the run. The assumption is needed: `patchSession` updates by
  session id without looking at the key, and a session that another key took over between
  the awaits would be given the first key's subject. Clients draw session ids at random;
- `SessionsAreAnnouncedOnce`, whoever uses the sessions: `AnnounceInv` counts. A connection
  was told of a session once more than its record was removed only if the record is there
  (`Told`), and one that is about to save the record has been told less often (`MayTell`):
  whoever removes the record between the read and the save of `ensureSession` has counted.

`UpdateDeliveryProofs` (any nodes, connections, subjects, keys, any number of events
and updates):

- `TypeCorrect` is proved together with `UnderWay`: every lookup, routed message and
  delivery is of an update that was published, and only processes with a router look
  updates up;
- `HeldStaysRoutable`, if `TTL > (MaxLost + 1) * Period`: an entry outlives one
  heartbeat more than the commands that may be lost in a row. With the code's ratio,
  three heartbeats to a TTL, one may be lost and no more. `RoutableInv` adds that dead
  processes hold nothing, that a target whose entry was written is held and not about
  to be removed, and `Covered`: either enough time is left in the entry for the losses
  still to come, or an add is queued. The binder removes a target only when it holds it
  last, and the queue keeps that remove before any later add;
- `OrderedPerRouterKept`: `OrderInv` orders, for each router, what it has read, what it
  looks up, what is on the way to each node and what each connection got as one
  sequence, each part later than the next. The two awaits of a lookup are the difficult
  part: prune and range of different updates overlap, yet stay in order because Redis
  runs one connection's commands in order.

`HandshakeProofs` (any number of exchanges and connections, any repetitions, failures
and restarts). The invariant `IInv` adds to the types

- `DrawnBefore`: the numbers in use were drawn, so that the next one is new;
- `Unambiguous`: a secret exponent is drawn for one entry, so that all that carries it
  (store, step in process, answers, client) carries the same server nonce and, by it,
  the same first salt;
- `Kept`: whoever is past a step of the last handler, the client included, finds stored
  what the step stored;
- `OwnSalts`: the salts of a key are those of its own exchange and exponent.

`ConfirmedIsShared` and `FirstSaltAgreed` follow. They use that random numbers do not
repeat, and that the client checks the hash in dh_gen_ok: without this check a client
whose req_DH_params was answered twice takes a key that the server does not have.

`TimersStayOwn`: every timer is its entry's own with the rest of the entry's time, because
`set()` and `delete()` clear the one before. `EntriesAreKeptForTheirTime` follows from it.
`LoginsAreKept` needs `LInv`, which follows an exchange on the one connection the client
kept to: its packets are in the order in which they were sent, the copies of the last one
at their end, so that once it was told of its key (`OnceTold`) no entry is left for a copy
to find, and none is at an await of the last handler.

`ConnectionProofs` (any streams, cuts, snapshots, updates, clock values):

- `ChunksNeverMatter`: `Framed` relates the framer's place in the stream to the bytes
  received: the packets read are those that are whole in them. `ToldInTime`, an
  assumption on streams, says that a stream without a PROXY header does not look like
  one for longer than it takes to tell, and that its opening is not mistaken for
  another; streams which break it exist, see below;
- `WireStaysNumbered`: `WireInv` gives every message on the wire its number, the
  connection's counters being one more than the last. A closed connection sends no
  more and goes on counting, which the invariant has to allow for;
- `HandlersSeeNewest`: `LayersInv` says at each await what the packet in process knows of
  its session's layer: what it read is what is stored unless a negotiation of the same
  session is at its update, and what it forwards with is the layer it read, or the one
  it negotiates;
- `ShapesAlwaysFit`, `PtsAreAccounted`: `SentInv` says that what is on the wire has the rung
  of its layer and that what the connection was due in pts is the pts of what it was sent, in
  order. For the first, resolving the layer among snapshots and starting the ladder at a rung,
  two searches in two modules of the code, are shown to agree (`ShapeOfLayer`); for the
  second, that rendering a container keeps the pts of each update in it. The containers are
  concatenated lists (`FlattenSeq`), whose laws are proved by induction over a set of
  lengths, no operator being a parameter.

`ClientSessionProofs` (any calls, waiters and updates; any scenarios, users and values):

- `PumpServesWhoWaits`: the invariant adds that the loop polls only with an empty inbox;
- `UpdatesAreNeitherLostNorDoubled`: `PlaceInv` has each update that was pushed in one of
  five places (a packet of the inbox, the packet in hand, the queue, a waiter's promise, or
  drained) and there once. It rests on who waits being open (`WaitersAreOpen`), so that
  no promise is settled over another, and on a waiter being queued once. What `dispatch()`
  does to a packet is a fold over its messages, unrolled for the one or two it has;
- `EveryStepIsReported`, of `ScenarioRun`: `ReportInv` has the jobs reported in order,
  those that were armed and got something only after the last step, and each step behind
  the run armed, reported or, in the builder, one that names nothing to do, which may be
  passed over in silence (`Owed`). `WaitInv` is needed for it: an expectation that waits
  is armed or the job in process, and is not reported yet, so that an update or a timer
  changes nothing about a step that was told of. What the jobs of a scenario are
  (`FlattenSeq` of the logins, then the steps) is proved by induction over a set of lengths;
- `NoUpdateCreditedTwice`: `CreditInv` counts the updates; an expectation that gets one
  had nothing before, by `WaitInv`, and what it claims leaves the queue;
- `RunsLeaveNothing`: once over, no session is held and nothing waits, so that no update
  and no timer comes any more. What may stay open is said in `LeftInv`: a session whose
  recipe failed only of the builder; the transport of a rejected handshake, of the command
  line only in a run that it failed.

`ServerProcessProofs` (any number of listen() and close() calls and connections):

- `AnsweredEffectsApplied`: `EffectsKept`, that what was applied, what is left to apply
  and what the response carries are together what the handler asked for in time;
- `PushesGoHome`: `HomeInv`, that there is one gateway, that carriers run for it and
  that calls are at it;
- `CloseTakesDown`: `ClosingInv`, that what the gateway still runs is what its close()
  has left to do, and `PushlessInv` for the configuration without updates.

The same module has the schema and the codec (any layers, lines, edits and builds; any
values and types, calls to any depth). There are no more modules for it because the
theorems about the server, which is built with the schema, are few.

- `HistoryInv` says that the schema and each snapshot have one line per name and define
  what they use bare, that the studio's snapshots are the frozen ones, and `BareKept`,
  that a constructor which is used bare has one version;
- `HistoryIsShown`: `RunsUpTo` says of the fold over the layers that its runs are in
  order, cover just the layers the symbol is in and have its shape at each. The induction
  is over a set of layer numbers. History and changelog are read off it;
- `RequestsAreResolved`, `AnswersAreResolved`: each definition a client of any layer, the
  studio or, for a layer, the server writes is in the reader's registry under its id.
  The ids take care of what is boxed; what is bare is looked up by name, and `BareMeans`
  shows that each source which has the name means the one version of it;
- `RequestsAreUnderstood`, `AnswersAreUnderstood`: what is written of a value that fits
  its definitions is read to the last byte, as it was meant. `RoundTrip` is the codec's
  part: `Agrees` relates writer and reader, and by induction on the level all types and
  values are read back (`EachLevelBack`). Under it are the loops of `readVector` and
  `readFields`, by induction over what was read, with the position in the buffer and the
  fields so far (`ItemsBack`, `FieldsBack`). A conditional field is looked for just if it
  was written because its mask was read before and its digits in base two are its bits
  (`MaskIs`, `MaskSeen`); numbers are made up by their digits (`DigitsBack`); byte strings
  come with either prefix and their padding (`BytesBack`). Each local function is shown to
  exist before it is unfolded, and the inductions are over sets of numbers (`NatAll`).

What these assume of the schema: `SchemaAssumption`, that ids tell definitions apart (they
are checksums of the line), that what the app uses bare is its own and what the protocol
does is the protocol's; `WireAssumption`, that the parameters of a definition have
different names, that a mask comes before what it is the mask of, is not conditional and has
room for 32 bits, and that no definition has the id of a boolean or of a vector;
`CodecAssumption`, that the set of values has with a value what it consists of. A value
fits if its numbers and lengths do in the width they are written with, longs not being
negative, and its objects are defined. The guard `BareKept` of an edit is the same kind of
assumption: without it old clients are misread, see below.

Only model-checked: liveness (`BlockedKeyIsShutOut`, `HeldBecomesRoutable`,
`UnheldIsForgotten`, `UpdatesArrive`, `EachIsSettled`, `RunEnds`, `CallsAnswered`),
which is out of the prover's reach. Every invariant that a run checks is stated by a
theorem.

## What the models showed

What the runs state holds. The following was met while writing them: places where
the code differs from what a document or comment says of it, or where the model
needed an assumption to have the property. Statements in parentheses are where to
look.

Keys, sessions and logins

- After unbindUser the stored session keeps its subject, and its next packet is served
  as the user who logged out (`dispatcher.ts:477`; `docs/guide/sessions-auth.md:126`
  calls the key anonymous again).
- Login patches one session (`dispatcher.ts:472`); `docs/internals/architecture.md:112`
  says all sessions of the key.
- On MongoDB a session saved without a subject is read back with null, which passes
  `subject !== undefined` (`mongo.ts:154`).
- Messages behind a revocation in the same container, and packets whose key was read
  before, are still served (`dispatcher.ts:308` "any further use is rejected").
- Two connections that open one session at the same time both announce it
  (`architecture.md:73` "once", `session-manager.ts:15`), so that `AnnouncedOnce` counts for
  each connection; and first packets that do so can have a negotiated
  layer overwritten by the later save.
- When the read of the key rejects (`message-pipeline.ts:128`), a packet of a revoked key
  is dropped in silence and the connection stays open.
- A new session is saved with the layer of the moment; `meta.apiLayer` of the key, from
  which fresh sessions would take one (`storage/types.ts:7`), is never updated.

Registry

- A packet that is processed after the close event registers its connection again
  (`tcp-server.ts:62`; `connection-registry.ts:4` is to hold live connections).
- `registerAuthKey` does not remove the connection from its previous key's set: it
  stays listed under it for the life of the process, which the heartbeat announces.
- A connection that goes on with an anonymous key or session stays registered under
  its previous subject, and gets its updates (`connection-registry.ts:14`).

Messages

- A message whose session cannot be opened is noted before (`message-pipeline.ts:195`)
  and never dispatched: `ensureSession` rejects, `connection.ts:89` swallows it, state info
  calls it processed (`inbound-tracker.ts:211`) and its resend is dropped in silence. So it
  is with a request that was handed over and not answered: one that failed to decode, or
  one for which an effect's storage call (`dispatcher.ts:438`), a migration or the encoding of
  the answer (`message-pipeline.ts:230`, before `recordAnswer`) threw.
  `StateInfoTruthful` and `AnsweredNeverDropped` therefore name these cases.
- The dispatcher reads a container inside a container (`dispatcher.ts:152`). Its messages can
  evict enough for the outer one's own, newer ones to be refused as too old to verify (code
  20), from which containers are otherwise safe: `FreshInnerVerifiable`.
- The idle timer is reset when a packet is processed, not when it arrives: packets
  that wait behind a slow call do not keep the connection (`connection.ts:93-95`). The
  close event does not clear it.
- Packets before a wrong tcp_full sequence number in the same chunk are lost with it.
  A PROXY header longer than allowed is refused or accepted depending on chunks, and a
  stream that looks like one has to wait until it is told apart.
- An exception in a migration or in rendering for one connection ends the loop of
  `push.ts:73` for the subject's other connections: which of them got the update before
  depends on the order of the registry's set. Nothing takes `noUpdates` back: one request
  under invokeWithoutUpdates ends a connection's updates for good (`push.ts:71`). A container is dropped as a whole if
  the client's layer lacks the container (`push.ts:20-21`).

Handshake

- A client that reconnects and repeats its last packet can have it processed while the
  first copy is at its awaits. If the user logs in before the second `create` runs, that
  undoes the login: the upsert sets subject to null and isBlocked to false, where
  `docs/guide/sessions-auth.md:141` calls the binding durable. `LoginKept` therefore
  speaks of clients that kept to one connection, and fails for others.
- A rejected storage call in the last step is not answered -404, as the comment in
  `handshake.ts:74` has it of failed steps: `handle()` returns the promise without
  awaiting it inside the try.
- The test client and the studio's client (`test-client.ts:193`, `mtproto-client.ts:202`)
  check neither the server nonce nor new_nonce_hash1; they never resend.

Salts and updates

- A node whose clock is behind refuses the salt another one has just advertised until its
  clock comes to where the other's stood (`salts.ts:17` "any node validates any salt"). One
  whose clock is behind the schedule's first window mints from that window on all the same,
  and advertises the last salt of the list, which covers no time near its own
  (`salts.ts:150`, `:157`).
- Two calls that find the schedule empty in different seconds anchor two grids
  (`salts.ts:116`; the comment at `salts.ts:15-18` has one): the windows of the two
  overlap, and get_future_salts can be answered with fewer windows than were asked for. The
  seed of the handshake makes this rare.
- On a fresh key one salt is valid, not two (`docs/internals/protocol-compliance.md:45`).
- `redis-bus.ts:29` asks for a single router; `bootstrap()` (`bootstrap.ts:58`) starts one
  per process, and each connection is sent one copy of an update per replica
  (`docs/guide/deployment.md:104`). `OrderedPerRouter` is about one router for this reason.
- The heartbeat's period has a floor of 5 s: with `presenceTtlMs` of 5 s or less, which
  nothing rules out, entries lapse between heartbeats (`gateway.ts:159`).

Clients

- The test client drops bad_server_salt (`session.ts:379`): after its salt expired each
  call times out. A call that fails to encode after its number was taken leaves a gap in
  the seqnos, and if it is the first one the connection stays without initConnection
  (`session.ts:27`).
- `drainUpdates` does not see packets that are in the inbox. The studio's keepalive is not
  cleared when its session is dropped, and its Listen page goes on saying that it
  listens.
- Expectations of a scenario take the first update that matches, in the order in which
  they were armed: with predicates that overlap, success depends on the order of the
  updates (`scenario.ts:68-71`, `runner.ts:82` and `builder.tsx:403` say it does not).
- A connection that is refused aborts the command line's run without a report; the
  builder leaks the session of a user whose recipe failed. When the handshake is rejected,
  the transport that `connect()` opened is closed by nobody (`testing/src/session.ts:188-191`,
  `browser-session.ts:125-128`; the finally of `runner.ts:129` knows of no session yet).
- `connect()` of the TCP and WebSocket transports has no timer (`client/transport.ts:17-24`,
  `:35-41`; the studio's `transport.ts:22-42`): a server that never completes the opening
  hangs the run.
- The builder says nothing of a recipe step without a recipe and of an invoke without a
  method (`builder.tsx:1055`, `:1094`); the command line reports a step that names nothing
  as passed.

Codec and schema tools

- A handler's result Vector of numbers passes `sendRpcResult` (`dispatcher.ts:503`) and
  makes the writer throw: the call is never answered. A null or primitive result is
  answered 500 INVALID_RESULT.
- Bare types that changed between layers are read with the newest definition of the name
  (`codec.ts:109`), contrary to `docs/internals/architecture.md:131`; the name index does
  not keep the newest for a name that was dropped (`gateway.ts:80`). A result whose type
  the client's layer does not have is written with the registry's.
- A constructor that had several versions while it was boxed, and becomes bare, is misread
  once it was dropped from the schema: `BareKept` forbids it, the tools do not.
- An app's definition under the name of a bare protocol constructor (`future_salt`)
  replaces it in the studio's registry (`studio/src/client/codec.ts:26`) and not in the
  server's. `SchemaAssumption` excludes it.
- The writer loses the top byte of lengths from 2^24 on; the reader takes the prefix 255
  for 254; negative longs are read as unsigned.
- Freezing an old layer again loses its ids. In the studio the `type` of a symbol and the
  constructors of a type are those of the newest layer, for old layers too
  (`doc-utils.ts:8`, `spec.ts:99`).

Process

- Two overlapping listen() calls both start, and the first leaks. close() before
  listen() ends does nothing; while a carrier waits it leaves listen() pending; it leaves
  existing connections open. storage.close() rejecting skips the rest.
- A listen() that fails at a carrier cannot be retried; one that fails after the router
  leaves it running, and after the retry two routers send every update twice. MongoDB's
  client leaks if ensureIndexes rejects.
- A taken WebSocket port ends the process with an uncaught error (`ws-server.ts:29`); a
  taken TCP port rejects.
- A push from within a login handler goes out before the login is applied.

## What is not modelled

- Cryptography (`server/crypto`, `studio/src/client/crypto.ts`): numerical algorithms,
  taken as ideal.
- Text: the `.tl` parser, YAML scenarios, code generation, the logger, the command lines.
  They keep no state and run alone; tests reach all of it.
- The user interface of the studio and the website, and the demo application, whose
  logins and logouts are the effects `GatewaySessions` enumerates.
- Of the server: `inject()`, the `PrintForwarder`, overlapping listen() calls, malformed
  frames and handshake steps, temporary keys, initConnection's metadata, hook and
  whitelist, the `shouldDeliver` valve, the in-memory presence (an entry that never
  expires), the expiry of a whole presence set, the protocol override and gzip.
- The tracker's state is per connection, so that its at-most-once does not extend over
  a reconnect, as `docs/internals/protocol-compliance.md:98` says.

The modules stand for about a sixth of the repository's implementation lines. Of the
rest, 6000 are the demo's generated schema, some 4500 the user interface and website, and
some 1500 second copies of code that is modelled (the studio's client, the memory
storage), where a definition names one of the two. The remaining 6000 are mostly types,
texts, command lines and configuration.

What could come next: the studio's shared session (`session.tsx`: pages that connect,
reset and log in on one session) and `inject()` beside a call in process.
