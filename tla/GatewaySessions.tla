--------------------------- MODULE GatewaySessions ---------------------------
(***************************************************************************)
(* Auth keys, sessions and connections of the gateway: the encrypted       *)
(* message pipeline (packages/server/src/server/message-pipeline.ts) with  *)
(* ensureSession (session/session-manager.ts), the service and effect      *)
(* handlers that change auth state (dispatch/dispatcher.ts), the presence  *)
(* binder and the connection registry.                                     *)
(*                                                                         *)
(* A connection processes its packets one at a time, but every storage     *)
(* operation is awaited: between two of them other connections run, on     *)
(* this node or on another one that shares the storage, and the socket may *)
(* close.  An action is what one awaited operation does to the storage and *)
(* the code that then runs up to the next await.  A connection that takes  *)
(* no further step is one whose node has crashed.                          *)
(*                                                                         *)
(* Packets that fail before the auth key is looked up or fail its msg_key  *)
(* only close the socket, which may happen at any time here.  The answers  *)
(* are left out, other than new_session_created.                           *)
(***************************************************************************)
EXTENDS Integers, Sequences, FiniteSets

CONSTANTS
    Conns, Keys, Sessions, Subjects,
    Traffic,          \* the messages each connection's client may send
    MaxQueue,         \* bound: packets waiting on a connection
    MaxSent,          \* bound: packets sent on a connection
    MaxFailures,      \* bound: operations of the storage that reject
    None,             \* no subject (undefined), no session, no key
    Unset             \* a stored session's subject read back when none was saved:
                      \* None from memory, null from MongoDB

(***************************************************************************)
(* A request, as far as auth state is concerned: business methods whose    *)
(* backend answers with the effect bindUser, unbindUser or revokeKey (the  *)
(* latter has the effect of the service message destroy_auth_key), the     *)
(* service message destroy_session, or anything else.  A packet holds a    *)
(* sequence of them: a container, or one request with several effects.     *)
(***************************************************************************)
Request == [kind : {"other", "unbindUser", "revokeKey"}]
           \cup [kind : {"bindUser"}, subject : Subjects]
           \cup [kind : {"destroy_session"}, sess : Sessions]
Packet == [key : Keys, sess : Sessions, requests : Seq(Request)]

ASSUME GatewayAssumption ==
    /\ Traffic \in [Conns -> SUBSET Packet]
    /\ MaxQueue \in Nat /\ MaxSent \in Nat /\ MaxFailures \in Nat
    /\ {None, Unset} \cap (Subjects \cup Keys \cup Sessions) = {}

VARIABLES
    keys,       \* stored: the auth keys, each blocked or not, with its subject
    sessions,   \* stored: the sessions, each with its auth key and subject
    socket,     \* of each connection: open, closing (close() called), closed
    queue,      \* packets received and not yet looked at
    ctx,        \* the connection's context: key, session, subject
    work,       \* the packet being processed: the await it is at, what it read
    regSubject, \* registry: the subject a connection is held under
    regKey,     \* registry: the auth key recorded for a connection
    keyConns,   \* registry: the connections held under each auth key
    sent,       \* packets sent so far
    failures,   \* operations of the storage that rejected so far
    bound,      \* history: the subjects ever bound on each key
    announced,  \* history: new_session_created sent on each connection for each session
    ended       \* history: how often a record of each session was removed

storage == <<keys, sessions>>
registry == <<regSubject, regKey, keyConns>>
history == <<bound, announced, ended>>
vars == <<storage, socket, queue, ctx, work, registry, sent, failures, history>>

-----------------------------------------------------------------------------
\* rec is the key's subject as it was read, existing the stored session's.
Idle == [at |-> "idle", rec |-> None, existing |-> None, requests |-> <<>>]

Init ==
    /\ keys = [k \in Keys |-> [blocked |-> FALSE, subject |-> None]]
    /\ sessions = [s \in Sessions |-> None]
    /\ socket = [c \in Conns |-> "open"]
    /\ queue = [c \in Conns |-> <<>>]
    /\ ctx = [c \in Conns |-> [key |-> None, sess |-> None, subject |-> None]]
    /\ work = [c \in Conns |-> Idle]
    /\ regSubject = [c \in Conns |-> None]
    /\ regKey = [c \in Conns |-> None]
    /\ keyConns = [k \in Keys |-> {}]
    /\ sent = [c \in Conns |-> 0]
    /\ failures = 0
    /\ bound = [k \in Keys |-> {}]
    /\ announced = [c \in Conns |-> [s \in Sessions |-> 0]]
    /\ ended = [s \in Sessions |-> 0]

-----------------------------------------------------------------------------
(***************************************************************************)
(* The registry and the binder.  registerAuthKey() does not look at the    *)
(* key the connection was held under before; bind() is only called if the  *)
(* connection's subject is not undefined.                                  *)
(***************************************************************************)
KeyConnsAfter(c) == [keyConns EXCEPT ![ctx[c].key] = @ \cup {c}]

BindKeyAndSubject(c, subject) ==
    /\ regKey' = [regKey EXCEPT ![c] = ctx[c].key]
    /\ keyConns' = IF regKey[c] = ctx[c].key THEN keyConns ELSE KeyConnsAfter(c)
    /\ regSubject' = IF subject = None THEN regSubject
                     ELSE [regSubject EXCEPT ![c] = subject]

Bind(c, subject) ==
    /\ regSubject' = [regSubject EXCEPT ![c] = subject]
    /\ UNCHANGED <<regKey, keyConns>>

Unbind(c) ==
    /\ regSubject' = [regSubject EXCEPT ![c] = None]
    /\ regKey' = [regKey EXCEPT ![c] = None]
    /\ keyConns' = [k \in Keys |-> IF k = regKey[c] THEN keyConns[k] \ {c} ELSE keyConns[k]]

-----------------------------------------------------------------------------
\* The carrier: a packet arrives (over a WebSocket also after close(), until the
\* socket is closed) and is enqueued behind the ones before.
Arrive(c) ==
    /\ socket[c] # "closed"
    /\ Len(queue[c]) < MaxQueue /\ sent[c] < MaxSent
    /\ \E p \in Traffic[c] : queue' = [queue EXCEPT ![c] = Append(@, p)]
    /\ sent' = [sent EXCEPT ![c] = @ + 1]
    /\ UNCHANGED <<storage, socket, ctx, work, registry, failures, history>>

\* The socket closes, by itself or after close(): the carrier unbinds.
SocketCloses(c) ==
    /\ socket[c] # "closed"
    /\ socket' = [socket EXCEPT ![c] = "closed"]
    /\ Unbind(c)
    /\ UNCHANGED <<storage, queue, ctx, work, sent, failures, history>>

(***************************************************************************)
(* handleEncrypted: the auth key is read.  A blocked one closes the        *)
(* connection; else the packet's key and session become the connection's.  *)
(* Whether the socket is still open is not looked at.                      *)
(***************************************************************************)
Closed_StaysOpen(c) == socket[c]
Closed(c) == IF socket[c] = "open" THEN "closing" ELSE socket[c]

Context(c, p) == [ctx[c] EXCEPT !.key = p.key, !.sess = p.sess]

ReadKey(c) ==
    /\ work[c].at = "idle"
    /\ queue[c] # <<>>
    /\ LET p == Head(queue[c])
       IN IF keys[p.key].blocked
          THEN /\ socket' = [socket EXCEPT ![c] = Closed(c)]
               /\ UNCHANGED <<ctx, work>>
          ELSE /\ ctx' = [ctx EXCEPT ![c] = Context(c, p)]
               /\ work' = [work EXCEPT ![c] = [Idle EXCEPT !.at = "salts", !.rec = keys[p.key].subject,
                                                     !.requests = p.requests]]
               /\ UNCHANGED socket
    /\ queue' = [queue EXCEPT ![c] = Tail(@)]
    /\ UNCHANGED <<storage, registry, sent, failures, history>>

\* The salt is resolved.  A bad salt or msg_id is replied to and the packet dropped.
CheckPacket(c) ==
    /\ work[c].at = "salts"
    /\ work' \in {[work EXCEPT ![c] = Idle], [work EXCEPT ![c].at = "session"]}
    /\ UNCHANGED <<storage, socket, queue, ctx, registry, sent, failures, history>>

(***************************************************************************)
(* ensureSession: a stored session of the same key is touched; one of      *)
(* another key is deleted; a new one takes the subject the key had when it *)
(* was read.                                                               *)
(***************************************************************************)
SubjectOfNew_Kept(c) == ctx[c].subject
SubjectOfNew(c) == work[c].rec

Existing_Ignored(c) == None
Existing(c) == sessions[ctx[c].sess]

FindSession(c) ==
    /\ work[c].at = "session"
    /\ IF Existing(c) = None
       THEN /\ work' = [work EXCEPT ![c].at = "save"]
            /\ ctx' = [ctx EXCEPT ![c].subject = SubjectOfNew(c)]
       ELSE /\ work' = IF Existing(c).key = ctx[c].key
                       THEN [work EXCEPT ![c].at = "touch", ![c].existing = Existing(c).subject]
                       ELSE [work EXCEPT ![c].at = "delete"]
            /\ UNCHANGED ctx
    /\ UNCHANGED <<storage, socket, queue, registry, sent, failures, history>>

\* The dispatcher turns to the first (next) request, or is done.
Dispatch(requests) ==
    IF requests = <<>> THEN Idle
    ELSE [Idle EXCEPT !.at = Head(requests).kind, !.requests = requests]

NextRequest(c) == work' = [work EXCEPT ![c] = Dispatch(Tail(@.requests))]

TouchSession(c) ==
    LET existing == work[c].existing
    IN /\ work[c].at = "touch"
       /\ ctx' = [ctx EXCEPT ![c].subject = existing]
       /\ BindKeyAndSubject(c, existing)
       /\ work' = [work EXCEPT ![c] = Dispatch(@.requests)]
       /\ UNCHANGED <<storage, socket, queue, sent, failures, history>>

\* The record of a session is removed (whichever record there is by now).
Remove(s) ==
    /\ sessions' = [sessions EXCEPT ![s] = None]
    /\ ended' = IF sessions[s] = None THEN ended ELSE [ended EXCEPT ![s] = @ + 1]

DeleteForeign(c) ==
    /\ work[c].at = "delete"
    /\ Remove(ctx[c].sess)
    /\ ctx' = [ctx EXCEPT ![c].subject = SubjectOfNew(c)]
    /\ work' = [work EXCEPT ![c].at = "save"]
    /\ UNCHANGED <<keys, socket, queue, registry, sent, failures, bound, announced>>

\* The new session is stored and announced.
Stored(subject) == IF subject = None THEN Unset ELSE subject

SaveSession(c) ==
    /\ work[c].at = "save"
    /\ sessions' = [sessions EXCEPT ![ctx[c].sess] =
                        [key |-> ctx[c].key, subject |-> Stored(SubjectOfNew(c))]]
    /\ announced' = [announced EXCEPT ![c][ctx[c].sess] = @ + 1]
    /\ BindKeyAndSubject(c, ctx[c].subject)
    /\ work' = [work EXCEPT ![c] = Dispatch(@.requests)]
    /\ UNCHANGED <<keys, socket, queue, ctx, sent, failures, bound, ended>>

-----------------------------------------------------------------------------
\* The requests, each at its (first) awaited operation.
OtherRequest(c) ==
    /\ work[c].at = "other"
    /\ NextRequest(c)
    /\ UNCHANGED <<storage, socket, queue, ctx, registry, sent, failures, history>>

\* bindUser: the key, the connection, then the session and the registry.
BindUser(c) ==
    LET subject == Head(work[c].requests).subject
    IN /\ work[c].at = "bindUser"
       /\ keys' = [keys EXCEPT ![ctx[c].key].subject = subject]
       /\ bound' = [bound EXCEPT ![ctx[c].key] = @ \cup {subject}]
       /\ ctx' = [ctx EXCEPT ![c].subject = subject]
       /\ work' = [work EXCEPT ![c].at = "patch"]
       /\ UNCHANGED <<sessions, socket, queue, registry, sent, failures, announced, ended>>

Registered_NotBound(c, subject) == UNCHANGED registry
Registered(c, subject) == Bind(c, subject)

\* sessions.update patches the session's record if there is one.
PatchSession(c) ==
    LET subject == Head(work[c].requests).subject
        s == ctx[c].sess
    IN /\ work[c].at = "patch"
       /\ sessions' = IF sessions[s] = None THEN sessions
                      ELSE [sessions EXCEPT ![s].subject = subject]
       /\ Registered(c, subject)
       /\ NextRequest(c)
       /\ UNCHANGED <<keys, socket, queue, ctx, sent, failures, history>>

\* unbindUser: the key, the connection and the registry, but not the session.
UnbindUser(c) ==
    /\ work[c].at = "unbindUser"
    /\ keys' = [keys EXCEPT ![ctx[c].key].subject = None]
    /\ ctx' = [ctx EXCEPT ![c].subject = None]
    /\ Unbind(c)
    /\ NextRequest(c)
    /\ UNCHANGED <<sessions, socket, queue, sent, failures, history>>

\* revokeKey, destroy_auth_key: the connections of the key stay.
RevokeKey(c) ==
    /\ work[c].at = "revokeKey"
    /\ keys' = [keys EXCEPT ![ctx[c].key].blocked = TRUE]
    /\ NextRequest(c)
    /\ UNCHANGED <<sessions, socket, queue, ctx, registry, sent, failures, history>>

\* destroy_session: the session is read, and deleted if it is of this key.
DestroySession(c) ==
    LET existing == sessions[Head(work[c].requests).sess]
    IN /\ work[c].at = "destroy_session"
       /\ IF existing # None /\ existing.key = ctx[c].key
          THEN work' = [work EXCEPT ![c].at = "destroy"]
          ELSE NextRequest(c)
       /\ UNCHANGED <<storage, socket, queue, ctx, registry, sent, failures, history>>

DeleteSession(c) ==
    /\ work[c].at = "destroy"
    /\ Remove(Head(work[c].requests).sess)
    /\ NextRequest(c)
    /\ UNCHANGED <<keys, socket, queue, ctx, registry, sent, failures, bound, announced>>

(***************************************************************************)
(* An awaited operation rejects: enqueue() swallows it and the packet is   *)
(* over, what it did so far stays.  When it is getById, the packet has     *)
(* left the queue and nothing else has happened.                           *)
(***************************************************************************)
StorageRejects == failures < MaxFailures /\ failures' = failures + 1

KeyReadFails(c) ==
    /\ work[c].at = "idle"
    /\ queue[c] # <<>>
    /\ StorageRejects
    /\ queue' = [queue EXCEPT ![c] = Tail(@)]
    /\ UNCHANGED <<storage, socket, ctx, work, registry, sent, history>>

OperationFails(c) ==
    /\ work[c].at # "idle"
    /\ StorageRejects
    /\ work' = [work EXCEPT ![c] = Idle]
    /\ UNCHANGED <<storage, socket, queue, ctx, registry, sent, history>>

Process(c) ==
    \/ ReadKey(c) \/ CheckPacket(c)
    \/ FindSession(c) \/ TouchSession(c) \/ DeleteForeign(c) \/ SaveSession(c)
    \/ OtherRequest(c) \/ BindUser(c) \/ PatchSession(c) \/ UnbindUser(c)
    \/ RevokeKey(c) \/ DestroySession(c) \/ DeleteSession(c)
    \/ KeyReadFails(c) \/ OperationFails(c)

Next == \E c \in Conns : Arrive(c) \/ SocketCloses(c) \/ Process(c)

Spec == Init /\ [][Next]_vars

(***************************************************************************)
(* Every awaited operation settles, and a socket that close() was called   *)
(* on closes.  Nothing obliges a client to send or to hang up.             *)
(***************************************************************************)
FairSpec ==
    /\ Spec
    /\ \A c \in Conns :
        /\ WF_vars(Process(c))
        /\ WF_vars(socket[c] = "closing" /\ SocketCloses(c))

-----------------------------------------------------------------------------
(***************************************************************************)
(* The types.                                                              *)
(***************************************************************************)
SubjectOrNone == Subjects \cup {None, Unset}
Steps == {"idle", "salts", "session", "touch", "delete", "save", "other", "bindUser",
          "patch", "unbindUser", "revokeKey", "destroy_session", "destroy"}
Work == [at : Steps, rec : Subjects \cup {None}, existing : SubjectOrNone,
         requests : Seq(Request)]

\* The kind of request whose awaits a step is among.
KindOf(step) == IF step = "patch" THEN "bindUser"
                ELSE IF step = "destroy" THEN "destroy_session" ELSE step
RequestSteps == Steps \ {"idle", "salts", "session", "touch", "delete", "save"}
AtItsRequest(w) ==
    w.at \in RequestSteps => w.requests # <<>> /\ Head(w.requests).kind = KindOf(w.at)

Ctx == [key : Keys \cup {None}, sess : Sessions \cup {None}, subject : SubjectOrNone]

\* A stored session; what is read where there is none is told apart from it.
StoredSession == [key : Keys, subject : Subjects \cup {Unset}]
ASSUME NoneIsNoSession == None \notin StoredSession

StorageType ==
    /\ keys \in [Keys -> [blocked : BOOLEAN, subject : Subjects \cup {None}]]
    /\ sessions \in [Sessions -> StoredSession \cup {None}]
    /\ bound \in [Keys -> SUBSET Subjects]
    /\ announced \in [Conns -> [Sessions -> Nat]]
    /\ ended \in [Sessions -> Nat]
CarrierType ==
    /\ socket \in [Conns -> {"open", "closing", "closed"}]
    /\ queue \in [Conns -> Seq(Packet)]
    /\ sent \in [Conns -> Nat]
    /\ failures \in 0..MaxFailures
ProcessType ==
    /\ ctx \in [Conns -> Ctx]
    /\ work \in [Conns -> Work]
    /\ \A c \in Conns :
        /\ work[c].at # "idle" => ctx[c].key # None /\ ctx[c].sess # None
        /\ AtItsRequest(work[c])
RegistryType ==
    /\ regSubject \in [Conns -> SubjectOrNone]
    /\ regKey \in [Conns -> Keys \cup {None}]
    /\ keyConns \in [Keys -> SUBSET Conns]

TypeOK == StorageType /\ CarrierType /\ ProcessType /\ RegistryType

Handling(c) == work[c].at \in RequestSteps \ {"patch"}

(***************************************************************************)
(* A connection whose requests are served as some subject receives the     *)
(* updates pushed to that subject, whatever other connections do to the    *)
(* key and the session: unless its socket closed, the registry holds it    *)
(* under the subject in its context.  (Once an operation of the storage    *)
(* has rejected, a connection may be served as a subject it is not         *)
(* registered under, until its next packet.)                               *)
(***************************************************************************)
AuthorizedIsReachable ==
    failures = 0 =>
        \A c \in Conns :
            /\ socket[c] = "open"
            /\ work[c].at \notin {"save", "patch"}
            /\ ctx[c].subject # None
            => regSubject[c] = ctx[c].subject

(***************************************************************************)
(* The two structures the registry keeps for auth keys agree this far: the *)
(* key recorded for a connection lists it, so that pushes to the key reach *)
(* it and unregister() removes it.                                         *)
(***************************************************************************)
KeyIsReachable ==
    \A c \in Conns : regKey[c] # None => c \in keyConns[regKey[c]]

(***************************************************************************)
(* No subject leaks from one auth key to another, although a connection    *)
(* may change its key and session with every packet: a request is served   *)
(* as a subject that was bound on the key that sent it, and a stored       *)
(* session holds a subject that was bound on its key.                      *)
(***************************************************************************)
BoundOn(k, subject) == subject \in bound[k] \cup {None, Unset}

SubjectStaysWithKey ==
    /\ \A c \in Conns : Handling(c) => BoundOn(ctx[c].key, ctx[c].subject)
    /\ \A s \in Sessions :
        sessions[s] # None => BoundOn(sessions[s].key, sessions[s].subject)

(***************************************************************************)
(* architecture.md:73: new_session_created once.  A connection is told of  *)
(* a session once in the session's life, that is once more than its record *)
(* was removed, whatever other connections of the session save and remove  *)
(* between the awaits of ensureSession.                                    *)
(***************************************************************************)
AnnouncedOnce ==
    \A c \in Conns, s \in Sessions : announced[c][s] <= ended[s] + 1

(***************************************************************************)
(* A connection on which a packet of a blocked key waits is closed in the  *)
(* end, even if a packet read before the key was blocked is in process,    *)
(* unless an operation of the storage rejects meanwhile.  (A packet whose  *)
(* key cannot be read is dropped, and the connection stays.)               *)
(***************************************************************************)
NextOnBlockedKey(c) == queue[c] # <<>> /\ keys[Head(queue[c]).key].blocked

BlockedKeyIsShutOut ==
    \A c \in Conns, f \in 0..MaxFailures :
        NextOnBlockedKey(c) /\ failures = f ~> socket[c] = "closed" \/ failures > f
=============================================================================
