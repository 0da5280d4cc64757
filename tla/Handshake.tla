------------------------------- MODULE Handshake -------------------------------
(***************************************************************************)
(* The auth-key exchange of one gateway process                            *)
(* (packages/server/src/auth/handshake.ts and nonce-store.ts) with the     *)
(* clients that run it.  The state of an exchange is kept in memory under  *)
(* the client's nonce, with a ten-minute timer; its last step stores the   *)
(* key and seeds the salt schedule, and waits for each.  A connection      *)
(* processes one packet at a time, but a client that reconnects sends its  *)
(* last packet again, while the first copy may still be in process.        *)
(*                                                                         *)
(* Random numbers are distinct.  Server nonces and secret exponents are    *)
(* numbered as they are drawn; a client draws its new_nonce and exponent   *)
(* once per exchange, so that its nonce stands for them.  A key is then    *)
(* the exchange and the server's exponent, and the first salt, xor of      *)
(* new_nonce and server_nonce, the exchange and the server's nonce.        *)
(***************************************************************************)
EXTENDS Integers, Sequences, FiniteSets

CONSTANTS
    Nonces,      \* one per exchange a client starts
    Conns,       \* connections
    TTL,         \* TTL_MS of the nonce store
    MaxRepeats,  \* bound: packets a client sends again, per exchange
    MaxCrashes,  \* bound: restarts of the process
    User,        \* who logs in on the new key
    None         \* not drawn yet, not stored, anonymous

ASSUME HandshakeAssumption ==
    /\ TTL \in Nat \ {0}
    /\ MaxRepeats \in Nat /\ MaxCrashes \in Nat
    /\ None \notin Nat /\ User # None

VARIABLES
    store,    \* the nonce store: an exchange's server nonce, exponent, temporary key
    timers,   \* armed timers of the store: the nonce they delete, the time left
    drawn,    \* how many random numbers the process drew for each exchange
    keys,     \* the stored auth keys, with their subject
    salts,    \* the stored salts of each key
    packets,  \* on their way to the process, per connection
    answers,  \* on their way to the client, per connection
    work,     \* the set_client_DH_params in process on each connection
    client,   \* what the client of each exchange knows
    crashes   \* how often the process restarted

server == <<store, timers, drawn>>
storage == <<keys, salts>>
vars == <<store, timers, drawn, keys, salts, packets, answers, work, client, crashes>>

-----------------------------------------------------------------------------
Entry(sn) == [server |-> sn, a |-> None, tmp |-> None, age |-> 0]
NoWork == [at |-> "idle"]
NewClient == [at |-> "new", server |-> None, a |-> None, repeats |-> 0, conns |-> {}]

Key(n, a) == <<n, a>>
Salt(n, sn) == <<n, sn>>
Stored(k) == k \in DOMAIN keys

Init ==
    /\ store = [n \in Nonces |-> None]
    /\ timers = {}
    /\ drawn = [n \in Nonces |-> 0]
    /\ keys = [k \in {} |-> None]
    /\ salts = [k \in {} |-> {}]
    /\ packets = [c \in Conns |-> <<>>]
    /\ answers = [c \in Conns |-> <<>>]
    /\ work = [c \in Conns |-> NoWork]
    /\ client = [n \in Nonces |-> NewClient]
    /\ crashes = 0

-----------------------------------------------------------------------------
(***************************************************************************)
(* The nonce store.  An entry's age is the time since it was last set: its *)
(* own timer has the rest of TTL left.                                     *)
(***************************************************************************)
OwnTimer(n) ==
    IF store[n] = None THEN {} ELSE {[nonce |-> n, left |-> TTL - store[n].age]}

\* set(): clearTimeout of the entry that is there, a new timer, the new entry.
Rearmed_KeepsOld(n) == timers \cup {[nonce |-> n, left |-> TTL]}

Rearmed(n) == (timers \ OwnTimer(n)) \cup {[nonce |-> n, left |-> TTL]}

Set(n, entry) ==
    /\ store' = [store EXCEPT ![n] = entry]
    /\ timers' = Rearmed(n)

Without_Kept(n) == store

Without(n) == [store EXCEPT ![n] = None]

Delete(n) ==
    /\ store' = Without(n)
    /\ timers' = timers \ OwnTimer(n)

\* A timer runs out: it deletes whatever its nonce names by then.
Expire ==
    \E t \in timers :
        /\ t.left = 0
        /\ timers' = timers \ {t}
        /\ store' = [store EXCEPT ![t.nonce] = None]
        /\ UNCHANGED <<drawn, storage, packets, answers, work, client, crashes>>

Tick ==
    /\ timers # {}
    /\ \A t \in timers : t.left > 0
    /\ timers' = {[t EXCEPT !.left = @ - 1] : t \in timers}
    /\ store' = [n \in Nonces |->
                    IF store[n] = None THEN None
                    ELSE [store[n] EXCEPT !.age = IF @ < TTL THEN @ + 1 ELSE @]]
    /\ UNCHANGED <<drawn, storage, packets, answers, work, client, crashes>>

-----------------------------------------------------------------------------
(***************************************************************************)
(* The client: it sends each step on some connection, computes the key     *)
(* from the first server_DH_params_ok, and takes a dh_gen_ok that names    *)
(* its server nonce and the hash of its key, as MTProto asks of it (the    *)
(* repository's own test client, which checks neither, never resends).  It *)
(* may send the packet it waits for an answer to again, and gives up when  *)
(* told to regenerate; that answer, -404, names no nonce: on a connection  *)
(* a client has one exchange.                                              *)
(***************************************************************************)
Request(n, me) ==
    CASE me.at = "pq"  -> [step |-> "req_pq", nonce |-> n]
      [] me.at = "dh"  -> [step |-> "req_DH_params", nonce |-> n, server |-> me.server]
      [] me.at = "set" -> [step |-> "set_client_DH_params", nonce |-> n, server |-> me.server]

\* The client is at its next step, and sends its packet.
Proceed(n, c, me) ==
    /\ client' = [client EXCEPT ![n] = me]
    /\ packets' = [packets EXCEPT ![c] = Append(@, Request(n, me))]

Start(n, c) ==
    /\ client[n].at = "new"
    /\ Proceed(n, c, [client[n] EXCEPT !.at = "pq", !.conns = {c}])
    /\ UNCHANGED <<server, storage, answers, work, crashes>>

Repeat(n, c) ==
    /\ client[n].at \in {"pq", "dh", "set"}
    /\ client[n].repeats < MaxRepeats
    /\ Proceed(n, c, [client[n] EXCEPT !.repeats = @ + 1, !.conns = @ \cup {c}])
    /\ UNCHANGED <<server, storage, answers, work, crashes>>

\* What the client makes of an answer m to its exchange n; others it ignores.
TakeResPQ(c, n, m) ==
    /\ m.is = "resPQ" /\ client[n].at = "pq"
    /\ Proceed(n, c, [client[n] EXCEPT !.at = "dh", !.server = m.server])

TakeDhParams(c, n, m) ==
    /\ m.is = "server_DH_params_ok" /\ client[n].at = "dh" /\ m.server = client[n].server
    /\ Proceed(n, c, [client[n] EXCEPT !.at = "set", !.a = m.a])

TakeDhGenOk(n, m) ==
    /\ m.is = "dh_gen_ok" /\ client[n].at = "set"
    /\ m.server = client[n].server /\ m.a = client[n].a
    /\ client' = [client EXCEPT ![n].at = "done"]
    /\ UNCHANGED packets

GiveUp(n, m) ==
    /\ m.is = "-404" /\ client[n].at \in {"pq", "dh", "set"}
    /\ client' = [client EXCEPT ![n].at = "failed"]
    /\ UNCHANGED packets

Ignore(n, m) ==
    /\ CASE m.is = "resPQ" -> client[n].at # "pq"
         [] m.is = "server_DH_params_ok" -> client[n].at # "dh" \/ m.server # client[n].server
         [] m.is = "dh_gen_ok" -> \/ client[n].at # "set"
                                  \/ m.server # client[n].server \/ m.a # client[n].a
         [] m.is = "-404" -> client[n].at \notin {"pq", "dh", "set"}
    /\ UNCHANGED <<client, packets>>

Receive(c) ==
    /\ answers[c] # <<>>
    /\ answers' = [answers EXCEPT ![c] = Tail(@)]
    /\ LET m == Head(answers[c])
       IN \/ TakeResPQ(c, m.nonce, m)
          \/ TakeDhParams(c, m.nonce, m)
          \/ TakeDhGenOk(m.nonce, m)
          \/ GiveUp(m.nonce, m)
          \/ Ignore(m.nonce, m)
    /\ UNCHANGED <<server, storage, work, crashes>>

\* The new key is used, and a handler binds a user to it.
Login(n) ==
    LET k == Key(n, client[n].a)
    IN /\ client[n].at = "done"
       /\ Stored(k)
       /\ client' = [client EXCEPT ![n].at = "in"]
       /\ keys' = [keys EXCEPT ![k] = User]
       /\ UNCHANGED <<server, salts, packets, answers, work, crashes>>

-----------------------------------------------------------------------------
(***************************************************************************)
(* The handlers.  The first two run without a pause.  The third decides    *)
(* with the entry it finds and goes on with that entry's values.           *)
(***************************************************************************)
Answer(c, m) == answers' = [answers EXCEPT ![c] = Append(@, m)]

NextRandom(n) == drawn[n] + 1

Draw(n) == drawn' = [drawn EXCEPT ![n] = NextRandom(n)]

HandleReqPq(c, p) ==
    LET sn == NextRandom(p.nonce)
    IN /\ p.step = "req_pq"
       /\ Draw(p.nonce)
       /\ Set(p.nonce, Entry(sn))
       /\ Answer(c, [is |-> "resPQ", nonce |-> p.nonce, server |-> sn])
       /\ UNCHANGED work

HandleReqDhParams(c, p) ==
    LET a == NextRandom(p.nonce)
    IN /\ p.step = "req_DH_params"
       /\ store[p.nonce] # None
       /\ Draw(p.nonce)
       /\ Set(p.nonce, [store[p.nonce] EXCEPT !.a = a, !.tmp = p.server, !.age = 0])
       /\ Answer(c, [is |-> "server_DH_params_ok", nonce |-> p.nonce, server |-> p.server, a |-> a])
       /\ UNCHANGED work

\* What is encrypted under another temporary key decrypts to garbage.
CanComplete(p) ==
    /\ store[p.nonce] # None
    /\ store[p.nonce].a # None
    /\ store[p.nonce].tmp = p.server

HandleSetClientDhParams(c, p) ==
    /\ p.step = "set_client_DH_params"
    /\ CanComplete(p)
    /\ work' = [work EXCEPT ![c] = [at |-> "create", nonce |-> p.nonce,
                                    server |-> store[p.nonce].server, a |-> store[p.nonce].a]]
    /\ UNCHANGED <<server, answers>>

RegenerateKey(c, p) ==
    /\ \/ p.step = "req_DH_params" /\ store[p.nonce] = None
       \/ p.step = "set_client_DH_params" /\ ~CanComplete(p)
    /\ Answer(c, [is |-> "-404", nonce |-> p.nonce])
    /\ UNCHANGED <<server, work>>

Process(c) ==
    /\ work[c] = NoWork
    /\ packets[c] # <<>>
    /\ packets' = [packets EXCEPT ![c] = Tail(@)]
    /\ LET p == Head(packets[c])
       IN \/ HandleReqPq(c, p)
          \/ HandleReqDhParams(c, p)
          \/ HandleSetClientDhParams(c, p)
          \/ RegenerateKey(c, p)
    /\ UNCHANGED <<storage, client, crashes>>

WorkKey(c) == Key(work[c].nonce, work[c].a)

\* authKeys.create(): an upsert that sets every field, the subject to null.
Create(c) ==
    /\ work[c].at = "create"
    /\ keys' = [k \in DOMAIN keys \cup {WorkKey(c)} |-> IF k = WorkKey(c) THEN None ELSE keys[k]]
    /\ work' = [work EXCEPT ![c].at = "list"]
    /\ UNCHANGED <<server, salts, packets, answers, client, crashes>>

SaltsOf(k) == IF k \in DOMAIN salts THEN salts[k] ELSE {}

\* saltService.seed(): nothing to do if there is a schedule.
ListSalts(c) ==
    /\ work[c].at = "list"
    /\ work' = [work EXCEPT ![c].at = IF SaltsOf(WorkKey(c)) = {} THEN "append" ELSE "reply"]
    /\ UNCHANGED <<server, storage, packets, answers, client, crashes>>

FirstSalt_FromStore(c) ==
    LET now == store[work[c].nonce]
    IN Salt(work[c].nonce, IF now = None THEN work[c].server ELSE now.server)

FirstSalt(c) == Salt(work[c].nonce, work[c].server)

AppendSalt(c) ==
    LET k == WorkKey(c)
    IN /\ work[c].at = "append"
       /\ salts' = [j \in DOMAIN salts \cup {k} |->
                       IF j = k THEN SaltsOf(k) \cup {FirstSalt(c)} ELSE salts[j]]
       /\ work' = [work EXCEPT ![c].at = "reply"]
       /\ UNCHANGED <<server, keys, packets, answers, client, crashes>>

Confirm(c) ==
    /\ work[c].at = "reply"
    /\ Delete(work[c].nonce)
    /\ Answer(c, [is |-> "dh_gen_ok", nonce |-> work[c].nonce, server |-> work[c].server,
                  a |-> work[c].a])
    /\ work' = [work EXCEPT ![c] = NoWork]
    /\ UNCHANGED <<drawn, storage, packets, client, crashes>>

\* A storage call rejects: enqueue() swallows it, the client hears nothing.
AfterFailure_GoesOn(c) == [work[c] EXCEPT !.at = "reply"]

AfterFailure(c) == NoWork

StorageFails(c) ==
    /\ work[c].at \in {"create", "list", "append"}
    /\ work' = [work EXCEPT ![c] = AfterFailure(c)]
    /\ UNCHANGED <<server, storage, packets, answers, client, crashes>>

\* The process restarts: all but the storage is lost.
Crash ==
    /\ crashes < MaxCrashes
    /\ crashes' = crashes + 1
    /\ store' = [n \in Nonces |-> None]
    /\ timers' = {}
    /\ packets' = [c \in Conns |-> <<>>]
    /\ answers' = [c \in Conns |-> <<>>]
    /\ work' = [c \in Conns |-> NoWork]
    /\ UNCHANGED <<drawn, storage, client>>

-----------------------------------------------------------------------------
Next ==
    \/ \E n \in Nonces, c \in Conns : Start(n, c) \/ Repeat(n, c)
    \/ \E n \in Nonces : Login(n)
    \/ \E c \in Conns :
        \/ Receive(c) \/ Process(c)
        \/ Create(c) \/ ListSalts(c) \/ AppendSalt(c) \/ Confirm(c) \/ StorageFails(c)
    \/ Expire \/ Tick \/ Crash

Spec == Init /\ [][Next]_vars

-----------------------------------------------------------------------------
Known == Nat \cup {None}

Messages ==
    [is : {"resPQ"}, nonce : Nonces, server : Nat]
        \cup [is : {"server_DH_params_ok", "dh_gen_ok"}, nonce : Nonces, server : Nat, a : Nat]
        \cup [is : {"-404"}, nonce : Nonces]

Steps ==
    [step : {"req_pq"}, nonce : Nonces]
        \cup [step : {"req_DH_params", "set_client_DH_params"}, nonce : Nonces, server : Nat]

Entries == [server : Nat, a : Known, tmp : Known, age : 0..TTL]

\* What get() returns for a nonce it does not know is told apart from every entry.
ASSUME NoneIsNoEntry == None \notin Entries

Works == [at : {"create", "list", "append", "reply"}, nonce : Nonces, server : Nat, a : Nat]

Clients ==
    [at : {"new", "pq", "dh", "set", "done", "in", "failed"}, server : Known, a : Known,
     repeats : 0..MaxRepeats, conns : SUBSET Conns]

\* An entry's temporary key comes with its exponent.
StoreType ==
    /\ store \in [Nonces -> Entries \cup {None}]
    /\ \A n \in Nonces : store[n] # None => (store[n].a = None <=> store[n].tmp = None)
    /\ timers \subseteq [nonce : Nonces, left : 0..TTL]
    /\ drawn \in [Nonces -> Nat]

StorageType ==
    /\ keys \in [DOMAIN keys -> {User, None}]
    /\ DOMAIN keys \subseteq Nonces \X Nat
    /\ salts \in [DOMAIN salts -> SUBSET (Nonces \X Nat)]
    /\ DOMAIN salts \subseteq Nonces \X Nat

WireType ==
    /\ packets \in [Conns -> Seq(Steps)]
    /\ answers \in [Conns -> Seq(Messages)]

WorkType == work \in [Conns -> Works \cup {NoWork}]

\* Past resPQ a client knows the server nonce, past server_DH_params_ok its key.
ClientType ==
    /\ client \in [Nonces -> Clients]
    /\ \A n \in Nonces :
        /\ client[n].at \in {"dh", "set", "done", "in"} => client[n].server # None
        /\ client[n].at \in {"set", "done", "in"} => client[n].a # None

TypeOK ==
    /\ StoreType /\ StorageType /\ WireType /\ WorkType /\ ClientType
    /\ crashes \in 0..MaxCrashes

Established(n) == client[n].at \in {"done", "in"}

(***************************************************************************)
(* A client that took a dh_gen_ok finds its key in the storage, whatever   *)
(* was sent twice, failed or restarted on the way                          *)
(* (handleSetClientDhParams answers only after create).                    *)
(***************************************************************************)
ConfirmedIsShared == \A n \in Nonces : Established(n) => Stored(Key(n, client[n].a))

(***************************************************************************)
(* The salt schedule of a confirmed key starts with the salt the client    *)
(* derives, so that its first packet is accepted: also if the exchange was *)
(* started over, or the key seeded twice, between the awaits.              *)
(***************************************************************************)
FirstSaltAgreed ==
    \A n \in Nonces :
        Established(n) => SaltsOf(Key(n, client[n].a)) = {Salt(n, client[n].server)}

(***************************************************************************)
(* A login stays: a copy of the client's last packet does not create the   *)
(* key again, as an anonymous one.  This holds for a client that kept to   *)
(* one connection, where the copy comes after the entry is deleted.        *)
(***************************************************************************)
LoginKept ==
    \A n \in Nonces :
        (client[n].at = "in" /\ Cardinality(client[n].conns) = 1)
            => keys[Key(n, client[n].a)] = User

(***************************************************************************)
(* An exchange is given up only TTL after its last step: no timer of an    *)
(* earlier step, or of an earlier exchange with this nonce, ends it.       *)
(***************************************************************************)
KeptForItsTime ==
    [][Expire => \A n \in Nonces :
          (store[n] # None /\ store'[n] = None) => store[n].age = TTL]_vars
=============================================================================
