--------------------------- MODULE HandshakeProofs ---------------------------
(***************************************************************************)
(* What Handshake guarantees for any number of exchanges and connections,  *)
(* any packets sent again, storage failures and restarts.                  *)
(***************************************************************************)
EXTENDS Handshake, SequenceTheorems, FiniteSetTheorems, TLAPS

LEMMA TypeInit == Init => TypeOK
  BY HandshakeAssumption DEF Init, TypeOK, StoreType, StorageType, WireType, WorkType, ClientType,
                             NewClient, Clients, Known

\* What the handlers write to the nonce store is well-typed.
LEMMA SetType ==
    ASSUME StoreType, NEW n \in Nonces, NEW entry \in Entries,
           entry.a = None <=> entry.tmp = None,
           Set(n, entry), Draw(n)
    PROVE  StoreType'
  <1>1. store' \in [Nonces -> Entries \cup {None}] /\ store'[n] = entry
    BY DEF Set, StoreType
  <1>2. ASSUME NEW m \in Nonces, store'[m] # None
        PROVE  store'[m].a = None <=> store'[m].tmp = None
    BY <1>2 DEF Set, StoreType
  <1>3. timers' \subseteq [nonce : Nonces, left : 0..TTL]
    BY HandshakeAssumption DEF Set, Rearmed, StoreType
  <1>4. drawn' \in [Nonces -> Nat]
    BY DEF Draw, NextRandom, StoreType
  <1>5. QED
    BY <1>1, <1>2, <1>3, <1>4 DEF StoreType

LEMMA DeleteType ==
    ASSUME StoreType, NEW n \in Nonces, Delete(n), UNCHANGED drawn
    PROVE  StoreType'
  BY DEF Delete, Without, StoreType

LEMMA ExpireType == ASSUME StoreType, Expire PROVE StoreType'
  <1>1. PICK t \in timers : /\ timers' = timers \ {t}
                            /\ store' = [store EXCEPT ![t.nonce] = None]
    BY DEF Expire
  <1>2. QED
    BY <1>1 DEF Expire, StoreType

LEMMA TickType == ASSUME StoreType, Tick PROVE StoreType'
  <1>1. timers' \subseteq [nonce : Nonces, left : 0..TTL]
    <2>1. SUFFICES ASSUME NEW t \in timers
                   PROVE  [t EXCEPT !.left = @ - 1] \in [nonce : Nonces, left : 0..TTL]
      BY DEF Tick
    <2>2. t \in [nonce : Nonces, left : 0..TTL] /\ t.left > 0
      BY DEF Tick, StoreType
    <2>3. t.left - 1 \in 0..TTL
      BY <2>2, HandshakeAssumption
    <2>4. QED
      BY <2>2, <2>3
  <1>2. ASSUME NEW n \in Nonces
        PROVE  /\ store'[n] \in Entries \cup {None}
               /\ store'[n] # None => (store'[n].a = None <=> store'[n].tmp = None)
    <2>1. CASE store[n] = None
      BY <2>1 DEF Tick
    <2>2. CASE store[n] # None
      <3>1. store[n] \in Entries /\ (store[n].a = None <=> store[n].tmp = None)
        BY <2>2 DEF StoreType
      <3>2. store'[n] = [store[n] EXCEPT !.age = IF @ < TTL THEN @ + 1 ELSE @]
        BY <2>2 DEF Tick
      <3>3. (IF store[n].age < TTL THEN store[n].age + 1 ELSE store[n].age) \in 0..TTL
        BY <3>1, HandshakeAssumption DEF Entries
      <3>4. QED
        BY <3>1, <3>2, <3>3 DEF Entries
    <2>3. QED
      BY <2>1, <2>2
  <1>3. store' = [n \in Nonces |-> store'[n]] /\ drawn' = drawn
    BY DEF Tick
  <1>4. QED
    BY <1>1, <1>2, <1>3 DEF StoreType

-----------------------------------------------------------------------------
\* The packet a client sends at its step is well-typed.
LEMMA RequestType ==
    ASSUME NEW n \in Nonces, NEW me \in Clients, me.at \in {"pq", "dh", "set"},
           me.at \in {"dh", "set"} => me.server # None
    PROVE  Request(n, me) \in Steps
  BY DEF Request, Steps, Clients, Known

LEMMA ProceedType ==
    ASSUME ClientType, packets \in [Conns -> Seq(Steps)], NEW n \in Nonces, NEW c \in Conns,
           NEW me \in Clients, me.at \in {"pq", "dh", "set"},
           me.at \in {"dh", "set"} => me.server # None,
           me.at = "set" => me.a # None,
           Proceed(n, c, me)
    PROVE  ClientType' /\ packets' \in [Conns -> Seq(Steps)]
  <1>1. Request(n, me) \in Steps
    BY RequestType
  <1>2. Append(packets[c], Request(n, me)) \in Seq(Steps)
    BY <1>1
  <1>3. packets' \in [Conns -> Seq(Steps)]
    BY <1>2 DEF Proceed
  <1>4. ClientType'
    BY DEF Proceed, ClientType
  <1>5. QED
    BY <1>3, <1>4

LEMMA StartType ==
    ASSUME TypeOK, NEW n \in Nonces, NEW c \in Conns, Start(n, c)
    PROVE  ClientType' /\ packets' \in [Conns -> Seq(Steps)]
  <1> DEFINE me == [client[n] EXCEPT !.at = "pq", !.conns = {c}]
  <1>1. me \in Clients /\ me.at = "pq"
    BY DEF TypeOK, ClientType, Clients
  <1>2. Proceed(n, c, me)
    BY DEF Start
  <1> HIDE DEF me
  <1>3. QED
    BY <1>1, <1>2, ProceedType DEF TypeOK, WireType

LEMMA RepeatType ==
    ASSUME TypeOK, NEW n \in Nonces, NEW c \in Conns, Repeat(n, c)
    PROVE  ClientType' /\ packets' \in [Conns -> Seq(Steps)]
  <1> DEFINE me == [client[n] EXCEPT !.repeats = @ + 1, !.conns = @ \cup {c}]
  <1>1. client[n] \in Clients /\ client[n].repeats + 1 \in 0..MaxRepeats
    BY HandshakeAssumption DEF TypeOK, ClientType, Clients, Repeat
  <1>2. me \in Clients /\ me.at = client[n].at /\ me.server = client[n].server /\ me.a = client[n].a
    BY <1>1 DEF Clients
  <1>3. Proceed(n, c, me) /\ client[n].at \in {"pq", "dh", "set"}
    BY DEF Repeat
  <1>4. /\ client[n].at \in {"dh", "set"} => client[n].server # None
        /\ client[n].at = "set" => client[n].a # None
    BY DEF TypeOK, ClientType
  <1> HIDE DEF me
  <1>5. QED
    BY <1>2, <1>3, <1>4, ProceedType DEF TypeOK, WireType

\* A client takes an answer, or does not.
LEMMA ReceiveType ==
    ASSUME TypeOK, NEW c \in Conns, Receive(c)
    PROVE  ClientType' /\ WireType'
  <1> DEFINE m == Head(answers[c])
             n == m.nonce
  <1>1. answers[c] \in Seq(Messages) /\ answers[c] # <<>>
    BY DEF TypeOK, WireType, Receive
  <1>2. m \in Messages /\ Tail(answers[c]) \in Seq(Messages)
    BY <1>1
  <1>3. n \in Nonces
    BY <1>2 DEF Messages
  <1>4. answers' \in [Conns -> Seq(Messages)]
    BY <1>2 DEF Receive, TypeOK, WireType
  <1>5. \/ TakeResPQ(c, n, m) \/ TakeDhParams(c, n, m)
        \/ TakeDhGenOk(n, m) \/ GiveUp(n, m) \/ Ignore(n, m)
    BY DEF Receive
  <1>6. client[n] \in Clients /\ packets \in [Conns -> Seq(Steps)] /\ ClientType
    BY <1>3 DEF TypeOK, ClientType, WireType
  <1> HIDE DEF m, n
  <1>7. CASE TakeResPQ(c, n, m)
    <2> DEFINE me == [client[n] EXCEPT !.at = "dh", !.server = m.server]
    <2>1. m.server \in Nat /\ m.server # None
      BY <1>2, <1>7, HandshakeAssumption DEF TakeResPQ, Messages
    <2>2. me \in Clients /\ me.at = "dh" /\ me.server # None
      BY <1>6, <2>1 DEF Clients, Known
    <2>3. Proceed(n, c, me)
      BY <1>7 DEF TakeResPQ
    <2> HIDE DEF me
    <2>4. QED
      BY <1>3, <1>4, <1>6, <2>2, <2>3, ProceedType DEF WireType
  <1>8. CASE TakeDhParams(c, n, m)
    <2> DEFINE me == [client[n] EXCEPT !.at = "set", !.a = m.a]
    <2>1. m.a \in Nat /\ m.a # None
      BY <1>2, <1>8, HandshakeAssumption DEF TakeDhParams, Messages
    <2>2. client[n].server # None
      BY <1>3, <1>6, <1>8 DEF TakeDhParams, ClientType
    <2>3. me \in Clients /\ me.at = "set" /\ me.server # None /\ me.a # None
      BY <1>6, <2>1, <2>2 DEF Clients, Known
    <2>4. Proceed(n, c, me)
      BY <1>8 DEF TakeDhParams
    <2> HIDE DEF me
    <2>5. QED
      BY <1>3, <1>4, <1>6, <2>3, <2>4, ProceedType DEF WireType
  <1>9. CASE TakeDhGenOk(n, m)
    <2>1. ClientType'
      BY <1>3, <1>6, <1>9 DEF TakeDhGenOk, ClientType, Clients
    <2>2. QED
      BY <1>4, <1>6, <1>9, <2>1 DEF TakeDhGenOk, WireType
  <1>10. CASE GiveUp(n, m)
    <2>1. ClientType'
      BY <1>3, <1>6, <1>10 DEF GiveUp, ClientType, Clients
    <2>2. QED
      BY <1>4, <1>6, <1>10, <2>1 DEF GiveUp, WireType
  <1>11. CASE Ignore(n, m)
    BY <1>4, <1>6, <1>11 DEF Ignore, ClientType, WireType
  <1>12. QED
    BY <1>5, <1>7, <1>8, <1>9, <1>10, <1>11

-----------------------------------------------------------------------------
LEMMA AnswerType ==
    ASSUME TypeOK, NEW c \in Conns, NEW m \in Messages, Answer(c, m)
    PROVE  answers' \in [Conns -> Seq(Messages)]
  <1>1. Append(answers[c], m) \in Seq(Messages)
    BY DEF TypeOK, WireType
  <1>2. QED
    BY <1>1 DEF Answer, TypeOK, WireType

\* The handler of each step.
LEMMA ProcessType ==
    ASSUME TypeOK, NEW c \in Conns, Process(c)
    PROVE  StoreType' /\ WorkType' /\ WireType'
  <1> DEFINE p == Head(packets[c])
  <1>1. packets[c] \in Seq(Steps) /\ packets[c] # <<>>
    BY DEF TypeOK, WireType, Process
  <1>2. p \in Steps /\ Tail(packets[c]) \in Seq(Steps)
    BY <1>1
  <1>3. packets' \in [Conns -> Seq(Steps)]
    BY <1>2 DEF Process, TypeOK, WireType
  <1>4. p.nonce \in Nonces
    BY <1>2 DEF Steps
  <1>5. drawn[p.nonce] + 1 \in Nat /\ drawn[p.nonce] + 1 # None
    BY <1>4, HandshakeAssumption DEF TypeOK, StoreType
  <1>6. \/ HandleReqPq(c, p) \/ HandleReqDhParams(c, p)
        \/ HandleSetClientDhParams(c, p) \/ RegenerateKey(c, p)
    BY DEF Process
  <1>7. store[p.nonce] # None =>
            /\ store[p.nonce] \in Entries
            /\ store[p.nonce].a = None <=> store[p.nonce].tmp = None
    BY <1>4 DEF TypeOK, StoreType
  <1> HIDE DEF p
  <1>8. CASE HandleReqPq(c, p)
    <2> DEFINE sn == drawn[p.nonce] + 1
               m == [is |-> "resPQ", nonce |-> p.nonce, server |-> sn]
    <2>1. Entry(sn) \in Entries /\ Entry(sn).a = None /\ Entry(sn).tmp = None
      BY <1>5, HandshakeAssumption DEF Entry, Entries, Known
    <2>2. m \in Messages
      BY <1>4, <1>5 DEF Messages
    <2>3. Set(p.nonce, Entry(sn)) /\ Draw(p.nonce) /\ Answer(c, m) /\ UNCHANGED work
      BY <1>8 DEF HandleReqPq, NextRandom
    <2> HIDE DEF sn, m
    <2>4. StoreType'
      BY <1>4, <2>1, <2>3, SetType DEF TypeOK
    <2>5. QED
      BY <1>3, <2>2, <2>3, <2>4, AnswerType DEF TypeOK, WorkType, WireType
  <1>9. CASE HandleReqDhParams(c, p)
    <2> DEFINE a == drawn[p.nonce] + 1
               entry == [store[p.nonce] EXCEPT !.a = a, !.tmp = p.server, !.age = 0]
               m == [is |-> "server_DH_params_ok", nonce |-> p.nonce,
                     server |-> p.server, a |-> a]
    <2>1. p.server \in Nat /\ p.server # None
      BY <1>2, <1>9, HandshakeAssumption DEF HandleReqDhParams, Steps
    <2>2. entry \in Entries /\ (entry.a = None <=> entry.tmp = None)
      <3>1. store[p.nonce] \in Entries
        BY <1>7, <1>9 DEF HandleReqDhParams
      <3>2. a \in Known /\ p.server \in Known /\ 0 \in 0..TTL
        BY <1>5, <2>1, HandshakeAssumption DEF Known
      <3> HIDE DEF a
      <3>3. entry \in Entries /\ entry.a = a /\ entry.tmp = p.server
        BY <3>1, <3>2 DEF Entries
      <3>4. a # None
        BY <1>5 DEF a
      <3>5. QED
        BY <2>1, <3>3, <3>4
    <2>3. m \in Messages
      BY <1>4, <1>5, <2>1 DEF Messages
    <2>4. Set(p.nonce, entry) /\ Draw(p.nonce) /\ Answer(c, m) /\ UNCHANGED work
      BY <1>9 DEF HandleReqDhParams, NextRandom
    <2> HIDE DEF a, entry, m
    <2>5. StoreType'
      BY <1>4, <2>2, <2>4, SetType DEF TypeOK
    <2>6. QED
      BY <1>3, <2>3, <2>4, <2>5, AnswerType DEF TypeOK, WorkType, WireType
  <1>10. CASE HandleSetClientDhParams(c, p)
    <2> DEFINE w == [at |-> "create", nonce |-> p.nonce,
                     server |-> store[p.nonce].server, a |-> store[p.nonce].a]
    <2>1. store[p.nonce] \in Entries /\ store[p.nonce].a # None
      BY <1>7, <1>10 DEF HandleSetClientDhParams, CanComplete
    <2>2. w \in Works
      BY <1>4, <2>1 DEF Works, Entries, Known
    <2>3. work' = [work EXCEPT ![c] = w]
      BY <1>10 DEF HandleSetClientDhParams
    <2> HIDE DEF w
    <2>4. WorkType'
      BY <2>2, <2>3 DEF TypeOK, WorkType
    <2>5. QED
      BY <1>3, <1>10, <2>4 DEF HandleSetClientDhParams, server, TypeOK, StoreType, WireType
  <1>11. CASE RegenerateKey(c, p)
    <2> DEFINE m == [is |-> "-404", nonce |-> p.nonce]
    <2>1. m \in Messages
      BY <1>4 DEF Messages
    <2>2. Answer(c, m) /\ UNCHANGED <<store, timers, drawn, work>>
      BY <1>11 DEF RegenerateKey, server
    <2> HIDE DEF m
    <2>3. QED
      BY <1>3, <2>1, <2>2, AnswerType DEF TypeOK, StoreType, WorkType, WireType
  <1>12. QED
    BY <1>6, <1>8, <1>9, <1>10, <1>11

\* A set_client_DH_params in process, wherever it stands.
LEMMA WorkFields ==
    ASSUME WorkType, NEW c \in Conns, work[c].at # "idle"
    PROVE  /\ work[c] \in Works
           /\ work[c].nonce \in Nonces /\ work[c].server \in Nat /\ work[c].a \in Nat
           /\ WorkKey(c) \in Nonces \X Nat
  BY DEF WorkType, Works, NoWork, WorkKey, Key

LEMMA WorkMoves ==
    ASSUME WorkType, NEW c \in Conns, work[c].at # "idle",
           NEW at \in {"create", "list", "append", "reply"},
           work' = [work EXCEPT ![c].at = at]
    PROVE  WorkType'
  <1>1. work[c] \in Works
    BY WorkFields
  <1>2. [work[c] EXCEPT !.at = at] \in Works
    BY <1>1 DEF Works
  <1>3. QED
    BY <1>2 DEF WorkType

LEMMA WorkEnds ==
    ASSUME WorkType, NEW c \in Conns, work' = [work EXCEPT ![c] = NoWork]
    PROVE  WorkType'
  BY DEF WorkType

LEMMA AppendType ==
    ASSUME TypeOK, NEW c \in Conns, AppendSalt(c)
    PROVE  StorageType'
  <1>1. WorkKey(c) \in Nonces \X Nat /\ FirstSalt(c) \in Nonces \X Nat
    BY WorkFields DEF TypeOK, AppendSalt, FirstSalt, Salt
  <1>2. SaltsOf(WorkKey(c)) \subseteq Nonces \X Nat
    BY DEF TypeOK, StorageType, SaltsOf
  <1>3. /\ DOMAIN salts' = DOMAIN salts \cup {WorkKey(c)}
        /\ \A j \in DOMAIN salts' :
              salts'[j] = IF j = WorkKey(c) THEN SaltsOf(WorkKey(c)) \cup {FirstSalt(c)} ELSE salts[j]
        /\ salts' = [j \in DOMAIN salts' |-> salts'[j]]
    BY DEF AppendSalt
  <1>4. keys' = keys
    BY DEF AppendSalt
  <1>5. QED
    BY <1>1, <1>2, <1>3, <1>4 DEF TypeOK, StorageType

LEMMA ConfirmType ==
    ASSUME TypeOK, NEW c \in Conns, Confirm(c)
    PROVE  StoreType' /\ WorkType' /\ WireType'
  <1> DEFINE m == [is |-> "dh_gen_ok", nonce |-> work[c].nonce, server |-> work[c].server,
                   a |-> work[c].a]
  <1>1. work[c].nonce \in Nonces /\ m \in Messages
    BY WorkFields DEF TypeOK, Confirm, Messages
  <1>2. Answer(c, m) /\ Delete(work[c].nonce) /\ work' = [work EXCEPT ![c] = NoWork]
        /\ UNCHANGED <<drawn, packets>>
    BY DEF Confirm
  <1> HIDE DEF m
  <1>3. QED
    BY <1>1, <1>2, AnswerType, DeleteType, WorkEnds DEF TypeOK, WireType

-----------------------------------------------------------------------------
LEMMA TypeStep == TypeOK /\ [Next]_vars => TypeOK'
  <1> SUFFICES ASSUME TypeOK, [Next]_vars PROVE TypeOK'
    OBVIOUS
  <1> USE DEF server, storage
  <1>1. ASSUME NEW n \in Nonces, NEW c \in Conns, Start(n, c) \/ Repeat(n, c) PROVE TypeOK'
    BY <1>1, StartType, RepeatType
       DEF Start, Repeat, TypeOK, StoreType, StorageType, WireType, WorkType
  <1>2. ASSUME NEW n \in Nonces, Login(n) PROVE TypeOK'
    <2>1. StorageType'
      BY <1>2 DEF Login, Stored, TypeOK, StorageType
    <2>2. ClientType'
      BY <1>2 DEF Login, TypeOK, ClientType, Clients
    <2>3. QED
      BY <1>2, <2>1, <2>2 DEF Login, TypeOK, StoreType, WireType, WorkType
  <1>3. ASSUME NEW c \in Conns, Receive(c) PROVE TypeOK'
    BY <1>3, ReceiveType DEF Receive, TypeOK, StoreType, StorageType, WorkType
  <1>4. ASSUME NEW c \in Conns, Process(c) PROVE TypeOK'
    BY <1>4, ProcessType DEF Process, TypeOK, StorageType, ClientType
  <1>5. ASSUME NEW c \in Conns, Create(c) PROVE TypeOK'
    <2>1. WorkKey(c) \in Nonces \X Nat /\ WorkType'
      BY <1>5, WorkFields, WorkMoves DEF Create, TypeOK
    <2>2. /\ DOMAIN keys' = DOMAIN keys \cup {WorkKey(c)}
          /\ keys' \in [DOMAIN keys' -> {User, None}]
      BY <1>5 DEF Create, TypeOK, StorageType
    <2>3. QED
      BY <1>5, <2>1, <2>2 DEF Create, TypeOK, StoreType, StorageType, WireType, ClientType
  <1>6. ASSUME NEW c \in Conns, ListSalts(c) PROVE TypeOK'
    <2>1. WorkType'
      BY <1>6, WorkMoves DEF ListSalts, TypeOK
    <2>2. QED
      BY <1>6, <2>1 DEF ListSalts, TypeOK, StoreType, StorageType, WireType, ClientType
  <1>7. ASSUME NEW c \in Conns, AppendSalt(c) PROVE TypeOK'
    <2>1. WorkType'
      BY <1>7, WorkMoves DEF AppendSalt, TypeOK
    <2>2. QED
      BY <1>7, <2>1, AppendType DEF AppendSalt, TypeOK, StoreType, WireType, ClientType
  <1>8. ASSUME NEW c \in Conns, Confirm(c) PROVE TypeOK'
    BY <1>8, ConfirmType DEF Confirm, TypeOK, StorageType, ClientType
  <1>9. ASSUME NEW c \in Conns, StorageFails(c) PROVE TypeOK'
    BY <1>9, WorkEnds
       DEF StorageFails, AfterFailure, TypeOK, StoreType, StorageType, WireType, ClientType
  <1>10. CASE Expire
    BY <1>10, ExpireType DEF Expire, TypeOK, StorageType, WireType, WorkType, ClientType
  <1>11. CASE Tick
    BY <1>11, TickType DEF Tick, TypeOK, StorageType, WireType, WorkType, ClientType
  <1>12. CASE Crash
    BY <1>12, HandshakeAssumption
       DEF Crash, TypeOK, StoreType, StorageType, WireType, WorkType, ClientType
  <1>13. CASE UNCHANGED vars
    BY <1>13 DEF vars, TypeOK, StoreType, StorageType, WireType, WorkType, ClientType
  <1>14. QED
    BY <1>1, <1>2, <1>3, <1>4, <1>5, <1>6, <1>7, <1>8, <1>9, <1>10, <1>11, <1>12, <1>13 DEF Next

(***************************************************************************)
(* The state keeps its types, whatever is repeated, fails or restarts: an  *)
(* exponent never goes without the temporary key handleSetClientDhParams   *)
(* needs with it, nor a client's key without its server nonce.             *)
(***************************************************************************)
THEOREM TypeCorrect == Spec => []TypeOK
  BY TypeInit, TypeStep, PTL DEF Spec

-----------------------------------------------------------------------------
(***************************************************************************)
(* Why the first salt is agreed on: an exponent is drawn for one entry,    *)
(* so that whatever carries it (an entry, a packet in process, an answer,  *)
(* a stored salt, a client) carries the same server nonce.                 *)
(***************************************************************************)
InStore(n, a, sn) == store[n] # None /\ store[n].a = a /\ store[n].server = sn

InWork(n, a, sn) ==
    \E c \in Conns : /\ work[c].at # "idle"
                     /\ work[c].nonce = n /\ work[c].a = a /\ work[c].server = sn

\* The dh_gen_ok on their way over a connection.
Confirmations(c) ==
    {m \in {answers[c][i] : i \in DOMAIN answers[c]} : m.is = "dh_gen_ok"}

InAnswer(n, a, sn) ==
    \E c \in Conns : \E m \in Confirmations(c) : m.nonce = n /\ m.a = a /\ m.server = sn

InSalts(n, a, sn) == Salt(n, sn) \in SaltsOf(Key(n, a))

InClient(n, a, sn) == Established(n) /\ client[n].a = a /\ client[n].server = sn

Paired(n, a, sn) ==
    \/ InStore(n, a, sn) \/ InWork(n, a, sn) \/ InAnswer(n, a, sn)
    \/ InSalts(n, a, sn) \/ InClient(n, a, sn)

\* Whoever is past a step finds what that step stored.
Kept ==
    /\ \A c \in Conns : work[c].at \in {"list", "append", "reply"} => Stored(WorkKey(c))
    /\ \A c \in Conns : work[c].at = "reply" => SaltsOf(WorkKey(c)) # {}
    /\ \A c \in Conns : \A m \in Confirmations(c) :
          Stored(Key(m.nonce, m.a)) /\ SaltsOf(Key(m.nonce, m.a)) # {}
    /\ \A n \in Nonces :
          Established(n) => /\ Stored(Key(n, client[n].a))
                            /\ SaltsOf(Key(n, client[n].a)) # {}

OwnSalts == \A n \in Nonces, a \in Nat : \A s \in SaltsOf(Key(n, a)) : s[1] = n

DrawnBefore == \A n \in Nonces, a \in Nat, sn \in Nat : Paired(n, a, sn) => a <= drawn[n]

Unambiguous ==
    \A n \in Nonces, a \in Nat, sn \in Nat, sm \in Nat :
        Paired(n, a, sn) /\ Paired(n, a, sm) => sn = sm

IInv == TypeOK /\ Kept /\ OwnSalts /\ DrawnBefore /\ Unambiguous

-----------------------------------------------------------------------------
LEMMA KeptMeansShared == TypeOK /\ Kept => ConfirmedIsShared
  BY DEF Kept, ConfirmedIsShared

LEMMA AgreedOnFirstSalt == IInv => FirstSaltAgreed
  <1> SUFFICES ASSUME IInv, NEW n \in Nonces, Established(n)
               PROVE  SaltsOf(Key(n, client[n].a)) = {Salt(n, client[n].server)}
    BY DEF FirstSaltAgreed
  <1> DEFINE a == client[n].a
             sn == client[n].server
  <1>1. a \in Nat /\ sn \in Nat
    BY DEF IInv, TypeOK, ClientType, Clients, Known, Established
  <1>2. SaltsOf(Key(n, a)) # {} /\ SaltsOf(Key(n, a)) \subseteq Nonces \X Nat
    BY DEF IInv, Kept, TypeOK, StorageType, SaltsOf
  <1>3. InClient(n, a, sn)
    BY DEF InClient
  <1> HIDE DEF a, sn
  <1>4. ASSUME NEW s \in SaltsOf(Key(n, a)) PROVE s = Salt(n, sn)
    <2>1. s \in Nonces \X Nat /\ s[1] = n
      BY <1>1, <1>2 DEF IInv, OwnSalts
    <2>2. s = Salt(n, s[2]) /\ s[2] \in Nat
      BY <2>1 DEF Salt
    <2>3. InSalts(n, a, s[2])
      BY <2>2 DEF InSalts
    <2>4. s[2] = sn
      BY <1>1, <1>3, <2>2, <2>3 DEF IInv, Unambiguous, Paired
    <2>5. QED
      BY <2>2, <2>4
  <1>5. QED
    BY <1>2, <1>4 DEF a, sn

-----------------------------------------------------------------------------
\* A sequence gains an element, or loses its first.
LEMMA ConfirmationsGrow ==
    ASSUME TypeOK, NEW c \in Conns, NEW m \in Messages, Answer(c, m)
    PROVE  /\ Confirmations(c)' = Confirmations(c) \cup (IF m.is = "dh_gen_ok" THEN {m} ELSE {})
           /\ \A d \in Conns \ {c} : Confirmations(d)' = Confirmations(d)
  <1>1. answers[c] \in Seq(Messages)
    BY DEF TypeOK, WireType
  <1>2. answers'[c] = Append(answers[c], m) /\ \A d \in Conns \ {c} : answers'[d] = answers[d]
    BY DEF Answer, TypeOK, WireType
  <1>3. /\ DOMAIN Append(answers[c], m) = DOMAIN answers[c] \cup {Len(answers[c]) + 1}
        /\ \A i \in DOMAIN answers[c] : Append(answers[c], m)[i] = answers[c][i]
        /\ Append(answers[c], m)[Len(answers[c]) + 1] = m
    BY <1>1
  <1>4. {answers'[c][i] : i \in DOMAIN answers'[c]} =
            {answers[c][i] : i \in DOMAIN answers[c]} \cup {m}
    BY <1>2, <1>3
  <1>5. QED
    BY <1>2, <1>4 DEF Confirmations

LEMMA ConfirmationsShrink ==
    ASSUME TypeOK, NEW c \in Conns, Receive(c)
    PROVE  /\ \A d \in Conns : Confirmations(d)' \subseteq Confirmations(d)
           /\ Head(answers[c]).is = "dh_gen_ok" => Head(answers[c]) \in Confirmations(c)
  <1>1. answers[c] \in Seq(Messages) /\ answers[c] # <<>>
    BY DEF TypeOK, WireType, Receive
  <1>2. answers'[c] = Tail(answers[c]) /\ \A d \in Conns \ {c} : answers'[d] = answers[d]
    BY DEF Receive, TypeOK, WireType
  <1>3. \A i \in DOMAIN Tail(answers[c]) :
            i + 1 \in DOMAIN answers[c] /\ Tail(answers[c])[i] = answers[c][i + 1]
    BY <1>1
  <1>4. 1 \in DOMAIN answers[c] /\ Head(answers[c]) = answers[c][1]
    BY <1>1
  <1>5. {answers'[c][i] : i \in DOMAIN answers'[c]} \subseteq
            {answers[c][i] : i \in DOMAIN answers[c]}
    BY <1>2, <1>3
  <1>6. Confirmations(c)' \subseteq Confirmations(c)
    BY <1>5 DEF Confirmations
  <1>7. \A d \in Conns \ {c} : Confirmations(d)' = Confirmations(d)
    BY <1>2 DEF Confirmations
  <1>8. Head(answers[c]) \in {answers[c][i] : i \in DOMAIN answers[c]}
    BY <1>4
  <1>9. Head(answers[c]).is = "dh_gen_ok" => Head(answers[c]) \in Confirmations(c)
    BY <1>8 DEF Confirmations
  <1>10. QED
    BY <1>6, <1>7, <1>9

LEMMA ConfirmationsStay ==
    ASSUME UNCHANGED answers
    PROVE  \A d \in Conns : Confirmations(d)' = Confirmations(d)
  BY DEF Confirmations

\* What Process answers is never a dh_gen_ok.
LEMMA ProcessConfirmsNothing ==
    ASSUME TypeOK, NEW c \in Conns, Process(c)
    PROVE  \A d \in Conns : Confirmations(d)' = Confirmations(d)
  <1> DEFINE p == Head(packets[c])
  <1>1. packets[c] \in Seq(Steps) /\ packets[c] # <<>>
    BY DEF TypeOK, WireType, Process
  <1>2. p \in Steps
    BY <1>1
  <1>3. p.nonce \in Nonces /\ drawn[p.nonce] + 1 \in Nat
    BY <1>2 DEF Steps, TypeOK, StoreType
  <1>4. CASE UNCHANGED answers
    BY <1>4, ConfirmationsStay
  <1>5. ASSUME NEW m \in Messages, Answer(c, m), m.is # "dh_gen_ok"
        PROVE  \A d \in Conns : Confirmations(d)' = Confirmations(d)
    BY <1>5, ConfirmationsGrow
  <1>6. \/ HandleReqPq(c, p) \/ HandleReqDhParams(c, p)
        \/ HandleSetClientDhParams(c, p) \/ RegenerateKey(c, p)
    BY DEF Process
  <1> HIDE DEF p
  <1>7. CASE HandleReqPq(c, p)
    <2> DEFINE m == [is |-> "resPQ", nonce |-> p.nonce, server |-> drawn[p.nonce] + 1]
    <2>1. m \in Messages /\ m.is # "dh_gen_ok" /\ Answer(c, m)
      BY <1>3, <1>7 DEF Messages, HandleReqPq, NextRandom
    <2> HIDE DEF m
    <2>2. QED
      BY <2>1, <1>5
  <1>8. CASE HandleReqDhParams(c, p)
    <2> DEFINE m == [is |-> "server_DH_params_ok", nonce |-> p.nonce, server |-> p.server,
                     a |-> drawn[p.nonce] + 1]
    <2>1. p.server \in Nat
      BY <1>2, <1>8 DEF Steps, HandleReqDhParams
    <2>2. m \in Messages /\ m.is # "dh_gen_ok" /\ Answer(c, m)
      BY <1>3, <1>8, <2>1 DEF Messages, HandleReqDhParams, NextRandom
    <2> HIDE DEF m
    <2>3. QED
      BY <2>2, <1>5
  <1>9. CASE HandleSetClientDhParams(c, p)
    BY <1>4, <1>9 DEF HandleSetClientDhParams
  <1>10. CASE RegenerateKey(c, p)
    <2> DEFINE m == [is |-> "-404", nonce |-> p.nonce]
    <2>1. m \in Messages /\ m.is # "dh_gen_ok" /\ Answer(c, m)
      BY <1>3, <1>10 DEF Messages, RegenerateKey
    <2> HIDE DEF m
    <2>2. QED
      BY <2>1, <1>5
  <1>11. QED
    BY <1>6, <1>7, <1>8, <1>9, <1>10

\* The confirmation of a packet in process carries its values.
LEMMA ConfirmAdds ==
    ASSUME TypeOK, NEW c \in Conns, Confirm(c)
    PROVE  \A d \in Conns : \A m \in Confirmations(d)' :
              \/ m \in Confirmations(d)
              \/ m.nonce = work[c].nonce /\ m.server = work[c].server /\ m.a = work[c].a
  <1> DEFINE m == [is |-> "dh_gen_ok", nonce |-> work[c].nonce, server |-> work[c].server,
                   a |-> work[c].a]
  <1>1. m \in Messages
    BY WorkFields DEF TypeOK, Confirm, Messages
  <1>2. Answer(c, m)
    BY DEF Confirm
  <1>3. m.is = "dh_gen_ok" /\ m.nonce = work[c].nonce /\ m.server = work[c].server /\ m.a = work[c].a
    OBVIOUS
  <1> HIDE DEF m
  <1>4. \A d \in Conns : Confirmations(d)' \subseteq Confirmations(d) \cup {m}
    BY <1>1, <1>2, <1>3, ConfirmationsGrow
  <1>5. QED
    BY <1>3, <1>4

-----------------------------------------------------------------------------
\* What is stored stays stored.
LEMMA StorageGrows ==
    ASSUME [Next]_vars
    PROVE  \A k : /\ Stored(k) => Stored(k)'
                  /\ SaltsOf(k) \subseteq SaltsOf(k)'
  <1>1. CASE UNCHANGED storage
    BY <1>1 DEF storage, Stored, SaltsOf
  <1>2. CASE UNCHANGED salts /\ DOMAIN keys \subseteq DOMAIN keys'
    BY <1>2 DEF Stored, SaltsOf
  <1>3. ASSUME NEW c \in Conns, AppendSalt(c)
        PROVE  \A k : /\ Stored(k) => Stored(k)'
                      /\ SaltsOf(k) \subseteq SaltsOf(k)'
    BY <1>3 DEF AppendSalt, Stored, SaltsOf
  <1>4. ASSUME NEW n \in Nonces, Login(n) PROVE UNCHANGED salts /\ DOMAIN keys \subseteq DOMAIN keys'
    BY <1>4 DEF Login
  <1>5. ASSUME NEW c \in Conns, Create(c) PROVE UNCHANGED salts /\ DOMAIN keys \subseteq DOMAIN keys'
    BY <1>5 DEF Create
  <1>6. QED
    BY <1>1, <1>2, <1>3, <1>4, <1>5
       DEF Next, vars, storage, Start, Repeat, Receive, Process, ListSalts, Confirm, StorageFails,
           Expire, Tick, Crash

\* Of an exchange, only dh_gen_ok and the login that follows establish it.
LEMMA EstablishedBefore ==
    ASSUME TypeOK, [Next]_vars, NEW n \in Nonces, Established(n)'
    PROVE  \/ /\ Established(n)
              /\ client'[n].a = client[n].a /\ client'[n].server = client[n].server
           \/ \E c \in Conns : \E m \in Confirmations(c) :
                  /\ m.nonce = n /\ m.a = client'[n].a /\ m.server = client'[n].server
  <1> DEFINE Same == /\ Established(n)
                     /\ client'[n].a = client[n].a /\ client'[n].server = client[n].server
             Told == \E c \in Conns : \E m \in Confirmations(c) :
                        /\ m.nonce = n /\ m.a = client'[n].a /\ m.server = client'[n].server
  <1>1. CASE UNCHANGED client
    BY <1>1 DEF Established
  <1>2. ASSUME NEW k \in Nonces, NEW c \in Conns, NEW me, me.at \in {"pq", "dh", "set"},
               Proceed(k, c, me)
        PROVE  Same
    BY <1>2 DEF Proceed, Established, TypeOK, ClientType
  <1>3. ASSUME NEW k \in Nonces, NEW c \in Conns, Start(k, c) \/ Repeat(k, c) PROVE Same
    <2>1. client[k] \in Clients
      BY DEF TypeOK, ClientType
    <2>2. CASE Start(k, c)
      <3> DEFINE me == [client[k] EXCEPT !.at = "pq", !.conns = {c}]
      <3>1. Proceed(k, c, me)
        BY <2>2 DEF Start
      <3>2. me.at = "pq"
        BY <2>1 DEF Clients
      <3> HIDE DEF me
      <3>3. QED
        BY <3>1, <3>2, <1>2
    <2>3. CASE Repeat(k, c)
      <3> DEFINE me == [client[k] EXCEPT !.repeats = @ + 1, !.conns = @ \cup {c}]
      <3>1. Proceed(k, c, me)
        BY <2>3 DEF Repeat
      <3>2. me.at \in {"pq", "dh", "set"}
        BY <2>1, <2>3 DEF Clients, Repeat
      <3> HIDE DEF me
      <3>3. QED
        BY <3>1, <3>2, <1>2
    <2>4. QED
      BY <1>3, <2>2, <2>3
  <1>4. ASSUME NEW k \in Nonces, Login(k) PROVE Same
    BY <1>4 DEF Login, Established, TypeOK, ClientType, Clients
  <1>5. ASSUME NEW c \in Conns, Receive(c) PROVE Same \/ Told
    <2> DEFINE m == Head(answers[c])
               k == m.nonce
    <2>1. answers[c] \in Seq(Messages) /\ answers[c] # <<>>
      BY <1>5 DEF TypeOK, WireType, Receive
    <2>2. m \in Messages
      BY <2>1
    <2>3. k \in Nonces /\ client[k] \in Clients
      BY <2>2 DEF Messages, TypeOK, ClientType
    <2>4. m.is = "dh_gen_ok" => m \in Confirmations(c)
      BY <1>5, ConfirmationsShrink
    <2>5. \/ TakeResPQ(c, k, m) \/ TakeDhParams(c, k, m)
          \/ TakeDhGenOk(k, m) \/ GiveUp(k, m) \/ Ignore(k, m)
      BY <1>5 DEF Receive
    <2>6. k = m.nonce
      OBVIOUS
    <2> HIDE DEF m, k
    <2>7. CASE TakeResPQ(c, k, m)
      <3> DEFINE me == [client[k] EXCEPT !.at = "dh", !.server = m.server]
      <3>1. me.at = "dh" /\ Proceed(k, c, me)
        BY <2>3, <2>7 DEF Clients, TakeResPQ
      <3> HIDE DEF me
      <3>2. QED
        BY <2>3, <3>1, <1>2
    <2>8. CASE TakeDhParams(c, k, m)
      <3> DEFINE me == [client[k] EXCEPT !.at = "set", !.a = m.a]
      <3>1. me.at = "set" /\ Proceed(k, c, me)
        BY <2>3, <2>8 DEF Clients, TakeDhParams
      <3> HIDE DEF me
      <3>2. QED
        BY <2>3, <3>1, <1>2
    <2>9. CASE TakeDhGenOk(k, m)
      <3>1. CASE k = n
        <4>1. /\ client'[n].a = client[n].a /\ client'[n].server = client[n].server
              /\ m.a = client[n].a /\ m.server = client[n].server
          BY <2>3, <2>9, <3>1 DEF TakeDhGenOk, TypeOK, ClientType, Clients
        <4>2. m \in Confirmations(c)
          BY <2>4, <2>9 DEF TakeDhGenOk
        <4>3. QED
          BY <2>6, <3>1, <4>1, <4>2
      <3>2. CASE k # n
        BY <2>3, <2>9, <3>2 DEF TakeDhGenOk, Established, TypeOK, ClientType
      <3>3. QED
        BY <3>1, <3>2
    <2>10. CASE GiveUp(k, m)
      BY <2>3, <2>10 DEF GiveUp, Established, TypeOK, ClientType, Clients
    <2>11. CASE Ignore(k, m)
      BY <1>1, <2>11 DEF Ignore
    <2>12. QED
      BY <2>5, <2>7, <2>8, <2>9, <2>10, <2>11
  <1>6. QED
    BY <1>1, <1>3, <1>4, <1>5
       DEF Next, vars, Process, Create, ListSalts, AppendSalt, Confirm, StorageFails,
           Expire, Tick, Crash

\* Of the answers, only Confirm adds to the dh_gen_ok under way.
LEMMA ConfirmedBefore ==
    ASSUME TypeOK, [Next]_vars, NEW d \in Conns, NEW m \in Confirmations(d)'
    PROVE  \/ m \in Confirmations(d)
           \/ \E c \in Conns : /\ work[c].at = "reply"
                               /\ m.nonce = work[c].nonce /\ m.server = work[c].server
                               /\ m.a = work[c].a
  <1>1. CASE UNCHANGED answers
    BY <1>1, ConfirmationsStay
  <1>2. ASSUME NEW c \in Conns, Receive(c) PROVE m \in Confirmations(d)
    BY <1>2, ConfirmationsShrink
  <1>3. ASSUME NEW c \in Conns, Process(c) PROVE m \in Confirmations(d)
    BY <1>3, ProcessConfirmsNothing
  <1>4. ASSUME NEW c \in Conns, Confirm(c)
        PROVE  \/ m \in Confirmations(d)
               \/ /\ work[c].at = "reply"
                  /\ m.nonce = work[c].nonce /\ m.server = work[c].server /\ m.a = work[c].a
    <2>1. work[c].at = "reply"
      BY <1>4 DEF Confirm
    <2>2. QED
      BY <1>4, <2>1, ConfirmAdds
  <1>5. ASSUME Crash PROVE FALSE
    <2>1. answers'[d] = <<>>
      BY <1>5 DEF Crash
    <2>2. QED
      BY <2>1 DEF Confirmations
  <1>6. QED
    BY <1>1, <1>2, <1>3, <1>4, <1>5
       DEF Next, vars, Start, Repeat, Proceed, Login, Create, ListSalts, AppendSalt, StorageFails,
           Expire, Tick

\* What a packet in process has behind it, it found or did at this step.
LEMMA WorkBefore ==
    ASSUME TypeOK, [Next]_vars, NEW c \in Conns
    PROVE  /\ work'[c].at \in {"list", "append", "reply"} =>
                /\ WorkKey(c)' = WorkKey(c)
                /\ \/ work[c].at \in {"list", "append", "reply"}
                   \/ Stored(WorkKey(c))'
           /\ work'[c].at = "reply" =>
                /\ WorkKey(c)' = WorkKey(c)
                /\ work[c].at = "reply" \/ SaltsOf(WorkKey(c))' # {}
  <1>1. CASE UNCHANGED work
    BY <1>1 DEF WorkKey
  <1>2. ASSUME NEW b \in Conns, Process(b)
        PROVE  work'[c] = work[c] \/ work'[c].at = "create"
    BY <1>2 DEF Process, HandleReqPq, HandleReqDhParams, HandleSetClientDhParams, RegenerateKey,
                TypeOK, WorkType
  <1>3. ASSUME NEW b \in Conns, Create(b) \/ ListSalts(b) \/ AppendSalt(b)
        PROVE  /\ WorkKey(c)' = WorkKey(c)
               /\ c # b => work'[c] = work[c]
               /\ work[b].at # "idle"
    <2>1. work[b].at # "idle"
      BY <1>3 DEF Create, ListSalts, AppendSalt
    <2>2. work[b] \in Works
      BY <2>1, WorkFields DEF TypeOK
    <2>3. PICK at \in {"list", "append", "reply"} : work' = [work EXCEPT ![b].at = at]
      BY <1>3 DEF Create, ListSalts, AppendSalt
    <2>4. work'[b] = [work[b] EXCEPT !.at = at] /\ (c # b => work'[c] = work[c])
      BY <2>3 DEF TypeOK, WorkType
    <2>5. work'[b].nonce = work[b].nonce /\ work'[b].a = work[b].a
      BY <2>2, <2>4 DEF Works
    <2>6. QED
      BY <2>1, <2>4, <2>5 DEF WorkKey
  <1>4. ASSUME NEW b \in Conns, Create(b)
        PROVE  WorkKey(c)' = WorkKey(c) /\ (work'[c] = work[c] \/ Stored(WorkKey(c))')
               /\ (work'[c].at = "reply" => work[c].at = "reply")
    <2>1. work[b] \in Works /\ work'[b].at = "list"
      BY <1>3, <1>4, WorkFields DEF Create, TypeOK, WorkType, Works
    <2>2. Stored(WorkKey(b))'
      BY <1>3, <1>4 DEF Create, Stored, WorkKey
    <2>3. QED
      BY <1>3, <1>4, <2>1, <2>2
  <1>5. ASSUME NEW b \in Conns, ListSalts(b)
        PROVE  /\ WorkKey(c)' = WorkKey(c)
               /\ work'[c] = work[c] \/ work[c].at = "list"
               /\ work'[c] = work[c] \/ work'[c].at = "append" \/ SaltsOf(WorkKey(c))' # {}
    <2>1. work[b] \in Works
      BY <1>3, <1>5, WorkFields DEF TypeOK
    <2>2. work'[b].at = IF SaltsOf(WorkKey(b)) = {} THEN "append" ELSE "reply"
      BY <1>5, <2>1 DEF ListSalts, TypeOK, WorkType, Works
    <2>3. work[b].at = "list" /\ SaltsOf(WorkKey(b))' = SaltsOf(WorkKey(b))'
      BY <1>5 DEF ListSalts
    <2>4. UNCHANGED salts /\ WorkKey(b)' = WorkKey(b)
      BY <1>3, <1>5 DEF ListSalts, storage, WorkKey, Create, AppendSalt
    <2>5. SaltsOf(WorkKey(b))' = SaltsOf(WorkKey(b))
      BY <2>4 DEF SaltsOf
    <2>6. QED
      BY <1>3, <1>5, <2>2, <2>3, <2>5
  <1>6. ASSUME NEW b \in Conns, AppendSalt(b)
        PROVE  /\ WorkKey(c)' = WorkKey(c)
               /\ work'[c] = work[c] \/ (work[c].at = "append" /\ SaltsOf(WorkKey(c))' # {})
    <2>1. work[b].at = "append"
      BY <1>6 DEF AppendSalt
    <2>2. salts'[WorkKey(b)] = SaltsOf(WorkKey(b)) \cup {FirstSalt(b)}
          /\ WorkKey(b) \in DOMAIN salts'
      BY <1>6 DEF AppendSalt
    <2>3. CASE c = b
      <3>1. WorkKey(b)' = WorkKey(b)
        BY <1>3, <1>6, <2>3
      <3>2. SaltsOf(WorkKey(b))' = salts'[WorkKey(b)]
        BY <2>2, <3>1 DEF SaltsOf
      <3>3. QED
        BY <2>1, <2>2, <2>3, <3>1, <3>2
    <2>4. QED
      BY <1>3, <1>6, <2>3
  <1>7. ASSUME NEW b \in Conns, Confirm(b) \/ StorageFails(b)
        PROVE  work'[c] = work[c] \/ work'[c].at = "idle"
    BY <1>7 DEF Confirm, StorageFails, AfterFailure, NoWork, TypeOK, WorkType
  <1>8. ASSUME Crash PROVE work'[c].at = "idle"
    BY <1>8 DEF Crash, NoWork
  <1>9. QED
    BY <1>1, <1>2, <1>4, <1>5, <1>6, <1>7, <1>8
       DEF Next, vars, WorkKey, Start, Repeat, Login, Receive, Expire, Tick

LEMMA KeptStep == TypeOK /\ Kept /\ [Next]_vars => Kept'
  <1> SUFFICES ASSUME TypeOK, Kept, [Next]_vars PROVE Kept'
    OBVIOUS
  <1>1. \A k : (Stored(k) => Stored(k)') /\ SaltsOf(k) \subseteq SaltsOf(k)'
    BY StorageGrows
  <1>2. ASSUME NEW c \in Conns, work'[c].at \in {"list", "append", "reply"}
        PROVE  Stored(WorkKey(c))'
    <2>1. WorkKey(c)' = WorkKey(c)
      BY <1>2, WorkBefore
    <2>2. CASE work[c].at \in {"list", "append", "reply"}
      <3>1. WorkKey(c) \in DOMAIN keys'
        BY <1>1, <2>2 DEF Kept, Stored
      <3>2. QED
        BY <2>1, <3>1 DEF Stored
    <2>3. QED
      BY <1>2, <2>2, WorkBefore
  <1>3. ASSUME NEW c \in Conns, work'[c].at = "reply"
        PROVE  SaltsOf(WorkKey(c))' # {}
    <2>1. WorkKey(c)' = WorkKey(c)
      BY <1>3, WorkBefore
    <2>2. CASE work[c].at = "reply"
      <3>1. \A k : SaltsOf(k) # {} => (IF k \in DOMAIN salts' THEN salts'[k] ELSE {}) # {}
        BY <1>1 DEF SaltsOf
      <3>2. QED
        BY <2>1, <2>2, <3>1 DEF Kept, SaltsOf
    <2>3. QED
      BY <1>3, <2>2, WorkBefore
  <1>4. ASSUME NEW n \in Nonces, NEW a, Stored(Key(n, a)), SaltsOf(Key(n, a)) # {}
        PROVE  Stored(Key(n, a))' /\ SaltsOf(Key(n, a))' # {}
    BY <1>1, <1>4 DEF Stored, SaltsOf, Key
  <1>5. ASSUME NEW d \in Conns, NEW m \in Confirmations(d)
        PROVE  /\ m.nonce \in Nonces
               /\ Stored(Key(m.nonce, m.a)) /\ SaltsOf(Key(m.nonce, m.a)) # {}
    <2>1. answers[d] \in Seq(Messages)
      BY DEF TypeOK, WireType
    <2>2. m \in Messages
      BY <2>1 DEF Confirmations
    <2>3. QED
      BY <2>2 DEF Kept, Messages
  <1>6. ASSUME NEW d \in Conns, NEW m \in Confirmations(d)'
        PROVE  Stored(Key(m.nonce, m.a))' /\ SaltsOf(Key(m.nonce, m.a))' # {}
    <2>1. CASE m \in Confirmations(d)
      BY <1>4, <1>5, <2>1
    <2>2. ASSUME NEW c \in Conns, work[c].at = "reply", m.nonce = work[c].nonce, m.a = work[c].a
          PROVE  Stored(Key(m.nonce, m.a))' /\ SaltsOf(Key(m.nonce, m.a))' # {}
      <3>1. Key(m.nonce, m.a) = WorkKey(c) /\ m.nonce \in Nonces
        BY <2>2, WorkFields DEF WorkKey, TypeOK
      <3>2. Stored(Key(m.nonce, m.a)) /\ SaltsOf(Key(m.nonce, m.a)) # {}
        BY <2>2, <3>1 DEF Kept
      <3>3. QED
        BY <1>4, <3>1, <3>2
    <2>3. QED
      BY <2>1, <2>2, ConfirmedBefore
  <1>7. ASSUME NEW n \in Nonces, Established(n)'
        PROVE  Stored(Key(n, client[n].a))' /\ SaltsOf(Key(n, client[n].a))' # {}
    <2>1. PICK a : a = client'[n].a
      OBVIOUS
    <2>2. Stored(Key(n, a)) /\ SaltsOf(Key(n, a)) # {}
      BY <1>5, <1>7, <2>1, EstablishedBefore DEF Kept
    <2>3. Stored(Key(n, a))' /\ SaltsOf(Key(n, a))' # {}
      BY <1>4, <2>2
    <2>4. QED
      BY <2>1, <2>3 DEF Stored, SaltsOf
  <1>8. QED
    BY <1>2, <1>3, <1>6, <1>7 DEF Kept

-----------------------------------------------------------------------------
\* Where an exponent and its server nonce are, they come from.
Fresh(n, a, sn) ==
    a = drawn[n] + 1 /\ drawn'[n] = a /\ store[n] # None /\ sn = store[n].server

LEMMA DrawnGrows ==
    ASSUME TypeOK, [Next]_vars, NEW n \in Nonces
    PROVE  drawn[n] <= drawn'[n]
  <1>1. drawn[n] \in Nat
    BY DEF TypeOK, StoreType
  <1>2. CASE UNCHANGED drawn
    BY <1>1, <1>2
  <1>3. ASSUME NEW m \in Nonces, Draw(m) PROVE drawn[n] <= drawn'[n]
    BY <1>1, <1>3 DEF Draw, NextRandom, TypeOK, StoreType
  <1>4. ASSUME NEW c \in Conns, Process(c)
        PROVE  UNCHANGED drawn \/ \E m \in Nonces : Draw(m)
    <2>1. packets[c] \in Seq(Steps) /\ packets[c] # <<>>
      BY <1>4 DEF TypeOK, WireType, Process
    <2>2. Head(packets[c]).nonce \in Nonces
      BY <2>1 DEF Steps
    <2>3. QED
      BY <1>4, <2>2 DEF Process, HandleReqPq, HandleReqDhParams, HandleSetClientDhParams,
                        RegenerateKey, server
  <1>5. QED
    BY <1>2, <1>3, <1>4
       DEF Next, vars, server, Start, Repeat, Login, Receive, Create, ListSalts, AppendSalt,
           Confirm, StorageFails, Expire, Tick, Crash

LEMMA StoreBefore ==
    ASSUME TypeOK, [Next]_vars, NEW n \in Nonces, NEW a \in Nat, NEW sn \in Nat,
           InStore(n, a, sn)'
    PROVE  InStore(n, a, sn) \/ Fresh(n, a, sn)
  <1>1. CASE UNCHANGED store
    BY <1>1 DEF InStore
  <1>2. ASSUME NEW c \in Conns, Process(c) PROVE InStore(n, a, sn) \/ Fresh(n, a, sn)
    <2> DEFINE p == Head(packets[c])
    <2>1. packets[c] \in Seq(Steps) /\ packets[c] # <<>>
      BY <1>2 DEF TypeOK, WireType, Process
    <2>2. p.nonce \in Nonces
      BY <2>1 DEF Steps
    <2>3. \/ HandleReqPq(c, p) \/ HandleReqDhParams(c, p)
          \/ HandleSetClientDhParams(c, p) \/ RegenerateKey(c, p)
      BY <1>2 DEF Process
    <2> HIDE DEF p
    <2>4. CASE HandleReqPq(c, p)
      <3>1. store' = [store EXCEPT ![p.nonce] = Entry(drawn[p.nonce] + 1)]
        BY <2>4 DEF HandleReqPq, Set, NextRandom
      <3>2. n # p.nonce
        BY <2>2, <3>1, HandshakeAssumption DEF InStore, Entry, TypeOK, StoreType
      <3>3. QED
        BY <2>2, <3>1, <3>2 DEF InStore, TypeOK, StoreType
    <2>5. CASE HandleReqDhParams(c, p)
      <3> DEFINE entry == [store[p.nonce] EXCEPT !.a = drawn[p.nonce] + 1,
                                                 !.tmp = p.server, !.age = 0]
      <3>1. store[p.nonce] \in Entries /\ store[p.nonce] # None
        BY <2>2, <2>5 DEF HandleReqDhParams, TypeOK, StoreType
      <3>2. entry.a = drawn[p.nonce] + 1 /\ entry.server = store[p.nonce].server
        BY <3>1 DEF Entries
      <3>3. store' = [store EXCEPT ![p.nonce] = entry] /\ Draw(p.nonce)
        BY <2>5 DEF HandleReqDhParams, Set, NextRandom
      <3> HIDE DEF entry
      <3>4. CASE n = p.nonce
        <4>1. store'[n] = entry /\ drawn'[n] = drawn[n] + 1
          BY <2>2, <3>3, <3>4 DEF Draw, NextRandom, TypeOK, StoreType
        <4>2. QED
          BY <3>1, <3>2, <3>4, <4>1 DEF InStore, Fresh
      <3>5. CASE n # p.nonce
        BY <2>2, <3>3, <3>5 DEF InStore, TypeOK, StoreType
      <3>6. QED
        BY <3>4, <3>5
    <2>6. CASE HandleSetClientDhParams(c, p) \/ RegenerateKey(c, p)
      BY <1>1, <2>6 DEF HandleSetClientDhParams, RegenerateKey, server
    <2>7. QED
      BY <2>3, <2>4, <2>5, <2>6
  <1>3. ASSUME NEW c \in Conns, Confirm(c) PROVE InStore(n, a, sn)
    BY <1>3 DEF Confirm, Delete, Without, InStore, TypeOK, StoreType
  <1>4. CASE Expire
    <2>1. PICK t \in timers : store' = [store EXCEPT ![t.nonce] = None]
      BY <1>4 DEF Expire
    <2>2. QED
      BY <2>1 DEF InStore, TypeOK, StoreType
  <1>5. CASE Tick
    <2>1. store[n] # None
      BY <1>5 DEF Tick, InStore
    <2>2. store[n] \in Entries
      BY <2>1 DEF TypeOK, StoreType
    <2>3. store'[n] = [store[n] EXCEPT !.age = IF @ < TTL THEN @ + 1 ELSE @]
      BY <1>5, <2>1 DEF Tick
    <2>4. store'[n].a = store[n].a /\ store'[n].server = store[n].server
      BY <2>2, <2>3 DEF Entries
    <2>5. QED
      BY <2>1, <2>4 DEF InStore
  <1>6. ASSUME Crash PROVE FALSE
    BY <1>6 DEF Crash, InStore
  <1>7. QED
    BY <1>1, <1>2, <1>3, <1>4, <1>5, <1>6
       DEF Next, vars, server, Start, Repeat, Login, Receive, Create, ListSalts, AppendSalt,
           StorageFails

LEMMA InWorkBefore ==
    ASSUME TypeOK, [Next]_vars, NEW n \in Nonces, NEW a \in Nat, NEW sn \in Nat,
           InWork(n, a, sn)'
    PROVE  InWork(n, a, sn) \/ InStore(n, a, sn)
  <1>1. PICK d \in Conns : /\ work'[d].at # "idle"
                           /\ work'[d].nonce = n /\ work'[d].a = a /\ work'[d].server = sn
    BY DEF InWork
  <1>2. CASE work'[d] = work[d]
    BY <1>1, <1>2 DEF InWork
  <1>3. ASSUME NEW c \in Conns, Process(c), work'[d] # work[d] PROVE InStore(n, a, sn)
    <2> DEFINE p == Head(packets[c])
    <2>1. packets[c] \in Seq(Steps) /\ packets[c] # <<>>
      BY <1>3 DEF TypeOK, WireType, Process
    <2>2. p.nonce \in Nonces
      BY <2>1 DEF Steps
    <2>3. HandleSetClientDhParams(c, p)
      BY <1>3 DEF Process, HandleReqPq, HandleReqDhParams, RegenerateKey
    <2> HIDE DEF p
    <2>4. /\ store[p.nonce] # None
          /\ work'[d] = [at |-> "create", nonce |-> p.nonce,
                         server |-> store[p.nonce].server, a |-> store[p.nonce].a]
      BY <1>3, <2>3 DEF HandleSetClientDhParams, CanComplete, TypeOK, WorkType
    <2>5. QED
      BY <1>1, <2>4 DEF InStore
  <1>4. ASSUME NEW c \in Conns, Create(c) \/ ListSalts(c) \/ AppendSalt(c)
        PROVE  InWork(n, a, sn)
    <2>1. PICK at : work' = [work EXCEPT ![c].at = at]
      BY <1>4 DEF Create, ListSalts, AppendSalt
    <2>2. work[c].at # "idle"
      BY <1>4 DEF Create, ListSalts, AppendSalt
    <2>3. work[c] \in Works
      BY <2>2, WorkFields DEF TypeOK
    <2>4. CASE d = c
      <3>1. work'[d] = [work[c] EXCEPT !.at = at]
        BY <2>1, <2>4 DEF TypeOK, WorkType
      <3>2. work'[d].nonce = work[c].nonce /\ work'[d].a = work[c].a
            /\ work'[d].server = work[c].server
        BY <2>3, <3>1 DEF Works
      <3>3. QED
        BY <1>1, <2>2, <3>2 DEF InWork
    <2>5. CASE d # c
      <3>1. work'[d] = work[d]
        BY <2>1, <2>5 DEF TypeOK, WorkType
      <3>2. QED
        BY <1>1, <3>1 DEF InWork
    <2>6. QED
      BY <2>4, <2>5
  <1>5. ASSUME NEW c \in Conns, Confirm(c) \/ StorageFails(c) PROVE work'[d] = work[d]
    BY <1>1, <1>5 DEF Confirm, StorageFails, AfterFailure, NoWork, TypeOK, WorkType
  <1>6. ASSUME Crash PROVE FALSE
    BY <1>1, <1>6 DEF Crash, NoWork
  <1>7. QED
    BY <1>2, <1>3, <1>4, <1>5, <1>6
       DEF Next, vars, Start, Repeat, Login, Receive, Expire, Tick

LEMMA InSaltsBefore ==
    ASSUME TypeOK, [Next]_vars, NEW n \in Nonces, NEW a \in Nat, NEW sn \in Nat,
           InSalts(n, a, sn)'
    PROVE  InSalts(n, a, sn) \/ InWork(n, a, sn)
  <1>1. CASE UNCHANGED salts
    BY <1>1 DEF InSalts, SaltsOf
  <1>2. ASSUME NEW c \in Conns, AppendSalt(c) PROVE InSalts(n, a, sn) \/ InWork(n, a, sn)
    <2>1. work[c].at # "idle"
      BY <1>2 DEF AppendSalt
    <2>2. CASE Key(n, a) = WorkKey(c) /\ Salt(n, sn) = FirstSalt(c)
      <3>1. n = work[c].nonce /\ a = work[c].a /\ sn = work[c].server
        BY <2>2 DEF Key, WorkKey, Salt, FirstSalt
      <3>2. QED
        BY <2>1, <3>1 DEF InWork
    <2>3. CASE ~(Key(n, a) = WorkKey(c) /\ Salt(n, sn) = FirstSalt(c))
      BY <1>2, <2>3 DEF AppendSalt, InSalts, SaltsOf
    <2>4. QED
      BY <2>2, <2>3
  <1>3. QED
    BY <1>1, <1>2
       DEF Next, vars, storage, Start, Repeat, Login, Receive, Process, Create, ListSalts, Confirm,
           StorageFails, Expire, Tick, Crash

LEMMA PairedBefore ==
    ASSUME TypeOK, [Next]_vars, NEW n \in Nonces, NEW a \in Nat, NEW sn \in Nat,
           Paired(n, a, sn)'
    PROVE  Paired(n, a, sn) \/ Fresh(n, a, sn)
  <1>1. CASE InStore(n, a, sn)'
    BY <1>1, StoreBefore DEF Paired
  <1>2. CASE InWork(n, a, sn)'
    BY <1>2, InWorkBefore DEF Paired
  <1>3. CASE InAnswer(n, a, sn)'
    <2>1. PICK d \in Conns : \E m \in Confirmations(d)' : m.nonce = n /\ m.a = a /\ m.server = sn
      BY <1>3 DEF InAnswer
    <2>2. PICK m \in Confirmations(d)' : m.nonce = n /\ m.a = a /\ m.server = sn
      BY <2>1
    <2>3. QED
      BY <2>2, ConfirmedBefore DEF Paired, InAnswer, InWork
  <1>4. CASE InSalts(n, a, sn)'
    BY <1>4, InSaltsBefore DEF Paired
  <1>5. CASE InClient(n, a, sn)'
    <2>1. Established(n)' /\ client'[n].a = a /\ client'[n].server = sn
      BY <1>5 DEF InClient
    <2>2. QED
      BY <2>1, EstablishedBefore DEF Paired, InClient, InAnswer
  <1>6. QED
    BY <1>1, <1>2, <1>3, <1>4, <1>5 DEF Paired

-----------------------------------------------------------------------------
LEMMA PairingStep == IInv /\ [Next]_vars => DrawnBefore' /\ Unambiguous'
  <1> SUFFICES ASSUME IInv, [Next]_vars PROVE DrawnBefore' /\ Unambiguous'
    OBVIOUS
  <1>1. TypeOK /\ TypeOK'
    BY TypeStep DEF IInv
  <1>2. ASSUME NEW n \in Nonces, NEW a \in Nat, NEW sn \in Nat, Paired(n, a, sn)'
        PROVE  a <= drawn'[n]
    <2>1. drawn[n] \in Nat /\ drawn'[n] \in Nat /\ drawn[n] <= drawn'[n]
      BY <1>1, DrawnGrows DEF TypeOK, StoreType
    <2>2. Paired(n, a, sn) => a <= drawn[n]
      BY DEF IInv, DrawnBefore
    <2>3. QED
      BY <1>1, <1>2, <2>1, <2>2, PairedBefore DEF Fresh
  <1>3. ASSUME NEW n \in Nonces, NEW a \in Nat, NEW sn \in Nat, NEW sm \in Nat,
               Paired(n, a, sn)', Paired(n, a, sm)'
        PROVE  sn = sm
    <2>1. drawn[n] \in Nat
      BY <1>1 DEF TypeOK, StoreType
    <2>2. /\ Paired(n, a, sn) => a <= drawn[n]
          /\ Paired(n, a, sm) => a <= drawn[n]
      BY DEF IInv, DrawnBefore
    <2>3. /\ Paired(n, a, sn) \/ Fresh(n, a, sn)
          /\ Paired(n, a, sm) \/ Fresh(n, a, sm)
      BY <1>1, <1>3, PairedBefore
    <2>4. CASE Paired(n, a, sn) /\ Paired(n, a, sm)
      BY <2>4 DEF IInv, Unambiguous
    <2>5. CASE Fresh(n, a, sn) \/ Fresh(n, a, sm)
      BY <2>1, <2>2, <2>3, <2>5 DEF Fresh
    <2>6. QED
      BY <2>3, <2>4, <2>5
  <1>4. DrawnBefore'
    BY <1>2 DEF DrawnBefore
  <1>5. Unambiguous'
    BY <1>3 DEF Unambiguous
  <1>6. QED
    BY <1>4, <1>5

LEMMA OwnSaltsStep == TypeOK /\ OwnSalts /\ [Next]_vars => OwnSalts'
  <1> SUFFICES ASSUME TypeOK, OwnSalts, [Next]_vars PROVE OwnSalts'
    OBVIOUS
  <1>1. CASE UNCHANGED salts
    BY <1>1 DEF OwnSalts, SaltsOf
  <1>2. ASSUME NEW c \in Conns, AppendSalt(c), NEW n \in Nonces, NEW a \in Nat,
               NEW s \in SaltsOf(Key(n, a))'
        PROVE  s[1] = n
    <2>1. s \in SaltsOf(Key(n, a)) \/ (Key(n, a) = WorkKey(c) /\ s = FirstSalt(c))
      BY <1>2 DEF AppendSalt, SaltsOf
    <2>2. QED
      BY <2>1 DEF OwnSalts, Key, WorkKey, Salt, FirstSalt
  <1>3. QED
    BY <1>1, <1>2
       DEF OwnSalts, Next, vars, storage, Start, Repeat, Login, Receive, Process, Create,
           ListSalts, Confirm, StorageFails, Expire, Tick, Crash

LEMMA InvInit == Init => IInv
  <1> SUFFICES ASSUME Init PROVE IInv
    OBVIOUS
  <1>1. TypeOK
    BY TypeInit
  <1>2. /\ \A n \in Nonces : store[n] = None /\ ~Established(n)
        /\ \A c \in Conns : work[c].at = "idle" /\ Confirmations(c) = {}
        /\ \A k : SaltsOf(k) = {}
    BY DEF Init, NewClient, Established, NoWork, Confirmations, SaltsOf
  <1>3. \A n, a, sn : n \in Nonces => ~Paired(n, a, sn)
    BY <1>2 DEF Paired, InStore, InWork, InAnswer, InSalts, InClient
  <1>4. QED
    BY <1>1, <1>2, <1>3 DEF IInv, Kept, OwnSalts, DrawnBefore, Unambiguous

LEMMA InvStep == IInv /\ [Next]_vars => IInv'
  BY TypeStep, KeptStep, OwnSaltsStep, PairingStep DEF IInv

LEMMA InvImplies == IInv => ConfirmedIsShared /\ FirstSaltAgreed
  BY KeptMeansShared, AgreedOnFirstSalt DEF IInv

(***************************************************************************)
(* A client that took a dh_gen_ok shares the key it computed with the      *)
(* storage (handleSetClientDhParams confirms after authKeys.create).       *)
(***************************************************************************)
THEOREM ConfirmedKeysAreShared == Spec => []ConfirmedIsShared
  BY InvInit, InvStep, InvImplies, PTL DEF Spec

(***************************************************************************)
(* It also derives the one salt its key's schedule was seeded with         *)
(* (saltService.seed with the entry handleSetClientDhParams started with). *)
(***************************************************************************)
THEOREM FirstSaltIsAgreed == Spec => []FirstSaltAgreed
  BY InvInit, InvStep, InvImplies, PTL DEF Spec

-----------------------------------------------------------------------------
(***************************************************************************)
(* Why the timers are right: a timer is always its entry's own, with the   *)
(* rest of TTL left, because set() and delete() clear the one before.      *)
(***************************************************************************)
TimersAreOwn ==
    /\ \A t \in timers : /\ store[t.nonce] # None
                         /\ t.left = TTL - store[t.nonce].age
    /\ \A n \in Nonces : OwnTimer(n) \subseteq timers

-----------------------------------------------------------------------------
(***************************************************************************)
(* Why a login stays.  The packets of an exchange arrive in order on a     *)
(* connection, and its copies of set_client_DH_params are its last; on one *)
(* connection they all come after the first was confirmed, and find no     *)
(* entry.                                                                  *)
(***************************************************************************)
IsLast(p) == p.step = "set_client_DH_params"
Busy(c) == work[c].at # "idle"
Advanced(n) == client[n].at \in {"set", "done", "in", "failed"}
Single(n) == \E c \in Conns : client[n].conns = {c}

\* The connections a client used are where its exchange leaves its traces.
ConnsKnown ==
    \A n \in Nonces :
        /\ IsFiniteSet(client[n].conns)
        /\ client[n].conns = {} <=> client[n].at = "new"

Routed ==
    \A c \in Conns :
        /\ \A i \in DOMAIN packets[c] : c \in client[packets[c][i].nonce].conns
        /\ \A i \in DOMAIN answers[c] : c \in client[answers[c][i].nonce].conns
        /\ Busy(c) => c \in client[work[c].nonce].conns

InOrder ==
    \A c \in Conns :
        /\ \A i, j \in DOMAIN packets[c] :
              i < j /\ packets[c][i].nonce = packets[c][j].nonce /\ IsLast(packets[c][i])
                  => IsLast(packets[c][j])
        /\ \A j \in DOMAIN packets[c] :
              Busy(c) /\ packets[c][j].nonce = work[c].nonce => IsLast(packets[c][j])

OnlyAdvanced ==
    \A c \in Conns :
        /\ \A i \in DOMAIN packets[c] :
              IsLast(packets[c][i]) => Advanced(packets[c][i].nonce)
        /\ Busy(c) => Advanced(work[c].nonce)
        /\ \A m \in Confirmations(c) : Advanced(m.nonce)

\* Nothing is left of the exchange that could complete again.
Over(n) ==
    /\ store[n] = None
    /\ \A c \in Conns :
        /\ Busy(c) => work[c].nonce # n
        /\ \A i \in DOMAIN packets[c] : packets[c][i].nonce = n => IsLast(packets[c][i])

Told(n) == Established(n) \/ \E c \in Conns : \E m \in Confirmations(c) : m.nonce = n

OnceTold == \A n \in Nonces : Told(n) /\ Single(n) => Over(n)

LoginStays ==
    \A n \in Nonces :
        client[n].at = "in" /\ Single(n) => keys[Key(n, client[n].a)] = User

LInv == ConnsKnown /\ Routed /\ InOrder /\ OnlyAdvanced /\ OnceTold /\ LoginStays

LEMMA OwnTimersOnly ==
    ASSUME TimersAreOwn, StoreType, NEW n \in Nonces
    PROVE  \A t \in timers \ OwnTimer(n) : t.nonce # n
  <1>1. SUFFICES ASSUME NEW t \in timers, t.nonce = n PROVE t \in OwnTimer(n)
    OBVIOUS
  <1>2. t \in [nonce : Nonces, left : 0..TTL]
    BY DEF StoreType
  <1>3. store[n] # None /\ t.left = TTL - store[n].age
    BY <1>1 DEF TimersAreOwn
  <1>4. t = [nonce |-> n, left |-> TTL - store[n].age]
    BY <1>1, <1>2, <1>3
  <1>5. QED
    BY <1>3, <1>4 DEF OwnTimer

\* The timers of the other entries are not touched.
LEMMA OthersKeepTimers ==
    ASSUME TimersAreOwn, StoreType, NEW n \in Nonces, NEW own,
           \A m \in Nonces : m # n => store'[m] = store[m],
           timers' = (timers \ OwnTimer(n)) \cup own
    PROVE  /\ \A t \in timers' : t \notin own =>
                  store'[t.nonce] # None /\ t.left = TTL - store'[t.nonce].age
           /\ \A m \in Nonces : m # n => OwnTimer(m)' \subseteq timers'
  <1>1. ASSUME NEW t \in timers', t \notin own
        PROVE  store'[t.nonce] # None /\ t.left = TTL - store'[t.nonce].age
    <2>1. t \in timers /\ t.nonce # n /\ t.nonce \in Nonces
      BY <1>1, OwnTimersOnly DEF StoreType
    <2>2. QED
      BY <2>1 DEF TimersAreOwn
  <1>2. ASSUME NEW m \in Nonces, m # n PROVE OwnTimer(m)' \subseteq timers'
    <2>1. OwnTimer(m)' = OwnTimer(m)
      BY <1>2 DEF OwnTimer
    <2>2. OwnTimer(m) \cap OwnTimer(n) = {}
      BY <1>2 DEF OwnTimer
    <2>3. QED
      BY <2>1, <2>2 DEF TimersAreOwn
  <1>3. QED
    BY <1>1, <1>2

LEMMA SetKeepsTimers ==
    ASSUME TimersAreOwn, StoreType, NEW n \in Nonces, NEW entry \in Entries, entry.age = 0,
           Set(n, entry)
    PROVE  TimersAreOwn'
  <1>1. store'[n] = entry /\ entry # None /\ \A m \in Nonces : m # n => store'[m] = store[m]
    BY NoneIsNoEntry DEF Set, StoreType
  <1>2. timers' = (timers \ OwnTimer(n)) \cup {[nonce |-> n, left |-> TTL]}
    BY DEF Set, Rearmed
  <1>3. TTL = TTL - store'[n].age
    BY <1>1, HandshakeAssumption
  <1>4. OwnTimer(n)' \subseteq timers'
    BY <1>1, <1>2, <1>3 DEF OwnTimer
  <1>5. /\ \A t \in timers' : t \notin {[nonce |-> n, left |-> TTL]} =>
               store'[t.nonce] # None /\ t.left = TTL - store'[t.nonce].age
        /\ \A m \in Nonces : m # n => OwnTimer(m)' \subseteq timers'
    BY <1>1, <1>2, OthersKeepTimers
  <1>6. \A t \in timers' : store'[t.nonce] # None /\ t.left = TTL - store'[t.nonce].age
    BY <1>1, <1>3, <1>5
  <1>7. \A m \in Nonces : OwnTimer(m)' \subseteq timers'
    <2>1. SUFFICES ASSUME NEW m \in Nonces PROVE OwnTimer(m)' \subseteq timers'
      BY Zenon
    <2>2. QED
      BY <1>4, <1>5
  <1>8. QED
    BY <1>6, <1>7 DEF TimersAreOwn

LEMMA DeleteKeepsTimers ==
    ASSUME TimersAreOwn, StoreType, NEW n \in Nonces, Delete(n)
    PROVE  TimersAreOwn'
  <1>1. store'[n] = None /\ \A m \in Nonces : m # n => store'[m] = store[m]
    BY DEF Delete, Without, StoreType
  <1>2. timers' = (timers \ OwnTimer(n)) \cup {}
    BY DEF Delete
  <1>3. OwnTimer(n)' \subseteq timers'
    BY <1>1 DEF OwnTimer
  <1>4. /\ \A t \in timers' : t \notin {} =>
               store'[t.nonce] # None /\ t.left = TTL - store'[t.nonce].age
        /\ \A m \in Nonces : m # n => OwnTimer(m)' \subseteq timers'
    BY <1>1, <1>2, OthersKeepTimers
  <1>5. \A m \in Nonces : OwnTimer(m)' \subseteq timers'
    <2>1. SUFFICES ASSUME NEW m \in Nonces PROVE OwnTimer(m)' \subseteq timers'
      BY Zenon
    <2>2. QED
      BY <1>3, <1>4
  <1>6. QED
    BY <1>4, <1>5 DEF TimersAreOwn

\* A timer that runs out deletes its own entry.
LEMMA ExpireDeletes ==
    ASSUME TimersAreOwn, StoreType, Expire
    PROVE  \E n \in Nonces : Delete(n) /\ store[n] # None /\ store[n].age = TTL
  <1>1. PICK t \in timers : /\ t.left = 0
                            /\ timers' = timers \ {t}
                            /\ store' = [store EXCEPT ![t.nonce] = None]
    BY DEF Expire
  <1>2. t \in [nonce : Nonces, left : 0..TTL] /\ t.nonce \in Nonces
    BY DEF StoreType
  <1>3. store[t.nonce] # None /\ t.left = TTL - store[t.nonce].age
    BY DEF TimersAreOwn
  <1>4. t = [nonce |-> t.nonce, left |-> TTL - store[t.nonce].age]
    BY <1>2, <1>3
  <1>5. OwnTimer(t.nonce) = {t}
    BY <1>3, <1>4 DEF OwnTimer
  <1>6. store[t.nonce].age \in 0..TTL
    BY <1>2, <1>3 DEF StoreType, Entries
  <1>7. store[t.nonce].age = TTL
    BY <1>1, <1>3, <1>6, HandshakeAssumption
  <1>8. Delete(t.nonce)
    BY <1>1, <1>5 DEF Delete, Without
  <1>9. QED
    BY <1>2, <1>3, <1>7, <1>8

LEMMA TickKeepsTimers ==
    ASSUME TimersAreOwn, StoreType, Tick
    PROVE  TimersAreOwn'
  <1>1. ASSUME NEW n \in Nonces, store[n] # None
        PROVE  /\ store'[n] # None /\ store'[n].age = store[n].age + 1
               /\ store[n].age \in Nat
               /\ [nonce |-> n, left |-> TTL - store[n].age] \in timers
    <2>1. store[n] \in Entries
      BY <1>1 DEF StoreType
    <2>2. [nonce |-> n, left |-> TTL - store[n].age] \in timers
      BY <1>1 DEF TimersAreOwn, OwnTimer
    <2>3. TTL - store[n].age > 0
      BY <2>2 DEF Tick
    <2>4. store[n].age \in 0..TTL /\ store[n].age < TTL
      BY <2>1, <2>3, HandshakeAssumption DEF Entries
    <2>5. store'[n] = [store[n] EXCEPT !.age = store[n].age + 1]
      BY <1>1, <2>4 DEF Tick
    <2>6. store'[n] \in Entries /\ store'[n].age = store[n].age + 1
      BY <2>1, <2>4, <2>5, HandshakeAssumption DEF Entries
    <2>7. QED
      BY <2>2, <2>4, <2>6, NoneIsNoEntry
  <1>2. \A n \in Nonces : store[n] = None => store'[n] = None
    BY DEF Tick
  <1>3. timers' = {[t EXCEPT !.left = t.left - 1] : t \in timers}
    BY DEF Tick
  <1>4. ASSUME NEW t \in timers
        PROVE  /\ t \in [nonce : Nonces, left : 0..TTL]
               /\ [t EXCEPT !.left = t.left - 1] = [nonce |-> t.nonce, left |-> t.left - 1]
    <2>1. t \in [nonce : Nonces, left : 0..TTL]
      BY DEF StoreType
    <2>2. QED
      BY <2>1
  <1>5. ASSUME NEW u \in timers'
        PROVE  store'[u.nonce] # None /\ u.left = TTL - store'[u.nonce].age
    <2>1. PICK t \in timers : u = [nonce |-> t.nonce, left |-> t.left - 1]
      BY <1>3, <1>4
    <2>2. t.nonce \in Nonces /\ store[t.nonce] # None /\ t.left = TTL - store[t.nonce].age
      BY <1>4 DEF TimersAreOwn
    <2>3. u.nonce = t.nonce /\ u.left = t.left - 1
      BY <2>1
    <2>4. store'[t.nonce] # None /\ store'[t.nonce].age = store[t.nonce].age + 1
          /\ store[t.nonce].age \in Nat
      BY <1>1, <2>2
    <2>5. QED
      BY <2>2, <2>3, <2>4, HandshakeAssumption
  <1>6. ASSUME NEW n \in Nonces, store'[n] # None
        PROVE  [nonce |-> n, left |-> TTL - store'[n].age] \in timers'
    <2>1. /\ store'[n].age = store[n].age + 1 /\ store[n].age \in Nat
          /\ [nonce |-> n, left |-> TTL - store[n].age] \in timers
      BY <1>1, <1>2, <1>6
    <2>2. [nonce |-> n, left |-> TTL - store[n].age - 1] \in timers'
      BY <1>3, <1>4, <2>1
    <2>3. TTL - store[n].age - 1 = TTL - store'[n].age
      BY <2>1, HandshakeAssumption
    <2>4. QED
      BY <2>2, <2>3
  <1>7. \A n \in Nonces : OwnTimer(n)' \subseteq timers'
    BY <1>6 DEF OwnTimer
  <1>8. QED
    BY <1>5, <1>7 DEF TimersAreOwn

LEMMA ProcessKeepsTimers ==
    ASSUME TimersAreOwn, TypeOK, NEW c \in Conns, Process(c)
    PROVE  TimersAreOwn'
  <1> DEFINE p == Head(packets[c])
  <1>1. packets[c] \in Seq(Steps) /\ packets[c] # <<>>
    BY DEF TypeOK, WireType, Process
  <1>2. p \in Steps
    BY <1>1
  <1>3. p.nonce \in Nonces
    BY <1>2 DEF Steps
  <1>4. drawn[p.nonce] + 1 \in Nat /\ StoreType
    BY <1>3 DEF TypeOK, StoreType
  <1>5. \/ HandleReqPq(c, p) \/ HandleReqDhParams(c, p)
        \/ HandleSetClientDhParams(c, p) \/ RegenerateKey(c, p)
    BY DEF Process
  <1> HIDE DEF p
  <1>6. CASE HandleReqPq(c, p)
    <2>1. Entry(drawn[p.nonce] + 1) \in Entries /\ Entry(drawn[p.nonce] + 1).age = 0
      BY <1>4, HandshakeAssumption DEF Entry, Entries, Known
    <2>2. QED
      BY <1>3, <1>4, <1>6, <2>1, SetKeepsTimers DEF HandleReqPq, NextRandom
  <1>7. CASE HandleReqDhParams(c, p)
    <2> DEFINE a == drawn[p.nonce] + 1
               entry == [store[p.nonce] EXCEPT !.a = a, !.tmp = p.server, !.age = 0]
    <2>1. store[p.nonce] \in Entries /\ p.server \in Nat
      BY <1>2, <1>3, <1>7 DEF HandleReqDhParams, TypeOK, StoreType, Steps
    <2>2. a \in Known /\ p.server \in Known /\ 0 \in 0..TTL
      BY <1>4, <2>1, HandshakeAssumption DEF Known
    <2>3. Set(p.nonce, entry)
      BY <1>7 DEF HandleReqDhParams, NextRandom
    <2> HIDE DEF a
    <2>4. entry \in Entries /\ entry.age = 0
      BY <2>1, <2>2 DEF Entries
    <2> HIDE DEF entry
    <2>5. QED
      BY <1>3, <1>4, <2>3, <2>4, SetKeepsTimers
  <1>8. CASE HandleSetClientDhParams(c, p) \/ RegenerateKey(c, p)
    BY <1>8 DEF HandleSetClientDhParams, RegenerateKey, server, TimersAreOwn, OwnTimer
  <1>9. QED
    BY <1>5, <1>6, <1>7, <1>8

LEMMA TimersStep == TypeOK /\ TimersAreOwn /\ [Next]_vars => TimersAreOwn'
  <1> SUFFICES ASSUME TypeOK, TimersAreOwn, [Next]_vars PROVE TimersAreOwn'
    OBVIOUS
  <1>1. CASE UNCHANGED <<store, timers>>
    BY <1>1 DEF TimersAreOwn, OwnTimer
  <1>2. ASSUME NEW c \in Conns, Process(c) PROVE TimersAreOwn'
    BY <1>2, ProcessKeepsTimers
  <1>3. ASSUME NEW c \in Conns, Confirm(c) PROVE TimersAreOwn'
    BY <1>3, WorkFields, DeleteKeepsTimers DEF Confirm, TypeOK
  <1>4. CASE Expire
    BY <1>4, ExpireDeletes, DeleteKeepsTimers DEF TypeOK
  <1>5. CASE Tick
    BY <1>5, TickKeepsTimers DEF TypeOK
  <1>6. CASE Crash
    BY <1>6 DEF Crash, TimersAreOwn, OwnTimer
  <1>7. QED
    BY <1>1, <1>2, <1>3, <1>4, <1>5, <1>6
       DEF Next, vars, server, Start, Repeat, Login, Receive, Create, ListSalts, AppendSalt,
           StorageFails

(***************************************************************************)
(* Every timer of the nonce store is the one its entry is to be deleted    *)
(* by, and every entry has it: set() and delete() leave no old timer       *)
(* behind, and an exchange that is never finished is not kept for ever.    *)
(***************************************************************************)
THEOREM TimersStayOwn == Spec => []TimersAreOwn
  <1>1. Init => TimersAreOwn
    BY DEF Init, TimersAreOwn, OwnTimer
  <1>2. QED
    BY <1>1, TypeInit, TypeStep, TimersStep, PTL DEF Spec

(***************************************************************************)
(* An entry that runs out was set TTL before: no timer of an earlier step, *)
(* or of an earlier exchange with its nonce, deletes it.                   *)
(***************************************************************************)
THEOREM EntriesAreKeptForTheirTime == Spec => KeptForItsTime
  <1>1. ASSUME TypeOK, TimersAreOwn, Expire, NEW n \in Nonces, store[n] # None, store'[n] = None
        PROVE  store[n].age = TTL
    <2>1. PICK m \in Nonces : Delete(m) /\ store[m].age = TTL
      BY <1>1, ExpireDeletes DEF TypeOK
    <2>2. m = n
      BY <1>1, <2>1 DEF Delete, Without, TypeOK, StoreType
    <2>3. QED
      BY <2>1, <2>2
  <1>2. TypeOK /\ TimersAreOwn => [Expire => \A n \in Nonces :
            (store[n] # None /\ store'[n] = None) => store[n].age = TTL]_vars
    BY <1>1
  <1>3. QED
    BY <1>2, TypeCorrect, TimersStayOwn, PTL DEF KeptForItsTime

LEMMA SingleMeans ==
    ASSUME TypeOK, ConnsKnown, NEW n \in Nonces, Cardinality(client[n].conns) = 1
    PROVE  Single(n)
  <1>1. IsFiniteSet(client[n].conns) /\ client[n].conns \subseteq Conns
    BY DEF ConnsKnown, TypeOK, ClientType, Clients
  <1>2. PICK c : client[n].conns = {c}
    BY <1>1, FS_Singleton
  <1>3. QED
    BY <1>1, <1>2 DEF Single

\* The steps of a client: what it sends where, and what it keeps.
Sends(n, c) ==
    /\ client'[n].at \in {"pq", "dh", "set"}
    /\ client'[n].at # "set" => ~Advanced(n)
    /\ packets' = [packets EXCEPT ![c] = Append(@, Request(n, client'[n]))]
    /\ UNCHANGED work
    /\ c \in client'[n].conns \/ \E i \in DOMAIN answers[c] : answers[c][i].nonce = n

Moves(n) ==
    /\ \A m \in Nonces \ {n} : client'[m] = client[m]
    /\ client'[n].at # "new"
    /\ Advanced(n) => Advanced(n)'
    /\ \/ client'[n].conns = client[n].conns /\ client[n].at # "new"
       \/ \E c \in Conns : client'[n].conns = {c} /\ client[n].at = "new"
       \/ \E c \in Conns : client'[n].conns = client[n].conns \cup {c} /\ client[n].at # "new"

LEMMA StartMoves ==
    ASSUME TypeOK, NEW n \in Nonces, NEW c \in Conns, Start(n, c)
    PROVE  Moves(n) /\ Sends(n, c)
  <1> DEFINE me == [client[n] EXCEPT !.at = "pq", !.conns = {c}]
  <1>1. me.at = "pq" /\ me.conns = {c}
    BY DEF TypeOK, ClientType, Clients
  <1>2. Proceed(n, c, me) /\ client[n].at = "new" /\ UNCHANGED work
    BY DEF Start
  <1> HIDE DEF me
  <1>3. client'[n] = me /\ \A m \in Nonces \ {n} : client'[m] = client[m]
    BY <1>2 DEF Proceed, TypeOK, ClientType
  <1>4. QED
    BY <1>1, <1>2, <1>3 DEF Moves, Sends, Proceed, Advanced

LEMMA RepeatMoves ==
    ASSUME TypeOK, NEW n \in Nonces, NEW c \in Conns, Repeat(n, c)
    PROVE  Moves(n) /\ Sends(n, c)
  <1> DEFINE me == [client[n] EXCEPT !.repeats = @ + 1, !.conns = @ \cup {c}]
  <1>1. me.at = client[n].at /\ me.conns = client[n].conns \cup {c}
    BY DEF TypeOK, ClientType, Clients
  <1>2. Proceed(n, c, me) /\ client[n].at \in {"pq", "dh", "set"} /\ UNCHANGED work
    BY DEF Repeat
  <1> HIDE DEF me
  <1>3. client'[n] = me /\ \A m \in Nonces \ {n} : client'[m] = client[m]
    BY <1>2 DEF Proceed, TypeOK, ClientType
  <1>4. QED
    BY <1>1, <1>2, <1>3 DEF Moves, Sends, Proceed, Advanced

LEMMA LoginMoves ==
    ASSUME TypeOK, NEW n \in Nonces, Login(n)
    PROVE  Moves(n) /\ client'[n].a = client[n].a
  <1>1. client[n].at = "done" /\ client' = [client EXCEPT ![n].at = "in"]
    BY DEF Login
  <1>2. /\ client'[n].at = "in" /\ client'[n].conns = client[n].conns
        /\ client'[n].a = client[n].a
        /\ \A m \in Nonces \ {n} : client'[m] = client[m]
    BY <1>1 DEF TypeOK, ClientType, Clients
  <1>3. QED
    BY <1>1, <1>2 DEF Moves, Advanced

LEMMA ReceiveMoves ==
    ASSUME TypeOK, NEW c \in Conns, Receive(c)
    PROVE  \/ UNCHANGED <<client, packets>>
           \/ \E n \in Nonces : /\ Moves(n)
                                /\ Sends(n, c) \/ (UNCHANGED packets /\ client'[n].at # "in")
  <1> DEFINE m == Head(answers[c])
             k == m.nonce
  <1>1. answers[c] \in Seq(Messages) /\ answers[c] # <<>>
    BY DEF TypeOK, WireType, Receive
  <1>2. m \in Messages /\ 1 \in DOMAIN answers[c] /\ m = answers[c][1]
    BY <1>1
  <1>3. k \in Nonces /\ client[k] \in Clients
    BY <1>2 DEF Messages, TypeOK, ClientType
  <1>4. \E i \in DOMAIN answers[c] : answers[c][i].nonce = k
    BY <1>2
  <1>5. \/ TakeResPQ(c, k, m) \/ TakeDhParams(c, k, m)
        \/ TakeDhGenOk(k, m) \/ GiveUp(k, m) \/ Ignore(k, m)
    BY DEF Receive
  <1>6. UNCHANGED work
    BY DEF Receive
  <1> HIDE DEF m, k
  <1>7. CASE TakeResPQ(c, k, m)
    <2> DEFINE me == [client[k] EXCEPT !.at = "dh", !.server = m.server]
    <2>1. /\ me.at = "dh" /\ me.conns = client[k].conns /\ client[k].at = "pq"
          /\ Proceed(k, c, me)
      BY <1>3, <1>7 DEF Clients, TakeResPQ
    <2> HIDE DEF me
    <2>2. client'[k] = me /\ \A j \in Nonces \ {k} : client'[j] = client[j]
      BY <1>3, <2>1 DEF Proceed, TypeOK, ClientType
    <2>3. QED
      BY <1>3, <1>4, <1>6, <2>1, <2>2 DEF Moves, Sends, Proceed, Advanced
  <1>8. CASE TakeDhParams(c, k, m)
    <2> DEFINE me == [client[k] EXCEPT !.at = "set", !.a = m.a]
    <2>1. /\ me.at = "set" /\ me.conns = client[k].conns /\ client[k].at = "dh"
          /\ Proceed(k, c, me)
      BY <1>3, <1>8 DEF Clients, TakeDhParams
    <2> HIDE DEF me
    <2>2. client'[k] = me /\ \A j \in Nonces \ {k} : client'[j] = client[j]
      BY <1>3, <2>1 DEF Proceed, TypeOK, ClientType
    <2>3. QED
      BY <1>3, <1>4, <1>6, <2>1, <2>2 DEF Moves, Sends, Proceed, Advanced
  <1>9. CASE TakeDhGenOk(k, m) \/ GiveUp(k, m)
    <2>1. /\ client'[k].at \in {"done", "failed"} /\ client'[k].conns = client[k].conns
          /\ client[k].at \in {"pq", "dh", "set"} /\ UNCHANGED packets
          /\ \A j \in Nonces \ {k} : client'[j] = client[j]
      BY <1>3, <1>9 DEF TakeDhGenOk, GiveUp, TypeOK, ClientType, Clients
    <2>2. QED
      BY <1>3, <2>1 DEF Moves, Advanced
  <1>10. CASE Ignore(k, m)
    BY <1>10 DEF Ignore
  <1>11. QED
    BY <1>5, <1>7, <1>8, <1>9, <1>10

-----------------------------------------------------------------------------
\* A step moves at most one client; the other actions leave the clients alone.
LEMMA ClientSteps ==
    ASSUME TypeOK, [Next]_vars
    PROVE  UNCHANGED client \/ \E n \in Nonces : Moves(n)
  <1>1. ASSUME NEW n \in Nonces, NEW c \in Conns, Start(n, c) \/ Repeat(n, c) PROVE Moves(n)
    BY <1>1, StartMoves, RepeatMoves
  <1>2. ASSUME NEW n \in Nonces, Login(n) PROVE Moves(n)
    BY <1>2, LoginMoves
  <1>3. ASSUME NEW c \in Conns, Receive(c)
        PROVE  UNCHANGED client \/ \E n \in Nonces : Moves(n)
    BY <1>3, ReceiveMoves
  <1>4. QED
    BY <1>1, <1>2, <1>3
       DEF Next, vars, Process, Create, ListSalts, AppendSalt, Confirm, StorageFails,
           Expire, Tick, Crash

LEMMA ConnsKnownStep == TypeOK /\ ConnsKnown /\ [Next]_vars => ConnsKnown'
  <1> SUFFICES ASSUME TypeOK, ConnsKnown, [Next]_vars PROVE ConnsKnown'
    OBVIOUS
  <1>1. CASE UNCHANGED client
    BY <1>1 DEF ConnsKnown
  <1>2. ASSUME NEW n \in Nonces, Moves(n) PROVE ConnsKnown'
    <2>1. IsFiniteSet(client[n].conns) /\ (client[n].conns = {} <=> client[n].at = "new")
      BY DEF ConnsKnown
    <2>2. \A c : IsFiniteSet({c}) /\ IsFiniteSet(client[n].conns \cup {c})
      BY <2>1, FS_Singleton, FS_AddElement
    <2>3. IsFiniteSet(client'[n].conns) /\ (client'[n].conns = {} <=> client'[n].at = "new")
      BY <1>2, <2>1, <2>2 DEF Moves
    <2>4. QED
      BY <1>2, <2>3 DEF Moves, ConnsKnown
  <1>3. QED
    BY <1>1, <1>2, ClientSteps

\* What a client used and reached, it keeps.
LEMMA ClientKeeps ==
    ASSUME TypeOK, ConnsKnown, [Next]_vars, NEW n \in Nonces
    PROVE  /\ client[n].conns \subseteq client'[n].conns
           /\ Advanced(n) => Advanced(n)'
           /\ client[n].at # "new" /\ Single(n)' => Single(n)
  <1>1. CASE client'[n] = client[n]
    BY <1>1 DEF Advanced, Single
  <1>2. CASE Moves(n)
    <2>1. client[n].conns = {} <=> client[n].at = "new"
      BY DEF ConnsKnown
    <2>2. client[n].conns \subseteq client'[n].conns /\ (Advanced(n) => Advanced(n)')
      BY <1>2, <2>1 DEF Moves
    <2>3. ASSUME client[n].at # "new", Single(n)' PROVE Single(n)
      <3>1. PICK c \in Conns : client'[n].conns = {c}
        BY <2>3 DEF Single
      <3>2. client[n].conns = {c}
        BY <2>1, <2>2, <2>3, <3>1
      <3>3. QED
        BY <3>2 DEF Single
    <2>4. QED
      BY <2>2, <2>3
  <1>3. QED
    BY <1>1, <1>2, ClientSteps DEF Moves

-----------------------------------------------------------------------------
LEMMA PacketSteps ==
    ASSUME TypeOK, [Next]_vars, NEW c \in Conns
    PROVE  \/ packets'[c] = packets[c]
           \/ \E n \in Nonces : Sends(n, c)
           \/ Process(c)
           \/ packets'[c] = <<>> /\ ~Busy(c)'
  <1>1. ASSUME NEW n \in Nonces, NEW d \in Conns, Sends(n, d)
        PROVE  packets'[c] = packets[c] \/ Sends(n, c)
    <2>1. d # c => packets'[c] = packets[c]
      BY <1>1 DEF Sends, TypeOK, WireType
    <2>2. QED
      BY <1>1, <2>1
  <1>2. ASSUME NEW n \in Nonces, NEW d \in Conns, Start(n, d) \/ Repeat(n, d)
        PROVE  packets'[c] = packets[c] \/ Sends(n, c)
    BY <1>1, <1>2, StartMoves, RepeatMoves
  <1>3. ASSUME NEW d \in Conns, Receive(d)
        PROVE  packets'[c] = packets[c] \/ \E n \in Nonces : Sends(n, c)
    BY <1>1, <1>3, ReceiveMoves
  <1>4. ASSUME NEW d \in Conns, Process(d) PROVE packets'[c] = packets[c] \/ Process(c)
    <2>1. packets' = [packets EXCEPT ![d] = Tail(packets[d])]
      BY <1>4 DEF Process
    <2>2. d # c => packets'[c] = packets[c]
      BY <2>1 DEF TypeOK, WireType
    <2>3. QED
      BY <1>4, <2>2
  <1>5. ASSUME Crash PROVE packets'[c] = <<>> /\ ~Busy(c)'
    BY <1>5 DEF Crash, Busy, NoWork
  <1>6. QED
    BY <1>2, <1>3, <1>4, <1>5
       DEF Next, vars, Login, Create, ListSalts, AppendSalt, Confirm, StorageFails, Expire, Tick

\* What is in process was in process, or is the packet just taken.
Takes(c) ==
    /\ Process(c)
    /\ IsLast(Head(packets[c]))
    /\ store[Head(packets[c]).nonce] # None
    /\ work'[c].nonce = Head(packets[c]).nonce

LEMMA WorkSteps ==
    ASSUME TypeOK, [Next]_vars, NEW c \in Conns, Busy(c)'
    PROVE  \/ Busy(c) /\ work'[c].nonce = work[c].nonce /\ work'[c].a = work[c].a
           \/ Takes(c)
  <1>1. CASE work'[c] = work[c]
    BY <1>1 DEF Busy
  <1>2. ASSUME NEW d \in Conns, Process(d), work'[c] # work[c] PROVE Takes(c)
    <2> DEFINE p == Head(packets[d])
    <2>1. \/ HandleReqPq(d, p) \/ HandleReqDhParams(d, p)
          \/ HandleSetClientDhParams(d, p) \/ RegenerateKey(d, p)
      BY <1>2 DEF Process
    <2>2. p = Head(packets[d])
      OBVIOUS
    <2> HIDE DEF p
    <2>3. HandleSetClientDhParams(d, p)
      BY <1>2, <2>1 DEF HandleReqPq, HandleReqDhParams, RegenerateKey
    <2>4. /\ p.step = "set_client_DH_params" /\ store[p.nonce] # None
          /\ work' = [work EXCEPT ![d] = [at |-> "create", nonce |-> p.nonce,
                         server |-> store[p.nonce].server, a |-> store[p.nonce].a]]
      BY <2>3 DEF HandleSetClientDhParams, CanComplete
    <2>5. d = c /\ work'[c].nonce = p.nonce
      BY <1>2, <2>4 DEF TypeOK, WorkType
    <2>6. QED
      BY <1>2, <2>2, <2>4, <2>5 DEF Takes, IsLast
  <1>3. ASSUME NEW d \in Conns, Create(d) \/ ListSalts(d) \/ AppendSalt(d), work'[c] # work[c]
        PROVE  Busy(c) /\ work'[c].nonce = work[c].nonce /\ work'[c].a = work[c].a
    <2>1. PICK at : work' = [work EXCEPT ![d].at = at]
      BY <1>3 DEF Create, ListSalts, AppendSalt
    <2>2. work[d].at # "idle" /\ d = c
      BY <1>3, <2>1 DEF Create, ListSalts, AppendSalt, TypeOK, WorkType
    <2>3. work[c] \in Works
      BY <2>2, WorkFields DEF TypeOK
    <2>4. work'[c] = [work[c] EXCEPT !.at = at]
      BY <2>1, <2>2 DEF TypeOK, WorkType
    <2>5. QED
      BY <2>2, <2>3, <2>4 DEF Works, Busy
  <1>4. ASSUME NEW d \in Conns, Confirm(d) \/ StorageFails(d) PROVE work'[c] = work[c]
    BY <1>4 DEF Confirm, StorageFails, AfterFailure, NoWork, Busy, TypeOK, WorkType
  <1>5. ASSUME Crash PROVE FALSE
    BY <1>5 DEF Crash, NoWork, Busy
  <1>6. QED
    BY <1>1, <1>2, <1>3, <1>4, <1>5
       DEF Next, vars, Start, Repeat, Login, Receive, Expire, Tick

LEMMA AnswerSteps ==
    ASSUME TypeOK, [Next]_vars, NEW c \in Conns, NEW i \in DOMAIN answers'[c]
    PROVE  \/ \E j \in DOMAIN answers[c] : answers'[c][i] = answers[c][j]
           \/ Process(c) /\ answers'[c][i].nonce = Head(packets[c]).nonce
           \/ Busy(c) /\ answers'[c][i].nonce = work[c].nonce
  <1>1. answers[c] \in Seq(Messages)
    BY DEF TypeOK, WireType
  <1>2. CASE answers'[c] = answers[c]
    BY <1>2
  <1>3. ASSUME NEW d \in Conns, NEW m, Answer(d, m)
        PROVE  \/ \E j \in DOMAIN answers[c] : answers'[c][i] = answers[c][j]
               \/ d = c /\ answers'[c][i] = m
    <2>1. CASE d = c
      <3>1. answers'[c] = Append(answers[c], m)
        BY <1>3, <2>1 DEF Answer, TypeOK, WireType
      <3>2. DOMAIN answers'[c] = 1..(Len(answers[c]) + 1) /\ DOMAIN answers[c] = 1..Len(answers[c])
            /\ Len(answers[c]) \in Nat
        BY <1>1, <3>1
      <3>3. CASE i = Len(answers[c]) + 1
        BY <1>1, <2>1, <3>1, <3>3
      <3>4. CASE i # Len(answers[c]) + 1
        <4>1. i \in DOMAIN answers[c] /\ answers'[c][i] = answers[c][i]
          BY <1>1, <3>1, <3>2, <3>4
        <4>2. QED
          BY <4>1
      <3>5. QED
        BY <3>3, <3>4
    <2>2. CASE d # c
      BY <1>2, <1>3, <2>2 DEF Answer, TypeOK, WireType
    <2>3. QED
      BY <2>1, <2>2
  <1>4. ASSUME NEW d \in Conns, Receive(d)
        PROVE  \E j \in DOMAIN answers[c] : answers'[c][i] = answers[c][j]
    <2>1. answers' = [answers EXCEPT ![d] = Tail(answers[d])] /\ answers[d] # <<>>
      BY <1>4 DEF Receive
    <2>2. CASE d = c
      <3>1. answers'[c] = Tail(answers[c]) /\ answers[c] # <<>>
        BY <2>1, <2>2 DEF TypeOK, WireType
      <3>2. i + 1 \in DOMAIN answers[c] /\ answers'[c][i] = answers[c][i + 1]
        BY <1>1, <3>1
      <3>3. QED
        BY <3>2
    <2>3. CASE d # c
      BY <1>2, <2>1, <2>3 DEF TypeOK, WireType
    <2>4. QED
      BY <2>2, <2>3
  <1>5. ASSUME NEW d \in Conns, Process(d)
        PROVE  \/ \E j \in DOMAIN answers[c] : answers'[c][i] = answers[c][j]
               \/ Process(c) /\ answers'[c][i].nonce = Head(packets[c]).nonce
    <2> DEFINE p == Head(packets[d])
    <2>1. \/ HandleReqPq(d, p) \/ HandleReqDhParams(d, p)
          \/ HandleSetClientDhParams(d, p) \/ RegenerateKey(d, p)
      BY <1>5 DEF Process
    <2>2. p = Head(packets[d])
      OBVIOUS
    <2> HIDE DEF p
    <2>3. CASE HandleSetClientDhParams(d, p)
      BY <1>2, <2>3 DEF HandleSetClientDhParams
    <2>4. CASE HandleReqPq(d, p) \/ HandleReqDhParams(d, p) \/ RegenerateKey(d, p)
      <3>1. PICK m : Answer(d, m) /\ m.nonce = p.nonce
        BY <2>4 DEF HandleReqPq, HandleReqDhParams, RegenerateKey
      <3>2. QED
        BY <1>3, <1>5, <2>2, <3>1
    <2>5. QED
      BY <2>1, <2>3, <2>4
  <1>6. ASSUME NEW d \in Conns, Confirm(d)
        PROVE  \/ \E j \in DOMAIN answers[c] : answers'[c][i] = answers[c][j]
               \/ Busy(c) /\ answers'[c][i].nonce = work[c].nonce
    <2>1. PICK m : Answer(d, m) /\ m.nonce = work[d].nonce
      BY <1>6 DEF Confirm
    <2>2. Busy(d)
      BY <1>6 DEF Confirm, Busy
    <2>3. QED
      BY <1>3, <2>1, <2>2
  <1>7. ASSUME Crash PROVE FALSE
    BY <1>7 DEF Crash
  <1>8. QED
    BY <1>2, <1>4, <1>5, <1>6, <1>7
       DEF Next, vars, Start, Repeat, Proceed, Login, Create, ListSalts, AppendSalt, StorageFails,
           Expire, Tick

-----------------------------------------------------------------------------
\* The packet a client sends, at the end of its connection.
LEMMA SentLast ==
    ASSUME TypeOK, NEW n \in Nonces, NEW c \in Conns, Sends(n, c)
    PROVE  LET e == Len(packets[c]) + 1
           IN /\ DOMAIN packets[c] = 1..(e - 1) /\ DOMAIN packets'[c] = 1..e /\ e \in Nat
              /\ \A i \in DOMAIN packets[c] : packets'[c][i] = packets[c][i]
              /\ packets'[c][e].nonce = n
              /\ IsLast(packets'[c][e]) <=> client'[n].at = "set"
  <1> DEFINE q == Request(n, client'[n])
  <1>1. packets[c] \in Seq(Steps)
    BY DEF TypeOK, WireType
  <1>2. packets'[c] = Append(packets[c], q)
    BY DEF Sends, TypeOK, WireType
  <1>3. q.nonce = n /\ (q.step = "set_client_DH_params" <=> client'[n].at = "set")
    BY DEF Sends, Request
  <1> HIDE DEF q
  <1>4. QED
    BY <1>1, <1>2, <1>3 DEF IsLast

\* The packet taken, from the front of its connection.
LEMMA TakenFirst ==
    ASSUME TypeOK, NEW c \in Conns, Process(c)
    PROVE  /\ ~Busy(c)
           /\ 1 \in DOMAIN packets[c] /\ Head(packets[c]) = packets[c][1]
           /\ \A i \in DOMAIN packets'[c] :
                 i \in Nat /\ 1 < i + 1
                 /\ i + 1 \in DOMAIN packets[c] /\ packets'[c][i] = packets[c][i + 1]
  <1>1. packets[c] \in Seq(Steps) /\ packets[c] # <<>>
    BY DEF TypeOK, WireType, Process
  <1>2. packets'[c] = Tail(packets[c])
    BY DEF Process, TypeOK, WireType
  <1>3. ~Busy(c)
    BY DEF Process, NoWork, Busy
  <1>4. QED
    BY <1>1, <1>2, <1>3

\* The nonces on the wire and in process are a client's.
LEMMA Named ==
    ASSUME TypeOK, NEW c \in Conns
    PROVE  /\ \A i \in DOMAIN packets[c] : packets[c][i].nonce \in Nonces
           /\ \A i \in DOMAIN answers[c] : answers[c][i].nonce \in Nonces
           /\ \A m \in Confirmations(c) : m.nonce \in Nonces
           /\ Busy(c) => work[c].nonce \in Nonces
  <1>1. packets[c] \in Seq(Steps) /\ answers[c] \in Seq(Messages)
    BY DEF TypeOK, WireType
  <1>2. \A i \in DOMAIN packets[c] : packets[c][i] \in Steps
    BY <1>1
  <1>3. \A i \in DOMAIN answers[c] : answers[c][i] \in Messages
    BY <1>1
  <1>4. \A m \in Messages : m.nonce \in Nonces
    BY DEF Messages
  <1>5. \A p \in Steps : p.nonce \in Nonces
    BY DEF Steps
  <1>6. QED
    BY <1>2, <1>3, <1>4, <1>5, WorkFields DEF Confirmations, Busy, TypeOK

LEMMA RoutedStep == TypeOK /\ ConnsKnown /\ Routed /\ [Next]_vars => Routed'
  <1> SUFFICES ASSUME TypeOK, ConnsKnown, Routed, [Next]_vars, NEW c \in Conns
               PROVE  /\ \A i \in DOMAIN packets'[c] : c \in client'[packets'[c][i].nonce].conns
                      /\ \A i \in DOMAIN answers'[c] : c \in client'[answers'[c][i].nonce].conns
                      /\ Busy(c)' => c \in client'[work'[c].nonce].conns
    BY DEF Routed
  <1>1. \A n \in Nonces : c \in client[n].conns => c \in client'[n].conns
    BY ClientKeeps
  <1>2. /\ \A i \in DOMAIN packets[c] : c \in client'[packets[c][i].nonce].conns
        /\ \A i \in DOMAIN answers[c] : c \in client'[answers[c][i].nonce].conns
        /\ Busy(c) => c \in client'[work[c].nonce].conns
    BY <1>1, Named DEF Routed
  <1>3. Process(c) => c \in client'[Head(packets[c]).nonce].conns
    BY <1>2, TakenFirst
  <1>4. ASSUME NEW i \in DOMAIN packets'[c] PROVE c \in client'[packets'[c][i].nonce].conns
    <2>1. CASE packets'[c] = packets[c]
      BY <1>2, <1>4, <2>1
    <2>2. ASSUME NEW n \in Nonces, Sends(n, c) PROVE c \in client'[packets'[c][i].nonce].conns
      <3>1. c \in client'[n].conns
        BY <1>2, <2>2 DEF Sends
      <3>2. (i \in DOMAIN packets[c] /\ packets'[c][i] = packets[c][i]) \/ packets'[c][i].nonce = n
        BY <1>4, <2>2, SentLast
      <3>3. QED
        BY <1>2, <3>1, <3>2
    <2>3. CASE Process(c)
      BY <1>2, <1>4, <2>3, TakenFirst
    <2>4. QED
      BY <1>4, <2>1, <2>2, <2>3, PacketSteps
  <1>5. ASSUME NEW i \in DOMAIN answers'[c] PROVE c \in client'[answers'[c][i].nonce].conns
    BY <1>2, <1>3, AnswerSteps
  <1>6. ASSUME Busy(c)' PROVE c \in client'[work'[c].nonce].conns
    BY <1>2, <1>3, <1>6, WorkSteps DEF Takes
  <1>7. QED
    BY <1>4, <1>5, <1>6

LEMMA OnlyAdvancedStep ==
    TypeOK /\ ConnsKnown /\ OnlyAdvanced /\ [Next]_vars => OnlyAdvanced'
  <1> DEFINE Adv(n) == client'[n].at \in {"set", "done", "in", "failed"}
  <1> SUFFICES ASSUME TypeOK, ConnsKnown, OnlyAdvanced, [Next]_vars, NEW c \in Conns
               PROVE  /\ \A i \in DOMAIN packets'[c] :
                            IsLast(packets'[c][i]) => Adv(packets'[c][i].nonce)
                      /\ Busy(c)' => Adv(work'[c].nonce)
                      /\ \A m \in Confirmations(c)' : Adv(m.nonce)
    BY DEF OnlyAdvanced, IsLast, Advanced
  <1>1. \A n \in Nonces : Advanced(n) => Adv(n)
    BY ClientKeeps DEF Advanced
  <1>2. \A d \in Conns :
            /\ \A i \in DOMAIN packets[d] : IsLast(packets[d][i]) => Adv(packets[d][i].nonce)
            /\ Busy(d) => Adv(work[d].nonce)
            /\ \A m \in Confirmations(d) : Adv(m.nonce)
    BY <1>1, Named DEF OnlyAdvanced
  <1>3. ASSUME NEW i \in DOMAIN packets'[c], IsLast(packets'[c][i]) PROVE Adv(packets'[c][i].nonce)
    <2>1. CASE packets'[c] = packets[c]
      BY <1>2, <1>3, <2>1
    <2>2. ASSUME NEW n \in Nonces, Sends(n, c) PROVE Adv(packets'[c][i].nonce)
      <3> DEFINE e == Len(packets[c]) + 1
      <3>1. /\ DOMAIN packets[c] = 1..(e - 1) /\ DOMAIN packets'[c] = 1..e /\ e \in Nat
            /\ \A k \in DOMAIN packets[c] : packets'[c][k] = packets[c][k]
            /\ packets'[c][e].nonce = n
            /\ IsLast(packets'[c][e]) <=> client'[n].at = "set"
        BY <2>2, SentLast
      <3> HIDE DEF e
      <3>2. i = e \/ i \in DOMAIN packets[c]
        BY <1>3, <3>1
      <3>3. CASE i = e
        BY <1>3, <3>1, <3>3
      <3>4. CASE i \in DOMAIN packets[c]
        <4>1. packets'[c][i] = packets[c][i]
          BY <3>1, <3>4
        <4>2. QED
          BY <1>2, <1>3, <3>4, <4>1
      <3>5. QED
        BY <3>2, <3>3, <3>4
    <2>3. CASE Process(c)
      BY <1>2, <1>3, <2>3, TakenFirst
    <2>4. QED
      BY <1>3, <2>1, <2>2, <2>3, PacketSteps
  <1>4. ASSUME Busy(c)' PROVE Adv(work'[c].nonce)
    <2>1. CASE Takes(c)
      BY <1>2, <2>1, TakenFirst DEF Takes
    <2>2. QED
      BY <1>2, <1>4, <2>1, WorkSteps
  <1>5. ASSUME NEW m \in Confirmations(c)' PROVE Adv(m.nonce)
    BY <1>2, ConfirmedBefore DEF Busy
  <1>6. QED
    BY <1>3, <1>4, <1>5

LEMMA InOrderStep == TypeOK /\ InOrder /\ OnlyAdvanced /\ [Next]_vars => InOrder'
  <1> SUFFICES ASSUME TypeOK, InOrder, OnlyAdvanced, [Next]_vars PROVE InOrder'
    OBVIOUS
  <1>a. SUFFICES ASSUME NEW c \in Conns
                 PROVE  /\ \A i \in DOMAIN packets'[c], j \in DOMAIN packets'[c] :
                              i < j /\ packets'[c][i].nonce = packets'[c][j].nonce
                                 /\ IsLast(packets'[c][i])
                                  => IsLast(packets'[c][j])
                        /\ \A j \in DOMAIN packets'[c] :
                              Busy(c)' /\ packets'[c][j].nonce = work'[c].nonce
                                  => IsLast(packets'[c][j])
    BY DEF InOrder, IsLast
  <1> DEFINE Sorted == \A i \in DOMAIN packets'[c], j \in DOMAIN packets'[c] :
                            i < j /\ packets'[c][i].nonce = packets'[c][j].nonce
                               /\ IsLast(packets'[c][i])
                                => IsLast(packets'[c][j])
             AfterWork == \A j \in DOMAIN packets'[c] :
                              Busy(c)' /\ packets'[c][j].nonce = work'[c].nonce
                                  => IsLast(packets'[c][j])
  <1>b. SUFFICES Sorted /\ AfterWork
    OBVIOUS
  <1>1. /\ \A i, j \in DOMAIN packets[c] :
              i < j /\ packets[c][i].nonce = packets[c][j].nonce /\ IsLast(packets[c][i])
                  => IsLast(packets[c][j])
        /\ \A j \in DOMAIN packets[c] :
              Busy(c) /\ packets[c][j].nonce = work[c].nonce => IsLast(packets[c][j])
    BY DEF InOrder
  <1>2. ASSUME packets'[c] = packets[c] /\ ~Takes(c) PROVE Sorted /\ AfterWork
    <2>1. Busy(c)' => Busy(c) /\ work'[c].nonce = work[c].nonce
      BY <1>2, WorkSteps
    <2>2. Sorted
      BY <1>1, <1>2
    <2>3. AfterWork
      BY <1>1, <1>2, <2>1
    <2>4. QED
      BY <2>2, <2>3
  <1>3. ASSUME NEW n \in Nonces, Sends(n, c)
        PROVE  Sorted /\ AfterWork
    <2> DEFINE e == Len(packets[c]) + 1
    <2>1. /\ DOMAIN packets[c] = 1..(e - 1) /\ DOMAIN packets'[c] = 1..e /\ e \in Nat
          /\ \A i \in DOMAIN packets[c] : packets'[c][i] = packets[c][i]
          /\ packets'[c][e].nonce = n
          /\ IsLast(packets'[c][e]) <=> client'[n].at = "set"
      BY <1>3, SentLast
    <2>2. Advanced(n) => client'[n].at = "set"
      BY <1>3 DEF Sends, Advanced
    <2>3. work'[c] = work[c] /\ (Busy(c)' <=> Busy(c))
      BY <1>3 DEF Sends, Busy
    <2> HIDE DEF e
    <2>4. ASSUME NEW i \in DOMAIN packets'[c], NEW j \in DOMAIN packets'[c], i < j,
                 packets'[c][i].nonce = packets'[c][j].nonce, IsLast(packets'[c][i])
          PROVE  IsLast(packets'[c][j])
      <3>1. i \in DOMAIN packets[c] /\ packets'[c][i] = packets[c][i]
        BY <2>1, <2>4
      <3>2. CASE j = e
        BY <2>1, <2>2, <2>4, <3>1, <3>2 DEF OnlyAdvanced
      <3>3. CASE j # e
        <4>1. j \in DOMAIN packets[c] /\ packets'[c][j] = packets[c][j]
          BY <2>1, <2>4, <3>3
        <4>2. QED
          BY <1>1, <2>4, <3>1, <4>1
      <3>4. QED
        BY <3>2, <3>3
    <2>5. ASSUME NEW j \in DOMAIN packets'[c], Busy(c)', packets'[c][j].nonce = work'[c].nonce
          PROVE  IsLast(packets'[c][j])
      <3>1. CASE j = e
        BY <2>1, <2>2, <2>3, <2>5, <3>1 DEF OnlyAdvanced
      <3>2. CASE j # e
        <4>1. j \in DOMAIN packets[c] /\ packets'[c][j] = packets[c][j]
          BY <2>1, <2>5, <3>2
        <4>2. QED
          BY <1>1, <2>3, <2>5, <4>1
      <3>3. QED
        BY <3>1, <3>2
    <2>6. Sorted
      BY <2>4
    <2>7. AfterWork
      BY <2>5
    <2>8. QED
      BY <2>6, <2>7
  <1>4. ASSUME Process(c) PROVE Sorted /\ AfterWork
    <2>1. /\ ~Busy(c)
          /\ 1 \in DOMAIN packets[c] /\ Head(packets[c]) = packets[c][1]
          /\ \A i \in DOMAIN packets'[c] :
                 i \in Nat /\ 1 < i + 1
                 /\ i + 1 \in DOMAIN packets[c] /\ packets'[c][i] = packets[c][i + 1]
      BY <1>4, TakenFirst
    <2>2. ASSUME NEW i \in DOMAIN packets'[c], NEW j \in DOMAIN packets'[c], i < j,
                 packets'[c][i].nonce = packets'[c][j].nonce, IsLast(packets'[c][i])
          PROVE  IsLast(packets'[c][j])
      <3>1. i + 1 < j + 1
        BY <2>1, <2>2
      <3>2. QED
        BY <1>1, <2>1, <2>2, <3>1
    <2>3. ASSUME NEW j \in DOMAIN packets'[c], Busy(c)', packets'[c][j].nonce = work'[c].nonce
          PROVE  IsLast(packets'[c][j])
      <3>1. Takes(c)
        BY <2>1, <2>3, WorkSteps
      <3>2. QED
        BY <1>1, <2>1, <2>3, <3>1 DEF Takes
    <2>4. Sorted
      BY <2>2
    <2>5. AfterWork
      BY <2>3
    <2>6. QED
      BY <2>4, <2>5
  <1>5. ASSUME packets'[c] = <<>>, ~Busy(c)' PROVE Sorted /\ AfterWork
    BY <1>5
  <1> HIDE DEF Sorted, AfterWork
  <1>6. QED
    BY <1>2, <1>3, <1>4, <1>5, PacketSteps DEF Takes

-----------------------------------------------------------------------------
\* Only the packets before set_client_DH_params put an entry where there was none.
LEMMA EntryNeedsEarlier ==
    ASSUME TypeOK, [Next]_vars, NEW n \in Nonces, store[n] = None, store'[n] # None
    PROVE  \E c \in Conns : /\ Process(c)
                            /\ Head(packets[c]).nonce = n /\ ~IsLast(Head(packets[c]))
  <1>1. ASSUME NEW c \in Conns, Process(c)
        PROVE  Head(packets[c]).nonce = n /\ ~IsLast(Head(packets[c]))
    <2> DEFINE p == Head(packets[c])
    <2>1. \/ HandleReqPq(c, p) \/ HandleReqDhParams(c, p)
          \/ HandleSetClientDhParams(c, p) \/ RegenerateKey(c, p)
      BY <1>1 DEF Process
    <2> HIDE DEF p
    <2>2. CASE HandleReqPq(c, p) \/ HandleReqDhParams(c, p)
      <3>1. PICK entry : store' = [store EXCEPT ![p.nonce] = entry]
        BY <2>2 DEF HandleReqPq, HandleReqDhParams, Set
      <3>2. p.nonce = n
        BY <3>1 DEF TypeOK, StoreType
      <3>3. ~IsLast(p)
        BY <2>2 DEF HandleReqPq, HandleReqDhParams, IsLast
      <3>4. QED
        BY <3>2, <3>3 DEF p
    <2>3. CASE HandleSetClientDhParams(c, p) \/ RegenerateKey(c, p)
      BY <2>3 DEF HandleSetClientDhParams, RegenerateKey, server
    <2>4. QED
      BY <2>1, <2>2, <2>3
  <1>2. ASSUME NEW c \in Conns, Confirm(c) PROVE FALSE
    BY <1>2 DEF Confirm, Delete, Without, TypeOK, StoreType
  <1>3. ASSUME Expire \/ Tick \/ Crash PROVE FALSE
    BY <1>3 DEF Expire, Tick, Crash, TypeOK, StoreType
  <1>4. QED
    BY <1>1, <1>2, <1>3
       DEF Next, vars, server, Start, Repeat, Login, Receive, Create, ListSalts, AppendSalt,
           StorageFails

\* An exchange that is over stays over.
LEMMA OverStays ==
    ASSUME TypeOK, ConnsKnown, InOrder, [Next]_vars, NEW n \in Nonces, Over(n), Advanced(n)
    PROVE  Over(n)'
  <1>1. /\ store[n] = None
        /\ \A c \in Conns :
            /\ Busy(c) => work[c].nonce # n
            /\ \A i \in DOMAIN packets[c] : packets[c][i].nonce = n => IsLast(packets[c][i])
    BY DEF Over
  <1>2. store'[n] = None
    BY <1>1, EntryNeedsEarlier, TakenFirst
  <1>3. ASSUME NEW c \in Conns, Busy(c)' PROVE work'[c].nonce # n
    BY <1>1, <1>3, WorkSteps DEF Takes
  <1>4. ASSUME NEW c \in Conns, NEW i \in DOMAIN packets'[c], packets'[c][i].nonce = n
        PROVE  IsLast(packets'[c][i])
    <2>1. CASE packets'[c] = packets[c]
      BY <1>1, <1>4, <2>1
    <2>2. ASSUME NEW m \in Nonces, Sends(m, c) PROVE IsLast(packets'[c][i])
      <3>1. m = n => client'[m].at = "set"
        BY <2>2 DEF Sends
      <3>2. QED
        BY <1>1, <1>4, <2>2, <3>1, SentLast
    <2>3. CASE Process(c)
      BY <1>1, <1>4, <2>3, TakenFirst
    <2>4. QED
      BY <1>4, <2>1, <2>2, <2>3, PacketSteps
  <1>5. QED
    BY <1>2, <1>3, <1>4 DEF Over, Busy, IsLast

\* The confirmation leaves nothing of an exchange that kept to one connection.
LEMMA ConfirmEnds ==
    ASSUME TypeOK, Routed, InOrder, NEW c \in Conns, Confirm(c),
           NEW n \in Nonces, work[c].nonce = n, Single(n)
    PROVE  Over(n)'
  <1>1. Busy(c)
    BY DEF Confirm, Busy
  <1>2. client[n].conns = {c}
    BY <1>1 DEF Routed, Single
  <1>3. store'[n] = None
    BY <1>1 DEF Confirm, Delete, Without, TypeOK, StoreType
  <1>4. work' = [work EXCEPT ![c] = NoWork] /\ packets' = packets
    BY DEF Confirm
  <1>5. ASSUME NEW d \in Conns, work'[d].at # "idle" PROVE work'[d].nonce # n
    <2>1. d # c /\ work'[d] = work[d]
      BY <1>4, <1>5 DEF TypeOK, WorkType, NoWork
    <2>2. QED
      BY <1>2, <1>5, <2>1 DEF Routed, Busy
  <1>6. ASSUME NEW d \in Conns, NEW i \in DOMAIN packets[d], packets[d][i].nonce = n
        PROVE  IsLast(packets[d][i])
    <2>1. d = c
      BY <1>2, <1>6 DEF Routed
    <2>2. QED
      BY <1>1, <1>6, <2>1 DEF InOrder
  <1>7. QED
    BY <1>3, <1>4, <1>5, <1>6 DEF Over, Busy, IsLast

LEMMA ToldBefore ==
    ASSUME TypeOK, [Next]_vars, NEW n \in Nonces, Told(n)'
    PROVE  Told(n) \/ \E c \in Conns : Confirm(c) /\ work[c].nonce = n
  <1>1. CASE Established(n)'
    BY <1>1, EstablishedBefore DEF Told
  <1>2. ASSUME NEW d \in Conns, NEW m \in Confirmations(d)', m.nonce = n
        PROVE  Told(n) \/ \E c \in Conns : Confirm(c) /\ work[c].nonce = n
    <2>1. CASE UNCHANGED answers
      BY <1>2, <2>1, ConfirmationsStay DEF Told
    <2>2. ASSUME NEW c \in Conns, Receive(c) \/ Process(c) PROVE Told(n)
      BY <1>2, <2>2, ConfirmationsShrink, ProcessConfirmsNothing DEF Told
    <2>3. ASSUME NEW c \in Conns, Confirm(c) PROVE Told(n) \/ work[c].nonce = n
      BY <1>2, <2>3, ConfirmAdds DEF Told
    <2>4. ASSUME Crash PROVE FALSE
      BY <1>2, <2>4 DEF Crash, Confirmations
    <2>5. QED
      BY <2>1, <2>2, <2>3, <2>4
         DEF Next, vars, Start, Repeat, Proceed, Login, Create, ListSalts, AppendSalt,
             StorageFails, Expire, Tick
  <1>3. QED
    BY <1>1, <1>2 DEF Told, Established, Confirmations

LEMMA ToldIsAdvanced ==
    ASSUME OnlyAdvanced, NEW n \in Nonces, Told(n)
    PROVE  Advanced(n) /\ client[n].at # "new"
  BY DEF OnlyAdvanced, Told, Established, Advanced

LEMMA OnceToldStep ==
    /\ TypeOK /\ ConnsKnown /\ Routed /\ InOrder /\ OnlyAdvanced /\ OnceTold
    /\ [Next]_vars
    => OnceTold'
  <1> SUFFICES ASSUME TypeOK, ConnsKnown, Routed, InOrder, OnlyAdvanced, OnceTold, [Next]_vars,
                      NEW n \in Nonces, Told(n)', Single(n)'
               PROVE  Over(n)'
    BY DEF OnceTold
  <1>1. CASE Told(n)
    <2>1. Advanced(n) /\ client[n].at # "new"
      BY <1>1, ToldIsAdvanced
    <2>2. Single(n)
      BY <2>1, ClientKeeps
    <2>3. QED
      BY <1>1, <2>1, <2>2, OverStays DEF OnceTold
  <1>2. ASSUME NEW c \in Conns, Confirm(c), work[c].nonce = n PROVE Over(n)'
    <2>1. Busy(c) /\ client' = client
      BY <1>2 DEF Confirm, Busy
    <2>2. Single(n)
      BY <2>1 DEF Single
    <2>3. QED
      BY <1>2, <2>2, ConfirmEnds
  <1>3. QED
    BY <1>1, <1>2, ToldBefore

-----------------------------------------------------------------------------
\* Of an exchange, only Login gets a client in.
LEMMA InBefore ==
    ASSUME TypeOK, [Next]_vars, NEW n \in Nonces, client'[n].at = "in", ~Login(n)
    PROVE  client[n].at = "in" /\ client'[n].a = client[n].a
  <1>1. CASE client'[n] = client[n]
    BY <1>1
  <1>2. ASSUME NEW m \in Nonces, NEW c \in Conns, Start(m, c) \/ Repeat(m, c)
        PROVE  client'[n] = client[n]
    <2>1. Moves(m) /\ client'[m].at # "in"
      BY <1>2, StartMoves, RepeatMoves DEF Sends
    <2>2. QED
      BY <2>1 DEF Moves
  <1>3. ASSUME NEW m \in Nonces, Login(m), m # n PROVE client'[n] = client[n]
    BY <1>3, LoginMoves DEF Moves
  <1>4. ASSUME NEW c \in Conns, Receive(c) PROVE client'[n] = client[n]
    <2>1. CASE UNCHANGED client
      BY <2>1
    <2>2. ASSUME NEW m \in Nonces, Moves(m), client'[m].at # "in" PROVE client'[n] = client[n]
      BY <2>2 DEF Moves
    <2>3. QED
      BY <1>4, <2>1, <2>2, ReceiveMoves DEF Sends
  <1>5. QED
    BY <1>1, <1>2, <1>3, <1>4
       DEF Next, vars, Process, Create, ListSalts, AppendSalt, Confirm, StorageFails,
           Expire, Tick, Crash

LEMMA LoginStaysStep ==
    /\ TypeOK /\ Kept /\ ConnsKnown /\ OnceTold /\ LoginStays
    /\ [Next]_vars
    => LoginStays'
  <1> SUFFICES ASSUME TypeOK, Kept, ConnsKnown, OnceTold, LoginStays, [Next]_vars,
                      NEW n \in Nonces, client'[n].at = "in", Single(n)'
               PROVE  keys'[Key(n, client'[n].a)] = User
    BY DEF LoginStays, Key
  <1>1. CASE Login(n)
    <2>1. client'[n].a = client[n].a
      BY <1>1, LoginMoves
    <2>2. QED
      BY <1>1, <2>1 DEF Login, Stored, TypeOK, StorageType
  <1>2. CASE ~Login(n)
    <2> DEFINE k == Key(n, client[n].a)
    <2>1. client[n].at = "in" /\ client'[n].a = client[n].a
      BY <1>2, InBefore
    <2>2. Single(n)
      BY <2>1, ClientKeeps
    <2>3. keys[k] = User /\ k \in DOMAIN keys
      BY <2>1, <2>2 DEF LoginStays, Kept, Established, Stored
    <2>4. Over(n)
      BY <2>1, <2>2 DEF OnceTold, Told, Established
    <2>5. CASE UNCHANGED keys
      BY <2>1, <2>3, <2>5
    <2>6. ASSUME NEW m \in Nonces, Login(m) PROVE keys'[k] = User
      BY <2>3, <2>6 DEF Login, TypeOK, StorageType
    <2>7. ASSUME NEW c \in Conns, Create(c) PROVE keys'[k] = User
      <3>1. work[c].nonce # n
        BY <2>4, <2>7 DEF Over, Create, Busy
      <3>2. WorkKey(c) # k
        BY <3>1 DEF WorkKey, Key
      <3>3. QED
        BY <2>3, <2>7, <3>2 DEF Create
    <2>8. QED
      BY <2>1, <2>5, <2>6, <2>7
         DEF Next, vars, storage, Start, Repeat, Receive, Process, ListSalts, AppendSalt,
             Confirm, StorageFails, Expire, Tick, Crash
  <1>3. QED
    BY <1>1, <1>2

LEMMA LInvInit == Init => LInv
  <1> SUFFICES ASSUME Init PROVE LInv
    OBVIOUS
  <1>1. \A n \in Nonces : client[n].at = "new" /\ client[n].conns = {}
    BY DEF Init, NewClient
  <1>2. \A c \in Conns : /\ packets[c] = <<>> /\ answers[c] = <<>> /\ ~Busy(c)
                         /\ Confirmations(c) = {}
    BY DEF Init, Busy, NoWork, Confirmations
  <1>3. ConnsKnown
    BY <1>1, FS_EmptySet DEF ConnsKnown
  <1>4. Routed /\ InOrder /\ OnlyAdvanced
    BY <1>2 DEF Routed, InOrder, OnlyAdvanced
  <1>5. OnceTold /\ LoginStays
    BY <1>1, <1>2 DEF OnceTold, Told, Established, LoginStays
  <1>6. QED
    BY <1>3, <1>4, <1>5 DEF LInv

LEMMA LInvStep == TypeOK /\ Kept /\ LInv /\ [Next]_vars => LInv'
  BY ConnsKnownStep, RoutedStep, InOrderStep, OnlyAdvancedStep, OnceToldStep, LoginStaysStep
     DEF LInv

(***************************************************************************)
(* A login stays: for a client that kept to one connection, authKeys.create*)
(* never writes its key a second time, as an anonymous one, whatever it    *)
(* sent twice, the storage failed or the process restarted.                *)
(***************************************************************************)
THEOREM LoginsAreKept == Spec => []LoginKept
  <1>1. TypeOK /\ LInv => LoginKept
    BY SingleMeans DEF LInv, LoginStays, LoginKept
  <1>2. IInv => TypeOK /\ Kept
    BY DEF IInv
  <1>3. QED
    BY <1>1, <1>2, InvInit, InvStep, LInvInit, LInvStep, PTL DEF Spec
=============================================================================
