-------------------------- MODULE ClientSessionProofs --------------------------
(***************************************************************************)
(* No lost wake-up, and no lost or doubled update, in ClientSession, for   *)
(* any calls, waiters and updates.  For the first, nothing is needed of    *)
(* what dispatch() makes of a packet (a fold over its messages): the loop  *)
(* looks at its condition after it.  The second follows each update from   *)
(* place to place.                                                         *)
(*                                                                         *)
(* And the safety of ScenarioRun, for any scenarios, users and updates:    *)
(* what a run reports, credits and leaves behind.                          *)
(***************************************************************************)
EXTENDS ClientSession, ScenarioRun, NaturalsInduction, WellFoundedInduction, FiniteSetTheorems, TLAPS

(***************************************************************************)
(* The pump polls only when there is nothing to take, wanted or not: a     *)
(* packet that comes in wakes it.  ServedWhileWanted alone does not say    *)
(* so of a pump nobody needs, which a new call then relies on.             *)
(***************************************************************************)
PumpInv ==
    /\ pump = "polling" => inbox = <<>>
    /\ Demand(pending, expects, closed, listening) => pump # "off"

-----------------------------------------------------------------------------
\* The pump never polls past a packet that is there.
LEMMA TakeLooksFirst ==
    ASSUME Take
    PROVE  pump' # "off" /\ (pump' = "polling" => inbox' = <<>>)
BY DEF Take

\* Back at its condition the loop is on while it is wanted.
LEMMA ContinueServes ==
    ASSUME Continue, UNCHANGED <<closed, listening>>
    PROVE  PumpInv'
<1>1. CASE Demand(pending', expects', closed, listening)
    BY <1>1, TakeLooksFirst DEF Continue, PumpInv
<1>2. CASE ~Demand(pending', expects', closed, listening)
    BY <1>2 DEF Continue, Stop, PumpInv, Demand
<1> QED
    BY <1>1, <1>2

\* Whoever starts to wait finds the pump on, or has it started.
LEMMA EnsurePumpServes ==
    ASSUME PumpInv, EnsurePump, UNCHANGED closed
    PROVE  PumpInv'
<1>1. CASE pump = "off" /\ ~closed
    BY <1>1, TakeLooksFirst DEF EnsurePump, PumpInv
<1>2. CASE ~(pump = "off" /\ ~closed)
    BY <1>2 DEF EnsurePump, PumpInv, Demand, loop
<1> QED
    BY <1>1, <1>2

\* A waiter that gives up adds no demand.
LEMMA TimeoutAddsNothing ==
    ASSUME NEW x, Timeout(x), Demand(pending', expects', closed', listening')
    PROVE  Demand(pending, expects, closed, listening)
<1>1. pending' = pending \ {x} /\ expects' = RemoveFirst(expects, x)
    BY DEF Timeout, Becomes, Settled, State
<1>2. RemoveFirst(<<>>, x) = <<>>
    BY DEF RemoveFirst
<1> QED
    BY <1>1, <1>2 DEF Timeout, Demand

-----------------------------------------------------------------------------
LEMMA InitPump == Init => PumpInv
BY DEF Init, PumpInv, Demand

LEMMA NextPump ==
    ASSUME PumpInv, Next
    PROVE  PumpInv'
<1>1. CASE \E c \in Calls : Invoke(c)
    BY <1>1, EnsurePumpServes DEF Invoke
<1>2. CASE \E c \in Calls : InvokeClosed(c) \/ InvokeInvalid(c)
    BY <1>2 DEF InvokeClosed, InvokeInvalid, RejectClosed, PumpInv, loop, waiting
<1>3. CASE \E x \in Expects : ExpectQueued(x) \/ ExpectClosed(x)
    BY <1>3 DEF ExpectQueued, ExpectClosed, RejectClosed, PumpInv, loop, waiting
<1>4. CASE \E x \in Expects : Expect(x)
    BY <1>4, EnsurePumpServes DEF Expect
<1>5. CASE DrainUpdates
    BY <1>5 DEF DrainUpdates, PumpInv, loop
<1>6. CASE Listen
    BY <1>6, EnsurePumpServes DEF Listen
<1>7. CASE StopListening
    BY <1>7 DEF StopListening, PumpInv, Demand, loop, waiting
<1>8. CASE Close
    BY <1>8 DEF Close, PumpInv, Demand, loop
<1>9. CASE \E x \in Calls \cup Expects : Timeout(x)
    BY <1>9, TimeoutAddsNothing DEF Timeout, PumpInv, loop
<1>10. CASE PollTimeout
    BY <1>10, ContinueServes DEF PollTimeout, client
<1>11. CASE Dispatch
    BY <1>11, ContinueServes DEF Dispatch
<1>12. CASE Receive
    BY <1>12 DEF Receive, Arrive, PumpInv, client, waiting
<1> QED
    BY <1>1, <1>2, <1>3, <1>4, <1>5, <1>6, <1>7, <1>8, <1>9, <1>10, <1>11, <1>12
    DEF Next, User

(***************************************************************************)
(* While a call or a waiter is open, or the page listens, the pump runs    *)
(* and does not poll past a packet that is there (session.ts ensurePump,   *)
(* pump; test-client.ts nextPacket).                                       *)
(***************************************************************************)
THEOREM PumpServesWhoWaits == Spec => []ServedWhileWanted
<1>1. PumpInv /\ [Next]_vars => PumpInv'
    <2>1. CASE UNCHANGED vars
        BY <2>1 DEF vars, waiting, PumpInv
    <2> QED
        BY <2>1, NextPump
<1>2. PumpInv => ServedWhileWanted
    BY DEF PumpInv, ServedWhileWanted
<1> QED
    BY InitPump, <1>1, <1>2, PTL DEF Spec

-----------------------------------------------------------------------------
(***************************************************************************)
(* Every update that came is in one place.  Whoever waits is open, so that *)
(* no promise is settled twice and no update it took is overwritten; a     *)
(* waiter is in the queue once, so that it leaves it when it is settled.   *)
(***************************************************************************)
NoneTwice(s) == \A i, j \in 1..Len(s) : s[i] = s[j] => i = j

\* What is in a packet: one message, or two that differ.
Messages == {Result(c) : c \in Calls} \cup {Push(u) : u \in Updates} \cup {Service}

Packets == {<<m>> : m \in Messages}
               \cup {<<m[1], m[2]>> : m \in {n \in Messages \X Messages : n[1] # n[2]}}

\* Of what dispatch() changes, as the record State.
WaitersAreOpen(s) ==
    /\ s \in [pending : SUBSET Calls, expects : Seq(Expects), updates : Seq(Updates),
              timers : SUBSET (Calls \cup Expects),
              outcome : [Calls \cup Expects -> Outcomes \cup Updates]]
    /\ NoneTwice(s.expects)
    /\ \A x \in s.pending \cup ToSet(s.expects) \cup s.timers : s.outcome[x] = "open"

\* The places of an update, but for the packet in hand and the drained ones.
InPacket(u, packets) == \E i \in 1..Len(packets) : Push(u) \in ToSet(packets[i])

InQueue(u, s) == \E i \in 1..Len(s.updates) : s.updates[i] = u

Taken(u, s) == \E x \in Expects : s.outcome[x] = u

\* An update that came is in one of five places, and one that did not in none.
OnePlace(u, packets, held, s, gone, came) ==
    LET p == InPacket(u, packets)
        h == Push(u) \in held
        q == InQueue(u, s)
        t == Taken(u, s)
        d == u \in gone
    IN /\ u \in came <=> p \/ h \/ q \/ t \/ d
       /\ ~(p /\ (h \/ q \/ t \/ d)) /\ ~(h /\ (q \/ t \/ d)) /\ ~(q /\ (t \/ d)) /\ ~(t /\ d)

\* In its place it is once.
OneOfEach(u, packets, s) ==
    /\ \A i, j \in 1..Len(packets) :
           Push(u) \in ToSet(packets[i]) /\ Push(u) \in ToSet(packets[j]) => i = j
    /\ \A i, j \in 1..Len(s.updates) : s.updates[i] = u /\ s.updates[j] = u => i = j
    /\ \A x, y \in Expects : s.outcome[x] = u /\ s.outcome[y] = u => x = y

Placed(packets, held, s, gone, came) ==
    \A u \in Updates : OnePlace(u, packets, held, s, gone, came) /\ OneOfEach(u, packets, s)

CarrierInv ==
    /\ inbox \in Seq(Packets)
    /\ IF pump = "holding" THEN hand \in Packets ELSE hand = <<>>

\* Answers name calls.
SentInv == \A e \in ToSet(sent) : e.call \in Calls

PlaceInv ==
    /\ CarrierInv /\ SentInv
    /\ WaitersAreOpen(State)
    /\ Placed(inbox, ToSet(hand), State, drained, pushed)

-----------------------------------------------------------------------------
(***************************************************************************)
(* What the library's operators make of a sequence: the first that passes  *)
(* a test, a sequence less its first x, a fold over one message or two.    *)
(***************************************************************************)
LEMMA NatMin ==
    ASSUME NEW S, S \subseteq Nat, S # {}
    PROVE  \E m \in S : \A n \in S : m <= n
<1> DEFINE R == OpToRel(<, Nat)
<1>1. IsWellFoundedOn(R, Nat) /\ \A m, n \in Nat : <<n, m>> \in R <=> n < m
    BY NatLessThanWellFounded DEF OpToRel
<1> HIDE DEF R
<1>2. PICK m \in S : \A n \in S : <<n, m>> \notin R
    BY <1>1, WFMin, Zenon
<1>3. ASSUME NEW n \in S PROVE m <= n
    <2>1. m \in Nat /\ n \in Nat /\ ~(n < m)
        BY <1>1, <1>2
    <2> QED BY <2>1
<1> QED BY <1>3

LEMMA MinIn ==
    ASSUME NEW S, S \subseteq Nat, S # {}
    PROVE  Min(S) \in S
<1>1. \E m \in S : \A n \in S : m <= n
    BY NatMin
<1> QED BY <1>1, Zenon DEF Min

LEMMA FirstMatchFacts ==
    ASSUME NEW s, Len(s) \in Nat, NEW u, NEW i, i = FirstMatch(s, u)
    PROVE  /\ i # 0 => i \in 1..Len(s) /\ u \in Matches[s[i]]
           /\ i = 0 => \A j \in 1..Len(s) : u \notin Matches[s[j]]
<1> DEFINE I == {j \in 1..Len(s) : u \in Matches[s[j]]}
<1>1. i = IF I # {} THEN Min(I) ELSE 0
    BY DEF FirstMatch, SelectInSeq
<1>2. I # {} => Min(I) \in I
    <2>1. I \subseteq Nat
        OBVIOUS
    <2> HIDE DEF I
    <2> QED BY <2>1, MinIn
<1> QED BY <1>1, <1>2

LEMMA QueuedFacts ==
    ASSUME NEW x, Len(updates) \in Nat
    PROVE  Queued(x) # 0 => Queued(x) \in 1..Len(updates) /\ updates[Queued(x)] \in Matches[x]
<1> DEFINE I == {j \in 1..Len(updates) : updates[j] \in Matches[x]}
<1>1. Queued(x) = IF I # {} THEN Min(I) ELSE 0
    BY DEF Queued, SelectInSeq
<1>2. I # {} => Min(I) \in I
    <2>1. I \subseteq Nat
        OBVIOUS
    <2> HIDE DEF I
    <2> QED BY <2>1, MinIn
<1> QED BY <1>1, <1>2

LEMMA RemoveFirstIs ==
    ASSUME NEW s, Len(s) \in Nat, NEW x
    PROVE  \/ RemoveFirst(s, x) = s /\ \A j \in 1..Len(s) : s[j] # x
           \/ \E i \in 1..Len(s) : s[i] = x /\ RemoveFirst(s, x) = RemoveAt(s, i)
<1> DEFINE I == {j \in 1..Len(s) : s[j] = x}
           i == SelectInSeq(s, LAMBDA v : v = x)
<1>1. i = IF I # {} THEN Min(I) ELSE 0
    BY DEF SelectInSeq
<1>2. I # {} => Min(I) \in I
    BY MinIn
<1>3. RemoveFirst(s, x) = IF \E j \in 1..Len(s) : s[j] = x THEN RemoveAt(s, i) ELSE s
    BY DEF RemoveFirst
<1> HIDE DEF i
<1> QED BY <1>1, <1>2, <1>3

\* The sequence r has what s has, but for the place i.
Without(r, s, i, E) ==
    /\ r \in Seq(E) /\ Len(r) = Len(s) - 1
    /\ \A j \in 1..(Len(s) - 1) : r[j] = s[IF j < i THEN j ELSE j + 1]

LEMMA RemoveAtFacts ==
    ASSUME NEW E, NEW s \in Seq(E), NEW i \in 1..Len(s), NEW r, r = RemoveAt(s, i)
    PROVE  Without(r, s, i, E)
<1>1. Len(s) \in Nat
    OBVIOUS
<1> DEFINE a == SubSeq(s, 1, i - 1)
           b == SubSeq(s, i + 1, Len(s))
<1>2. a \in Seq(E) /\ Len(a) = i - 1 /\ \A j \in 1..(i - 1) : a[j] = s[j]
    BY <1>1
<1>3. b \in Seq(E) /\ Len(b) = Len(s) - i /\ \A j \in 1..(Len(s) - i) : b[j] = s[j + i]
    BY <1>1
<1>4. r = a \o b
    BY DEF RemoveAt
<1> HIDE DEF a, b
<1>5. r \in Seq(E) /\ Len(r) = Len(s) - 1
    BY <1>1, <1>2, <1>3, <1>4
<1>6. ASSUME NEW j \in 1..(Len(s) - 1) PROVE r[j] = s[IF j < i THEN j ELSE j + 1]
    <2>1. CASE j < i
        BY <2>1, <1>1, <1>2, <1>3, <1>4
    <2>2. CASE ~(j < i)
        <3>1. r[j] = b[j - (i - 1)]
            BY <2>2, <1>1, <1>2, <1>3, <1>4
        <3>2. j - (i - 1) \in 1..(Len(s) - i)
            BY <2>2, <1>1
        <3> QED BY <2>2, <3>1, <3>2, <1>3, <1>1
    <2> QED BY <2>1, <2>2
<1> QED BY <1>5, <1>6 DEF Without

\* A sequence without one of its entries holds the others, none of them twice.
LEMMA WithoutFacts ==
    ASSUME NEW E, NEW s \in Seq(E), NoneTwice(s), NEW i \in 1..Len(s),
           NEW r, Without(r, s, i, E)
    PROVE  r \in Seq(E) /\ NoneTwice(r) /\ ToSet(r) = ToSet(s) \ {s[i]}
<1> DEFINE up(j) == IF j < i THEN j ELSE j + 1
           down(k) == IF k < i THEN k ELSE k - 1
<1>1. Len(s) \in Nat /\ DOMAIN s = 1..Len(s)
    OBVIOUS
<1>2. /\ r \in Seq(E) /\ Len(r) = Len(s) - 1
      /\ \A j \in 1..(Len(s) - 1) : r[j] = s[up(j)]
    BY Zenon DEF Without
<1>3. DOMAIN r = 1..(Len(s) - 1)
    BY <1>2
<1>4. \A j \in 1..(Len(s) - 1) : up(j) \in 1..Len(s) /\ up(j) # i
    BY <1>1
<1>5. \A k \in 1..Len(s) : k # i => down(k) \in 1..(Len(s) - 1) /\ up(down(k)) = k
    BY <1>1
<1>6. \A j, k \in 1..(Len(s) - 1) : up(j) = up(k) => j = k
    BY <1>1
<1> HIDE DEF up, down
<1>7. \A j, k \in 1..Len(s) : s[j] = s[k] => j = k
    BY <1>1, Zenon DEF NoneTwice
<1>8. NoneTwice(r)
    <2>1. ASSUME NEW j \in 1..Len(r), NEW k \in 1..Len(r), r[j] = r[k] PROVE j = k
        <3>1. j \in 1..(Len(s) - 1) /\ k \in 1..(Len(s) - 1)
            BY <1>2
        <3>2. s[up(j)] = s[up(k)]
            BY <3>1, <2>1, <1>2, Zenon
        <3>3. up(j) = up(k)
            BY <3>1, <3>2, <1>4, <1>7, Zenon
        <3> QED BY <3>1, <3>3, <1>6, Zenon
    <2> QED BY <2>1, Zenon DEF NoneTwice
<1>9. ASSUME NEW v \in ToSet(r) PROVE v \in ToSet(s) \ {s[i]}
    <2>1. PICK j \in 1..(Len(s) - 1) : v = r[j]
        BY <1>3, Zenon DEF ToSet
    <2>2. v = s[up(j)] /\ up(j) \in 1..Len(s) /\ up(j) # i
        BY <2>1, <1>2, <1>4, Zenon
    <2>3. v # s[i]
        BY <2>2, <1>7, Zenon
    <2>4. v \in ToSet(s)
        BY <2>2, <1>1, Zenon DEF ToSet
    <2> QED BY <2>3, <2>4, Zenon
<1>10. ASSUME NEW v \in ToSet(s) \ {s[i]} PROVE v \in ToSet(r)
    <2>1. PICK k \in 1..Len(s) : v = s[k]
        BY <1>1, Zenon DEF ToSet
    <2>2. k # i
        BY <2>1, Zenon
    <2>3. down(k) \in 1..(Len(s) - 1) /\ up(down(k)) = k
        BY <2>2, <1>5, Zenon
    <2>4. v = r[down(k)]
        BY <2>1, <2>3, <1>2, Zenon
    <2> QED BY <2>3, <2>4, <1>3, Zenon DEF ToSet
<1> QED BY <1>2, <1>8, <1>9, <1>10, Zenon

LEMMA RemoveFirstFacts ==
    ASSUME NEW E, NEW s \in Seq(E), NoneTwice(s), NEW x, NEW r, r = RemoveFirst(s, x)
    PROVE  r \in Seq(E) /\ NoneTwice(r) /\ ToSet(r) = ToSet(s) \ {x}
<1>1. Len(s) \in Nat /\ DOMAIN s = 1..Len(s)
    OBVIOUS
<1>2. CASE r = s /\ \A j \in 1..Len(s) : s[j] # x
    BY <1>1, <1>2 DEF ToSet
<1>3. CASE \E i \in 1..Len(s) : s[i] = x /\ r = RemoveAt(s, i)
    <2>1. PICK i \in 1..Len(s) : s[i] = x /\ r = RemoveAt(s, i)
        BY <1>3, Zenon
    <2>2. Without(r, s, i, E)
        BY <2>1, RemoveAtFacts
    <2> QED BY ONLY <2>1, <2>2, s \in Seq(E), NoneTwice(s), WithoutFacts, Zenon
<1> QED BY <1>1, <1>2, <1>3, RemoveFirstIs

LEMMA FoldOne ==
    ASSUME NEW s, NEW p, DOMAIN p = {1}
    PROVE  FoldLeft(DispatchOne, s, p) = DispatchOne(s, p[1])
<1> DEFINE D == DOMAIN p
           F(f) == [S \in SUBSET D |->
                      IF S = {} THEN s ELSE DispatchOne(f[S \ {Max(S)}], p[Max(S)])]
           g == [S \in SUBSET D |-> IF S = {} THEN s ELSE DispatchOne(s, p[1])]
           iter == CHOOSE f : f = F(f)
<1>1. FoldLeft(DispatchOne, s, p) = iter[D]
    BY Zenon DEF FoldLeft, MapThenFoldSet
<1>2. D = {1} /\ SUBSET D = {{}, {1}} /\ {1} \ {1} = {}
    OBVIOUS
<1>3. Max({1}) = 1
    BY DEF Max
<1> HIDE DEF D
<1>4. \E f : f = F(f)
    <2>1. g[{}] = s
        BY <1>2
    <2>2. ASSUME NEW S \in SUBSET D
          PROVE  g[S] = IF S = {} THEN s ELSE DispatchOne(g[S \ {Max(S)}], p[Max(S)])
        <3>1. CASE S = {}
            BY <3>1, <2>1
        <3>2. CASE S = {1}
            BY <3>2, <2>1, <1>2, <1>3
        <3> QED BY <3>1, <3>2, <1>2
    <2>3. g = F(g)
        BY <2>2
    <2> QED BY <2>3
<1>5. iter = F(iter)
    BY <1>4, Zenon
<1> HIDE DEF iter
<1>6. \A S \in SUBSET D :
          iter[S] = IF S = {} THEN s ELSE DispatchOne(iter[S \ {Max(S)}], p[Max(S)])
    BY <1>5
<1>7. iter[{}] = s
    BY <1>2, <1>6
<1>8. iter[{1}] = DispatchOne(iter[{1} \ {1}], p[1])
    BY <1>2, <1>3, <1>6
<1> QED BY <1>1, <1>2, <1>7, <1>8

LEMMA FoldTwo ==
    ASSUME NEW s, NEW p, DOMAIN p = {1, 2}
    PROVE  FoldLeft(DispatchOne, s, p) = DispatchOne(DispatchOne(s, p[1]), p[2])
<1> DEFINE D == DOMAIN p
           F(f) == [S \in SUBSET D |->
                      IF S = {} THEN s ELSE DispatchOne(f[S \ {Max(S)}], p[Max(S)])]
           one == DispatchOne(s, p[1])
           g == [S \in SUBSET D |->
                   IF S = {} THEN s
                   ELSE IF S = {1} THEN one
                   ELSE IF S = {2} THEN DispatchOne(s, p[2]) ELSE DispatchOne(one, p[2])]
           iter == CHOOSE f : f = F(f)
<1>1. FoldLeft(DispatchOne, s, p) = iter[D]
    BY Zenon DEF FoldLeft, MapThenFoldSet
<1>2. /\ D = {1, 2} /\ SUBSET D = {{}, {1}, {2}, {1, 2}}
      /\ {1} \ {1} = {} /\ {2} \ {2} = {} /\ {1, 2} \ {2} = {1}
    OBVIOUS
<1>3. Max({1}) = 1 /\ Max({2}) = 2 /\ Max({1, 2}) = 2
    BY DEF Max
<1> HIDE DEF D
<1>4. \E f : f = F(f)
    <2>1. g[{}] = s /\ g[{1}] = one /\ g[{2}] = DispatchOne(s, p[2]) /\ g[{1, 2}] = DispatchOne(one, p[2])
        BY <1>2
    <2> HIDE DEF g
    <2>2. ASSUME NEW S \in SUBSET D
          PROVE  g[S] = IF S = {} THEN s ELSE DispatchOne(g[S \ {Max(S)}], p[Max(S)])
        <3>1. CASE S = {}
            BY <3>1, <2>1
        <3> DEFINE T == S \ {Max(S)}
        <3>2. CASE S = {1}
            <4>1. Max(S) = 1 /\ T = {} /\ S # {}
                BY <3>2, <1>2, <1>3
            <4> QED BY <3>2, <4>1, <2>1
        <3>3. CASE S = {2}
            <4>1. Max(S) = 2 /\ T = {} /\ S # {}
                BY <3>3, <1>2, <1>3
            <4> QED BY <3>3, <4>1, <2>1
        <3>4. CASE S = {1, 2}
            <4>1. Max(S) = 2 /\ T = {1} /\ S # {}
                BY <3>4, <1>2, <1>3
            <4> QED BY <3>4, <4>1, <2>1
        <3> QED BY <3>1, <3>2, <3>3, <3>4, <1>2
    <2>3. g = F(g)
        BY <2>2 DEF g
    <2> QED BY <2>3
<1>5. iter = F(iter)
    BY <1>4, Zenon
<1> HIDE DEF iter
<1>6. \A S \in SUBSET D :
          iter[S] = IF S = {} THEN s ELSE DispatchOne(iter[S \ {Max(S)}], p[Max(S)])
    BY <1>5
<1>7. iter[{}] = s
    BY <1>2, <1>6
<1>8. iter[{1}] = DispatchOne(iter[{1} \ {1}], p[1])
    BY <1>2, <1>3, <1>6
<1>9. iter[{1, 2}] = DispatchOne(iter[{1, 2} \ {2}], p[2])
    BY <1>2, <1>3, <1>6
<1> QED BY <1>1, <1>2, <1>7, <1>8, <1>9

-----------------------------------------------------------------------------
LEMMA MessageFacts ==
    /\ \A u \in Updates : Push(u).is = "update" /\ Push(u).update = u
    /\ \A c \in Calls : Result(c).is = "rpc_result" /\ Result(c).call = c
    /\ Service.is = "service"
    /\ \A u \in Updates : u \notin Outcomes
    /\ \A u, v \in Updates : Push(u) = Push(v) => u = v
    /\ \A u \in Updates, c \in Calls : Push(u) # Result(c) /\ Push(u) # Service
<1>1. \A u : Push(u).is = "update" /\ Push(u).update = u
    BY DEF Push
<1>2. \A c : Result(c).is = "rpc_result" /\ Result(c).call = c
    BY DEF Result
<1>3. Service.is = "service"
    BY DEF Service
<1> QED BY <1>1, <1>2, <1>3, SessionAssumption

LEMMA SettledFacts ==
    ASSUME NEW s, WaitersAreOpen(s), NEW x \in Calls \cup Expects,
           NEW how \in Outcomes \cup Updates, NEW r, r = Settled(s, x, how)
    PROVE  /\ WaitersAreOpen(r)
           /\ r.updates = s.updates
           /\ r.outcome = [s.outcome EXCEPT ![x] = how]
<1>1. /\ r.pending = s.pending \ {x} /\ r.expects = RemoveFirst(s.expects, x)
      /\ r.updates = s.updates /\ r.timers = s.timers \ {x}
      /\ r.outcome = [s.outcome EXCEPT ![x] = how]
      /\ r = [pending |-> r.pending, expects |-> r.expects, updates |-> r.updates,
              timers |-> r.timers, outcome |-> r.outcome]
    BY DEF Settled, WaitersAreOpen
<1>2. /\ r.expects \in Seq(Expects) /\ NoneTwice(r.expects)
      /\ ToSet(r.expects) = ToSet(s.expects) \ {x}
    <2>1. s.expects \in Seq(Expects) /\ NoneTwice(s.expects)
        BY DEF WaitersAreOpen
    <2> QED BY <1>1, <2>1, RemoveFirstFacts
<1>3. r.outcome \in [Calls \cup Expects -> Outcomes \cup Updates]
    BY <1>1 DEF WaitersAreOpen
<1>4. /\ r.pending \in SUBSET Calls /\ r.timers \in SUBSET (Calls \cup Expects)
      /\ r.updates \in Seq(Updates)
    BY <1>1 DEF WaitersAreOpen
<1>5. r \in [pending : SUBSET Calls, expects : Seq(Expects), updates : Seq(Updates),
             timers : SUBSET (Calls \cup Expects),
             outcome : [Calls \cup Expects -> Outcomes \cup Updates]]
    BY ONLY <1>1, <1>2, <1>3, <1>4
<1>6. ASSUME NEW y \in r.pending \cup ToSet(r.expects) \cup r.timers
      PROVE  r.outcome[y] = "open"
    <2>1. y \in s.pending \cup ToSet(s.expects) \cup s.timers /\ y # x
        BY <1>1, <1>2
    <2>2. s.outcome[y] = "open" /\ y \in DOMAIN s.outcome
        <3>1. ToSet(s.expects) \subseteq Expects
            BY DEF WaitersAreOpen, ToSet
        <3> QED BY <2>1, <3>1 DEF WaitersAreOpen
    <2> QED BY <1>1, <2>1, <2>2
<1> QED BY <1>1, <1>2, <1>5, <1>6 DEF WaitersAreOpen

\* What is not moved stays where it is.
LEMMA Unmoved ==
    ASSUME NEW u, NEW packets, NEW h, NEW k, NEW s, NEW r, NEW gone, NEW came,
           OnePlace(u, packets, h, s, gone, came), OneOfEach(u, packets, s),
           Push(u) \in h <=> Push(u) \in k,
           r.updates = s.updates,
           \A x \in Expects : s.outcome[x] = u <=> r.outcome[x] = u
    PROVE  OnePlace(u, packets, k, r, gone, came) /\ OneOfEach(u, packets, r)
<1>1. (InQueue(u, s) <=> InQueue(u, r)) /\ (Taken(u, s) <=> Taken(u, r))
    BY DEF InQueue, Taken
<1>2. OnePlace(u, packets, k, r, gone, came)
    BY <1>1 DEF OnePlace
<1> QED BY <1>2 DEF OneOfEach

\* A promise that is settled with no update, or opened, moves none.
LEMMA NoneMoves ==
    ASSUME NEW s, NEW r, r.updates = s.updates,
           \A x \in Expects :
               \/ r.outcome[x] = s.outcome[x]
               \/ r.outcome[x] \in Outcomes /\ s.outcome[x] \in Outcomes,
           NEW packets, NEW h, NEW gone, NEW came, Placed(packets, h, s, gone, came)
    PROVE  Placed(packets, h, r, gone, came)
<1> SUFFICES ASSUME NEW u \in Updates
             PROVE  OnePlace(u, packets, h, r, gone, came) /\ OneOfEach(u, packets, r)
    BY DEF Placed
<1>1. \A x \in Expects : s.outcome[x] = u <=> r.outcome[x] = u
    BY MessageFacts
<1>2. OnePlace(u, packets, h, s, gone, came) /\ OneOfEach(u, packets, s)
    BY DEF Placed
<1>3. r.updates = s.updates /\ (Push(u) \in h <=> Push(u) \in h)
    OBVIOUS
<1> QED BY ONLY <1>1, <1>2, <1>3, Unmoved

LEMMA SettledMovesNone ==
    ASSUME NEW s, WaitersAreOpen(s), NEW x \in Calls \cup Expects, s.outcome[x] = "open",
           NEW how \in Outcomes, NEW r, r = Settled(s, x, how),
           NEW packets, NEW h, NEW gone, NEW came, Placed(packets, h, s, gone, came)
    PROVE  Placed(packets, h, r, gone, came)
<1>1. r.updates = s.updates /\ r.outcome = [s.outcome EXCEPT ![x] = how]
    BY SettledFacts
<1>2. "open" \in Outcomes
    BY DEF Outcomes
<1>3. \A y \in Expects : y \in DOMAIN s.outcome
    BY DEF WaitersAreOpen
<1>4. \A y \in Expects :
          \/ r.outcome[y] = s.outcome[y]
          \/ r.outcome[y] \in Outcomes /\ s.outcome[y] \in Outcomes
    BY <1>1, <1>2, <1>3
<1> QED BY <1>1, <1>4, NoneMoves

LEMMA DispatchOneMoves ==
    ASSUME NEW s, WaitersAreOpen(s), NEW m \in Messages, NEW r, r = DispatchOne(s, m),
           NEW packets, NEW h, m \in h, NEW gone, NEW came, Placed(packets, h, s, gone, came)
    PROVE  WaitersAreOpen(r) /\ Placed(packets, h \ {m}, r, gone, came)
<1>1. ASSUME \A u \in Updates : m # Push(u)
      PROVE  Placed(packets, h \ {m}, s, gone, came)
    <2> SUFFICES ASSUME NEW u \in Updates
                 PROVE  OnePlace(u, packets, h \ {m}, s, gone, came) /\ OneOfEach(u, packets, s)
        BY DEF Placed
    <2>1. OnePlace(u, packets, h, s, gone, came) /\ OneOfEach(u, packets, s)
        BY DEF Placed
    <2>2. Push(u) \in h <=> Push(u) \in h \ {m}
        BY <1>1
    <2> QED BY <2>1, <2>2, Unmoved
<1>2. CASE m = Service
    BY <1>1, <1>2, MessageFacts DEF DispatchOne
<1>3. ASSUME NEW c \in Calls, m = Result(c) PROVE WaitersAreOpen(r) /\ Placed(packets, h \ {m}, r, gone, came)
    <2>1. Placed(packets, h \ {m}, s, gone, came)
        BY <1>1, <1>3, MessageFacts
    <2>2. CASE c \in s.pending
        <3>1. r = Settled(s, c, "answered")
            BY <1>3, <2>2, MessageFacts DEF DispatchOne
        <3>2. s.outcome[c] = "open" /\ "answered" \in Outcomes
            BY <2>2 DEF WaitersAreOpen, Outcomes
        <3>3. WaitersAreOpen(r)
            <4> DEFINE answered == "answered"
            <4>1. c \in Calls \cup Expects /\ answered \in Outcomes \cup Updates
                BY <3>2
            <4>2. r = Settled(s, c, answered)
                BY <3>1
            <4> HIDE DEF answered
            <4> QED BY <4>1, <4>2, SettledFacts
        <3> QED BY <3>1, <3>2, <3>3, <2>1, SettledMovesNone
    <2>3. CASE c \notin s.pending
        BY <1>3, <2>1, <2>3, MessageFacts DEF DispatchOne
    <2> QED BY <2>2, <2>3
<1>4. ASSUME NEW u \in Updates, m = Push(u) PROVE WaitersAreOpen(r) /\ Placed(packets, h \ {m}, r, gone, came)
    <2>1. r = RouteUpdate(s, u)
        BY <1>4, MessageFacts DEF DispatchOne
    <2>2. \A v \in Updates : Push(v) \in h \ {m} <=> Push(v) \in h /\ v # u
        BY <1>4, MessageFacts
    <2>3. s.expects \in Seq(Expects) /\ Len(s.expects) \in Nat /\ DOMAIN s.expects = 1..Len(s.expects)
        BY DEF WaitersAreOpen
    <2>4. /\ ~InPacket(u, packets) /\ ~InQueue(u, s) /\ ~Taken(u, s) /\ u \notin gone /\ u \in came
          /\ OneOfEach(u, packets, s)
        BY <1>4 DEF Placed, OnePlace
    <2> DEFINE i == FirstMatch(s.expects, u)
    <2>5. CASE i # 0
        <3> DEFINE x == s.expects[i]
        <3>1. i \in 1..Len(s.expects)
            BY <2>3, <2>5, FirstMatchFacts
        <3>2. x \in Expects /\ x \in ToSet(s.expects)
            BY <3>1, <2>3 DEF ToSet
        <3>3. s.outcome[x] = "open" /\ "open" \in Outcomes
            BY <3>2 DEF WaitersAreOpen, Outcomes
        <3>4. r = Settled(s, x, u)
            BY <2>1, <2>5 DEF RouteUpdate
        <3> HIDE DEF x, i
        <3>5. WaitersAreOpen(r) /\ r.updates = s.updates /\ r.outcome = [s.outcome EXCEPT ![x] = u]
            BY <3>2, <3>4, SettledFacts
        <3>6. \A y \in Expects : r.outcome[y] = IF y = x THEN u ELSE s.outcome[y]
            BY <3>5 DEF WaitersAreOpen
        <3>7. ASSUME NEW v \in Updates, v # u
              PROVE  OnePlace(v, packets, h \ {m}, r, gone, came) /\ OneOfEach(v, packets, r)
            <4>1. \A y \in Expects : s.outcome[y] = v <=> r.outcome[y] = v
                BY <3>3, <3>6, <3>7, MessageFacts
            <4>2. OnePlace(v, packets, h, s, gone, came) /\ OneOfEach(v, packets, s)
                BY DEF Placed
            <4>3. Push(v) \in h <=> Push(v) \in h \ {m}
                BY <2>2, <3>7
            <4>4. r.updates = s.updates
                BY <3>5
            <4> QED BY ONLY <4>1, <4>2, <4>3, <4>4, Unmoved
        <3>8. Taken(u, r) /\ ~InQueue(u, r) /\ Push(u) \notin h \ {m}
            BY <3>2, <3>5, <3>6, <2>2, <2>4 DEF Taken, InQueue
        <3>9. OnePlace(u, packets, h \ {m}, r, gone, came)
            BY <3>8, <2>4 DEF OnePlace
        <3>10. \A y \in Expects : r.outcome[y] = u => y = x
            BY <3>6, <2>4 DEF Taken
        <3>11. OneOfEach(u, packets, r)
            BY <3>5, <3>10, <2>4 DEF OneOfEach
        <3> QED BY <3>5, <3>7, <3>9, <3>11 DEF Placed
    <2>6. CASE i = 0
        <3>1. r = [s EXCEPT !.updates = Append(@, u)]
            BY <2>1, <2>6 DEF RouteUpdate
        <3>2. s.updates \in Seq(Updates) /\ Len(s.updates) \in Nat
            BY DEF WaitersAreOpen
        <3>3. /\ r.updates = Append(s.updates, u) /\ r.outcome = s.outcome
              /\ r.expects = s.expects /\ r.pending = s.pending /\ r.timers = s.timers
            BY <3>1 DEF WaitersAreOpen
        <3>4. /\ r.updates \in Seq(Updates) /\ Len(r.updates) = Len(s.updates) + 1
              /\ \A j \in 1..Len(s.updates) : r.updates[j] = s.updates[j]
              /\ r.updates[Len(s.updates) + 1] = u
            BY <3>2, <3>3
        <3>5. WaitersAreOpen(r)
            BY <3>1, <3>3, <3>4 DEF WaitersAreOpen
        <3>6. \A j \in 1..Len(r.updates) : j \in 1..Len(s.updates) \/ j = Len(s.updates) + 1
            BY <3>2, <3>4
        <3>7. \A j \in 1..Len(s.updates) : j \in 1..Len(r.updates)
            BY <3>2, <3>4
        <3>8. Len(s.updates) + 1 \in 1..Len(r.updates)
            BY <3>2, <3>4
        <3>9. ASSUME NEW v \in Updates, v # u
              PROVE  OnePlace(v, packets, h \ {m}, r, gone, came) /\ OneOfEach(v, packets, r)
            <4>1. \A j \in 1..Len(r.updates) : r.updates[j] = v => j \in 1..Len(s.updates) /\ s.updates[j] = v
                BY <3>4, <3>6, <3>9
            <4>2. InQueue(v, s) <=> InQueue(v, r)
                BY <3>4, <3>7, <4>1 DEF InQueue
            <4>3. Taken(v, s) <=> Taken(v, r)
                BY <3>3 DEF Taken
            <4>4. Push(v) \in h <=> Push(v) \in h \ {m}
                BY <2>2, <3>9
            <4>5. OnePlace(v, packets, h, s, gone, came) /\ OneOfEach(v, packets, s)
                BY DEF Placed
            <4>6. OnePlace(v, packets, h \ {m}, r, gone, came)
                BY <4>2, <4>3, <4>4, <4>5 DEF OnePlace
            <4>7. OneOfEach(v, packets, r)
                BY <4>1, <4>5, <3>3 DEF OneOfEach
            <4> QED BY <4>6, <4>7
        <3>10. InQueue(u, r) /\ ~Taken(u, r) /\ Push(u) \notin h \ {m}
            BY <3>3, <3>4, <3>8, <2>2, <2>4 DEF Taken, InQueue
        <3>11. OnePlace(u, packets, h \ {m}, r, gone, came)
            BY <3>10, <2>4 DEF OnePlace
        <3>12. \A j \in 1..Len(r.updates) : r.updates[j] = u => j = Len(s.updates) + 1
            BY <3>4, <3>6, <2>4 DEF InQueue
        <3>13. OneOfEach(u, packets, r)
            BY <3>3, <3>12, <2>4 DEF OneOfEach
        <3> QED BY <3>5, <3>9, <3>11, <3>13 DEF Placed
    <2> QED BY <2>5, <2>6
<1> QED BY <1>2, <1>3, <1>4 DEF Messages

-----------------------------------------------------------------------------
LEMMA PacketFacts ==
    ASSUME NEW p \in Packets
    PROVE  \/ \E m \in Messages : p = <<m>> /\ ToSet(p) = {m}
           \/ \E m, n \in Messages : m # n /\ p = <<m, n>> /\ ToSet(p) = {m, n}
<1>1. CASE \E m \in Messages : p = <<m>>
    BY <1>1 DEF ToSet
<1>2. CASE \E m, n \in Messages : m # n /\ p = <<m, n>>
    <2>1. PICK m, n \in Messages : m # n /\ p = <<m, n>>
        BY <1>2
    <2>2. DOMAIN p = {1, 2} /\ p[1] = m /\ p[2] = n
        BY <2>1
    <2>3. ToSet(p) = {m, n}
        BY <2>2 DEF ToSet
    <2> QED BY <2>1, <2>3
<1>3. (\E m \in Messages : p = <<m>>) \/ (\E m, n \in Messages : m # n /\ p = <<m, n>>)
    BY DEF Packets
<1> QED BY <1>1, <1>2, <1>3

\* dispatch() of a whole packet puts each of its updates in one place.
LEMMA PacketIsDealt ==
    ASSUME NEW s, WaitersAreOpen(s), NEW p \in Packets, NEW r, r = FoldLeft(DispatchOne, s, p),
           NEW packets, NEW gone, NEW came, Placed(packets, ToSet(p), s, gone, came)
    PROVE  WaitersAreOpen(r) /\ Placed(packets, {}, r, gone, came)
<1>1. ASSUME NEW m \in Messages, p = <<m>>, ToSet(p) = {m}
      PROVE  WaitersAreOpen(r) /\ Placed(packets, {}, r, gone, came)
    <2>1. r = DispatchOne(s, m)
        <3>1. DOMAIN p = {1} /\ p[1] = m
            BY <1>1
        <3> QED BY <3>1, FoldOne
    <2>2. m \in {m} /\ Placed(packets, {m}, s, gone, came)
        BY <1>1
    <2>3. WaitersAreOpen(r) /\ Placed(packets, {m} \ {m}, r, gone, came)
        BY <2>1, <2>2, DispatchOneMoves
    <2>4. {m} \ {m} = {}
        OBVIOUS
    <2> QED BY <2>3, <2>4
<1>2. ASSUME NEW m \in Messages, NEW n \in Messages, m # n, p = <<m, n>>, ToSet(p) = {m, n}
      PROVE  WaitersAreOpen(r) /\ Placed(packets, {}, r, gone, came)
    <2> DEFINE t == DispatchOne(s, m)
    <2>1. r = DispatchOne(t, n)
        <3>1. DOMAIN p = {1, 2} /\ p[1] = m /\ p[2] = n
            BY <1>2
        <3> QED BY <3>1, FoldTwo
    <2>2. m \in {m, n} /\ Placed(packets, {m, n}, s, gone, came)
        BY <1>2
    <2>3. WaitersAreOpen(t) /\ Placed(packets, {m, n} \ {m}, t, gone, came)
        BY <2>2, DispatchOneMoves
    <2>4. {m, n} \ {m} = {n} /\ {n} \ {n} = {} /\ n \in {n}
        BY <1>2
    <2> HIDE DEF t
    <2>5. Placed(packets, {n}, t, gone, came)
        BY <2>3, <2>4
    <2>6. WaitersAreOpen(r) /\ Placed(packets, {n} \ {n}, r, gone, came)
        BY <2>1, <2>3, <2>4, <2>5, DispatchOneMoves
    <2> QED BY <2>4, <2>6
<1> QED BY <1>1, <1>2, PacketFacts

\* The packet that is taken holds what it held in the inbox.
LEMMA TakeMoves ==
    ASSUME NEW s, NEW gone, NEW came, Placed(inbox, {}, s, gone, came), inbox \in Seq(Packets), Take
    PROVE  CarrierInv' /\ Placed(inbox', ToSet(hand'), s, gone, came)
<1>1. CASE inbox = <<>>
    <2>1. inbox' = inbox /\ hand' = <<>> /\ ToSet(hand') = {} /\ pump' = "polling"
        BY <1>1 DEF Take, ToSet
    <2> QED BY <2>1 DEF CarrierInv
<1>2. CASE inbox # <<>>
    <2>1. pump' = "holding" /\ hand' = inbox[1] /\ inbox' = Tail(inbox)
        BY <1>2 DEF Take
    <2>2. /\ Len(inbox) \in Nat \ {0} /\ inbox[1] \in Packets /\ inbox' \in Seq(Packets)
          /\ Len(inbox') = Len(inbox) - 1 /\ \A i \in 1..Len(inbox') : inbox'[i] = inbox[i + 1]
        BY <1>2, <2>1
    <2>3. CarrierInv'
        BY <2>1, <2>2 DEF CarrierInv
    <2>4. ASSUME NEW u \in Updates
          PROVE  OnePlace(u, inbox', ToSet(hand'), s, gone, came) /\ OneOfEach(u, inbox', s)
        <3>1. OnePlace(u, inbox, {}, s, gone, came) /\ OneOfEach(u, inbox, s)
            BY DEF Placed
        <3>2. 1 \in 1..Len(inbox) /\ \A i \in 1..Len(inbox') : i + 1 \in 1..Len(inbox) /\ i + 1 # 1
            BY <2>2
        <3>3. \A i \in 1..Len(inbox) : i = 1 \/ (i - 1 \in 1..Len(inbox') /\ inbox[i] = inbox'[i - 1])
            BY <2>2
        <3>4. InPacket(u, inbox) <=> Push(u) \in ToSet(hand') \/ InPacket(u, inbox')
            BY <2>1, <2>2, <3>2, <3>3 DEF InPacket
        <3>5. ~(Push(u) \in ToSet(hand') /\ InPacket(u, inbox'))
            BY <2>1, <2>2, <3>1, <3>2 DEF InPacket, OneOfEach
        <3>6. OnePlace(u, inbox', ToSet(hand'), s, gone, came)
            BY <3>1, <3>4, <3>5 DEF OnePlace
        <3>7. ASSUME NEW i \in 1..Len(inbox'), NEW j \in 1..Len(inbox'),
                     Push(u) \in ToSet(inbox'[i]), Push(u) \in ToSet(inbox'[j])
              PROVE  i = j
            <4>1. i + 1 = j + 1
                BY <2>2, <3>1, <3>2, <3>7 DEF OneOfEach
            <4> QED BY <4>1, <2>2
        <3>8. OneOfEach(u, inbox', s)
            BY <3>1, <3>7 DEF OneOfEach
        <3> QED BY <3>6, <3>8
    <2> QED BY <2>3, <2>4 DEF Placed
<1> QED BY <1>1, <1>2

LEMMA EnsurePumpMoves ==
    ASSUME NEW s, NEW gone, NEW came, Placed(inbox, ToSet(hand), s, gone, came), CarrierInv, EnsurePump
    PROVE  CarrierInv' /\ Placed(inbox', ToSet(hand'), s, gone, came)
<1>1. CASE pump = "off" /\ ~closed
    <2>1. Take /\ ToSet(hand) = {} /\ inbox \in Seq(Packets)
        BY <1>1 DEF EnsurePump, CarrierInv, ToSet
    <2> QED BY <2>1, TakeMoves
<1>2. CASE ~(pump = "off" /\ ~closed)
    BY <1>2 DEF EnsurePump, loop, CarrierInv
<1> QED BY <1>1, <1>2

LEMMA ContinueMoves ==
    ASSUME NEW s, NEW gone, NEW came, Placed(inbox, {}, s, gone, came), inbox \in Seq(Packets), Continue
    PROVE  CarrierInv' /\ Placed(inbox', ToSet(hand'), s, gone, came)
<1>1. CASE Take
    BY <1>1, TakeMoves
<1>2. CASE Stop
    <2>1. inbox' = inbox /\ hand' = <<>> /\ ToSet(hand') = {} /\ pump' = "off"
        BY <1>2 DEF Stop, ToSet
    <2> QED BY <2>1 DEF CarrierInv
<1> QED BY <1>1, <1>2 DEF Continue

-----------------------------------------------------------------------------
LEMMA InitPlace == Init => PlaceInv
<1> SUFFICES ASSUME Init PROVE PlaceInv
    OBVIOUS
<1>1. ToSet(<<>>) = {}
    BY DEF ToSet
<1>2. "new" \in Outcomes
    BY DEF Outcomes
<1>3. CarrierInv /\ SentInv
    BY <1>1 DEF Init, CarrierInv, SentInv
<1>4. WaitersAreOpen(State)
    BY <1>1, <1>2 DEF Init, WaitersAreOpen, State, NoneTwice
<1>5. State.updates = <<>> /\ \A x \in Expects : State.outcome[x] = "new"
    BY DEF Init, State
<1>6. ASSUME NEW u \in Updates
      PROVE  OnePlace(u, inbox, ToSet(hand), State, drained, pushed) /\ OneOfEach(u, inbox, State)
    <2>1. inbox = <<>> /\ ToSet(hand) = {} /\ drained = {} /\ pushed = {}
        BY <1>1 DEF Init
    <2>2. ~InPacket(u, inbox) /\ ~InQueue(u, State) /\ ~Taken(u, State)
        BY <1>2, <1>5, <2>1, MessageFacts DEF InPacket, InQueue, Taken
    <2>3. OneOfEach(u, inbox, State)
        BY <1>2, <1>5, <2>1, MessageFacts DEF OneOfEach
    <2>4. OnePlace(u, inbox, ToSet(hand), State, drained, pushed)
        BY <2>1, <2>2 DEF OnePlace
    <2> QED BY <2>3, <2>4
<1> QED BY <1>3, <1>4, <1>6 DEF PlaceInv, Placed

LEMMA StateFacts ==
    /\ State.pending = pending /\ State.expects = expects /\ State.updates = updates
    /\ State.timers = timers /\ State.outcome = outcome
BY DEF State

LEMMA WaitersTyped ==
    ASSUME WaitersAreOpen(State)
    PROVE  /\ pending \subseteq Calls /\ expects \in Seq(Expects) /\ updates \in Seq(Updates)
           /\ timers \subseteq Calls \cup Expects
           /\ outcome \in [Calls \cup Expects -> Outcomes \cup Updates]
           /\ NoneTwice(expects)
           /\ \A x \in pending \cup ToSet(expects) \cup timers : outcome[x] = "open"
BY StateFacts DEF WaitersAreOpen

LEMMA WaitersFromTypes ==
    ASSUME NEW s, s = [pending |-> s.pending, expects |-> s.expects, updates |-> s.updates,
                       timers |-> s.timers, outcome |-> s.outcome],
           s.pending \subseteq Calls, s.expects \in Seq(Expects), s.updates \in Seq(Updates),
           s.timers \subseteq Calls \cup Expects,
           s.outcome \in [Calls \cup Expects -> Outcomes \cup Updates],
           NoneTwice(s.expects),
           \A x \in s.pending \cup ToSet(s.expects) \cup s.timers : s.outcome[x] = "open"
    PROVE  WaitersAreOpen(s)
<1> HIDE DEF Outcomes
<1>1. s \in [pending : SUBSET Calls, expects : Seq(Expects), updates : Seq(Updates),
             timers : SUBSET (Calls \cup Expects),
             outcome : [Calls \cup Expects -> Outcomes \cup Updates]]
    OBVIOUS
<1> QED BY <1>1 DEF WaitersAreOpen

\* A new promise x is settled with no update, or opened; the waiters become
\* what the action says.
LEMMA AnswerMoves ==
    ASSUME PlaceInv, NEW x \in Calls \cup Expects, outcome[x] = "new",
           NEW how \in Outcomes, outcome' = [outcome EXCEPT ![x] = how],
           pending' \subseteq Calls, expects' \in Seq(Expects), NoneTwice(expects'),
           timers' \subseteq Calls \cup Expects,
           \A y \in pending' \cup ToSet(expects') \cup timers' :
               y \in pending \cup ToSet(expects) \cup timers \/ (y = x /\ how = "open"),
           UNCHANGED <<updates, drained, pushed>>
    PROVE  /\ WaitersAreOpen(State')
           /\ Placed(inbox, ToSet(hand), State', drained', pushed')
<1>1. /\ WaitersAreOpen(State) /\ Placed(inbox, ToSet(hand), State, drained, pushed)
    BY DEF PlaceInv
<1>2. /\ updates \in Seq(Updates) /\ outcome \in [Calls \cup Expects -> Outcomes \cup Updates]
      /\ \A y \in pending \cup ToSet(expects) \cup timers : outcome[y] = "open"
      /\ pending \cup ToSet(expects) \cup timers \subseteq Calls \cup Expects
    <2>1. ToSet(expects) \subseteq Expects
        BY <1>1, WaitersTyped DEF ToSet
    <2> QED BY <1>1, <2>1, WaitersTyped
<1> DEFINE s == State'
<1>3. /\ s.pending = pending' /\ s.expects = expects' /\ s.updates = updates
      /\ s.timers = timers' /\ s.outcome = [outcome EXCEPT ![x] = how]
      /\ s = [pending |-> s.pending, expects |-> s.expects, updates |-> s.updates,
              timers |-> s.timers, outcome |-> s.outcome]
    BY DEF State
<1> HIDE DEF s
<1>4. s.outcome \in [Calls \cup Expects -> Outcomes \cup Updates]
    BY <1>2, <1>3
<1>5. ASSUME NEW y \in s.pending \cup ToSet(s.expects) \cup s.timers PROVE s.outcome[y] = "open"
    <2>1. y \in pending \cup ToSet(expects) \cup timers \/ (y = x /\ how = "open")
        BY <1>3
    <2>2. CASE y = x /\ how = "open"
        BY <2>2, <1>2, <1>3
    <2>3. CASE y \in pending \cup ToSet(expects) \cup timers
        <3>1. outcome[y] = "open" /\ y # x /\ y \in DOMAIN outcome
            BY <2>3, <1>2
        <3> QED BY <3>1, <1>3
    <2> QED BY <2>1, <2>2, <2>3
<1>6. WaitersAreOpen(s)
    BY <1>2, <1>3, <1>4, <1>5, WaitersFromTypes
<1>7. \A y \in Expects :
          \/ s.outcome[y] = State.outcome[y]
          \/ s.outcome[y] \in Outcomes /\ State.outcome[y] \in Outcomes
    <2>1. "new" \in Outcomes
        BY DEF Outcomes
    <2> QED BY <1>2, <1>3, <2>1, StateFacts
<1>8. s.updates = State.updates
    BY <1>3, StateFacts
<1>9. Placed(inbox, ToSet(hand), s, drained, pushed)
    BY <1>1, <1>7, <1>8, NoneMoves
<1> QED BY <1>6, <1>9 DEF s

-----------------------------------------------------------------------------
LEMMA InvokePlaces ==
    ASSUME PlaceInv, NEW c \in Calls, Invoke(c)
    PROVE  PlaceInv'
<1>1. "open" \in Outcomes
    BY DEF Outcomes
<1>2. WaitersAreOpen(State)
    BY DEF PlaceInv
<1>3. WaitersAreOpen(State') /\ Placed(inbox, ToSet(hand), State', drained', pushed')
    <2>1. /\ outcome[c] = "new" /\ outcome' = [outcome EXCEPT ![c] = "open"]
          /\ pending' = pending \cup {c} /\ timers' = timers \cup {c}
          /\ UNCHANGED <<expects, updates, drained, pushed>>
        BY DEF Invoke
    <2> QED BY <1>1, <1>2, <2>1, WaitersTyped, AnswerMoves
<1>4. CarrierInv' /\ Placed(inbox', ToSet(hand'), State', drained', pushed')
    BY <1>3, EnsurePumpMoves DEF PlaceInv, Invoke
<1>5. SentInv'
    <2> DEFINE e == [call |-> c, wrapped |-> initSpec]
    <2>1. sent' = Append(sent, e) /\ e.call = c
        BY DEF Invoke
    <2> HIDE DEF e
    <2>2. ToSet(sent') = ToSet(sent) \cup {e}
        BY <2>1 DEF PlaceInv, SentInv, ToSet
    <2> QED BY <2>1, <2>2 DEF PlaceInv, SentInv
<1> QED BY <1>3, <1>4, <1>5 DEF PlaceInv

LEMMA ExpectPlaces ==
    ASSUME PlaceInv, NEW x \in Expects, Expect(x)
    PROVE  PlaceInv'
<1>1. "open" \in Outcomes
    BY DEF Outcomes
<1>2. /\ outcome[x] = "new" /\ outcome' = [outcome EXCEPT ![x] = "open"]
      /\ expects' = Append(expects, x) /\ timers' = timers \cup {x}
      /\ UNCHANGED <<closed, pending, updates, drained, pushed>>
    BY DEF Expect, server
<1>3. /\ expects \in Seq(Expects) /\ NoneTwice(expects) /\ x \notin ToSet(expects)
      /\ pending \subseteq Calls /\ timers \subseteq Calls \cup Expects
    <2>1. WaitersAreOpen(State)
        BY DEF PlaceInv
    <2> QED BY <1>2, <2>1, WaitersTyped
<1>4. expects' \in Seq(Expects) /\ NoneTwice(expects') /\ ToSet(expects') = ToSet(expects) \cup {x}
    <2>1. /\ Len(expects) \in Nat /\ DOMAIN expects = 1..Len(expects)
          /\ expects' \in Seq(Expects) /\ Len(expects') = Len(expects) + 1
          /\ DOMAIN expects' = 1..(Len(expects) + 1)
          /\ \A i \in 1..Len(expects) : expects'[i] = expects[i]
          /\ expects'[Len(expects) + 1] = x
        BY <1>2, <1>3
    <2>2. \A i \in 1..(Len(expects) + 1) : i \in 1..Len(expects) \/ i = Len(expects) + 1
        BY <2>1
    <2>3. Len(expects) + 1 \in 1..(Len(expects) + 1) /\ \A i \in 1..Len(expects) : i \in 1..(Len(expects) + 1)
        BY <2>1
    <2>4. NoneTwice(expects')
        BY <1>3, <2>1, <2>2 DEF NoneTwice, ToSet
    <2>5. ToSet(expects') = ToSet(expects) \cup {x}
        BY <2>1, <2>2, <2>3 DEF ToSet
    <2> QED BY <2>1, <2>4, <2>5
<1>5. WaitersAreOpen(State') /\ Placed(inbox, ToSet(hand), State', drained', pushed')
    BY <1>1, <1>2, <1>3, <1>4, AnswerMoves
<1>6. CarrierInv' /\ Placed(inbox', ToSet(hand'), State', drained', pushed')
    BY <1>5, EnsurePumpMoves DEF PlaceInv, Expect
<1>7. SentInv'
    BY DEF Expect, PlaceInv, SentInv, server
<1> QED BY <1>5, <1>6, <1>7 DEF PlaceInv

\* Rejected at once: a closed session, or a query that does not encode.
LEMMA RejectedPlaces ==
    ASSUME PlaceInv, NEW x \in Calls \cup Expects, outcome[x] = "new",
           NEW how \in {"closed", "invalid"}, outcome' = [outcome EXCEPT ![x] = how],
           UNCHANGED <<loop, waiting, timers, server, drained>>
    PROVE  PlaceInv'
<1>1. how \in Outcomes
    BY DEF Outcomes
<1>2. WaitersAreOpen(State)
    BY DEF PlaceInv
<1>3. UNCHANGED <<pump, hand, inbox, pending, expects, updates, timers, sent, pushed, drained>>
    BY DEF loop, waiting, server
<1>4. WaitersAreOpen(State') /\ Placed(inbox, ToSet(hand), State', drained', pushed')
    BY <1>1, <1>2, <1>3, WaitersTyped, AnswerMoves
<1> QED BY <1>3, <1>4 DEF PlaceInv, CarrierInv, SentInv

LEMMA TimeoutPlaces ==
    ASSUME PlaceInv, NEW x \in Calls \cup Expects, Timeout(x)
    PROVE  PlaceInv'
<1>1. WaitersAreOpen(State) /\ outcome[x] = "open" /\ State.outcome[x] = "open" /\ "timeout" \in Outcomes
    BY StateFacts, WaitersTyped DEF PlaceInv, Timeout, Outcomes
<1> DEFINE r == Settled(State, x, "timeout")
<1>2. WaitersAreOpen(r)
    BY <1>1, SettledFacts
<1>3. Placed(inbox, ToSet(hand), r, drained, pushed)
    BY <1>1, SettledMovesNone DEF PlaceInv
<1>4. Becomes(r)
    BY DEF Timeout
<1> HIDE DEF r
<1>5. State' = r
    BY <1>2, <1>4 DEF Becomes, State, WaitersAreOpen
<1>6. UNCHANGED <<pump, hand, inbox, sent, pushed, drained>>
    BY DEF Timeout, loop, server
<1> QED BY <1>2, <1>3, <1>5, <1>6 DEF PlaceInv, CarrierInv, SentInv

LEMMA DispatchPlaces ==
    ASSUME PlaceInv, Dispatch
    PROVE  PlaceInv'
<1> DEFINE r == FoldLeft(DispatchOne, State, hand)
<1>1. WaitersAreOpen(r) /\ Placed(inbox, {}, r, drained, pushed)
    <2>1. hand \in Packets
        BY DEF Dispatch, PlaceInv, CarrierInv
    <2> QED BY <2>1, PacketIsDealt DEF PlaceInv
<1>2. Becomes(r)
    BY DEF Dispatch
<1> HIDE DEF r
<1>3. State' = r
    BY <1>1, <1>2 DEF Becomes, State, WaitersAreOpen
<1>4. CarrierInv' /\ Placed(inbox', ToSet(hand'), r, drained, pushed)
    BY <1>1, ContinueMoves DEF Dispatch, PlaceInv, CarrierInv
<1> QED BY <1>1, <1>3, <1>4 DEF PlaceInv, Dispatch, server, SentInv

LEMMA PollTimeoutPlaces ==
    ASSUME PlaceInv, PollTimeout
    PROVE  PlaceInv'
<1>1. UNCHANGED <<pending, expects, updates, timers, outcome, sent, pushed, drained>>
    BY DEF PollTimeout, client, waiting, server
<1>2. State' = State
    BY <1>1 DEF State
<1>3. ToSet(hand) = {}
    BY DEF PollTimeout, PlaceInv, CarrierInv, ToSet
<1>4. CarrierInv' /\ Placed(inbox', ToSet(hand'), State, drained, pushed)
    BY <1>3, ContinueMoves DEF PollTimeout, PlaceInv, CarrierInv
<1> QED BY <1>1, <1>2, <1>4 DEF PlaceInv, SentInv

LEMMA ListenPlaces ==
    ASSUME PlaceInv, Listen
    PROVE  PlaceInv'
<1>1. UNCHANGED <<pending, expects, updates, timers, outcome, sent, pushed, drained>>
    BY DEF Listen, waiting, server
<1>2. State' = State
    BY <1>1 DEF State
<1>3. CarrierInv' /\ Placed(inbox', ToSet(hand'), State, drained, pushed)
    BY EnsurePumpMoves DEF Listen, PlaceInv
<1> QED BY <1>1, <1>2, <1>3 DEF PlaceInv, SentInv

LEMMA ClosePlaces ==
    ASSUME PlaceInv, Close
    PROVE  PlaceInv'
<1>1. WaitersAreOpen(State) /\ Placed(inbox, ToSet(hand), State, drained, pushed)
    BY DEF PlaceInv
<1>2. /\ updates \in Seq(Updates) /\ outcome \in [Calls \cup Expects -> Outcomes \cup Updates]
      /\ timers \subseteq Calls \cup Expects
      /\ \A y \in pending \cup ToSet(expects) \cup timers : outcome[y] = "open"
    BY <1>1, WaitersTyped
<1> DEFINE s == State'
<1>3. /\ s.pending = {} /\ s.expects = <<>> /\ s.updates = updates
      /\ s.timers = timers \ Waiters
      /\ s.outcome = [x \in Calls \cup Expects |-> IF x \in Waiters THEN "closed" ELSE outcome[x]]
      /\ s = [pending |-> s.pending, expects |-> s.expects, updates |-> s.updates,
              timers |-> s.timers, outcome |-> s.outcome]
      /\ UNCHANGED <<pump, hand, inbox, sent, pushed, drained>>
    BY <1>2 DEF Close, State, Rejected, loop, server
<1> HIDE DEF s
<1>4. "closed" \in Outcomes /\ "open" \in Outcomes /\ ToSet(<<>>) = {}
    BY DEF Outcomes, ToSet
<1>5. WaitersAreOpen(s)
    <2>1. s.outcome \in [Calls \cup Expects -> Outcomes \cup Updates]
        BY <1>2, <1>3, <1>4
    <2>2. NoneTwice(s.expects) /\ s.expects \in Seq(Expects)
        BY <1>3 DEF NoneTwice
    <2>3. \A y \in s.pending \cup ToSet(s.expects) \cup s.timers : s.outcome[y] = "open"
        BY <1>2, <1>3, <1>4
    <2>4. s.pending \subseteq Calls /\ s.updates \in Seq(Updates) /\ s.timers \subseteq Calls \cup Expects
        BY <1>2, <1>3
    <2> QED BY <1>3, <2>1, <2>2, <2>3, <2>4, WaitersFromTypes
<1>6. \A y \in Expects :
          \/ s.outcome[y] = State.outcome[y]
          \/ s.outcome[y] \in Outcomes /\ State.outcome[y] \in Outcomes
    BY <1>2, <1>3, <1>4, StateFacts DEF Waiters
<1>7. s.updates = State.updates
    BY <1>3, StateFacts
<1>8. Placed(inbox, ToSet(hand), s, drained, pushed)
    BY <1>1, <1>6, <1>7, NoneMoves
<1> QED BY <1>3, <1>5, <1>8 DEF PlaceInv, CarrierInv, SentInv, s

LEMMA DrainPlaces ==
    ASSUME PlaceInv, DrainUpdates
    PROVE  PlaceInv'
<1> DEFINE s == State'
<1>1. /\ s.updates = <<>> /\ s.outcome = State.outcome
      /\ s.expects = State.expects /\ s.pending = State.pending /\ s.timers = State.timers
      /\ s = [pending |-> s.pending, expects |-> s.expects, updates |-> s.updates,
              timers |-> s.timers, outcome |-> s.outcome]
      /\ drained' = drained \cup ToSet(updates)
      /\ UNCHANGED <<pump, hand, inbox, sent, pushed>>
    BY DEF DrainUpdates, State, loop, server
<1> HIDE DEF s
<1>2. WaitersAreOpen(State) /\ updates \in Seq(Updates)
    BY WaitersTyped DEF PlaceInv
<1>3. WaitersAreOpen(s)
    <2>1. s.updates \in Seq(Updates)
        BY <1>1
    <2> QED BY <1>1, <1>2, <2>1, StateFacts, WaitersTyped, WaitersFromTypes
<1>4. ASSUME NEW u \in Updates
      PROVE  OnePlace(u, inbox, ToSet(hand), s, drained', pushed) /\ OneOfEach(u, inbox, s)
    <2>1. OnePlace(u, inbox, ToSet(hand), State, drained, pushed) /\ OneOfEach(u, inbox, State)
        BY DEF PlaceInv, Placed
    <2>2. u \in drained' <=> u \in drained \/ InQueue(u, State)
        BY <1>1, <1>2, StateFacts DEF InQueue, ToSet
    <2>3. ~InQueue(u, s) /\ (Taken(u, s) <=> Taken(u, State))
        BY <1>1 DEF InQueue, Taken
    <2>4. OnePlace(u, inbox, ToSet(hand), s, drained', pushed)
        BY <2>1, <2>2, <2>3 DEF OnePlace
    <2>5. OneOfEach(u, inbox, s)
        BY <1>1, <2>1 DEF OneOfEach
    <2> QED BY <2>4, <2>5
<1>5. Placed(inbox', ToSet(hand'), s, drained', pushed')
    BY <1>1, <1>4 DEF Placed
<1> QED BY <1>1, <1>3, <1>5 DEF PlaceInv, CarrierInv, SentInv, s

\* The queue's first update for x is x's now.
LEMMA ExpectQueuedPlaces ==
    ASSUME PlaceInv, NEW x \in Expects, ExpectQueued(x)
    PROVE  PlaceInv'
<1> DEFINE s == State'
           i == Queued(x)
           u == updates[i]
<1>1. WaitersAreOpen(State) /\ Placed(inbox, ToSet(hand), State, drained, pushed)
    BY DEF PlaceInv
<1>2. /\ updates \in Seq(Updates) /\ outcome \in [Calls \cup Expects -> Outcomes \cup Updates]
      /\ Len(updates) \in Nat /\ DOMAIN updates = 1..Len(updates)
      /\ \A y \in pending \cup ToSet(expects) \cup timers : outcome[y] = "open"
      /\ outcome[x] = "new"
    <2>1. updates \in Seq(Updates)
        BY <1>1, WaitersTyped
    <2> QED BY <1>1, <2>1, WaitersTyped DEF ExpectQueued
<1>3. i \in 1..Len(updates) /\ u \in Updates
    BY <1>2, QueuedFacts DEF ExpectQueued
<1>4. /\ s.pending = pending /\ s.expects = expects /\ s.timers = timers
      /\ s.updates = RemoveAt(updates, i) /\ s.outcome = [outcome EXCEPT ![x] = u]
      /\ s = [pending |-> s.pending, expects |-> s.expects, updates |-> s.updates,
              timers |-> s.timers, outcome |-> s.outcome]
      /\ UNCHANGED <<pump, hand, inbox, sent, pushed, drained>>
    BY DEF ExpectQueued, State, loop, server
<1> HIDE DEF s, i, u
<1>5. /\ s.updates \in Seq(Updates) /\ Len(s.updates) = Len(updates) - 1
      /\ \A j \in 1..(Len(updates) - 1) : s.updates[j] = updates[IF j < i THEN j ELSE j + 1]
    <2>1. updates \in Seq(Updates) /\ i \in 1..Len(updates) /\ s.updates = RemoveAt(updates, i)
        BY <1>2, <1>3, <1>4
    <2> DEFINE q == updates
               r == s.updates
    <2>2. q \in Seq(Updates) /\ i \in 1..Len(q) /\ r = RemoveAt(q, i)
        BY <2>1
    <2> HIDE DEF q, r
    <2>3. Without(r, q, i, Updates)
        BY ONLY <2>2, RemoveAtFacts
    <2> QED BY <2>3, Zenon DEF Without, q, r
<1>6. \A y \in Expects : s.outcome[y] = IF y = x THEN u ELSE outcome[y]
    BY <1>2, <1>4
<1>7. WaitersAreOpen(s)
    <2>1. s.outcome \in [Calls \cup Expects -> Outcomes \cup Updates]
        BY <1>2, <1>3, <1>4
    <2>2. /\ s.pending \subseteq Calls /\ s.timers \subseteq Calls \cup Expects
          /\ s.expects \in Seq(Expects) /\ NoneTwice(s.expects)
        BY <1>1, <1>4, WaitersTyped
    <2>3. \A y \in s.pending \cup ToSet(s.expects) \cup s.timers : s.outcome[y] = "open"
        <3>1. ASSUME NEW y \in pending \cup ToSet(expects) \cup timers PROVE s.outcome[y] = "open"
            <4>1. outcome[y] = "open" /\ y # x
                BY <1>2
            <4>2. ToSet(expects) \subseteq Expects
                BY <1>1, WaitersTyped DEF ToSet
            <4>3. y \in DOMAIN outcome
                BY <1>1, <1>2, <4>2, WaitersTyped
            <4> QED BY <1>4, <4>1, <4>3
        <3> QED BY <1>4, <3>1
    <2> QED BY <1>4, <1>5, <2>1, <2>2, <2>3, WaitersFromTypes
<1>8. \A j \in 1..Len(s.updates) : \E k \in 1..Len(updates) :
          k # i /\ s.updates[j] = updates[k] /\ k = IF j < i THEN j ELSE j + 1
    <2> SUFFICES ASSUME NEW j \in 1..Len(s.updates)
                 PROVE  \E k \in 1..Len(updates) :
                            k # i /\ s.updates[j] = updates[k] /\ k = IF j < i THEN j ELSE j + 1
        OBVIOUS
    <2> DEFINE k == IF j < i THEN j ELSE j + 1
    <2>1. Len(updates) \in Nat
        BY <1>2
    <2>2. k \in 1..Len(updates) /\ k # i /\ j \in 1..(Len(updates) - 1)
        BY ONLY <1>3, <1>5, <2>1, j \in 1..Len(s.updates)
    <2>3. s.updates[j] = updates[k]
        BY <1>5, <2>2
    <2> QED BY <2>2, <2>3
<1>9. \A k \in 1..Len(updates) : k # i => \E j \in 1..Len(s.updates) : s.updates[j] = updates[k]
    <2> SUFFICES ASSUME NEW k \in 1..Len(updates), k # i
                 PROVE  \E j \in 1..Len(s.updates) : s.updates[j] = updates[k]
        OBVIOUS
    <2> DEFINE j == IF k < i THEN k ELSE k - 1
    <2>1. Len(updates) \in Nat
        BY <1>2
    <2>2. j \in 1..(Len(updates) - 1) /\ (IF j < i THEN j ELSE j + 1) = k
        BY ONLY <1>3, <2>1, k \in 1..Len(updates), k # i
    <2>3. j \in 1..Len(s.updates) /\ s.updates[j] = updates[k]
        BY ONLY <1>5, <2>2
    <2> QED BY <2>3
<1>10. ASSUME NEW v \in Updates
       PROVE  OnePlace(v, inbox, ToSet(hand), s, drained, pushed) /\ OneOfEach(v, inbox, s)
    <2>1. OnePlace(v, inbox, ToSet(hand), State, drained, pushed) /\ OneOfEach(v, inbox, State)
        BY <1>1 DEF Placed
    <2>2. /\ \A j, k \in 1..Len(updates) : updates[j] = v /\ updates[k] = v => j = k
          /\ \A y, z \in Expects : outcome[y] = v /\ outcome[z] = v => y = z
        BY <2>1, StateFacts DEF OneOfEach
    <2>3. (InQueue(v, State) <=> \E j \in 1..Len(updates) : updates[j] = v)
          /\ (Taken(v, State) <=> \E y \in Expects : outcome[y] = v)
        BY StateFacts DEF InQueue, Taken
    <2>4. CASE v = u
        <3>1. InQueue(v, State) /\ ~Taken(v, State)
            BY <1>3, <2>1, <2>3, <2>4 DEF OnePlace, u
        <3>2. ~InQueue(v, s)
            BY <1>3, <1>8, <2>2, <2>4 DEF InQueue, u
        <3>3. Taken(v, s)
            BY <1>6, <2>4 DEF Taken
        <3>4. OnePlace(v, inbox, ToSet(hand), s, drained, pushed)
            BY <2>1, <3>1, <3>2, <3>3 DEF OnePlace
        <3>5. \A y \in Expects : s.outcome[y] = v => y = x
            BY <1>6, <2>3, <3>1
        <3>6. OneOfEach(v, inbox, s)
            BY <2>1, <3>2, <3>5 DEF OneOfEach, InQueue
        <3> QED BY <3>4, <3>6
    <2>5. CASE v # u
        <3>1. InQueue(v, s) <=> InQueue(v, State)
            <4>1. \A j \in 1..Len(s.updates) : s.updates[j] = v => \E k \in 1..Len(updates) : updates[k] = v
                BY <1>8
            <4>2. \A k \in 1..Len(updates) : updates[k] = v => k # i
                BY <2>5 DEF u
            <4> QED BY <1>9, <2>3, <4>1, <4>2 DEF InQueue
        <3>2. \A y \in Expects : s.outcome[y] = v <=> outcome[y] = v
            BY <1>2, <1>6, <2>5, MessageFacts DEF Outcomes
        <3>3. Taken(v, s) <=> Taken(v, State)
            BY <2>3, <3>2 DEF Taken
        <3>4. OnePlace(v, inbox, ToSet(hand), s, drained, pushed)
            BY <2>1, <3>1, <3>3 DEF OnePlace
        <3>5. ASSUME NEW j \in 1..Len(s.updates), NEW k \in 1..Len(s.updates),
                     s.updates[j] = v, s.updates[k] = v
              PROVE  j = k
            <4>1. (IF j < i THEN j ELSE j + 1) = (IF k < i THEN k ELSE k + 1)
                BY <1>8, <2>2, <3>5
            <4>2. Len(updates) \in Nat
                BY <1>2
            <4> QED BY ONLY <1>3, <1>5, <4>1, <4>2, j \in 1..Len(s.updates), k \in 1..Len(s.updates)
        <3>6. OneOfEach(v, inbox, s)
            BY <2>1, <2>2, <3>2, <3>5 DEF OneOfEach
        <3> QED BY <3>4, <3>6
    <2> QED BY <2>4, <2>5
<1>11. Placed(inbox, ToSet(hand), s, drained, pushed)
    BY <1>10 DEF Placed
<1> QED BY <1>4, <1>7, <1>11 DEF PlaceInv, CarrierInv, SentInv, s

LEMMA ArriveAnywhere ==
    ASSUME PlaceInv, NEW p \in Packets, Arrive(p),
           \A u \in Updates : Push(u) \in ToSet(p) => u \notin pushed
    PROVE  PlaceInv'
<1> DEFINE s == State
<1>1. State' = State /\ UNCHANGED <<sent, drained>>
    BY DEF Arrive, State, client, waiting
<1>2. /\ inbox \in Seq(Packets) /\ Placed(inbox, ToSet(hand), s, drained, pushed)
      /\ pump # "holding" => ToSet(hand) = {}
    BY DEF PlaceInv, CarrierInv, ToSet
<1> HIDE DEF s
<1>3. \A u \in Updates : u \in pushed' <=> u \in pushed \/ Push(u) \in ToSet(p)
    BY DEF Arrive
<1>4. \A u \in Updates : Push(u) \in ToSet(p) =>
          /\ ~InPacket(u, inbox) /\ Push(u) \notin ToSet(hand)
          /\ ~InQueue(u, s) /\ ~Taken(u, s) /\ u \notin drained
    BY <1>2 DEF Placed, OnePlace
<1>5. CASE pump = "polling"
    <2>1. pump' = "holding" /\ hand' = p /\ inbox' = inbox /\ ToSet(hand) = {}
        BY <1>2, <1>5 DEF Arrive
    <2>2. ASSUME NEW u \in Updates
          PROVE  OnePlace(u, inbox', ToSet(hand'), s, drained, pushed') /\ OneOfEach(u, inbox', s)
        <3>1. OnePlace(u, inbox, {}, s, drained, pushed) /\ OneOfEach(u, inbox, s)
            BY <1>2, <2>1 DEF Placed
        <3> QED BY <1>3, <1>4, <2>1, <3>1 DEF OnePlace
    <2>3. CarrierInv'
        BY <1>2, <2>1 DEF CarrierInv
    <2> QED BY <1>1, <2>2, <2>3 DEF PlaceInv, Placed, SentInv, s
<1>6. CASE pump # "polling"
    <2>1. inbox' = Append(inbox, p) /\ UNCHANGED <<pump, hand>>
        BY <1>6 DEF Arrive
    <2>2. /\ Len(inbox) \in Nat /\ inbox' \in Seq(Packets) /\ Len(inbox') = Len(inbox) + 1
          /\ \A i \in 1..Len(inbox) : inbox'[i] = inbox[i]
          /\ inbox'[Len(inbox) + 1] = p
        BY <1>2, <2>1
    <2>3. /\ \A i \in 1..Len(inbox') : i \in 1..Len(inbox) \/ i = Len(inbox) + 1
          /\ \A i \in 1..Len(inbox) : i \in 1..Len(inbox')
          /\ Len(inbox) + 1 \in 1..Len(inbox')
        BY <2>2
    <2>4. ASSUME NEW u \in Updates
          PROVE  OnePlace(u, inbox', ToSet(hand'), s, drained, pushed') /\ OneOfEach(u, inbox', s)
        <3>1. OnePlace(u, inbox, ToSet(hand), s, drained, pushed) /\ OneOfEach(u, inbox, s)
            BY <1>2 DEF Placed
        <3>2. InPacket(u, inbox') <=> InPacket(u, inbox) \/ Push(u) \in ToSet(p)
            BY <2>2, <2>3 DEF InPacket
        <3>3. OnePlace(u, inbox', ToSet(hand'), s, drained, pushed')
            BY <1>3, <1>4, <2>1, <3>1, <3>2 DEF OnePlace
        <3>4. OneOfEach(u, inbox', s)
            <4>1. CASE Push(u) \in ToSet(p)
                <5>1. \A i \in 1..Len(inbox') : Push(u) \in ToSet(inbox'[i]) => i = Len(inbox) + 1
                    BY <1>4, <2>2, <2>3, <4>1 DEF InPacket
                <5> QED BY <3>1, <5>1 DEF OneOfEach
            <4>2. CASE Push(u) \notin ToSet(p)
                <5>1. \A i \in 1..Len(inbox') : Push(u) \in ToSet(inbox'[i]) =>
                          i \in 1..Len(inbox) /\ Push(u) \in ToSet(inbox[i])
                    BY <2>2, <2>3, <4>2
                <5> QED BY <3>1, <5>1 DEF OneOfEach
            <4> QED BY <4>1, <4>2
        <3> QED BY <3>3, <3>4
    <2>5. CarrierInv'
        BY <2>1, <2>2 DEF CarrierInv, PlaceInv
    <2> QED BY <1>1, <2>4, <2>5 DEF PlaceInv, Placed, SentInv, s
<1> QED BY <1>5, <1>6

LEMMA ReceivePlaces ==
    ASSUME PlaceInv, Receive
    PROVE  PlaceInv'
<1>1. Answers \subseteq {Result(c) : c \in Calls}
    BY DEF PlaceInv, SentInv, Answers
<1>2. Pushes \subseteq {Push(u) : u \in Updates}
      /\ \A u \in Updates : Push(u) \in Pushes => u \notin pushed
    BY MessageFacts DEF Pushes
<1>3. \A m : DOMAIN <<m>> = {1} /\ <<m>>[1] = m
    OBVIOUS
<1>4. \A m, n : DOMAIN <<m, n>> = {1, 2} /\ <<m, n>>[1] = m /\ <<m, n>>[2] = n
    OBVIOUS
<1>5. ASSUME NEW m \in Answers \cup Pushes \cup {Service}, Arrive(<<m>>) PROVE PlaceInv'
    <2>1. m \in Messages
        BY <1>1, <1>2 DEF Messages
    <2>2. <<m>> \in Packets
        BY <2>1 DEF Packets
    <2>3. ToSet(<<m>>) = {m}
        BY <1>3 DEF ToSet
    <2>4. \A u \in Updates : Push(u) \in ToSet(<<m>>) => u \notin pushed
        BY <1>1, <1>2, <2>3, MessageFacts
    <2> QED BY <1>5, <2>2, <2>4, ArriveAnywhere
<1>6. ASSUME NEW m \in Messages, NEW n \in Messages, m # n, Arrive(<<m, n>>),
             \A u \in Updates : Push(u) \in {m, n} => u \notin pushed
      PROVE  PlaceInv'
    <2>1. <<m, n>> \in Packets
        BY <1>6 DEF Packets
    <2>2. ToSet(<<m, n>>) = {m, n}
        BY <1>4 DEF ToSet
    <2> QED BY <1>6, <2>1, <2>2, ArriveAnywhere
<1>7. ASSUME NEW a \in Answers, NEW p \in Pushes
      PROVE  /\ a \in Messages /\ p \in Messages /\ a # p
             /\ \A u \in Updates : Push(u) \in {a, p} => u \notin pushed
    <2>1. \A u \in Updates : Push(u) # a
        BY <1>1, MessageFacts
    <2> QED BY <1>1, <1>2, <2>1 DEF Messages
<1>8. ASSUME NEW a \in Answers, NEW p \in Pushes, Arrive(<<a, p>>) PROVE PlaceInv'
    BY <1>6, <1>7, <1>8
<1>9. ASSUME NEW a \in Answers, NEW p \in Pushes, Arrive(<<p, a>>) PROVE PlaceInv'
    BY <1>6, <1>7, <1>9
<1>10. PICK packet \in {<<m>> : m \in Answers \cup Pushes \cup {Service}} \cup Containers : Arrive(packet)
    BY DEF Receive
<1> QED BY <1>5, <1>8, <1>9, <1>10 DEF Containers

LEMMA NextPlace ==
    ASSUME PlaceInv, Next
    PROVE  PlaceInv'
<1>1. CASE \E c \in Calls : Invoke(c)
    BY <1>1, InvokePlaces
<1>2. ASSUME NEW c \in Calls, InvokeClosed(c) \/ InvokeInvalid(c) PROVE PlaceInv'
    <2>1. /\ outcome[c] = "new" /\ \E how \in {"closed", "invalid"} : outcome' = [outcome EXCEPT ![c] = how]
          /\ UNCHANGED <<loop, waiting, timers, server, drained>>
        BY <1>2 DEF InvokeClosed, InvokeInvalid, RejectClosed
    <2> QED BY <2>1, RejectedPlaces
<1>3. CASE \E x \in Expects : ExpectQueued(x)
    BY <1>3, ExpectQueuedPlaces
<1>4. CASE \E x \in Expects : ExpectClosed(x)
    BY <1>4, RejectedPlaces DEF ExpectClosed, RejectClosed
<1>5. CASE \E x \in Expects : Expect(x)
    BY <1>5, ExpectPlaces
<1>6. CASE DrainUpdates
    BY <1>6, DrainPlaces
<1>7. CASE Listen
    BY <1>7, ListenPlaces
<1>8. CASE StopListening
    BY <1>8 DEF StopListening, PlaceInv, CarrierInv, SentInv, State, loop, waiting, server
<1>9. CASE Close
    BY <1>9, ClosePlaces
<1>10. CASE \E x \in Calls \cup Expects : Timeout(x)
    BY <1>10, TimeoutPlaces
<1>11. CASE PollTimeout
    BY <1>11, PollTimeoutPlaces
<1>12. CASE Dispatch
    BY <1>12, DispatchPlaces
<1>13. CASE Receive
    BY <1>13, ReceivePlaces
<1> QED BY <1>1, <1>2, <1>3, <1>4, <1>5, <1>6, <1>7, <1>8, <1>9, <1>10, <1>11, <1>12, <1>13
        DEF Next, User

LEMMA CardinalityOfOne ==
    ASSUME NEW S, \A a, b \in S : a = b
    PROVE  Cardinality(S) = IF S = {} THEN 0 ELSE 1
<1>1. CASE S = {}
    BY <1>1, FS_EmptySet
<1>2. CASE S # {}
    <2>1. PICK a \in S : S = {a}
        BY <1>2
    <2> QED BY <1>2, <2>1, FS_Singleton
<1> QED BY <1>1, <1>2

LEMMA PlacesCount == PlaceInv => EachUpdateOnce
<1> SUFFICES ASSUME PlaceInv, NEW u \in Updates
             PROVE  LET packets == {i \in DOMAIN inbox : Push(u) \in ToSet(inbox[i])}
                        queued == {i \in DOMAIN updates : updates[i] = u}
                        takers == {x \in Expects : outcome[x] = u}
                        places == Cardinality(packets) + Cardinality(queued) + Cardinality(takers)
                            + Cardinality({Push(u)} \cap ToSet(hand)) + Cardinality({u} \cap drained)
                    IN  places = Cardinality({u} \cap pushed)
    BY DEF EachUpdateOnce
<1> DEFINE packets == {i \in DOMAIN inbox : Push(u) \in ToSet(inbox[i])}
           queued == {i \in DOMAIN updates : updates[i] = u}
           takers == {x \in Expects : outcome[x] = u}
           held == {Push(u)} \cap ToSet(hand)
           gone == {u} \cap drained
           came == {u} \cap pushed
<1>1. OnePlace(u, inbox, ToSet(hand), State, drained, pushed) /\ OneOfEach(u, inbox, State)
    BY DEF PlaceInv, Placed
<1>2. DOMAIN inbox = 1..Len(inbox) /\ DOMAIN updates = 1..Len(updates)
    BY WaitersTyped DEF PlaceInv, CarrierInv
<1>3. /\ (packets # {} <=> InPacket(u, inbox)) /\ (queued # {} <=> InQueue(u, State))
      /\ (takers # {} <=> Taken(u, State)) /\ (held # {} <=> Push(u) \in ToSet(hand))
      /\ (gone # {} <=> u \in drained) /\ (came # {} <=> u \in pushed)
    BY <1>2, StateFacts DEF InPacket, InQueue, Taken
<1>4. /\ \A i, j \in packets : i = j
      /\ \A i, j \in queued : i = j
      /\ \A x, y \in takers : x = y
    BY <1>1, <1>2, StateFacts DEF OneOfEach
<1>5. (\A i, j \in held : i = j) /\ (\A i, j \in gone : i = j) /\ (\A i, j \in came : i = j)
    OBVIOUS
<1> HIDE DEF packets, queued, takers, held, gone, came
<1>6. /\ Cardinality(packets) = (IF packets = {} THEN 0 ELSE 1)
      /\ Cardinality(queued) = (IF queued = {} THEN 0 ELSE 1)
      /\ Cardinality(takers) = (IF takers = {} THEN 0 ELSE 1)
      /\ Cardinality(held) = (IF held = {} THEN 0 ELSE 1)
      /\ Cardinality(gone) = (IF gone = {} THEN 0 ELSE 1)
      /\ Cardinality(came) = (IF came = {} THEN 0 ELSE 1)
    BY <1>4, <1>5, CardinalityOfOne
<1>7. Cardinality(packets) + Cardinality(queued) + Cardinality(takers)
          + Cardinality(held) + Cardinality(gone) = Cardinality(came)
    BY <1>1, <1>3, <1>6 DEF OnePlace
<1> QED BY <1>7 DEF packets, queued, takers, held, gone, came

(***************************************************************************)
(* An update that came is in one packet, in the queue, drained, or with    *)
(* one waiter, whatever times out or closes meanwhile (session.ts          *)
(* dispatch, routeUpdate, expectUpdate, drainUpdates, close).              *)
(***************************************************************************)
THEOREM UpdatesAreNeitherLostNorDoubled == Spec => []EachUpdateOnce
<1>1. PlaceInv /\ [Next]_vars => PlaceInv'
    <2>1. CASE UNCHANGED vars
        BY <2>1 DEF vars, waiting, PlaceInv, CarrierInv, SentInv, State
    <2> QED BY <2>1, NextPlace
<1> QED BY InitPlace, <1>1, PlacesCount, PTL DEF Spec

-----------------------------------------------------------------------------
(***************************************************************************)
(* The jobs of a run are a sequence, and each is of one of three forms.    *)
(***************************************************************************)
\* Induction over the numbers in a set, for the sequences below.
LEMMA NatAll ==
    ASSUME NEW G, 0 \in G, \A k \in Nat : k \in G => k + 1 \in G
    PROVE  Nat \subseteq G
<1> SUFFICES ASSUME Nat \ G # {} PROVE FALSE
    OBVIOUS
<1>1. PICK m \in Nat \ G : \A n \in Nat \ G : m <= n
    BY NatMin
<1>2. m # 0 /\ m - 1 \in Nat
    BY <1>1
<1>3. m - 1 \in G
    BY <1>1, <1>2
<1>4. (m - 1) + 1 \in G
    BY <1>2, <1>3
<1> QED BY <1>1, <1>2, <1>4

Flattens(f, s, n) == f = [i \in 1..n |-> IF i = 1 THEN s[i] ELSE f[i - 1] \o s[i]]

LEMMA FlattensExists ==
    ASSUME NEW s, NEW n \in Nat
    PROVE  \E f : Flattens(f, s, n)
<1> DEFINE G == {k \in Nat : \E f : Flattens(f, s, k)}
<1>1. 0 \in G
    <2>1. Flattens(<<>>, s, 0)
        BY DEF Flattens
    <2> QED BY <2>1
<1>2. ASSUME NEW k \in Nat, k \in G PROVE k + 1 \in G
    <2>1. PICK f : Flattens(f, s, k)
        BY <1>2
    <2> DEFINE g == [i \in 1..(k + 1) |-> IF i <= k THEN f[i] ELSE IF i = 1 THEN s[i] ELSE f[k] \o s[i]]
    <2>2. f = [i \in 1..k |-> IF i = 1 THEN s[i] ELSE f[i - 1] \o s[i]]
        BY <2>1 DEF Flattens
    <2>3. ASSUME NEW i \in 1..(k + 1)
          PROVE  g[i] = IF i = 1 THEN s[i] ELSE g[i - 1] \o s[i]
        <3>1. CASE i <= k
            <4>1. g[i] = f[i] /\ i \in 1..k
                BY <3>1
            <4>2. f[i] = IF i = 1 THEN s[i] ELSE f[i - 1] \o s[i]
                BY <2>2, <4>1
            <4>3. i # 1 => g[i - 1] = f[i - 1]
                BY <3>1
            <4> QED BY <4>1, <4>2, <4>3
        <3>2. CASE i = k + 1
            <4>1. g[i] = IF i = 1 THEN s[i] ELSE f[k] \o s[i]
                BY <3>2
            <4>2. i # 1 => g[i - 1] = f[k]
                BY <3>2
            <4> QED BY <4>1, <4>2
        <3> QED BY <3>1, <3>2
    <2>4. Flattens(g, s, k + 1)
        <3>1. g = [i \in 1..(k + 1) |-> g[i]]
            OBVIOUS
        <3> HIDE DEF g
        <3> QED BY <2>3, <3>1 DEF Flattens
    <2> QED BY <2>4
<1>3. Nat \subseteq G
    <2> HIDE DEF G
    <2> QED BY <1>1, <1>2, NatAll
<1> QED BY <1>3

LEMMA FlattensIn ==
    ASSUME NEW S, NEW n \in Nat, NEW s, \A i \in 1..n : s[i] \in Seq(S), NEW f, Flattens(f, s, n)
    PROVE  \A i \in 1..n : f[i] \in Seq(S)
<1> DEFINE G == {i \in Nat : i \in 1..n => f[i] \in Seq(S)}
<1>1. 0 \in G
    OBVIOUS
<1>2. ASSUME NEW i \in Nat, i \in G PROVE i + 1 \in G
    <2> SUFFICES ASSUME i + 1 \in 1..n PROVE f[i + 1] \in Seq(S)
        OBVIOUS
    <2>1. f[i + 1] = IF i + 1 = 1 THEN s[i + 1] ELSE f[(i + 1) - 1] \o s[i + 1]
        BY DEF Flattens
    <2>2. CASE i = 0
        BY <2>1, <2>2
    <2>3. CASE i # 0
        <3>1. f[i] \in Seq(S) /\ (i + 1) - 1 = i
            BY <1>2, <2>3
        <3>2. f[i] \o s[i + 1] \in Seq(S)
            BY <3>1
        <3> QED BY <2>1, <2>3, <3>1, <3>2
    <2> QED BY <2>2, <2>3
<1>3. Nat \subseteq G
    <2> HIDE DEF G
    <2> QED BY <1>1, <1>2, NatAll
<1> QED BY <1>3

LEMMA FlattenIn ==
    ASSUME NEW S, NEW s \in Seq(Seq(S))
    PROVE  FlattenSeq(s) \in Seq(S)
<1> DEFINE n == Len(s)
           f == CHOOSE h : Flattens(h, s, n)
<1>1. n \in Nat /\ \A i \in 1..n : s[i] \in Seq(S)
    OBVIOUS
<1>2. FlattenSeq(s) = IF n = 0 THEN s ELSE f[n]
    BY DEF FlattenSeq, Flattens
<1> HIDE DEF n
<1>3. Flattens(f, s, n)
    <2>1. \E h : Flattens(h, s, n)
        BY <1>1, FlattensExists
    <2> QED BY <2>1, Zenon
<1> HIDE DEF f
<1>4. n # 0 => f[n] \in Seq(S)
    BY <1>1, <1>3, FlattensIn
<1>5. n = 0 => s \in Seq(S)
    BY DEF n
<1> QED BY <1>2, <1>4, <1>5

JobSet ==
    {Connect(u) : u \in Users}
        \cup {Recipe(u, name) : u \in Users, name \in Names}
        \cup {StepOf(u, i, step) : u \in Users \cup {None}, i \in Nat, step \in Step}

\* A step of the scenario, or of a login, is a job.
LEMMA StepIsJob ==
    ASSUME NEW u \in Users \cup {None}, NEW i \in Nat, NEW step \in Step
    PROVE  StepOf(u, i, step) \in JobSet
BY DEF JobSet

LEMMA JobsAreJobs ==
    ASSUME scenario \in Scenarios
    PROVE  Jobs \in Seq(JobSet)
<1> DEFINE s == scenario
<1>1. s.users \in Seq(ScenarioUser) /\ s.steps \in Seq(Step)
    BY ScenarioAssumption
<1> DEFINE login(u) ==
               <<Connect(u.name)>>
               \o (IF u.recipe = None THEN <<>> ELSE <<Recipe(u.name, u.recipe)>>)
               \o [i \in DOMAIN u.steps |-> StepOf(u.name, 0, [u.steps[i] EXCEPT !.blocks = TRUE])]
           logins == [i \in DOMAIN s.users |-> login(s.users[i])]
           rest == [i \in DOMAIN s.steps |-> StepOf(UserOf(s, s.steps[i]), i, s.steps[i])]
<1>2. ASSUME NEW u \in ScenarioUser PROVE login(u) \in Seq(JobSet)
    <2>1. u.name \in Users /\ u.recipe \in Names \cup {None} /\ u.steps \in Seq(Step)
        BY DEF ScenarioUser
    <2>2. <<Connect(u.name)>> \in Seq(JobSet)
        <3>1. Connect(u.name) \in JobSet
            BY <2>1 DEF JobSet
        <3> QED BY <3>1
    <2>3. (IF u.recipe = None THEN <<>> ELSE <<Recipe(u.name, u.recipe)>>) \in Seq(JobSet)
        <3>1. u.recipe # None => Recipe(u.name, u.recipe) \in JobSet
            BY <2>1 DEF JobSet
        <3> QED BY <3>1
    <2>4. [i \in DOMAIN u.steps |-> StepOf(u.name, 0, [u.steps[i] EXCEPT !.blocks = TRUE])] \in Seq(JobSet)
        <3>1. Len(u.steps) \in Nat /\ DOMAIN u.steps = 1..Len(u.steps)
            BY <2>1
        <3>2. ASSUME NEW i \in 1..Len(u.steps) PROVE StepOf(u.name, 0, [u.steps[i] EXCEPT !.blocks = TRUE]) \in JobSet
            <4>1. u.steps[i] \in Step
                BY <2>1
            <4>2. [u.steps[i] EXCEPT !.blocks = TRUE] \in Step
                BY <4>1 DEF Step
            <4> QED BY <2>1, <4>2, StepIsJob
        <3> QED BY <3>1, <3>2
    <2> QED BY <2>2, <2>3, <2>4
<1>3. FlattenSeq(logins) \in Seq(JobSet)
    <2>1. Len(s.users) \in Nat /\ DOMAIN s.users = 1..Len(s.users)
        BY <1>1
    <2>2. \A i \in 1..Len(s.users) : s.users[i] \in ScenarioUser
        BY <1>1
    <2> HIDE DEF login
    <2>3. logins \in Seq(Seq(JobSet))
        BY <1>2, <2>1, <2>2
    <2> HIDE DEF logins
    <2> QED BY <2>3, FlattenIn
<1>4. rest \in Seq(JobSet)
    <2>1. Len(s.steps) \in Nat /\ DOMAIN s.steps = 1..Len(s.steps)
        BY <1>1
    <2>2. ASSUME NEW i \in 1..Len(s.steps)
          PROVE  StepOf(UserOf(s, s.steps[i]), i, s.steps[i]) \in JobSet
        <3>1. s.steps[i] \in Step /\ i \in Nat
            BY <1>1
        <3>2. Len(s.users) = 1 => s.users[1].name \in Users
            <4>1. Len(s.users) = 1 => s.users[1] \in ScenarioUser
                BY <1>1
            <4> QED BY <4>1 DEF ScenarioUser
        <3>3. UserOf(s, s.steps[i]) \in Users \cup {None}
            BY <3>1, <3>2, ScenarioAssumption DEF UserOf, Step
        <3> QED BY <3>1, <3>3, StepIsJob
    <2> QED BY <2>1, <2>2
<1>5. Jobs = FlattenSeq(logins) \o rest
    BY DEF Jobs, JobsOf
<1> HIDE DEF logins, rest
<1> QED BY <1>3, <1>4, <1>5

IsLogin(job) == job.do \in {"connect", "login"}

LEMMA JobFacts ==
    ASSUME scenario \in Scenarios
    PROVE  /\ Len(Jobs) \in Nat /\ DOMAIN Jobs = 1..Len(Jobs)
           /\ \A j \in DOMAIN Jobs :
                /\ IsLogin(Jobs[j]) \/ IsStep(Jobs[j])
                /\ Jobs[j].user \in Users \cup {None}
                /\ IsLogin(Jobs[j]) => Jobs[j].index = 0
                /\ Jobs[j].index \in Nat
<1>1. Jobs \in Seq(JobSet)
    BY JobsAreJobs
<1>2. ASSUME NEW job \in JobSet
      PROVE  /\ IsLogin(job) \/ IsStep(job)
             /\ job.user \in Users \cup {None}
             /\ IsLogin(job) => job.index = 0
             /\ job.index \in Nat
    <2>1. CASE \E u \in Users : job = Connect(u)
        BY <2>1 DEF Connect, IsLogin, IsStep
    <2>2. CASE \E u \in Users, name \in Names : job = Recipe(u, name)
        BY <2>2 DEF Recipe, IsLogin, IsStep
    <2>3. CASE \E u \in Users \cup {None}, i \in Nat, step \in Step : job = StepOf(u, i, step)
        BY <2>3 DEF StepOf, IsLogin, IsStep, Step
    <2> QED BY <2>1, <2>2, <2>3 DEF JobSet
<1> QED BY <1>1, <1>2

-----------------------------------------------------------------------------
(***************************************************************************)
(* What holds of a run at any moment.                                      *)
(*   WaitInv: an expectation that waits got nothing yet, waits once, and   *)
(*     is armed or the job in process; jobs to come got nothing.           *)
(*   ReportInv: jobs are reported once and in order, those that were armed *)
(*     after all others; an armed one is not reported, and every step that *)
(*     is behind the run is armed or reported.                             *)
(*   CreditInv: the updates that came are counted.                         *)
(*   LeftInv: what NothingLeft says, that only the builder loses sessions, *)
(*     and that an orphan fails the run of the command line.               *)
(***************************************************************************)
RunTypes ==
    /\ scenario \in Scenarios
    /\ pc \in 1..(Len(Jobs) + 1)
    /\ session \in [Users -> {"none", "held", "orphan", "lost", "closed"}]
    /\ waiters \in [Users -> Seq(DOMAIN Jobs)]
    /\ unclaimed \in [Users -> Seq(Objects)]
    /\ got \in [DOMAIN Jobs -> Objects \cup {TimedOut, None}]
    /\ deferred \in Seq(DOMAIN Jobs)
    /\ \E S : reports \in Seq(S)
    /\ pushes \in Nat

Connecting == {"dialing", "handshaking", "failed"}

AtItsJob ==
    /\ phase \in Connecting \cup {"ready", "calling", "expecting", "ended", "aborted"}
    /\ phase \in Connecting \cup {"calling", "expecting"} => pc \in DOMAIN Jobs
    /\ phase \in Connecting /\ scenario.studio => Job.do = "connect"
    /\ phase = "calling" => Job.do \in {"invoke", "login", "recipe"}
    /\ phase = "expecting" => Job.do = "expectUpdate" /\ Job.step.blocks
    /\ phase = "ended" => pc = Len(Jobs) + 1 /\ deferred = <<>>

Waits(u, j) ==
    /\ Jobs[j].user = u /\ Jobs[j].do = "expectUpdate" /\ got[j] = None
    /\ j \in ToSet(deferred) \/ (j = pc /\ phase = "expecting")

WaitInv ==
    /\ \A u \in Users : NoneTwice(waiters[u]) /\ \A j \in ToSet(waiters[u]) : Waits(u, j)
    /\ \A j \in DOMAIN Jobs : (j > pc \/ (j = pc /\ phase # "expecting")) => got[j] = None

\* An armed expectation that got something: its report comes after the last step.
Late(j) == Deferrable(Jobs[j]) /\ got[j] # None

\* A step the report must tell of.
Owed(j) == IsStep(Jobs[j]) /\ Jobs[j].index > 0 /\ ~MayPass(Jobs[j])

InOrder(i, k) ==
    LET a == reports[i].job
        b == reports[k].job
    IN a # b /\ (Late(a) => Late(b)) /\ ((Late(a) <=> Late(b)) => a < b)

ReportInv ==
    /\ \A i \in 1..Len(reports) : reports[i].job \in 1..(pc - 1) /\ reports[i].job \notin ToSet(deferred)
    /\ \A i, k \in 1..Len(reports) : i < k => InOrder(i, k)
    /\ pc <= Len(Jobs) => \A i \in 1..Len(reports) : ~Late(reports[i].job)
    /\ \A i \in 1..Len(reports), d \in ToSet(deferred) : Late(reports[i].job) => reports[i].job < d
    /\ \A i, k \in 1..Len(deferred) : i < k => deferred[i] < deferred[k]
    /\ \A d \in ToSet(deferred) : d < pc /\ Deferrable(Jobs[d])
    /\ \A j \in 1..(pc - 1) : Owed(j) =>
           j \in ToSet(deferred) \/ \E i \in 1..Len(reports) : reports[i].job = j

Kept == UNION {{u} \X DOMAIN unclaimed[u] : u \in Users}
Credited == {j \in DOMAIN got : got[j] \in Objects}
CreditInv == IsFiniteSet(Kept) /\ IsFiniteSet(Credited) /\ pushes = Cardinality(Kept) + Cardinality(Credited)

LeftInv ==
    /\ NothingLeft
    /\ \A u \in Users : session[u] = "lost" => scenario.studio
    /\ \A u \in Users : session[u] = "orphan" => scenario.studio \/ phase \in {"failed", "aborted"}

Types == RunTypes /\ AtItsJob

-----------------------------------------------------------------------------
LEMMA TimedOutIsNone == TimedOut \notin Objects /\ None \notin Objects
BY ScenarioAssumption DEF TimedOut, Objects

\* What the builder skips are no steps of the scenario.
LEMMA NextUserFacts ==
    ASSUME scenario \in Scenarios, pc \in DOMAIN Jobs
    PROVE  /\ NextUser \in (pc + 1)..(Len(Jobs) + 1)
           /\ \A i \in (pc + 1)..(NextUser - 1) : Jobs[i].index = 0
<1> DEFINE n == Len(Jobs)
           Stops(k) == k \in DOMAIN Jobs => Jobs[k].user # Job.user \/ Jobs[k].index # 0
           K == {k \in (pc + 1)..(n + 1) : Stops(k)}
<1>1. n \in Nat /\ DOMAIN Jobs = 1..n /\ pc \in 1..n
    BY JobFacts
<1>2. n + 1 \in K
    BY <1>1
<1>3. K \subseteq Nat
    BY <1>1
<1>4. PICK k \in K : \A m \in K : k <= m
    BY <1>2, <1>3, NatMin
<1>5. ASSUME NEW i \in (pc + 1)..(k - 1) PROVE Jobs[i].user = Job.user /\ Jobs[i].index = 0
    <2>1. i \in (pc + 1)..(n + 1) /\ i \notin K
        BY <1>1, <1>4
    <2> QED BY <2>1
<1> HIDE DEF n
<1>6. \E m \in (pc + 1)..(n + 1) :
        /\ \A i \in (pc + 1)..(m - 1) : Jobs[i].user = Job.user /\ Jobs[i].index = 0
        /\ Stops(m)
    BY <1>4, <1>5
<1>7. /\ NextUser \in (pc + 1)..(n + 1)
      /\ \A i \in (pc + 1)..(NextUser - 1) : Jobs[i].user = Job.user /\ Jobs[i].index = 0
    BY <1>6 DEF NextUser, n
<1> QED BY <1>7 DEF n

LEMMA FirstMatchingFacts ==
    ASSUME NEW u, NEW value, Len(waiters[u]) \in Nat
    PROVE  FirstMatching(u, value) # 0 => FirstMatching(u, value) \in 1..Len(waiters[u])
<1> DEFINE s == waiters[u]
           I == {j \in 1..Len(s) : MatchesNow(Expected(s[j]), value)}
<1>1. FirstMatching(u, value) = IF I # {} THEN Min(I) ELSE 0
    BY DEF FirstMatching, SelectInSeq
<1>2. I \subseteq Nat /\ I \subseteq 1..Len(waiters[u])
    OBVIOUS
<1> HIDE DEF I
<1>3. I # {} => Min(I) \in I
    BY <1>2, MinIn
<1> QED BY <1>1, <1>2, <1>3

LEMMA FirstClaimableFacts ==
    ASSUME NEW j, Len(unclaimed[Jobs[j].user]) \in Nat
    PROVE  FirstClaimable(j) # 0 => FirstClaimable(j) \in 1..Len(unclaimed[Jobs[j].user])
<1> DEFINE s == unclaimed[Jobs[j].user]
           I == {k \in 1..Len(s) : MatchesNow(Expected(j), s[k])}
<1>1. FirstClaimable(j) = IF I # {} THEN Min(I) ELSE 0
    BY DEF FirstClaimable, SelectInSeq
<1>2. I \subseteq Nat /\ I \subseteq 1..Len(unclaimed[Jobs[j].user])
    OBVIOUS
<1> HIDE DEF I
<1>3. I # {} => Min(I) \in I
    BY <1>2, MinIn
<1> QED BY <1>1, <1>2, <1>3

LEMMA RemoveAtOnce ==
    ASSUME NEW E, NEW s \in Seq(E), NoneTwice(s), NEW i \in 1..Len(s), NEW r, r = RemoveAt(s, i)
    PROVE  r \in Seq(E) /\ NoneTwice(r) /\ ToSet(r) = ToSet(s) \ {s[i]}
<1>1. Without(r, s, i, E)
    BY RemoveAtFacts
<1> QED BY <1>1, WithoutFacts

LEMMA ToSetMore ==
    ASSUME NEW E, NEW s \in Seq(E), NEW x
    PROVE  ToSet(Append(s, x)) = ToSet(s) \cup {x} /\ (s # <<>> => ToSet(s) = ToSet(Tail(s)) \cup {Head(s)})
<1>1. Len(s) \in Nat /\ DOMAIN s = 1..Len(s)
    OBVIOUS
<1>2. s \in Seq(E \cup {x})
    OBVIOUS
<1>3. /\ DOMAIN Append(s, x) = 1..(Len(s) + 1)
      /\ \A i \in 1..(Len(s) + 1) : Append(s, x)[i] = IF i <= Len(s) THEN s[i] ELSE x
    BY <1>1, <1>2
<1>4. ToSet(Append(s, x)) = ToSet(s) \cup {x}
    <2>1. ToSet(Append(s, x)) \subseteq ToSet(s) \cup {x}
        BY <1>1, <1>3 DEF ToSet
    <2>2. ToSet(s) \subseteq ToSet(Append(s, x))
        <3>1. \A i \in 1..Len(s) : i \in 1..(Len(s) + 1) /\ Append(s, x)[i] = s[i]
            BY <1>1, <1>3
        <3> QED BY <1>1, <1>3, <3>1 DEF ToSet
    <2>3. x \in ToSet(Append(s, x))
        <3>1. Len(s) + 1 \in 1..(Len(s) + 1) /\ Append(s, x)[Len(s) + 1] = x
            BY <1>1, <1>3
        <3> QED BY <1>3, <3>1 DEF ToSet
    <2> QED BY <2>1, <2>2, <2>3
<1>5. ASSUME s # <<>> PROVE ToSet(s) = ToSet(Tail(s)) \cup {Head(s)}
    <2>1. /\ DOMAIN Tail(s) = 1..(Len(s) - 1) /\ Len(s) >= 1 /\ Head(s) = s[1]
          /\ \A i \in 1..(Len(s) - 1) : Tail(s)[i] = s[i + 1]
        BY <1>1, <1>5
    <2>2. ToSet(s) \subseteq ToSet(Tail(s)) \cup {Head(s)}
        <3> SUFFICES ASSUME NEW i \in 1..Len(s) PROVE s[i] \in ToSet(Tail(s)) \cup {Head(s)}
            BY <1>1 DEF ToSet
        <3>1. CASE i = 1
            BY <3>1, <2>1
        <3>2. CASE i # 1
            <4>1. i - 1 \in 1..(Len(s) - 1) /\ Tail(s)[i - 1] = s[i]
                BY <3>2, <1>1, <2>1
            <4> QED BY <4>1, <2>1 DEF ToSet
        <3> QED BY <3>1, <3>2
    <2>3. ToSet(Tail(s)) \subseteq ToSet(s)
        <3>1. \A i \in 1..(Len(s) - 1) : i + 1 \in 1..Len(s) /\ Tail(s)[i] = s[i + 1]
            BY <1>1, <2>1
        <3> QED BY <1>1, <2>1, <3>1 DEF ToSet
    <2>4. Head(s) \in ToSet(s)
        <3>1. 1 \in 1..Len(s)
            BY <1>1, <2>1
        <3> QED BY <1>1, <2>1, <3>1 DEF ToSet
    <2> QED BY <2>2, <2>3, <2>4
<1> QED BY <1>4, <1>5

-----------------------------------------------------------------------------
\* record() appends.
LEMMA Reported ==
    ASSUME RunTypes, NEW j, NEW ok, Report(j, ok)
    PROVE  /\ \E S : reports' \in Seq(S)
           /\ Len(reports) \in Nat /\ Len(reports') = Len(reports) + 1
           /\ \A i \in 1..Len(reports) : reports'[i] = reports[i]
           /\ reports'[Len(reports) + 1].job = j
<1> DEFINE e == [job |-> j, index |-> Jobs[j].index, ok |-> ok]
<1>1. PICK S : reports \in Seq(S)
    BY DEF RunTypes
<1>2. reports' = Append(reports, e)
    BY DEF Report
<1>3. e.job = j
    OBVIOUS
<1> HIDE DEF e
<1>4. reports \in Seq(S \cup {e})
    BY <1>1
<1>5. reports' \in Seq(S \cup {e})
    BY <1>2, <1>4
<1> QED BY <1>1, <1>2, <1>3, <1>4, <1>5

LEMMA RunTypesStay ==
    ASSUME Types, UNCHANGED <<scenario, got, deferred, reports, pushes, unclaimed>>,
           pc' \in 1..(Len(Jobs) + 1), waiters' \in [Users -> Seq(DOMAIN Jobs)],
           session' \in [Users -> {"none", "held", "orphan", "lost", "closed"}]
    PROVE  RunTypes' /\ Jobs' = Jobs
BY DEF Types, RunTypes, Jobs

\* The step is over, reported or not, and the next job comes.
LEMMA NextJobTypes ==
    ASSUME Types, phase # "ended", UNCHANGED <<scenario, clients, pushes>>, Next1, pc \in DOMAIN Jobs,
           deferred' \in Seq(DOMAIN Jobs), \E S : reports' \in Seq(S)
    PROVE  Types'
<1>1. Jobs' = Jobs
    BY DEF Jobs
<1>2. pc' \in 1..(Len(Jobs) + 1) /\ phase' = "ready"
    BY JobFacts DEF Types, RunTypes, Next1
<1> QED BY <1>1, <1>2 DEF Types, RunTypes, AtItsJob, Connecting, clients

LEMMA CloseAllTypes ==
    ASSUME Types, CloseAll
    PROVE  /\ waiters' \in [Users -> Seq(DOMAIN Jobs)]
           /\ session' \in [Users -> {"none", "held", "orphan", "lost", "closed"}]
BY DEF Types, RunTypes, CloseAll

LEMMA TypesInit == RunInit => Types
<1> SUFFICES ASSUME RunInit PROVE Types
    OBVIOUS
<1>1. scenario \in Scenarios
    BY DEF RunInit
<1>2. Len(Jobs) \in Nat /\ DOMAIN Jobs = 1..Len(Jobs)
    BY <1>1, JobFacts
<1>3. DOMAIN Jobs = DOMAIN JobsOf(scenario)
    BY DEF Jobs
<1>4. reports \in Seq({})
    BY DEF RunInit
<1> QED BY <1>1, <1>2, <1>3, <1>4 DEF RunInit, Types, RunTypes, AtItsJob, Connecting

LEMMA ExpectTypes ==
    ASSUME Types, ExpectUpdate
    PROVE  Types'
<1>1. Jobs' = Jobs /\ scenario' = scenario /\ session' = session /\ pushes' = pushes /\ reports' = reports
    BY DEF Jobs, ExpectUpdate
<1>2. pc \in DOMAIN Jobs /\ Job.user \in Users /\ Len(Jobs) \in Nat /\ DOMAIN Jobs = 1..Len(Jobs)
    BY JobFacts DEF Types, RunTypes, ExpectUpdate, Ready, Running, Job
<1> DEFINE i == FirstClaimable(pc)
           u == Job.user
<1>3. unclaimed[u] \in Seq(Objects) /\ Len(unclaimed[u]) \in Nat
    BY <1>2 DEF Types, RunTypes
<1>4. i # 0 => i \in 1..Len(unclaimed[u])
    BY <1>3, FirstClaimableFacts DEF Job
<1>5. /\ waiters' \in [Users -> Seq(DOMAIN Jobs)] /\ unclaimed' \in [Users -> Seq(Objects)]
      /\ got' \in [DOMAIN Jobs -> Objects \cup {TimedOut, None}]
    <2>1. CASE i # 0
        <3>1. unclaimed[u][i] \in Objects /\ RemoveAt(unclaimed[u], i) \in Seq(Objects)
            BY <1>3, <1>4, <2>1, RemoveAtFacts DEF Without
        <3>2. got' = [got EXCEPT ![pc] = unclaimed[u][i]] /\ waiters' = waiters
            BY <2>1 DEF ExpectUpdate
        <3>3. unclaimed' = [unclaimed EXCEPT ![u] = RemoveAt(@, i)]
            BY <2>1 DEF ExpectUpdate, Claimed
        <3> HIDE DEF i, u
        <3> QED BY <3>1, <3>2, <3>3 DEF Types, RunTypes
    <2>2. CASE i = 0
        <3>1. got' = got /\ unclaimed' = unclaimed /\ waiters' = [waiters EXCEPT ![u] = Append(@, pc)]
            BY <2>2 DEF ExpectUpdate
        <3> HIDE DEF i, u
        <3>2. \A v \in Users : Append(waiters[v], pc) \in Seq(DOMAIN Jobs)
            BY <1>2 DEF Types, RunTypes
        <3> QED BY <3>1, <3>2 DEF Types, RunTypes
    <2> QED BY <2>1, <2>2
<1> HIDE DEF i, u
<1>6. /\ deferred' \in Seq(DOMAIN Jobs) /\ pc' \in 1..(Len(Jobs) + 1)
      /\ phase' = "ready" \/ (phase' = "expecting" /\ pc' = pc /\ Job.do = "expectUpdate" /\ Job.step.blocks)
    <2>1. deferred \in Seq(DOMAIN Jobs) /\ Append(deferred, pc) \in Seq(DOMAIN Jobs)
        BY <1>2 DEF Types, RunTypes
    <2>2. IF Job.step.blocks THEN phase' = "expecting" /\ pc' = pc /\ deferred' = deferred
                             ELSE Next1 /\ deferred' = Append(deferred, pc)
        BY DEF ExpectUpdate
    <2>3. Job.do = "expectUpdate" /\ pc \in 1..Len(Jobs) /\ pc + 1 \in 1..(Len(Jobs) + 1)
        BY <1>2 DEF ExpectUpdate
    <2> QED BY <1>2, <2>1, <2>2, <2>3 DEF Next1
<1>7. Job.do = "expectUpdate" /\ (pc' = pc => Job' = Job)
    BY <1>1 DEF ExpectUpdate, Job
<1>8. RunTypes'
    BY <1>1, <1>5, <1>6 DEF Types, RunTypes
<1>9. AtItsJob'
    BY <1>1, <1>2, <1>6, <1>7 DEF AtItsJob, Connecting
<1> QED BY <1>8, <1>9 DEF Types

\* What a step makes of the sessions of a client, and of what they keep.
LEMMA UpdateTypes ==
    ASSUME Types, NEW u \in Users, NEW value \in Objects, Update(u, value)
    PROVE  Types'
<1>1. Jobs' = Jobs /\ UNCHANGED <<scenario, pc, phase, session, deferred, reports>> /\ pushes' = pushes + 1
    BY DEF Jobs, Update
<1>2. waiters[u] \in Seq(DOMAIN Jobs) /\ Len(waiters[u]) \in Nat
    BY DEF Types, RunTypes
<1> DEFINE i == FirstMatching(u, value)
<1>3. i # 0 => i \in 1..Len(waiters[u])
    BY <1>2, FirstMatchingFacts
<1>4. CASE i # 0
    <2>1. RemoveAt(waiters[u], i) \in Seq(DOMAIN Jobs)
        BY <1>2, <1>3, <1>4, RemoveAtFacts DEF Without
    <2>2. /\ got' = [got EXCEPT ![waiters[u][i]] = value] /\ unclaimed' = unclaimed
          /\ waiters' = [waiters EXCEPT ![u] = RemoveAt(@, i)]
        BY <1>4 DEF Update
    <2> HIDE DEF i
    <2>3. waiters' \in [Users -> Seq(DOMAIN Jobs)]
        BY <2>1, <2>2 DEF Types, RunTypes
    <2>4. got' \in [DOMAIN Jobs -> Objects \cup {TimedOut, None}]
        BY <2>2 DEF Types, RunTypes
    <2>5. RunTypes'
        BY <1>1, <2>2, <2>3, <2>4 DEF Types, RunTypes
    <2> QED BY <1>1, <2>5 DEF Types, AtItsJob, Connecting, Job
<1>5. CASE i = 0
    <2>1. /\ got' = got /\ waiters' = waiters
          /\ unclaimed' = [unclaimed EXCEPT ![u] = Append(@, value)]
        BY <1>5 DEF Update
    <2>2. Append(unclaimed[u], value) \in Seq(Objects)
        BY DEF Types, RunTypes
    <2> HIDE DEF i
    <2>3. RunTypes'
        BY <1>1, <2>1, <2>2 DEF Types, RunTypes
    <2> QED BY <1>1, <2>3 DEF Types, AtItsJob, Connecting, Job
<1> QED BY <1>4, <1>5

LEMMA TimesOutTypes ==
    ASSUME Types, WaitInv, NEW u \in Users, ExpectationTimesOut(u)
    PROVE  Types'
<1>1. Jobs' = Jobs /\ UNCHANGED <<scenario, pc, phase, session, unclaimed, deferred, reports, pushes>>
    BY DEF Jobs, ExpectationTimesOut
<1>2. PICK j \in Timed(u) : /\ got' = [got EXCEPT ![j] = TimedOut]
                            /\ waiters' = [waiters EXCEPT ![u] = RemoveFirst(@, j)]
    BY DEF ExpectationTimesOut
<1>3. RemoveFirst(waiters[u], j) \in Seq(DOMAIN Jobs)
    BY RemoveFirstFacts DEF Types, RunTypes, WaitInv
<1>4. RunTypes'
    BY <1>1, <1>2, <1>3 DEF Types, RunTypes
<1> QED BY <1>1, <1>4 DEF Types, AtItsJob, Connecting, Job

LEMMA TypesNext ==
    ASSUME Types, WaitInv, RunNext
    PROVE  Types'
<1>1. Len(Jobs) \in Nat /\ DOMAIN Jobs = 1..Len(Jobs) /\ pc \in Nat
    BY JobFacts DEF Types, RunTypes
<1>2. CASE BeginConnect
    <2>1. RunTypes' /\ Jobs' = Jobs
        BY <1>2, RunTypesStay DEF BeginConnect, clients, Types, RunTypes
    <2> QED BY <1>2, <2>1 DEF BeginConnect, NeedsSession, Running, Types, AtItsJob, Connecting, Job
<1>3. CASE Connected
    <2>1. pc' \in 1..(Len(Jobs) + 1)
        BY <1>1, <1>3 DEF Connected, Types, RunTypes, AtItsJob, Connecting
    <2>2. RunTypes' /\ Jobs' = Jobs
        BY <1>3, <2>1, RunTypesStay DEF Connected, Types, RunTypes
    <2> QED BY <1>3, <2>2 DEF Connected, Types, AtItsJob, Connecting
<1>4. CASE ConnectAborts
    <2>1. RunTypes' /\ Jobs' = Jobs
        BY <1>4, RunTypesStay, CloseAllTypes DEF ConnectAborts, CloseAll, Types, RunTypes
    <2> QED BY <1>4, <2>1 DEF ConnectAborts, Types, AtItsJob, Connecting
<1>5. CASE ConnectSkips \/ LoginLost
    <2>1. pc' \in 1..(Len(Jobs) + 1)
        BY <1>1, <1>5, NextUserFacts DEF ConnectSkips, LoginLost, Types, RunTypes, AtItsJob, Connecting
    <2>2. RunTypes' /\ Jobs' = Jobs
        BY <1>5, <2>1, RunTypesStay DEF ConnectSkips, LoginLost, clients, Types, RunTypes
    <2> QED BY <1>5, <2>2 DEF ConnectSkips, LoginLost, Types, AtItsJob, Connecting
<1>6. CASE NoSession \/ RecipeNotFound
    BY <1>6, Reported, NextJobTypes DEF NoSession, RecipeNotFound, Ready, Running, Types, RunTypes, clients
<1>7. CASE ExpectUpdate
    BY <1>7, ExpectTypes
<1>8. CASE Expected1
    BY <1>8, Reported, NextJobTypes DEF Expected1, Settle, Types, RunTypes, AtItsJob, Connecting, clients
<1>9. CASE SettleDeferred
    <2>1. \E S : reports' \in Seq(S)
        BY <1>9, Reported DEF SettleDeferred, Settle, Types
    <2>2. Jobs' = Jobs /\ deferred' \in Seq(DOMAIN Jobs)
        BY <1>9 DEF SettleDeferred, Jobs, Types, RunTypes
    <2> QED BY <1>9, <2>1, <2>2 DEF SettleDeferred, Types, RunTypes, AtItsJob, Connecting, clients
<1>10. CASE Call
    <2>1. RunTypes' /\ Jobs' = Jobs
        BY <1>10, RunTypesStay DEF Call, clients, Types, RunTypes
    <2> QED BY <1>10, <2>1 DEF Call, Ready, Running, Types, AtItsJob, Connecting, Job
<1>11. ASSUME NEW answer, Answered(answer) \/ RecipeDone(answer) PROVE Types'
    BY <1>11, Reported, NextJobTypes DEF Answered, RecipeDone, Types, RunTypes, AtItsJob, Connecting, clients
<1>12. CASE RecipeThrows
    BY <1>12, Reported, NextJobTypes DEF RecipeThrows, Types, RunTypes, AtItsJob, Connecting, clients
<1>13. CASE Finish
    <2>1. RunTypes' /\ Jobs' = Jobs
        BY <1>13, RunTypesStay, CloseAllTypes DEF Finish, CloseAll, Types, RunTypes
    <2> QED BY <1>13, <2>1 DEF Finish, Types, AtItsJob, Connecting
<1>14. CASE Dial
    <2>1. RunTypes' /\ Jobs' = Jobs
        BY <1>14, RunTypesStay DEF Dial, clients, Types, RunTypes
    <2> QED BY <1>14, <2>1 DEF Dial, Types, AtItsJob, Connecting, Job
<1>15. CASE HandshakeFails
    <2>1. RunTypes' /\ Jobs' = Jobs
        BY <1>15, RunTypesStay DEF HandshakeFails, Types, RunTypes
    <2> QED BY <1>15, <2>1 DEF HandshakeFails, Types, AtItsJob, Connecting, Job
<1>16. CASE NothingToDo
    <2>1. \E S : reports' \in Seq(S)
        BY <1>16, Reported DEF NothingToDo, Types, RunTypes
    <2> QED BY <1>16, <2>1, NextJobTypes DEF NothingToDo, Ready, Running, Types, RunTypes, clients
<1> QED BY <1>2, <1>3, <1>4, <1>5, <1>6, <1>7, <1>8, <1>9, <1>10, <1>11, <1>12, <1>13, <1>14, <1>15, <1>16,
           UpdateTypes, TimesOutTypes DEF RunNext, Run

-----------------------------------------------------------------------------
\* An expectation that waits is at the job in process or behind it.
LEMMA WaitingAreBehind ==
    ASSUME Types, WaitInv, ReportInv, NEW u \in Users, NEW j \in ToSet(waiters[u])
    PROVE  /\ j \in DOMAIN Jobs /\ Waits(u, j) /\ j <= pc
           /\ j = pc => phase = "expecting" /\ j \notin ToSet(deferred)
           /\ \A i \in 1..Len(reports) : reports[i].job # j
<1>1. j \in DOMAIN Jobs /\ pc \in Nat /\ DOMAIN Jobs = 1..Len(Jobs) /\ Len(Jobs) \in Nat
    BY JobFacts DEF Types, RunTypes, ToSet
<1>2. Waits(u, j)
    BY DEF WaitInv
<1>3. \A d \in ToSet(deferred) : d < pc
    BY DEF ReportInv
<1>4. \A i \in 1..Len(reports) : reports[i].job \in 1..(pc - 1) /\ reports[i].job \notin ToSet(deferred)
    BY DEF ReportInv
<1> QED BY <1>1, <1>2, <1>3, <1>4 DEF Waits

\* A step of which no expectation knows.
LEMMA QuietWaits ==
    ASSUME Types, WaitInv, ReportInv, pc' \in Nat, pc' >= pc, phase # "expecting", phase' # "expecting",
           UNCHANGED <<scenario, got, deferred>>,
           \/ waiters' = waiters
           \/ waiters' = [u \in Users |-> <<>>]
    PROVE  WaitInv'
<1>1. Jobs' = Jobs /\ pc \in Nat /\ DOMAIN Jobs \subseteq Nat
    BY JobFacts DEF Jobs, Types, RunTypes
<1>2. ASSUME NEW u \in Users PROVE NoneTwice(waiters'[u]) /\ \A j \in ToSet(waiters'[u]) : Waits(u, j)'
    <2>1. CASE waiters' = waiters
        <3>1. NoneTwice(waiters[u]) /\ \A j \in ToSet(waiters[u]) : Waits(u, j)
            BY DEF WaitInv
        <3> QED BY <1>1, <2>1, <3>1 DEF Waits
    <2>2. CASE waiters' = [v \in Users |-> <<>>]
        <3>1. waiters'[u] = <<>>
            BY <2>2
        <3> QED BY <3>1 DEF NoneTwice, ToSet
    <2> QED BY <2>1, <2>2
<1>3. ASSUME NEW j \in DOMAIN Jobs, j >= pc' PROVE got'[j] = None
    <2>1. j > pc \/ (j = pc /\ phase # "expecting")
        BY <1>1, <1>3
    <2> QED BY <2>1 DEF WaitInv
<1>4. \A j \in DOMAIN Jobs' : (j > pc' \/ (j = pc' /\ phase' # "expecting")) => got'[j] = None
    BY <1>1, <1>3
<1> QED BY <1>2, <1>4 DEF WaitInv

\* An expectation gets an update, or times out.
LEMMA GetsWaits ==
    ASSUME Types, WaitInv, ReportInv, NEW u \in Users, NEW j \in ToSet(waiters[u]), NEW w, NEW r,
           got' = [got EXCEPT ![j] = w], waiters' = [waiters EXCEPT ![u] = r],
           NoneTwice(r), ToSet(r) = ToSet(waiters[u]) \ {j},
           UNCHANGED <<scenario, pc, phase, deferred>>
    PROVE  WaitInv'
<1>1. Jobs' = Jobs /\ pc \in Nat /\ DOMAIN Jobs \subseteq Nat /\ DOMAIN got = DOMAIN Jobs /\ DOMAIN waiters = Users
    <2>1. Len(Jobs) \in Nat /\ DOMAIN Jobs = 1..Len(Jobs)
        BY JobFacts DEF Types, RunTypes
    <2>2. Jobs' = Jobs
        BY DEF Jobs
    <2> QED BY <2>1, <2>2 DEF Types, RunTypes
<1>2. Waits(u, j) /\ j <= pc /\ (j = pc => phase = "expecting") /\ j \in DOMAIN Jobs
    BY WaitingAreBehind
<1>3. ASSUME NEW v \in Users PROVE NoneTwice(waiters'[v]) /\ \A k \in ToSet(waiters'[v]) : Waits(v, k)'
    <2>1. NoneTwice(waiters[v]) /\ \A k \in ToSet(waiters[v]) : Waits(v, k) /\ k \in DOMAIN Jobs
        BY WaitingAreBehind DEF WaitInv
    <2>2. NoneTwice(waiters'[v]) /\ ToSet(waiters'[v]) = ToSet(waiters[v]) \ (IF v = u THEN {j} ELSE {})
        BY <1>1, <2>1
    <2>3. ASSUME NEW k \in ToSet(waiters'[v]) PROVE Waits(v, k) /\ k # j /\ k \in DOMAIN Jobs
        BY <1>2, <2>1, <2>2, <2>3 DEF Waits
    <2>4. ASSUME NEW k \in ToSet(waiters'[v]) PROVE Waits(v, k)'
        BY <1>1, <2>3, <2>4 DEF Waits
    <2> QED BY <2>2, <2>4
<1>4. ASSUME NEW k \in DOMAIN Jobs, k > pc \/ (k = pc /\ phase # "expecting") PROVE got'[k] = None
    <2>1. k # j /\ got[k] = None
        BY <1>1, <1>2, <1>4 DEF WaitInv
    <2> QED BY <1>1, <2>1
<1> QED BY <1>1, <1>3, <1>4 DEF WaitInv

LEMMA ExpectWaits ==
    ASSUME Types, WaitInv, ReportInv, ExpectUpdate
    PROVE  WaitInv'
<1>1. /\ Jobs' = Jobs /\ scenario' = scenario /\ DOMAIN Jobs = 1..Len(Jobs) /\ Len(Jobs) \in Nat
      /\ DOMAIN got = DOMAIN Jobs /\ DOMAIN waiters = Users
    BY JobFacts DEF Jobs, ExpectUpdate, Types, RunTypes
<1>2. /\ pc \in DOMAIN Jobs /\ Job.user \in Users /\ phase = "ready" /\ Job.do = "expectUpdate"
      /\ Job = Jobs[pc]
    BY <1>1, JobFacts DEF Types, RunTypes, ExpectUpdate, Ready, Running, Job
<1>3. \/ pc' = pc /\ phase' = "expecting" /\ deferred' = deferred
      \/ pc' = pc + 1 /\ phase' = "ready" /\ deferred' = Append(deferred, pc)
    BY DEF ExpectUpdate, Next1
<1>4. ToSet(deferred) \subseteq ToSet(deferred') /\ (pc \in ToSet(deferred') \/ (pc' = pc /\ phase' = "expecting"))
    <2>1. deferred \in Seq(DOMAIN Jobs)
        BY DEF Types, RunTypes
    <2>2. ToSet(Append(deferred, pc)) = ToSet(deferred) \cup {pc}
        BY <2>1, ToSetMore
    <2> QED BY <1>3, <2>2
<1>5. got[pc] = None /\ \A j \in DOMAIN Jobs : j > pc => got[j] = None
    BY <1>2 DEF WaitInv
<1>6. \A u \in Users : \A j \in ToSet(waiters[u]) : Waits(u, j) /\ j \in ToSet(deferred) /\ j < pc /\ j \in DOMAIN Jobs
    <2> SUFFICES ASSUME NEW u \in Users, NEW j \in ToSet(waiters[u])
                 PROVE  Waits(u, j) /\ j \in ToSet(deferred) /\ j < pc /\ j \in DOMAIN Jobs
        OBVIOUS
    <2>1. Waits(u, j) /\ j \in DOMAIN Jobs
        BY WaitingAreBehind
    <2>2. j \in ToSet(deferred)
        BY <1>2, <2>1 DEF Waits
    <2> QED BY <2>1, <2>2 DEF ReportInv
<1> DEFINE v == Job.user
<1>7. /\ \A j \in DOMAIN Jobs : j # pc => got'[j] = got[j]
      /\ \A u \in Users \ {v} : waiters'[u] = waiters[u]
      /\ \/ waiters'[v] = waiters[v]
         \/ waiters'[v] = Append(waiters[v], pc) /\ got' = got
    <2>1. CASE FirstClaimable(pc) # 0
        BY <2>1, <1>1, <1>2 DEF ExpectUpdate
    <2>2. CASE FirstClaimable(pc) = 0
        BY <2>2, <1>1, <1>2 DEF ExpectUpdate
    <2> QED BY <2>1, <2>2
<1>8. ASSUME NEW u \in Users, NEW j, j \in ToSet(waiters[u]) PROVE Waits(u, j)'
    <2>1. got'[j] = got[j] /\ j \in ToSet(deferred')
        BY <1>1, <1>4, <1>6, <1>7, <1>8
    <2> QED BY <1>1, <1>6, <1>8, <2>1 DEF Waits
<1>9. ASSUME NEW u \in Users PROVE NoneTwice(waiters'[u]) /\ \A j \in ToSet(waiters'[u]) : Waits(u, j)'
    <2>1. NoneTwice(waiters[u]) /\ waiters[u] \in Seq(DOMAIN Jobs)
        BY DEF WaitInv, Types, RunTypes
    <2>2. CASE waiters'[u] = waiters[u]
        BY <1>8, <2>1, <2>2
    <2>3. CASE u = v /\ waiters'[v] = Append(waiters[v], pc) /\ got' = got
        <3>1. ToSet(waiters'[u]) = ToSet(waiters[u]) \cup {pc}
            BY <2>1, <2>3, ToSetMore
        <3>2. ASSUME NEW j, j = pc PROVE Waits(u, j)'
            BY <1>1, <1>2, <1>4, <1>5, <2>3, <3>2 DEF Waits
        <3>3. \A i \in 1..Len(waiters[u]) : waiters[u][i] # pc
            <4>1. \A i \in 1..Len(waiters[u]) : waiters[u][i] \in ToSet(waiters[u])
                BY <2>1 DEF ToSet
            <4> QED BY <1>2, <1>6, <4>1, <1>1
        <3>4. NoneTwice(waiters'[u])
            <4>1. /\ Len(waiters[u]) \in Nat /\ Len(waiters'[u]) = Len(waiters[u]) + 1
                  /\ \A i \in 1..Len(waiters'[u]) :
                        waiters'[u][i] = IF i <= Len(waiters[u]) THEN waiters[u][i] ELSE pc
                BY <1>2, <2>1, <2>3
            <4> QED BY <2>1, <3>3, <4>1 DEF NoneTwice
        <3> QED BY <1>8, <3>1, <3>2, <3>4
    <2> QED BY <1>7, <2>2, <2>3
<1>10. \A j \in DOMAIN Jobs : (j > pc' \/ (j = pc' /\ phase' # "expecting")) => got'[j] = None
    BY <1>1, <1>2, <1>3, <1>5, <1>7
<1> QED BY <1>1, <1>9, <1>10 DEF WaitInv

LEMMA SettleWaits ==
    ASSUME Types, WaitInv, ReportInv, Expected1 \/ SettleDeferred
    PROVE  WaitInv'
<1>1. Jobs' = Jobs /\ UNCHANGED <<scenario, got, waiters>> /\ pc \in Nat /\ DOMAIN Jobs \subseteq Nat
    BY JobFacts DEF Jobs, Types, RunTypes, Expected1, SettleDeferred, clients
<1>2. phase' = "ready" /\ pc' \in Nat /\ pc' >= pc /\ (phase = "expecting" => pc' = pc + 1)
    BY <1>1 DEF Expected1, SettleDeferred, Next1
<1>3. ASSUME NEW u \in Users, NEW j \in ToSet(waiters[u]) PROVE Waits(u, j)'
    <2>1. Waits(u, j)
        BY DEF WaitInv
    <2>2. j \in ToSet(deferred')
        <3>1. CASE Expected1
            BY <2>1, <3>1 DEF Waits, Expected1, Settle
        <3>2. CASE SettleDeferred
            <4>1. j \in ToSet(deferred) /\ j # Head(deferred)
                BY <2>1, <3>2 DEF Waits, SettleDeferred, Settle
            <4>2. ToSet(deferred) = ToSet(Tail(deferred)) \cup {Head(deferred)}
                BY <3>2, ToSetMore DEF SettleDeferred, Types, RunTypes
            <4> QED BY <3>2, <4>1, <4>2 DEF SettleDeferred
        <3> QED BY <3>1, <3>2
    <2> QED BY <1>1, <2>1, <2>2 DEF Waits
<1>4. ASSUME NEW j \in DOMAIN Jobs, j >= pc' PROVE got[j] = None
    <2>1. j > pc \/ (j = pc /\ phase # "expecting")
        BY <1>1, <1>2, <1>4
    <2> QED BY <2>1 DEF WaitInv
<1>5. \A u \in Users : NoneTwice(waiters'[u])
    BY <1>1 DEF WaitInv
<1> QED BY <1>1, <1>2, <1>3, <1>4, <1>5 DEF WaitInv

LEMMA WaitsNext ==
    ASSUME Types, WaitInv, ReportInv, RunNext
    PROVE  WaitInv'
<1>1. pc \in Nat /\ Len(Jobs) \in Nat /\ DOMAIN Jobs = 1..Len(Jobs)
    BY JobFacts DEF Types, RunTypes
<1> DEFINE Quiet ==
              /\ pc' \in Nat /\ pc' >= pc /\ phase # "expecting" /\ phase' # "expecting"
              /\ UNCHANGED <<scenario, got, deferred>>
              /\ waiters' = waiters \/ waiters' = [u \in Users |-> <<>>]
<1>0. Quiet => WaitInv'
    BY QuietWaits
<1>2. CASE BeginConnect \/ Dial \/ HandshakeFails \/ Connected \/ ConnectAborts \/ NoSession \/ NothingToDo
           \/ Call \/ RecipeNotFound \/ RecipeThrows \/ Finish
    <2>1. CASE BeginConnect \/ Dial \/ Call
        BY <1>0, <1>1, <2>1 DEF BeginConnect, Dial, NeedsSession, Call, Ready, Running, clients
    <2>2. CASE HandshakeFails \/ Connected
        BY <1>0, <1>1, <2>2 DEF HandshakeFails, Connected
    <2>3. CASE ConnectAborts \/ Finish
        BY <1>0, <1>1, <2>3 DEF ConnectAborts, Finish, CloseAll
    <2>4. CASE NoSession \/ RecipeNotFound \/ NothingToDo
        <3>1. Quiet
            <4>1. CASE NoSession
                BY <1>1, <4>1 DEF NoSession, Running, clients, Next1
            <4>2. CASE RecipeNotFound
                BY <1>1, <4>2 DEF RecipeNotFound, Ready, Running, clients, Next1
            <4>3. CASE NothingToDo
                BY <1>1, <4>3 DEF NothingToDo, Ready, Running, clients, Next1
            <4> QED BY <2>4, <4>1, <4>2, <4>3
        <3> HIDE DEF Quiet
        <3> QED BY <1>0, <3>1
    <2>5. CASE RecipeThrows
        BY <1>0, <1>1, <2>5 DEF RecipeThrows, clients, Next1
    <2> QED BY <1>2, <2>1, <2>2, <2>3, <2>4, <2>5
<1>3. CASE ConnectSkips \/ LoginLost
    <2>1. NextUser \in (pc + 1)..(Len(Jobs) + 1)
        BY <1>3, NextUserFacts DEF ConnectSkips, LoginLost, Types, RunTypes, AtItsJob, Connecting
    <2>2. pc' \in Nat /\ pc' >= pc
        BY <1>1, <1>3, <2>1 DEF ConnectSkips, LoginLost
    <2> QED BY <1>3, <2>2, QuietWaits DEF ConnectSkips, LoginLost, clients
<1>4. ASSUME NEW answer, Answered(answer) \/ RecipeDone(answer) PROVE WaitInv'
    <2>1. Quiet
        <3>1. CASE Answered(answer)
            BY <1>1, <3>1 DEF Answered, clients, Next1
        <3>2. CASE RecipeDone(answer)
            BY <1>1, <3>2 DEF RecipeDone, clients, Next1
        <3> QED BY <1>4, <3>1, <3>2
    <2> HIDE DEF Quiet
    <2> QED BY <1>0, <2>1
<1>5. ASSUME NEW u \in Users, NEW value \in Objects, Update(u, value) PROVE WaitInv'
    <2> DEFINE i == FirstMatching(u, value)
    <2>1. waiters[u] \in Seq(DOMAIN Jobs) /\ Len(waiters[u]) \in Nat /\ NoneTwice(waiters[u])
        BY DEF Types, RunTypes, WaitInv
    <2>2. i # 0 => i \in 1..Len(waiters[u])
        BY <2>1, FirstMatchingFacts
    <2>3. CASE i # 0
        <3> DEFINE r == RemoveAt(waiters[u], i)
                   j == waiters[u][i]
        <3>1. NoneTwice(r) /\ ToSet(r) = ToSet(waiters[u]) \ {j} /\ j \in ToSet(waiters[u])
            <4> HIDE DEF i
            <4>1. i \in 1..Len(waiters[u]) /\ DOMAIN waiters[u] = 1..Len(waiters[u])
                BY <2>1, <2>2, <2>3
            <4>2. j \in ToSet(waiters[u])
                BY <4>1 DEF ToSet
            <4> QED BY <2>1, <4>1, <4>2, RemoveAtOnce
        <3>2. /\ got' = [got EXCEPT ![j] = value] /\ waiters' = [waiters EXCEPT ![u] = r]
              /\ UNCHANGED <<scenario, pc, phase, deferred>>
            BY <1>5, <2>3 DEF Update
        <3> HIDE DEF r, j, i
        <3> QED BY <3>1, <3>2, GetsWaits
    <2>4. CASE i = 0
        <3>1. UNCHANGED <<scenario, pc, phase, deferred, got, waiters>>
            BY <1>5, <2>4 DEF Update
        <3> QED BY <3>1 DEF WaitInv, Waits, Jobs
    <2> QED BY <2>3, <2>4
<1>6. ASSUME NEW u \in Users, ExpectationTimesOut(u) PROVE WaitInv'
    <2>1. PICK j \in Timed(u) : /\ got' = [got EXCEPT ![j] = TimedOut]
                                /\ waiters' = [waiters EXCEPT ![u] = RemoveFirst(@, j)]
        BY <1>6 DEF ExpectationTimesOut
    <2>2. waiters[u] \in Seq(DOMAIN Jobs) /\ NoneTwice(waiters[u]) /\ j \in ToSet(waiters[u])
        BY DEF Types, RunTypes, WaitInv, Timed
    <2>3. NoneTwice(RemoveFirst(waiters[u], j)) /\ ToSet(RemoveFirst(waiters[u], j)) = ToSet(waiters[u]) \ {j}
        BY <2>2, RemoveFirstFacts
    <2>4. UNCHANGED <<scenario, pc, phase, deferred>>
        BY <1>6 DEF ExpectationTimesOut
    <2> QED BY <2>1, <2>2, <2>3, <2>4, GetsWaits
<1> QED BY <1>2, <1>3, <1>4, <1>5, <1>6, ExpectWaits, SettleWaits DEF RunNext, Run

-----------------------------------------------------------------------------
LEMMA RangeSplits ==
    ASSUME NEW a \in Int, NEW b \in Int
    PROVE  /\ \A j \in a..b : j = a \/ j \in (a + 1)..b
           /\ \A j \in 1..b : j \in 1..(a - 1) \/ j \in a..b
OBVIOUS

LEMMA OwedStays ==
    ASSUME UNCHANGED scenario
    PROVE  \A j : Owed(j)' <=> Owed(j)
BY DEF Owed, MayPass, Jobs, JobsOf

\* Who was reported, and what lateness was seen of it, stays.
LEMMA QuietReports ==
    ASSUME Types, ReportInv, UNCHANGED <<scenario, pc, deferred, reports>>,
           \A i \in 1..Len(reports) : got'[reports[i].job] = got[reports[i].job]
    PROVE  ReportInv'
<1>1. Jobs' = Jobs
    BY DEF Jobs
<1>2. \A i \in 1..Len(reports) : Late(reports[i].job)' = Late(reports[i].job)
    BY <1>1 DEF Late
<1>3. \A i, k \in 1..Len(reports) : InOrder(i, k)' = InOrder(i, k)
    BY <1>2 DEF InOrder
<1> QED BY <1>1, <1>2, <1>3, OwedStays DEF ReportInv

\* Jobs of which the report need not tell are passed over.
LEMMA JumpReports ==
    ASSUME Types, ReportInv, UNCHANGED <<scenario, got, deferred, reports>>, pc \in DOMAIN Jobs,
           pc' \in (pc + 1)..(Len(Jobs) + 1), \A j \in pc..(pc' - 1) : ~Owed(j)
    PROVE  ReportInv'
<1>1. Jobs' = Jobs /\ Len(Jobs) \in Nat /\ pc \in 1..Len(Jobs)
    BY JobFacts DEF Jobs, Types, RunTypes
<1>2. \A i \in 1..Len(reports) : ~Late(reports[i].job) /\ (Late(reports[i].job)' <=> Late(reports[i].job))
    BY <1>1 DEF ReportInv, Late
<1>3. \A i, k \in 1..Len(reports) : InOrder(i, k)' = InOrder(i, k)
    BY <1>2 DEF InOrder
<1>4. \A i \in 1..Len(reports) : reports[i].job \in 1..(pc - 1) /\ reports[i].job \notin ToSet(deferred)
    BY DEF ReportInv
<1>5. \A d \in ToSet(deferred) : d \in Nat /\ d < pc /\ Deferrable(Jobs[d])
    <2>1. deferred \in Seq(DOMAIN Jobs) /\ DOMAIN Jobs = 1..Len(Jobs)
        BY JobFacts DEF Types, RunTypes
    <2> QED BY <1>1, <2>1 DEF ReportInv, ToSet
<1>6. ASSUME NEW j \in 1..(pc' - 1), Owed(j)
      PROVE  j \in ToSet(deferred) \/ \E i \in 1..Len(reports) : reports[i].job = j
    <2>1. j \in 1..(pc - 1) \/ j \in pc..(pc' - 1)
        <3>1. pc \in Int /\ pc' - 1 \in Int
            BY <1>1
        <3> QED BY <3>1, RangeSplits
    <2>2. j \notin pc..(pc' - 1)
        BY <1>6, Zenon
    <2> QED BY <1>6, <2>1, <2>2 DEF ReportInv
<1>7. \A i, k \in 1..Len(reports) : i < k => InOrder(i, k)
    BY DEF ReportInv
<1>8. \A i, k \in 1..Len(deferred) : i < k => deferred[i] < deferred[k]
    BY DEF ReportInv
<1>9. \A i \in 1..Len(reports) : reports[i].job \in 1..(pc' - 1)
    BY <1>1, <1>4
<1>10. \A d \in ToSet(deferred) : d < pc'
    BY <1>1, <1>5
<1> HIDE DEF Late, InOrder, IsStep, Deferrable
<1> QED BY <1>1, <1>2, <1>3, <1>4, <1>5, <1>6, <1>7, <1>8, <1>9, <1>10, OwedStays DEF ReportInv

\* The step in process is reported.
LEMMA ReportsStep ==
    ASSUME Types, ReportInv, UNCHANGED <<scenario, got, deferred>>, pc \in DOMAIN Jobs, ~Late(pc),
           NEW ok, Report(pc, ok), Next1
    PROVE  ReportInv'
<1> DEFINE n == Len(reports)
<1>1. Jobs' = Jobs /\ Len(Jobs) \in Nat /\ pc \in 1..Len(Jobs) /\ pc' = pc + 1
    BY JobFacts DEF Jobs, Types, RunTypes, Next1
<1>2. /\ n \in Nat /\ Len(reports') = n + 1
      /\ \A i \in 1..n : reports'[i] = reports[i]
      /\ reports'[n + 1].job = pc
    BY Reported DEF Types
<1>3. \A j : Late(j)' <=> Late(j)
    BY <1>1 DEF Late
<1>4. \A i \in 1..n : reports[i].job \in 1..(pc - 1) /\ reports[i].job \notin ToSet(deferred) /\ ~Late(reports[i].job)
    BY <1>1 DEF ReportInv
<1>5. \A d \in ToSet(deferred) : d \in Nat /\ d < pc /\ Deferrable(Jobs[d])
    <2>1. deferred \in Seq(DOMAIN Jobs) /\ DOMAIN Jobs = 1..Len(Jobs)
        BY JobFacts DEF Types, RunTypes
    <2> QED BY <1>1, <2>1 DEF ReportInv, ToSet
<1> HIDE DEF n
<1>6. ASSUME NEW i \in 1..(n + 1)
      PROVE  /\ reports'[i].job \in 1..(pc' - 1) /\ reports'[i].job \notin ToSet(deferred)
             /\ ~Late(reports'[i].job)
    <2>1. CASE i \in 1..n
        BY <1>1, <1>2, <1>4, <2>1
    <2>2. CASE i = n + 1
        BY <1>1, <1>2, <1>5, <2>2
    <2> QED BY <1>2, <2>1, <2>2
<1>7. ASSUME NEW i \in 1..(n + 1), NEW k \in 1..(n + 1), i < k
      PROVE  reports'[i].job # reports'[k].job /\ reports'[i].job < reports'[k].job
    <2>1. i \in 1..n
        BY <1>2, <1>7
    <2>2. CASE k \in 1..n
        <3>1. InOrder(i, k)
            BY <1>7, <2>1, <2>2 DEF ReportInv, n
        <3> QED BY <1>2, <1>4, <2>1, <2>2, <3>1, <1>1 DEF InOrder
    <2>3. CASE k = n + 1
        BY <1>1, <1>2, <1>4, <2>1, <2>3
    <2> QED BY <1>2, <2>2, <2>3
<1>8. \A i, k \in 1..(n + 1) : i < k => InOrder(i, k)'
    BY <1>3, <1>6, <1>7 DEF InOrder
<1>9. ASSUME NEW j \in 1..(pc' - 1), Owed(j)
      PROVE  j \in ToSet(deferred) \/ \E i \in 1..(n + 1) : reports'[i].job = j
    <2>1. CASE j = pc
        BY <1>2, <2>1
    <2>2. CASE j # pc
        <3>1. j \in 1..(pc - 1)
            BY <1>1, <2>2
        <3>2. j \in ToSet(deferred) \/ \E i \in 1..n : reports[i].job = j
            BY <1>9, <3>1 DEF ReportInv, n
        <3>3. \A i \in 1..n : i \in 1..(n + 1)
            BY <1>2
        <3> QED BY <1>2, <3>2, <3>3
    <2> QED BY <2>1, <2>2
<1>10. \A i, k \in 1..Len(deferred) : i < k => deferred[i] < deferred[k]
    BY DEF ReportInv
<1>11. \A d \in ToSet(deferred) : d < pc'
    BY <1>1, <1>5
<1> QED BY <1>1, <1>2, <1>3, <1>5, <1>6, <1>8, <1>9, <1>10, <1>11, OwedStays DEF ReportInv

\* An expectation that does not block is armed.
LEMMA ArmReports ==
    ASSUME Types, ReportInv, UNCHANGED <<scenario, reports>>, pc \in DOMAIN Jobs, Deferrable(Job),
           \A j \in DOMAIN Jobs : j # pc => got'[j] = got[j], Next1, deferred' = Append(deferred, pc)
    PROVE  ReportInv'
<1> DEFINE n == Len(deferred)
<1>1. Jobs' = Jobs /\ Len(Jobs) \in Nat /\ pc \in 1..Len(Jobs) /\ pc' = pc + 1 /\ DOMAIN Jobs = 1..Len(Jobs)
    BY JobFacts DEF Jobs, Types, RunTypes, Next1
<1>2. /\ n \in Nat /\ Len(deferred') = n + 1 /\ deferred \in Seq(DOMAIN Jobs)
      /\ \A i \in 1..(n + 1) : deferred'[i] = IF i <= n THEN deferred[i] ELSE pc
    BY DEF Types, RunTypes
<1>3. ToSet(deferred') = ToSet(deferred) \cup {pc}
    BY <1>2, ToSetMore
<1>4. \A i \in 1..Len(reports) :
          reports[i].job \in 1..(pc - 1) /\ reports[i].job \notin ToSet(deferred) /\ ~Late(reports[i].job)
    BY <1>1 DEF ReportInv
<1>5. \A i \in 1..Len(reports) : Late(reports[i].job)' <=> Late(reports[i].job)
    <2> SUFFICES ASSUME NEW i \in 1..Len(reports) PROVE Late(reports[i].job)' <=> Late(reports[i].job)
        OBVIOUS
    <2> DEFINE j == reports[i].job
    <2>1. j \in DOMAIN Jobs /\ j # pc /\ reports' = reports
        BY <1>1, <1>4
    <2>2. got'[j] = got[j]
        BY <2>1
    <2> QED BY <1>1, <2>1, <2>2 DEF Late
<1>6. \A i, k \in 1..Len(reports) : i < k => InOrder(i, k)'
    <2> SUFFICES ASSUME NEW i \in 1..Len(reports), NEW k \in 1..Len(reports), i < k PROVE InOrder(i, k)'
        OBVIOUS
    <2>1. InOrder(i, k)
        BY DEF ReportInv
    <2> QED BY <1>4, <1>5, <2>1 DEF InOrder
<1>7. \A d \in ToSet(deferred) : d \in Nat /\ d < pc /\ Deferrable(Jobs[d])
    <2>1. \A d \in ToSet(deferred) : d < pc /\ Deferrable(Jobs[d])
        BY DEF ReportInv
    <2>2. \A d \in ToSet(deferred) : d \in Nat
        BY <1>1, <1>2 DEF ToSet
    <2> QED BY <2>1, <2>2
<1>8. \A i \in 1..n : deferred[i] \in ToSet(deferred)
    BY <1>2 DEF ToSet
<1> HIDE DEF n
<1>9. \A i, k \in 1..(n + 1) : i < k => deferred'[i] < deferred'[k]
    <2> SUFFICES ASSUME NEW i \in 1..(n + 1), NEW k \in 1..(n + 1), i < k PROVE deferred'[i] < deferred'[k]
        OBVIOUS
    <2>1. i \in 1..n /\ deferred'[i] = deferred[i]
        BY <1>2
    <2>2. CASE k \in 1..n
        BY <1>2, <2>1, <2>2 DEF ReportInv, n
    <2>3. CASE k = n + 1
        BY <1>2, <1>7, <1>8, <2>1, <2>3
    <2> QED BY <1>2, <2>2, <2>3
<1>10. \A d \in ToSet(deferred') : d < pc' /\ Deferrable(Jobs[d])
    BY <1>1, <1>3, <1>7 DEF Job
<1>11. ASSUME NEW j \in 1..(pc' - 1), Owed(j)
       PROVE  j \in ToSet(deferred') \/ \E i \in 1..Len(reports) : reports[i].job = j
    <2>1. CASE j = pc
        BY <1>3, <2>1
    <2>2. CASE j # pc
        <3>1. j \in 1..(pc - 1)
            BY <1>1, <2>2
        <3> QED BY <1>3, <1>11, <3>1 DEF ReportInv
    <2> QED BY <2>1, <2>2
<1>12. \A i \in 1..Len(reports) : reports[i].job \in 1..(pc' - 1) /\ reports[i].job \notin ToSet(deferred')
    BY <1>1, <1>3, <1>4
<1> QED BY <1>1, <1>2, <1>4, <1>5, <1>6, <1>9, <1>10, <1>11, <1>12, OwedStays DEF ReportInv

\* After the last step the first of the armed ones is reported.
LEMMA SettleReports ==
    ASSUME Types, ReportInv, SettleDeferred
    PROVE  ReportInv'
<1> DEFINE n == Len(reports)
           h == Head(deferred)
           rest == Tail(deferred)
<1>1. /\ Jobs' = Jobs /\ Len(Jobs) \in Nat /\ pc = Len(Jobs) + 1 /\ pc' = pc /\ got' = got /\ deferred' = rest
      /\ DOMAIN Jobs = 1..Len(Jobs)
    BY JobFacts DEF Jobs, Types, RunTypes, SettleDeferred, clients
<1>2. /\ n \in Nat /\ Len(reports') = n + 1
      /\ \A i \in 1..n : reports'[i] = reports[i]
      /\ reports'[n + 1].job = h
    BY Reported DEF Types, SettleDeferred, Settle
<1>3. deferred \in Seq(DOMAIN Jobs) /\ deferred # <<>> /\ got[h] # None
    BY DEF Types, RunTypes, SettleDeferred, Settle
<1>4. ToSet(deferred) = ToSet(rest) \cup {h}
    BY <1>3, ToSetMore
<1>5. /\ Len(deferred) \in Nat /\ Len(deferred) >= 1 /\ h = deferred[1] /\ Len(rest) = Len(deferred) - 1
      /\ \A i \in 1..Len(rest) : rest[i] = deferred[i + 1]
      /\ DOMAIN rest = 1..Len(rest) /\ DOMAIN deferred = 1..Len(deferred)
    BY <1>3
<1>6. \A i, k \in 1..Len(deferred) : i < k => deferred[i] < deferred[k]
    BY DEF ReportInv
<1>7. \A d \in ToSet(deferred) : d \in Nat /\ d < pc /\ Deferrable(Jobs[d])
    BY <1>1, <1>3 DEF ReportInv, ToSet
<1>8. h \in ToSet(deferred) /\ Late(h)
    BY <1>3, <1>4, <1>7 DEF Late
<1> HIDE DEF n, h, rest
<1>9. \A d \in ToSet(rest) : h < d
    <2> SUFFICES ASSUME NEW i \in 1..Len(rest) PROVE h < rest[i]
        BY <1>5 DEF ToSet
    <2>1. 1 \in 1..Len(deferred) /\ i + 1 \in 1..Len(deferred) /\ 1 < i + 1
        BY <1>5
    <2> QED BY <1>5, <1>6, <2>1
<1>10. \A i, k \in 1..Len(rest) : i < k => rest[i] < rest[k]
    <2> SUFFICES ASSUME NEW i \in 1..Len(rest), NEW k \in 1..Len(rest), i < k PROVE rest[i] < rest[k]
        OBVIOUS
    <2>1. i + 1 \in 1..Len(deferred) /\ k + 1 \in 1..Len(deferred) /\ i + 1 < k + 1
        BY <1>5
    <2> QED BY <1>5, <1>6, <2>1
<1>11. \A j : Late(j)' <=> Late(j)
    BY <1>1 DEF Late
<1>12. \A i \in 1..n : /\ reports[i].job \in 1..(pc - 1) /\ reports[i].job \notin ToSet(deferred)
                       /\ Late(reports[i].job) => \A d \in ToSet(deferred) : reports[i].job < d
    BY DEF ReportInv, n
<1>13. ASSUME NEW i \in 1..(n + 1)
       PROVE  /\ reports'[i].job \in 1..(pc - 1) /\ reports'[i].job \notin ToSet(rest)
              /\ Late(reports'[i].job) => \A d \in ToSet(rest) : reports'[i].job < d
    <2>1. CASE i \in 1..n
        BY <1>2, <1>4, <1>12, <2>1
    <2>2. CASE i = n + 1
        <3>1. reports'[i].job = h /\ h \in 1..(pc - 1)
            BY <1>1, <1>2, <1>3, <1>8, <2>2, <1>5
        <3>2. h \notin ToSet(rest)
            BY <1>9, <1>7, <1>8
        <3> QED BY <1>9, <3>1, <3>2
    <2> QED BY <1>2, <2>1, <2>2
<1>14. ASSUME NEW i \in 1..(n + 1), NEW k \in 1..(n + 1), i < k PROVE InOrder(i, k)'
    <2>1. i \in 1..n
        BY <1>2, <1>14
    <2>2. CASE k \in 1..n
        <3>1. InOrder(i, k)
            BY <1>14, <2>1, <2>2 DEF ReportInv, n
        <3> QED BY <1>2, <1>11, <2>1, <2>2, <3>1 DEF InOrder
    <2>3. CASE k = n + 1
        <3>1. reports'[k].job = h /\ reports'[i].job = reports[i].job
            BY <1>2, <2>1, <2>3
        <3>2. reports[i].job # h /\ (Late(reports[i].job) => reports[i].job < h)
            BY <1>8, <1>12, <2>1
        <3> QED BY <1>8, <1>11, <3>1, <3>2 DEF InOrder
    <2> QED BY <1>2, <2>2, <2>3
<1>15. ASSUME NEW j \in 1..(pc - 1), Owed(j)
       PROVE  j \in ToSet(rest) \/ \E i \in 1..(n + 1) : reports'[i].job = j
    <2>1. j \in ToSet(deferred) \/ \E i \in 1..n : reports[i].job = j
        BY <1>15 DEF ReportInv, n
    <2>2. n + 1 \in 1..(n + 1) /\ \A i \in 1..n : i \in 1..(n + 1)
        BY <1>2
    <2> QED BY <1>2, <1>4, <2>1, <2>2
<1>16. ~(pc <= Len(Jobs)) /\ \A d \in ToSet(rest) : d < pc /\ Deferrable(Jobs[d])
    BY <1>1, <1>4, <1>7
<1>17. \A j \in 1..(pc' - 1) : Owed(j)' => j \in ToSet(rest) \/ \E i \in 1..(n + 1) : reports'[i].job = j
    <2>1. \A j : Owed(j)' <=> Owed(j)
        BY OwedStays DEF SettleDeferred
    <2> QED BY <1>1, <1>15, <2>1
<1> QED BY <1>1, <1>2, <1>10, <1>11, <1>13, <1>14, <1>16, <1>17 DEF ReportInv

LEMMA ReportsNext ==
    ASSUME Types, WaitInv, ReportInv, RunNext
    PROVE  ReportInv'
<1>1. pc \in Nat /\ Len(Jobs) \in Nat /\ DOMAIN Jobs = 1..Len(Jobs) /\ DOMAIN got = DOMAIN Jobs
    BY JobFacts DEF Types, RunTypes
<1>2. CASE BeginConnect \/ Dial \/ HandshakeFails \/ ConnectAborts \/ Call \/ Finish
    <2>1. UNCHANGED <<scenario, pc, deferred, reports, got>>
        BY <1>2 DEF BeginConnect, Dial, HandshakeFails, ConnectAborts, Call, Finish, CloseAll, clients
    <2> QED BY <2>1, QuietReports
<1>3. ASSUME pc \in DOMAIN Jobs, IsLogin(Job) PROVE Jobs[pc].index = 0
    BY <1>3, JobFacts DEF Types, RunTypes, Job
<1>4. CASE Connected
    <2>1. UNCHANGED <<scenario, deferred, reports, got>> /\ pc \in DOMAIN Jobs
        BY <1>4 DEF Connected, Types, AtItsJob, Connecting
    <2>2. CASE Job.do = "connect"
        <3>1. pc' = pc + 1 /\ Jobs[pc].index = 0
            BY <1>3, <1>4, <2>1, <2>2 DEF Connected, IsLogin
        <3>2. pc' \in (pc + 1)..(Len(Jobs) + 1) /\ \A j \in pc..(pc' - 1) : j = pc
            BY <1>1, <2>1, <3>1
        <3>3. \A j \in pc..(pc' - 1) : ~Owed(j)
            BY <3>1, <3>2 DEF Owed
        <3> QED BY <2>1, <3>1, <3>2, <3>3, JumpReports
    <2>3. CASE Job.do # "connect"
        <3>1. pc' = pc
            BY <1>4, <2>3 DEF Connected
        <3> QED BY <2>1, <3>1, QuietReports
    <2> QED BY <2>2, <2>3
<1>5. CASE ConnectSkips \/ LoginLost
    <2>1. /\ UNCHANGED <<scenario, deferred, reports, got>> /\ pc \in DOMAIN Jobs /\ IsLogin(Job)
          /\ pc' = NextUser
        BY <1>5 DEF ConnectSkips, LoginLost, clients, Types, AtItsJob, Connecting, IsLogin
    <2>2. Jobs[pc].index = 0
        BY <1>3, <2>1
    <2>3. /\ pc' \in (pc + 1)..(Len(Jobs) + 1)
          /\ \A i \in (pc + 1)..(pc' - 1) : Jobs[i].index = 0
        BY <2>1, NextUserFacts DEF Types, RunTypes
    <2>4. \A j \in pc..(pc' - 1) : j = pc \/ j \in (pc + 1)..(pc' - 1)
        <3>1. pc \in Int /\ pc' - 1 \in Int
            BY <1>1, <2>3
        <3> QED BY <3>1, RangeSplits
    <2>5. \A j \in pc..(pc' - 1) : ~Owed(j)
        <3>1. ASSUME NEW j \in pc..(pc' - 1) PROVE Jobs[j].index = 0
            BY <2>2, <2>3, <2>4
        <3> QED BY <3>1 DEF Owed
    <2> QED BY <2>1, <2>3, <2>5, JumpReports
<1>6. CASE NoSession \/ RecipeNotFound
    <2>1. UNCHANGED <<scenario, got, deferred>> /\ pc \in DOMAIN Jobs /\ Report(pc, FALSE) /\ Next1 /\ phase = "ready"
        BY <1>6 DEF NoSession, RecipeNotFound, Ready, Running, clients
    <2>2. got[pc] = None
        BY <2>1 DEF WaitInv
    <2>3. ~Late(pc)
        BY <2>2 DEF Late
    <2> QED BY <2>1, <2>3, ReportsStep
<1>7. ASSUME NEW answer, Answered(answer) \/ RecipeDone(answer) \/ RecipeThrows PROVE ReportInv'
    <2>1. UNCHANGED <<scenario, got, deferred>> /\ pc \in DOMAIN Jobs /\ Next1
        BY <1>7 DEF Answered, RecipeDone, RecipeThrows, clients, Types, AtItsJob, Connecting
    <2>2. Job.do # "expectUpdate"
        BY <1>7 DEF Answered, RecipeDone, RecipeThrows
    <2>3. ~Late(pc)
        BY <2>2 DEF Late, Deferrable, Job
    <2>4. Report(pc, Passes(Job.step, answer)) \/ Report(pc, TRUE) \/ Report(pc, FALSE)
        BY <1>7 DEF Answered, RecipeDone, RecipeThrows
    <2> QED BY <2>1, <2>3, <2>4, ReportsStep
<1>8. CASE Expected1
    <2>1. /\ UNCHANGED <<scenario, got, deferred>> /\ pc \in DOMAIN Jobs /\ Next1 /\ Job.step.blocks
          /\ Report(pc, got[pc] # TimedOut)
        BY <1>8 DEF Expected1, Settle, clients, Types, AtItsJob, Connecting
    <2>2. ~Late(pc)
        BY <2>1 DEF Late, Deferrable, Job
    <2> QED BY <2>1, <2>2, ReportsStep
<1>9. CASE ExpectUpdate
    <2>1. /\ pc \in DOMAIN Jobs /\ UNCHANGED <<scenario, reports>> /\ Job.do = "expectUpdate"
        BY <1>9 DEF ExpectUpdate, Ready, Running
    <2>2. \A j \in DOMAIN Jobs : j # pc => got'[j] = got[j]
        BY <1>1, <1>9 DEF ExpectUpdate
    <2>3. CASE Job.step.blocks
        <3>1. UNCHANGED <<pc, deferred>>
            BY <1>9, <2>3 DEF ExpectUpdate
        <3>2. \A i \in 1..Len(reports) : reports[i].job \in 1..(pc - 1)
            BY DEF ReportInv
        <3>3. \A i \in 1..Len(reports) : reports[i].job \in DOMAIN Jobs /\ reports[i].job # pc
            BY <1>1, <2>1, <3>2
        <3> QED BY <2>1, <2>2, <3>1, <3>3, QuietReports
    <2>4. CASE ~Job.step.blocks
        <3>1. Next1 /\ deferred' = Append(deferred, pc)
            BY <1>9, <2>4 DEF ExpectUpdate
        <3>2. Deferrable(Job)
            BY <2>1, <2>4 DEF Deferrable
        <3> QED BY <2>1, <2>2, <3>1, <3>2, ArmReports
    <2> QED BY <2>3, <2>4
<1>10. ASSUME NEW u \in Users, NEW j \in ToSet(waiters[u]), NEW w, got' = [got EXCEPT ![j] = w],
              UNCHANGED <<scenario, pc, deferred, reports>>
       PROVE  ReportInv'
    <2>1. \A i \in 1..Len(reports) : reports[i].job # j
        BY WaitingAreBehind
    <2>2. \A i \in 1..Len(reports) : got'[reports[i].job] = got[reports[i].job]
        BY <1>1, <1>10, <2>1
    <2> QED BY <1>10, <2>2, QuietReports
<1>11. ASSUME NEW u \in Users, NEW value \in Objects, Update(u, value) PROVE ReportInv'
    <2>1. UNCHANGED <<scenario, pc, deferred, reports>>
        BY <1>11 DEF Update
    <2> DEFINE i == FirstMatching(u, value)
    <2>2. CASE i # 0
        <3>1. i \in 1..Len(waiters[u]) /\ DOMAIN waiters[u] = 1..Len(waiters[u])
            <4>1. waiters[u] \in Seq(DOMAIN Jobs) /\ Len(waiters[u]) \in Nat
                BY DEF Types, RunTypes
            <4> QED BY <2>2, <4>1, FirstMatchingFacts
        <3>2. got' = [got EXCEPT ![waiters[u][i]] = value]
            BY <1>11, <2>2 DEF Update
        <3> HIDE DEF i
        <3>3. waiters[u][i] \in ToSet(waiters[u])
            BY <3>1 DEF ToSet
        <3> QED BY <1>10, <2>1, <3>2, <3>3
    <2>3. CASE i = 0
        <3>1. got' = got
            BY <1>11, <2>3 DEF Update
        <3> QED BY <2>1, <3>1, QuietReports
    <2> QED BY <2>2, <2>3
<1>12. ASSUME NEW u \in Users, ExpectationTimesOut(u) PROVE ReportInv'
    <2>1. UNCHANGED <<scenario, pc, deferred, reports>>
        BY <1>12 DEF ExpectationTimesOut
    <2>2. PICK j \in Timed(u) : got' = [got EXCEPT ![j] = TimedOut]
        BY <1>12 DEF ExpectationTimesOut
    <2>3. j \in ToSet(waiters[u])
        BY DEF Timed
    <2> QED BY <1>10, <2>1, <2>2, <2>3
<1>13. CASE NothingToDo
    <2>1. /\ UNCHANGED <<scenario, got, deferred>> /\ pc \in DOMAIN Jobs /\ Next1 /\ Job.do = "nothing"
          /\ IF scenario.studio THEN UNCHANGED reports ELSE Report(pc, TRUE)
        BY <1>13 DEF NothingToDo, Ready, Running, clients
    <2>2. CASE scenario.studio
        <3>1. pc' = pc + 1 /\ ~Owed(pc)
            BY <2>1, <2>2 DEF Next1, Owed, MayPass, Job
        <3>2. pc' \in (pc + 1)..(Len(Jobs) + 1) /\ \A j \in pc..(pc' - 1) : j = pc
            BY <1>1, <2>1, <3>1
        <3>3. \A j \in pc..(pc' - 1) : ~Owed(j)
            BY <3>1, <3>2
        <3> QED BY <2>1, <2>2, <3>2, <3>3, JumpReports
    <2>3. CASE ~scenario.studio
        <3>1. ~Late(pc)
            BY <2>1 DEF Late, Deferrable, Job
        <3> QED BY <2>1, <2>3, <3>1, ReportsStep
    <2> QED BY <2>2, <2>3
<1> QED BY <1>2, <1>4, <1>5, <1>6, <1>7, <1>8, <1>9, <1>11, <1>12, <1>13, SettleReports DEF RunNext, Run

-----------------------------------------------------------------------------
LEMMA CreditInit == RunInit => CreditInv
<1> SUFFICES ASSUME RunInit PROVE CreditInv
    OBVIOUS
<1>1. \A u \in Users : DOMAIN unclaimed[u] = {}
    BY DEF RunInit
<1>2. Kept = {}
    BY <1>1 DEF Kept
<1>3. \A j \in DOMAIN got : got[j] = None
    BY DEF RunInit
<1>4. Credited = {}
    BY <1>3, TimedOutIsNone DEF Credited
<1>5. pushes = 0
    BY DEF RunInit
<1> QED BY <1>2, <1>4, <1>5, FS_EmptySet DEF CreditInv

\* An expectation that has nothing yet gets an update.
LEMMA CreditsOne ==
    ASSUME Types, CreditInv, NEW j \in DOMAIN Jobs, got[j] = None, NEW w \in Objects,
           got' = [got EXCEPT ![j] = w]
    PROVE  IsFiniteSet(Credited') /\ Cardinality(Credited') = Cardinality(Credited) + 1
<1>1. DOMAIN got = DOMAIN Jobs
    BY DEF Types, RunTypes
<1>2. j \notin Credited
    BY TimedOutIsNone DEF Credited
<1>3. Credited' = Credited \cup {j}
    BY <1>1 DEF Credited
<1> QED BY <1>2, <1>3, FS_AddElement DEF CreditInv

LEMMA CreditsNone ==
    ASSUME Types, CreditInv, NEW j \in DOMAIN Jobs, got[j] = None, got' = [got EXCEPT ![j] = TimedOut]
    PROVE  Credited' = Credited
<1>1. DOMAIN got = DOMAIN Jobs
    BY DEF Types, RunTypes
<1> QED BY <1>1, TimedOutIsNone DEF Credited

\* A user's queue grows or shrinks by one.
LEMMA KeptChanges ==
    ASSUME Types, CreditInv, NEW u \in Users, NEW r \in Seq(Objects), unclaimed' = [unclaimed EXCEPT ![u] = r]
    PROVE  /\ Len(r) = Len(unclaimed[u]) + 1 =>
                IsFiniteSet(Kept') /\ Cardinality(Kept') = Cardinality(Kept) + 1
           /\ Len(r) = Len(unclaimed[u]) - 1 =>
                IsFiniteSet(Kept') /\ Cardinality(Kept') = Cardinality(Kept) - 1
<1> DEFINE n == Len(unclaimed[u])
<1>1. /\ n \in Nat /\ DOMAIN unclaimed[u] = 1..n /\ Len(r) \in Nat /\ DOMAIN r = 1..Len(r)
      /\ DOMAIN unclaimed = Users
    BY DEF Types, RunTypes
<1>2. /\ \A v \in Users \ {u} : unclaimed'[v] = unclaimed[v]
      /\ DOMAIN unclaimed'[u] = 1..Len(r)
    BY <1>1
<1>3. /\ \A p : p \in Kept <=> \E v \in Users : p \in {v} \X DOMAIN unclaimed[v]
      /\ \A p : p \in Kept' <=> \E v \in Users : p \in {v} \X DOMAIN unclaimed'[v]
    BY DEF Kept
<1>4. \A i : <<u, i>> \in Kept <=> i \in 1..n
    BY <1>1, <1>3
<1> HIDE DEF n
<1>5. CASE Len(r) = n + 1
    <2>1. 1..(n + 1) = (1..n) \cup {n + 1} /\ n + 1 \notin 1..n
        BY <1>1
    <2>2. ASSUME NEW p PROVE p \in Kept' <=> p \in Kept \cup {<<u, n + 1>>}
        BY <1>1, <1>2, <1>3, <1>5, <2>1 DEF n
    <2>3. Kept' = Kept \cup {<<u, n + 1>>} /\ <<u, n + 1>> \notin Kept
        BY <1>4, <2>1, <2>2
    <2> HIDE DEF Kept
    <2>4. IsFiniteSet(Kept') /\ Cardinality(Kept') = Cardinality(Kept) + 1
        BY <2>3, FS_AddElement DEF CreditInv
    <2>5. Len(r) = n + 1 /\ ~(Len(r) = n - 1)
        BY <1>1, <1>5
    <2> QED BY <2>4, <2>5 DEF n
<1>6. CASE Len(r) = n - 1
    <2>1. 1..(n - 1) = (1..n) \ {n} /\ n \in 1..n
        BY <1>1, <1>6
    <2>2. ASSUME NEW p PROVE p \in Kept' <=> p \in Kept \ {<<u, n>>}
        BY <1>1, <1>2, <1>3, <1>6, <2>1 DEF n
    <2>3. Kept' = Kept \ {<<u, n>>} /\ <<u, n>> \in Kept
        BY <1>4, <2>1, <2>2
    <2>4. IsFiniteSet(Kept') /\ Cardinality(Kept') = Cardinality(Kept) - 1
        BY <2>3, FS_RemoveElement DEF CreditInv
    <2>5. Len(r) = n - 1 /\ ~(Len(r) = n + 1)
        BY <1>1, <1>6
    <2> QED BY <2>4, <2>5 DEF n
<1> QED BY <1>5, <1>6 DEF n

LEMMA CreditNext ==
    ASSUME Types, WaitInv, ReportInv, CreditInv, RunNext
    PROVE  CreditInv'
<1>1. ASSUME UNCHANGED <<unclaimed, got, pushes>> PROVE CreditInv'
    BY <1>1 DEF CreditInv, Kept, Credited
<1>2. ASSUME BeginConnect \/ Dial \/ HandshakeFails \/ Connected \/ ConnectAborts \/ ConnectSkips
             \/ NoSession \/ NothingToDo
             \/ Expected1 \/ SettleDeferred \/ Call \/ RecipeNotFound \/ RecipeThrows \/ LoginLost \/ Finish
      PROVE  CreditInv'
    <2>1. UNCHANGED <<unclaimed, got, pushes>>
        BY <1>2 DEF BeginConnect, Dial, HandshakeFails, Connected, ConnectAborts, ConnectSkips,
                    NoSession, NothingToDo, Expected1, SettleDeferred,
                    Call, RecipeNotFound, RecipeThrows, LoginLost, Finish, CloseAll, clients
    <2> QED BY <1>1, <2>1
<1>3. ASSUME NEW answer, Answered(answer) \/ RecipeDone(answer) PROVE CreditInv'
    <2>1. UNCHANGED <<unclaimed, got, pushes>>
        BY <1>3 DEF Answered, RecipeDone, clients
    <2> QED BY <1>1, <2>1
<1>4. pushes \in Nat /\ Cardinality(Kept) \in Nat /\ Cardinality(Credited) \in Nat
    BY FS_CardinalityType DEF Types, RunTypes, CreditInv
<1>5. CASE ExpectUpdate
    <2> DEFINE i == FirstClaimable(pc)
               u == Job.user
    <2>1. pc \in DOMAIN Jobs /\ u \in Users /\ phase = "ready" /\ pushes' = pushes
        BY <1>5, JobFacts DEF Types, RunTypes, ExpectUpdate, Ready, Running, Job
    <2>2. unclaimed[u] \in Seq(Objects) /\ Len(unclaimed[u]) \in Nat
        BY <2>1 DEF Types, RunTypes
    <2>3. i # 0 => i \in 1..Len(unclaimed[u])
        BY <2>2, FirstClaimableFacts DEF Job
    <2>4. CASE i # 0
        <3>1. got' = [got EXCEPT ![pc] = unclaimed[u][i]] /\ unclaimed' = [unclaimed EXCEPT ![u] = RemoveAt(@, i)]
            BY <1>5, <2>4 DEF ExpectUpdate, Claimed
        <3> HIDE DEF i, u
        <3> DEFINE r == RemoveAt(unclaimed[u], i)
        <3>2. r \in Seq(Objects) /\ Len(r) = Len(unclaimed[u]) - 1 /\ unclaimed[u][i] \in Objects
            <4>1. i \in 1..Len(unclaimed[u])
                BY <2>3, <2>4
            <4>2. unclaimed[u][i] \in Objects
                BY <2>2, <4>1
            <4> QED BY <2>2, <4>1, <4>2, RemoveAtFacts DEF Without
        <3>3. got[pc] = None
            BY <2>1 DEF WaitInv
        <3>4. unclaimed' = [unclaimed EXCEPT ![u] = r]
            BY <3>1
        <3> HIDE DEF r
        <3>5. IsFiniteSet(Credited') /\ Cardinality(Credited') = Cardinality(Credited) + 1
            BY <2>1, <3>1, <3>2, <3>3, CreditsOne
        <3>6. IsFiniteSet(Kept') /\ Cardinality(Kept') = Cardinality(Kept) - 1
            BY <2>1, <3>2, <3>4, KeptChanges
        <3> QED BY <1>4, <2>1, <3>5, <3>6 DEF CreditInv
    <2>5. CASE i = 0
        BY <1>1, <1>5, <2>1, <2>5 DEF ExpectUpdate
    <2> QED BY <2>4, <2>5
<1>6. ASSUME NEW u \in Users, NEW value \in Objects, Update(u, value) PROVE CreditInv'
    <2> DEFINE i == FirstMatching(u, value)
    <2>1. pushes' = pushes + 1
        BY <1>6 DEF Update
    <2>2. CASE i # 0
        <3> DEFINE j == waiters[u][i]
        <3>1. i \in 1..Len(waiters[u]) /\ DOMAIN waiters[u] = 1..Len(waiters[u])
            <4>1. waiters[u] \in Seq(DOMAIN Jobs) /\ Len(waiters[u]) \in Nat
                BY DEF Types, RunTypes
            <4> QED BY <2>2, <4>1, FirstMatchingFacts
        <3>2. got' = [got EXCEPT ![j] = value] /\ unclaimed' = unclaimed
            BY <1>6, <2>2 DEF Update
        <3> HIDE DEF i
        <3>3. j \in ToSet(waiters[u])
            BY <3>1 DEF ToSet
        <3>4. j \in DOMAIN Jobs /\ got[j] = None
            BY <3>3, WaitingAreBehind DEF Waits
        <3> HIDE DEF j
        <3>5. IsFiniteSet(Credited') /\ Cardinality(Credited') = Cardinality(Credited) + 1
            BY <3>2, <3>4, CreditsOne
        <3>6. Kept' = Kept
            BY <3>2 DEF Kept
        <3> QED BY <1>4, <2>1, <3>5, <3>6 DEF CreditInv
    <2>3. CASE i = 0
        <3>1. got' = got /\ unclaimed' = [unclaimed EXCEPT ![u] = Append(@, value)]
            BY <1>6, <2>3 DEF Update
        <3> DEFINE r == Append(unclaimed[u], value)
        <3>2. r \in Seq(Objects) /\ Len(r) = Len(unclaimed[u]) + 1
            BY DEF Types, RunTypes
        <3>3. unclaimed' = [unclaimed EXCEPT ![u] = r]
            BY <3>1
        <3> HIDE DEF r
        <3>4. IsFiniteSet(Kept') /\ Cardinality(Kept') = Cardinality(Kept) + 1
            BY <3>2, <3>3, KeptChanges
        <3>5. Credited' = Credited
            BY <3>1 DEF Credited
        <3> QED BY <1>4, <2>1, <3>4, <3>5 DEF CreditInv
    <2> QED BY <2>2, <2>3
<1>7. ASSUME NEW u \in Users, ExpectationTimesOut(u) PROVE CreditInv'
    <2>1. pushes' = pushes /\ unclaimed' = unclaimed
        BY <1>7 DEF ExpectationTimesOut
    <2>2. PICK j \in Timed(u) : got' = [got EXCEPT ![j] = TimedOut]
        BY <1>7 DEF ExpectationTimesOut
    <2>3. j \in DOMAIN Jobs /\ got[j] = None
        BY WaitingAreBehind DEF Waits, Timed
    <2>4. Credited' = Credited /\ Kept' = Kept
        BY <2>1, <2>2, <2>3, CreditsNone DEF Kept
    <2> QED BY <2>1, <2>4 DEF CreditInv
<1> QED BY <1>2, <1>3, <1>5, <1>6, <1>7 DEF RunNext, Run

-----------------------------------------------------------------------------
LEMMA LeftInit == RunInit => LeftInv
BY DEF RunInit, LeftInv, NothingLeft, Over

LEMMA LeftNext ==
    ASSUME Types, WaitInv, LeftInv, RunNext
    PROVE  LeftInv'
<1>1. DOMAIN session = Users
    BY DEF Types, RunTypes
<1>2. CASE ConnectAborts \/ Finish
    <2>1. CloseAll /\ scenario' = scenario /\ (scenario.studio \/ phase' = "aborted" \/ phase = "ready")
        BY <1>2 DEF ConnectAborts, Finish
    <2>2. \A u \in Users : /\ session'[u] # "held" /\ waiters'[u] = <<>>
                           /\ session'[u] \in {"lost", "orphan"} => session[u] = session'[u]
        BY <2>1 DEF CloseAll
    <2>3. \A u \in Users : session'[u] = "orphan" => scenario.studio \/ phase' = "aborted"
        BY <2>1, <2>2 DEF LeftInv
    <2>4. \A u \in Users : session'[u] = "lost" => scenario.studio
        BY <2>2 DEF LeftInv
    <2> QED BY <2>1, <2>2, <2>3, <2>4 DEF LeftInv, NothingLeft
<1>3. ASSUME ~Over', scenario' = scenario,
             \A u \in Users : session'[u] = "lost" => session[u] = "lost" \/ scenario.studio,
             \A u \in Users : session'[u] = "orphan" =>
                phase' = "failed" \/ (session[u] = "orphan" /\ (phase' = phase \/ phase \notin {"failed", "aborted"}))
                \/ scenario.studio
      PROVE  LeftInv'
    BY <1>3 DEF LeftInv, NothingLeft
<1>4. CASE BeginConnect \/ Dial \/ HandshakeFails \/ Connected \/ ConnectSkips \/ NoSession \/ NothingToDo
           \/ ExpectUpdate \/ Expected1 \/ SettleDeferred \/ Call \/ RecipeNotFound \/ RecipeThrows \/ LoginLost
    <2>1. /\ phase' \in {"ready", "dialing", "handshaking", "failed", "calling", "expecting"} /\ scenario' = scenario
          /\ phase \notin {"failed", "aborted"} \/ scenario.studio
        BY <1>4 DEF BeginConnect, NeedsSession, Running, Ready, Dial, HandshakeFails, Connected, ConnectSkips,
                    NoSession, NothingToDo, ExpectUpdate, Expected1, SettleDeferred, Next1, Call, RecipeNotFound, RecipeThrows,
                    LoginLost
    <2>2. ~Over'
        BY <2>1 DEF Over
    <2>3. \/ session' = session
          \/ session' = [session EXCEPT ![Job.user] = "held"]
          \/ session' = [session EXCEPT ![Job.user] = "lost"] /\ scenario.studio
          \/ session' = [session EXCEPT ![Job.user] = "orphan"] /\ phase' = "failed"
        BY <1>4 DEF BeginConnect, Dial, HandshakeFails, Connected, ConnectSkips, NoSession, NothingToDo, ExpectUpdate,
                    Expected1, SettleDeferred, Call, RecipeNotFound, RecipeThrows, LoginLost, clients
    <2>4. \A u \in Users : /\ session'[u] = "lost" => session[u] = "lost" \/ scenario.studio
                           /\ session'[u] = "orphan" => session[u] = "orphan" \/ phase' = "failed"
        BY <1>1, <2>3
    <2> QED BY <1>3, <2>1, <2>2, <2>4
<1>5. ASSUME NEW answer, Answered(answer) \/ RecipeDone(answer) PROVE LeftInv'
    <2>1. phase' = "ready" /\ phase = "calling" /\ scenario' = scenario /\ session' = session
        BY <1>5 DEF Answered, RecipeDone, Next1, clients
    <2> QED BY <1>3, <2>1 DEF Over
<1>6. ASSUME NEW u \in Users, ExpectationTimesOut(u) \/ (\E value \in Objects : Update(u, value)) PROVE LeftInv'
    <2>1. UNCHANGED <<scenario, phase, session>>
        BY <1>6 DEF ExpectationTimesOut, Update
    <2>2. session[u] = "held" \/ waiters[u] # <<>>
        BY <1>6 DEF ExpectationTimesOut, Update, Timed, ToSet
    <2>3. ~Over
        BY <2>2 DEF LeftInv, NothingLeft
    <2> QED BY <1>3, <2>1, <2>3 DEF Over
<1> QED BY <1>2, <1>4, <1>5, <1>6 DEF RunNext, Run

-----------------------------------------------------------------------------
RunInv == Types /\ WaitInv /\ ReportInv /\ CreditInv /\ LeftInv

LEMMA WaitsInit == RunInit => WaitInv /\ ReportInv
<1> SUFFICES ASSUME RunInit PROVE WaitInv /\ ReportInv
    OBVIOUS
<1>1. \A u \in Users : waiters[u] = <<>>
    BY DEF RunInit
<1>2. \A j \in DOMAIN Jobs : got[j] = None
    BY DEF RunInit, Jobs
<1>3. WaitInv
    BY <1>1, <1>2 DEF WaitInv, NoneTwice, ToSet
<1>4. reports = <<>> /\ deferred = <<>> /\ pc = 1
    BY DEF RunInit
<1>5. ReportInv
    BY <1>4 DEF ReportInv, ToSet
<1> QED BY <1>3, <1>5

LEMMA RunInvariant == RunSpec => []RunInv
<1>1. RunInit => RunInv
    BY TypesInit, WaitsInit, CreditInit, LeftInit DEF RunInv
<1>2. RunInv /\ [RunNext]_runVars => RunInv'
    <2> SUFFICES ASSUME RunInv, [RunNext]_runVars PROVE RunInv'
        OBVIOUS
    <2>1. CASE RunNext
        BY <2>1, TypesNext, WaitsNext, ReportsNext, CreditNext, LeftNext DEF RunInv
    <2>2. CASE UNCHANGED runVars
        <3>1. UNCHANGED <<scenario, pc, phase, session, waiters, unclaimed, got, scope, deferred, reports, pushes>>
            BY <2>2 DEF runVars, clients
        <3>2. Jobs' = Jobs /\ Job' = Job
            BY <3>1 DEF Jobs, Job
        <3>3. Types'
            BY <3>1, <3>2 DEF RunInv, Types, RunTypes, AtItsJob, Connecting
        <3>4. WaitInv'
            BY <3>1, <3>2 DEF RunInv, WaitInv, Waits
        <3>5. ReportInv'
            BY <3>1, QuietReports DEF RunInv
        <3>6. CreditInv'
            BY <3>1 DEF RunInv, CreditInv, Kept, Credited
        <3>7. LeftInv'
            BY <3>1 DEF RunInv, LeftInv, NothingLeft, Over
        <3> QED BY <3>3, <3>4, <3>5, <3>6, <3>7 DEF RunInv
    <2> QED BY <2>1, <2>2
<1> QED BY <1>1, <1>2, PTL DEF RunSpec

(***************************************************************************)
(* Whatever the scenario, the report of a run tells of every step once,    *)
(* those the run waited for in their order and the armed expectations in   *)
(* theirs; only of a step that names nothing to do may the builder be      *)
(* silent.                                                                 *)
(***************************************************************************)
THEOREM EveryStepIsReported == RunSpec => []EveryStepReported
<1>1. RunInv => EveryStepReported
    <2> SUFFICES ASSUME RunInv, phase = "ended" PROVE EveryStepReported
        BY DEF EveryStepReported
    <2> DEFINE told == [i \in DOMAIN reports |-> reports[i].job]
               late(i) == Deferrable(Jobs[told[i]]) /\ got[told[i]] # None
    <2>1. /\ deferred = <<>> /\ pc = Len(Jobs) + 1 /\ Len(Jobs) \in Nat /\ DOMAIN Jobs = 1..Len(Jobs)
          /\ Len(reports) \in Nat /\ DOMAIN reports = 1..Len(reports)
        BY JobFacts DEF RunInv, Types, RunTypes, AtItsJob, Connecting
    <2>2. DOMAIN told = 1..Len(reports) /\ \A i \in 1..Len(reports) : told[i] = reports[i].job
        BY <2>1
    <2>3. \A i \in 1..Len(reports) : late(i) <=> Late(reports[i].job)
        BY <2>2 DEF Late
    <2>4. \A i \in 1..Len(reports) : reports[i].job \in 1..Len(Jobs)
        BY <2>1 DEF RunInv, ReportInv
    <2>5. \A i, k \in 1..Len(reports) : i < k => InOrder(i, k)
        BY DEF RunInv, ReportInv
    <2>6. \A j \in 1..Len(Jobs) : Owed(j) => \E i \in 1..Len(reports) : reports[i].job = j
        <3>1. ToSet(deferred) = {} /\ 1..(pc - 1) = 1..Len(Jobs)
            BY <2>1 DEF ToSet
        <3> QED BY <3>1 DEF RunInv, ReportInv
    <2>7. {j \in DOMAIN Jobs : IsStep(Jobs[j]) /\ Jobs[j].index > 0 /\ ~MayPass(Jobs[j])} \subseteq ToSet(told)
        BY <2>1, <2>2, <2>6 DEF ToSet, Owed
    <2> HIDE DEF told
    <2>8. ASSUME NEW i \in DOMAIN told, NEW k \in DOMAIN told, i < k
          PROVE  told[i] # told[k] /\ (late(i) => late(k)) /\ (late(i) = late(k) => told[i] < told[k])
        <3>1. InOrder(i, k) /\ told[i] = reports[i].job /\ told[k] = reports[k].job
            BY <2>2, <2>5, <2>8
        <3>2. (late(i) <=> Late(reports[i].job)) /\ (late(k) <=> Late(reports[k].job))
            BY <2>2, <2>3
        <3> HIDE DEF late
        <3>3. (late(i) = late(k)) => (late(i) <=> late(k))
            OBVIOUS
        <3> QED BY <3>1, <3>2, <3>3 DEF InOrder
    <2> QED BY <2>7, <2>8 DEF EveryStepReported, told
<1> QED BY <1>1, RunInvariant, PTL

(***************************************************************************)
(* However many updates come, each is what one expectation got or is kept. *)
(***************************************************************************)
THEOREM NoUpdateCreditedTwice == RunSpec => []CreditedOnce
<1>1. RunInv => CreditedOnce
    BY DEF RunInv, CreditInv, CreditedOnce, Kept, Credited
<1> QED BY <1>1, RunInvariant, PTL

(***************************************************************************)
(* Whatever the scenario and wherever it fails, a run that is over holds   *)
(* no session and has no timer armed; and on the command line a run that   *)
(* was not aborted left no transport open at all.                          *)
(***************************************************************************)
THEOREM RunsLeaveNothing == RunSpec => []NothingLeft
<1>1. RunInv => NothingLeft
    BY DEF RunInv, LeftInv
<1> QED BY <1>1, RunInvariant, PTL
=============================================================================
