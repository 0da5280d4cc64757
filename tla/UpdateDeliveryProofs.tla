------------------------ MODULE UpdateDeliveryProofs ------------------------
(***************************************************************************)
(* What UpdateDelivery guarantees for any number of nodes, connections,    *)
(* subjects and keys, any traffic, crashes and failed commands.            *)
(***************************************************************************)
EXTENDS UpdateDelivery, FiniteSetTheorems, SequenceTheorems, TLAPS

(***************************************************************************)
(* A finite set in any order is a sequence of its elements.                *)
(***************************************************************************)
LEMMA SetToSeqElements ==
    ASSUME NEW S, IsFiniteSet(S)
    PROVE  /\ SetToSeq(S) \in Seq(S)
           /\ \A x \in S : \E i \in DOMAIN SetToSeq(S) : SetToSeq(S)[i] = x
  <1> DEFINE n == Cardinality(S)
             Chosen(f) == f \in [1..n -> S] /\ IsInjective(f)
  <1>1. n \in Nat /\ ExistsBijection(1..n, S)
    BY FS_CardinalityType
  <1>2. \E f : Chosen(f)
    BY <1>1 DEF ExistsBijection, Bijection, Injection
  <1>3. Chosen(SetToSeq(S))
    BY <1>2 DEF SetToSeq
  <1>4. SetToSeq(S) \in Injection(1..n, S)
    BY <1>3 DEF Injection
  <1>5. IsFiniteSet(1..n) /\ Cardinality(1..n) = n
    BY <1>1, FS_Interval
  <1>6. SetToSeq(S) \in Surjection(1..n, S)
    BY <1>4, <1>5, FS_Injection
  <1>7. SetToSeq(S) \in Seq(S)
    BY <1>1, <1>3, SeqDef
  <1>8. QED
    BY <1>3, <1>6, <1>7 DEF Surjection

LEMMA PeriodType == Period \in Nat \ {0}
  BY DeliveryAssumption DEF Period

-----------------------------------------------------------------------------
(***************************************************************************)
(* What processes hold: a command in a queue is a lookup of a published    *)
(* update by a process that runs a router, or one of the binder's.         *)
(***************************************************************************)
IsLookup(x) == x.cmd \in {"prune", "range"}

Fits(n, x) ==
    IF IsLookup(x) THEN n \in Routers /\ x.update \in 1..Len(published) ELSE x.update = 0

UnderWay ==
    /\ Len(published) <= MaxUpdates
    /\ \A n \in Nodes :
        /\ \A k \in 1..Len(routerIn[n]) : n \in Routers /\ routerIn[n][k] <= Len(published)
        /\ \A k \in 1..Len(commands[n]) : Fits(n, commands[n][k])
        /\ \A k \in 1..Len(nodeIn[n]) : nodeIn[n][k].update <= Len(published)
    /\ \A c \in Conns : \A k \in 1..Len(got[c]) : got[c][k].update <= Len(published)

\* Commands of the binder, all of one kind.
Plain(q, cmd) ==
    q \in Seq(Cmds) /\ \A k \in 1..Len(q) : q[k].cmd = cmd /\ q[k].update = 0

LEMMA CommandType ==
    ASSUME NEW t \in Targets, NEW cmd \in {"add", "remove"}
    PROVE  Command(cmd, t) \in Cmds
  BY DeliveryAssumption DEF Command, Cmds

LEMMA CommandFields ==
    ASSUME NEW t, NEW cmd, NEW x, x = Command(cmd, t)
    PROVE  x.cmd = cmd /\ x.target = t /\ x.update = 0
  BY DEF Command

CommandsFor(cmd, S) == SetToSeq({Command(cmd, t) : t \in S})

LEMMA AllPlain ==
    ASSUME NEW S \in SUBSET Targets, NEW cmd \in {"add", "remove"}
    PROVE  /\ Plain(CommandsFor(cmd, S), cmd)
           /\ \A k \in 1..Len(CommandsFor(cmd, S)) : CommandsFor(cmd, S)[k].target \in S
           /\ \A t \in S : \E k \in 1..Len(CommandsFor(cmd, S)) :
                CommandsFor(cmd, S)[k] = Command(cmd, t)
  <1> DEFINE C == {Command(cmd, t) : t \in S}
             f == [t \in S |-> Command(cmd, t)]
             q == CommandsFor(cmd, S)
  <1>0. q = SetToSeq(C)
    BY DEF CommandsFor
  <1> HIDE DEF q
  <1>1. IsFiniteSet(S)
    BY DeliveryAssumption, FS_Subset
  <1>2. f \in Surjection(S, C)
    BY DEF Surjection
  <1>3. IsFiniteSet(C)
    BY <1>1, <1>2, FS_Surjection
  <1>4. q \in Seq(C) /\ \A x \in C : \E i \in DOMAIN q : q[i] = x
    BY <1>0, <1>3, SetToSeqElements
  <1>5. DOMAIN q = 1..Len(q) /\ \A k \in 1..Len(q) : q[k] \in C
    BY <1>4, LenProperties, ElementOfSeq
  <1>6. C \subseteq Cmds
    BY CommandType
  <1>7. q \in Seq(Cmds)
    BY <1>4, <1>6, SeqMonotonic
  <1>8. ASSUME NEW k \in 1..Len(q)
        PROVE  q[k].cmd = cmd /\ q[k].update = 0 /\ q[k].target \in S
    <2>1. PICK t \in S : q[k] = Command(cmd, t)
      BY <1>5
    <2>2. q[k].cmd = cmd /\ q[k].target = t /\ q[k].update = 0
      BY ONLY <2>1, CommandFields
    <2>3. QED
      BY <2>2, Zenon
  <1>9. \A t \in S : \E k \in 1..Len(q) : q[k] = Command(cmd, t)
    BY <1>4, <1>5
  <1>10. Plain(q, cmd)
    BY <1>7, <1>8 DEF Plain
  <1>11. QED
    BY <1>8, <1>9, <1>10 DEF q

LEMMA BindPlain ==
    ASSUME TypeOK, NEW c \in Conns, NEW s \in Subjects \cup {None}
    PROVE  Plain(BindCommands(c, s), "add")
  <1>1. <<>> \in Seq(Cmds) /\ Len(<<>>) = 0
    BY EmptySeq
  <1>2. ASSUME s # None
        PROVE  Command("add", s) \in Cmds
    BY <1>2, CommandType DEF Targets
  <1>3. QED
    BY <1>1, <1>2 DEF BindCommands, Plain, Command

LEMMA ConcatPlain ==
    ASSUME NEW q, NEW r, NEW cmd, Plain(q, cmd), Plain(r, cmd)
    PROVE  Plain(q \o r, cmd)
  <1>1. /\ q \o r \in Seq(Cmds) /\ Len(q \o r) = Len(q) + Len(r)
        /\ \A i \in 1 .. Len(q) + Len(r) : (q \o r)[i] = IF i <= Len(q) THEN q[i] ELSE r[i - Len(q)]
    BY ConcatProperties DEF Plain
  <1>2. Len(q) \in Nat /\ Len(r) \in Nat
    BY LenProperties DEF Plain
  <1>3. QED
    BY <1>1, <1>2 DEF Plain

LEMMA PacketPlain ==
    ASSUME TypeOK, NEW c \in Conns, NEW k \in Keys, NEW s \in Subjects \cup {None}
    PROVE  Plain(<<Command("add", k)>> \o BindCommands(c, s), "add")
  <1>1. Command("add", k) \in Cmds
    BY CommandType DEF Targets
  <1>2. Plain(<<Command("add", k)>>, "add")
    BY <1>1 DEF Plain, Command
  <1>3. QED
    BY <1>2, BindPlain, ConcatPlain

(***************************************************************************)
(* Queues of commands after Send() and Rest().                             *)
(***************************************************************************)
LEMMA AfterSend ==
    ASSUME TypeOK, NEW n \in Nodes, NEW cmds \in Seq(Cmds), Send(n, cmds)
    PROVE  /\ commands' \in [Nodes -> Seq(Cmds)]
           /\ \A m \in Nodes \ {n} : commands'[m] = commands[m]
           /\ Len(commands'[n]) = Len(commands[n]) + Len(cmds)
           /\ Len(commands[n]) \in Nat /\ Len(cmds) \in Nat
           /\ \A k \in 1..Len(commands'[n]) :
                commands'[n][k] = IF k <= Len(commands[n]) THEN commands[n][k]
                                  ELSE cmds[k - Len(commands[n])]
  <1>1. commands[n] \in Seq(Cmds)
    BY DEF TypeOK
  <1>2. commands' = [commands EXCEPT ![n] = commands[n] \o cmds]
    BY DEF Send
  <1>3. commands'[n] = commands[n] \o cmds
    BY <1>2 DEF TypeOK
  <1>4. Len(commands[n]) \in Nat /\ Len(cmds) \in Nat
    BY <1>1, LenProperties
  <1>5. QED
    <2> DEFINE s == commands[n]
               whole == s \o cmds
    <2>1. s \in Seq(Cmds) /\ Len(s) \in Nat /\ commands \in [Nodes -> Seq(Cmds)]
      BY <1>1, <1>4 DEF TypeOK
    <2>2. commands' = [commands EXCEPT ![n] = whole] /\ commands'[n] = whole
      BY <1>2, <1>3
    <2> HIDE DEF s
    <2>3. /\ whole \in Seq(Cmds) /\ Len(whole) = Len(s) + Len(cmds)
          /\ \A k \in 1..Len(s) : whole[k] = s[k]
          /\ \A k \in 1..Len(cmds) : whole[k + Len(s)] = cmds[k]
      BY <2>1, ConcatProperties
    <2> HIDE DEF whole
    <2>4. ASSUME NEW k \in 1..Len(whole)
          PROVE  whole[k] = IF k <= Len(s) THEN s[k] ELSE cmds[k - Len(s)]
      <3>1. CASE k <= Len(s)
        <4>1. k \in 1..Len(s)
          BY <1>4, <2>1, <2>3, <3>1
        <4>2. QED
          BY <2>3, <3>1, <4>1
      <3>2. CASE ~(k <= Len(s))
        <4>1. k - Len(s) \in 1..Len(cmds) /\ (k - Len(s)) + Len(s) = k
          BY <1>4, <2>1, <2>3, <3>2
        <4>2. whole[(k - Len(s)) + Len(s)] = cmds[k - Len(s)]
          BY <2>3, <4>1, Zenon
        <4>3. QED
          BY <3>2, <4>1, <4>2
      <3>3. QED
        BY <3>1, <3>2
    <2>5. commands' \in [Nodes -> Seq(Cmds)] /\ \A m \in Nodes \ {n} : commands'[m] = commands[m]
      BY <2>1, <2>2, <2>3
    <2>6. QED
      BY <1>4, <2>1, <2>2, <2>3, <2>4, <2>5 DEF s

LEMMA AfterRest ==
    ASSUME TypeOK, NEW n \in Nodes, commands[n] # <<>>, commands' = Rest(n)
    PROVE  /\ commands' \in [Nodes -> Seq(Cmds)]
           /\ \A m \in Nodes \ {n} : commands'[m] = commands[m]
           /\ commands'[n] = Tail(commands[n])
           /\ Len(commands'[n]) = Len(commands[n]) - 1
           /\ Len(commands[n]) \in Nat \ {0}
           /\ Head(commands[n]) = commands[n][1]
           /\ \A k \in 1..Len(commands'[n]) : commands'[n][k] = commands[n][k + 1]
  <1>1. commands[n] \in Seq(Cmds)
    BY DEF TypeOK
  <1>2. Len(commands[n]) \in Nat \ {0}
    BY <1>1, EmptySeq
  <1>3. QED
    BY <1>1, <1>2, HeadTailProperties DEF TypeOK, Rest

-----------------------------------------------------------------------------
(***************************************************************************)
(* The types.                                                              *)
(***************************************************************************)
LEMMA TypeInit == Init => TypeOK /\ UnderWay
  <1> SUFFICES ASSUME Init PROVE TypeOK /\ UnderWay
    OBVIOUS
  <1>1. \A S : <<>> \in Seq(S) /\ Len(<<>>) = 0
    BY EmptySeq
  <1>2. TypeOK
    BY <1>1, DeliveryAssumption, PeriodType DEF Init, TypeOK
  <1>3. UnderWay
    BY <1>1, DeliveryAssumption DEF Init, UnderWay
  <1>4. QED
    BY <1>2, <1>3

Regs ==
    /\ regSubject \in [Conns -> Subjects \cup {None}]
    /\ regKey \in [Conns -> Keys \cup {None}]
    /\ keyConns \in [Keys -> SUBSET Conns]

LEMMA ForgetType ==
    ASSUME TypeOK, NEW n \in Nodes, Forget(n)
    PROVE  confirmed' \in [Targets -> [Nodes -> BOOLEAN]]
  BY DEF TypeOK, Forget

\* A step that only appends commands of the binder and leaves the bus alone.
LEMMA SendUnderWay ==
    ASSUME TypeOK, UnderWay, NEW n \in Nodes, NEW cmds, NEW cmd \in {"add", "remove"},
           Plain(cmds, cmd), Send(n, cmds), UNCHANGED bus
    PROVE  UnderWay'
  <1>1. cmds \in Seq(Cmds)
    BY DEF Plain
  <1>2. ASSUME NEW m \in Nodes, NEW k \in 1..Len(commands'[m])
        PROVE  Fits(m, commands'[m][k])
    <2>1. CASE m # n
      BY <1>1, <1>2, <2>1, AfterSend DEF UnderWay
    <2>2. CASE m = n /\ k <= Len(commands[n])
      BY <1>1, <1>2, <2>2, AfterSend DEF UnderWay
    <2>3. CASE m = n /\ k > Len(commands[n])
      <3>1. commands'[m][k] = cmds[k - Len(commands[n])] /\ k - Len(commands[n]) \in 1..Len(cmds)
        BY <1>1, <1>2, <2>3, AfterSend
      <3>2. QED
        BY <3>1 DEF Plain, Fits, IsLookup
    <2>4. QED
      BY <1>1, <1>2, <2>1, <2>2, <2>3, AfterSend
  <1>3. QED
    BY <1>2 DEF UnderWay, Fits, bus

LEMMA PacketType ==
    ASSUME TypeOK, UnderWay, NEW c \in Conns, NEW k \in Keys, NEW s \in Subjects \cup {None},
           Packet(c, k, s)
    PROVE  TypeOK' /\ UnderWay'
  <1> DEFINE n == NodeOf[c]
             cmds == <<Command("add", k)>> \o BindCommands(c, s)
  <1>1. n \in Nodes /\ Plain(cmds, "add")
    BY DeliveryAssumption, PacketPlain
  <1>2. Send(n, cmds) /\ Forget(n) /\ UNCHANGED bus
    BY DEF Packet
  <1> HIDE DEF n, cmds
  <1>3. UnderWay'
    BY <1>1, <1>2, SendUnderWay
  <1>4. commands' \in [Nodes -> Seq(Cmds)] /\ confirmed' \in [Targets -> [Nodes -> BOOLEAN]]
    BY <1>1, <1>2, AfterSend, ForgetType DEF Plain
  <1>5. Regs'
    BY DEF Packet, Registered, TypeOK, Regs
  <1>6. QED
    BY <1>3, <1>4, <1>5, DeliveryAssumption DEF Packet, Event, TypeOK, Regs, bus

LEMMA LoginType ==
    ASSUME TypeOK, UnderWay, NEW c \in Conns, NEW s \in Subjects, Login(c, s)
    PROVE  TypeOK' /\ UnderWay'
  <1> DEFINE n == NodeOf[c]
             cmds == BindCommands(c, s)
  <1>1. n \in Nodes /\ Plain(cmds, "add")
    BY DeliveryAssumption, BindPlain
  <1>2. Send(n, cmds) /\ Forget(n) /\ UNCHANGED bus
    BY DEF Login
  <1> HIDE DEF n, cmds
  <1>3. UnderWay'
    BY <1>1, <1>2, SendUnderWay
  <1>4. commands' \in [Nodes -> Seq(Cmds)] /\ confirmed' \in [Targets -> [Nodes -> BOOLEAN]]
    BY <1>1, <1>2, AfterSend, ForgetType DEF Plain
  <1>5. QED
    BY <1>3, <1>4, DeliveryAssumption DEF Login, Registered, Event, TypeOK, bus

ReleasedCommands(c) == CommandsFor("remove", Released(c))

LEMMA ReleasedPlain ==
    ASSUME TypeOK, NEW c \in Conns
    PROVE  /\ Plain(ReleasedCommands(c), "remove")
           /\ \A k \in 1..Len(ReleasedCommands(c)) : ReleasedCommands(c)[k].target \in Released(c)
  <1>1. Released(c) \in SUBSET Targets
    BY DEF Released, TypeOK, Targets
  <1>2. QED
    BY <1>1, AllPlain DEF ReleasedCommands

LEMMA UnbindType ==
    ASSUME TypeOK, UnderWay, NEW c \in Conns, Unbind(c), UNCHANGED bus
    PROVE  /\ UnderWay' /\ Regs' /\ events' \in 0..MaxEvents
           /\ commands' \in [Nodes -> Seq(Cmds)] /\ confirmed' \in [Targets -> [Nodes -> BOOLEAN]]
  <1> DEFINE n == NodeOf[c]
             cmds == ReleasedCommands(c)
  <1>1. n \in Nodes /\ Plain(cmds, "remove")
    BY DeliveryAssumption, ReleasedPlain
  <1>2. Send(n, cmds) /\ Forget(n)
    BY DEF Unbind, ReleasedCommands, CommandsFor
  <1> HIDE DEF n, cmds
  <1>3. UnderWay'
    BY <1>1, <1>2, SendUnderWay
  <1>4. commands' \in [Nodes -> Seq(Cmds)] /\ confirmed' \in [Targets -> [Nodes -> BOOLEAN]]
    BY <1>1, <1>2, AfterSend, ForgetType DEF Plain
  <1>5. Regs' /\ events' \in 0..MaxEvents
    BY DeliveryAssumption DEF Unbind, Event, TypeOK, Regs
  <1>6. QED
    BY <1>3, <1>4, <1>5

LEMMA CloseType ==
    ASSUME TypeOK, UnderWay, NEW c \in Conns, Logout(c) \/ Close(c)
    PROVE  TypeOK' /\ UnderWay'
  <1>1. Unbind(c) /\ UNCHANGED bus
    BY DEF Logout, Close
  <1>2. /\ UnderWay' /\ Regs' /\ events' \in 0..MaxEvents
        /\ commands' \in [Nodes -> Seq(Cmds)] /\ confirmed' \in [Targets -> [Nodes -> BOOLEAN]]
    BY <1>1, UnbindType
  <1>3. /\ socket' \in [Conns -> {"open", "closed", "done"}]
        /\ UNCHANGED <<alive, noUpdates, presence, beat, bus, lost>>
    BY DEF Logout, Close, TypeOK
  <1>4. QED
    BY <1>2, <1>3 DEF TypeOK, Regs, bus

LEMMA OptOutType ==
    ASSUME TypeOK, UnderWay, NEW c \in Conns, OptOut(c)
    PROVE  TypeOK' /\ UnderWay'
  <1>1. UNCHANGED <<alive, socket, registry, presence, commands, beat, bus, lost, confirmed>>
    BY DEF OptOut
  <1>2. UnderWay'
    BY <1>1 DEF UnderWay, Fits, bus
  <1>3. events' \in 0..MaxEvents /\ noUpdates' \subseteq Conns
    BY DeliveryAssumption DEF OptOut, Event, TypeOK
  <1>4. QED
    BY <1>1, <1>2, <1>3 DEF TypeOK, registry, bus

RefreshCommands(n) == CommandsFor("add", Refreshed(n))

LEMMA RefreshPlain ==
    ASSUME NEW n \in Nodes
    PROVE  /\ Plain(RefreshCommands(n), "add")
           /\ \A t \in Refreshed(n) : \E k \in 1..Len(RefreshCommands(n)) :
                RefreshCommands(n)[k] = Command("add", t)
  <1>1. Refreshed(n) \in SUBSET Targets
    BY DEF Refreshed
  <1>2. QED
    BY <1>1, AllPlain DEF RefreshCommands

LEMMA HeartbeatType ==
    ASSUME TypeOK, UnderWay, NEW n \in Nodes, Heartbeat(n)
    PROVE  TypeOK' /\ UnderWay'
  <1> DEFINE cmds == RefreshCommands(n)
  <1>1. Plain(cmds, "add") /\ Send(n, cmds) /\ UNCHANGED bus
    BY RefreshPlain DEF Heartbeat, RefreshCommands, CommandsFor
  <1> HIDE DEF cmds
  <1>2. UnderWay' /\ commands' \in [Nodes -> Seq(Cmds)]
    BY <1>1, SendUnderWay, AfterSend DEF Plain
  <1>3. beat' \in [Nodes -> 0..Period]
    BY PeriodType DEF Heartbeat, TypeOK
  <1>4. QED
    BY <1>2, <1>3 DEF Heartbeat, TypeOK, bus, registry

(***************************************************************************)
(* Redis runs a command, or it fails.                                      *)
(***************************************************************************)
LEMMA HeadFits ==
    ASSUME TypeOK, UnderWay, NEW n \in Nodes, commands[n] # <<>>
    PROVE  Head(commands[n]) \in Cmds /\ Fits(n, Head(commands[n]))
  <1>1. /\ commands[n] \in Seq(Cmds) /\ Len(commands[n]) \in Nat \ {0}
        /\ Head(commands[n]) = commands[n][1]
    BY EmptySeq, HeadTailProperties DEF TypeOK
  <1>2. 1 \in 1..Len(commands[n])
    BY <1>1
  <1>3. QED
    BY <1>1, <1>2, ElementOfSeq DEF UnderWay

LEMMA RestFits ==
    ASSUME TypeOK, UnderWay, NEW n \in Nodes, commands[n] # <<>>, commands' = Rest(n)
    PROVE  /\ commands' \in [Nodes -> Seq(Cmds)]
           /\ \A m \in Nodes : \A k \in 1..Len(commands'[m]) : Fits(m, commands'[m][k])
  <1>1. ASSUME NEW m \in Nodes, NEW k \in 1..Len(commands'[m])
        PROVE  Fits(m, commands'[m][k])
    <2>1. CASE m = n
      <3>1. k + 1 \in 1..Len(commands[n]) /\ commands'[n][k] = commands[n][k + 1]
        BY <1>1, <2>1, AfterRest
      <3>2. QED
        BY <2>1, <3>1 DEF UnderWay
    <2>2. CASE m # n
      BY <1>1, <2>2, AfterRest DEF UnderWay
    <2>3. QED
      BY <2>1, <2>2
  <1>2. QED
    BY <1>1, AfterRest

LEMMA RunAddType ==
    ASSUME TypeOK, UnderWay, NEW n \in Nodes, Run(n), RunAdd(n)
    PROVE  TypeOK' /\ UnderWay'
  <1> DEFINE t == Head(commands[n]).target
  <1>1. commands[n] # <<>> /\ commands' = Rest(n) /\ nodeIn' = nodeIn
        /\ UNCHANGED <<alive, socket, noUpdates, registry, beat, routerIn, published,
                       renders, got, lost, events>>
    BY DEF Run, RunAdd
  <1>2. t \in Targets
    BY <1>1, HeadFits DEF Cmds
  <1>3. /\ presence' = [presence EXCEPT ![t][n] = TTL]
        /\ confirmed' = [confirmed EXCEPT ![t][n] = @ \/ Confirms(n, t)]
    BY DEF RunAdd
  <1> HIDE DEF t
  <1>4. presence' \in [Targets -> [Nodes -> 0..TTL]]
    BY <1>2, <1>3, DeliveryAssumption DEF TypeOK
  <1>5. Confirms(n, t) \in BOOLEAN
    BY DEF Confirms
  <1>6. confirmed' \in [Targets -> [Nodes -> BOOLEAN]]
    BY <1>2, <1>3, <1>5 DEF TypeOK
  <1>7. /\ commands' \in [Nodes -> Seq(Cmds)]
        /\ \A m \in Nodes : \A k \in 1..Len(commands'[m]) : Fits(m, commands'[m][k])
    BY <1>1, RestFits
  <1>8. UnderWay'
    BY <1>1, <1>7 DEF UnderWay, Fits
  <1>9. QED
    BY <1>1, <1>4, <1>6, <1>7, <1>8 DEF TypeOK, registry

LEMMA RunRemoveType ==
    ASSUME TypeOK, UnderWay, NEW n \in Nodes, Run(n), RunRemove(n)
    PROVE  TypeOK' /\ UnderWay'
  <1> DEFINE t == Head(commands[n]).target
  <1>1. /\ commands[n] # <<>> /\ commands' = Rest(n) /\ UNCHANGED <<confirmed, nodeIn>>
        /\ UNCHANGED <<alive, socket, noUpdates, registry, beat, routerIn, published,
                       renders, got, lost, events>>
    BY DEF Run, RunRemove
  <1>2. t \in Targets
    BY <1>1, HeadFits DEF Cmds
  <1>3. presence' = [presence EXCEPT ![t][n] = 0]
    BY DEF RunRemove
  <1> HIDE DEF t
  <1>4. presence' \in [Targets -> [Nodes -> 0..TTL]]
    BY <1>2, <1>3, DeliveryAssumption DEF TypeOK
  <1>5. /\ commands' \in [Nodes -> Seq(Cmds)]
        /\ \A m \in Nodes : \A k \in 1..Len(commands'[m]) : Fits(m, commands'[m][k])
    BY <1>1, RestFits
  <1>6. UnderWay'
    BY <1>1, <1>5 DEF UnderWay, Fits
  <1>7. QED
    BY <1>1, <1>4, <1>5, <1>6 DEF TypeOK, registry

LEMMA FailType ==
    ASSUME TypeOK, UnderWay, NEW n \in Nodes, Fail(n)
    PROVE  TypeOK' /\ UnderWay'
  <1>1. /\ commands[n] # <<>> /\ commands' = Rest(n) /\ lost' \in 0..MaxLost
        /\ UNCHANGED <<alive, socket, noUpdates, registry, presence, beat, bus, events, confirmed>>
    BY DeliveryAssumption DEF Fail, TypeOK
  <1>2. /\ commands' \in [Nodes -> Seq(Cmds)]
        /\ \A m \in Nodes : \A k \in 1..Len(commands'[m]) : Fits(m, commands'[m][k])
    BY <1>1, RestFits
  <1>3. UnderWay'
    BY <1>1, <1>2 DEF UnderWay, Fits, bus
  <1>4. QED
    BY <1>1, <1>2, <1>3 DEF TypeOK, registry, bus

(***************************************************************************)
(* A lookup's first command is replaced by its second.                     *)
(***************************************************************************)
LEMMA LookupType ==
    ASSUME TypeOK, UnderWay, NEW i \in 1..Len(published), NEW cmd \in {"prune", "range"}
    PROVE  Lookup(cmd, i) \in Cmds
  <1>1. published[i] \in Targets /\ Len(published) \in Nat
    BY ElementOfSeq, LenProperties DEF TypeOK
  <1>2. i \in 0..MaxUpdates
    BY <1>1, DeliveryAssumption DEF UnderWay
  <1>3. QED
    BY <1>1, <1>2 DEF Lookup, Cmds

LEMMA AfterPrune ==
    ASSUME TypeOK, UnderWay, NEW n \in Nodes, commands[n] # <<>>, RunPrune(n)
    PROVE  /\ n \in Routers /\ Head(commands[n]).update \in 1..Len(published)
           /\ commands' \in [Nodes -> Seq(Cmds)]
           /\ \A m \in Nodes \ {n} : commands'[m] = commands[m]
           /\ Len(commands'[n]) = Len(commands[n])
           /\ Len(commands[n]) \in Nat \ {0}
           /\ \A k \in 1..(Len(commands[n]) - 1) : commands'[n][k] = commands[n][k + 1]
           /\ commands'[n][Len(commands[n])] = Lookup("range", Head(commands[n]).update)
  <1> DEFINE i == Head(commands[n]).update
             x == Lookup("range", i)
             rest == Tail(commands[n])
  <1>1. n \in Routers /\ i \in 1..Len(published)
    BY HeadFits DEF RunPrune, Fits, IsLookup
  <1>2. x \in Cmds
    BY <1>1, LookupType
  <1>3. commands' = [commands EXCEPT ![n] = Append(rest, x)]
    BY DEF RunPrune
  <1>4. /\ commands[n] \in Seq(Cmds) /\ Len(commands[n]) \in Nat \ {0}
        /\ rest \in Seq(Cmds) /\ Len(rest) = Len(commands[n]) - 1
        /\ \A k \in 1..Len(rest) : rest[k] = commands[n][k + 1]
    BY EmptySeq, HeadTailProperties DEF TypeOK
  <1> HIDE DEF i, x, rest
  <1>5. /\ Append(rest, x) \in Seq(Cmds) /\ Len(Append(rest, x)) = Len(rest) + 1
        /\ \A k \in 1..Len(rest) : Append(rest, x)[k] = rest[k]
        /\ Append(rest, x)[Len(rest) + 1] = x
    BY <1>2, <1>4, AppendProperties
  <1>6. commands'[n] = Append(rest, x) /\ commands' \in [Nodes -> Seq(Cmds)]
        /\ \A m \in Nodes \ {n} : commands'[m] = commands[m]
    BY <1>3, <1>5 DEF TypeOK
  <1>7. Len(rest) + 1 = Len(commands[n])
    BY <1>4
  <1>8. QED
    BY <1>1, <1>4, <1>5, <1>6, <1>7 DEF i, x

LEMMA RunPruneType ==
    ASSUME TypeOK, UnderWay, NEW n \in Nodes, Run(n), RunPrune(n)
    PROVE  TypeOK' /\ UnderWay'
  <1>1. /\ commands[n] # <<>> /\ UNCHANGED <<presence, confirmed, nodeIn>>
        /\ UNCHANGED <<alive, socket, noUpdates, registry, beat, routerIn, published,
                       renders, got, lost, events>>
    BY DEF Run, RunPrune
  <1>2. ASSUME NEW m \in Nodes, NEW k \in 1..Len(commands'[m])
        PROVE  Fits(m, commands'[m][k])
    <2>1. CASE m # n
      BY <1>1, <1>2, <2>1, AfterPrune DEF UnderWay
    <2>2. CASE m = n /\ k < Len(commands[n])
      <3>1. k + 1 \in 1..Len(commands[n]) /\ commands'[n][k] = commands[n][k + 1]
        BY <1>1, <1>2, <2>2, AfterPrune
      <3>2. QED
        BY <2>2, <3>1 DEF UnderWay
    <2>3. CASE m = n /\ k = Len(commands[n])
      <3>1. commands'[m][k] = Lookup("range", Head(commands[n]).update)
        BY <1>1, <2>3, AfterPrune
      <3>2. n \in Routers /\ Head(commands[n]).update \in 1..Len(published)
        BY <1>1, AfterPrune
      <3>3. QED
        BY <2>3, <3>1, <3>2 DEF Fits, IsLookup, Lookup
    <2>4. QED
      BY <1>1, <1>2, <2>1, <2>2, <2>3, AfterPrune
  <1>3. UnderWay'
    BY <1>1, <1>2 DEF UnderWay, Fits
  <1>4. commands' \in [Nodes -> Seq(Cmds)]
    BY <1>1, AfterPrune
  <1>5. QED
    BY <1>1, <1>3, <1>4 DEF TypeOK, registry

LEMMA AfterRange ==
    ASSUME TypeOK, UnderWay, NEW n \in Nodes, commands[n] # <<>>, RunRange(n)
    PROVE  LET i == Head(commands[n]).update
               d == [update |-> i, router |-> n]
           IN /\ n \in Routers /\ i \in 1..Len(published) /\ d \in Delivery
              /\ nodeIn' \in [Nodes -> Seq(Delivery)]
              /\ \A m \in Nodes :
                    \/ nodeIn'[m] = nodeIn[m]
                    \/ /\ m \in alive
                       /\ Len(nodeIn[m]) \in Nat
                       /\ Len(nodeIn'[m]) = Len(nodeIn[m]) + 1
                       /\ \A k \in 1..Len(nodeIn[m]) : nodeIn'[m][k] = nodeIn[m][k]
                       /\ nodeIn'[m][Len(nodeIn[m]) + 1] = d
  <1> DEFINE i == Head(commands[n]).update
             d == [update |-> i, router |-> n]
             holders == {m \in alive : Fresh(presence[published[i]][m])}
  <1>1. n \in Routers /\ i \in 1..Len(published)
    BY HeadFits DEF RunRange, Fits, IsLookup
  <1>2. i \in 1..MaxUpdates
    BY <1>1, LenProperties, DeliveryAssumption DEF UnderWay, TypeOK
  <1>3. d \in Delivery
    BY <1>1, <1>2 DEF Delivery
  <1>4. nodeIn' = [m \in Nodes |-> IF m \in holders THEN Append(nodeIn[m], d) ELSE nodeIn[m]]
    BY DEF RunRange, Queued
  <1>5. holders \subseteq alive
    OBVIOUS
  <1> HIDE DEF d, holders
  <1>6. ASSUME NEW m \in Nodes
        PROVE  /\ nodeIn[m] \in Seq(Delivery) /\ Append(nodeIn[m], d) \in Seq(Delivery)
               /\ Len(nodeIn[m]) \in Nat /\ Len(Append(nodeIn[m], d)) = Len(nodeIn[m]) + 1
               /\ \A k \in 1..Len(nodeIn[m]) : Append(nodeIn[m], d)[k] = nodeIn[m][k]
               /\ Append(nodeIn[m], d)[Len(nodeIn[m]) + 1] = d
    BY <1>3, AppendProperties, LenProperties DEF TypeOK
  <1>7. nodeIn' \in [Nodes -> Seq(Delivery)]
    BY <1>4, <1>6
  <1>8. ASSUME NEW m \in Nodes
        PROVE  nodeIn'[m] = IF m \in holders THEN Append(nodeIn[m], d) ELSE nodeIn[m]
    BY <1>4
  <1>9. ASSUME NEW m \in Nodes
        PROVE  \/ nodeIn'[m] = nodeIn[m]
               \/ /\ m \in alive
                  /\ Len(nodeIn[m]) \in Nat
                  /\ Len(nodeIn'[m]) = Len(nodeIn[m]) + 1
                  /\ \A k \in 1..Len(nodeIn[m]) : nodeIn'[m][k] = nodeIn[m][k]
                  /\ nodeIn'[m][Len(nodeIn[m]) + 1] = d
    <2>1. CASE m \in holders
      <3>1. nodeIn'[m] = Append(nodeIn[m], d) /\ m \in alive
        BY <1>5, <1>8, <2>1
      <3>2. QED
        BY <1>6, <3>1, Zenon
    <2>2. CASE m \notin holders
      BY <1>8, <2>2
    <2>3. QED
      BY <2>1, <2>2
  <1>10. QED
    BY <1>1, <1>3, <1>7, <1>9 DEF d

LEMMA RunRangeType ==
    ASSUME TypeOK, UnderWay, NEW n \in Nodes, Run(n), RunRange(n)
    PROVE  TypeOK' /\ UnderWay'
  <1>1. /\ commands[n] # <<>> /\ commands' = Rest(n) /\ UNCHANGED <<presence, confirmed>>
        /\ UNCHANGED <<alive, socket, noUpdates, registry, beat, routerIn, published,
                       renders, got, lost, events>>
    BY DEF Run, RunRange
  <1>2. /\ commands' \in [Nodes -> Seq(Cmds)]
        /\ \A m \in Nodes : \A k \in 1..Len(commands'[m]) : Fits(m, commands'[m][k])
    BY <1>1, RestFits
  <1>3. ASSUME NEW m \in Nodes, NEW k \in 1..Len(nodeIn'[m])
        PROVE  nodeIn'[m][k].update <= Len(published)
    <2> DEFINE i == Head(commands[n]).update
               d == [update |-> i, router |-> n]
    <2>1. d.update = i /\ i \in 1..Len(published)
      BY <1>1, AfterRange
    <2>2. CASE nodeIn'[m] = nodeIn[m]
      BY <1>3, <2>2 DEF UnderWay
    <2>3. CASE /\ Len(nodeIn[m]) \in Nat
               /\ Len(nodeIn'[m]) = Len(nodeIn[m]) + 1
               /\ \A j \in 1..Len(nodeIn[m]) : nodeIn'[m][j] = nodeIn[m][j]
               /\ nodeIn'[m][Len(nodeIn[m]) + 1] = d
      <3> HIDE DEF d, i
      <3>1. k \in 1..Len(nodeIn[m]) \/ k = Len(nodeIn[m]) + 1
        BY <1>3, <2>3
      <3>2. CASE k \in 1..Len(nodeIn[m])
        BY <2>3, <3>2 DEF UnderWay
      <3>3. CASE k = Len(nodeIn[m]) + 1
        <4>1. nodeIn'[m][k].update = i
          BY <2>1, <2>3, <3>3
        <4>2. Len(published) \in Nat
          BY LenProperties DEF TypeOK
        <4>3. QED
          BY <2>1, <4>1, <4>2
      <3>4. QED
        BY <3>1, <3>2, <3>3
    <2>4. QED
      BY <1>1, <2>2, <2>3, AfterRange
  <1>4. UnderWay'
    BY <1>1, <1>2, <1>3 DEF UnderWay, Fits
  <1>5. nodeIn' \in [Nodes -> Seq(Delivery)]
    BY <1>1, AfterRange
  <1>6. QED
    BY <1>1, <1>2, <1>4, <1>5 DEF TypeOK, registry

-----------------------------------------------------------------------------
(***************************************************************************)
(* The bus, crashes and time.                                              *)
(***************************************************************************)
LEMMA PublishType ==
    ASSUME TypeOK, UnderWay, NEW t \in Targets, Publish(t)
    PROVE  TypeOK' /\ UnderWay'
  <1> DEFINE i == Len(published) + 1
  <1>1. /\ published' \in Seq(Targets) /\ Len(published') = i
        /\ \A k \in 1..Len(published) : published'[k] = published[k]
        /\ Len(published) \in Nat /\ i \in 1..MaxUpdates
    BY AppendProperties, LenProperties, DeliveryAssumption DEF Publish, TypeOK
  <1>2. routerIn' = [n \in Nodes |-> IF n \in Routers \cap alive
                                     THEN Append(routerIn[n], i) ELSE routerIn[n]]
    BY DEF Publish
  <1> HIDE DEF i
  <1>3. ASSUME NEW n \in Nodes
        PROVE  /\ routerIn[n] \in Seq(1..MaxUpdates) /\ Append(routerIn[n], i) \in Seq(1..MaxUpdates)
               /\ Len(routerIn[n]) \in Nat /\ Len(Append(routerIn[n], i)) = Len(routerIn[n]) + 1
               /\ \A k \in 1..Len(routerIn[n]) : Append(routerIn[n], i)[k] = routerIn[n][k]
               /\ Append(routerIn[n], i)[Len(routerIn[n]) + 1] = i
    BY <1>1, AppendProperties, LenProperties DEF TypeOK
  <1>4. routerIn' \in [Nodes -> Seq(1..MaxUpdates)]
    BY <1>2, <1>3
  <1>5. /\ UNCHANGED <<alive, socket, noUpdates, registry, presence, commands, beat, nodeIn, got,
                       lost, events, confirmed>>
        /\ renders' \in Seq(Renderings)
    BY AppendProperties DEF Publish, TypeOK
  <1>6. TypeOK'
    BY <1>1, <1>4, <1>5 DEF TypeOK, registry
  <1>7. ASSUME NEW n \in Nodes, NEW k \in 1..Len(routerIn'[n])
        PROVE  n \in Routers /\ routerIn'[n][k] <= Len(published')
    <2>1. CASE n \in Routers \cap alive
      <3>1. routerIn'[n] = Append(routerIn[n], i)
        BY <1>2, <2>1
      <3>2. k \in 1..Len(routerIn[n]) \/ k = Len(routerIn[n]) + 1
        BY <1>3, <1>7, <3>1
      <3>3. CASE k \in 1..Len(routerIn[n])
        <4>1. routerIn[n][k] <= Len(published) /\ routerIn[n][k] \in 1..MaxUpdates
          BY <1>3, <3>3, ElementOfSeq DEF UnderWay
        <4>2. routerIn'[n][k] = routerIn[n][k]
          BY <1>3, <3>1, <3>3
        <4>3. QED
          BY <1>1, <2>1, <4>1, <4>2 DEF i
      <3>4. CASE k = Len(routerIn[n]) + 1
        BY <1>1, <1>3, <2>1, <3>1, <3>4 DEF i
      <3>5. QED
        BY <3>2, <3>3, <3>4
    <2>2. CASE n \notin Routers \cap alive
      <3>1. routerIn'[n] = routerIn[n]
        BY <1>2, <2>2
      <3>2. routerIn[n][k] <= Len(published) /\ routerIn[n][k] \in 1..MaxUpdates /\ n \in Routers
        BY <1>3, <1>7, <3>1, ElementOfSeq DEF UnderWay
      <3>3. QED
        BY <1>1, <3>1, <3>2 DEF i
    <2>3. QED
      BY <2>1, <2>2
  <1>8. ASSUME NEW n \in Nodes, NEW k \in 1..Len(commands'[n])
        PROVE  Fits(n, commands[n][k])'
    <2>1. Fits(n, commands[n][k])
      BY <1>5, <1>8 DEF UnderWay
    <2>2. commands'[n][k] = commands[n][k] /\ Len(published') = Len(published) + 1
      BY <1>1, <1>5 DEF i
    <2>3. Len(published) \in Nat
      BY <1>1
    <2>4. \A x : Fits(n, x) => Fits(n, x)'
      BY <2>2, <2>3 DEF Fits, IsLookup
    <2>5. QED
      BY <2>1, <2>2, <2>4
  <1>9. ASSUME NEW n \in Nodes, NEW k \in 1..Len(nodeIn'[n])
        PROVE  nodeIn'[n][k].update <= Len(published')
    <2>1. nodeIn[n][k].update <= Len(published) /\ nodeIn[n][k] \in Delivery
      BY <1>5, <1>9, ElementOfSeq DEF UnderWay, TypeOK
    <2>2. QED
      BY <1>1, <1>5, <2>1 DEF Delivery, i
  <1>10. ASSUME NEW c \in Conns, NEW k \in 1..Len(got'[c])
         PROVE  got'[c][k].update <= Len(published')
    <2>1. got[c][k].update <= Len(published) /\ got[c][k] \in Delivery
      BY <1>5, <1>10, ElementOfSeq DEF UnderWay, TypeOK
    <2>2. QED
      BY <1>1, <1>5, <2>1 DEF Delivery, i
  <1>11. Len(published') <= MaxUpdates
    BY <1>1
  <1>12. QED
    BY <1>6, <1>7, <1>8, <1>9, <1>10, <1>11 DEF UnderWay

LEMMA AfterRoute ==
    ASSUME TypeOK, UnderWay, NEW n \in Nodes, Route(n)
    PROVE  /\ Head(routerIn[n]) = routerIn[n][1]
           /\ routerIn' \in [Nodes -> Seq(1..MaxUpdates)]
           /\ \A m \in Nodes \ {n} : routerIn'[m] = routerIn[m]
           /\ Len(routerIn[n]) \in Nat \ {0} /\ Len(routerIn'[n]) = Len(routerIn[n]) - 1
           /\ \A k \in 1..Len(routerIn'[n]) :
                k + 1 \in 1..Len(routerIn[n]) /\ routerIn'[n][k] = routerIn[n][k + 1]
  <1>1. routerIn[n] # <<>> /\ routerIn' = [routerIn EXCEPT ![n] = Tail(@)]
    BY DEF Route
  <1>2. /\ routerIn[n] \in Seq(1..MaxUpdates) /\ Len(routerIn[n]) \in Nat \ {0}
        /\ Head(routerIn[n]) = routerIn[n][1] /\ Tail(routerIn[n]) \in Seq(1..MaxUpdates)
        /\ Len(Tail(routerIn[n])) = Len(routerIn[n]) - 1
        /\ \A k \in 1..Len(Tail(routerIn[n])) : Tail(routerIn[n])[k] = routerIn[n][k + 1]
    BY <1>1, EmptySeq, HeadTailProperties DEF TypeOK
  <1>3. \A k \in 1..Len(Tail(routerIn[n])) : k + 1 \in 1..Len(routerIn[n])
    BY <1>2
  <1>4. /\ routerIn'[n] = Tail(routerIn[n]) /\ routerIn' \in [Nodes -> Seq(1..MaxUpdates)]
        /\ \A m \in Nodes \ {n} : routerIn'[m] = routerIn[m]
    BY <1>1, <1>2 DEF TypeOK
  <1>5. QED
    BY <1>2, <1>3, <1>4

LEMMA RouteSends ==
    ASSUME TypeOK, UnderWay, NEW n \in Nodes, Route(n), NEW i, i = Head(routerIn[n])
    PROVE  /\ n \in Routers /\ i \in 1..Len(published)
           /\ Send(n, <<Lookup("prune", i)>>)
           /\ commands' \in [Nodes -> Seq(Cmds)]
           /\ \A m \in Nodes \ {n} : commands'[m] = commands[m]
           /\ Len(commands[n]) \in Nat /\ Len(commands'[n]) = Len(commands[n]) + 1
           /\ \A k \in 1..Len(commands[n]) : commands'[n][k] = commands[n][k]
           /\ commands'[n][Len(commands[n]) + 1] = Lookup("prune", i)
  <1>1. i = routerIn[n][1] /\ 1 \in 1..Len(routerIn[n])
    BY AfterRoute
  <1>2. routerIn[n] \in Seq(1..MaxUpdates) /\ Len(published) \in Nat
    BY LenProperties DEF TypeOK
  <1>3. i \in 1..MaxUpdates
    BY <1>1, <1>2, ElementOfSeq
  <1>4. n \in Routers /\ i <= Len(published)
    BY <1>1 DEF UnderWay
  <1>5. i \in 1..Len(published)
    BY <1>2, <1>3, <1>4
  <1> DEFINE x == Lookup("prune", i)
             cmds == <<x>>
  <1>6. x \in Cmds
    BY <1>5, LookupType
  <1> HIDE DEF x
  <1>7. cmds \in Seq(Cmds) /\ Len(cmds) = 1 /\ cmds[1] = x
    BY <1>6
  <1>8. Send(n, cmds)
    BY DEF Route, x
  <1> HIDE DEF cmds
  <1>9. /\ commands' \in [Nodes -> Seq(Cmds)]
        /\ \A m \in Nodes \ {n} : commands'[m] = commands[m]
        /\ Len(commands'[n]) = Len(commands[n]) + Len(cmds)
        /\ Len(commands[n]) \in Nat
        /\ \A k \in 1..Len(commands'[n]) :
             commands'[n][k] = IF k <= Len(commands[n]) THEN commands[n][k]
                               ELSE cmds[k - Len(commands[n])]
    BY <1>7, <1>8, AfterSend
  <1>10. \A k \in 1..Len(commands[n]) : commands'[n][k] = commands[n][k]
    BY <1>7, <1>9
  <1>11. Len(commands[n]) + 1 \in 1..Len(commands'[n])
    BY <1>7, <1>9
  <1>12. commands'[n][Len(commands[n]) + 1] = cmds[1]
    <2> DEFINE k == Len(commands[n]) + 1
    <2>1. ~(k <= Len(commands[n])) /\ k - Len(commands[n]) = 1
      BY <1>9
    <2> HIDE DEF k
    <2>2. k \in 1..Len(commands'[n])
      BY <1>11 DEF k
    <2>3. commands'[n][k] = cmds[k - Len(commands[n])]
      BY <1>9, <2>1, <2>2
    <2>4. QED
      BY <2>1, <2>3 DEF k
  <1>13. QED
    BY <1>4, <1>5, <1>7, <1>8, <1>9, <1>10, <1>12 DEF x, cmds

LEMMA RouteType ==
    ASSUME TypeOK, UnderWay, NEW n \in Nodes, Route(n)
    PROVE  TypeOK' /\ UnderWay'
  <1> DEFINE i == Head(routerIn[n])
             x == Lookup("prune", i)
  <1>1. /\ n \in Routers /\ i \in 1..Len(published) /\ commands' \in [Nodes -> Seq(Cmds)]
        /\ \A m \in Nodes \ {n} : commands'[m] = commands[m]
        /\ Len(commands[n]) \in Nat /\ Len(commands'[n]) = Len(commands[n]) + 1
        /\ \A k \in 1..Len(commands[n]) : commands'[n][k] = commands[n][k]
        /\ commands'[n][Len(commands[n]) + 1] = x
    BY RouteSends
  <1>2. UNCHANGED <<alive, socket, noUpdates, registry, presence, beat, nodeIn, published, renders,
                    got, lost, events, confirmed>>
    BY DEF Route
  <1>3. x.update = i /\ x.cmd = "prune"
    BY DEF Lookup
  <1>4. Fits(n, x)
    BY <1>1, <1>3 DEF Fits, IsLookup
  <1> HIDE DEF x, i
  <1>5. ASSUME NEW m \in Nodes, NEW k \in 1..Len(commands'[m])
        PROVE  Fits(m, commands'[m][k])
    <2>1. CASE m # n
      BY <1>1, <1>5, <2>1 DEF UnderWay
    <2>2. CASE m = n /\ k \in 1..Len(commands[n])
      BY <1>1, <1>5, <2>2 DEF UnderWay
    <2>3. CASE m = n /\ k = Len(commands[n]) + 1
      BY <1>1, <1>4, <1>5, <2>3
    <2>4. QED
      BY <1>1, <1>5, <2>1, <2>2, <2>3
  <1>6. routerIn' \in [Nodes -> Seq(1..MaxUpdates)]
    BY AfterRoute
  <1>7. ASSUME NEW m \in Nodes, NEW k \in 1..Len(routerIn'[m])
        PROVE  m \in Routers /\ routerIn'[m][k] <= Len(published)
    <2>1. CASE m # n
      BY <1>7, <2>1, AfterRoute DEF UnderWay
    <2>2. CASE m = n
      <3>1. k + 1 \in 1..Len(routerIn[n]) /\ routerIn'[n][k] = routerIn[n][k + 1]
        BY <1>7, <2>2, AfterRoute
      <3>2. QED
        BY <2>2, <3>1 DEF UnderWay
    <2>3. QED
      BY <2>1, <2>2
  <1>8. UnderWay'
    BY <1>2, <1>5, <1>7 DEF UnderWay, Fits
  <1>9. QED
    BY <1>1, <1>2, <1>6, <1>8 DEF TypeOK, registry

LEMMA AfterDeliver ==
    ASSUME TypeOK, NEW n \in Nodes, Deliver(n), NEW d, d = Head(nodeIn[n])
    PROVE  /\ d \in Delivery /\ d = nodeIn[n][1]
           /\ Len(nodeIn[n]) \in Nat \ {0} /\ Len(nodeIn'[n]) = Len(nodeIn[n]) - 1
           /\ nodeIn' \in [Nodes -> Seq(Delivery)]
           /\ \A m \in Nodes \ {n} : nodeIn'[m] = nodeIn[m]
           /\ \A k \in 1..Len(nodeIn'[n]) :
                k + 1 \in 1..Len(nodeIn[n]) /\ nodeIn'[n][k] = nodeIn[n][k + 1]
  <1>1. nodeIn[n] # <<>> /\ nodeIn' = [nodeIn EXCEPT ![n] = Tail(@)]
    BY DEF Deliver
  <1>2. /\ nodeIn[n] \in Seq(Delivery) /\ Len(nodeIn[n]) \in Nat \ {0}
        /\ d = nodeIn[n][1] /\ Tail(nodeIn[n]) \in Seq(Delivery)
        /\ Len(Tail(nodeIn[n])) = Len(nodeIn[n]) - 1
        /\ \A k \in 1..Len(Tail(nodeIn[n])) : Tail(nodeIn[n])[k] = nodeIn[n][k + 1]
    BY <1>1, EmptySeq, HeadTailProperties DEF TypeOK
  <1>3. d \in Delivery
    <2>1. 1 \in 1..Len(nodeIn[n])
      BY <1>2
    <2>2. QED
      BY <1>2, <2>1, ElementOfSeq
  <1>4. \A k \in 1..Len(Tail(nodeIn[n])) : k + 1 \in 1..Len(nodeIn[n])
    BY <1>2
  <1>5. /\ nodeIn'[n] = Tail(nodeIn[n]) /\ nodeIn' \in [Nodes -> Seq(Delivery)]
        /\ \A m \in Nodes \ {n} : nodeIn'[m] = nodeIn[m]
    BY <1>1, <1>2 DEF TypeOK
  <1>6. QED
    BY <1>2, <1>3, <1>4, <1>5

\* Sent(c, d): c was sent d, or nothing.
Sent(c, d) ==
    \/ got'[c] = got[c]
    \/ /\ Len(got[c]) \in Nat /\ Len(got'[c]) = Len(got[c]) + 1
       /\ \A k \in 1..Len(got[c]) : got'[c][k] = got[c][k]
       /\ got'[c][Len(got[c]) + 1] = d

LEMMA DeliverSends ==
    ASSUME TypeOK, NEW n \in Nodes, Deliver(n), NEW d, d = Head(nodeIn[n])
    PROVE  /\ got' \in [Conns -> Seq(Delivery)]
           /\ \A c \in Local(n) : Sent(c, d)
           /\ \A c \in Conns \ Local(n) : got'[c] = got[c]
  <1>1. PICK H \in ServedBy(n, d.update) :
             got' = [c \in Conns |-> IF c \in H THEN Append(got[c], d) ELSE got[c]]
    BY DEF Deliver
  <1>2. d \in Delivery
    BY AfterDeliver
  <1>3. H \subseteq Local(n) /\ Local(n) \subseteq Conns
    BY DEF ServedBy, Rendered, Held, Local
  <1>4. ASSUME NEW c \in Conns
        PROVE  /\ got[c] \in Seq(Delivery) /\ Append(got[c], d) \in Seq(Delivery)
               /\ Len(got[c]) \in Nat /\ Len(Append(got[c], d)) = Len(got[c]) + 1
               /\ \A k \in 1..Len(got[c]) : Append(got[c], d)[k] = got[c][k]
               /\ Append(got[c], d)[Len(got[c]) + 1] = d
    BY <1>2, AppendProperties, LenProperties DEF TypeOK
  <1>5. got' \in [Conns -> Seq(Delivery)]
    BY <1>1, <1>4
  <1>6. ASSUME NEW c \in Conns
        PROVE  got'[c] = got[c] \/ (c \in H /\ got'[c] = Append(got[c], d))
    BY <1>1
  <1>7. ASSUME NEW c \in Local(n)
        PROVE  Sent(c, d)
    BY <1>3, <1>4, <1>6 DEF Sent
  <1>8. ASSUME NEW c \in Conns \ Local(n)
        PROVE  got'[c] = got[c]
    BY <1>3, <1>6
  <1>9. QED
    BY <1>5, <1>7, <1>8

LEMMA DeliverType ==
    ASSUME TypeOK, UnderWay, NEW n \in Nodes, Deliver(n)
    PROVE  TypeOK' /\ UnderWay'
  <1> DEFINE d == Head(nodeIn[n])
  <1>1. UNCHANGED <<alive, socket, noUpdates, registry, presence, commands, beat, routerIn,
                    published, renders, lost, events, confirmed>>
    BY DEF Deliver
  <1>2. d.update <= Len(published)
    <2>1. d = nodeIn[n][1] /\ 1 \in 1..Len(nodeIn[n])
      BY AfterDeliver
    <2>2. QED
      BY <2>1 DEF UnderWay
  <1>3. ASSUME NEW m \in Nodes, NEW k \in 1..Len(nodeIn'[m])
        PROVE  nodeIn'[m][k].update <= Len(published)
    <2>1. CASE m # n
      BY <1>3, <2>1, AfterDeliver DEF UnderWay
    <2>2. CASE m = n
      <3>1. k + 1 \in 1..Len(nodeIn[n]) /\ nodeIn'[n][k] = nodeIn[n][k + 1]
        BY <1>3, <2>2, AfterDeliver
      <3>2. QED
        BY <2>2, <3>1 DEF UnderWay
    <2>3. QED
      BY <2>1, <2>2
  <1>4. /\ got' \in [Conns -> Seq(Delivery)]
        /\ \A c \in Conns : Sent(c, d) \/ got'[c] = got[c]
    BY DeliverSends
  <1>5. ASSUME NEW c \in Conns, NEW k \in 1..Len(got'[c])
        PROVE  got'[c][k].update <= Len(published)
    <2>1. CASE got'[c] = got[c]
      BY <1>5, <2>1 DEF UnderWay
    <2>2. CASE /\ Len(got[c]) \in Nat /\ Len(got'[c]) = Len(got[c]) + 1
               /\ \A j \in 1..Len(got[c]) : got'[c][j] = got[c][j]
               /\ got'[c][Len(got[c]) + 1] = d
      <3> HIDE DEF d
      <3>1. k \in 1..Len(got[c]) \/ k = Len(got[c]) + 1
        BY <1>5, <2>2
      <3>2. QED
        BY <1>2, <2>2, <3>1 DEF UnderWay
    <2>3. QED
      BY <1>4, <2>1, <2>2 DEF Sent
  <1>6. UnderWay'
    BY <1>1, <1>3, <1>5 DEF UnderWay, Fits
  <1>7. nodeIn' \in [Nodes -> Seq(Delivery)]
    BY AfterDeliver
  <1>8. QED
    BY <1>1, <1>4, <1>6, <1>7 DEF TypeOK, registry

LEMMA CrashType ==
    ASSUME TypeOK, UnderWay, NEW n \in Nodes, Crash(n)
    PROVE  TypeOK' /\ UnderWay'
  <1>1. /\ commands' = [commands EXCEPT ![n] = <<>>]
        /\ routerIn' = [routerIn EXCEPT ![n] = <<>>]
        /\ nodeIn' = [nodeIn EXCEPT ![n] = <<>>]
        /\ UNCHANGED <<presence, beat, published, renders, got, lost>> /\ Forget(n)
    BY DEF Crash
  <1>2. \A S : <<>> \in Seq(S) /\ Len(<<>>) = 0
    BY EmptySeq
  <1>3. /\ commands' \in [Nodes -> Seq(Cmds)]
        /\ routerIn' \in [Nodes -> Seq(1..MaxUpdates)]
        /\ nodeIn' \in [Nodes -> Seq(Delivery)]
    BY <1>1, <1>2 DEF TypeOK
  <1>4. \A m \in Nodes : /\ commands'[m] = commands[m] \/ Len(commands'[m]) = 0
                         /\ routerIn'[m] = routerIn[m] \/ Len(routerIn'[m]) = 0
                         /\ nodeIn'[m] = nodeIn[m] \/ Len(nodeIn'[m]) = 0
    BY <1>1, <1>2 DEF TypeOK
  <1>5. UnderWay'
    BY <1>1, <1>4 DEF UnderWay, Fits
  <1>6. confirmed' \in [Targets -> [Nodes -> BOOLEAN]]
    BY <1>1, ForgetType
  <1>7. events' \in 0..MaxEvents /\ alive' \subseteq Nodes /\ noUpdates' \subseteq Conns
    BY DeliveryAssumption DEF Crash, Event, TypeOK
  <1>8. /\ socket' \in [Conns -> {"open", "closed", "done"}]
        /\ regSubject' \in [Conns -> Subjects \cup {None}]
        /\ regKey' \in [Conns -> Keys \cup {None}]
        /\ keyConns' \in [Keys -> SUBSET Conns]
    BY DEF Crash, TypeOK
  <1>9. QED
    BY <1>1, <1>3, <1>5, <1>6, <1>7, <1>8 DEF TypeOK

LEMMA RestartType ==
    ASSUME TypeOK, UnderWay, NEW n \in Nodes, Restart(n)
    PROVE  TypeOK' /\ UnderWay'
  <1>1. UNCHANGED <<noUpdates, registry, presence, commands, bus, lost, confirmed>>
    BY DEF Restart
  <1>2. UnderWay'
    BY <1>1 DEF UnderWay, Fits, bus
  <1>3. /\ events' \in 0..MaxEvents /\ alive' \subseteq Nodes
        /\ socket' \in [Conns -> {"open", "closed", "done"}]
    BY DeliveryAssumption DEF Restart, Event, TypeOK
  <1>4. beat' \in [Nodes -> 0..Period]
    BY PeriodType DEF Restart, TypeOK
  <1>5. QED
    BY <1>1, <1>2, <1>3, <1>4 DEF TypeOK, registry, bus

LEMMA TickType ==
    ASSUME TypeOK, UnderWay, Tick
    PROVE  TypeOK' /\ UnderWay'
  <1>1. UNCHANGED <<alive, socket, noUpdates, registry, commands, bus, lost, confirmed>> /\ events' = 0
    BY DEF Tick
  <1>2. UnderWay'
    BY <1>1 DEF UnderWay, Fits, bus
  <1>3. \A left \in 0..TTL : Aged(left) \in 0..TTL
    BY DeliveryAssumption DEF Aged
  <1>4. presence' \in [Targets -> [Nodes -> 0..TTL]]
    BY <1>3 DEF Tick, TypeOK
  <1>5. beat' \in [Nodes -> 0..Period]
    BY PeriodType DEF Tick, TypeOK
  <1>6. events' \in 0..MaxEvents
    BY <1>1, DeliveryAssumption
  <1>7. QED
    BY <1>1, <1>2, <1>4, <1>5, <1>6 DEF TypeOK, registry, bus

LEMMA TypeStep ==
    TypeOK /\ UnderWay /\ [Next]_vars => TypeOK' /\ UnderWay'
  <1> SUFFICES ASSUME TypeOK, UnderWay, [Next]_vars
               PROVE  TypeOK' /\ UnderWay'
    OBVIOUS
  <1>1. ASSUME NEW c \in Conns, NEW k \in Keys, NEW s \in Subjects \cup {None}, Packet(c, k, s)
        PROVE  TypeOK' /\ UnderWay'
    BY <1>1, PacketType
  <1>2. ASSUME NEW c \in Conns, NEW s \in Subjects, Login(c, s)
        PROVE  TypeOK' /\ UnderWay'
    BY <1>2, LoginType
  <1>3. ASSUME NEW c \in Conns, Logout(c) \/ Close(c)
        PROVE  TypeOK' /\ UnderWay'
    BY <1>3, CloseType
  <1>4. ASSUME NEW n \in Nodes, Heartbeat(n)
        PROVE  TypeOK' /\ UnderWay'
    BY <1>4, HeartbeatType
  <1>5. ASSUME NEW n \in Nodes, Run(n)
        PROVE  TypeOK' /\ UnderWay'
    BY <1>5, RunAddType, RunRemoveType, RunPruneType, RunRangeType DEF Run
  <1>6. ASSUME NEW n \in Nodes, Route(n)
        PROVE  TypeOK' /\ UnderWay'
    BY <1>6, RouteType
  <1>7. ASSUME NEW n \in Nodes, Deliver(n)
        PROVE  TypeOK' /\ UnderWay'
    BY <1>7, DeliverType
  <1>8. ASSUME NEW n \in Nodes, Fail(n) \/ Crash(n) \/ Restart(n)
        PROVE  TypeOK' /\ UnderWay'
    BY <1>8, FailType, CrashType, RestartType
  <1>9. ASSUME NEW t \in Targets, Publish(t)
        PROVE  TypeOK' /\ UnderWay'
    BY <1>9, PublishType
  <1>10. CASE Tick
    BY <1>10, TickType
  <1>11. CASE UNCHANGED vars
    BY <1>11 DEF TypeOK, UnderWay, Fits, vars, registry, bus
  <1>12. ASSUME NEW c \in Conns, OptOut(c)
         PROVE  TypeOK' /\ UnderWay'
    BY <1>12, OptOutType
  <1>13. QED
    BY <1>1, <1>2, <1>3, <1>4, <1>5, <1>6, <1>7, <1>8, <1>9, <1>10, <1>11, <1>12
       DEF Next, System

(***************************************************************************)
(* Types hold: nobody looks up, routes or delivers an update that was not  *)
(* published, and only processes with a router look updates up.            *)
(***************************************************************************)
THEOREM TypeCorrect == Spec => []TypeOK
  BY TypeInit, TypeStep, PTL DEF Spec

-----------------------------------------------------------------------------
(***************************************************************************)
(* Held targets are routable.  An entry that was written outlasts the time *)
(* to the node's next heartbeat and as many periods more as heartbeats can *)
(* still be lost; while the heartbeat's command waits it outlasts those    *)
(* periods.  A crash, or a node that lets a target go, ends the promise.   *)
(***************************************************************************)
Slack(x) == (MaxLost - x) * Period

InQueue(n, cmd, t) ==
    \E k \in 1..Len(commands[n]) : commands[n][k].cmd = cmd /\ commands[n][k].target = t

Covered(n, t) ==
    \/ presence[t][n] > beat[n] + Slack(lost)
    \/ beat[n] = Period /\ presence[t][n] > Slack(lost) /\ InQueue(n, "add", t)

DeadHoldNothing == \A n \in Nodes \ alive, t \in Targets : Held(n, t) = {}
ConfirmedHeld ==
    \A n \in Nodes, t \in Targets :
        confirmed[t][n] => Held(n, t) # {} /\ ~InQueue(n, "remove", t)
ConfirmedCovered ==
    \A n \in Nodes, t \in Targets : confirmed[t][n] => Covered(n, t)

RoutableInv == DeadHoldNothing /\ ConfirmedHeld /\ ConfirmedCovered

LEMMA SlackIsNat ==
    ASSUME NEW x \in 0..MaxLost
    PROVE  Slack(x) \in Nat /\ Slack(x) + Period <= (MaxLost + 1) * Period
  <1> DEFINE P == Period
  <1>1. P \in Nat /\ MaxLost \in Nat /\ x \in Nat /\ MaxLost - x \in Nat
    BY PeriodType, DeliveryAssumption
  <1> HIDE DEF P
  <1>2. \A a, b \in Nat : a * b \in Nat
    OBVIOUS
  <1>3. (MaxLost - x) * P \in Nat /\ x * P \in Nat
    BY <1>1, <1>2
  <1>4. (MaxLost + 1) * P = (MaxLost - x) * P + P + x * P
    BY <1>1
  <1>5. (MaxLost - x) * P + P <= (MaxLost + 1) * P
    BY <1>1, <1>3, <1>4
  <1>6. QED
    BY <1>3, <1>5 DEF Slack, P

LEMMA SlackStep ==
    ASSUME NEW x \in 0..MaxLost, x < MaxLost
    PROVE  Slack(x) = Slack(x + 1) + Period
  <1> DEFINE P == Period
  <1>1. P \in Nat /\ MaxLost \in Nat /\ x \in Nat
    BY PeriodType, DeliveryAssumption
  <1> HIDE DEF P
  <1>2. (MaxLost - x) * P = (MaxLost - (x + 1)) * P + P
    BY <1>1
  <1>3. QED
    BY <1>2 DEF Slack, P

(***************************************************************************)
(* What a step of the queue does to what waits there.                      *)
(***************************************************************************)
LEMMA SendQueue ==
    ASSUME TypeOK, NEW n \in Nodes, NEW cmds \in Seq(Cmds), Send(n, cmds),
           NEW m \in Nodes, NEW cmd, NEW t
    PROVE  /\ InQueue(m, cmd, t) => InQueue(m, cmd, t)'
           /\ InQueue(m, cmd, t)' =>
                \/ InQueue(m, cmd, t)
                \/ m = n /\ \E k \in 1..Len(cmds) : cmds[k].cmd = cmd /\ cmds[k].target = t
           /\ (\E k \in 1..Len(cmds) : cmds[k].cmd = cmd /\ cmds[k].target = t) => InQueue(n, cmd, t)'
  <1>1. /\ commands' \in [Nodes -> Seq(Cmds)]
        /\ \A l \in Nodes \ {n} : commands'[l] = commands[l]
        /\ Len(commands'[n]) = Len(commands[n]) + Len(cmds)
        /\ Len(commands[n]) \in Nat /\ Len(cmds) \in Nat
        /\ \A k \in 1..Len(commands'[n]) :
             commands'[n][k] = IF k <= Len(commands[n]) THEN commands[n][k]
                               ELSE cmds[k - Len(commands[n])]
    BY AfterSend
  <1>2. ASSUME NEW k \in 1..Len(commands[n])
        PROVE  k \in 1..Len(commands'[n]) /\ commands'[n][k] = commands[n][k]
    BY <1>1
  <1>3. ASSUME NEW k \in 1..Len(cmds)
        PROVE  \E l \in 1..Len(commands'[n]) : commands'[n][l] = cmds[k]
    <2> DEFINE l == Len(commands[n]) + k
    <2>1. l \in 1..Len(commands'[n]) /\ ~(l <= Len(commands[n])) /\ l - Len(commands[n]) = k
      BY <1>1
    <2>2. commands'[n][l] = cmds[l - Len(commands[n])]
      BY <1>1, <2>1
    <2>3. QED
      BY <2>1, <2>2
  <1>4. ASSUME NEW k \in 1..Len(commands'[n])
        PROVE  \/ k \in 1..Len(commands[n]) /\ commands'[n][k] = commands[n][k]
               \/ k - Len(commands[n]) \in 1..Len(cmds) /\ commands'[n][k] = cmds[k - Len(commands[n])]
    BY <1>1
  <1>5. InQueue(m, cmd, t) => InQueue(m, cmd, t)'
    BY <1>1, <1>2 DEF InQueue
  <1>6. ASSUME InQueue(m, cmd, t)'
        PROVE  \/ InQueue(m, cmd, t)
               \/ m = n /\ \E k \in 1..Len(cmds) : cmds[k].cmd = cmd /\ cmds[k].target = t
    <2>1. PICK k \in 1..Len(commands'[m]) : commands'[m][k].cmd = cmd /\ commands'[m][k].target = t
      BY <1>6 DEF InQueue
    <2>2. CASE m # n
      BY <1>1, <2>1, <2>2 DEF InQueue
    <2>3. CASE m = n
      <3>1. CASE k \in 1..Len(commands[n]) /\ commands'[n][k] = commands[n][k]
        BY <2>1, <2>3, <3>1 DEF InQueue
      <3>2. CASE k - Len(commands[n]) \in 1..Len(cmds) /\ commands'[n][k] = cmds[k - Len(commands[n])]
        BY <2>1, <2>3, <3>2
      <3>3. QED
        BY <1>4, <2>1, <2>3, <3>1, <3>2
    <2>4. QED
      BY <2>2, <2>3
  <1>7. ASSUME NEW k \in 1..Len(cmds), cmds[k].cmd = cmd /\ cmds[k].target = t
        PROVE  InQueue(n, cmd, t)'
    BY <1>3, <1>7 DEF InQueue
  <1>8. QED
    BY <1>5, <1>6, <1>7

LEMMA RestQueue ==
    ASSUME TypeOK, NEW n \in Nodes, commands[n] # <<>>, commands' = Rest(n),
           NEW m \in Nodes, NEW cmd, NEW t
    PROVE  /\ InQueue(m, cmd, t)' => InQueue(m, cmd, t)
           /\ InQueue(m, cmd, t) =>
                \/ InQueue(m, cmd, t)'
                \/ m = n /\ Head(commands[n]).cmd = cmd /\ Head(commands[n]).target = t
  <1>1. CASE m # n
    BY <1>1, AfterRest DEF InQueue
  <1>2. CASE m = n
    <2>1. \A k \in 1..Len(commands'[n]) :
            k + 1 \in 1..Len(commands[n]) /\ commands'[n][k] = commands[n][k + 1]
      BY AfterRest
    <2>2. ASSUME NEW k \in 1..Len(commands[n]), k # 1
          PROVE  k - 1 \in 1..Len(commands'[n]) /\ commands'[n][k - 1] = commands[n][k]
      <3>1. k - 1 \in 1..Len(commands'[n]) /\ (k - 1) + 1 = k
        BY <2>2, AfterRest
      <3>2. QED
        BY <2>1, <3>1
    <2>3. Head(commands[n]) = commands[n][1]
      BY AfterRest
    <2>4. InQueue(n, cmd, t)' => InQueue(n, cmd, t)
      BY <2>1 DEF InQueue
    <2>5. ASSUME InQueue(n, cmd, t)
          PROVE  InQueue(n, cmd, t)' \/ (Head(commands[n]).cmd = cmd /\ Head(commands[n]).target = t)
      <3>1. PICK k \in 1..Len(commands[n]) : commands[n][k].cmd = cmd /\ commands[n][k].target = t
        BY <2>5 DEF InQueue
      <3>2. CASE k = 1
        BY <2>3, <3>1, <3>2
      <3>3. CASE k # 1
        BY <2>2, <3>1, <3>3 DEF InQueue
      <3>4. QED
        BY <3>2, <3>3
    <2>6. QED
      BY <1>2, <2>4, <2>5
  <1>3. QED
    BY <1>1, <1>2

LEMMA PruneQueue ==
    ASSUME TypeOK, UnderWay, NEW n \in Nodes, commands[n] # <<>>, RunPrune(n),
           NEW m \in Nodes, NEW cmd \in {"add", "remove"}, NEW t
    PROVE  InQueue(m, cmd, t)' <=> InQueue(m, cmd, t)
  <1>1. CASE m # n
    BY <1>1, AfterPrune DEF InQueue
  <1>2. CASE m = n
    <2>1. /\ Len(commands'[n]) = Len(commands[n]) /\ Len(commands[n]) \in Nat \ {0}
          /\ \A k \in 1..(Len(commands[n]) - 1) : commands'[n][k] = commands[n][k + 1]
          /\ commands'[n][Len(commands[n])] = Lookup("range", Head(commands[n]).update)
      BY AfterPrune
    <2>2. commands'[n][Len(commands[n])].cmd = "range"
      BY <2>1 DEF Lookup
    <2>3. commands[n][1].cmd = "prune"
      <3>1. commands[n] \in Seq(Cmds)
        BY DEF TypeOK
      <3>2. QED
        BY <3>1, HeadTailProperties DEF RunPrune
    <2>4. ASSUME NEW k \in 1..Len(commands'[n]), k # Len(commands[n])
          PROVE  k + 1 \in 1..Len(commands[n]) /\ commands'[n][k] = commands[n][k + 1]
      BY <2>1, <2>4
    <2>5. ASSUME NEW k \in 1..Len(commands[n]), k # 1
          PROVE  k - 1 \in 1..Len(commands'[n]) /\ commands'[n][k - 1] = commands[n][k]
      <3>1. k - 1 \in 1..(Len(commands[n]) - 1) /\ (k - 1) + 1 = k
        BY <2>1, <2>5
      <3>2. QED
        BY <2>1, <3>1
    <2>6. QED
      BY <1>2, <2>2, <2>3, <2>4, <2>5 DEF InQueue
  <1>3. QED
    BY <1>1, <1>2

(***************************************************************************)
(* The registry and the binder.                                            *)
(***************************************************************************)
LEMMA ForgetConfirms ==
    ASSUME TypeOK, NEW n \in Nodes, Forget(n), NEW m \in Nodes, NEW t \in Targets, confirmed'[t][m]
    PROVE  confirmed[t][m] /\ (m = n => Held(n, t)' # {})
  BY DEF Forget, TypeOK

LEMMA BinderKeepsRoutable ==
    ASSUME TypeOK, RoutableInv, NEW n \in alive, NEW cmds, NEW cmd \in {"add", "remove"},
           Plain(cmds, cmd), Send(n, cmds), Forget(n), UNCHANGED <<alive, presence, beat, lost>>,
           \A m \in Nodes \ {n}, t \in Targets : Held(m, t)' = Held(m, t),
           cmd = "remove" => \A k \in 1..Len(cmds) : Held(n, cmds[k].target)' = {}
    PROVE  RoutableInv'
  <1>1. n \in Nodes /\ cmds \in Seq(Cmds)
    BY DEF TypeOK, Plain
  <1>2. DeadHoldNothing'
    BY <1>1 DEF DeadHoldNothing, RoutableInv
  <1>3. ASSUME NEW m \in Nodes, NEW t \in Targets, confirmed'[t][m]
        PROVE  Held(m, t)' # {} /\ ~InQueue(m, "remove", t)' /\ Covered(m, t)'
    <2>1. confirmed[t][m] /\ (m = n => Held(n, t)' # {})
      BY <1>1, <1>3, ForgetConfirms
    <2>2. Held(m, t) # {} /\ ~InQueue(m, "remove", t) /\ Covered(m, t)
      BY <2>1 DEF RoutableInv, ConfirmedHeld, ConfirmedCovered
    <2>3. Held(m, t)' # {}
      BY <2>1, <2>2
    <2>4. ~InQueue(m, "remove", t)'
      <3>1. SUFFICES ASSUME InQueue(m, "remove", t)' PROVE FALSE
        OBVIOUS
      <3>2. m = n /\ \E k \in 1..Len(cmds) : cmds[k].cmd = "remove" /\ cmds[k].target = t
        BY <1>1, <2>2, <3>1, SendQueue
      <3>3. QED
        BY <2>3, <3>2 DEF Plain
    <2>5. InQueue(m, "add", t) => InQueue(m, "add", t)'
      BY <1>1, SendQueue
    <2>6. Covered(m, t)'
      BY <2>2, <2>5 DEF Covered
    <2>7. QED
      BY <2>3, <2>4, <2>6
  <1>4. QED
    BY <1>2, <1>3 DEF RoutableInv, ConfirmedHeld, ConfirmedCovered

LEMMA BindersRoutable ==
    ASSUME TypeOK, RoutableInv, NEW c \in Conns,
           \/ \E k \in Keys, s \in Subjects \cup {None} : Packet(c, k, s)
           \/ \E s \in Subjects : Login(c, s)
    PROVE  RoutableInv'
  <1> DEFINE n == NodeOf[c]
  <1>1. n \in Nodes
    BY DeliveryAssumption
  <1>2. ASSUME NEW k \in Keys, NEW s \in Subjects \cup {None}, Packet(c, k, s)
        PROVE  RoutableInv'
    <2> DEFINE cmds == <<Command("add", k)>> \o BindCommands(c, s)
    <2>1. /\ n \in alive /\ Send(n, cmds) /\ Forget(n) /\ UNCHANGED <<alive, presence, beat, lost>>
      BY <1>2 DEF Packet
    <2>2. Plain(cmds, "add")
      BY PacketPlain
    <2>3. ASSUME NEW m \in Nodes \ {n}, NEW t \in Targets
          PROVE  Held(m, t)' = Held(m, t)
      <3>1. /\ \A x \in Conns \ {c} : regSubject'[x] = regSubject[x]
            /\ \A x \in Conns \ {c}, y \in Keys : x \in keyConns'[y] <=> x \in keyConns[y]
            /\ regSubject' \in [Conns -> Subjects \cup {None}] /\ keyConns' \in [Keys -> SUBSET Conns]
        BY <1>2 DEF Packet, Registered, TypeOK
      <3>2. QED
        BY <2>3, <3>1 DEF Held, Listed, Local, TypeOK
    <2> HIDE DEF cmds, n
    <2>4. QED
      BY <2>1, <2>2, <2>3, BinderKeepsRoutable
  <1>3. ASSUME NEW s \in Subjects, Login(c, s)
        PROVE  RoutableInv'
    <2> DEFINE cmds == BindCommands(c, s)
    <2>1. /\ n \in alive /\ Send(n, cmds) /\ Forget(n) /\ UNCHANGED <<alive, presence, beat, lost>>
      BY <1>3 DEF Login
    <2>2. Plain(cmds, "add")
      BY BindPlain
    <2>3. ASSUME NEW m \in Nodes \ {n}, NEW t \in Targets
          PROVE  Held(m, t)' = Held(m, t)
      <3>1. /\ \A x \in Conns \ {c} : regSubject'[x] = regSubject[x]
            /\ regSubject' \in [Conns -> Subjects \cup {None}] /\ keyConns' = keyConns
        BY <1>3 DEF Login, Registered, TypeOK
      <3>2. QED
        BY <2>3, <3>1 DEF Held, Listed, Local, TypeOK
    <2> HIDE DEF cmds, n
    <2>4. QED
      BY <2>1, <2>2, <2>3, BinderKeepsRoutable
  <1>4. QED
    BY <1>2, <1>3

LEMMA UnbindRoutable ==
    ASSUME TypeOK, RoutableInv, NEW c \in Conns, Logout(c) \/ Close(c)
    PROVE  RoutableInv'
  <1> DEFINE n == NodeOf[c]
             cmds == ReleasedCommands(c)
  <1>1. /\ n \in alive /\ Unbind(c) /\ UNCHANGED <<alive, presence, beat, lost>>
    BY DEF Logout, Close
  <1>2. Send(n, cmds) /\ Forget(n)
    BY <1>1 DEF Unbind, ReleasedCommands, CommandsFor
  <1>3. Plain(cmds, "remove") /\ \A k \in 1..Len(cmds) : cmds[k].target \in Released(c)
    BY ReleasedPlain
  <1>4. /\ \A x \in Conns \ {c} : regSubject'[x] = regSubject[x]
        /\ \A x \in Conns \ {c}, y \in Keys : x \in keyConns'[y] <=> x \in keyConns[y]
        /\ regSubject' \in [Conns -> Subjects \cup {None}] /\ keyConns' \in [Keys -> SUBSET Conns]
        /\ regSubject'[c] = None /\ (regKey[c] # None => c \notin keyConns'[regKey[c]])
    BY <1>1 DEF Unbind, TypeOK
  <1>5. ASSUME NEW m \in Nodes \ {n}, NEW t \in Targets
        PROVE  Held(m, t)' = Held(m, t)
    BY <1>4, <1>5 DEF Held, Listed, Local, TypeOK
  <1>6. ASSUME NEW t \in Released(c)
        PROVE  Held(n, t)' = {}
    <2>1. t \in {regSubject[c], regKey[c]} \ {None} /\ Held(n, t) = {c}
      BY <1>6 DEF Released
    <2>2. \A x \in Conns \ {c} : x \in Held(n, t)' => x \in Held(n, t)
      BY <1>4, <2>1 DEF Held, Listed, Local, TypeOK
    <2>3. c \notin Held(n, t)'
      <3>1. CASE t \in Keys
        <4>1. t = regKey[c]
          BY <2>1, <3>1, DeliveryAssumption DEF TypeOK, Targets
        <4>2. QED
          BY <1>4, <2>1, <3>1, <4>1 DEF Held, Listed
      <3>2. CASE t \notin Keys
        BY <1>4, <2>1, <3>2 DEF Held, Listed
      <3>3. QED
        BY <3>1, <3>2
    <2>4. Held(n, t)' \subseteq Conns
      BY DEF Held, Local
    <2>5. QED
      BY <2>1, <2>2, <2>3, <2>4
  <1> HIDE DEF cmds, n
  <1>7. QED
    BY <1>1, <1>2, <1>3, <1>5, <1>6, BinderKeepsRoutable

(***************************************************************************)
(* The heartbeat, Redis and time.                                          *)
(***************************************************************************)
LEMMA SameHeld ==
    ASSUME UNCHANGED <<regSubject, keyConns>>, NEW n, NEW t
    PROVE  Held(n, t)' = Held(n, t)
  BY DEF Held, Listed, Local

LEMMA HeartbeatRoutable ==
    ASSUME TypeOK, RoutableInv, NEW n \in Nodes, Heartbeat(n)
    PROVE  RoutableInv'
  <1> DEFINE cmds == RefreshCommands(n)
  <1>1. /\ n \in alive /\ beat[n] = 0 /\ beat' = [beat EXCEPT ![n] = Period] /\ Send(n, cmds)
        /\ UNCHANGED <<alive, socket, noUpdates, registry, presence, bus, lost, events, confirmed>>
    BY DEF Heartbeat, RefreshCommands, CommandsFor
  <1>2. /\ Plain(cmds, "add")
        /\ \A t \in Refreshed(n) : \E k \in 1..Len(cmds) : cmds[k] = Command("add", t)
    BY RefreshPlain
  <1>3. \A m, t : Held(m, t)' = Held(m, t)
    BY <1>1, SameHeld DEF registry
  <1>4. cmds \in Seq(Cmds)
    BY <1>2 DEF Plain
  <1> HIDE DEF cmds
  <1>5. DeadHoldNothing'
    BY <1>1, <1>3 DEF RoutableInv, DeadHoldNothing
  <1>6. ASSUME NEW m \in Nodes, NEW t \in Targets, confirmed'[t][m]
        PROVE  Held(m, t)' # {} /\ ~InQueue(m, "remove", t)' /\ Covered(m, t)'
    <2>1. confirmed[t][m] /\ Held(m, t) # {} /\ ~InQueue(m, "remove", t) /\ Covered(m, t)
      BY <1>1, <1>6 DEF RoutableInv, ConfirmedHeld, ConfirmedCovered
    <2>2. ~InQueue(m, "remove", t)'
      <3>1. \A k \in 1..Len(cmds) : cmds[k].cmd # "remove"
        BY <1>2 DEF Plain
      <3>2. QED
        BY <1>1, <1>4, <2>1, <3>1, SendQueue
    <2>3. CASE m # n
      <3>1. InQueue(m, "add", t) => InQueue(m, "add", t)'
        BY <1>1, <1>4, SendQueue
      <3>2. beat'[m] = beat[m]
        BY <1>1, <2>3 DEF TypeOK
      <3>3. QED
        BY <1>1, <1>3, <2>1, <2>2, <3>1, <3>2 DEF Covered
    <2>4. CASE m = n
      <3>1. t \in Refreshed(n)
        BY <2>1, <2>4 DEF Refreshed
      <3>2. PICK k \in 1..Len(cmds) : cmds[k] = Command("add", t)
        BY <1>2, <3>1
      <3>3. cmds[k].cmd = "add" /\ cmds[k].target = t
        BY <3>2, CommandFields
      <3>4. InQueue(n, "add", t)'
        BY <1>1, <1>4, <3>3, SendQueue
      <3>5. presence[t][n] > Slack(lost)
        <4>1. presence[t][n] \in 0..TTL /\ lost \in 0..MaxLost
          BY DEF TypeOK
        <4>2. Slack(lost) \in Nat /\ Period \in Nat \ {0}
          BY <4>1, SlackIsNat, PeriodType
        <4>3. QED
          BY <1>1, <2>1, <2>4, <4>1, <4>2 DEF Covered
      <3>6. beat'[n] = Period /\ presence' = presence /\ lost' = lost
        BY <1>1 DEF TypeOK
      <3>7. Covered(n, t)'
        <4>1. Slack(lost)' = Slack(lost) /\ Period' = Period
          BY <3>6 DEF Slack, Period
        <4>2. QED
          BY <3>4, <3>5, <3>6, <4>1 DEF Covered
      <3>8. QED
        BY <1>3, <2>1, <2>2, <2>4, <3>7
    <2>5. QED
      BY <2>3, <2>4
  <1>7. QED
    BY <1>5, <1>6 DEF RoutableInv, ConfirmedHeld, ConfirmedCovered

\* A command that neither adds nor removes t, or that leaves the queue alone.
LEMMA OtherCommand ==
    ASSUME NEW n \in Nodes, NEW t \in Targets,
           Held(n, t) # {}, ~InQueue(n, "remove", t), Covered(n, t),
           Held(n, t)' = Held(n, t), UNCHANGED <<beat, lost>>, presence'[t][n] = presence[t][n],
           InQueue(n, "remove", t)' => InQueue(n, "remove", t),
           InQueue(n, "add", t) => InQueue(n, "add", t)'
    PROVE  Held(n, t)' # {} /\ ~InQueue(n, "remove", t)' /\ Covered(n, t)'
  BY DEF Covered

LEMMA RunAddRoutable ==
    ASSUME TTL > (MaxLost + 1) * Period,
           TypeOK, UnderWay, RoutableInv, NEW n \in Nodes, Run(n), RunAdd(n)
    PROVE  RoutableInv'
  <1> DEFINE a == Head(commands[n]).target
  <1>1. /\ commands[n] # <<>> /\ commands' = Rest(n) /\ UNCHANGED <<alive, registry, beat, lost>>
        /\ Head(commands[n]).cmd = "add"
    BY DEF Run, RunAdd
  <1>2. a \in Targets
    BY <1>1, HeadFits DEF Cmds
  <1>3. /\ presence' = [presence EXCEPT ![a][n] = TTL]
        /\ confirmed' = [confirmed EXCEPT ![a][n] = @ \/ Confirms(n, a)]
    BY DEF RunAdd
  <1>4. \A m, t : Held(m, t)' = Held(m, t)
    BY <1>1, SameHeld DEF registry
  <1>5. \A m \in Nodes : \A cmd, t : InQueue(m, cmd, t)' => InQueue(m, cmd, t)
    BY <1>1, RestQueue
  <1>6. \A m \in Nodes : \A t : m # n \/ t # a => (InQueue(m, "add", t) => InQueue(m, "add", t)')
    BY <1>1, RestQueue
  <1> HIDE DEF a
  <1>7. DeadHoldNothing'
    BY <1>1, <1>4 DEF RoutableInv, DeadHoldNothing
  <1>8. ASSUME NEW m \in Nodes, NEW t \in Targets, confirmed'[t][m]
        PROVE  Held(m, t)' # {} /\ ~InQueue(m, "remove", t)' /\ Covered(m, t)'
    <2>1. CASE m # n \/ t # a
      <3>1. confirmed'[t][m] = confirmed[t][m] /\ presence'[t][m] = presence[t][m]
        BY <1>2, <1>3, <2>1 DEF TypeOK
      <3>2. Held(m, t) # {} /\ ~InQueue(m, "remove", t) /\ Covered(m, t)
        BY <1>8, <3>1 DEF RoutableInv, ConfirmedHeld, ConfirmedCovered
      <3>3. QED
        BY <1>1, <1>4, <1>5, <1>6, <2>1, <3>1, <3>2, OtherCommand
    <2>2. CASE m = n /\ t = a
      <3>1. presence'[t][n] = TTL
        BY <1>2, <1>3, <2>2 DEF TypeOK
      <3>2. confirmed'[t][n] <=> (confirmed[t][n] \/ Confirms(n, t))
        BY <1>2, <1>3, <2>2 DEF TypeOK
      <3>3. Held(n, t) # {} /\ ~InQueue(n, "remove", t)'
        <4>1. CASE confirmed[t][n]
          BY <1>5, <4>1 DEF RoutableInv, ConfirmedHeld
        <4>2. CASE Confirms(n, t)
          <5>1. Command("remove", t) \notin ToSet(commands'[n]) /\ Held(n, t) # {}
            BY <1>1, <4>2, AfterRest DEF Confirms
          <5>2. ASSUME NEW k \in 1..Len(commands'[n]),
                       commands'[n][k].cmd = "remove", commands'[n][k].target = t
                PROVE  FALSE
            <6>1. commands'[n] \in Seq(Cmds) /\ Fits(n, commands'[n][k])
              BY <1>1, RestFits
            <6>2. commands'[n][k] \in Cmds /\ DOMAIN commands'[n] = 1..Len(commands'[n])
              BY <6>1, ElementOfSeq, LenProperties
            <6>3. commands'[n][k].update = 0
              BY <5>2, <6>1 DEF Fits, IsLookup
            <6>4. commands'[n][k] = Command("remove", t)
              BY <5>2, <6>2, <6>3 DEF Cmds, Command
            <6>5. QED
              BY <5>1, <6>2, <6>4 DEF ToSet
          <5>3. QED
            BY <5>1, <5>2 DEF InQueue
        <4>3. QED
          BY <1>8, <2>2, <3>2, <4>1, <4>2
      <3>4. Covered(n, t)'
        <4>1. lost \in 0..MaxLost /\ beat[n] \in 0..Period
          BY DEF TypeOK
        <4>2. /\ Slack(lost) \in Nat /\ Slack(lost) + Period <= (MaxLost + 1) * Period
              /\ Period \in Nat
          BY <4>1, SlackIsNat, PeriodType
        <4>3. (MaxLost + 1) * Period \in Int /\ TTL \in Nat
          <5>1. \A x, y \in Int : x * y \in Int
            OBVIOUS
          <5>2. QED
            BY <4>2, <5>1, DeliveryAssumption
        <4>4. TTL > beat[n] + Slack(lost)
          BY <4>1, <4>2, <4>3
        <4>5. Slack(lost)' = Slack(lost) /\ beat' = beat
          BY <1>1 DEF Slack, Period
        <4>6. QED
          BY <3>1, <4>4, <4>5 DEF Covered
      <3>5. QED
        BY <1>4, <2>2, <3>3, <3>4
    <2>3. QED
      BY <2>1, <2>2
  <1>9. QED
    BY <1>7, <1>8 DEF RoutableInv, ConfirmedHeld, ConfirmedCovered

LEMMA RunRoutable ==
    ASSUME TTL > (MaxLost + 1) * Period,
           TypeOK, UnderWay, RoutableInv, NEW n \in Nodes, Run(n)
    PROVE  RoutableInv'
  <1>1. commands[n] # <<>> /\ UNCHANGED <<alive, registry, beat, lost>>
    BY DEF Run
  <1>2. \A m, t : Held(m, t)' = Held(m, t)
    BY <1>1, SameHeld DEF registry
  <1>3. DeadHoldNothing'
    BY <1>1, <1>2 DEF RoutableInv, DeadHoldNothing
  <1>4. CASE RunRemove(n)
    <2> DEFINE a == Head(commands[n]).target
    <2>1. /\ Head(commands[n]).cmd = "remove" /\ commands' = Rest(n) /\ confirmed' = confirmed
          /\ presence' = [presence EXCEPT ![a][n] = 0]
      BY <1>4 DEF RunRemove
    <2>2. \A m \in Nodes : \A t : /\ InQueue(m, "remove", t)' => InQueue(m, "remove", t)
                                  /\ InQueue(m, "add", t) => InQueue(m, "add", t)'
      BY <1>1, <2>1, RestQueue
    <2>3. InQueue(n, "remove", a)
      <3>1. Head(commands[n]) = commands[n][1] /\ 1 \in 1..Len(commands[n])
        BY <1>1, <2>1, AfterRest
      <3>2. QED
        BY <2>1, <3>1 DEF InQueue
    <2> HIDE DEF a
    <2>4. ASSUME NEW m \in Nodes, NEW t \in Targets, confirmed'[t][m]
          PROVE  Held(m, t)' # {} /\ ~InQueue(m, "remove", t)' /\ Covered(m, t)'
      <3>1. Held(m, t) # {} /\ ~InQueue(m, "remove", t) /\ Covered(m, t)
        BY <2>1, <2>4 DEF RoutableInv, ConfirmedHeld, ConfirmedCovered
      <3>2. m # n \/ t # a
        BY <2>3, <3>1
      <3>3. presence'[t][m] = presence[t][m]
        BY <2>1, <3>2 DEF TypeOK
      <3>4. QED
        BY <1>1, <1>2, <2>2, <3>1, <3>3, OtherCommand
    <2>5. QED
      BY <1>3, <2>4 DEF RoutableInv, ConfirmedHeld, ConfirmedCovered
  <1>5. CASE RunPrune(n) \/ RunRange(n)
    <2>1. UNCHANGED <<presence, confirmed>>
      BY <1>5 DEF RunPrune, RunRange
    <2>2. \A m \in Nodes : \A t : /\ InQueue(m, "remove", t)' => InQueue(m, "remove", t)
                                  /\ InQueue(m, "add", t) => InQueue(m, "add", t)'
      <3>1. CASE RunPrune(n)
        BY <1>1, <3>1, PruneQueue
      <3>2. CASE RunRange(n)
        <4>1. commands' = Rest(n) /\ Head(commands[n]).cmd = "range"
          BY <3>2 DEF RunRange
        <4>2. QED
          BY <1>1, <4>1, RestQueue
      <3>3. QED
        BY <1>5, <3>1, <3>2
    <2>3. ASSUME NEW m \in Nodes, NEW t \in Targets, confirmed'[t][m]
          PROVE  Held(m, t)' # {} /\ ~InQueue(m, "remove", t)' /\ Covered(m, t)'
      <3>1. Held(m, t) # {} /\ ~InQueue(m, "remove", t) /\ Covered(m, t)
        BY <2>1, <2>3 DEF RoutableInv, ConfirmedHeld, ConfirmedCovered
      <3>2. QED
        BY <1>1, <1>2, <2>1, <2>2, <3>1, OtherCommand
    <2>4. QED
      BY <1>3, <2>3 DEF RoutableInv, ConfirmedHeld, ConfirmedCovered
  <1>6. QED
    BY <1>4, <1>5, RunAddRoutable DEF Run

LEMMA FailRoutable ==
    ASSUME TypeOK, UnderWay, RoutableInv, NEW n \in Nodes, Fail(n)
    PROVE  RoutableInv'
  <1>1. /\ commands[n] # <<>> /\ commands' = Rest(n) /\ lost < MaxLost /\ lost' = lost + 1
        /\ UNCHANGED <<alive, registry, presence, beat, confirmed>>
    BY DEF Fail
  <1>2. \A m, t : Held(m, t)' = Held(m, t)
    BY <1>1, SameHeld DEF registry
  <1>3. DeadHoldNothing'
    BY <1>1, <1>2 DEF RoutableInv, DeadHoldNothing
  <1>4. Slack(lost) = Slack(lost') + Period /\ Slack(lost') \in Nat /\ Period \in Nat
    <2>1. lost \in 0..MaxLost /\ lost + 1 \in 0..MaxLost
      BY <1>1, DeliveryAssumption DEF TypeOK
    <2>2. QED
      BY <1>1, <2>1, SlackStep, SlackIsNat, PeriodType
  <1>5. ASSUME NEW m \in Nodes, NEW t \in Targets, confirmed'[t][m]
        PROVE  Held(m, t)' # {} /\ ~InQueue(m, "remove", t)' /\ Covered(m, t)'
    <2>1. Held(m, t) # {} /\ ~InQueue(m, "remove", t) /\ Covered(m, t)
      BY <1>1, <1>5 DEF RoutableInv, ConfirmedHeld, ConfirmedCovered
    <2>2. ~InQueue(m, "remove", t)'
      BY <1>1, <2>1, RestQueue
    <2>3. presence[t][m] \in Int /\ beat[m] \in 0..Period
      BY DEF TypeOK
    <2>4. presence[t][m] > beat[m] + Slack(lost')
      BY <1>4, <2>1, <2>3 DEF Covered
    <2>5. QED
      BY <1>1, <1>2, <2>1, <2>2, <2>4 DEF Covered, Slack, Period
  <1>6. QED
    BY <1>3, <1>5 DEF RoutableInv, ConfirmedHeld, ConfirmedCovered

LEMMA CrashRoutable ==
    ASSUME TypeOK, RoutableInv, NEW n \in Nodes, Crash(n)
    PROVE  RoutableInv'
  <1>1. /\ alive' = alive \ {n} /\ commands' = [commands EXCEPT ![n] = <<>>]
        /\ UNCHANGED <<presence, beat, lost>> /\ Forget(n)
        /\ regSubject' = [c \in Conns |-> IF c \in Local(n) THEN None ELSE regSubject[c]]
        /\ keyConns' = [k \in Keys |-> keyConns[k] \ Local(n)]
    BY DEF Crash
  <1>2. ASSUME NEW t \in Targets
        PROVE  Held(n, t)' = {}
    BY <1>1, DeliveryAssumption DEF Held, Listed, Local, Targets
  <1>3. ASSUME NEW m \in Nodes \ {n}, NEW t \in Targets
        PROVE  Held(m, t)' = Held(m, t)
    <2>1. \A c \in Local(m) : c \notin Local(n) /\ c \in Conns
      BY <1>3 DEF Local
    <2>2. \A c \in Local(m) : c \in Listed(t)' <=> c \in Listed(t)
      BY <1>1, <2>1 DEF Listed
    <2>3. QED
      BY <2>2 DEF Held, Local
  <1>4. DeadHoldNothing'
    BY <1>1, <1>2, <1>3 DEF RoutableInv, DeadHoldNothing
  <1>5. ASSUME NEW m \in Nodes, NEW t \in Targets, confirmed'[t][m]
        PROVE  Held(m, t)' # {} /\ ~InQueue(m, "remove", t)' /\ Covered(m, t)'
    <2>1. confirmed[t][m] /\ m # n
      BY <1>1, <1>2, <1>5, ForgetConfirms
    <2>2. Held(m, t) # {} /\ ~InQueue(m, "remove", t) /\ Covered(m, t)
      BY <2>1 DEF RoutableInv, ConfirmedHeld, ConfirmedCovered
    <2>3. commands'[m] = commands[m]
      BY <1>1, <2>1 DEF TypeOK
    <2>4. \A cmd : InQueue(m, cmd, t)' <=> InQueue(m, cmd, t)
      BY <2>3 DEF InQueue
    <2>5. QED
      BY <1>1, <1>3, <2>1, <2>2, <2>4, OtherCommand
  <1>6. QED
    BY <1>4, <1>5 DEF RoutableInv, ConfirmedHeld, ConfirmedCovered

LEMMA RestartRoutable ==
    ASSUME TypeOK, RoutableInv, NEW n \in Nodes, Restart(n)
    PROVE  RoutableInv'
  <1>1. /\ n \notin alive /\ alive' = alive \cup {n} /\ beat' = [beat EXCEPT ![n] = Period]
        /\ UNCHANGED <<registry, presence, commands, lost, confirmed>>
    BY DEF Restart
  <1>2. \A m, t : Held(m, t)' = Held(m, t)
    BY <1>1, SameHeld DEF registry
  <1>3. DeadHoldNothing'
    BY <1>1, <1>2 DEF RoutableInv, DeadHoldNothing
  <1>4. ASSUME NEW m \in Nodes, NEW t \in Targets, confirmed'[t][m]
        PROVE  Held(m, t)' # {} /\ ~InQueue(m, "remove", t)' /\ Covered(m, t)'
    <2>1. Held(m, t) # {} /\ ~InQueue(m, "remove", t) /\ Covered(m, t)
      BY <1>1, <1>4 DEF RoutableInv, ConfirmedHeld, ConfirmedCovered
    <2>2. m # n
      BY <1>1, <2>1 DEF RoutableInv, DeadHoldNothing
    <2>3. beat'[m] = beat[m]
      BY <1>1, <2>2 DEF TypeOK
    <2>4. QED
      BY <1>1, <1>2, <2>1, <2>3 DEF Covered, InQueue
  <1>5. QED
    BY <1>3, <1>4 DEF RoutableInv, ConfirmedHeld, ConfirmedCovered

LEMMA TickRoutable ==
    ASSUME TypeOK, RoutableInv, Tick
    PROVE  RoutableInv'
  <1>1. /\ \A n \in alive : beat[n] > 0 /\ commands[n] = <<>>
        /\ presence' = [t \in Targets |-> [n \in Nodes |-> Aged(presence[t][n])]]
        /\ beat' = [n \in Nodes |-> IF n \in alive THEN beat[n] - 1 ELSE beat[n]]
        /\ UNCHANGED <<alive, registry, commands, lost, confirmed>>
    BY DEF Tick
  <1>2. \A m, t : Held(m, t)' = Held(m, t)
    BY <1>1, SameHeld DEF registry
  <1>3. DeadHoldNothing'
    BY <1>1, <1>2 DEF RoutableInv, DeadHoldNothing
  <1>4. ASSUME NEW m \in Nodes, NEW t \in Targets, confirmed'[t][m]
        PROVE  Held(m, t)' # {} /\ ~InQueue(m, "remove", t)' /\ Covered(m, t)'
    <2>1. Held(m, t) # {} /\ ~InQueue(m, "remove", t) /\ Covered(m, t)
      BY <1>1, <1>4 DEF RoutableInv, ConfirmedHeld, ConfirmedCovered
    <2>2. m \in alive
      BY <2>1 DEF RoutableInv, DeadHoldNothing
    <2>3. beat[m] > 0 /\ beat'[m] = beat[m] - 1 /\ presence'[t][m] = Aged(presence[t][m])
      BY <1>1, <2>2
    <2>4. ~InQueue(m, "add", t) /\ ~InQueue(m, "remove", t)'
      <3>1. commands[m] = <<>> /\ commands'[m] = <<>>
        BY <1>1, <2>2
      <3>2. QED
        BY <3>1, EmptySeq DEF InQueue
    <2>5. presence[t][m] > beat[m] + Slack(lost)
      BY <2>1, <2>4 DEF Covered
    <2>6. /\ presence[t][m] \in 0..TTL /\ beat[m] \in 0..Period /\ Slack(lost) \in Nat
          /\ TTL \in Nat /\ Period \in Nat
      BY SlackIsNat, PeriodType, DeliveryAssumption DEF TypeOK
    <2>7. presence'[t][m] > beat'[m] + Slack(lost)
      BY <2>3, <2>5, <2>6 DEF Aged
    <2>8. QED
      BY <1>1, <1>2, <2>1, <2>4, <2>7 DEF Covered, Slack, Period
  <1>5. QED
    BY <1>3, <1>4 DEF RoutableInv, ConfirmedHeld, ConfirmedCovered

LEMMA ElsewhereRoutable ==
    ASSUME TypeOK, UnderWay, RoutableInv, NEW n \in Nodes,
           \/ Route(n) \/ Deliver(n) \/ \E t \in Targets : Publish(t)
           \/ (\E c \in Conns : OptOut(c)) \/ UNCHANGED vars
    PROVE  RoutableInv'
  <1>1. UNCHANGED <<alive, registry, presence, beat, lost, confirmed>>
    BY DEF Route, Deliver, Publish, OptOut, vars
  <1>2. \A m, t : Held(m, t)' = Held(m, t)
    BY <1>1, SameHeld DEF registry
  <1>3. DeadHoldNothing'
    BY <1>1, <1>2 DEF RoutableInv, DeadHoldNothing
  <1>4. ASSUME NEW m \in Nodes, NEW t
        PROVE  /\ InQueue(m, "remove", t)' => InQueue(m, "remove", t)
               /\ InQueue(m, "add", t) => InQueue(m, "add", t)'
    <2>1. CASE Route(n)
      <3> DEFINE i == Head(routerIn[n])
                 x == Lookup("prune", i)
      <3>1. /\ \A l \in Nodes \ {n} : commands'[l] = commands[l]
            /\ Len(commands[n]) \in Nat /\ Len(commands'[n]) = Len(commands[n]) + 1
            /\ \A k \in 1..Len(commands[n]) : commands'[n][k] = commands[n][k]
            /\ commands'[n][Len(commands[n]) + 1] = x
        BY <2>1, RouteSends
      <3>2. x.cmd = "prune"
        BY DEF Lookup
      <3> HIDE DEF x, i
      <3>3. CASE m # n
        BY <3>1, <3>3 DEF InQueue
      <3>4. CASE m = n
        <4>1. \A k \in 1..Len(commands'[n]) : k \in 1..Len(commands[n]) \/ k = Len(commands[n]) + 1
          BY <3>1
        <4>2. \A k \in 1..Len(commands[n]) : k \in 1..Len(commands'[n])
          BY <3>1
        <4>3. QED
          BY <3>1, <3>2, <3>4, <4>1, <4>2 DEF InQueue
      <3>5. QED
        BY <3>3, <3>4
    <2>2. CASE commands' = commands
      BY <2>2 DEF InQueue
    <2>3. QED
      BY <2>1, <2>2 DEF Deliver, Publish, OptOut, vars
  <1>5. ASSUME NEW m \in Nodes, NEW t \in Targets, confirmed'[t][m]
        PROVE  Held(m, t)' # {} /\ ~InQueue(m, "remove", t)' /\ Covered(m, t)'
    <2>1. Held(m, t) # {} /\ ~InQueue(m, "remove", t) /\ Covered(m, t)
      BY <1>1, <1>5 DEF RoutableInv, ConfirmedHeld, ConfirmedCovered
    <2>2. QED
      BY <1>1, <1>2, <1>4, <2>1, OtherCommand
  <1>6. QED
    BY <1>3, <1>5 DEF RoutableInv, ConfirmedHeld, ConfirmedCovered

(***************************************************************************)
(* Held targets are routable: when an entry outlives one heartbeat more    *)
(* than the heartbeats that may be lost, then once a node's entry for a    *)
(* target it holds was written every lookup finds it, whatever connections *)
(* come, go or change their subject and whichever commands fail (the       *)
(* binder's release of what it holds last, index.ts's heartbeat period).   *)
(***************************************************************************)
THEOREM HeldStaysRoutable ==
    ASSUME TTL > (MaxLost + 1) * Period
    PROVE  Spec => []HeldIsRoutable
  <1>1. Init => TypeOK /\ UnderWay
    BY TypeInit
  <1>2. Init => RoutableInv
    <2> SUFFICES ASSUME Init PROVE RoutableInv
      OBVIOUS
    <2>1. \A n \in Nodes, t \in Targets : Held(n, t) = {} /\ ~confirmed[t][n]
      BY DeliveryAssumption DEF Init, Held, Listed, Targets
    <2>2. QED
      BY <2>1 DEF RoutableInv, DeadHoldNothing, ConfirmedHeld, ConfirmedCovered
  <1>3. TypeOK /\ UnderWay /\ [Next]_vars => TypeOK' /\ UnderWay'
    BY TypeStep
  <1>4. TypeOK /\ UnderWay /\ RoutableInv /\ [Next]_vars => RoutableInv'
    <2> SUFFICES ASSUME TypeOK, UnderWay, RoutableInv, [Next]_vars
                 PROVE  RoutableInv'
      OBVIOUS
    <2>1. ASSUME NEW c \in Conns,
                 \/ \E k \in Keys, s \in Subjects \cup {None} : Packet(c, k, s)
                 \/ \E s \in Subjects : Login(c, s)
                 \/ Logout(c) \/ Close(c)
          PROVE  RoutableInv'
      BY <2>1, BindersRoutable, UnbindRoutable
    <2>2. ASSUME NEW n \in Nodes, Heartbeat(n) \/ Run(n) \/ Fail(n) \/ Crash(n) \/ Restart(n)
          PROVE  RoutableInv'
      BY <2>2, HeartbeatRoutable, RunRoutable, FailRoutable, CrashRoutable, RestartRoutable
    <2>3. ASSUME NEW n \in Nodes, Route(n) \/ Deliver(n)
          PROVE  RoutableInv'
      BY <2>3, ElsewhereRoutable
    <2>4. CASE Tick
      BY <2>4, TickRoutable
    <2>5. ASSUME NEW t \in Targets, Publish(t)
          PROVE  RoutableInv'
      <3>1. CASE Nodes = {}
        BY <3>1 DEF RoutableInv, DeadHoldNothing, ConfirmedHeld, ConfirmedCovered
      <3>2. CASE Nodes # {}
        BY <2>5, <3>2, ElsewhereRoutable
      <3>3. QED
        BY <3>1, <3>2
    <2>6. CASE UNCHANGED vars
      <3>1. CASE Nodes = {}
        BY <3>1 DEF RoutableInv, DeadHoldNothing, ConfirmedHeld, ConfirmedCovered
      <3>2. CASE Nodes # {}
        BY <2>6, <3>2, ElsewhereRoutable
      <3>3. QED
        BY <3>1, <3>2
    <2>7. ASSUME NEW c \in Conns, OptOut(c)
          PROVE  RoutableInv'
      <3>1. NodeOf[c] \in Nodes
        BY DeliveryAssumption
      <3>2. QED
        BY <2>7, <3>1, ElsewhereRoutable
    <2>8. QED
      BY <2>1, <2>2, <2>3, <2>4, <2>5, <2>6, <2>7 DEF Next, System
  <1>5. TypeOK /\ RoutableInv => HeldIsRoutable
    <2> SUFFICES ASSUME TypeOK, RoutableInv, NEW n \in alive, NEW t \in Targets, confirmed[t][n]
                 PROVE  presence[t][n] > 0
      BY DEF HeldIsRoutable
    <2>1. n \in Nodes
      BY DEF TypeOK
    <2>2. Covered(n, t)
      BY <2>1 DEF RoutableInv, ConfirmedCovered
    <2>3. presence[t][n] \in Int /\ beat[n] \in 0..Period /\ Slack(lost) \in Nat /\ Period \in Nat
      BY <2>1, SlackIsNat, PeriodType DEF TypeOK
    <2>4. QED
      BY <2>2, <2>3 DEF Covered
  <1>6. QED
    BY <1>1, <1>2, <1>3, <1>4, <1>5, PTL DEF Spec

-----------------------------------------------------------------------------
(***************************************************************************)
(* The order of deliveries.  A router looks up what it received in order,  *)
(* and Redis answers its lookups in order, so that whatever it sent to a   *)
(* node was published before everything it has still to look up.           *)
(***************************************************************************)
ToLookUp(x, u) == IsLookup(x) => u < x.update

\* Router r sent u before everything it has still to look up.
SentFirst(u, r) ==
    /\ \A k \in 1..Len(routerIn[r]) : u < routerIn[r][k]
    /\ \A k \in 1..Len(commands[r]) : ToLookUp(commands[r][k], u)

\* Lookup x, at position j of a queue, began before lookup y, at position k.
Began(x, y, j, k) ==
    /\ IsLookup(x) /\ IsLookup(y)
    /\ (x.cmd = y.cmd /\ j < k) \/ (x.cmd = "range" /\ y.cmd = "prune")

RouterOrdered(r) ==
    /\ \A j, k \in 1..Len(routerIn[r]) : j < k => routerIn[r][j] < routerIn[r][k]
    /\ \A j \in 1..Len(commands[r]), k \in 1..Len(routerIn[r]) :
        IsLookup(commands[r][j]) => commands[r][j].update < routerIn[r][k]
    /\ \A j, k \in 1..Len(commands[r]) :
        Began(commands[r][j], commands[r][k], j, k) => commands[r][j].update < commands[r][k].update

\* Deliveries x and y of one router, x the earlier.
InOrder(x, y) == x.router = y.router => x.update < y.update

NodeOrdered(m) ==
    /\ \A j, k \in 1..Len(nodeIn[m]) : j < k => InOrder(nodeIn[m][j], nodeIn[m][k])
    /\ \A j \in 1..Len(nodeIn[m]) : SentFirst(nodeIn[m][j].update, nodeIn[m][j].router)

ConnOrdered(c) ==
    /\ \A j, k \in 1..Len(got[c]) : j < k => InOrder(got[c][j], got[c][k])
    /\ \A j \in 1..Len(got[c]) : SentFirst(got[c][j].update, got[c][j].router)
    /\ \A j \in 1..Len(got[c]), k \in 1..Len(nodeIn[NodeOf[c]]) :
        InOrder(got[c][j], nodeIn[NodeOf[c]][k])

OrderInv ==
    /\ \A r \in Nodes : RouterOrdered(r)
    /\ \A m \in Nodes : NodeOrdered(m)
    /\ \A c \in Conns : ConnOrdered(c)

(***************************************************************************)
(* A step keeps a router in order when what its queues hold is what they   *)
(* held, but for a prefix and for the binder's commands.                   *)
(***************************************************************************)
LookupsStay(r, off) ==
    \A k \in 1..Len(commands'[r]) :
        IsLookup(commands'[r][k]) =>
            k + off \in 1..Len(commands[r]) /\ commands'[r][k] = commands[r][k + off]
InboxStays(r, off) ==
    \A k \in 1..Len(routerIn'[r]) :
        k + off \in 1..Len(routerIn[r]) /\ routerIn'[r][k] = routerIn[r][k + off]
RouterKeeps(r) ==
    RouterOrdered(r)' /\ \A u \in 1..Len(published) : SentFirst(u, r) => SentFirst(u, r)'

LEMMA QueuesStay ==
    ASSUME NEW r, RouterOrdered(r), NEW a \in Nat, NEW b \in Nat, LookupsStay(r, a), InboxStays(r, b)
    PROVE  RouterKeeps(r)
  <1>1. \A k \in 1..Len(commands'[r]) :
            IsLookup(commands'[r][k]) =>
                k + a \in 1..Len(commands[r]) /\ commands'[r][k] = commands[r][k + a]
    BY DEF LookupsStay
  <1>2. \A k \in 1..Len(routerIn'[r]) :
            k + b \in 1..Len(routerIn[r]) /\ routerIn'[r][k] = routerIn[r][k + b]
    BY DEF InboxStays
  <1>3. ASSUME NEW j \in 1..Len(routerIn'[r]), NEW k \in 1..Len(routerIn'[r]), j < k
        PROVE  routerIn'[r][j] < routerIn'[r][k]
    <2>1. j + b < k + b
      BY <1>3
    <2>2. QED
      BY <1>2, <2>1 DEF RouterOrdered
  <1>4. ASSUME NEW j \in 1..Len(commands'[r]), NEW k \in 1..Len(routerIn'[r]), IsLookup(commands'[r][j])
        PROVE  commands'[r][j].update < routerIn'[r][k]
    BY <1>1, <1>2, <1>4 DEF RouterOrdered
  <1>5. ASSUME NEW j \in 1..Len(commands'[r]), NEW k \in 1..Len(commands'[r]),
               Began(commands'[r][j], commands'[r][k], j, k)
        PROVE  commands'[r][j].update < commands'[r][k].update
    <2>1. /\ j + a \in 1..Len(commands[r]) /\ commands'[r][j] = commands[r][j + a]
          /\ k + a \in 1..Len(commands[r]) /\ commands'[r][k] = commands[r][k + a]
      BY <1>1, <1>5 DEF Began
    <2>2. j < k => j + a < k + a
      OBVIOUS
    <2>3. Began(commands[r][j + a], commands[r][k + a], j + a, k + a)
      BY <1>5, <2>1, <2>2 DEF Began
    <2>4. QED
      BY <2>1, <2>3 DEF RouterOrdered
  <1>6. RouterOrdered(r)'
    BY <1>3, <1>4, <1>5 DEF RouterOrdered
  <1>7. ASSUME NEW u, SentFirst(u, r)
        PROVE  SentFirst(u, r)'
    <2>1. \A k \in 1..Len(routerIn'[r]) : u < routerIn'[r][k]
      BY <1>2, <1>7 DEF SentFirst
    <2>2. \A k \in 1..Len(commands'[r]) : ToLookUp(commands'[r][k], u)
      BY <1>1, <1>7 DEF SentFirst, ToLookUp
    <2>3. QED
      BY <2>1, <2>2 DEF SentFirst, ToLookUp
  <1>8. QED
    BY <1>6, <1>7 DEF RouterKeeps

LEMMA QueuesSame ==
    ASSUME NEW r, RouterOrdered(r), commands'[r] = commands[r], routerIn'[r] = routerIn[r]
    PROVE  RouterKeeps(r)
  <1>1. ASSUME NEW u, SentFirst(u, r)
        PROVE  SentFirst(u, r)'
    BY <1>1 DEF SentFirst, ToLookUp
  <1>2. RouterOrdered(r)'
    BY DEF RouterOrdered, Began
  <1>3. QED
    BY <1>1, <1>2 DEF RouterKeeps

(***************************************************************************)
(* Deliveries stay in order while routers keep in order and nobody is sent *)
(* anything.                                                               *)
(***************************************************************************)
LEMMA DeliveredRange ==
    ASSUME TypeOK, UnderWay
    PROVE  /\ \A m \in Nodes : \A k \in 1..Len(nodeIn[m]) :
                nodeIn[m][k].update \in 1..Len(published) /\ nodeIn[m][k].router \in Nodes
           /\ \A c \in Conns : \A k \in 1..Len(got[c]) :
                got[c][k].update \in 1..Len(published) /\ got[c][k].router \in Nodes
  <1>1. Len(published) \in Nat
    BY LenProperties DEF TypeOK
  <1>2. ASSUME NEW m \in Nodes, NEW k \in 1..Len(nodeIn[m])
        PROVE  nodeIn[m][k].update \in 1..Len(published) /\ nodeIn[m][k].router \in Nodes
    <2>1. nodeIn[m] \in Seq(Delivery)
      BY DEF TypeOK
    <2>2. nodeIn[m][k] \in Delivery /\ nodeIn[m][k].update <= Len(published)
      BY <2>1, ElementOfSeq DEF UnderWay
    <2>3. QED
      BY <1>1, <2>2, DeliveryAssumption DEF Delivery
  <1>3. ASSUME NEW c \in Conns, NEW k \in 1..Len(got[c])
        PROVE  got[c][k].update \in 1..Len(published) /\ got[c][k].router \in Nodes
    <2>1. got[c] \in Seq(Delivery)
      BY DEF TypeOK
    <2>2. got[c][k] \in Delivery /\ got[c][k].update <= Len(published)
      BY <2>1, ElementOfSeq DEF UnderWay
    <2>3. QED
      BY <1>1, <2>2, DeliveryAssumption DEF Delivery
  <1>4. QED
    BY <1>2, <1>3

LEMMA NobodySent ==
    ASSUME TypeOK, UnderWay, OrderInv, \A r \in Nodes : RouterKeeps(r), got' = got,
           \A m \in Nodes : nodeIn'[m] = nodeIn[m] \/ Len(nodeIn'[m]) = 0
    PROVE  OrderInv'
  <1>1. ASSUME NEW m \in Nodes
        PROVE  NodeOrdered(m)'
    <2>1. CASE nodeIn'[m] = nodeIn[m]
      <3>1. ASSUME NEW j \in 1..Len(nodeIn[m])
            PROVE  SentFirst(nodeIn[m][j].update, nodeIn[m][j].router)'
        <4>1. SentFirst(nodeIn[m][j].update, nodeIn[m][j].router)
          BY DEF OrderInv, NodeOrdered
        <4>2. QED
          BY <2>1, <4>1, DeliveredRange DEF RouterKeeps
      <3>2. QED
        BY <2>1, <3>1 DEF OrderInv, NodeOrdered, InOrder
    <2>2. CASE Len(nodeIn'[m]) = 0
      BY <2>2 DEF NodeOrdered
    <2>3. QED
      BY <2>1, <2>2
  <1>2. ASSUME NEW c \in Conns
        PROVE  ConnOrdered(c)'
    <2>1. NodeOf[c] \in Nodes /\ ConnOrdered(c)
      BY DeliveryAssumption DEF OrderInv
    <2>2. ASSUME NEW j \in 1..Len(got[c])
          PROVE  SentFirst(got[c][j].update, got[c][j].router)'
      <3>1. SentFirst(got[c][j].update, got[c][j].router)
        BY <2>1 DEF ConnOrdered
      <3>2. QED
        BY <3>1, DeliveredRange DEF RouterKeeps
    <2>3. ASSUME NEW j \in 1..Len(got[c]), NEW k \in 1..Len(nodeIn'[NodeOf[c]])
          PROVE  InOrder(got[c][j], nodeIn'[NodeOf[c]][k])
      BY <2>1, <2>3 DEF ConnOrdered
    <2>4. QED
      BY <2>1, <2>2, <2>3 DEF ConnOrdered, InOrder
  <1>3. QED
    BY <1>1, <1>2 DEF OrderInv, RouterKeeps

(***************************************************************************)
(* The steps that send nothing.                                            *)
(***************************************************************************)
LEMMA BinderKeepsRouter ==
    ASSUME TypeOK, UnderWay, NEW n \in Nodes, NEW cmds, NEW cmd \in {"add", "remove"},
           Plain(cmds, cmd), Send(n, cmds), routerIn' = routerIn,
           NEW r \in Nodes, RouterOrdered(r)
    PROVE  RouterKeeps(r)
  <1>1. cmds \in Seq(Cmds)
    BY DEF Plain
  <1>2. CASE r # n
    BY <1>1, <1>2, AfterSend, QueuesSame
  <1>3. CASE r = n
    <2>1. /\ Len(commands'[n]) = Len(commands[n]) + Len(cmds)
          /\ Len(commands[n]) \in Nat /\ Len(cmds) \in Nat
          /\ \A k \in 1..Len(commands'[n]) :
               commands'[n][k] = IF k <= Len(commands[n]) THEN commands[n][k]
                                 ELSE cmds[k - Len(commands[n])]
      BY <1>1, AfterSend
    <2>2. ASSUME NEW k \in 1..Len(commands'[n]), IsLookup(commands'[n][k])
          PROVE  k + 0 \in 1..Len(commands[n]) /\ commands'[n][k] = commands[n][k + 0]
      <3>1. CASE k <= Len(commands[n])
        BY <2>1, <3>1
      <3>2. CASE k > Len(commands[n])
        <4>1. k - Len(commands[n]) \in 1..Len(cmds) /\ commands'[n][k] = cmds[k - Len(commands[n])]
          BY <2>1, <3>2
        <4>2. QED
          BY <2>2, <4>1 DEF Plain, IsLookup
      <3>3. QED
        BY <2>1, <3>1, <3>2
    <2>3. LookupsStay(r, 0)
      BY <1>3, <2>2 DEF LookupsStay
    <2>4. InboxStays(r, 0)
      BY DEF InboxStays
    <2>5. QED
      BY <2>3, <2>4, QueuesStay
  <1>4. QED
    BY <1>2, <1>3

LEMMA RestKeepsRouter ==
    ASSUME TypeOK, NEW n \in Nodes, commands[n] # <<>>, commands' = Rest(n), routerIn' = routerIn,
           NEW r \in Nodes, RouterOrdered(r)
    PROVE  RouterKeeps(r)
  <1>1. CASE r # n
    BY <1>1, AfterRest, QueuesSame
  <1>2. CASE r = n
    <2>1. \A k \in 1..Len(commands'[n]) :
            k + 1 \in 1..Len(commands[n]) /\ commands'[n][k] = commands[n][k + 1]
      BY AfterRest
    <2>2. LookupsStay(r, 1)
      BY <1>2, <2>1 DEF LookupsStay
    <2>3. InboxStays(r, 0)
      BY DEF InboxStays
    <2>4. QED
      BY <2>2, <2>3, QueuesStay
  <1>3. QED
    BY <1>1, <1>2

LEMMA BinderOrdered ==
    ASSUME TypeOK, UnderWay, OrderInv,
           \/ \E c \in Conns : \/ \E k \in Keys, s \in Subjects \cup {None} : Packet(c, k, s)
                               \/ \E s \in Subjects : Login(c, s)
                               \/ Logout(c) \/ Close(c)
           \/ \E n \in Nodes : Heartbeat(n)
    PROVE  OrderInv'
  <1>1. ASSUME NEW n \in Nodes, NEW cmds, NEW cmd \in {"add", "remove"},
               Plain(cmds, cmd), Send(n, cmds), UNCHANGED bus
        PROVE  OrderInv'
    <2>1. \A r \in Nodes : RouterKeeps(r)
      BY <1>1, BinderKeepsRouter DEF OrderInv, bus
    <2>2. QED
      BY <1>1, <2>1, NobodySent DEF bus
  <1>2. ASSUME NEW c \in Conns, NEW k \in Keys, NEW s \in Subjects \cup {None}, Packet(c, k, s)
        PROVE  OrderInv'
    <2>1. /\ NodeOf[c] \in Nodes /\ UNCHANGED bus
          /\ Send(NodeOf[c], <<Command("add", k)>> \o BindCommands(c, s))
      BY <1>2, DeliveryAssumption DEF Packet
    <2>2. Plain(<<Command("add", k)>> \o BindCommands(c, s), "add")
      BY PacketPlain
    <2>3. QED
      BY <1>1, <2>1, <2>2
  <1>3. ASSUME NEW c \in Conns, NEW s \in Subjects, Login(c, s)
        PROVE  OrderInv'
    <2>1. NodeOf[c] \in Nodes /\ UNCHANGED bus /\ Send(NodeOf[c], BindCommands(c, s))
      BY <1>3, DeliveryAssumption DEF Login
    <2>2. Plain(BindCommands(c, s), "add")
      BY BindPlain
    <2>3. QED
      BY <1>1, <2>1, <2>2
  <1>4. ASSUME NEW c \in Conns, Logout(c) \/ Close(c)
        PROVE  OrderInv'
    <2>1. NodeOf[c] \in Nodes /\ UNCHANGED bus /\ Send(NodeOf[c], ReleasedCommands(c))
      BY <1>4, DeliveryAssumption DEF Logout, Close, Unbind, ReleasedCommands, CommandsFor
    <2>2. Plain(ReleasedCommands(c), "remove")
      BY ReleasedPlain
    <2>3. QED
      BY <1>1, <2>1, <2>2
  <1>5. ASSUME NEW n \in Nodes, Heartbeat(n)
        PROVE  OrderInv'
    <2>1. UNCHANGED bus /\ Send(n, RefreshCommands(n))
      BY <1>5 DEF Heartbeat, RefreshCommands, CommandsFor
    <2>2. Plain(RefreshCommands(n), "add")
      BY RefreshPlain
    <2>3. QED
      BY <1>1, <2>1, <2>2
  <1>6. QED
    BY <1>2, <1>3, <1>4, <1>5

LEMMA RestOrdered ==
    ASSUME TypeOK, UnderWay, OrderInv, NEW n \in Nodes,
           Fail(n) \/ (Run(n) /\ (RunAdd(n) \/ RunRemove(n)))
    PROVE  OrderInv'
  <1>1. commands[n] # <<>> /\ commands' = Rest(n) /\ UNCHANGED bus
    BY DEF Fail, Run, RunAdd, RunRemove, bus
  <1>2. \A r \in Nodes : RouterKeeps(r)
    BY <1>1, RestKeepsRouter DEF OrderInv, bus
  <1>3. QED
    BY <1>1, <1>2, NobodySent DEF bus

LEMMA CrashOrdered ==
    ASSUME TypeOK, UnderWay, OrderInv, NEW n \in Nodes, Crash(n)
    PROVE  OrderInv'
  <1>1. /\ commands' = [commands EXCEPT ![n] = <<>>]
        /\ routerIn' = [routerIn EXCEPT ![n] = <<>>]
        /\ nodeIn' = [nodeIn EXCEPT ![n] = <<>>]
        /\ got' = got
    BY DEF Crash
  <1>2. ASSUME NEW r \in Nodes
        PROVE  RouterKeeps(r)
    <2>1. CASE r # n
      <3>1. commands'[r] = commands[r] /\ routerIn'[r] = routerIn[r]
        BY <1>1, <2>1 DEF TypeOK
      <3>2. QED
        BY <3>1, QueuesSame DEF OrderInv
    <2>2. CASE r = n
      <3>1. Len(commands'[r]) = 0 /\ Len(routerIn'[r]) = 0
        BY <1>1, <2>2, EmptySeq DEF TypeOK
      <3>2. LookupsStay(r, 0) /\ InboxStays(r, 0)
        BY <3>1 DEF LookupsStay, InboxStays
      <3>3. QED
        BY <3>2, QueuesStay DEF OrderInv
    <2>3. QED
      BY <2>1, <2>2
  <1>3. \A m \in Nodes : nodeIn'[m] = nodeIn[m] \/ Len(nodeIn'[m]) = 0
    BY <1>1, EmptySeq DEF TypeOK
  <1>4. QED
    BY <1>1, <1>2, <1>3, NobodySent

LEMMA IdleOrdered ==
    ASSUME TypeOK, UnderWay, OrderInv, UNCHANGED <<commands, routerIn, nodeIn, got>>
    PROVE  OrderInv'
  <1>1. \A r \in Nodes : RouterKeeps(r)
    BY QueuesSame DEF OrderInv
  <1>2. QED
    BY <1>1, NobodySent

(***************************************************************************)
(* An update enters a router, its lookup begins, and goes on.              *)
(***************************************************************************)
LEMMA PublishOrdered ==
    ASSUME TypeOK, UnderWay, OrderInv, NEW t \in Targets, Publish(t)
    PROVE  OrderInv'
  <1> DEFINE i == Len(published) + 1
  <1>1. UNCHANGED <<commands, nodeIn, got>> /\ Len(published) \in Nat
    BY LenProperties DEF Publish, TypeOK
  <1>2. routerIn' = [n \in Nodes |-> IF n \in Routers \cap alive
                                     THEN Append(routerIn[n], i) ELSE routerIn[n]]
    BY DEF Publish
  <1>3. i \in 1..MaxUpdates
    BY <1>1, DeliveryAssumption DEF Publish
  <1>4. ASSUME NEW r \in Nodes
        PROVE  RouterKeeps(r)
    <2>1. CASE r \notin Routers \cap alive
      BY <1>1, <1>2, <2>1, QueuesSame DEF OrderInv
    <2>2. CASE r \in Routers \cap alive
      <3>1. routerIn'[r] = Append(routerIn[r], i) /\ RouterOrdered(r)
        BY <1>2, <2>2 DEF OrderInv
      <3>2. routerIn[r] \in Seq(1..MaxUpdates)
        BY DEF TypeOK
      <3> HIDE DEF i
      <3>3. /\ Len(routerIn[r]) \in Nat /\ Len(routerIn'[r]) = Len(routerIn[r]) + 1
            /\ \A k \in 1..Len(routerIn[r]) : routerIn'[r][k] = routerIn[r][k]
            /\ routerIn'[r][Len(routerIn[r]) + 1] = i
        BY <1>3, <3>1, <3>2, AppendProperties, LenProperties
      <3>4. \A k \in 1..Len(routerIn'[r]) : k \in 1..Len(routerIn[r]) \/ k = Len(routerIn[r]) + 1
        BY <3>3
      <3>5. \A u \in 1..Len(published) : u < i
        BY <1>1 DEF i
      <3>6. ASSUME NEW k \in 1..Len(routerIn[r])
            PROVE  routerIn[r][k] \in 1..Len(published)
        <4>1. routerIn[r][k] \in 1..MaxUpdates /\ routerIn[r][k] <= Len(published)
          BY <3>2, ElementOfSeq DEF UnderWay
        <4>2. QED
          BY <1>1, <4>1
      <3>7. ASSUME NEW k \in 1..Len(commands[r]), IsLookup(commands[r][k])
            PROVE  commands[r][k].update \in 1..Len(published)
        BY <3>7 DEF UnderWay, Fits
      <3>8. ASSUME NEW j \in 1..Len(routerIn'[r]), NEW k \in 1..Len(routerIn'[r]), j < k
            PROVE  routerIn'[r][j] < routerIn'[r][k]
        <4>1. j \in 1..Len(routerIn[r])
          BY <3>3, <3>8
        <4>2. CASE k \in 1..Len(routerIn[r])
          BY <3>1, <3>3, <3>8, <4>1, <4>2 DEF RouterOrdered
        <4>3. CASE k = Len(routerIn[r]) + 1
          BY <3>3, <3>5, <3>6, <4>1, <4>3
        <4>4. QED
          BY <3>4, <4>2, <4>3
      <3>9. ASSUME NEW j \in 1..Len(commands[r]), NEW k \in 1..Len(routerIn'[r]), IsLookup(commands[r][j])
            PROVE  commands[r][j].update < routerIn'[r][k]
        <4>1. CASE k \in 1..Len(routerIn[r])
          BY <3>1, <3>3, <3>9, <4>1 DEF RouterOrdered
        <4>2. CASE k = Len(routerIn[r]) + 1
          BY <3>3, <3>5, <3>7, <3>9, <4>2
        <4>3. QED
          BY <3>4, <4>1, <4>2
      <3>10. RouterOrdered(r)'
        BY <1>1, <3>1, <3>8, <3>9 DEF RouterOrdered
      <3>11. ASSUME NEW u \in 1..Len(published), SentFirst(u, r)
             PROVE  SentFirst(u, r)'
        <4>1. ASSUME NEW k \in 1..Len(routerIn'[r])
              PROVE  u < routerIn'[r][k]
          <5>1. CASE k \in 1..Len(routerIn[r])
            BY <3>3, <3>11, <5>1 DEF SentFirst
          <5>2. CASE k = Len(routerIn[r]) + 1
            BY <3>3, <3>5, <5>2
          <5>3. QED
            BY <3>4, <5>1, <5>2
        <4>2. QED
          BY <1>1, <3>11, <4>1 DEF SentFirst, ToLookUp
      <3>12. QED
        BY <3>10, <3>11 DEF RouterKeeps
    <2>3. QED
      BY <2>1, <2>2
  <1>5. QED
    BY <1>1, <1>4, NobodySent

LEMMA RouteOrdered ==
    ASSUME TypeOK, UnderWay, OrderInv, NEW n \in Nodes, Route(n)
    PROVE  OrderInv'
  <1> DEFINE i == Head(routerIn[n])
             x == Lookup("prune", i)
             last == Len(commands[n]) + 1
  <1>1. nodeIn' = nodeIn /\ got' = got
    BY DEF Route
  <1>2. /\ \A m \in Nodes \ {n} : commands'[m] = commands[m]
        /\ Len(commands[n]) \in Nat /\ Len(commands'[n]) = last
        /\ \A k \in 1..Len(commands[n]) : commands'[n][k] = commands[n][k]
        /\ commands'[n][last] = x
    BY RouteSends
  <1>3. /\ i = routerIn[n][1] /\ 1 \in 1..Len(routerIn[n])
        /\ \A m \in Nodes \ {n} : routerIn'[m] = routerIn[m]
        /\ \A k \in 1..Len(routerIn'[n]) :
             k + 1 \in 1..Len(routerIn[n]) /\ routerIn'[n][k] = routerIn[n][k + 1]
    BY AfterRoute
  <1>4. x.cmd = "prune" /\ x.update = i
    BY DEF Lookup
  <1>5. \A k \in 1..Len(commands'[n]) : k \in 1..Len(commands[n]) \/ k = last
    BY <1>2
  <1>6. RouterOrdered(n)
    BY DEF OrderInv
  <1>7. \A k \in 1..Len(commands[n]) : IsLookup(commands[n][k]) => commands[n][k].update < i
    BY <1>3, <1>6 DEF RouterOrdered
  <1>8. \A k \in 1..Len(routerIn'[n]) : i < routerIn'[n][k]
    <2>1. \A k \in 1..Len(routerIn'[n]) : 1 < k + 1
      OBVIOUS
    <2>2. QED
      BY <1>3, <1>6, <2>1 DEF RouterOrdered
  <1> HIDE DEF i, x, last
  <1>9. ASSUME NEW j \in 1..Len(routerIn'[n]), NEW k \in 1..Len(routerIn'[n]), j < k
        PROVE  routerIn'[n][j] < routerIn'[n][k]
    <2>1. j + 1 < k + 1
      BY <1>9
    <2>2. QED
      BY <1>3, <1>6, <2>1 DEF RouterOrdered
  <1>10. ASSUME NEW j \in 1..Len(commands'[n]), NEW k \in 1..Len(routerIn'[n]), IsLookup(commands'[n][j])
         PROVE  commands'[n][j].update < routerIn'[n][k]
    <2>1. CASE j \in 1..Len(commands[n])
      BY <1>2, <1>3, <1>6, <1>10, <2>1 DEF RouterOrdered
    <2>2. CASE j = last
      BY <1>2, <1>4, <1>8, <2>2
    <2>3. QED
      BY <1>5, <2>1, <2>2
  <1>11. ASSUME NEW j \in 1..Len(commands'[n]), NEW k \in 1..Len(commands'[n]),
                Began(commands'[n][j], commands'[n][k], j, k)
         PROVE  commands'[n][j].update < commands'[n][k].update
    <2>1. CASE j \in 1..Len(commands[n]) /\ k \in 1..Len(commands[n])
      BY <1>2, <1>6, <1>11, <2>1 DEF RouterOrdered
    <2>2. CASE j \in 1..Len(commands[n]) /\ k = last
      BY <1>2, <1>4, <1>7, <1>11, <2>2 DEF Began
    <2>3. CASE j = last
      <3>1. ~(j < k)
        BY <1>2, <2>3 DEF last
      <3>2. QED
        BY <1>2, <1>4, <1>11, <2>3, <3>1 DEF Began
    <2>4. QED
      BY <1>5, <2>1, <2>2, <2>3
  <1>12. RouterOrdered(n)'
    BY <1>9, <1>10, <1>11 DEF RouterOrdered
  <1>13. ASSUME NEW u, SentFirst(u, n)
         PROVE  SentFirst(u, n)'
    <2>1. \A k \in 1..Len(routerIn'[n]) : u < routerIn'[n][k]
      BY <1>3, <1>13 DEF SentFirst
    <2>2. ASSUME NEW k \in 1..Len(commands'[n])
          PROVE  ToLookUp(commands'[n][k], u)
      <3>1. CASE k \in 1..Len(commands[n])
        BY <1>2, <1>13, <3>1 DEF SentFirst
      <3>2. CASE k = last
        BY <1>2, <1>3, <1>4, <1>13, <3>2 DEF SentFirst, ToLookUp
      <3>3. QED
        BY <1>5, <3>1, <3>2
    <2>3. QED
      BY <2>1, <2>2 DEF SentFirst, ToLookUp
  <1>14. RouterKeeps(n)
    BY <1>12, <1>13 DEF RouterKeeps
  <1>15. \A r \in Nodes : RouterKeeps(r)
    BY <1>2, <1>3, <1>14, QueuesSame DEF OrderInv
  <1>16. QED
    BY <1>1, <1>15, NobodySent

LEMMA PruneOrdered ==
    ASSUME TypeOK, UnderWay, OrderInv, NEW n \in Nodes, Run(n), RunPrune(n)
    PROVE  OrderInv'
  <1> DEFINE i == Head(commands[n]).update
             x == Lookup("range", i)
             last == Len(commands[n])
  <1>1. commands[n] # <<>> /\ UNCHANGED <<routerIn, nodeIn, got>>
    BY DEF Run, RunPrune
  <1>2. /\ \A m \in Nodes \ {n} : commands'[m] = commands[m]
        /\ Len(commands'[n]) = last /\ last \in Nat \ {0}
        /\ \A k \in 1..(last - 1) : commands'[n][k] = commands[n][k + 1]
        /\ commands'[n][last] = x
    BY <1>1, AfterPrune
  <1>3. x.cmd = "range" /\ x.update = i
    BY DEF Lookup
  <1>4. commands[n][1].cmd = "prune" /\ commands[n][1].update = i
    <2>1. commands[n] \in Seq(Cmds) /\ commands[n] # <<>>
      BY <1>1 DEF TypeOK
    <2>2. Head(commands[n]) = commands[n][1]
      BY <2>1, HeadTailProperties
    <2>3. QED
      BY <2>2 DEF RunPrune
  <1>5. RouterOrdered(n)
    BY DEF OrderInv
  <1>6. 1 \in 1..Len(commands[n]) /\ IsLookup(commands[n][1])
    BY <1>2, <1>4 DEF IsLookup
  <1>7. \A k \in 1..Len(commands'[n]) :
            \/ k = last
            \/ k + 1 \in 2..Len(commands[n]) /\ commands'[n][k] = commands[n][k + 1]
    BY <1>2
  <1> HIDE DEF i, x
  <1>8. ASSUME NEW j \in 2..Len(commands[n])
        PROVE  /\ j \in 1..Len(commands[n])
               /\ commands[n][j].cmd = "prune" => i < commands[n][j].update
               /\ commands[n][j].cmd = "range" => commands[n][j].update < i
    <2>1. j \in 1..Len(commands[n]) /\ 1 < j
      BY <1>2
    <2>2. commands[n][j].cmd = "prune" => Began(commands[n][1], commands[n][j], 1, j)
      BY <1>4, <2>1 DEF Began, IsLookup
    <2>3. commands[n][j].cmd = "range" => Began(commands[n][j], commands[n][1], j, 1)
      BY <1>4, <2>1 DEF Began, IsLookup
    <2>4. QED
      BY <1>4, <1>5, <1>6, <2>1, <2>2, <2>3 DEF RouterOrdered
  <1>9. ASSUME NEW j \in 1..Len(commands'[n]), NEW k \in 1..Len(routerIn[n]), IsLookup(commands'[n][j])
        PROVE  commands'[n][j].update < routerIn[n][k]
    <2>1. CASE j = last
      BY <1>2, <1>3, <1>4, <1>5, <1>6, <2>1 DEF RouterOrdered
    <2>2. CASE j + 1 \in 2..Len(commands[n]) /\ commands'[n][j] = commands[n][j + 1]
      BY <1>5, <1>8, <1>9, <2>2 DEF RouterOrdered
    <2>3. QED
      BY <1>7, <2>1, <2>2
  <1>10. ASSUME NEW j \in 1..Len(commands'[n]), NEW k \in 1..Len(commands'[n]),
                Began(commands'[n][j], commands'[n][k], j, k)
         PROVE  commands'[n][j].update < commands'[n][k].update
    <2>1. CASE /\ j + 1 \in 2..Len(commands[n]) /\ commands'[n][j] = commands[n][j + 1]
               /\ k + 1 \in 2..Len(commands[n]) /\ commands'[n][k] = commands[n][k + 1]
      <3>1. j < k => j + 1 < k + 1
        OBVIOUS
      <3>2. Began(commands[n][j + 1], commands[n][k + 1], j + 1, k + 1)
        BY <1>10, <2>1, <3>1 DEF Began
      <3>3. QED
        BY <1>5, <1>8, <2>1, <3>2 DEF RouterOrdered
    <2>2. CASE k = last /\ j + 1 \in 2..Len(commands[n]) /\ commands'[n][j] = commands[n][j + 1]
      <3>1. commands'[n][k].cmd = "range" /\ commands'[n][k].update = i
        BY <1>2, <1>3, <2>2
      <3>2. commands[n][j + 1].cmd = "range"
        BY <1>10, <2>2, <3>1 DEF Began
      <3>3. QED
        BY <1>8, <2>2, <3>1, <3>2
    <2>3. CASE j = last /\ k + 1 \in 2..Len(commands[n]) /\ commands'[n][k] = commands[n][k + 1]
      <3>1. commands'[n][j].cmd = "range" /\ commands'[n][j].update = i
        BY <1>2, <1>3, <2>3
      <3>2. ~(j < k)
        BY <1>2, <2>3
      <3>3. commands[n][k + 1].cmd = "prune"
        BY <1>10, <2>3, <3>1, <3>2 DEF Began
      <3>4. QED
        BY <1>8, <2>3, <3>1, <3>3
    <2>4. CASE j = last /\ k = last
      <3>1. ~(j < k)
        BY <1>2, <2>4
      <3>2. QED
        BY <1>10, <2>4, <3>1 DEF Began
    <2>5. QED
      BY <1>7, <2>1, <2>2, <2>3, <2>4
  <1>11. RouterOrdered(n)'
    BY <1>1, <1>5, <1>9, <1>10 DEF RouterOrdered
  <1>12. ASSUME NEW u, SentFirst(u, n)
         PROVE  SentFirst(u, n)'
    <2>1. ASSUME NEW k \in 1..Len(commands'[n])
          PROVE  ToLookUp(commands'[n][k], u)
      <3>1. CASE k = last
        <4>1. u < i
          BY <1>4, <1>6, <1>12 DEF SentFirst, ToLookUp
        <4>2. QED
          BY <1>2, <1>3, <3>1, <4>1 DEF ToLookUp
      <3>2. CASE k + 1 \in 2..Len(commands[n]) /\ commands'[n][k] = commands[n][k + 1]
        BY <1>8, <1>12, <3>2 DEF SentFirst
      <3>3. QED
        BY <1>7, <3>1, <3>2
    <2>2. QED
      BY <1>1, <1>12, <2>1 DEF SentFirst, ToLookUp
  <1>13. RouterKeeps(n)
    BY <1>11, <1>12 DEF RouterKeeps
  <1>14. \A r \in Nodes : RouterKeeps(r)
    BY <1>1, <1>2, <1>13, QueuesSame DEF OrderInv
  <1>15. QED
    BY <1>1, <1>14, NobodySent

(***************************************************************************)
(* The update goes to the nodes, and from there to connections.            *)
(***************************************************************************)
LEMMA RangeOrdered ==
    ASSUME TypeOK, UnderWay, OrderInv, NEW n \in Nodes, Run(n), RunRange(n)
    PROVE  OrderInv'
  <1> DEFINE i == Head(commands[n]).update
             d == [update |-> i, router |-> n]
  <1>1. commands[n] # <<>> /\ commands' = Rest(n) /\ UNCHANGED <<routerIn, got>>
    BY DEF Run, RunRange
  <1>2. \A r \in Nodes : RouterKeeps(r)
    BY <1>1, RestKeepsRouter DEF OrderInv
  <1>3. d.update = i /\ d.router = n /\ i \in 1..Len(published)
    BY <1>1, AfterRange
  <1>4. ASSUME NEW m \in Nodes
        PROVE  \/ nodeIn'[m] = nodeIn[m]
               \/ /\ Len(nodeIn[m]) \in Nat /\ Len(nodeIn'[m]) = Len(nodeIn[m]) + 1
                  /\ \A k \in 1..Len(nodeIn[m]) : nodeIn'[m][k] = nodeIn[m][k]
                  /\ nodeIn'[m][Len(nodeIn[m]) + 1] = d
    BY <1>1, AfterRange
  <1>5. /\ commands[n][1].cmd = "range" /\ commands[n][1].update = i /\ 1 \in 1..Len(commands[n])
        /\ \A k \in 1..Len(commands'[n]) :
             k + 1 \in 1..Len(commands[n]) /\ commands'[n][k] = commands[n][k + 1]
    <2>1. Head(commands[n]) = commands[n][1] /\ Len(commands[n]) \in Nat \ {0}
      BY <1>1, AfterRest
    <2>2. \A k \in 1..Len(commands'[n]) :
             k + 1 \in 1..Len(commands[n]) /\ commands'[n][k] = commands[n][k + 1]
      BY <1>1, AfterRest
    <2>3. QED
      BY <2>1, <2>2 DEF RunRange
  <1> HIDE DEF d, i
  <1>6. RouterOrdered(n) /\ IsLookup(commands[n][1])
    BY <1>5 DEF OrderInv, IsLookup
  <1>7. ASSUME NEW u, u = i
        PROVE  SentFirst(u, n)'
    <2>1. \A k \in 1..Len(routerIn'[n]) : i < routerIn'[n][k]
      BY <1>1, <1>5, <1>6 DEF RouterOrdered
    <2>2. ASSUME NEW k \in 1..Len(commands'[n]), IsLookup(commands'[n][k])
          PROVE  i < commands'[n][k].update
      <3>1. 1 < k + 1
        OBVIOUS
      <3>2. Began(commands[n][1], commands[n][k + 1], 1, k + 1)
        BY <1>5, <1>6, <2>2, <3>1 DEF Began, IsLookup
      <3>3. QED
        BY <1>5, <1>6, <3>2 DEF RouterOrdered
    <2>3. QED
      BY <1>7, <2>1, <2>2 DEF SentFirst, ToLookUp
  <1>8. ASSUME NEW u, SentFirst(u, n)
        PROVE  u < i
    BY <1>5, <1>6, <1>8 DEF SentFirst, ToLookUp
  <1>9. ASSUME NEW m \in Nodes
        PROVE  NodeOrdered(m)'
    <2>1. NodeOrdered(m)
      BY DEF OrderInv
    <2>2. ASSUME NEW j \in 1..Len(nodeIn[m])
          PROVE  SentFirst(nodeIn[m][j].update, nodeIn[m][j].router)
                 /\ \A u, r : u = nodeIn[m][j].update /\ r = nodeIn[m][j].router => SentFirst(u, r)'
      BY <1>2, <2>1, DeliveredRange DEF NodeOrdered, RouterKeeps
    <2>3. CASE nodeIn'[m] = nodeIn[m]
      BY <2>1, <2>2, <2>3 DEF NodeOrdered, InOrder
    <2>4. CASE /\ Len(nodeIn[m]) \in Nat /\ Len(nodeIn'[m]) = Len(nodeIn[m]) + 1
               /\ \A k \in 1..Len(nodeIn[m]) : nodeIn'[m][k] = nodeIn[m][k]
               /\ nodeIn'[m][Len(nodeIn[m]) + 1] = d
      <3> DEFINE last == Len(nodeIn[m]) + 1
      <3>1. \A k \in 1..Len(nodeIn'[m]) : k \in 1..Len(nodeIn[m]) \/ k = last
        BY <2>4
      <3>2. last \in Nat
        BY <2>4
      <3>3. ASSUME NEW j \in 1..Len(nodeIn'[m]), NEW k \in 1..Len(nodeIn'[m]), j < k
            PROVE  InOrder(nodeIn'[m][j], nodeIn'[m][k])
        <4>1. j \in 1..Len(nodeIn[m])
          BY <2>4, <3>3
        <4>2. CASE k \in 1..Len(nodeIn[m])
          BY <2>1, <2>4, <3>3, <4>1, <4>2 DEF NodeOrdered
        <4>3. CASE k = last
          BY <1>3, <1>8, <2>2, <2>4, <4>1, <4>3 DEF InOrder
        <4>4. QED
          BY <3>1, <4>2, <4>3
      <3>4. ASSUME NEW j \in 1..Len(nodeIn'[m])
            PROVE  SentFirst(nodeIn[m][j].update, nodeIn[m][j].router)'
        <4>1. CASE j \in 1..Len(nodeIn[m])
          BY <2>2, <2>4, <4>1
        <4>2. CASE j = last
          <5>1. nodeIn'[m][j].update = i /\ nodeIn'[m][j].router = n
            BY <1>3, <2>4, <4>2
          <5>2. QED
            BY <1>7, <5>1
        <4>3. QED
          BY <3>1, <4>1, <4>2
      <3>5. QED
        BY <3>3, <3>4 DEF NodeOrdered, InOrder
    <2>5. QED
      BY <1>4, <2>3, <2>4
  <1>10. ASSUME NEW c \in Conns
         PROVE  ConnOrdered(c)'
    <2> DEFINE m == NodeOf[c]
    <2>1. m \in Nodes /\ ConnOrdered(c)
      BY DeliveryAssumption DEF OrderInv
    <2>2. ASSUME NEW j \in 1..Len(got[c])
          PROVE  /\ SentFirst(got[c][j].update, got[c][j].router)
                 /\ SentFirst(got[c][j].update, got[c][j].router)'
      <3>1. SentFirst(got[c][j].update, got[c][j].router)
        BY <2>1 DEF ConnOrdered
      <3>2. \A u, r : u = got[c][j].update /\ r = got[c][j].router => SentFirst(u, r)'
        BY <1>2, <3>1, DeliveredRange DEF RouterKeeps
      <3>3. QED
        BY <1>1, <3>1, <3>2
    <2>3. ASSUME NEW j \in 1..Len(got[c]), NEW k \in 1..Len(nodeIn'[m])
          PROVE  InOrder(got[c][j], nodeIn'[m][k])
      <3>1. CASE k \in 1..Len(nodeIn[m]) /\ nodeIn'[m][k] = nodeIn[m][k]
        BY <2>1, <3>1 DEF ConnOrdered
      <3>2. CASE nodeIn'[m][k] = d
        BY <1>3, <1>8, <2>2, <3>2 DEF InOrder
      <3>3. \/ k \in 1..Len(nodeIn[m]) /\ nodeIn'[m][k] = nodeIn[m][k]
            \/ nodeIn'[m][k] = d
        <4>1. CASE nodeIn'[m] = nodeIn[m]
          BY <2>3, <4>1
        <4>2. CASE /\ Len(nodeIn[m]) \in Nat /\ Len(nodeIn'[m]) = Len(nodeIn[m]) + 1
                   /\ \A l \in 1..Len(nodeIn[m]) : nodeIn'[m][l] = nodeIn[m][l]
                   /\ nodeIn'[m][Len(nodeIn[m]) + 1] = d
          <5>1. k \in 1..Len(nodeIn[m]) \/ k = Len(nodeIn[m]) + 1
            BY <2>3, <4>2
          <5>2. QED
            BY <4>2, <5>1
        <4>3. QED
          BY <1>4, <2>1, <4>1, <4>2
      <3>4. QED
        BY <3>1, <3>2, <3>3
    <2>4. QED
      BY <1>1, <2>1, <2>2, <2>3 DEF ConnOrdered, InOrder
  <1>11. QED
    BY <1>2, <1>9, <1>10 DEF OrderInv, RouterKeeps

LEMMA DeliverOrdered ==
    ASSUME TypeOK, UnderWay, OrderInv, NEW n \in Nodes, Deliver(n)
    PROVE  OrderInv'
  <1> DEFINE d == Head(nodeIn[n])
  <1>1. UNCHANGED <<commands, routerIn>>
    BY DEF Deliver
  <1>2. ASSUME NEW r \in Nodes
        PROVE  RouterOrdered(r)'
    BY <1>1, QueuesSame DEF OrderInv, RouterKeeps
  <1>3. \A u, r : SentFirst(u, r) => SentFirst(u, r)'
    BY <1>1 DEF SentFirst, ToLookUp
  <1>4. /\ d = nodeIn[n][1] /\ 1 \in 1..Len(nodeIn[n])
        /\ \A m \in Nodes \ {n} : nodeIn'[m] = nodeIn[m]
        /\ \A k \in 1..Len(nodeIn'[n]) :
             k + 1 \in 1..Len(nodeIn[n]) /\ nodeIn'[n][k] = nodeIn[n][k + 1]
    <2>1. /\ d = nodeIn[n][1] /\ Len(nodeIn[n]) \in Nat \ {0}
          /\ \A m \in Nodes \ {n} : nodeIn'[m] = nodeIn[m]
          /\ \A k \in 1..Len(nodeIn'[n]) :
               k + 1 \in 1..Len(nodeIn[n]) /\ nodeIn'[n][k] = nodeIn[n][k + 1]
      BY AfterDeliver
    <2>2. 1 \in 1..Len(nodeIn[n])
      BY <2>1
    <2>3. QED
      BY <2>1, <2>2
  <1>5. /\ \A c \in Local(n) : Sent(c, d)
        /\ \A c \in Conns \ Local(n) : got'[c] = got[c]
    BY DeliverSends
  <1> HIDE DEF d
  <1>6. NodeOrdered(n)
    BY DEF OrderInv
  <1>7. ASSUME NEW k \in 1..Len(nodeIn'[n])
        PROVE  InOrder(d, nodeIn'[n][k])
    <2>1. 1 < k + 1
      OBVIOUS
    <2>2. QED
      BY <1>4, <1>6, <2>1 DEF NodeOrdered
  <1>8. SentFirst(d.update, d.router)
    BY <1>4, <1>6 DEF NodeOrdered
  <1>9. ASSUME NEW m \in Nodes
        PROVE  NodeOrdered(m)'
    <2>1. NodeOrdered(m)
      BY DEF OrderInv
    <2>2. CASE m # n
      <3>1. nodeIn'[m] = nodeIn[m]
        BY <1>4, <2>2
      <3>2. QED
        BY <1>3, <2>1, <3>1 DEF NodeOrdered, InOrder
    <2>3. CASE m = n
      <3>1. ASSUME NEW j \in 1..Len(nodeIn'[n]), NEW k \in 1..Len(nodeIn'[n]), j < k
            PROVE  InOrder(nodeIn'[n][j], nodeIn'[n][k])
        <4>1. j + 1 < k + 1
          BY <3>1
        <4>2. QED
          BY <1>4, <1>6, <4>1 DEF NodeOrdered
      <3>2. ASSUME NEW j \in 1..Len(nodeIn'[n])
            PROVE  SentFirst(nodeIn[n][j].update, nodeIn[n][j].router)'
        BY <1>3, <1>4, <1>6 DEF NodeOrdered
      <3>3. QED
        BY <2>3, <3>1, <3>2 DEF NodeOrdered, InOrder
    <2>4. QED
      BY <2>2, <2>3
  <1>10. ASSUME NEW c \in Conns
         PROVE  ConnOrdered(c)'
    <2>1. ConnOrdered(c) /\ NodeOf[c] \in Nodes
      BY DeliveryAssumption DEF OrderInv
    <2>2. CASE got'[c] = got[c]
      <3>1. ASSUME NEW j \in 1..Len(got[c]), NEW k \in 1..Len(nodeIn'[NodeOf[c]])
            PROVE  InOrder(got[c][j], nodeIn'[NodeOf[c]][k])
        BY <1>4, <2>1 DEF ConnOrdered
      <3>2. QED
        BY <1>3, <2>1, <2>2, <3>1 DEF ConnOrdered, InOrder
    <2>3. CASE /\ NodeOf[c] = n
               /\ Len(got[c]) \in Nat /\ Len(got'[c]) = Len(got[c]) + 1
               /\ \A k \in 1..Len(got[c]) : got'[c][k] = got[c][k]
               /\ got'[c][Len(got[c]) + 1] = d
      <3> DEFINE last == Len(got[c]) + 1
      <3>1. \A k \in 1..Len(got'[c]) : k \in 1..Len(got[c]) \/ k = last
        BY <2>3
      <3>2. ASSUME NEW j \in 1..Len(got'[c]), NEW k \in 1..Len(got'[c]), j < k
            PROVE  InOrder(got'[c][j], got'[c][k])
        <4>1. j \in 1..Len(got[c])
          BY <2>3, <3>2
        <4>2. CASE k \in 1..Len(got[c])
          BY <2>1, <2>3, <3>2, <4>1, <4>2 DEF ConnOrdered
        <4>3. CASE k = last
          BY <1>4, <2>1, <2>3, <4>1, <4>3 DEF ConnOrdered
        <4>4. QED
          BY <3>1, <4>2, <4>3
      <3>3. ASSUME NEW j \in 1..Len(got'[c])
            PROVE  SentFirst(got'[c][j].update, got'[c][j].router)
        <4>1. CASE j \in 1..Len(got[c])
          BY <2>1, <2>3, <4>1 DEF ConnOrdered
        <4>2. CASE j = last
          BY <1>8, <2>3, <4>2
        <4>3. QED
          BY <3>1, <4>1, <4>2
      <3>4. ASSUME NEW j \in 1..Len(got'[c])
            PROVE  SentFirst(got[c][j].update, got[c][j].router)'
        BY <1>3, <3>3
      <3>5. ASSUME NEW j \in 1..Len(got'[c]), NEW k \in 1..Len(nodeIn'[n])
            PROVE  InOrder(got'[c][j], nodeIn'[n][k])
        <4>1. CASE j \in 1..Len(got[c])
          BY <1>4, <2>1, <2>3, <4>1 DEF ConnOrdered
        <4>2. CASE j = last
          BY <1>7, <2>3, <4>2
        <4>3. QED
          BY <3>1, <4>1, <4>2
      <3>6. QED
        BY <2>3, <3>2, <3>4, <3>5 DEF ConnOrdered, InOrder
    <2>4. QED
      BY <1>5, <2>2, <2>3 DEF Sent, Local
  <1>11. QED
    BY <1>2, <1>9, <1>10 DEF OrderInv

(***************************************************************************)
(* Deliveries are in order: a connection gets what one router routes to it *)
(* at most once and in the order of publication, whichever targets the     *)
(* updates have, however lookups of several updates overlap, and whatever  *)
(* crashes or fails (UpdateRouter, the Redis bus and PushService).         *)
(***************************************************************************)
THEOREM OrderedPerRouterKept == Spec => []OrderedPerRouter
  <1>1. Init => TypeOK /\ UnderWay
    BY TypeInit
  <1>2. Init => OrderInv
    <2> SUFFICES ASSUME Init PROVE OrderInv
      OBVIOUS
    <2>1. /\ \A n \in Nodes : Len(commands[n]) = 0 /\ Len(routerIn[n]) = 0 /\ Len(nodeIn[n]) = 0
          /\ \A c \in Conns : Len(got[c]) = 0
      BY EmptySeq DEF Init
    <2>2. QED
      BY <2>1 DEF OrderInv, RouterOrdered, NodeOrdered, ConnOrdered
  <1>3. TypeOK /\ UnderWay /\ [Next]_vars => TypeOK' /\ UnderWay'
    BY TypeStep
  <1>4. TypeOK /\ UnderWay /\ OrderInv /\ [Next]_vars => OrderInv'
    <2> SUFFICES ASSUME TypeOK, UnderWay, OrderInv, [Next]_vars
                 PROVE  OrderInv'
      OBVIOUS
    <2>1. ASSUME NEW c \in Conns,
                 \/ \E k \in Keys, s \in Subjects \cup {None} : Packet(c, k, s)
                 \/ \E s \in Subjects : Login(c, s)
                 \/ Logout(c) \/ Close(c)
          PROVE  OrderInv'
      BY <2>1, BinderOrdered
    <2>2. ASSUME NEW n \in Nodes, Heartbeat(n)
          PROVE  OrderInv'
      BY <2>2, BinderOrdered
    <2>3. ASSUME NEW n \in Nodes, Run(n)
          PROVE  OrderInv'
      BY <2>3, RestOrdered, PruneOrdered, RangeOrdered DEF Run
    <2>4. ASSUME NEW n \in Nodes, Route(n) \/ Deliver(n) \/ Fail(n) \/ Crash(n)
          PROVE  OrderInv'
      BY <2>4, RouteOrdered, DeliverOrdered, RestOrdered, CrashOrdered
    <2>5. ASSUME NEW t \in Targets, Publish(t)
          PROVE  OrderInv'
      BY <2>5, PublishOrdered
    <2>6. CASE \/ Tick \/ UNCHANGED vars
               \/ (\E n \in Nodes : Restart(n)) \/ \E c \in Conns : OptOut(c)
      BY <2>6, IdleOrdered DEF Tick, Restart, OptOut, vars, bus
    <2>7. QED
      BY <2>1, <2>2, <2>3, <2>4, <2>5, <2>6 DEF Next, System
  <1>5. OrderInv => OrderedPerRouter
    BY DEF OrderInv, ConnOrdered, InOrder, OrderedPerRouter
  <1>6. QED
    BY <1>1, <1>2, <1>3, <1>4, <1>5, PTL DEF Spec
=============================================================================
