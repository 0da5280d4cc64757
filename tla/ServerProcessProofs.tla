------------------------- MODULE ServerProcessProofs -------------------------
(***************************************************************************)
(* What ServerProcess guarantees for any number of listen() and close()    *)
(* calls and of connections, whatever handlers ask for and whatever fails; *)
(* what SchemaHistory does of the schema that the gateway is built with,   *)
(* for any layers, lines and edits; and that what Codec writes by it is    *)
(* read as it was meant, for any values and types.                         *)
(***************************************************************************)
EXTENDS ServerProcess, SchemaWire, SequenceTheorems, FiniteSetTheorems, TLAPS

LEMMA TypeInit == Init => TypeOK
  BY ServerAssumption DEF Init, TypeOK, ServerType, CallType, Configuration, Outcomes, Parts

LEMMA AssemblingType ==
    ASSUME ServerType, NEW l \in Listens, Assembling(l)
    PROVE  ServerType'
  <1>1. CASE Listen(l)
    BY <1>1 DEF Listen, ServerType, At
  <1>3. CASE UpdatesMade(l)
    BY <1>3 DEF UpdatesMade, ServerType, At, Starts, Parts
  <1>4. CASE AssemblyFails(l)
    BY <1>4 DEF AssemblyFails, ServerType, At, Starts, Parts
  <1>5. CASE Assembled(l)
    <2>1. config.carriers \in SUBSET Carriers
      BY DEF ServerType, Configuration
    <2>2. running' \in [Listens -> SUBSET Parts]
      BY <1>5 DEF Assembled, ServerType, Starts, Parts
    <2>3. QED
      BY <1>5, <2>1, <2>2 DEF Assembled, ServerType, At
  <1>6. ASSUME NEW carrier \in Carriers, CarrierListens(l, carrier)
        PROVE  ServerType'
    <2>1. running' \in [Listens -> SUBSET Parts]
      BY <1>6 DEF CarrierListens, ServerType, Starts, Parts
    <2>2. binding' \in [Listens -> SUBSET Carriers]
      BY <1>6 DEF CarrierListens, ServerType
    <2>3. QED
      BY <1>6, <2>1, <2>2 DEF CarrierListens, ServerType, At
  <1>7. CASE TcpPortTaken(l)
    BY <1>7 DEF TcpPortTaken, ServerType, At
  <1>8. CASE WsPortTaken(l)
    BY <1>8 DEF WsPortTaken, ServerType
  <1>9. QED
    BY <1>1, <1>3, <1>4, <1>5, <1>6, <1>7, <1>8 DEF Assembling

LEMMA ClosingType ==
    ASSUME ServerType, NEW k \in Closes, Closing(k)
    PROVE  ServerType'
  <1>1. CASE CloseNothing(k)
    BY <1>1 DEF CloseNothing, ServerType, CloserAt
  <1>2. CASE Close(k)
    <2>1. running' \in [Listens -> SUBSET Parts]
      BY <1>2 DEF Close, ServerType, Stops
    <2>2. binding' \in [Listens -> SUBSET Carriers] /\ closes' \in [Closes -> Listens \cup {None}]
      BY <1>2 DEF Close, ServerType
    <2>3. QED
      BY <1>2, <2>1, <2>2 DEF Close, ServerType, CloserAt
  <1>3. CASE StorageClosed(k)
    <2>1. running' \in [Listens -> SUBSET Parts]
      BY <1>3 DEF StorageClosed, ServerType, Stops
    <2>2. closer' \in [Closes -> {"idle", "storage", "bus", "presence", "done", "rejected"}]
      BY <1>3 DEF StorageClosed, ServerType, CloserAt
    <2>3. QED
      BY <1>3, <2>1, <2>2 DEF StorageClosed, ServerType
  <1>4. CASE BusClosed(k)
    BY <1>4 DEF BusClosed, ServerType, CloserAt, Stops
  <1>5. CASE PresenceClosed(k)
    BY <1>5 DEF PresenceClosed, ServerType, CloserAt, Stops
  <1>6. QED
    BY <1>1, <1>2, <1>3, <1>4, <1>5 DEF Closing

LEMMA CallingType ==
    ASSUME TypeOK, NEW c \in Conns, Calling(c)
    PROVE  CallType'
  <1> USE DEF TypeOK, CallType
  <1>1. ASSUME NewCall(c)
        PROVE  /\ calls' \in [Conns -> Nat]
               /\ effects' \in [Conns -> Seq(Effects)] /\ response' \in [Conns -> Seq(Effects)]
               /\ asked' \in [Conns -> Seq(Effects)] /\ applied' \in [Conns -> Seq(Effects)]
    BY <1>1 DEF NewCall
  <1>2. ASSUME NEW code, Refuse(c, code)
        PROVE  CallType'
    BY <1>1, <1>2 DEF Refuse, Calls
  <1>3. CASE Forward(c)
    BY <1>1, <1>3 DEF Forward, Calls, ServerType
  <1>4. CASE Push(c)
    BY <1>4 DEF Push
  <1>5. ASSUME NEW effect \in Effects, Ask(c, effect)
        PROVE  CallType'
    <2>1. Append(effects[c], effect) \in Seq(Effects) /\ Append(asked[c], effect) \in Seq(Effects)
      BY AppendProperties
    <2>2. QED
      BY <1>5, <2>1 DEF Ask
  <1>6. ASSUME NEW o \in Outcomes, HandlerEnds(c, o)
        PROVE  CallType'
    BY <1>6 DEF HandlerEnds
  <1>7. CASE Apply(c)
    <2>1. Head(response[c]) \in Effects /\ Tail(response[c]) \in Seq(Effects)
      BY <1>7, HeadTailProperties DEF Apply
    <2>2. Append(applied[c], Head(response[c])) \in Seq(Effects)
      BY <2>1, AppendProperties
    <2>3. (IF Head(response[c]).type = "revokeKey" THEN subject[c] ELSE Head(response[c]).subject)
          \in Subjects \cup {Nobody}
      BY <2>1 DEF Effects
    <2>4. QED
      BY <1>7, <2>1, <2>2, <2>3 DEF Apply
  <1>8. CASE ApplyFails(c)
    BY <1>8 DEF ApplyFails
  <1>9. CASE Answer(c)
    BY <1>9 DEF Answer
  <1>10. CASE AnswerFails(c)
    BY <1>10 DEF AnswerFails
  <1>11. QED
    BY <1>2, <1>3, <1>4, <1>5, <1>6, <1>7, <1>8, <1>9, <1>10 DEF Calling, Ends

\* An action of the server leaves the calls as they are, and the reverse.
LEMMA AssemblingLeavesCalls ==
    ASSUME NEW l \in Listens, Assembling(l)
    PROVE  UNCHANGED callVars
  BY DEF Assembling, Listen, UpdatesMade, AssemblyFails, Assembled, CarrierListens,
         TcpPortTaken, WsPortTaken

LEMMA ClosingLeavesCalls ==
    ASSUME NEW k \in Closes, Closing(k)
    PROVE  UNCHANGED callVars
  BY DEF Closing, CloseNothing, Close, StorageClosed, BusClosed, PresenceClosed

LEMMA CallsLeaveServer ==
    ASSUME NEW c \in Conns, Accept(c) \/ Calling(c)
    PROVE  UNCHANGED serverVars
  BY DEF Accept, Calling, Ends, Refuse, Forward, Push, Ask, HandlerEnds, Apply, ApplyFails,
         Answer, AnswerFails

LEMMA TypeStep == TypeOK /\ [Next]_vars => TypeOK'
  <1> SUFFICES ASSUME TypeOK, [Next]_vars
               PROVE  TypeOK'
    OBVIOUS
  <1>1. ASSUME UNCHANGED callVars PROVE CallType'
    BY <1>1 DEF callVars, TypeOK, CallType
  <1>2. ASSUME UNCHANGED serverVars PROVE ServerType'
    BY <1>2 DEF serverVars, TypeOK, ServerType
  <1>3. ASSUME NEW l \in Listens, Assembling(l) PROVE TypeOK'
    BY <1>1, <1>3, AssemblingType, AssemblingLeavesCalls DEF TypeOK
  <1>4. ASSUME NEW k \in Closes, Closing(k) PROVE TypeOK'
    BY <1>1, <1>4, ClosingType, ClosingLeavesCalls DEF TypeOK
  <1>5. ASSUME NEW c \in Conns, Accept(c) PROVE TypeOK'
    <2>1. at' \in [Conns -> Listens \cup {None}]
      BY <1>5 DEF Accept, TypeOK, CallType
    <2>2. CallType'
      BY <1>5, <2>1 DEF Accept, TypeOK, CallType
    <2>3. QED
      BY <1>2, <1>5, <2>2, CallsLeaveServer DEF TypeOK
  <1>6. ASSUME NEW c \in Conns, Calling(c) PROVE TypeOK'
    BY <1>2, <1>6, CallingType, CallsLeaveServer DEF TypeOK
  <1>7. CASE UNCHANGED vars
    BY <1>1, <1>2, <1>7 DEF vars, TypeOK
  <1>8. QED
    BY <1>3, <1>4, <1>5, <1>6, <1>7 DEF Next

\* The state of the server, of its listen() and close() calls and of the calls of its
\* connections has its types.
THEOREM TypeCorrect == Spec => []TypeOK
  BY TypeInit, TypeStep, PTL DEF Spec

-----------------------------------------------------------------------------
\* What the response still holds comes after what is applied, and together they are what
\* the handler had asked for.
EffectsKept ==
    \A c \in Conns :
        /\ phase[c] = "handling" => asked[c] = effects[c] /\ applied[c] = <<>>
        /\ phase[c] = "applying" => applied[c] \o response[c] = asked[c]
        /\ phase[c] = "answered" => applied[c] = asked[c]

LEMMA AppliedMovesOn ==
    ASSUME NEW S, NEW done \in Seq(S), NEW todo \in Seq(S), todo # <<>>
    PROVE  Append(done, Head(todo)) \o Tail(todo) = done \o todo
  <1>1. Head(todo) \in S /\ Tail(todo) \in Seq(S) /\ todo = <<Head(todo)>> \o Tail(todo)
    BY HeadTailProperties, HeadTailAppend, ConcatProperties
  <1>2. Append(done, Head(todo)) = done \o <<Head(todo)>>
    BY <1>1, AppendIsConcat
  <1>3. <<Head(todo)>> \in Seq(S)
    BY <1>1
  <1>4. (done \o <<Head(todo)>>) \o Tail(todo) = done \o (<<Head(todo)>> \o Tail(todo))
    BY <1>1, <1>3, ConcatAssociative
  <1>5. QED
    BY <1>1, <1>2, <1>4

LEMMA EffectsKeptByCall ==
    ASSUME TypeOK, EffectsKept, NEW c \in Conns, Calling(c)
    PROVE  EffectsKept'
  <1> USE DEF EffectsKept, TypeOK, CallType
  <1>1. ASSUME NEW code, Refuse(c, code) PROVE EffectsKept'
    BY <1>1 DEF Refuse, Calls, NewCall
  <1>2. CASE Forward(c)
    BY <1>2 DEF Forward, Calls, NewCall
  <1>3. CASE Push(c)
    BY <1>3 DEF Push
  <1>4. ASSUME NEW effect \in Effects, Ask(c, effect) PROVE EffectsKept'
    BY <1>4 DEF Ask
  <1>5. ASSUME NEW o \in Outcomes, HandlerEnds(c, o) PROVE EffectsKept'
    <2>1. <<>> \o effects[c] = effects[c]
      BY ConcatEmptySeq
    <2>2. QED
      BY <1>5, <2>1 DEF HandlerEnds
  <1>6. CASE Apply(c)
    <2>1. Append(applied[c], Head(response[c])) \o Tail(response[c]) = applied[c] \o response[c]
      <3>1. applied[c] \in Seq(Effects) /\ response[c] \in Seq(Effects) /\ response[c] # <<>>
        BY <1>6 DEF Apply
      <3>2. QED
        BY <3>1, AppliedMovesOn, Zenon
    <2>2. /\ applied' = [applied EXCEPT ![c] = Append(@, Head(response[c]))]
          /\ response' = [response EXCEPT ![c] = Tail(@)]
          /\ phase[c] = "applying" /\ UNCHANGED <<phase, asked, effects>>
      BY <1>6 DEF Apply
    <2>3. applied'[c] \o response'[c] = asked[c]
      BY <2>1, <2>2, Zenon
    <2>4. QED
      BY <2>2, <2>3
  <1>7. CASE ApplyFails(c)
    BY <1>7 DEF ApplyFails
  <1>8. CASE Answer(c)
    <2>1. applied[c] \o <<>> = applied[c]
      BY ConcatEmptySeq
    <2>2. QED
      BY <1>8, <2>1 DEF Answer
  <1>9. CASE AnswerFails(c)
    BY <1>9 DEF AnswerFails
  <1>10. QED
    BY <1>1, <1>2, <1>3, <1>4, <1>5, <1>6, <1>7, <1>8, <1>9 DEF Calling, Ends

LEMMA EffectsKeptStep == TypeOK /\ EffectsKept /\ [Next]_vars => EffectsKept'
  <1> SUFFICES ASSUME TypeOK, EffectsKept, [Next]_vars
               PROVE  EffectsKept'
    OBVIOUS
  <1>1. CASE \E c \in Conns : Calling(c)
    BY <1>1, EffectsKeptByCall
  <1>2. ASSUME UNCHANGED <<phase, asked, effects, applied, response>> PROVE EffectsKept'
    BY <1>2 DEF EffectsKept
  <1>3. ASSUME UNCHANGED callVars PROVE EffectsKept'
    BY <1>2, <1>3 DEF callVars
  <1>4. CASE \E l \in Listens : Assembling(l)
    BY <1>3, <1>4, AssemblingLeavesCalls
  <1>5. CASE \E k \in Closes : Closing(k)
    BY <1>3, <1>5, ClosingLeavesCalls
  <1>6. CASE \E c \in Conns : Accept(c)
    BY <1>2, <1>6 DEF Accept
  <1>7. CASE UNCHANGED vars
    BY <1>3, <1>7 DEF vars
  <1>8. QED
    BY <1>1, <1>4, <1>5, <1>6, <1>7 DEF Next

\* A client that has its answer has all the effects its handler asked for, in order.
THEOREM AnsweredEffectsApplied == Spec => []AnswersFollowEffects
  <1>1. Init => EffectsKept
    BY DEF Init, EffectsKept
  <1>2. EffectsKept => AnswersFollowEffects
    BY DEF EffectsKept, AnswersFollowEffects
  <1>3. QED
    BY <1>1, <1>2, TypeInit, TypeStep, EffectsKeptStep, PTL DEF Spec

-----------------------------------------------------------------------------
\* Before there is a gateway at most one listen() is under way, and it replaces the
\* emitter before the gateway.  Afterwards neither changes, so a connection's gateway
\* and the emitter its handlers are given are the same assembly.
OneGateway ==
    /\ \A l, j \in Listens : ~Settled(l) /\ ~Settled(j) => l = j
    /\ \A l \in Listens : stage[l] \in {"updates", "storage"} => gateway = None
    /\ \A l \in Listens : stage[l] = "storage" => emitter = l
    /\ gateway # None => emitter = gateway

CarriersOfGateway ==
    \A l \in Listens : running[l] \cap ({"heartbeat"} \cup Carriers) # {} \/ binding[l] # {} => l = gateway

AtGateway ==
    \A c \in Conns :
        /\ at[c] # None => at[c] = gateway
        /\ phase[c] \in {"handling", "applying"} => at[c] # None /\ bus[c] = at[c]

HomeInv == OneGateway /\ CarriersOfGateway /\ AtGateway /\ PushesStayHome

LEMMA HomeByAssembling ==
    ASSUME TypeOK, HomeInv, NEW l \in Listens, Assembling(l)
    PROVE  HomeInv'
  <1> USE ServerAssumption DEF TypeOK, ServerType
  <1>1. UNCHANGED callVars
    BY AssemblingLeavesCalls
  <1>2. OneGateway' /\ (gateway' = gateway \/ (gateway = None /\ gateway' = l))
    <2> USE DEF HomeInv, OneGateway, Settled
    <2>1. CASE Listen(l)
      BY <2>1 DEF Listen, At
    <2>3. CASE UpdatesMade(l)
      BY <2>3 DEF UpdatesMade, At
    <2>4. CASE AssemblyFails(l)
      BY <2>4 DEF AssemblyFails, At
    <2>5. CASE Assembled(l)
      BY <2>5 DEF Assembled, At
    <2>6. ASSUME NEW carrier \in Carriers, CarrierListens(l, carrier)
          PROVE  OneGateway' /\ gateway' = gateway
      BY <2>6 DEF CarrierListens, At
    <2>7. CASE TcpPortTaken(l)
      BY <2>7 DEF TcpPortTaken, At
    <2>8. CASE WsPortTaken(l)
      BY <2>8 DEF WsPortTaken
    <2>9. QED
      BY <2>1, <2>3, <2>4, <2>5, <2>6, <2>7, <2>8 DEF Assembling
  <1>3. CarriersOfGateway'
    <2> USE DEF HomeInv, OneGateway, CarriersOfGateway
    <2>1. CASE Listen(l)
      BY <2>1 DEF Listen
    <2>3. CASE UpdatesMade(l)
      BY <2>3 DEF UpdatesMade, Starts, Carriers
    <2>4. CASE AssemblyFails(l)
      BY <2>4 DEF AssemblyFails, Starts, Carriers
    <2>5. CASE Assembled(l)
      BY <2>5 DEF Assembled, Starts
    <2>6. ASSUME NEW carrier \in Carriers, CarrierListens(l, carrier)
          PROVE  CarriersOfGateway'
      BY <2>6 DEF CarrierListens, Starts
    <2>7. CASE TcpPortTaken(l)
      BY <2>7 DEF TcpPortTaken
    <2>8. CASE WsPortTaken(l)
      BY <2>8 DEF WsPortTaken
    <2>9. QED
      BY <2>1, <2>3, <2>4, <2>5, <2>6, <2>7, <2>8 DEF Assembling
  <1>4. AtGateway'
    BY <1>1, <1>2 DEF HomeInv, AtGateway, callVars
  <1>5. PushesStayHome'
    BY <1>1 DEF HomeInv, PushesStayHome, callVars
  <1>6. QED
    BY <1>2, <1>3, <1>4, <1>5 DEF HomeInv

LEMMA HomeByClosing ==
    ASSUME TypeOK, HomeInv, NEW k \in Closes, Closing(k)
    PROVE  HomeInv'
  <1> USE DEF TypeOK, ServerType
  <1>1. UNCHANGED <<callVars, stage, gateway, emitter>>
    BY DEF Closing, CloseNothing, Close, StorageClosed, BusClosed, PresenceClosed
  <1>2. \A l \in Listens : running'[l] \subseteq running[l] /\ binding'[l] \subseteq binding[l]
    BY DEF Closing, CloseNothing, Close, StorageClosed, BusClosed, PresenceClosed, Stops
  <1>3. OneGateway'
    BY <1>1 DEF HomeInv, OneGateway, Settled
  <1>4. CarriersOfGateway'
    BY <1>1, <1>2 DEF HomeInv, CarriersOfGateway
  <1>5. AtGateway' /\ PushesStayHome'
    BY <1>1 DEF HomeInv, AtGateway, PushesStayHome, callVars
  <1>6. QED
    BY <1>3, <1>4, <1>5 DEF HomeInv

LEMMA HomeByCalling ==
    ASSUME TypeOK, HomeInv, NEW c \in Conns, Accept(c) \/ Calling(c)
    PROVE  HomeInv'
  <1> USE ServerAssumption DEF TypeOK, ServerType, CallType
  <1>1. UNCHANGED serverVars
    BY CallsLeaveServer
  <1>2. OneGateway' /\ CarriersOfGateway'
    BY <1>1 DEF HomeInv, OneGateway, CarriersOfGateway, Settled, serverVars
  <1>3. CASE Accept(c)
    <2>1. \A l \in Listens : running[l] \cap Carriers # {} => l = gateway
      BY DEF HomeInv, CarriersOfGateway, Carriers
    <2>2. AtGateway' /\ PushesStayHome'
      BY <1>1, <1>3, <2>1 DEF Accept, HomeInv, AtGateway, PushesStayHome, serverVars
    <2>3. QED
      BY <1>2, <2>2 DEF HomeInv
  <1>4. ASSUME NEW code, Refuse(c, code) PROVE HomeInv'
    BY <1>1, <1>2, <1>4 DEF Refuse, HomeInv, AtGateway, PushesStayHome, serverVars
  <1>5. CASE Forward(c)
    BY <1>1, <1>2, <1>5
       DEF Forward, Calls, HomeInv, OneGateway, AtGateway, PushesStayHome, serverVars
  <1>6. CASE Push(c)
    BY <1>1, <1>2, <1>6 DEF Push, HomeInv, AtGateway, PushesStayHome, serverVars
  <1>7. ASSUME UNCHANGED <<at, bus, published>>,
               phase' \in [Conns -> {"idle", "handling", "applying", "answered", "lost"}],
               \A d \in Conns : phase'[d] \in {"handling", "applying"}
                                  => phase[d] \in {"handling", "applying"}
        PROVE  HomeInv'
    BY <1>1, <1>2, <1>7 DEF HomeInv, AtGateway, PushesStayHome, serverVars
  <1>8. ASSUME NEW effect \in Effects, Ask(c, effect) PROVE HomeInv'
    BY <1>7, <1>8 DEF Ask
  <1>9. ASSUME NEW o \in Outcomes, HandlerEnds(c, o) PROVE HomeInv'
    BY <1>7, <1>9 DEF HandlerEnds
  <1>10. CASE Ends(c)
    BY <1>7, <1>10 DEF Ends, Apply, ApplyFails, Answer, AnswerFails
  <1>11. QED
    BY <1>3, <1>4, <1>5, <1>6, <1>8, <1>9, <1>10 DEF Calling

LEMMA HomeStep == TypeOK /\ HomeInv /\ [Next]_vars => HomeInv'
  <1>1. ASSUME TypeOK, HomeInv, UNCHANGED vars PROVE HomeInv'
    BY <1>1 DEF vars, serverVars, callVars, HomeInv, OneGateway, CarriersOfGateway, AtGateway,
                PushesStayHome, Settled
  <1>2. QED
    BY <1>1, HomeByAssembling, HomeByClosing, HomeByCalling DEF Next

LEMMA HomeInit == Init => HomeInv
  BY ServerAssumption DEF Init, HomeInv, OneGateway, CarriersOfGateway, AtGateway, PushesStayHome, Settled

\* What a handler pushes goes to the bus of its connection's gateway, however often
\* listen() was called and failed.
THEOREM PushesGoHome == Spec => []PushesStayHome
  <1>1. HomeInv => PushesStayHome
    BY DEF HomeInv
  <1>2. QED
    BY <1>1, TypeInit, TypeStep, HomeInit, HomeStep, PTL DEF Spec

-----------------------------------------------------------------------------
\* What close() leaves, at each of its steps, of the gateway it found, which gets none of
\* its parts again; and what there is without updates.
Left(k) ==
    CASE closer[k] = "bus"      -> {"bus", "presence"}
      [] closer[k] = "presence" -> {"presence"}
      [] closer[k] = "done"     -> {}
      [] OTHER                  -> {"storage", "bus", "presence"}

ClosingInv ==
    \A k \in Closes :
        /\ closer[k] \in {"storage", "bus", "presence"} => closes[k] # None
        /\ closer[k] = "idle" => closes[k] = None
        /\ closes[k] # None => /\ closes[k] = gateway
                               /\ running[gateway] \subseteq Left(k)
                               /\ binding[gateway] = {}

PushlessInv ==
    config.updates = "off" => \A l \in Listens :
        /\ running[l] \cap {"presence", "bus"} = {}
        /\ stage[l] # "updates"

LEMMA PushlessStep == TypeOK /\ PushlessInv /\ [Next]_vars => PushlessInv'
  <1> SUFFICES ASSUME TypeOK, PushlessInv, [Next]_vars
               PROVE  PushlessInv'
    OBVIOUS
  <1> USE DEF TypeOK, ServerType, PushlessInv
  <1>1. ASSUME UNCHANGED serverVars PROVE PushlessInv'
    BY <1>1 DEF serverVars
  <1>2. ASSUME NEW l \in Listens, Assembling(l) PROVE PushlessInv'
    <2>1. CASE Listen(l)
      BY <2>1 DEF Listen, At
    <2>2. CASE UpdatesMade(l)
      BY <2>2 DEF UpdatesMade
    <2>3. CASE AssemblyFails(l)
      BY <2>3 DEF AssemblyFails, At, Starts
    <2>4. CASE Assembled(l)
      BY <2>4 DEF Assembled, At, Starts
    <2>5. ASSUME NEW carrier \in Carriers, CarrierListens(l, carrier) PROVE PushlessInv'
      BY <2>5 DEF CarrierListens, At, Starts, Carriers
    <2>6. CASE TcpPortTaken(l)
      BY <2>6 DEF TcpPortTaken, At
    <2>7. CASE WsPortTaken(l)
      BY <2>7 DEF WsPortTaken
    <2>8. QED
      BY <1>2, <2>1, <2>2, <2>3, <2>4, <2>5, <2>6, <2>7 DEF Assembling
  <1>3. ASSUME NEW k \in Closes, Closing(k) PROVE PushlessInv'
    <2>1. UNCHANGED <<config, stage>>
      BY <1>3 DEF Closing, CloseNothing, Close, StorageClosed, BusClosed, PresenceClosed
    <2>2. \A l \in Listens : running'[l] \subseteq running[l]
      BY <1>3 DEF Closing, CloseNothing, Close, StorageClosed, BusClosed, PresenceClosed, Stops
    <2>3. QED
      BY <2>1, <2>2
  <1>4. QED
    BY <1>1, <1>2, <1>3, CallsLeaveServer DEF Next, vars

LEMMA ClosingByAssembling ==
    ASSUME TypeOK, HomeInv, ClosingInv, NEW l \in Listens, Assembling(l)
    PROVE  ClosingInv'
  <1> USE ServerAssumption DEF TypeOK, ServerType
  <1>1. UNCHANGED <<closer, closes>>
    BY DEF Assembling, Listen, UpdatesMade, AssemblyFails, Assembled, CarrierListens,
           TcpPortTaken, WsPortTaken
  <1>2. ASSUME NEW k \in Closes, closes[k] # None
        PROVE  /\ closes[k] = gateway' /\ running'[gateway'] \subseteq running[gateway]
               /\ binding'[gateway'] = {}
    <2>1. closes[k] = gateway /\ gateway \in Listens /\ gateway # None /\ binding[gateway] = {}
      BY <1>2 DEF ClosingInv
    <2> USE <2>1 DEF HomeInv, OneGateway
    <2>2. CASE Listen(l)
      BY <2>2 DEF Listen
    <2>3. CASE AssemblyFails(l)
      BY <2>3 DEF AssemblyFails
    <2>4. ~(UpdatesMade(l) \/ Assembled(l))
      BY DEF UpdatesMade, Assembled
    <2>5. ~(\E carrier \in Carriers : CarrierListens(l, carrier)) /\ ~TcpPortTaken(l)
      BY DEF CarrierListens, TcpPortTaken, CarriersOfGateway
    <2>6. CASE WsPortTaken(l)
      BY <2>6 DEF WsPortTaken
    <2>7. QED
      BY <2>2, <2>3, <2>4, <2>5, <2>6 DEF Assembling
  <1>3. \A k \in Closes : Left(k)' = Left(k)
    BY <1>1 DEF Left
  <1>4. QED
    BY <1>1, <1>2, <1>3 DEF ClosingInv

LEMMA ClosingByClosing ==
    ASSUME TypeOK, HomeInv, PushlessInv, ClosingInv, NEW k \in Closes, Closing(k)
    PROVE  ClosingInv'
  <1> USE DEF TypeOK, ServerType
  <1>1. UNCHANGED <<gateway, config>>
    BY DEF Closing, CloseNothing, Close, StorageClosed, BusClosed, PresenceClosed
  <1>2. \A l \in Listens : running'[l] \subseteq running[l] /\ binding'[l] \subseteq binding[l]
    BY DEF Closing, CloseNothing, Close, StorageClosed, BusClosed, PresenceClosed, Stops
  <1>3. \A j \in Closes \ {k} : closer'[j] = closer[j] /\ closes'[j] = closes[j]
    BY DEF Closing, CloseNothing, Close, StorageClosed, BusClosed, PresenceClosed, CloserAt
  <1>4. \A j \in Closes \ {k} : Left(j)' = Left(j)
    BY <1>3 DEF Left
  <1>5. gateway # None => running[gateway] \subseteq Parts
    OBVIOUS
  <1> DEFINE Fine ==
        /\ closer'[k] \in {"storage", "bus", "presence"} => closes'[k] # None
        /\ closer'[k] # "idle"
        /\ closes'[k] # None => /\ closes'[k] = gateway
                                /\ running'[gateway] \subseteq Left(k)'
                                /\ binding'[gateway] = {}
  <1>6. CASE CloseNothing(k)
    <2>1. Fine
      BY <1>6 DEF CloseNothing, CloserAt, ClosingInv
    <2>2. QED
      BY <1>1, <1>2, <1>3, <1>4, <2>1 DEF ClosingInv
  <1>7. CASE Close(k)
    <2>1. running'[gateway] \subseteq {"storage", "bus", "presence"} /\ binding'[gateway] = {}
      BY <1>5, <1>7 DEF Close, Stops, Parts
    <2>2. closer'[k] = "storage" /\ closes'[k] = gateway /\ gateway # None
      BY <1>7 DEF Close, CloserAt
    <2>3. Fine
      BY <2>1, <2>2 DEF Left
    <2>4. QED
      BY <1>1, <1>2, <1>3, <1>4, <2>3 DEF ClosingInv
  <1>8. CASE StorageClosed(k)
    <2>1. closes[k] = gateway /\ gateway \in Listens /\ gateway # None /\ binding[gateway] = {}
          /\ running[gateway] \subseteq {"storage", "bus", "presence"} /\ closes'[k] = closes[k]
      BY <1>8, ServerAssumption DEF StorageClosed, ClosingInv, Left
    <2>2. CASE closer'[k] = "rejected"
      BY <1>1, <1>2, <1>3, <1>4, <2>1, <2>2 DEF ClosingInv, Left
    <2>3. CASE closer'[k] # "rejected"
      <3>1. running'[gateway] = running[gateway] \ {"storage"}
        BY <1>8, <2>1, <2>3 DEF StorageClosed, Stops, CloserAt
      <3>2. closer'[k] = IF config.updates = "off" THEN "done" ELSE "bus"
        BY <1>8, <2>3 DEF StorageClosed, CloserAt
      <3>3. running'[gateway] \subseteq Left(k)'
        BY <2>1, <3>1, <3>2 DEF Left, PushlessInv
      <3>4. QED
        BY <1>1, <1>2, <1>3, <1>4, <2>1, <3>2, <3>3 DEF ClosingInv
    <2>4. QED
      BY <2>2, <2>3
  <1>9. CASE BusClosed(k)
    <2>1. closes[k] = gateway /\ gateway \in Listens /\ gateway # None
          /\ running[gateway] \subseteq {"bus", "presence"} /\ closes'[k] = closes[k]
      BY <1>9, ServerAssumption DEF BusClosed, ClosingInv, Left
    <2>2. closer'[k] = "presence" /\ running'[gateway] = running[gateway] \ {"bus"}
      BY <1>9, <2>1 DEF BusClosed, Stops, CloserAt
    <2>3. Fine
      BY <1>2, <2>1, <2>2 DEF Left, ClosingInv
    <2>4. QED
      BY <1>1, <1>2, <1>3, <1>4, <2>3 DEF ClosingInv
  <1>10. CASE PresenceClosed(k)
    <2>1. closes[k] = gateway /\ gateway \in Listens /\ gateway # None
          /\ running[gateway] \subseteq {"presence"} /\ closes'[k] = closes[k]
      BY <1>10, ServerAssumption DEF PresenceClosed, ClosingInv, Left
    <2>2. closer'[k] = "done" /\ running'[gateway] = running[gateway] \ {"presence"}
      BY <1>10, <2>1 DEF PresenceClosed, Stops, CloserAt
    <2>3. Fine
      BY <1>2, <2>1, <2>2 DEF Left, ClosingInv
    <2>4. QED
      BY <1>1, <1>2, <1>3, <1>4, <2>3 DEF ClosingInv
  <1>11. QED
    BY <1>6, <1>7, <1>8, <1>9, <1>10 DEF Closing

LEMMA ClosingStep ==
    TypeOK /\ HomeInv /\ PushlessInv /\ ClosingInv /\ [Next]_vars => ClosingInv'
  <1>1. ASSUME ClosingInv, UNCHANGED serverVars PROVE ClosingInv'
    BY <1>1 DEF serverVars, ClosingInv, Left
  <1>2. QED
    BY <1>1, ClosingByAssembling, ClosingByClosing, CallsLeaveServer DEF Next, vars

\* A close() that fulfilled has taken down all of the gateway it found, and beside it
\* runs only what a failed listen() left.
THEOREM CloseTakesDown == Spec => []ClosedIsDown
  <1>1. Init => PushlessInv /\ ClosingInv
    BY DEF Init, PushlessInv, ClosingInv
  <1>2. TypeOK /\ HomeInv /\ ClosingInv => ClosedIsDown
    <2> SUFFICES ASSUME TypeOK, HomeInv, ClosingInv, NEW k \in Closes,
                        closer[k] = "done", closes[k] # None
                 PROVE  /\ running[closes[k]] = {} /\ binding[closes[k]] = {}
                        /\ \A l \in Listens \ {closes[k]} : running[l] \subseteq {"presence", "bus", "storage"}
      BY DEF ClosedIsDown
    <2>1. closes[k] = gateway /\ running[gateway] = {} /\ binding[gateway] = {}
      BY DEF ClosingInv, Left
    <2>2. \A l \in Listens \ {gateway} : running[l] \cap ({"heartbeat"} \cup Carriers) = {}
      BY DEF HomeInv, CarriersOfGateway
    <2>3. QED
      BY <2>1, <2>2 DEF TypeOK, ServerType, Parts
  <1>3. QED
    BY <1>1, <1>2, TypeInit, TypeStep, HomeInit, HomeStep, PushlessStep, ClosingStep, PTL DEF Spec

-----------------------------------------------------------------------------
(***************************************************************************)
(* The schema.  Natural numbers first: induction over them, and that a set *)
(* of layers has a first and a last one.                                   *)
(***************************************************************************)
LEMMA NatMin ==
    ASSUME NEW S, S \subseteq Nat, S # {}
    PROVE  \E m \in S : \A n \in S : m <= n
<1> DEFINE R == OpToRel(<, Nat)
<1>1. IsWellFoundedOn(R, Nat) /\ \A m, n \in Nat : <<n, m>> \in R <=> n < m
    BY NatLessThanWellFounded DEF OpToRel
<1> HIDE DEF R
<1>2. PICK m \in S : \A n \in S : <<n, m>> \notin R
    BY <1>1, WFMin, Zenon
<1>3. ASSUME NEW n \in S PROVE m <= n
    <2>1. m \in Nat /\ n \in Nat /\ ~(n < m)
        BY <1>1, <1>2
    <2> QED BY <2>1
<1> QED BY <1>3

LEMMA NatAll ==
    ASSUME NEW G, 0 \in G, \A n \in Nat : n \in G => n + 1 \in G
    PROVE  Nat \subseteq G
<1> SUFFICES ASSUME ~(Nat \subseteq G) PROVE FALSE
    OBVIOUS
<1>1. PICK m \in Nat \ G : \A n \in Nat \ G : m <= n
    <2>1. Nat \ G \subseteq Nat /\ Nat \ G # {}
        OBVIOUS
    <2> QED BY <2>1, NatMin
<1>2. m # 0 /\ m - 1 \in Nat
    BY <1>1
<1>3. m - 1 \in G
    BY <1>1, <1>2
<1> QED BY <1>1, <1>2, <1>3

LEMMA FiniteBound ==
    ASSUME NEW S, S \subseteq Nat, IsFiniteSet(S)
    PROVE  \E b \in Nat : \A n \in S : n <= b
<1> DEFINE G == {k \in Nat : \A T \in SUBSET Nat : IsFiniteSet(T) /\ Cardinality(T) = k
                                 => \E b \in Nat : \A n \in T : n <= b}
<1>1. 0 \in G
    BY FS_EmptySet
<1>2. ASSUME NEW k \in Nat, k \in G PROVE k + 1 \in G
    <2>1. ASSUME NEW T \in SUBSET Nat, IsFiniteSet(T), Cardinality(T) = k + 1
          PROVE  \E b \in Nat : \A n \in T : n <= b
        <3>1. T # {}
            BY <2>1, FS_EmptySet
        <3>2. PICK x \in T : TRUE
            BY <3>1
        <3>3. IsFiniteSet(T \ {x}) /\ Cardinality(T \ {x}) = Cardinality(T) - 1
            BY <2>1, FS_RemoveElement, Zenon
        <3>4. Cardinality(T \ {x}) = k
            BY <2>1, <3>3
        <3>5. PICK b \in Nat : \A n \in T \ {x} : n <= b
            BY <1>2, <3>3, <3>4
        <3>6. x + b \in Nat /\ \A n \in T : n <= x + b
            BY <3>5
        <3> QED BY <3>6
    <2>2. k + 1 \in Nat
        OBVIOUS
    <2> QED BY <2>1, <2>2, Zenon
<1>3. Nat \subseteq G
    <2> HIDE DEF G
    <2> QED BY <1>1, <1>2, NatAll
<1>4. Cardinality(S) \in Nat
    BY FS_CardinalityType
<1> QED BY <1>3, <1>4

LEMMA MinIs ==
    ASSUME NEW S, S \subseteq Nat, S # {}
    PROVE  Min(S) \in S /\ \A n \in S : Min(S) <= n
<1>1. \E m \in S : \A n \in S : m <= n
    BY NatMin
<1> QED BY <1>1, Zenon DEF Min

LEMMA MaxIs ==
    ASSUME NEW S, S \subseteq Layers, S # {}
    PROVE  Max(S) \in S /\ (\A n \in S : n <= Max(S)) /\ Max(S) \in Nat \ {0} /\ S \subseteq Nat \ {0}
<1>1. Layers \subseteq Nat \ {0} /\ IsFiniteSet(Layers)
    BY SchemaAssumption
<1>2. PICK b \in Nat : \A n \in Layers : n <= b
    BY <1>1, FiniteBound
<1>3. \E m \in S : \A n \in S : m >= n
    <2> DEFINE D == {b - n : n \in S}
    <2>1. D \subseteq Nat
        <3>1. ASSUME NEW n \in S PROVE b - n \in Nat
            <4>1. n \in Nat /\ n <= b
                BY <1>1, <1>2
            <4> QED BY <4>1
        <3> QED BY <3>1
    <2>5. D # {}
        OBVIOUS
    <2>2. PICK d \in D : \A e \in D : d <= e
        BY <2>1, <2>5, NatMin
    <2>3. PICK m \in S : d = b - m
        BY <2>2
    <2>4. ASSUME NEW n \in S PROVE m >= n
        <3>1. b - m <= b - n /\ m \in Nat /\ n \in Nat
            BY <1>1, <2>2, <2>3
        <3> QED BY <3>1
    <2> QED BY <2>4
<1>4. Max(S) \in S /\ \A n \in S : Max(S) >= n
    BY <1>3, Zenon DEF Max
<1> QED BY <1>1, <1>4

-----------------------------------------------------------------------------
\* The definitions there are have one line per name, and the bare constructors in them
\* one version; the studio has the snapshots of some layers.
IsDefs(lines) == lines \subseteq Lines /\ NamedOnce(lines) /\ WellFormed(lines)

HistoryInv ==
    /\ IsDefs(schema)
    /\ DOMAIN frozen \subseteq Layers /\ \A l \in DOMAIN frozen : IsDefs(frozen[l])
    /\ DOMAIN built \subseteq DOMAIN frozen /\ \A l \in DOMAIN built : built[l] = frozen[l]
    /\ BareKept(schema)

LEMMA HistoryInvInit == HistoryInit => HistoryInv
<1> SUFFICES ASSUME HistoryInit PROVE HistoryInv
    OBVIOUS
<1>1. IsDefs(schema)
    BY SchemaAssumption DEF HistoryInit, IsDefs
<1>2. DOMAIN frozen = {} /\ DOMAIN built = {}
    BY DEF HistoryInit
<1>3. schema \cup UNION {frozen[layer] : layer \in DOMAIN frozen} = schema
    BY <1>2
<1>4. BareKept(schema)
    BY <1>1, <1>3 DEF BareKept, IsDefs, NamedOnce
<1> QED BY <1>1, <1>2, <1>4 DEF HistoryInv

LEMMA HistoryInvStep == HistoryInv /\ [HistoryNext]_historyVars => HistoryInv'
<1> SUFFICES ASSUME HistoryInv, [HistoryNext]_historyVars PROVE HistoryInv'
    OBVIOUS
<1>1. ASSUME NEW lines, Edited(lines), lines \subseteq Lines, NamedOnce(lines) PROVE HistoryInv'
    <2>1. IsDefs(lines) /\ BareKept(lines) /\ schema' = lines /\ frozen' = frozen /\ built' = built
        BY <1>1 DEF Edited, IsDefs
    <2>2. BareKept(schema)'
        BY <2>1 DEF BareKept
    <2> QED BY <2>1, <2>2 DEF HistoryInv, IsDefs
<1>2. ASSUME NEW line \in Lines, Write(line) PROVE HistoryInv'
    <2>1. {l \in schema : l.name # line.name} \cup {line} \subseteq Lines
        BY DEF HistoryInv, IsDefs
    <2>2. NamedOnce({l \in schema : l.name # line.name} \cup {line})
        BY DEF HistoryInv, IsDefs, NamedOnce
    <2> QED BY <1>1, <1>2, <2>1, <2>2 DEF Write
<1>3. ASSUME NEW line \in Lines, Drop(line) PROVE HistoryInv'
    <2>1. schema \ {line} \subseteq Lines /\ NamedOnce(schema \ {line})
        BY DEF HistoryInv, IsDefs, NamedOnce
    <2> QED BY <1>1, <1>3, <2>1 DEF Drop
<1>4. ASSUME NEW layer \in Layers, Freeze(layer) PROVE HistoryInv'
    <2>1. layer \notin DOMAIN frozen
        BY <1>4, SchemaAssumption DEF Freeze
    <2>2. /\ DOMAIN frozen' = DOMAIN frozen \cup {layer} /\ frozen'[layer] = schema
          /\ \A l \in DOMAIN frozen : frozen'[l] = frozen[l]
          /\ schema' = schema /\ built' = built
        BY <1>4, <2>1 DEF Freeze
    <2>3. DOMAIN frozen' \subseteq Layers /\ \A l \in DOMAIN frozen' : IsDefs(frozen'[l])
        BY <2>2 DEF HistoryInv
    <2>4. DOMAIN built' \subseteq DOMAIN frozen' /\ \A l \in DOMAIN built' : built'[l] = frozen'[l]
        BY <2>2 DEF HistoryInv
    <2>5. schema' \cup UNION {frozen'[l] : l \in DOMAIN frozen'}
              = schema \cup UNION {frozen[l] : l \in DOMAIN frozen}
        BY <2>2
    <2>6. BareKept(schema)'
        BY <2>5 DEF HistoryInv, BareKept
    <2>7. IsDefs(schema)'
        BY <2>2 DEF HistoryInv, IsDefs
    <2> QED BY <2>3, <2>4, <2>6, <2>7 DEF HistoryInv, IsDefs
<1>5. CASE Build
    <2>1. built' = frozen /\ schema' = schema /\ frozen' = frozen
        BY <1>5 DEF Build
    <2> QED BY <2>1 DEF HistoryInv, IsDefs, BareKept
<1>6. CASE UNCHANGED historyVars
    BY <1>6 DEF historyVars, HistoryInv, IsDefs, BareKept
<1> QED BY <1>2, <1>3, <1>4, <1>5, <1>6 DEF HistoryNext

LEMMA HistoryInvAlways == HistorySpec => []HistoryInv
<1> QED BY HistoryInvInit, HistoryInvStep, PTL DEF HistorySpec

-----------------------------------------------------------------------------
(***************************************************************************)
(* The history of a symbol: what Folded makes of each layer more.          *)
(***************************************************************************)
NoRuns == [extends |-> FALSE, runs |-> <<>>]
Folds(f, name, n) ==
    f = [l \in 0..n |-> IF l = 0 THEN NoRuns
                        ELSE IF l \in DOMAIN built THEN AddShape(name, f[l - 1], l) ELSE f[l - 1]]

LEMMA FoldedDef ==
    ASSUME NEW name, NEW n \in Nat
    PROVE  Folded(name, n) = (CHOOSE f : Folds(f, name, n))[n]
BY DEF Folded, Folds, NoRuns

LEMMA FoldsExists ==
    ASSUME NEW name, NEW n \in Nat
    PROVE  \E f : Folds(f, name, n)
<1> DEFINE G == {k \in Nat : \E f : Folds(f, name, k)}
<1>1. 0 \in G
    <2> DEFINE f == [l \in 0..0 |-> NoRuns]
    <2>1. Folds(f, name, 0)
        BY DEF Folds
    <2> QED BY <2>1
<1>2. ASSUME NEW k \in Nat, k \in G PROVE k + 1 \in G
    <2>1. PICK f : Folds(f, name, k)
        BY <1>2
    <2> DEFINE next == IF k + 1 \in DOMAIN built THEN AddShape(name, f[k], k + 1) ELSE f[k]
               g == [l \in 0..(k + 1) |-> IF l <= k THEN f[l] ELSE next]
               step(h, l) == IF l = 0 THEN NoRuns
                             ELSE IF l \in DOMAIN built THEN AddShape(name, h[l - 1], l) ELSE h[l - 1]
    <2>2. \A l \in 0..k : f[l] = step(f, l)
        BY <2>1, Zenon DEF Folds
    <2>3. ASSUME NEW l \in 0..(k + 1) PROVE g[l] = step(g, l)
        <3>1. CASE l <= k
            <4>1. g[l] = f[l] /\ l \in 0..k
                BY <3>1
            <4>2. l # 0 => g[l - 1] = f[l - 1]
                BY <3>1
            <4> QED BY <2>2, <4>1, <4>2
        <3>2. CASE l = k + 1
            <4>1. g[l] = next
                BY <3>2
            <4>2. l # 0 /\ l - 1 = k /\ g[l - 1] = f[k]
                BY <3>2
            <4> QED BY <3>2, <4>1, <4>2
        <3> QED BY <3>1, <3>2
    <2>4. Folds(g, name, k + 1)
        <3>1. g = [l \in 0..(k + 1) |-> g[l]]
            OBVIOUS
        <3> HIDE DEF g
        <3>2. g = [l \in 0..(k + 1) |-> step(g, l)]
            BY <2>3, <3>1
        <3> QED BY <3>2 DEF Folds
    <2>5. k + 1 \in Nat
        OBVIOUS
    <2> HIDE DEF g
    <2> QED BY <2>4, <2>5, Zenon
<1>3. Nat \subseteq G
    <2> HIDE DEF G
    <2> QED BY <1>1, <1>2, NatAll
<1> QED BY <1>3

LEMMA FoldsAgree ==
    ASSUME NEW name, NEW m \in Nat, NEW n \in Nat, m <= n,
           NEW f, Folds(f, name, m), NEW g, Folds(g, name, n)
    PROVE  f[m] = g[m]
<1> DEFINE G == {l \in Nat : l <= m => f[l] = g[l]}
           step(h, l) == IF l = 0 THEN NoRuns
                         ELSE IF l \in DOMAIN built THEN AddShape(name, h[l - 1], l) ELSE h[l - 1]
<1>1. (\A l \in 0..m : f[l] = step(f, l)) /\ \A l \in 0..n : g[l] = step(g, l)
    BY Zenon DEF Folds
<1>2. 0 \in G
    <2>1. 0 \in 0..m /\ 0 \in 0..n
        OBVIOUS
    <2> QED BY <1>1, <2>1
<1>3. ASSUME NEW l \in Nat, l \in G PROVE l + 1 \in G
    <2>1. CASE l + 1 <= m
        <3>1. l + 1 \in 0..m /\ l + 1 \in 0..n /\ l + 1 # 0 /\ (l + 1) - 1 = l
            BY <2>1
        <3>2. f[l] = g[l]
            BY <1>3, <2>1
        <3>3. f[l + 1] = step(f, l + 1) /\ g[l + 1] = step(g, l + 1)
            BY <1>1, <3>1, Zenon
        <3>4. step(f, l + 1) = step(g, l + 1)
            BY <3>1, <3>2
        <3> QED BY <3>3, <3>4
    <2>2. CASE ~(l + 1 <= m)
        BY <2>2
    <2> QED BY <2>1, <2>2
<1>4. Nat \subseteq G
    <2> HIDE DEF G
    <2> QED BY <1>2, <1>3, NatAll
<1> QED BY <1>4

LEMMA FoldedStep ==
    ASSUME NEW name
    PROVE  /\ Folded(name, 0) = NoRuns
           /\ \A k \in Nat : Folded(name, k + 1) =
                IF k + 1 \in DOMAIN built THEN AddShape(name, Folded(name, k), k + 1) ELSE Folded(name, k)
<1>1. \A n \in Nat : Folds(CHOOSE f : Folds(f, name, n), name, n)
    BY FoldsExists, Zenon
<1>2. Folded(name, 0) = NoRuns
    <2> DEFINE f == CHOOSE h : Folds(h, name, 0)
    <2>1. Folds(f, name, 0) /\ Folded(name, 0) = f[0]
        BY <1>1, FoldedDef
    <2> HIDE DEF f
    <2>2. 0 \in 0..0
        OBVIOUS
    <2> QED BY <2>1, <2>2 DEF Folds
<1>3. ASSUME NEW k \in Nat
      PROVE  Folded(name, k + 1) =
                IF k + 1 \in DOMAIN built THEN AddShape(name, Folded(name, k), k + 1) ELSE Folded(name, k)
    <2> DEFINE f == CHOOSE h : Folds(h, name, k)
               g == CHOOSE h : Folds(h, name, k + 1)
    <2>1. k + 1 \in Nat /\ k <= k + 1 /\ k + 1 # 0 /\ (k + 1) - 1 = k /\ k + 1 \in 0..(k + 1)
        OBVIOUS
    <2>2. Folds(f, name, k) /\ Folds(g, name, k + 1)
        BY <1>1, <2>1
    <2>3. Folded(name, k) = f[k] /\ Folded(name, k + 1) = g[k + 1]
        BY <2>1, FoldedDef
    <2> HIDE DEF f, g
    <2>4. f[k] = g[k]
        BY <2>1, <2>2, FoldsAgree
    <2>5. g[k + 1] = IF k + 1 = 0 THEN NoRuns
                     ELSE IF k + 1 \in DOMAIN built THEN AddShape(name, g[(k + 1) - 1], k + 1)
                     ELSE g[(k + 1) - 1]
        BY <2>1, <2>2, Zenon DEF Folds
    <2> QED BY <2>1, <2>3, <2>4, <2>5
<1> QED BY <1>2, <1>3

LEMMA OneLine ==
    ASSUME NEW lines, NamedOnce(lines), NEW n \in Named(lines)
    PROVE  /\ Line(lines, n) \in lines /\ Line(lines, n).name = n
           /\ \A l \in lines : l.name = n => l = Line(lines, n)
<1>1. \E l \in lines : l.name = n
    BY DEF Named
<1>2. Line(lines, n) \in lines /\ Line(lines, n).name = n
    BY <1>1, Zenon DEF Line
<1> QED BY <1>2 DEF NamedOnce

LEMMA LineAtIs ==
    ASSUME HistoryInv, NEW name, NEW l \in DOMAIN built, LineAt(name, l) # {}
    PROVE  /\ Line(built[l], name) \in Lines /\ Line(built[l], name) \in built[l]
           /\ LineAt(name, l) = {Line(built[l], name)}
<1>1. IsDefs(built[l])
    BY DEF HistoryInv
<1>2. name \in Named(built[l])
    BY DEF LineAt, Named
<1>3. /\ Line(built[l], name) \in built[l] /\ Line(built[l], name).name = name
      /\ \A k \in built[l] : k.name = name => k = Line(built[l], name)
    BY <1>1, <1>2, OneLine DEF IsDefs
<1>4. LineAt(name, l) = {Line(built[l], name)}
    BY <1>3 DEF LineAt
<1> QED BY <1>1, <1>3, <1>4 DEF IsDefs

\* Two lines with an id are one line.
LEMMA IdNames ==
    ASSUME NEW k \in Lines, NEW l \in Lines, k.id = l.id
    PROVE  k = l
BY SchemaAssumption

RunSet == [id : {l.id : l \in Lines}, params : {l.params : l \in Lines}, from : Nat, to : Nat]

\* A run is of a line, and covers no layer at which the symbol is not there, or is otherwise.
IsTrue(run, name) ==
    /\ \E k \in Lines : run.id = k.id /\ run.params = k.params
    /\ \A l \in DOMAIN built : run.from <= l /\ l <= run.to =>
            /\ LineAt(name, l) # {}
            /\ Line(built[l], name).id = run.id /\ Line(built[l], name).params = run.params

RunsUpTo(acc, name, k) ==
    /\ acc \in [extends : BOOLEAN, runs : Seq(RunSet)]
    /\ \A i \in 1..Len(acc.runs) : /\ acc.runs[i].from <= acc.runs[i].to /\ acc.runs[i].to <= k
                                   /\ IsTrue(acc.runs[i], name)
    /\ \A l \in DOMAIN built : l <= k /\ LineAt(name, l) # {} =>
        \E i \in 1..Len(acc.runs) : acc.runs[i].from <= l /\ l <= acc.runs[i].to
    /\ acc.extends => /\ acc.runs # <<>>
                      /\ \A l \in DOMAIN built : l <= k => l <= acc.runs[Len(acc.runs)].to

LEMMA BuiltLayers ==
    ASSUME HistoryInv
    PROVE  DOMAIN built \subseteq Layers /\ DOMAIN built \subseteq Nat \ {0}
BY SchemaAssumption DEF HistoryInv

LEMMA AddShapeKeeps ==
    ASSUME HistoryInv, NEW name, NEW k \in Nat, k + 1 \in DOMAIN built,
           NEW acc, RunsUpTo(acc, name, k)
    PROVE  RunsUpTo(AddShape(name, acc, k + 1), name, k + 1)
<1> DEFINE layer == k + 1
           line == Line(built[layer], name)
           runs == acc.runs
           n == Len(runs)
           last == runs[n]
           new == [id |-> line.id, params |-> line.params, from |-> layer, to |-> layer]
           then == AddShape(name, acc, layer)
<1>1. DOMAIN built \subseteq Nat /\ layer \in Nat /\ \A l \in Nat : l <= layer <=> l <= k \/ l = layer
    BY BuiltLayers
<1>2. acc \in [extends : BOOLEAN, runs : Seq(RunSet)] /\ runs \in Seq(RunSet) /\ n \in Nat
    BY DEF RunsUpTo
<1>3. CASE LineAt(name, layer) = {}
    <2>1. then = [acc EXCEPT !.extends = FALSE]
        BY <1>3 DEF AddShape
    <2>2. then.runs = runs /\ then.extends = FALSE /\ then \in [extends : BOOLEAN, runs : Seq(RunSet)]
        BY <1>2, <2>1
    <2>3. \A i \in 1..n : runs[i].from <= runs[i].to /\ runs[i].to <= layer /\ IsTrue(runs[i], name)
        <3>1. \A i \in 1..n : runs[i].from <= runs[i].to /\ runs[i].to <= k /\ IsTrue(runs[i], name) /\ runs[i] \in RunSet
            BY <1>2, ElementOfSeq DEF RunsUpTo
        <3> QED BY <3>1 DEF RunSet
    <2>4. \A l \in DOMAIN built : l <= layer /\ LineAt(name, l) # {} =>
                \E i \in 1..n : runs[i].from <= l /\ l <= runs[i].to
        BY <1>1, <1>3 DEF RunsUpTo
    <2> HIDE DEF then, layer, runs, n
    <2>5. RunsUpTo(then, name, layer)
        BY <2>2, <2>3, <2>4 DEF RunsUpTo, n, runs
    <2> QED BY <2>5 DEF then, layer
<1>4. CASE LineAt(name, layer) # {} /\ acc.extends /\ last.id = line.id
    <2>1. then = [acc EXCEPT !.runs[n].to = layer]
        BY <1>4 DEF AddShape
    <2>2. n \in 1..n /\ last \in RunSet
        <3>1. runs # <<>>
            BY <1>4 DEF RunsUpTo
        <3>2. n \in 1..n
            BY <1>2, <3>1, EmptySeq
        <3> QED BY <1>2, <3>2, ElementOfSeq
    <2> DEFINE longer == [last EXCEPT !.to = layer]
               rs == [runs EXCEPT ![n] = longer]
    <2>3. then.extends = acc.extends /\ then.runs = rs
        BY <1>2, <2>1
    <2>4. longer \in RunSet /\ longer.id = last.id /\ longer.params = last.params
              /\ longer.from = last.from /\ longer.to = layer
        BY <1>1, <2>2 DEF RunSet
    <2>5. rs \in Seq(RunSet) /\ Len(rs) = n /\ rs[n] = longer /\ \A i \in 1..n : i # n => rs[i] = runs[i]
        <3> HIDE DEF longer
        <3> QED BY <1>2, <2>2, <2>4, ExceptSeq
    <2>6. line \in Lines /\ line.params = last.params
        <3>1. line \in Lines
            BY <1>4, LineAtIs
        <3>2. PICK q \in Lines : last.id = q.id /\ last.params = q.params
            BY <2>2 DEF RunsUpTo, IsTrue
        <3> QED BY <1>4, <3>1, <3>2, IdNames
    <2>7. IsTrue(longer, name)
        <3>1. ASSUME NEW l \in DOMAIN built, last.from <= l, l <= layer
              PROVE  /\ LineAt(name, l) # {}
                     /\ Line(built[l], name).id = last.id /\ Line(built[l], name).params = last.params
            <4>1. CASE l = layer
                BY <1>4, <2>6, <4>1
            <4>2. CASE l <= k
                <5>1. l <= last.to
                    BY <1>4, <4>2 DEF RunsUpTo
                <5> QED BY <2>2, <3>1, <5>1 DEF RunsUpTo, IsTrue
            <4> QED BY <1>1, <3>1, <4>1, <4>2
        <3>2. \E q \in Lines : last.id = q.id /\ last.params = q.params
            BY <2>2 DEF RunsUpTo, IsTrue
        <3> HIDE DEF longer, layer, last
        <3> QED BY <2>4, <3>1, <3>2 DEF IsTrue
    <2>8. ASSUME NEW i \in 1..n
          PROVE  rs[i].from <= rs[i].to /\ rs[i].to <= layer /\ IsTrue(rs[i], name)
        <3>1. CASE i = n
            <4>1. last.from \in Nat /\ last.to \in Nat /\ last.from <= last.to /\ last.to <= k
                BY <2>2 DEF RunsUpTo, RunSet
            <4>2. longer.from <= longer.to /\ longer.to <= layer
                BY <1>1, <2>4, <4>1
            <4> QED BY <2>5, <2>7, <3>1, <4>2
        <3>2. CASE i # n
            <4>1. runs[i].from <= runs[i].to /\ runs[i].to <= k /\ IsTrue(runs[i], name) /\ runs[i] \in RunSet
                BY <1>2, ElementOfSeq DEF RunsUpTo
            <4>2. runs[i].to \in Nat
                BY <4>1 DEF RunSet
            <4> QED BY <2>5, <3>2, <4>1, <4>2
        <3> QED BY <3>1, <3>2
    <2>9. ASSUME NEW l \in DOMAIN built, l <= layer, LineAt(name, l) # {}
          PROVE  \E i \in 1..n : rs[i].from <= l /\ l <= rs[i].to
        <3>1. CASE l = layer
            <4>1. last.from \in Nat /\ last.to \in Nat /\ last.to <= k
                BY <2>2 DEF RunsUpTo, RunSet
            <4>2. last.from <= last.to
                BY <2>2 DEF RunsUpTo
            <4> QED BY <1>1, <2>2, <2>4, <2>5, <3>1, <4>1, <4>2
        <3>2. CASE l <= k
            <4>1. PICK i \in 1..n : runs[i].from <= l /\ l <= runs[i].to
                BY <2>9, <3>2 DEF RunsUpTo
            <4>2. CASE i = n
                BY <1>1, <2>2, <2>4, <2>5, <2>9, <4>1, <4>2
            <4>3. CASE i # n
                BY <2>5, <4>1, <4>3
            <4> QED BY <4>2, <4>3
        <3> QED BY <1>1, <2>9, <3>1, <3>2
    <2>10. rs # <<>> /\ \A l \in DOMAIN built : l <= layer => l <= rs[Len(rs)].to
        BY <2>2, <2>4, <2>5, EmptySeq
    <2> HIDE DEF then, layer, runs, n, rs, last, line, longer
    <2>11. then \in [extends : BOOLEAN, runs : Seq(RunSet)]
        BY <1>2, <1>4, <2>1, <2>3, <2>5 DEF then
    <2>12. RunsUpTo(then, name, layer)
        BY <2>3, <2>5, <2>8, <2>9, <2>10, <2>11 DEF RunsUpTo
    <2> QED BY <2>12 DEF then, layer
<1>5. CASE LineAt(name, layer) # {} /\ ~(acc.extends /\ last.id = line.id)
    <2> DEFINE rs == Append(runs, new)
    <2>1. then = [extends |-> TRUE, runs |-> rs]
        BY <1>5 DEF AddShape
    <2>2. line \in Lines
        BY <1>5, LineAtIs
    <2>3. new \in RunSet
        BY <1>1, <2>2 DEF RunSet
    <2>4. rs \in Seq(RunSet) /\ Len(rs) = n + 1 /\ rs[n + 1] = new /\ \A i \in 1..n : rs[i] = runs[i]
        <3> HIDE DEF new
        <3> QED BY <1>2, <2>3, AppendProperties
    <2>5. IsTrue(new, name)
        <3>1. \A l \in DOMAIN built : layer <= l /\ l <= layer => l = layer
            BY <1>1
        <3>2. new.id = line.id /\ new.params = line.params /\ new.from = layer /\ new.to = layer
            OBVIOUS
        <3> HIDE DEF new, layer
        <3> QED BY <1>5, <2>2, <3>1, <3>2 DEF IsTrue
    <2>6. ASSUME NEW i \in 1..(n + 1)
          PROVE  rs[i].from <= rs[i].to /\ rs[i].to <= layer /\ IsTrue(rs[i], name)
        <3>1. CASE i = n + 1
            BY <1>1, <2>4, <2>5, <3>1
        <3>2. CASE i \in 1..n
            <4>1. runs[i].from <= runs[i].to /\ runs[i].to <= k /\ IsTrue(runs[i], name) /\ runs[i] \in RunSet
                BY <1>2, <3>2, ElementOfSeq DEF RunsUpTo
            <4>2. runs[i].to \in Nat
                BY <4>1 DEF RunSet
            <4> QED BY <2>4, <3>2, <4>1, <4>2
        <3> QED BY <1>2, <3>1, <3>2
    <2>7. ASSUME NEW l \in DOMAIN built, l <= layer, LineAt(name, l) # {}
          PROVE  \E i \in 1..(n + 1) : rs[i].from <= l /\ l <= rs[i].to
        <3>1. CASE l = layer
            <4>1. new.from <= l /\ l <= new.to /\ n + 1 \in 1..(n + 1)
                BY <1>1, <1>2, <3>1
            <4> QED BY <2>4, <4>1
        <3>2. CASE l <= k
            <4>1. PICK i \in 1..n : runs[i].from <= l /\ l <= runs[i].to
                BY <2>7, <3>2 DEF RunsUpTo
            <4> QED BY <1>2, <2>4, <4>1
        <3> QED BY <1>1, <2>7, <3>1, <3>2
    <2>8. rs # <<>> /\ \A l \in DOMAIN built : l <= layer => l <= rs[Len(rs)].to
        BY <1>2, <2>4, EmptySeq
    <2> HIDE DEF then, layer, runs, n, rs, last, line, new
    <2>9. then \in [extends : BOOLEAN, runs : Seq(RunSet)] /\ then.runs = rs
        BY <2>1, <2>4 DEF then
    <2>10. RunsUpTo(then, name, layer)
        BY <2>4, <2>6, <2>7, <2>8, <2>9 DEF RunsUpTo
    <2> QED BY <2>10 DEF then, layer
<1> QED BY <1>3, <1>4, <1>5

LEMMA FoldedRuns ==
    ASSUME HistoryInv, NEW name, NEW k \in Nat
    PROVE  RunsUpTo(Folded(name, k), name, k)
<1> DEFINE G == {m \in Nat : RunsUpTo(Folded(name, m), name, m)}
<1>1. 0 \in G
    <2>1. Folded(name, 0) = NoRuns
        BY FoldedStep
    <2>2. \A l \in DOMAIN built : ~(l <= 0)
        BY BuiltLayers
    <2>3. RunsUpTo(NoRuns, name, 0)
        BY <2>2 DEF RunsUpTo, NoRuns
    <2> QED BY <2>1, <2>3
<1>2. ASSUME NEW m \in Nat, m \in G PROVE m + 1 \in G
    <2>1. RunsUpTo(Folded(name, m), name, m) /\ m + 1 \in Nat
        BY <1>2
    <2>2. CASE m + 1 \in DOMAIN built
        <3>1. Folded(name, m + 1) = AddShape(name, Folded(name, m), m + 1)
            BY <2>2, FoldedStep
        <3>2. RunsUpTo(AddShape(name, Folded(name, m), m + 1), name, m + 1)
            BY <2>1, <2>2, AddShapeKeeps
        <3> QED BY <2>1, <3>1, <3>2
    <2>3. CASE m + 1 \notin DOMAIN built
        <3> DEFINE acc == Folded(name, m)
        <3>1. Folded(name, m + 1) = acc
            BY <2>3, FoldedStep
        <3>2. \A l \in DOMAIN built : l <= m + 1 <=> l <= m
            BY <2>3, BuiltLayers
        <3> HIDE DEF acc
        <3>3. ASSUME RunsUpTo(acc, name, m) PROVE RunsUpTo(acc, name, m + 1)
            <4>1. acc.runs \in Seq(RunSet)
                BY <3>3 DEF RunsUpTo
            <4>2. ASSUME NEW i \in 1..Len(acc.runs) PROVE acc.runs[i].to <= m + 1
                <5>1. acc.runs[i] \in RunSet /\ acc.runs[i].to <= m
                    BY <3>3, <4>1, ElementOfSeq DEF RunsUpTo
                <5> QED BY <5>1 DEF RunSet
            <4> QED BY <3>2, <3>3, <4>2 DEF RunsUpTo
        <3> QED BY <2>1, <3>1, <3>3 DEF acc
    <2> QED BY <2>2, <2>3
<1>3. Nat \subseteq G
    <2> HIDE DEF G
    <2> QED BY <1>1, <1>2, NatAll
<1> QED BY <1>3

\* The shape shown at a layer is the one line of the symbol there.
LEMMA ShapeAtIs ==
    ASSUME HistoryInv, NEW name, NEW l \in DOMAIN built
    PROVE  /\ ShapeAt(name, l) # {} <=> LineAt(name, l) # {}
           /\ \A r \in ShapeAt(name, l) : /\ r.id = Line(built[l], name).id
                                          /\ r.params = Line(built[l], name).params
<1> DEFINE last == Max(DOMAIN built)
           runs == Runs(name)
<1>1. last \in Nat /\ l <= last
    BY BuiltLayers, MaxIs
<1>2. RunsUpTo(Folded(name, last), name, last) /\ runs = Folded(name, last).runs
    BY <1>1, FoldedRuns DEF Runs
<1> HIDE DEF last, runs
<1>3. ToSet(runs) = {runs[i] : i \in 1..Len(runs)}
    <2>1. runs \in Seq(RunSet)
        BY <1>2 DEF RunsUpTo
    <2> QED BY <2>1 DEF ToSet
<1>4. ShapeAt(name, l) = {r \in ToSet(runs) : r.from <= l /\ l <= r.to}
    BY DEF ShapeAt, runs
<1>5. ASSUME NEW r \in ShapeAt(name, l) PROVE IsTrue(r, name) /\ r.from <= l /\ l <= r.to
    BY <1>2, <1>3, <1>4 DEF RunsUpTo
<1>6. LineAt(name, l) # {} => ShapeAt(name, l) # {}
    <2> SUFFICES ASSUME LineAt(name, l) # {} PROVE ShapeAt(name, l) # {}
        OBVIOUS
    <2>1. PICK i \in 1..Len(runs) : runs[i].from <= l /\ l <= runs[i].to
        BY <1>1, <1>2 DEF RunsUpTo
    <2> QED BY <1>3, <1>4, <2>1
<1> QED BY <1>5, <1>6 DEF IsTrue

LEMMA PresentIs ==
    ASSUME HistoryInv, NEW n \in Symbols
    PROVE  /\ PresentIn(n) \subseteq DOMAIN built /\ PresentIn(n) # {} /\ PresentIn(n) \subseteq Layers
           /\ DOMAIN built \subseteq Layers /\ DOMAIN built # {}
<1>1. PICK l \in DOMAIN built : n \in Named(built[l])
    BY DEF Symbols
<1>2. LineAt(n, l) # {}
    BY <1>1 DEF LineAt, Named
<1> QED BY <1>2, BuiltLayers DEF PresentIn

LEMMA SymbolShown ==
    ASSUME HistoryInv, NEW n \in Symbols
    PROVE  /\ \A l \in DOMAIN built : {r.params : r \in ShapeAt(n, l)} = {k.params : k \in LineAt(n, l)}
           /\ Removed(n) <=> LineAt(n, Max(DOMAIN built)) = {}
           /\ Removed(n) => \A l \in DOMAIN built : l >= RemovedIn(n) => LineAt(n, l) = {}
           /\ \A l \in PresentIn(n) : \A p \in ToSet(Line(built[l], n).params) :
               /\ Since(n, p.name) <= l
               /\ ParamRemoved(n, p.name) <=>
                   p.name \notin {q.name : q \in ToSet(Line(built[LastLayer(n)], n).params)}
<1> DEFINE there == PresentIn(n)
           all == DOMAIN built
           last == LastLayer(n)
<1>1. there \subseteq all /\ there # {} /\ there \subseteq Layers /\ all \subseteq Layers /\ all # {}
    BY PresentIs
<1>2. last \in there /\ (\A l \in there : l <= last) /\ last \in Nat
    BY <1>1, MaxIs DEF LastLayer
<1>3. Max(all) \in all /\ (\A l \in all : l <= Max(all)) /\ Max(all) \in Nat /\ all \subseteq Nat
    BY <1>1, MaxIs
<1>4. \A l \in all : l \in there <=> LineAt(n, l) # {}
    BY DEF PresentIn
<1>5. ASSUME NEW l \in all PROVE {r.params : r \in ShapeAt(n, l)} = {k.params : k \in LineAt(n, l)}
    <2>1. CASE LineAt(n, l) = {}
        BY <2>1, ShapeAtIs
    <2>2. CASE LineAt(n, l) # {}
        BY <2>2, ShapeAtIs, LineAtIs
    <2> QED BY <2>1, <2>2
<1>6. Removed(n) <=> LineAt(n, Max(all)) = {}
    BY <1>1, <1>2, <1>3, <1>4 DEF Removed
<1>7. ASSUME Removed(n), NEW l \in all, l >= RemovedIn(n) PROVE LineAt(n, l) = {}
    <2> DEFINE later == {k \in all : k > last}
    <2>1. later \subseteq Nat /\ later # {}
        BY <1>3, <1>7 DEF Removed
    <2>2. RemovedIn(n) \in later
        BY <2>1, MinIs DEF RemovedIn
    <2>3. l > last
        BY <1>2, <1>3, <1>7, <2>2
    <2> QED BY <1>2, <1>3, <1>4, <2>3
<1>8. ASSUME NEW l \in there, NEW p \in ToSet(Line(built[l], n).params)
      PROVE  /\ Since(n, p.name) <= l
             /\ ParamRemoved(n, p.name) <=>
                   p.name \notin {q.name : q \in ToSet(Line(built[last], n).params)}
    <2> DEFINE having == ParamIn(n, p.name)
    <2>1. l \in having /\ having \subseteq there
        BY DEF ParamIn
    <2>2. last \in having <=> p.name \in {q.name : q \in ToSet(Line(built[last], n).params)}
        BY <1>2 DEF ParamIn
    <2> HIDE DEF having, there
    <2>3. having \subseteq Nat /\ having \subseteq Layers /\ having # {}
        BY <1>1, <1>3, <2>1
    <2>4. Min(having) <= l
        BY <2>1, <2>3, MinIs
    <2>5. Max(having) \in having /\ \A k \in having : k <= Max(having)
        BY <2>3, MaxIs
    <2>6. Max(having) < last <=> last \notin having
        <3>1. Max(having) \in Nat /\ Max(having) <= last
            BY <1>2, <2>1, <2>3, <2>5
        <3>2. last \in having => last <= Max(having)
            BY <2>5
        <3> HIDE DEF last
        <3> QED BY <1>2, <2>5, <3>1, <3>2
    <2> QED BY <2>2, <2>4, <2>6 DEF Since, ParamRemoved, having
<1> QED BY <1>5, <1>6, <1>7, <1>8

LEMMA DiffShown ==
    ASSUME HistoryInv, NEW a \in DOMAIN built, NEW b \in DOMAIN built
    PROVE  LET New(x, y) == {n \in Symbols : LineAt(n, y) # {} /\ LineAt(n, x) = {}}
           IN Diff(a, b) = [added |-> New(a, b), removed |-> New(b, a),
                            changed |-> {n \in Symbols \ (New(a, b) \cup New(b, a)) :
                                           LineAt(n, a) # LineAt(n, b)}]
<1> DEFINE New(x, y) == {n \in Symbols : LineAt(n, y) # {} /\ LineAt(n, x) = {}}
           changes == {n \in Symbols : \E s \in ShapeAt(n, a), t \in ShapeAt(n, b) :
                                         s.id # t.id \/ s.params # t.params}
<1>1. Diff(a, b) = [added |-> {n \in Symbols : ShapeAt(n, b) # {} /\ ShapeAt(n, a) = {}},
                    removed |-> {n \in Symbols : ShapeAt(n, b) = {} /\ ShapeAt(n, a) # {}},
                    changed |-> changes]
    BY DEF Diff
<1>2. ASSUME NEW n \in Symbols
      PROVE  n \in changes <=> /\ n \notin New(a, b) \cup New(b, a) /\ LineAt(n, a) # LineAt(n, b)
    <2> DEFINE s == Line(built[a], n)
               t == Line(built[b], n)
    <2>1. CASE LineAt(n, a) = {} \/ LineAt(n, b) = {}
        <3>1. ShapeAt(n, a) = {} \/ ShapeAt(n, b) = {}
            BY <2>1, ShapeAtIs
        <3> QED BY <2>1, <3>1
    <2>2. CASE LineAt(n, a) # {} /\ LineAt(n, b) # {}
        <3>1. /\ LineAt(n, a) = {s} /\ s \in Lines
              /\ LineAt(n, b) = {t} /\ t \in Lines
            BY <2>2, LineAtIs
        <3>2. /\ ShapeAt(n, a) # {} /\ \A r \in ShapeAt(n, a) : r.id = s.id /\ r.params = s.params
              /\ ShapeAt(n, b) # {} /\ \A r \in ShapeAt(n, b) : r.id = t.id /\ r.params = t.params
            BY <2>2, ShapeAtIs
        <3>3. s.id = t.id => s = t
            BY <3>1, IdNames
        <3> HIDE DEF s, t
        <3>4. n \in changes <=> s # t
            BY <3>2, <3>3
        <3> QED BY <2>2, <3>1, <3>4
    <2> QED BY <2>1, <2>2
<1>3. changes = {n \in Symbols \ (New(a, b) \cup New(b, a)) : LineAt(n, a) # LineAt(n, b)}
    BY <1>2
<1>4. /\ {n \in Symbols : ShapeAt(n, b) # {} /\ ShapeAt(n, a) = {}} = New(a, b)
      /\ {n \in Symbols : ShapeAt(n, b) = {} /\ ShapeAt(n, a) # {}} = New(b, a)
    BY ShapeAtIs
<1> HIDE DEF changes
<1> QED BY <1>1, <1>3, <1>4

\* The history and changelog the studio shows are the snapshots' it was built from, for
\* any layers, lines and edits (buildApiSpec, foldShapes, computeRangeDiff).
THEOREM HistoryIsShown == HistorySpec => []HistoryShown
<1>1. HistoryInv => HistoryShown
    <2> SUFFICES ASSUME HistoryInv PROVE HistoryShown
        OBVIOUS
    <2> QED BY SymbolShown, DiffShown DEF HistoryShown
<1> QED BY <1>1, HistoryInvAlways, PTL

-----------------------------------------------------------------------------
(***************************************************************************)
(* Who knows which definition.  A bare constructor means the same to all   *)
(* of them: its one version, the protocol's or the app's.                  *)
(***************************************************************************)
AppLines == schema \cup UNION {frozen[layer] : layer \in DOMAIN frozen}
Meant(b) == IF b \in Named(Protocol) THEN Line(Protocol, b) ELSE Line(AppLines, b)
Sources == {{}, Protocol, schema} \cup {frozen[layer] : layer \in DOMAIN frozen}

\* Read by the registry, a definition is itself, and what it has bare is read with what
\* the writer's names make of it.
ReadsAs(reg, def, names) ==
    /\ def.id \in DOMAIN reg.byId /\ reg.byId[def.id] = def
    /\ \A b \in BareOf({def}) : /\ b \in DOMAIN names /\ b \in DOMAIN reg.byName
                                /\ reg.byName[b] = names[b]

\* What a client of any layer and the studio may send, by the names they know.
RequestsResolved ==
    \A speaker \in {Client(layer) : layer \in DOMAIN frozen} \cup {Studio} :
        \A n \in DOMAIN speaker.byName : ReadsAs(Server, speaker.byName[n], speaker.byName)

\* What the server may send for a layer, by the names of the layer and of the protocol.
AnswersResolved ==
    \A shipped \in DOMAIN frozen : \A layer \in UnchangedFrom(shipped) :
        LET names == DefsForWrite(layer)
        IN /\ \A n \in Named(frozen[shipped]) : names[n] = Line(frozen[shipped], n)
           /\ \A n \in Named(frozen[shipped]) \cup Named(Protocol) :
               /\ ReadsAs(Client(shipped), names[n], names)
               /\ shipped \in DOMAIN built => ReadsAs(Studio, names[n], names)

LEMMA ParamsWithin ==
    ASSUME NEW lines, NEW t
    PROVE  t \in Within(lines) <=>
               \E l \in lines : \E p \in ToSet(l.params) : \E n \in 0..Nesting : t = Peeled(p.type)[n]
<1> DEFINE params == UNION {ToSet(l.params) : l \in lines}
           types(p) == {Peeled(p.type)[n] : n \in 0..Nesting}
<1>1. t \in UNION {types(p) : p \in params} <=> \E p \in params : t \in types(p)
    OBVIOUS
<1>2. \A p : p \in params <=> \E l \in lines : p \in ToSet(l.params)
    OBVIOUS
<1>3. \A p : t \in types(p) <=> \E n \in 0..Nesting : t = Peeled(p.type)[n]
    OBVIOUS
<1>4. Within(lines) = UNION {types(p) : p \in params}
    BY DEF Within
<1> HIDE DEF types, params
<1> QED BY <1>1, <1>2, <1>3, <1>4, Zenon

LEMMA BareGrows ==
    ASSUME NEW lines, NEW all, lines \subseteq all
    PROVE  Within(lines) \subseteq Within(all) /\ BareOf(lines) \subseteq BareOf(all)
<1>1. \A t \in Within(lines) : t \in Within(all)
    BY ParamsWithin
<1> QED BY <1>1 DEF BareOf

LEMMA NoneBare == BareOf({}) = {}
<1>1. \A t : t \notin Within({})
    BY ParamsWithin
<1> QED BY <1>1 DEF BareOf
LEMMA SourceFacts ==
    ASSUME HistoryInv, NEW lines \in Sources
    PROVE  /\ NamedOnce(lines) /\ WellFormed(lines) /\ lines \subseteq Lines \cup Protocol
           /\ lines = Protocol \/ (lines \subseteq AppLines /\ lines \subseteq Lines)
<1>1. CASE lines = {}
    BY <1>1, NoneBare DEF NamedOnce, WellFormed
<1>2. CASE lines = Protocol
    BY <1>2, SchemaAssumption
<1>3. CASE lines = schema \/ \E layer \in DOMAIN frozen : lines = frozen[layer]
    BY <1>3 DEF HistoryInv, IsDefs, AppLines
<1> QED BY <1>1, <1>2, <1>3 DEF Sources

LEMMA BareMember ==
    ASSUME NEW lines, NEW d \in lines
    PROVE  BareOf({d}) \subseteq BareOf(lines)
<1>1. {d} \subseteq lines
    OBVIOUS
<1> QED BY <1>1, BareGrows

LEMMA BareMeans ==
    ASSUME HistoryInv, NEW lines \in Sources, NEW d \in lines, NEW b \in BareOf({d}),
           NEW other \in Sources, b \in Named(other)
    PROVE  /\ b \in Named(lines) /\ Line(other, b) = Meant(b)
           /\ b \in Named(Protocol) <=> lines = Protocol
           /\ b \in Named(Protocol) <=> other = Protocol
<1>1. b \in BareOf(lines) /\ b \in Named(lines)
    BY BareMember, SourceFacts DEF WellFormed
<1>2. Line(other, b) \in other /\ Line(other, b).name = b
    BY SourceFacts, OneLine
<1>3. CASE lines = Protocol
    <2>1. b \in Named(Protocol) /\ b \notin Named(Lines)
        BY <1>1, <1>3, SchemaAssumption
    <2>2. other = Protocol
        BY <2>1, SourceFacts DEF Named
    <2> QED BY <1>1, <1>3, <2>1, <2>2 DEF Meant
<1>4. CASE lines # Protocol
    <2>1. lines \subseteq AppLines /\ lines \subseteq Lines
        BY <1>4, SourceFacts
    <2>2. b \in BareOf(Lines) /\ b \in BareOf(AppLines)
        BY <1>1, <2>1, BareGrows
    <2>3. b \notin Named(Protocol)
        BY <2>2, SchemaAssumption
    <2>4. other # Protocol /\ other \subseteq AppLines
        BY <2>3, SourceFacts
    <2>5. Line(AppLines, b) \in AppLines /\ Line(AppLines, b).name = b
        <3>1. \E l \in AppLines : l.name = b
            BY <1>2, <2>4
        <3> QED BY <3>1, Zenon DEF Line
    <2>6. \A k, l \in AppLines : k.name = l.name /\ k.name \in BareOf(AppLines) => k = l
        BY DEF HistoryInv, BareKept, AppLines
    <2>7. Line(other, b) = Line(AppLines, b)
        BY <1>2, <2>2, <2>4, <2>5, <2>6
    <2> QED BY <1>1, <1>4, <2>3, <2>4, <2>7 DEF Meant
<1> QED BY <1>3, <1>4

IsSources(sources) == DOMAIN sources \subseteq Nat /\ \A i \in DOMAIN sources : sources[i] \in Sources

\* Any id reads as its line, any name as the line of the first source that has it.
LEMMA RegistryIs ==
    ASSUME HistoryInv, NEW sources, IsSources(sources)
    PROVE  /\ \A i \in DOMAIN sources : \A d \in sources[i] :
               /\ d.id \in DOMAIN Registry(sources).byId /\ Registry(sources).byId[d.id] = d
               /\ d.name \in DOMAIN Registry(sources).byName
           /\ \A n \in DOMAIN Registry(sources).byName : \E i \in DOMAIN sources :
               /\ n \in Named(sources[i]) /\ Registry(sources).byName[n] = Line(sources[i], n)
               /\ \A j \in DOMAIN sources : n \in Named(sources[j]) => i <= j
<1> DEFINE all == UNION {sources[i] : i \in DOMAIN sources}
           having(n) == {i \in DOMAIN sources : n \in Named(sources[i])}
           reg == Registry(sources)
<1>1. /\ reg.byId = [id \in {l.id : l \in all} |-> CHOOSE l \in all : l.id = id]
      /\ reg.byName = [n \in Named(all) |-> Line(sources[Min(having(n))], n)]
    BY DEF Registry
<1> HIDE DEF reg
<1>2. all \subseteq Lines \cup Protocol
    BY SourceFacts DEF IsSources
<1>3. ASSUME NEW i \in DOMAIN sources, NEW d \in sources[i]
      PROVE  d.id \in DOMAIN reg.byId /\ reg.byId[d.id] = d /\ d.name \in DOMAIN reg.byName
    <2>1. d \in all
        BY <1>3
    <2>2. \A l \in all : l.id = d.id => l = d
        BY <1>2, <2>1, SchemaAssumption
    <2> HIDE DEF all
    <2>3. (CHOOSE l \in all : l.id = d.id) = d
        BY <2>1, <2>2
    <2> QED BY <1>1, <2>1, <2>3 DEF Named
<1>4. ASSUME NEW n \in DOMAIN reg.byName
      PROVE  \E i \in DOMAIN sources : /\ n \in Named(sources[i]) /\ reg.byName[n] = Line(sources[i], n)
                                       /\ \A j \in DOMAIN sources : n \in Named(sources[j]) => i <= j
    <2>1. having(n) # {} /\ having(n) \subseteq Nat
        BY <1>1 DEF Named, IsSources
    <2>2. Min(having(n)) \in having(n) /\ \A j \in having(n) : Min(having(n)) <= j
        BY <2>1, MinIs
    <2> QED BY <1>1, <2>2
<1> QED BY <1>3, <1>4 DEF reg

LEMMA RegistryBare ==
    ASSUME HistoryInv, NEW sources, IsSources(sources), NEW i \in DOMAIN sources,
           NEW d \in sources[i], NEW b \in BareOf({d})
    PROVE  b \in DOMAIN Registry(sources).byName /\ Registry(sources).byName[b] = Meant(b)
<1>1. sources[i] \in Sources
    BY DEF IsSources
<1>2. b \in BareOf(sources[i]) /\ WellFormed(sources[i])
    BY <1>1, BareMember, SourceFacts
<1>3. PICK l \in sources[i] : l.name = b
    BY <1>2 DEF WellFormed, Named
<1>4. b \in DOMAIN Registry(sources).byName
    BY <1>3, RegistryIs
<1>5. PICK j \in DOMAIN sources : b \in Named(sources[j])
                                   /\ Registry(sources).byName[b] = Line(sources[j], b)
    BY <1>4, RegistryIs
<1> QED BY <1>1, <1>4, <1>5, BareMeans DEF IsSources

\* What is in the server's, a client's and the studio's sources.
LEMMA ServerSources ==
    ASSUME HistoryInv
    PROVE  LET s == <<Protocol, schema>> \o AllDefs(frozen)
           IN /\ IsSources(s) /\ Server = Registry(s)
              /\ 1 \in DOMAIN s /\ s[1] = Protocol /\ \A i \in DOMAIN s : 1 <= i
              /\ \A layer \in DOMAIN frozen : \E i \in DOMAIN s : s[i] = frozen[layer]
<1> DEFINE n == Len(Listing)
           all == AllDefs(frozen)
           s == <<Protocol, schema>> \o all
<1>1. n \in Nat /\ DOMAIN Listing = 1..n /\ \A layer \in Layers : \E i \in 1..n : Listing[i] = layer
    <2>1. Listing \in Seq(Layers) /\ ToSet(Listing) = Layers
        BY SchemaAssumption
    <2> QED BY <2>1 DEF ToSet
<1>2. all = [i \in 1..n |-> SnapshotOf(frozen, Listing[i])]
    BY <1>1 DEF AllDefs
<1>3. \A i \in 1..n : SnapshotOf(frozen, Listing[i]) \in Sources
    BY DEF SnapshotOf, Sources
<1>4. all \in Seq(Sources) /\ Len(all) = n /\ \A i \in 1..n : all[i] = SnapshotOf(frozen, Listing[i])
    BY <1>1, <1>2, <1>3
<1> HIDE DEF all, n
<1>5. /\ s \in Seq(Sources) /\ Len(s) = n + 2 /\ s[1] = Protocol
      /\ \A i \in 1..n : s[i + 2] = all[i]
    <2>1. <<Protocol, schema>> \in Seq(Sources) /\ Len(<<Protocol, schema>>) = 2
        BY DEF Sources
    <2> QED BY <1>1, <1>4, <2>1
<1>6. IsSources(s)
    <2> HIDE DEF s
    <2> QED BY <1>5, ElementOfSeq DEF IsSources
<1>7. ASSUME NEW layer \in DOMAIN frozen PROVE \E i \in DOMAIN s : s[i] = frozen[layer]
    <2>1. layer \in Layers
        BY DEF HistoryInv
    <2>2. PICK i \in 1..n : Listing[i] = layer
        BY <1>1, <2>1
    <2>3. all[i] = frozen[layer]
        BY <1>4, <2>2 DEF SnapshotOf
    <2> HIDE DEF s
    <2>4. i + 2 \in DOMAIN s /\ s[i + 2] = frozen[layer]
        BY <1>1, <1>5, <2>2, <2>3
    <2> QED BY <2>4
<1>8. Server = Registry(s)
    BY DEF Server, all
<1> QED BY <1>1, <1>5, <1>6, <1>7, <1>8 DEF all

LEMMA ClientSources ==
    ASSUME HistoryInv, NEW layer \in DOMAIN frozen
    PROVE  LET s == <<Protocol, frozen[layer]>>
           IN /\ IsSources(s) /\ Client(layer) = Registry(s)
              /\ DOMAIN s = {1, 2} /\ s[1] = Protocol /\ s[2] = frozen[layer]
<1> DEFINE s == <<Protocol, frozen[layer]>>
<1>1. DOMAIN s = {1, 2} /\ s[1] = Protocol /\ s[2] = frozen[layer]
    OBVIOUS
<1>2. IsSources(s)
    BY <1>1 DEF IsSources, Sources
<1> QED BY <1>1, <1>2 DEF Client

AppOf(s) == [i \in DOMAIN s |-> {l \in s[i] : ~l.isProtocol}]

LEMMA AppSource ==
    ASSUME HistoryInv, NEW lines \in Sources
    PROVE  {l \in lines : ~l.isProtocol} = IF lines = Protocol THEN {} ELSE lines
<1>1. (\A l \in Lines : ~l.isProtocol) /\ \A l \in Protocol : l.isProtocol
    BY SchemaAssumption
<1>2. lines = Protocol \/ lines \subseteq Lines
    BY SourceFacts
<1> QED BY <1>1, <1>2

LEMMA StudioSources ==
    ASSUME HistoryInv
    PROVE  LET s == WireDefs(built)
           IN /\ IsSources(s) /\ IsSources(AppOf(s))
              /\ 0 \in DOMAIN s /\ s[0] = Protocol
              /\ \A i \in DOMAIN s : s[i] \in {{}, Protocol} \cup {built[layer] : layer \in DOMAIN built}
              /\ \A layer \in DOMAIN built : \E i \in DOMAIN s : s[i] = built[layer]
<1> DEFINE latest == Max(Layers)
           s == WireDefs(built)
<1>1. latest \in Nat \ {0} /\ \A l \in Layers : l <= latest
    BY SchemaAssumption, MaxIs
<1>2. s = [i \in 0..latest |-> IF i = 0 THEN Protocol ELSE SnapshotOf(built, latest + 1 - i)]
    BY DEF WireDefs
<1> HIDE DEF s, latest
<1>3. \A i \in DOMAIN s : s[i] \in {{}, Protocol} \cup {built[layer] : layer \in DOMAIN built}
    BY <1>2 DEF SnapshotOf
<1>4. {{}, Protocol} \cup {built[layer] : layer \in DOMAIN built} \subseteq Sources
    BY DEF HistoryInv, Sources
<1>5. IsSources(s)
    BY <1>1, <1>2, <1>3, <1>4 DEF IsSources
<1>6. IsSources(AppOf(s))
    <2>1. ASSUME NEW i \in DOMAIN s PROVE {l \in s[i] : ~l.isProtocol} \in Sources
        BY <1>5, AppSource DEF IsSources, Sources
    <2> QED BY <1>5, <2>1 DEF IsSources, AppOf
<1>7. ASSUME NEW layer \in DOMAIN built PROVE \E i \in DOMAIN s : s[i] = built[layer]
    <2>1. layer \in Layers /\ layer \in Nat \ {0} /\ layer <= latest
        BY <1>1, BuiltLayers
    <2>2. latest + 1 - layer \in 0..latest /\ latest + 1 - layer # 0
              /\ latest + 1 - (latest + 1 - layer) = layer
        BY <1>1, <2>1
    <2>3. s[latest + 1 - layer] = built[layer]
        BY <1>2, <2>2 DEF SnapshotOf
    <2> QED BY <1>2, <2>2, <2>3
<1>8. 0 \in DOMAIN s /\ s[0] = Protocol
    BY <1>1, <1>2
<1> QED BY <1>3, <1>5, <1>6, <1>7, <1>8 DEF s

LEMMA StudioIs ==
    ASSUME HistoryInv, NEW i \in DOMAIN WireDefs(built), NEW d \in WireDefs(built)[i]
    PROVE  /\ d.id \in DOMAIN Studio.byId /\ Studio.byId[d.id] = d
           /\ \A b \in BareOf({d}) : b \in DOMAIN Studio.byName /\ Studio.byName[b] = Meant(b)
<1> DEFINE s == WireDefs(built)
           all == Registry(s)
           app == Registry(AppOf(s)).byName
<1>1. /\ Studio.byId = all.byId
      /\ Studio.byName = [n \in DOMAIN all.byName |-> IF n \in DOMAIN app THEN app[n] ELSE all.byName[n]]
    BY DEF Studio, BrowserRegistry, AppOf
<1>2. IsSources(s) /\ IsSources(AppOf(s)) /\ DOMAIN AppOf(s) = DOMAIN s
    BY StudioSources DEF AppOf
<1>3. s[i] \in Sources /\ AppOf(s)[i] = {l \in s[i] : ~l.isProtocol}
    BY <1>2 DEF IsSources, AppOf
<1> HIDE DEF s, all, app
<1>4. d.id \in DOMAIN all.byId /\ all.byId[d.id] = d
    BY <1>2, RegistryIs DEF all, s
<1>5. ASSUME NEW b \in BareOf({d})
      PROVE  b \in DOMAIN Studio.byName /\ Studio.byName[b] = Meant(b)
    <2>1. b \in DOMAIN all.byName /\ all.byName[b] = Meant(b)
        BY <1>2, RegistryBare DEF all, s
    <2>2. CASE b \in DOMAIN app
        <3>1. PICK j \in DOMAIN s : b \in Named(AppOf(s)[j]) /\ app[b] = Line(AppOf(s)[j], b)
            BY <1>2, <2>2, RegistryIs DEF app
        <3>2. AppOf(s)[j] \in Sources
            BY <1>2 DEF IsSources
        <3>3. app[b] = Meant(b)
            BY <1>3, <3>1, <3>2, BareMeans DEF s
        <3> QED BY <1>1, <2>1, <2>2, <3>3
    <2>3. CASE b \notin DOMAIN app
        BY <1>1, <2>1, <2>3
    <2> QED BY <2>2, <2>3
<1> QED BY <1>1, <1>4, <1>5

LEMMA StudioNames ==
    ASSUME HistoryInv, NEW n \in DOMAIN Studio.byName
    PROVE  /\ \E i \in DOMAIN WireDefs(built) : Studio.byName[n] \in WireDefs(built)[i]
           /\ Studio.byName[n].name = n
<1> DEFINE s == WireDefs(built)
           all == Registry(s)
           app == Registry(AppOf(s)).byName
<1>1. Studio.byName = [m \in DOMAIN all.byName |-> IF m \in DOMAIN app THEN app[m] ELSE all.byName[m]]
    BY DEF Studio, BrowserRegistry, AppOf
<1>2. IsSources(s) /\ IsSources(AppOf(s)) /\ DOMAIN AppOf(s) = DOMAIN s
    BY StudioSources DEF AppOf
<1>3. \A i \in DOMAIN s : s[i] \in Sources /\ AppOf(s)[i] \in Sources /\ AppOf(s)[i] \subseteq s[i]
    BY <1>2 DEF IsSources, AppOf
<1> HIDE DEF s, all, app
<1>4. CASE n \in DOMAIN app
    <2>1. PICK j \in DOMAIN s : n \in Named(AppOf(s)[j]) /\ app[n] = Line(AppOf(s)[j], n)
        BY <1>2, <1>4, RegistryIs DEF app
    <2>2. app[n] \in AppOf(s)[j] /\ app[n].name = n
        BY <1>3, <2>1, SourceFacts, OneLine
    <2> QED BY <1>1, <1>3, <1>4, <2>2 DEF s
<1>5. CASE n \notin DOMAIN app
    <2>1. n \in DOMAIN all.byName
        BY <1>1
    <2>2. PICK j \in DOMAIN s : n \in Named(s[j]) /\ all.byName[n] = Line(s[j], n)
        BY <1>2, <2>1, RegistryIs DEF all
    <2>3. all.byName[n] \in s[j] /\ all.byName[n].name = n
        BY <1>3, <2>2, SourceFacts, OneLine
    <2> QED BY <1>1, <1>5, <2>1, <2>3 DEF s
<1> QED BY <1>4, <1>5

\* The server reads whatever is in the sources of a client or of the studio.
LEMMA ServerReads ==
    ASSUME HistoryInv, NEW lines, lines = Protocol \/ \E layer \in DOMAIN frozen : lines = frozen[layer],
           NEW d \in lines
    PROVE  /\ d.id \in DOMAIN Server.byId /\ Server.byId[d.id] = d
           /\ \A b \in BareOf({d}) : b \in DOMAIN Server.byName /\ Server.byName[b] = Meant(b)
<1> DEFINE s == <<Protocol, schema>> \o AllDefs(frozen)
<1>1. IsSources(s) /\ Server = Registry(s) /\ \E i \in DOMAIN s : s[i] = lines
    BY ServerSources
<1> HIDE DEF s
<1>2. PICK i \in DOMAIN s : s[i] = lines
    BY <1>1
<1> QED BY <1>1, <1>2, RegistryIs, RegistryBare

LEMMA ClientReads ==
    ASSUME HistoryInv, NEW layer \in DOMAIN frozen, NEW d \in Protocol \cup frozen[layer]
    PROVE  /\ d.id \in DOMAIN Client(layer).byId /\ Client(layer).byId[d.id] = d
           /\ \A b \in BareOf({d}) : b \in DOMAIN Client(layer).byName /\ Client(layer).byName[b] = Meant(b)
<1> DEFINE s == <<Protocol, frozen[layer]>>
<1>1. IsSources(s) /\ Client(layer) = Registry(s) /\ \E i \in DOMAIN s : d \in s[i]
    BY ClientSources
<1> HIDE DEF s
<1> QED BY <1>1, RegistryIs, RegistryBare

LEMMA ClientResolved ==
    ASSUME HistoryInv, NEW layer \in DOMAIN frozen, NEW n \in DOMAIN Client(layer).byName
    PROVE  /\ ReadsAs(Server, Client(layer).byName[n], Client(layer).byName)
           /\ Client(layer).byName[n] \in Lines \cup Protocol /\ Client(layer).byName[n].name = n
<1> DEFINE s == <<Protocol, frozen[layer]>>
           d == Client(layer).byName[n]
<1>1. /\ IsSources(s) /\ Client(layer) = Registry(s)
      /\ DOMAIN s = {1, 2} /\ s[1] = Protocol /\ s[2] = frozen[layer]
    BY ClientSources
<1> HIDE DEF s
<1>2. PICK i \in DOMAIN s : n \in Named(s[i]) /\ d = Line(s[i], n)
    BY <1>1, RegistryIs
<1>3. d \in s[i] /\ d.name = n /\ s[i] \subseteq Lines \cup Protocol
    BY <1>1, <1>2, SourceFacts, OneLine DEF IsSources
<1> HIDE DEF d
<1>4. d \in Protocol \/ d \in frozen[layer]
    BY <1>1, <1>3
<1>5. /\ d.id \in DOMAIN Server.byId /\ Server.byId[d.id] = d
      /\ \A b \in BareOf({d}) : b \in DOMAIN Server.byName /\ Server.byName[b] = Meant(b)
    BY <1>4, ServerReads
<1>6. \A b \in BareOf({d}) : b \in DOMAIN Client(layer).byName /\ Client(layer).byName[b] = Meant(b)
    BY <1>4, ClientReads
<1> QED BY <1>3, <1>5, <1>6 DEF ReadsAs, d

LEMMA StudioResolved ==
    ASSUME HistoryInv, NEW n \in DOMAIN Studio.byName
    PROVE  /\ ReadsAs(Server, Studio.byName[n], Studio.byName)
           /\ Studio.byName[n] \in Lines \cup Protocol /\ Studio.byName[n].name = n
<1> DEFINE s == WireDefs(built)
           d == Studio.byName[n]
<1>1. d.name = n /\ \E i \in DOMAIN s : d \in s[i]
    BY StudioNames
<1>6. PICK i \in DOMAIN s : d \in s[i]
    BY <1>1
<1>2. s[i] \in {{}, Protocol} \cup {built[layer] : layer \in DOMAIN built}
    BY StudioSources
<1>3. \A b \in BareOf({d}) : b \in DOMAIN Studio.byName /\ Studio.byName[b] = Meant(b)
    BY <1>6, StudioIs
<1>7. s[i] \subseteq Lines \cup Protocol
    BY StudioSources, SourceFacts DEF IsSources
<1> HIDE DEF s, d
<1>4. s[i] = Protocol \/ \E layer \in DOMAIN frozen : s[i] = frozen[layer]
    BY <1>6, <1>2 DEF HistoryInv
<1>5. /\ d.id \in DOMAIN Server.byId /\ Server.byId[d.id] = d
      /\ \A b \in BareOf({d}) : b \in DOMAIN Server.byName /\ Server.byName[b] = Meant(b)
    BY <1>6, <1>4, ServerReads
<1> QED BY <1>1, <1>3, <1>5, <1>6, <1>7 DEF ReadsAs, d

\* Whatever the schema has become, each definition that a client of any layer or the
\* studio can write is in the server's registry under its id, and the constructors that
\* it has bare are read with the very definitions they were written with
\* (gateway.ts:79-81, layered-registry.ts:45-56, codec.ts:108).
THEOREM RequestsAreResolved == HistorySpec => []RequestsResolved
<1>1. HistoryInv => RequestsResolved
    <2> SUFFICES ASSUME HistoryInv PROVE RequestsResolved
        OBVIOUS
    <2> QED BY ClientResolved, StudioResolved DEF RequestsResolved
<1> QED BY <1>1, HistoryInvAlways, PTL

LEMMA ResolvesTo ==
    ASSUME HistoryInv, NEW shipped \in DOMAIN frozen, NEW layer \in UnchangedFrom(shipped)
    PROVE  ResolveLayer(layer) = shipped
<1> DEFINE upTo == {l \in DOMAIN frozen : l <= layer}
<1>1. DOMAIN frozen \subseteq Layers /\ Layers \subseteq Nat
    BY SchemaAssumption DEF HistoryInv
<1>2. layer >= shipped /\ \A g \in DOMAIN frozen : g <= shipped \/ g > layer
    BY DEF UnchangedFrom
<1>3. layer \in Nat /\ shipped \in Nat /\ DOMAIN frozen \subseteq Nat
    BY <1>1 DEF UnchangedFrom
<1>4. shipped \in upTo /\ upTo \subseteq DOMAIN frozen
    BY <1>2, <1>3
<1>5. ASSUME NEW l \in upTo PROVE l <= shipped
    BY <1>2, <1>3
<1>6. Max(upTo) \in upTo /\ \A l \in upTo : l <= Max(upTo)
    <2> HIDE DEF upTo
    <2> QED BY <1>1, <1>4, MaxIs
<1>7. Max(upTo) = shipped
    <2> HIDE DEF upTo
    <2>1. Max(upTo) \in Nat /\ Max(upTo) <= shipped /\ shipped <= Max(upTo)
        BY <1>6, <1>3, <1>4, <1>5
    <2> QED BY <1>3, <2>1
<1> QED BY <1>4, <1>7 DEF ResolveLayer

\* What the server writes a name as, for a layer.
LEMMA WrittenAs ==
    ASSUME HistoryInv, NEW shipped \in DOMAIN frozen, NEW layer \in UnchangedFrom(shipped)
    PROVE  LET own == frozen[shipped]
               names == DefsForWrite(layer)
           IN /\ own \in Sources
              /\ \A n \in Named(own) : names[n] = Line(own, n) /\ names[n] \in own
              /\ \A n \in Named(Protocol) \ Named(own) : names[n] = Line(Protocol, n) /\ names[n] \in Protocol
              /\ Named(own) \cup Named(Protocol) \subseteq DOMAIN names
              /\ \A d \in own \cup Protocol : \A b \in BareOf({d}) :
                    b \in DOMAIN names /\ names[b] = Meant(b)
<1> DEFINE own == frozen[shipped]
           names == DefsForWrite(layer)
           rest == Server.byName
           s == <<Protocol, schema>> \o AllDefs(frozen)
<1>1. own \in Sources /\ Protocol \in Sources
    BY DEF Sources
<1>2. names = [n \in Named(own) \cup DOMAIN rest |-> IF n \in Named(own) THEN Line(own, n) ELSE rest[n]]
    BY ResolvesTo DEF DefsForWrite
<1> HIDE DEF own, names, rest
<1>3. ASSUME NEW n \in Named(own) PROVE names[n] = Line(own, n) /\ names[n] \in own
    BY <1>1, <1>2, SourceFacts, OneLine
<1>4. ASSUME NEW n \in Named(Protocol) \ Named(own)
      PROVE  n \in DOMAIN names /\ names[n] = Line(Protocol, n) /\ names[n] \in Protocol
    <2>1. /\ IsSources(s) /\ Server = Registry(s)
          /\ 1 \in DOMAIN s /\ s[1] = Protocol /\ \A i \in DOMAIN s : 1 <= i
        BY ServerSources
    <2> HIDE DEF s
    <2>2. PICK l \in s[1] : l.name = n
        BY <2>1 DEF Named
    <2>3. n \in DOMAIN rest
        BY <2>1, <2>2, RegistryIs DEF rest
    <2>4. PICK i \in DOMAIN s : rest[n] = Line(s[i], n) /\ \A j \in DOMAIN s : n \in Named(s[j]) => i <= j
        BY <2>1, <2>3, RegistryIs DEF rest
    <2>5. i = 1
        BY <2>1, <2>4 DEF IsSources
    <2>6. Line(Protocol, n) \in Protocol
        BY <1>1, SourceFacts, OneLine
    <2> QED BY <1>2, <2>1, <2>3, <2>4, <2>5, <2>6
<1>5. ASSUME NEW d \in own \cup Protocol, NEW b \in BareOf({d})
      PROVE  b \in DOMAIN names /\ names[b] = Meant(b)
    <2>1. b \in DOMAIN rest /\ rest[b] = Meant(b)
        <3>1. CASE d \in own
            BY <3>1, ServerReads DEF rest, own
        <3>2. CASE d \in Protocol
            BY <3>2, ServerReads DEF rest
        <3> QED BY <3>1, <3>2
    <2>2. b \in Named(own) => Line(own, b) = Meant(b)
        BY <1>1, BareMeans
    <2> QED BY <1>2, <2>1, <2>2
<1>6. Named(own) \cup Named(Protocol) \subseteq DOMAIN names
    BY <1>2, <1>4
<1> QED BY <1>1, <1>3, <1>4, <1>5, <1>6 DEF own, names

LEMMA AnswerResolved ==
    ASSUME HistoryInv, NEW shipped \in DOMAIN frozen, NEW layer \in UnchangedFrom(shipped)
    PROVE  LET names == DefsForWrite(layer)
           IN /\ \A n \in Named(frozen[shipped]) : names[n] = Line(frozen[shipped], n)
              /\ \A n \in Named(frozen[shipped]) \cup Named(Protocol) :
                    /\ ReadsAs(Client(shipped), names[n], names)
                    /\ shipped \in DOMAIN built => ReadsAs(Studio, names[n], names)
<1> DEFINE own == frozen[shipped]
           names == DefsForWrite(layer)
<1>1. /\ \A n \in Named(own) : names[n] = Line(own, n) /\ names[n] \in own
      /\ \A n \in Named(Protocol) \ Named(own) : names[n] \in Protocol
      /\ \A d \in own \cup Protocol : \A b \in BareOf({d}) :
            b \in DOMAIN names /\ names[b] = Meant(b)
    BY WrittenAs
<1> HIDE DEF names
<1>2. ASSUME NEW n \in Named(own) \cup Named(Protocol)
      PROVE  /\ ReadsAs(Client(shipped), names[n], names)
             /\ shipped \in DOMAIN built => ReadsAs(Studio, names[n], names)
    <2> DEFINE d == names[n]
    <2>1. d \in own \cup Protocol
        BY <1>1
    <2>2. \A b \in BareOf({d}) : b \in DOMAIN names /\ names[b] = Meant(b)
        BY <1>1, <2>1
    <2> HIDE DEF d
    <2>3. ReadsAs(Client(shipped), d, names)
        BY <2>1, <2>2, ClientReads DEF ReadsAs
    <2>4. ASSUME shipped \in DOMAIN built PROVE ReadsAs(Studio, d, names)
        <3> DEFINE s == WireDefs(built)
        <3>1. 0 \in DOMAIN s /\ s[0] = Protocol /\ \E i \in DOMAIN s : s[i] = built[shipped]
            BY <2>4, StudioSources
        <3>2. built[shipped] = own
            BY <2>4 DEF HistoryInv
        <3>3. PICK i \in DOMAIN s : d \in s[i]
            BY <2>1, <3>1, <3>2
        <3>4. /\ d.id \in DOMAIN Studio.byId /\ Studio.byId[d.id] = d
              /\ \A b \in BareOf({d}) : b \in DOMAIN Studio.byName /\ Studio.byName[b] = Meant(b)
            BY <3>3, StudioIs
        <3> QED BY <2>2, <3>4 DEF ReadsAs
    <2> QED BY <2>3, <2>4 DEF d
<1> QED BY <1>1, <1>2 DEF names

\* What the server writes for a layer is the layer's definition of each name it has, and
\* a client of the layer, and a studio that knows it, has the definition under its id and
\* reads what it has bare with the definitions it was written with (codec.ts:42-48).
THEOREM AnswersAreResolved == HistorySpec => []AnswersResolved
<1>1. HistoryInv => AnswersResolved
    BY AnswerResolved DEF AnswersResolved
<1> QED BY <1>1, HistoryInvAlways, PTL

-----------------------------------------------------------------------------
(***************************************************************************)
(* The codec.  What is written of a value that fits its definitions is     *)
(* bytes, and is read back as what was meant: for numbers and byte strings *)
(* first, then for what is made of items and of fields, then level by      *)
(* level for all types and values.                                         *)
(***************************************************************************)
\* A function that is given by its values so far, with one more.
More(f, k, e) == [l \in 0..(k + 1) |-> IF l \in 0..k THEN f[l] ELSE e]

LEMMA MoreIs ==
    ASSUME NEW k \in Nat, NEW f, NEW e
    PROVE  /\ More(f, k, e) = [l \in 0..(k + 1) |-> More(f, k, e)[l]]
           /\ More(f, k, e)[k + 1] = e
           /\ \A l \in 0..k : More(f, k, e)[l] = f[l]
BY DEF More

Bases == {2, 256}

(***************************************************************************)
(* Digits.                                                                 *)
(***************************************************************************)
\* What Divided, Digits and Composed are: their local functions exist and unfold.
Divides(f, n, base, size) == f = [k \in 0..size |-> IF k = 0 THEN n ELSE f[k - 1] \div base]

LEMMA DividesExists ==
    ASSUME NEW n, NEW base, NEW size \in Nat
    PROVE  \E f : Divides(f, n, base, size)
<1> DEFINE G == {k \in Nat : \E f : Divides(f, n, base, k)}
<1>1. 0 \in G
    <2>1. Divides([k \in 0..0 |-> n], n, base, 0)
        BY DEF Divides
    <2> QED BY <2>1
<1>2. ASSUME NEW k \in Nat, k \in G PROVE k + 1 \in G
    <2>1. PICK f : Divides(f, n, base, k)
        BY <1>2
    <2> DEFINE e == f[k] \div base
           g == More(f, k, e)
    <2> HIDE DEF e
    <2>2. g = [l \in 0..(k + 1) |-> g[l]]
        BY MoreIs
    <2>3. g[k + 1] = e /\ \A l \in 0..k : g[l] = f[l]
        BY MoreIs
    <2> HIDE DEF g
    <2>4. ASSUME NEW l \in 0..(k + 1) PROVE g[l] = IF l = 0 THEN n ELSE g[l - 1] \div base
        <3>1. CASE l \in 0..k
            <4>1. l # 0 => g[l - 1] = f[l - 1]
                BY <2>3, <3>1
            <4>2. f[l] = IF l = 0 THEN n ELSE f[l - 1] \div base
                BY <2>1, <3>1 DEF Divides
            <4> QED BY <2>3, <3>1, <4>1, <4>2
        <3>2. CASE l = k + 1
            <4>1. l # 0 /\ g[l - 1] = f[k]
                BY <2>3, <3>2
            <4> QED BY <2>3, <3>2, <4>1 DEF e
        <3> QED BY <3>1, <3>2
    <2>5. Divides(g, n, base, k + 1)
        BY <2>2, <2>4 DEF Divides
    <2> QED BY <2>5
<1>3. Nat \subseteq G
    <2> HIDE DEF G
    <2> QED BY <1>1, <1>2, NatAll
<1> QED BY <1>3

LEMMA DividedIs ==
    ASSUME NEW n \in Int, NEW base \in Bases
    PROVE  /\ Divided(n, base)[0] = n
           /\ \A k \in 0..31 : Divided(n, base)[k + 1] = Divided(n, base)[k] \div base
           /\ \A k \in 0..32 : Divided(n, base)[k] \in Int
<1> DEFINE f == Divided(n, base)
<1>1. f = CHOOSE g : Divides(g, n, base, 32)
    BY DEF Divided, Divides
<1>2. Divides(f, n, base, 32)
    <2>1. \E g : Divides(g, n, base, 32)
        BY DividesExists
    <2> HIDE DEF f
    <2> QED BY <1>1, <2>1, Zenon
<1> HIDE DEF f
<1>3. f[0] = n /\ \A k \in 0..31 : f[k + 1] = f[k] \div base
    <2>1. ASSUME NEW k \in 0..32 PROVE f[k] = IF k = 0 THEN n ELSE f[k - 1] \div base
        BY <1>2 DEF Divides
    <2>2. ASSUME NEW k \in 0..31 PROVE f[k + 1] = f[k] \div base
        <3>1. k + 1 \in 0..32 /\ k + 1 # 0 /\ (k + 1) - 1 = k
            OBVIOUS
        <3> QED BY <2>1, <3>1
    <2> QED BY <2>1, <2>2
<1>4. \A k \in 0..32 : f[k] \in Int
    <2> DEFINE G == {k \in Nat : k <= 32 => f[k] \in Int}
    <2>1. 0 \in G
        BY <1>3
    <2>2. ASSUME NEW k \in Nat, k \in G PROVE k + 1 \in G
        BY <1>3, <2>2 DEF Bases
    <2>3. Nat \subseteq G
        <3> HIDE DEF G
        <3> QED BY <2>1, <2>2, NatAll
    <2> QED BY <2>3
<1> QED BY <1>3, <1>4 DEF f

LEMMA DigitsAre ==
    ASSUME NEW n \in Int, NEW base \in Bases, NEW size \in 0..32
    PROVE  /\ Digits(n, base, size) \in Seq(0..(base - 1)) /\ Digits(n, base, size) \in Seq(Int)
           /\ Len(Digits(n, base, size)) = size
           /\ \A i \in 1..size : Digits(n, base, size)[i] = Divided(n, base)[i - 1] % base
<1> DEFINE f == Divided(n, base)
           d == [i \in 1..size |-> f[i - 1] % base]
<1>1. d = Digits(n, base, size)
    BY DEF Digits
<1>2. ASSUME NEW i \in 1..size PROVE f[i - 1] % base \in 0..(base - 1)
    <2>1. \A k \in 0..32 : f[k] \in Int
        BY DividedIs
    <2> HIDE DEF f
    <2>2. f[i - 1] \in Int
        BY <2>1
    <2> QED BY <2>2 DEF Bases
<1> HIDE DEF f
<1>3. d \in [1..size -> 0..(base - 1)]
    BY <1>2
<1>4. d \in Seq(0..(base - 1)) /\ Len(d) = size
    BY <1>3
<1>5. d \in Seq(Int)
    BY <1>4
<1> QED BY <1>1, <1>4, <1>5 DEF f

\* The number of the digits from the last size - k on.
Composes(f, digits, base, top, size) ==
    f = [k \in 0..size |-> IF k = 0 THEN top ELSE f[k - 1] * base + digits[(Len(digits) - k) + 1]]

LEMMA ComposesExists ==
    ASSUME NEW digits, NEW base, NEW top, NEW size \in Nat
    PROVE  \E f : Composes(f, digits, base, top, size)
<1> DEFINE G == {k \in Nat : \E f : Composes(f, digits, base, top, k)}
           step(h, l) == h[l - 1] * base + digits[(Len(digits) - l) + 1]
<1>1. 0 \in G
    <2>1. Composes([k \in 0..0 |-> top], digits, base, top, 0)
        BY DEF Composes
    <2> QED BY <2>1
<1>2. ASSUME NEW k \in Nat, k \in G PROVE k + 1 \in G
    <2>1. PICK f : Composes(f, digits, base, top, k)
        BY <1>2
    <2> DEFINE e == f[k] * base + digits[(Len(digits) - (k + 1)) + 1]
           g == More(f, k, e)
    <2> HIDE DEF e
    <2>2. g = [l \in 0..(k + 1) |-> g[l]]
        BY MoreIs
    <2>3. g[k + 1] = e /\ \A l \in 0..k : g[l] = f[l]
        BY MoreIs
    <2> HIDE DEF g
    <2>4. ASSUME NEW l \in 0..(k + 1) PROVE g[l] = IF l = 0 THEN top ELSE step(g, l)
        <3>1. CASE l \in 0..k
            <4>1. l # 0 => g[l - 1] = f[l - 1]
                BY <2>3, <3>1
            <4>2. f[l] = IF l = 0 THEN top ELSE step(f, l)
                BY <2>1, <3>1 DEF Composes
            <4> QED BY <2>3, <3>1, <4>1, <4>2
        <3>2. CASE l = k + 1
            <4>1. l # 0 /\ g[l - 1] = f[k]
                BY <2>3, <3>2
            <4> QED BY <2>3, <3>2, <4>1 DEF e
        <3> QED BY <3>1, <3>2
    <2>5. Composes(g, digits, base, top, k + 1)
        BY <2>2, <2>4 DEF Composes
    <2> QED BY <2>5
<1>3. Nat \subseteq G
    <2> HIDE DEF G
    <2> QED BY <1>1, <1>2, NatAll
<1> QED BY <1>3

Composing(f, digits, size, base, top) ==
    /\ f[0] = top /\ f[size] = Composed(digits, base, top)
    /\ \A k \in 0..(size - 1) : f[k + 1] = f[k] * base + digits[size - k]

LEMMA ComposedIs ==
    ASSUME NEW digits \in Seq(Int), NEW size \in Nat, size = Len(digits), NEW base, NEW top
    PROVE  \E f : Composing(f, digits, size, base, top)
<1> DEFINE f == CHOOSE g : Composes(g, digits, base, top, size)
<1>2. Composed(digits, base, top) = f[size]
    BY DEF Composed, Composes
<1>3. Composes(f, digits, base, top, size)
    <2>1. \E g : Composes(g, digits, base, top, size)
        BY ComposesExists
    <2> QED BY <2>1, Zenon
<1> HIDE DEF f
<1>4. ASSUME NEW k \in 0..size
      PROVE  f[k] = IF k = 0 THEN top ELSE f[k - 1] * base + digits[(size - k) + 1]
    BY <1>3, Zenon DEF Composes
<1>5. ASSUME NEW k \in 0..(size - 1) PROVE f[k + 1] = f[k] * base + digits[size - k]
    <2>1. k + 1 \in 0..size /\ k + 1 # 0 /\ (k + 1) - 1 = k /\ (size - (k + 1)) + 1 = size - k
        OBVIOUS
    <2>2. f[k + 1] = f[(k + 1) - 1] * base + digits[(size - (k + 1)) + 1]
        BY <1>4, <2>1
    <2> QED BY <2>1, <2>2
<1>6. f[0] = top
    BY <1>4
<1> QED BY <1>2, <1>5, <1>6 DEF Composing

\* A number is its lowest digit and the base times the rest.
LEMMA Euclid ==
    ASSUME NEW x \in Int, NEW base \in Bases
    PROVE  x = (x \div base) * base + (x % base)
<1>1. CASE base = 2
    BY <1>1
<1>2. CASE base = 256
    BY <1>2
<1> QED BY <1>1, <1>2 DEF Bases

\* The digits of a number make up the number.
LEMMA DigitsBack ==
    ASSUME NEW n \in Int, NEW base \in Bases, NEW size \in 0..32
    PROVE  Composed(Digits(n, base, size), base, Divided(n, base)[size]) = n
<1> DEFINE rest == Divided(n, base)
           d == Digits(n, base, size)
           top == rest[size]
<1>1. d \in Seq(Int) /\ Len(d) = size /\ \A i \in 1..size : d[i] = rest[i - 1] % base
    BY DigitsAre, Zenon
<1>2. rest[0] = n /\ (\A k \in 0..31 : rest[k + 1] = rest[k] \div base) /\ \A k \in 0..32 : rest[k] \in Int
    BY DividedIs, Zenon
<1> HIDE DEF d, rest
<1>8. size \in Nat /\ size = Len(d)
    BY <1>1
<1>9. \E f : Composing(f, d, size, base, top)
    <2> HIDE DEF top
    <2> QED BY <1>1, <1>8, ComposedIs, Zenon
<1>3. PICK f : Composing(f, d, size, base, top)
    BY <1>9
<1> DEFINE G == {k \in Nat : k <= size => f[k] = rest[size - k]}
<1>4. 0 \in G
    BY <1>3 DEF Composing
<1>5. ASSUME NEW k \in Nat, k \in G PROVE k + 1 \in G
    <2> SUFFICES ASSUME k + 1 <= size PROVE f[k + 1] = rest[size - (k + 1)]
        OBVIOUS
    <2> DEFINE j == size - (k + 1)
    <2>1. j \in 0..31 /\ k \in 0..(size - 1) /\ j + 1 = size - k /\ size - k \in 1..size
        OBVIOUS
    <2>2. f[k] = rest[j + 1] /\ rest[j + 1] = rest[j] \div base /\ rest[j] \in Int
        BY <1>2, <1>5, <2>1
    <2>3. f[k + 1] = f[k] * base + d[size - k] /\ d[size - k] = (rest[j] % base)
        <3>1. (size - k) - 1 = j
            OBVIOUS
        <3>2. d[size - k] = rest[(size - k) - 1] % base
            BY <1>1, <2>1
        <3> HIDE DEF j
        <3> QED BY <1>3, <2>1, <3>1, <3>2 DEF Composing
    <2> HIDE DEF j
    <2>4. f[k + 1] = (rest[j] \div base) * base + (rest[j] % base)
        BY <2>2, <2>3
    <2>5. f[k + 1] = rest[j]
        BY <2>2, <2>4, Euclid
    <2> QED BY <2>5 DEF j
<1>6. Nat \subseteq G
    <2> HIDE DEF G
    <2> QED BY <1>4, <1>5, NatAll
<1>7. f[size] = rest[0]
    BY <1>6
<1> QED BY <1>2, <1>3, <1>7 DEF d, rest, Composing

(***************************************************************************)
(* The digits of base 256 are bytes.                                       *)
(***************************************************************************)
LEMMA ByteBase == 256 \in Bases
BY DEF Bases

\* A sequence of numbers has a size.
Sized(s, size) == s \in Seq(Int) /\ Len(s) = size

LEMMA BytesOf ==
    ASSUME NEW n \in Int, NEW size \in Nat, size <= 32
    PROVE  Sized(Digits(n, 256, size), size)
<1> DEFINE base == 256
<1>1. base \in Bases /\ size \in 0..32
    BY ByteBase
<1> HIDE DEF base
<1>2. Digits(n, base, size) \in Seq(Int) /\ Len(Digits(n, base, size)) = size
    BY <1>1, DigitsAre, Zenon
<1> QED BY <1>2 DEF base, Sized

LEMMA ByteAt ==
    ASSUME NEW n \in Int, NEW size \in Nat, size <= 32, NEW i \in Nat, 0 < i, i <= size
    PROVE  Digits(n, 256, size)[i] = Divided(n, 256)[i - 1] % 256
<1> DEFINE base == 256
<1>1. base \in Bases /\ size \in 0..32 /\ i \in 1..size
    BY ByteBase
<1> HIDE DEF base
<1>2. Digits(n, base, size)[i] = Divided(n, base)[i - 1] % base
    BY <1>1, DigitsAre, Zenon
<1> QED BY <1>2 DEF base

\* A number of one byte has no more digits.
LEMMA SmallDivided ==
    ASSUME NEW n \in Nat, n < 256
    PROVE  Divided(n, 256)[0] = n /\ \A k \in Nat : 0 < k /\ k <= 32 => Divided(n, 256)[k] = 0
<1> DEFINE f == Divided(n, 256)
<1>1. f[0] = n /\ \A k \in Nat : k < 32 => f[k + 1] = f[k] \div 256
    <2> DEFINE base == 256
               g == Divided(n, base)
    <2>1. base \in Bases /\ n \in Int
        BY ByteBase
    <2> HIDE DEF base
    <2>2. g[0] = n /\ \A k \in 0..31 : g[k + 1] = g[k] \div base
        BY <2>1, DividedIs, Zenon
    <2> HIDE DEF g
    <2>3. ASSUME NEW k \in Nat, k < 32 PROVE g[k + 1] = g[k] \div base
        <3>1. k \in 0..31
            BY <2>3
        <3> QED BY <2>2, <3>1, Zenon
    <2> QED BY <2>2, <2>3 DEF base, g
<1> HIDE DEF f
<1> DEFINE G == {k \in Nat : k < 32 => f[k + 1] = 0}
<1>2. 0 \in G
    <2>1. f[0 + 1] = f[0] \div 256
        BY <1>1
    <2> QED BY <1>1, <2>1
<1>3. ASSUME NEW k \in Nat, k \in G PROVE k + 1 \in G
    <2> SUFFICES ASSUME k + 1 < 32 PROVE f[(k + 1) + 1] = 0
        OBVIOUS
    <2>1. f[k + 1] = 0
        BY <1>3
    <2>2. 0 \div 256 = 0
        OBVIOUS
    <2> QED BY <1>1, <2>1, <2>2
<1>4. Nat \subseteq G
    <2> HIDE DEF G
    <2> QED BY <1>2, <1>3, NatAll
<1>5. ASSUME NEW k \in Nat, 0 < k, k <= 32 PROVE f[k] = 0
    <2>1. k - 1 \in Nat /\ k - 1 < 32 /\ (k - 1) + 1 = k
        BY <1>5
    <2>2. k - 1 \in G
        BY <1>4, <2>1
    <2> QED BY <2>1, <2>2
<1> QED BY <1>1, <1>5 DEF f

LEMMA SmallUnsigned ==
    ASSUME NEW n \in Nat, n < 256, NEW size \in Nat, 0 < size, size <= 32
    PROVE  Unsigned(n, size)
<1>1. Divided(n, 256)[size] = 0
    BY SmallDivided
<1> QED BY <1>1 DEF Unsigned

(***************************************************************************)
(* What a buffer has at a position.                                        *)
(***************************************************************************)
\* The buffer has the sequence at the position.
Holds(buf, pos, s) ==
    /\ pos \in Nat \ {0} /\ s \in Seq(Int) /\ (pos - 1) + Len(s) <= Len(buf)
    /\ \A i \in 1..Len(s) : buf[(pos - 1) + i] = s[i]

\* A sequence is held as its two parts are, one after the other.
LEMMA HoldsConcat ==
    ASSUME NEW buf \in Seq(Int), NEW pos, NEW s \in Seq(Int), NEW t \in Seq(Int), Holds(buf, pos, s \o t)
    PROVE  Holds(buf, pos, s) /\ Holds(buf, pos + Len(s), t) /\ Len(s \o t) = Len(s) + Len(t)
<1>1. /\ s \o t \in Seq(Int) /\ Len(s \o t) = Len(s) + Len(t)
      /\ \A i \in 1..Len(s) : (s \o t)[i] = s[i]
      /\ \A i \in 1..Len(t) : (s \o t)[i + Len(s)] = t[i]
    BY ConcatProperties
<1>2. Len(s) \in Nat /\ Len(t) \in Nat /\ Len(buf) \in Nat /\ pos \in Nat \ {0}
    BY DEF Holds
<1>6. (pos - 1) + (Len(s) + Len(t)) <= Len(buf) /\ \A i \in 1..(Len(s) + Len(t)) : buf[(pos - 1) + i] = (s \o t)[i]
    BY <1>1 DEF Holds
<1>3. Holds(buf, pos, s)
    <2>1. (pos - 1) + Len(s) <= Len(buf)
        BY <1>2, <1>6
    <2>2. ASSUME NEW i \in 1..Len(s) PROVE buf[(pos - 1) + i] = s[i]
        <3>1. i \in 1..(Len(s) + Len(t))
            BY <1>2
        <3> QED BY <1>1, <1>6, <3>1
    <2> QED BY <1>2, <2>1, <2>2 DEF Holds
<1>4. ASSUME NEW i \in 1..Len(t) PROVE buf[((pos + Len(s)) - 1) + i] = t[i]
    <2>1. i + Len(s) \in 1..(Len(s) + Len(t)) /\ ((pos + Len(s)) - 1) + i = (pos - 1) + (i + Len(s))
        BY <1>2
    <2> QED BY <1>1, <2>1 DEF Holds
<1>5. Holds(buf, pos + Len(s), t)
    <2>1. pos + Len(s) \in Nat \ {0} /\ ((pos + Len(s)) - 1) + Len(t) <= Len(buf)
        BY <1>1, <1>2 DEF Holds
    <2> QED BY <1>4, <2>1 DEF Holds
<1> QED BY <1>1, <1>3, <1>5

LEMMA HeldSlice ==
    ASSUME NEW buf \in Seq(Int), NEW pos, NEW s, Holds(buf, pos, s)
    PROVE  /\ pos \in Nat \ {0} /\ Len(s) \in Nat
           /\ Has(buf, pos, Len(s)) /\ Slice(buf, pos, Len(s)) = s
<1>1. pos \in Nat \ {0} /\ s \in Seq(Int) /\ Len(s) \in Nat /\ Len(buf) \in Nat
    BY DEF Holds
<1>2. (pos - 1) + Len(s) <= Len(buf) /\ \A i \in 1..Len(s) : buf[(pos - 1) + i] = s[i]
    BY DEF Holds
<1> DEFINE n == pos + (Len(s) - 1)
<1>3. Slice(buf, pos, Len(s)) = [i \in 1..Len(s) |-> buf[(pos - 1) + i]]
    <2>1. Slice(buf, pos, Len(s)) = SubSeq(buf, pos, n)
        BY Zenon DEF Slice
    <2>2. SubSeq(buf, pos, n) = [i \in 1..((n - pos) + 1) |-> buf[(i + pos) - 1]]
        BY <1>1
    <2>3. (n - pos) + 1 = Len(s) /\ \A i \in 1..Len(s) : (i + pos) - 1 = (pos - 1) + i
        BY <1>1
    <2> HIDE DEF n
    <2> QED BY <2>1, <2>2, <2>3
<1>4. s = [i \in 1..Len(s) |-> s[i]]
    BY <1>1
<1> QED BY <1>1, <1>2, <1>3, <1>4 DEF Has

LEMMA HeldSized ==
    ASSUME NEW buf \in Seq(Int), NEW pos, NEW s, NEW size, Sized(s, size), Holds(buf, pos, s)
    PROVE  pos \in Nat \ {0} /\ Has(buf, pos, size) /\ Slice(buf, pos, size) = s
<1>1. Len(s) = size
    BY DEF Sized
<1>2. pos \in Nat \ {0} /\ Has(buf, pos, Len(s)) /\ Slice(buf, pos, Len(s)) = s
    BY HeldSlice
<1> QED BY <1>1, <1>2, Zenon

\* What is written of a number is read as the number, if there is room for it.
LEMMA UIntBack ==
    ASSUME NEW buf \in Seq(Int), NEW pos, NEW n \in Int, NEW size \in Nat, size <= 32, Unsigned(n, size),
           Holds(buf, pos, Digits(n, 256, size))
    PROVE  ReadUInt(buf, pos, size) = Read(pos + size, Num(n)) /\ pos + size \in Nat \ {0}
<1>1. Sized(Digits(n, 256, size), size)
    BY BytesOf
<1>2. Composed(Digits(n, 256, size), 256, 0) = n
    <2>1. Divided(n, 256)[size] = 0
        BY DEF Unsigned
    <2>2. Composed(Digits(n, 256, size), 256, Divided(n, 256)[size]) = n
        <3> DEFINE base == 256
        <3>1. base \in Bases /\ size \in 0..32
            BY ByteBase
        <3> HIDE DEF base
        <3>2. Composed(Digits(n, base, size), base, Divided(n, base)[size]) = n
            BY <3>1, DigitsBack, Zenon
        <3> QED BY <3>2 DEF base
    <2> QED BY <2>1, <2>2
<1> DEFINE d == Digits(n, 256, size)
<1>3. Sized(d, size) /\ Holds(buf, pos, d) /\ Composed(d, 256, 0) = n
    BY <1>1, <1>2
<1> HIDE DEF d
<1>4. pos \in Nat \ {0} /\ Has(buf, pos, size) /\ Slice(buf, pos, size) = d
    BY <1>3, HeldSized
<1> QED BY <1>3, <1>4 DEF ReadUInt

\* Of a signed number the top byte has the sign.
LEMMA Int32Back ==
    ASSUME NEW buf \in Seq(Int), NEW pos, NEW n \in Int, Divided(n, 256)[3] \in -128..127,
           Holds(buf, pos, UInt32(n))
    PROVE  ReadInt32(buf, pos) = Read(pos + 4, Num(n))
<1> DEFINE d == Digits(n, 256, 4)
           low == Digits(n, 256, 3)
           rest == Divided(n, 256)
<1>0. Sized(d, 4) /\ Sized(low, 3)
    BY BytesOf
<1>1. Len(d) = 4 /\ Len(low) = 3 /\ low \in Seq(Int)
    <2> HIDE DEF d, low
    <2> QED BY <1>0 DEF Sized
<1>2. ASSUME NEW i \in Nat, 0 < i, i <= 4
      PROVE  d[i] = rest[i - 1] % 256 /\ (i <= 3 => low[i] = rest[i - 1] % 256)
    BY <1>2, ByteAt
<1>3. Holds(buf, pos, d)
    BY DEF UInt32
<1> HIDE DEF d, low, rest
<1>4. Has(buf, pos, 4) /\ pos \in Nat \ {0}
    BY <1>0, <1>3, HeldSized
<1>5. Holds(buf, pos, low)
    <2>1. (pos - 1) + 4 <= Len(buf) /\ \A i \in 1..Len(d) : buf[(pos - 1) + i] = d[i]
        BY <1>1, <1>3 DEF Holds
    <2>2. ASSUME NEW i \in 1..Len(low) PROVE buf[(pos - 1) + i] = low[i]
        <3>1. i \in Nat /\ 0 < i /\ i <= 3 /\ i <= 4 /\ i \in 1..Len(d)
            BY <1>1
        <3>2. buf[(pos - 1) + i] = d[i]
            BY <2>1, <3>1
        <3>3. d[i] = rest[i - 1] % 256 /\ low[i] = rest[i - 1] % 256
            BY <1>2, <3>1
        <3> QED BY <3>2, <3>3
    <2>3. (pos - 1) + 3 <= Len(buf)
        BY <1>4, <2>1
    <2> QED BY <1>1, <1>4, <2>2, <2>3 DEF Holds
<1>6. Slice(buf, pos, 3) = low
    BY <1>0, <1>5, HeldSized
<1>7. buf[pos + 3] = rest[3] % 256
    <2>1. buf[(pos - 1) + 4] = d[4] /\ (pos - 1) + 4 = pos + 3
        BY <1>1, <1>3, <1>4 DEF Holds
    <2>2. d[4] = rest[4 - 1] % 256
        BY <1>2
    <2> QED BY <2>1, <2>2
<1>8. rest[3] \in -128..127
    BY DEF rest
<1>9. rest[3] = IF buf[pos + 3] < 128 THEN buf[pos + 3] ELSE buf[pos + 3] - 256
    <2>1. ASSUME NEW r \in -128..127
          PROVE  r = IF r % 256 < 128 THEN r % 256 ELSE (r % 256) - 256
        OBVIOUS
    <2>2. rest[3] = IF rest[3] % 256 < 128 THEN rest[3] % 256 ELSE (rest[3] % 256) - 256
        BY <1>8, <2>1
    <2> QED BY <1>7, <2>2
<1>10. Composed(low, 256, rest[3]) = n
    BY ByteBase, DigitsBack DEF low, rest
<1> QED BY <1>4, <1>6, <1>9, <1>10 DEF ReadInt32

LEMMA RawBack ==
    ASSUME NEW buf \in Seq(Int), NEW pos, NEW s, NEW size, size = Len(s), Holds(buf, pos, s)
    PROVE  ReadRaw(buf, pos, size) = Read(pos + size, Data(s)) /\ pos + size \in Nat \ {0}
BY HeldSlice DEF ReadRaw

LEMMA ZerosAre ==
    ASSUME NEW n \in Nat
    PROVE  Zeros(n) \in Seq(Int) /\ Len(Zeros(n)) = n
<1>1. Zeros(n) \in [1..n -> Int]
    BY DEF Zeros
<1> QED BY <1>1

(***************************************************************************)
(* Byte strings.                                                           *)
(***************************************************************************)
Padding(n) == (4 - (n % 4)) % 4

LEMMA SmallNumbers ==
    ASSUME NEW n \in Nat, n < 256
    PROVE  Unsigned(n, 1) /\ Digits(n, 256, 1) = <<n>>
<1>1. Divided(n, 256)[0] = n /\ Divided(n, 256)[1] = 0
    BY SmallDivided
<1>2. Digits(n, 256, 1) \in Seq(Int) /\ Len(Digits(n, 256, 1)) = 1 /\ Digits(n, 256, 1)[1] = n
    <2>1. Digits(n, 256, 1)[1] = Divided(n, 256)[0] % 256
        BY ByteAt
    <2>2. n % 256 = n
        OBVIOUS
    <2>3. Digits(n, 256, 1) \in Seq(Int) /\ Len(Digits(n, 256, 1)) = 1
        <3>1. Sized(Digits(n, 256, 1), 1)
            BY BytesOf
        <3> QED BY <3>1 DEF Sized
    <2>4. Digits(n, 256, 1)[1] = n
        BY <1>1, <2>1, <2>2
    <2> QED BY <2>3, <2>4
<1> QED BY <1>1, <1>2 DEF Unsigned

\* A byte string is its length, itself and the padding.
LEMMA BytesWritten ==
    ASSUME NEW bytes \in Seq(Int), Unsigned(Len(bytes), 3)
    PROVE  /\ LengthOf(Len(bytes)) \in Seq(Int)
           /\ Len(LengthOf(Len(bytes))) = IF Len(bytes) < 254 THEN 1 ELSE 4
           /\ WriteBytes(bytes) \in Seq(Int)
           /\ LET length == Len(LengthOf(Len(bytes)))
              IN /\ WriteBytes(bytes) = (LengthOf(Len(bytes)) \o bytes) \o Zeros(Padding(length + Len(bytes)))
                 /\ Len(WriteBytes(bytes)) = (length + Len(bytes)) + Padding(length + Len(bytes))
<1> DEFINE n == Len(bytes)
           long == Digits(n, 256, 3)
           length == LengthOf(n)
           whole == length \o bytes
           pad == Zeros(Padding(Len(length) + n))
<1>1. n \in Nat /\ long \in Seq(Int) /\ Len(long) = 3
    <2>1. n \in Nat /\ n \in Int
        OBVIOUS
    <2> HIDE DEF n
    <2>2. Sized(long, 3)
        BY <2>1, BytesOf
    <2> HIDE DEF long
    <2> QED BY <2>1, <2>2 DEF Sized
<1> HIDE DEF n, long
<1>2. length \in Seq(Int) /\ Len(length) = IF n < 254 THEN 1 ELSE 4
    <2>1. CASE n < 254
        BY <1>1, <2>1 DEF LengthOf
    <2>2. CASE ~(n < 254)
        <3>1. <<254>> \in Seq(Int) /\ Len(<<254>>) = 1
            OBVIOUS
        <3>2. <<254>> \o long \in Seq(Int) /\ Len(<<254>> \o long) = 1 + 3
            <4> DEFINE mark == <<254>>
            <4>1. mark \in Seq(Int) /\ Len(mark) = 1
                BY <3>1
            <4> HIDE DEF mark
            <4>2. mark \o long \in Seq(Int) /\ Len(mark \o long) = Len(mark) + Len(long)
                BY <1>1, <4>1, ConcatProperties
            <4>3. mark \o long \in Seq(Int) /\ Len(mark \o long) = 1 + 3
                BY <1>1, <4>1, <4>2
            <4> QED BY <4>3 DEF mark
        <3> QED BY <2>2, <3>2 DEF LengthOf, long
    <2> QED BY <2>1, <2>2
<1> HIDE DEF length
<1>3. whole \in Seq(Int) /\ Len(whole) = Len(length) + n
    BY <1>2, ConcatProperties DEF n
<1>4. pad \in Seq(Int) /\ Len(pad) = Padding(Len(length) + n)
    <2>1. Padding(Len(length) + n) \in Nat
        BY <1>1, <1>2 DEF Padding
    <2> QED BY <2>1, ZerosAre
<1>5. WriteBytes(bytes) = whole \o pad
    BY <1>3 DEF WriteBytes, Padding, n, length
<1> HIDE DEF whole, pad
<1>6. whole \o pad \in Seq(Int) /\ Len(whole \o pad) = Len(whole) + Len(pad)
    BY <1>3, <1>4, ConcatProperties
<1> QED BY <1>2, <1>3, <1>4, <1>5, <1>6 DEF whole, pad, n, length

\* What is written of a byte string is read as it, to the end of the padding.
LEMMA BytesBack ==
    ASSUME NEW buf \in Seq(Int), NEW pos, NEW bytes \in Seq(Int), Unsigned(Len(bytes), 3),
           Holds(buf, pos, WriteBytes(bytes))
    PROVE  ReadBytes(buf, pos) = Read(pos + Len(WriteBytes(bytes)), Data(bytes))
<1> DEFINE n == Len(bytes)
           marked == LengthOf(n)
           size == Len(marked)
           pad == Zeros(Padding(size + n))
<1>1. /\ n \in Nat /\ marked \in Seq(Int) /\ size = IF n < 254 THEN 1 ELSE 4
      /\ WriteBytes(bytes) = (marked \o bytes) \o pad
      /\ Len(WriteBytes(bytes)) = (size + n) + Padding(size + n)
    <2>1. n \in Nat
        OBVIOUS
    <2>2. /\ marked \in Seq(Int) /\ size = IF n < 254 THEN 1 ELSE 4
          /\ WriteBytes(bytes) = (marked \o bytes) \o pad
          /\ Len(WriteBytes(bytes)) = (size + n) + Padding(size + n)
        BY BytesWritten, Zenon
    <2> QED BY <2>1, <2>2, Zenon
<1>2. size \in {1, 4} /\ Padding(size + n) \in Nat
    <2> HIDE DEF n, marked
    <2> QED BY <1>1 DEF Padding
<1>3. marked \o bytes \in Seq(Int) /\ Len(marked \o bytes) = size + n /\ pad \in Seq(Int)
          /\ Len(pad) = Padding(size + n)
    <2>1. bytes \in Seq(Int) /\ n = Len(bytes)
        OBVIOUS
    <2>2. pad \in Seq(Int) /\ Len(pad) = Padding(size + n)
        BY <1>2, ZerosAre, Zenon
    <2> HIDE DEF marked, n, pad
    <2>3. marked \o bytes \in Seq(Int) /\ Len(marked \o bytes) = Len(marked) + Len(bytes)
        BY <1>1, <2>1, ConcatProperties
    <2> QED BY <2>1, <2>2, <2>3, Zenon
<1> HIDE DEF pad
<1>4. /\ Holds(buf, pos, marked \o bytes) /\ Holds(buf, pos + (size + n), pad)
    <2>1. Holds(buf, pos, (marked \o bytes) \o pad)
        BY <1>1
    <2> HIDE DEF marked, n
    <2>2. Holds(buf, pos, marked \o bytes) /\ Holds(buf, pos + Len(marked \o bytes), pad)
        BY <1>3, <2>1, HoldsConcat
    <2> QED BY <1>3, <2>2
<1>5. Holds(buf, pos, marked) /\ Holds(buf, pos + size, bytes)
    BY <1>1, <1>4, HoldsConcat
<1>6. pos \in Nat \ {0}
    BY <1>5 DEF Holds
<1> DEFINE short == ReadUInt(buf, pos, 1)
           long == short.pos # 0 /\ short.v.n >= 254
           length == IF long THEN ReadUInt(buf, pos + 1, 3) ELSE short
           body == IF length.pos = 0 THEN Failed ELSE ReadRaw(buf, length.pos, length.v.n)
           padding == IF body.pos = 0 THEN 0 ELSE (4 - ((body.pos - pos) % 4)) % 4
<1>7. ReadBytes(buf, pos) = Read(Skip(buf, body.pos, padding), body.v)
    BY DEF ReadBytes
<1>8. length = Read(pos + size, Num(n))
    <2>1. CASE n < 254
        <3>1. marked = <<n>> /\ size = 1
            BY <1>1, <2>1 DEF LengthOf
        <3>2. Unsigned(n, 1) /\ Digits(n, 256, 1) = <<n>>
            BY <1>1, <2>1, SmallNumbers
        <3>3. short = Read(pos + 1, Num(n))
            <4>1. Holds(buf, pos, Digits(n, 256, 1))
                BY <1>5, <3>1, <3>2
            <4>2. n \in Int
                BY <1>1
            <4> HIDE DEF n
            <4> QED BY <3>2, <4>1, <4>2, UIntBack
        <3> HIDE DEF short, n
        <3>4. ~long
            BY <1>1, <2>1, <3>3 DEF Read, Num
        <3> QED BY <3>1, <3>3, <3>4
    <2>2. CASE ~(n < 254)
        <3>1. marked = <<254>> \o Digits(n, 256, 3) /\ size = 4
            BY <1>1, <2>2 DEF LengthOf
        <3>2. Unsigned(254, 1) /\ Digits(254, 256, 1) = <<254>>
            BY SmallNumbers
        <3>3. <<254>> \in Seq(Int) /\ Len(<<254>>) = 1 /\ n \in Int /\ Digits(n, 256, 3) \in Seq(Int)
            <4>1. <<254>> \in Seq(Int) /\ Len(<<254>>) = 1
                OBVIOUS
            <4>2. n \in Int
                BY <1>1
            <4> HIDE DEF n
            <4>3. Digits(n, 256, 3) \in Seq(Int)
                BY <4>2, BytesOf DEF Sized
            <4> QED BY <4>1, <4>2, <4>3, Zenon
        <3>4. Holds(buf, pos, <<254>>) /\ Holds(buf, pos + 1, Digits(n, 256, 3))
            <4>1. Holds(buf, pos, <<254>> \o Digits(n, 256, 3))
                BY <1>5, <3>1
            <4>2. Holds(buf, pos, <<254>>) /\ Holds(buf, pos + Len(<<254>>), Digits(n, 256, 3))
                <5> DEFINE mark == <<254>>
                           low == Digits(n, 256, 3)
                <5>1. mark \in Seq(Int) /\ low \in Seq(Int) /\ Holds(buf, pos, mark \o low)
                    BY <3>3, <4>1
                <5> HIDE DEF n, mark, low
                <5>2. Holds(buf, pos, mark) /\ Holds(buf, pos + Len(mark), low)
                    BY <5>1, HoldsConcat, Zenon
                <5> QED BY <5>2 DEF mark, low
            <4> QED BY <3>3, <4>2, Zenon
        <3>5. short = Read(pos + 1, Num(254))
            <4>1. Holds(buf, pos, Digits(254, 256, 1))
                <5> DEFINE mark == <<254>>
                           low == Digits(254, 256, 1)
                <5>1. Holds(buf, pos, mark) /\ low = mark
                    BY <3>2, <3>4
                <5> HIDE DEF mark, low
                <5>2. Holds(buf, pos, low)
                    BY <5>1
                <5> QED BY <5>2 DEF low
            <4> QED BY <3>2, <4>1, UIntBack
        <3>6. ReadUInt(buf, pos + 1, 3) = Read((pos + 1) + 3, Num(n))
            <4> HIDE DEF n
            <4>1. Unsigned(n, 3)
                BY DEF n
            <4> QED BY <3>3, <3>4, <4>1, UIntBack
        <3> HIDE DEF short, n
        <3>7. long
            BY <1>6, <3>5 DEF Read, Num
        <3> QED BY <1>6, <3>1, <3>6, <3>7
    <2> QED BY <2>1, <2>2
<1> HIDE DEF length
<1>9. body = Read((pos + size) + n, Data(bytes))
    <2>1. length.pos = pos + size /\ length.v.n = n
        BY <1>8 DEF Read, Num
    <2>2. pos + size # 0
        BY <1>2, <1>6
    <2> QED BY <1>5, <2>1, <2>2, RawBack
<1> HIDE DEF body
<1>10. body.pos = (pos + size) + n /\ body.v = Data(bytes) /\ body.pos = pos + (size + n) /\ body.pos # 0
          /\ body.pos - pos = size + n
    <2> HIDE DEF n, marked
    <2> QED BY <1>1, <1>2, <1>6, <1>9 DEF Read
<1>11. padding = Padding(size + n)
    BY <1>10 DEF Padding
<1>12. Skip(buf, body.pos, padding) = (pos + (size + n)) + Padding(size + n)
    BY <1>3, <1>4, <1>10, <1>11, HeldSlice DEF Skip
<1>13. (pos + (size + n)) + Padding(size + n) = pos + ((size + n) + Padding(size + n))
    <2> HIDE DEF n, marked
    <2> QED BY <1>1, <1>2, <1>6
<1> QED BY <1>1, <1>7, <1>10, <1>12, <1>13

(***************************************************************************)
(* Masks.                                                                  *)
(***************************************************************************)
\* The digits of a mask in base two are the bits it was made of.
LEMMA MaskIs ==
    ASSUME NEW bits
    PROVE  /\ Mask(bits) \in Int /\ Unsigned(Mask(bits), 4)
           /\ \A b \in 0..31 : (Divided(Mask(bits), 2)[b] % 2 = 1) <=> b \in bits
<1> DEFINE d == [i \in 1..32 |-> IF i - 1 \in bits THEN 1 ELSE 0]
           m == Mask(bits)
<1>1. d \in Seq(Int) /\ 32 = Len(d) /\ \A i \in 1..32 : d[i] = IF i - 1 \in bits THEN 1 ELSE 0
    <2>1. d \in [1..32 -> Int]
        OBVIOUS
    <2> QED BY <2>1
<1>2. m = Composed(d, 2, 0)
    BY DEF Mask
<1> HIDE DEF d, m
<1>3. \E g : Composing(g, d, 32, 2, 0)
    BY <1>1, ComposedIs
<1>4. PICK f : Composing(f, d, 32, 2, 0)
    BY <1>3
<1>5. f[0] = 0 /\ f[32] = m
    BY <1>2, <1>4 DEF Composing
<1>6. \A k \in 0..31 : f[k + 1] = f[k] * 2 + d[32 - k] /\ d[32 - k] \in {0, 1}
    <2> SUFFICES ASSUME NEW k \in 0..31 PROVE f[k + 1] = f[k] * 2 + d[32 - k] /\ d[32 - k] \in {0, 1}
        OBVIOUS
    <2>1. k \in 0..(32 - 1) /\ 32 - k \in 1..32
        OBVIOUS
    <2> QED BY <1>1, <1>4, <2>1 DEF Composing
<1>7. \A k \in 0..32 : f[k] \in Nat
    <2> DEFINE G == {k \in Nat : k <= 32 => f[k] \in Nat}
    <2>1. 0 \in G
        BY <1>5
    <2>2. ASSUME NEW k \in Nat, k \in G PROVE k + 1 \in G
        <3> SUFFICES ASSUME k + 1 <= 32 PROVE f[k + 1] \in Nat
            OBVIOUS
        <3>1. k \in 0..31 /\ f[k] \in Nat
            BY <2>2
        <3>2. f[k + 1] = f[k] * 2 + d[32 - k] /\ d[32 - k] \in {0, 1}
            BY <1>6, <3>1
        <3> QED BY <3>1, <3>2
    <2>3. Nat \subseteq G
        <3> HIDE DEF G
        <3> QED BY <2>1, <2>2, NatAll
    <2> QED BY <2>3
<1>8. m \in Nat
    BY <1>5, <1>7
<1>9. \A k \in 0..32 : Divided(m, 2)[k] = f[32 - k]
    <2> DEFINE G == {k \in Nat : k <= 32 => Divided(m, 2)[k] = f[32 - k]}
    <2>0. /\ Divided(m, 2)[0] = m
          /\ \A k \in 0..31 : Divided(m, 2)[k + 1] = Divided(m, 2)[k] \div 2
        <3>1. 2 \in Bases
            BY DEF Bases
        <3> QED BY <1>8, <3>1, DividedIs
    <2>1. 0 \in G
        BY <1>5, <2>0
    <2>2. ASSUME NEW k \in Nat, k \in G PROVE k + 1 \in G
        <3> SUFFICES ASSUME k + 1 <= 32 PROVE Divided(m, 2)[k + 1] = f[32 - (k + 1)]
            OBVIOUS
        <3> DEFINE j == 32 - (k + 1)
        <3>1. j \in 0..31 /\ k \in 0..31 /\ j + 1 = 32 - k
            OBVIOUS
        <3>2. Divided(m, 2)[k] = f[j + 1]
            BY <2>2, <3>1
        <3> HIDE DEF j
        <3>3. f[j + 1] = f[j] * 2 + d[32 - j] /\ d[32 - j] \in {0, 1} /\ f[j] \in Nat
            BY <1>6, <1>7, <3>1
        <3>4. f[j + 1] \div 2 = f[j]
            BY <3>3
        <3> QED BY <2>0, <3>1, <3>2, <3>4 DEF j
    <2>3. Nat \subseteq G
        <3> HIDE DEF G
        <3> QED BY <2>1, <2>2, NatAll
    <2> QED BY <2>3
<1>10. ASSUME NEW b \in 0..31 PROVE (Divided(m, 2)[b] % 2 = 1) <=> b \in bits
    <2> DEFINE j == 31 - b
    <2>1. j \in 0..31 /\ j + 1 = 32 - b /\ 32 - j = b + 1 /\ b + 1 \in 1..32 /\ (b + 1) - 1 = b /\ b \in 0..32
        OBVIOUS
    <2> HIDE DEF j
    <2>2. Divided(m, 2)[b] = f[j] * 2 + d[b + 1] /\ f[j] \in Nat
        BY <1>6, <1>7, <1>9, <2>1
    <2>3. d[b + 1] = IF b \in bits THEN 1 ELSE 0
        BY <1>1, <2>1
    <2>4. \A x \in Nat : (x * 2 + 1) % 2 = 1 /\ (x * 2 + 0) % 2 = 0
        OBVIOUS
    <2> QED BY <2>2, <2>3, <2>4
<1>11. ASSUME NEW k \in 0..24 PROVE f[k + 8] \div 256 = f[k]
    <2>1. /\ f[k + 1] = f[k] * 2 + d[32 - k] /\ d[32 - k] \in {0, 1} /\ f[k] \in Nat
          /\ f[(k + 1) + 1] = f[k + 1] * 2 + d[32 - (k + 1)] /\ d[32 - (k + 1)] \in {0, 1}
          /\ f[(k + 2) + 1] = f[k + 2] * 2 + d[32 - (k + 2)] /\ d[32 - (k + 2)] \in {0, 1}
          /\ f[(k + 3) + 1] = f[k + 3] * 2 + d[32 - (k + 3)] /\ d[32 - (k + 3)] \in {0, 1}
        BY <1>6, <1>7
    <2>2. /\ f[(k + 4) + 1] = f[k + 4] * 2 + d[32 - (k + 4)] /\ d[32 - (k + 4)] \in {0, 1}
          /\ f[(k + 5) + 1] = f[k + 5] * 2 + d[32 - (k + 5)] /\ d[32 - (k + 5)] \in {0, 1}
          /\ f[(k + 6) + 1] = f[k + 6] * 2 + d[32 - (k + 6)] /\ d[32 - (k + 6)] \in {0, 1}
          /\ f[(k + 7) + 1] = f[k + 7] * 2 + d[32 - (k + 7)] /\ d[32 - (k + 7)] \in {0, 1}
        BY <1>6
    <2>3. PICK s \in 0..15 : f[k + 4] = f[k] * 16 + s
        <3>1. f[k + 4] = f[k] * 16 + (d[32 - k] * 8 + d[32 - (k + 1)] * 4 + d[32 - (k + 2)] * 2 + d[32 - (k + 3)])
            BY <2>1
        <3>2. d[32 - k] * 8 + d[32 - (k + 1)] * 4 + d[32 - (k + 2)] * 2 + d[32 - (k + 3)] \in 0..15
            BY <2>1
        <3> QED BY <3>1, <3>2
    <2>4. PICK t \in 0..15 : f[k + 8] = f[k + 4] * 16 + t
        <3>0. f[k + 4] \in Nat
            BY <1>7
        <3>1. f[k + 8] = f[k + 4] * 16 + (d[32 - (k + 4)] * 8 + d[32 - (k + 5)] * 4 + d[32 - (k + 6)] * 2 + d[32 - (k + 7)])
            BY <2>2, <3>0
        <3>2. d[32 - (k + 4)] * 8 + d[32 - (k + 5)] * 4 + d[32 - (k + 6)] * 2 + d[32 - (k + 7)] \in 0..15
            BY <2>2
        <3> QED BY <3>1, <3>2
    <2>5. f[k + 8] = f[k] * 256 + (s * 16 + t) /\ s * 16 + t \in 0..255 /\ f[k] \in Nat
        BY <1>7, <2>3, <2>4
    <2>6. \A x \in Nat, r \in 0..255 : (x * 256 + r) \div 256 = x
        OBVIOUS
    <2>7. (f[k] * 256 + (s * 16 + t)) \div 256 = f[k]
        BY <2>5, <2>6
    <2> QED BY <2>5, <2>7
<1>12. Divided(m, 256)[4] = 0
    <2>1. /\ Divided(m, 256)[0] = m
          /\ \A k \in 0..31 : Divided(m, 256)[k + 1] = Divided(m, 256)[k] \div 256
        <3>1. 256 \in Bases
            BY DEF Bases
        <3> QED BY <1>8, <3>1, DividedIs
    <2>2. f[0 + 8] \div 256 = f[0] /\ f[8 + 8] \div 256 = f[8] /\ f[16 + 8] \div 256 = f[16] /\ f[24 + 8] \div 256 = f[24]
        BY <1>11
    <2>3. Divided(m, 256)[0 + 1] = f[24]
        BY <1>5, <2>1, <2>2
    <2>4. Divided(m, 256)[1 + 1] = f[16]
        BY <2>1, <2>2, <2>3
    <2>5. Divided(m, 256)[2 + 1] = f[8]
        BY <2>1, <2>2, <2>4
    <2>6. Divided(m, 256)[3 + 1] = f[0]
        BY <2>1, <2>2, <2>5
    <2> QED BY <1>5, <2>6
<1>13. m \in Int /\ Unsigned(m, 4)
    BY <1>8, <1>12 DEF Unsigned
<1> QED BY <1>10, <1>13 DEF m

Flattens(f, s, n) == f = [i \in 1..n |-> IF i = 1 THEN s[i] ELSE f[i - 1] \o s[i]]

LEMMA FlattenDef ==
    ASSUME NEW s
    PROVE  FlattenSeq(s) = IF Len(s) = 0 THEN s ELSE (CHOOSE f : Flattens(f, s, Len(s)))[Len(s)]
BY DEF FlattenSeq, Flattens

LEMMA FlattensExists ==
    ASSUME NEW s, NEW n \in Nat
    PROVE  \E f : Flattens(f, s, n)
<1> DEFINE G == {k \in Nat : \E f : Flattens(f, s, k)}
<1>1. 0 \in G
    <2>1. Flattens(<<>>, s, 0)
        BY DEF Flattens
    <2> QED BY <2>1
<1>2. ASSUME NEW k \in Nat, k \in G PROVE k + 1 \in G
    <2>1. PICK f : Flattens(f, s, k)
        BY <1>2
    <2> DEFINE g == [i \in 1..(k + 1) |-> IF i <= k THEN f[i] ELSE IF i = 1 THEN s[i] ELSE f[k] \o s[i]]
    <2>2. f = [i \in 1..k |-> IF i = 1 THEN s[i] ELSE f[i - 1] \o s[i]]
        BY <2>1 DEF Flattens
    <2>3. ASSUME NEW i \in 1..(k + 1)
          PROVE  g[i] = IF i = 1 THEN s[i] ELSE g[i - 1] \o s[i]
        <3>1. CASE i <= k
            <4>1. g[i] = f[i] /\ i \in 1..k
                BY <3>1
            <4>2. f[i] = IF i = 1 THEN s[i] ELSE f[i - 1] \o s[i]
                BY <2>2, <4>1
            <4>3. i # 1 => g[i - 1] = f[i - 1]
                BY <3>1
            <4> QED BY <4>1, <4>2, <4>3
        <3>2. CASE i = k + 1
            <4>1. g[i] = IF i = 1 THEN s[i] ELSE f[k] \o s[i]
                BY <3>2
            <4>2. i # 1 => g[i - 1] = f[k]
                BY <3>2
            <4> QED BY <4>1, <4>2
        <3> QED BY <3>1, <3>2
    <2>4. Flattens(g, s, k + 1)
        <3>1. g = [i \in 1..(k + 1) |-> g[i]]
            OBVIOUS
        <3> HIDE DEF g
        <3> QED BY <2>3, <3>1 DEF Flattens
    <2> QED BY <2>4
<1>3. Nat \subseteq G
    <2> HIDE DEF G
    <2> QED BY <1>1, <1>2, NatAll
<1> QED BY <1>3

\* Where each of the sequences is in a buffer that holds them in a row.
Pieces(buf, pos, s, start) ==
    /\ start[0] = pos /\ start[Len(s)] = pos + Len(FlattenSeq(s))
    /\ \A i \in 0..Len(s) : start[i] \in Nat \ {0}
    /\ \A i \in 0..(Len(s) - 1) : Holds(buf, start[i], s[i + 1]) /\ start[i + 1] = start[i] + Len(s[i + 1])

\* The sequence up to each of them.
Heads(f, s) ==
    /\ f[0] = <<>> /\ f[Len(s)] = FlattenSeq(s)
    /\ \A i \in 0..Len(s) : f[i] \in Seq(Int)
    /\ \A i \in 0..(Len(s) - 1) : f[i + 1] = f[i] \o s[i + 1]

LEMMA HeadsExist ==
    ASSUME NEW s \in Seq(Seq(Int))
    PROVE  \E f : Heads(f, s)
<1> DEFINE n == Len(s)
           g == CHOOSE h : Flattens(h, s, n)
           f == [i \in 0..n |-> IF i = 0 THEN <<>> ELSE g[i]]
<1>1. n \in Nat /\ n = Len(s) /\ \A i \in 1..n : s[i] \in Seq(Int)
    OBVIOUS
<1>2. Flattens(g, s, n)
    <2>1. \E h : Flattens(h, s, n)
        BY <1>1, FlattensExists
    <2> QED BY <2>1, Zenon
<1>3. FlattenSeq(s) = IF n = 0 THEN s ELSE g[n]
    BY FlattenDef
<1>4. n = 0 => s = <<>>
    BY EmptySeq
<1> HIDE DEF n, g
<1>5. \A i \in 1..n : g[i] = IF i = 1 THEN s[i] ELSE g[i - 1] \o s[i]
    BY <1>2 DEF Flattens
<1>6. f[0] = <<>> /\ \A i \in 1..n : f[i] = g[i]
    BY <1>1
<1> HIDE DEF f
<1>7. \A i \in 0..(n - 1) : f[i + 1] = f[i] \o s[i + 1]
    <2> SUFFICES ASSUME NEW i \in 0..(n - 1) PROVE f[i + 1] = f[i] \o s[i + 1]
        OBVIOUS
    <2>1. i + 1 \in 1..n /\ (i + 1) - 1 = i /\ s[i + 1] \in Seq(Int)
        BY <1>1
    <2>2. g[i + 1] = IF i + 1 = 1 THEN s[i + 1] ELSE g[i] \o s[i + 1]
        BY <1>5, <2>1
    <2>3. CASE i = 0
        <3>1. <<>> \o s[i + 1] = s[i + 1]
            BY <2>1, ConcatEmptySeq
        <3>2. f[i + 1] = s[i + 1] /\ f[i] = <<>>
            BY <1>6, <2>1, <2>2, <2>3
        <3> QED BY <3>1, <3>2, Zenon
    <2>4. CASE i # 0
        <3>1. i \in 1..n /\ i + 1 # 1
            BY <1>1, <2>4
        <3> QED BY <1>6, <2>1, <2>2, <3>1
    <2> QED BY <2>3, <2>4
<1>8. \A i \in 0..n : f[i] \in Seq(Int)
    <2> DEFINE G == {i \in Nat : i <= n => f[i] \in Seq(Int)}
    <2>1. 0 \in G
        <3>1. <<>> \in Seq(Int)
            OBVIOUS
        <3>2. f[0] \in Seq(Int)
            BY <1>6, <3>1, Zenon
        <3> QED BY <3>2
    <2>2. ASSUME NEW i \in Nat, i \in G PROVE i + 1 \in G
        <3> SUFFICES ASSUME i + 1 <= n PROVE f[i + 1] \in Seq(Int)
            OBVIOUS
        <3>1. i \in 0..(n - 1) /\ f[i] \in Seq(Int) /\ s[i + 1] \in Seq(Int)
            BY <1>1, <2>2
        <3>2. f[i] \o s[i + 1] \in Seq(Int)
            BY <3>1, ConcatProperties
        <3> QED BY <1>7, <3>1, <3>2
    <2>3. Nat \subseteq G
        <3> HIDE DEF G
        <3> QED BY <2>1, <2>2, NatAll
    <2> QED BY <1>1, <2>3
<1>9. f[n] = FlattenSeq(s)
    <2>1. CASE n = 0
        BY <1>3, <1>4, <1>6, <2>1
    <2>2. CASE n # 0
        BY <1>1, <1>3, <1>6, <2>2
    <2> QED BY <2>1, <2>2
<1>10. Heads(f, s)
    BY <1>6, <1>7, <1>8, <1>9 DEF Heads, n
<1> QED BY <1>10

LEMMA FlattenInts ==
    ASSUME NEW s \in Seq(Seq(Int))
    PROVE  FlattenSeq(s) \in Seq(Int)
<1>1. PICK f : Heads(f, s)
    BY HeadsExist
<1> QED BY <1>1 DEF Heads

LEMMA PiecesExist ==
    ASSUME NEW buf \in Seq(Int), NEW pos, NEW s \in Seq(Seq(Int)), Holds(buf, pos, FlattenSeq(s))
    PROVE  \E start : Pieces(buf, pos, s, start)
<1> DEFINE n == Len(s)
<1>1. PICK f : Heads(f, s)
    BY HeadsExist
<1>2. n \in Nat /\ pos \in Nat \ {0} /\ \A i \in 1..n : s[i] \in Seq(Int)
    BY DEF Holds
<1> HIDE DEF n
<1>3. /\ f[0] = <<>> /\ f[n] = FlattenSeq(s)
      /\ \A i \in 0..n : f[i] \in Seq(Int)
      /\ \A i \in 0..(n - 1) : f[i + 1] = f[i] \o s[i + 1]
    BY <1>1 DEF Heads, n
<1> DEFINE start == [i \in 0..n |-> pos + Len(f[i])]
<1>10. \A i \in 0..n : start[i] = pos + Len(f[i])
    OBVIOUS
<1> HIDE DEF start
<1>4. ASSUME NEW i \in 0..(n - 1), Holds(buf, pos, f[i + 1])
      PROVE  Holds(buf, pos, f[i]) /\ Holds(buf, start[i], s[i + 1]) /\ start[i + 1] = start[i] + Len(s[i + 1])
    <2>1. i \in 0..n /\ i + 1 \in 0..n /\ i + 1 \in 1..n
        BY <1>2
    <2>2. f[i] \in Seq(Int) /\ s[i + 1] \in Seq(Int) /\ f[i + 1] = f[i] \o s[i + 1]
        BY <1>2, <1>3, <2>1
    <2>3. Holds(buf, pos, f[i] \o s[i + 1])
        BY <1>4, <2>2
    <2>4. /\ Holds(buf, pos, f[i]) /\ Holds(buf, pos + Len(f[i]), s[i + 1])
          /\ Len(f[i + 1]) = Len(f[i]) + Len(s[i + 1])
        BY <2>2, <2>3, HoldsConcat
    <2>5. Len(f[i]) \in Nat /\ Len(s[i + 1]) \in Nat
        BY <2>2
    <2>6. start[i] = pos + Len(f[i]) /\ start[i + 1] = pos + Len(f[i + 1])
        BY <1>10, <2>1
    <2>7. start[i + 1] = start[i] + Len(s[i + 1])
        <3> DEFINE a == Len(f[i])
                   b == Len(s[i + 1])
        <3>1. start[i] = pos + a /\ start[i + 1] = pos + (a + b) /\ a \in Nat /\ b \in Nat
            BY <2>4, <2>5, <2>6, Zenon
        <3> HIDE DEF a, b
        <3>2. start[i + 1] = start[i] + b
            BY <1>2, <3>1
        <3> QED BY <3>2 DEF b
    <2> QED BY <2>4, <2>6, <2>7
<1>5. \A i \in 0..n : Holds(buf, pos, f[i])
    <2> DEFINE G == {i \in Nat : i <= n => Holds(buf, pos, f[n - i])}
    <2>1. 0 \in G
        <3>1. n - 0 = n
            BY <1>2
        <3> QED BY <1>3, <3>1
    <2>2. ASSUME NEW i \in Nat, i \in G PROVE i + 1 \in G
        <3> SUFFICES ASSUME i + 1 <= n PROVE Holds(buf, pos, f[n - (i + 1)])
            OBVIOUS
        <3> DEFINE j == n - (i + 1)
        <3>1. j \in 0..(n - 1) /\ j + 1 = n - i /\ Holds(buf, pos, f[n - i])
            BY <1>2, <2>2
        <3> HIDE DEF j
        <3> QED BY <1>4, <3>1 DEF j
    <2>3. Nat \subseteq G
        <3> HIDE DEF G
        <3> QED BY <2>1, <2>2, NatAll
    <2> SUFFICES ASSUME NEW i \in 0..n PROVE Holds(buf, pos, f[i])
        OBVIOUS
    <2>4. n - i \in Nat /\ n - i <= n /\ n - (n - i) = i
        BY <1>2
    <2> QED BY <2>3, <2>4
<1>6. ASSUME NEW i \in 0..(n - 1)
      PROVE  Holds(buf, start[i], s[i + 1]) /\ start[i + 1] = start[i] + Len(s[i + 1])
    <2>1. i + 1 \in 0..n
        BY <1>2
    <2> QED BY <1>4, <1>5, <2>1
<1>7. \A i \in 0..n : start[i] \in Nat \ {0}
    <2> SUFFICES ASSUME NEW i \in 0..n PROVE start[i] \in Nat \ {0}
        OBVIOUS
    <2>1. Len(f[i]) \in Nat
        BY <1>3
    <2> QED BY <1>2, <1>10, <2>1
<1>8. start[0] = pos /\ start[n] = pos + Len(FlattenSeq(s))
    <2>1. 0 \in 0..n /\ n \in 0..n
        BY <1>2
    <2>2. Len(f[0]) = 0
        <3>1. Len(<<>>) = 0
            OBVIOUS
        <3> QED BY <1>3, <3>1, Zenon
    <2>3. start[0] = pos + Len(f[0]) /\ start[n] = pos + Len(f[n])
        BY <1>10, <2>1
    <2>4. start[0] = pos
        BY <1>2, <2>2, <2>3
    <2>5. start[n] = pos + Len(FlattenSeq(s))
        BY <1>3, <2>3, Zenon
    <2> QED BY <2>4, <2>5
<1>9. Pieces(buf, pos, s, start)
    BY <1>6, <1>7, <1>8 DEF Pieces, n
<1> QED BY <1>9

(***************************************************************************)
(* The levels of the codec's calls, one more at a time.                    *)
(***************************************************************************)
WriteLevel(names, deeper) == [x \in Jobs |-> WriteType(names, deeper, x[1], x[2])]
ReadLevel(reg, buf, deeper) == [x \in Places |-> ReadType(reg, deeper, buf, x[1], x[2])]
FitLevel(names, deeper) == [x \in Jobs |-> Fit(names, deeper, x[1], x[2])]
SeenLevel(names, deeper) == [x \in Jobs |-> SeenType(names, deeper, x[1], x[2])]

LowestLevel == [write |-> [x \in Jobs |-> <<Thrown>>], read |-> [x \in Places |-> Failed],
                fit |-> [x \in Jobs |-> FALSE], see |-> [x \in Jobs |-> Nothing]]
NextLevel(reg, by, names, buf, l) ==
    [write |-> WriteLevel(by, l.write), read |-> ReadLevel(reg, buf, l.read),
     fit |-> FitLevel(names, l.fit), see |-> SeenLevel(names, l.see)]

Levels(f, reg, by, names, buf, k) ==
    f = [d \in 0..k |-> IF d = 0 THEN LowestLevel ELSE NextLevel(reg, by, names, buf, f[d - 1])]

LEMMA LevelsExist ==
    ASSUME NEW reg, NEW by, NEW names, NEW buf, NEW depth \in Nat
    PROVE  \E f : Levels(f, reg, by, names, buf, depth)
<1> DEFINE G == {k \in Nat : \E f : Levels(f, reg, by, names, buf, k)}
           Deeper(l) == NextLevel(reg, by, names, buf, l)
<1>1. 0 \in G
    <2>1. Levels([k \in 0..0 |-> LowestLevel], reg, by, names, buf, 0)
        BY DEF Levels
    <2> QED BY <2>1
<1>2. ASSUME NEW k \in Nat, k \in G PROVE k + 1 \in G
    <2>1. PICK f : Levels(f, reg, by, names, buf, k)
        BY <1>2
    <2> DEFINE e == Deeper(f[k])
           g == More(f, k, e)
    <2> HIDE DEF e
    <2>2. g = [l \in 0..(k + 1) |-> g[l]]
        BY MoreIs
    <2>3. g[k + 1] = e /\ \A l \in 0..k : g[l] = f[l]
        BY MoreIs
    <2> HIDE DEF g
    <2>4. ASSUME NEW l \in 0..(k + 1) PROVE g[l] = IF l = 0 THEN LowestLevel ELSE Deeper(g[l - 1])
        <3>1. CASE l \in 0..k
            <4>1. l # 0 => g[l - 1] = f[l - 1]
                BY <2>3, <3>1
            <4>2. f[l] = IF l = 0 THEN LowestLevel ELSE Deeper(f[l - 1])
                BY <2>1, <3>1 DEF Levels
            <4> QED BY <2>3, <3>1, <4>1, <4>2
        <3>2. CASE l = k + 1
            <4>1. l # 0 /\ g[l - 1] = f[k]
                BY <2>3, <3>2
            <4> QED BY <2>3, <3>2, <4>1 DEF e
        <3> QED BY <3>1, <3>2
    <2>5. Levels(g, reg, by, names, buf, k + 1)
        BY <2>2, <2>4 DEF Levels
    <2> QED BY <2>5
<1>3. Nat \subseteq G
    <2> HIDE DEF G
    <2> QED BY <1>1, <1>2, NatAll
<1> QED BY <1>3

Writes(f, names) == f = [d \in 0..Depth |-> IF d = 0 THEN [x \in Jobs |-> <<Thrown>>] ELSE WriteLevel(names, f[d - 1])]
Reads(f, reg, buf) == f = [d \in 0..Depth |-> IF d = 0 THEN [x \in Places |-> Failed] ELSE ReadLevel(reg, buf, f[d - 1])]
FitsAll(f, names) == f = [d \in 0..Depth |-> IF d = 0 THEN [x \in Jobs |-> FALSE] ELSE FitLevel(names, f[d - 1])]
Sees(f, names) == f = [d \in 0..Depth |-> IF d = 0 THEN [x \in Jobs |-> Nothing] ELSE SeenLevel(names, f[d - 1])]

\* The four level functions exist and unfold, each on its own.
LEMMA LevelsAre ==
    ASSUME NEW reg, NEW by, NEW names, NEW buf
    PROVE  /\ Writes(Written(by), by) /\ Reads(Understand(reg, buf), reg, buf)
           /\ FitsAll(Fitting(names), names) /\ Sees(Seeing(names), names)
<1>0. Depth \in Nat
    BY CodecAssumption
<1>1. PICK f : Levels(f, reg, by, names, buf, Depth)
    BY <1>0, LevelsExist
<1>2. \A d \in 0..Depth : f[d] = IF d = 0 THEN LowestLevel ELSE NextLevel(reg, by, names, buf, f[d - 1])
    BY <1>1 DEF Levels
<1>15. \A l : LET n == NextLevel(reg, by, names, buf, l)
               IN /\ n.write = WriteLevel(by, l.write) /\ n.read = ReadLevel(reg, buf, l.read)
                  /\ n.fit = FitLevel(names, l.fit) /\ n.see = SeenLevel(names, l.see)
    BY DEF NextLevel
<1>16. \A d \in 0..Depth : d # 0 => f[d] = NextLevel(reg, by, names, buf, f[d - 1])
    BY <1>2
<1>3. \E g : Writes(g, by)
    <2> DEFINE g == [d \in 0..Depth |-> f[d].write]
    <2>1. g = [d \in 0..Depth |-> g[d]] /\ \A d \in 0..Depth : g[d] = f[d].write
        OBVIOUS
    <2> HIDE DEF g
    <2>2. ASSUME NEW d \in 0..Depth
          PROVE  g[d] = IF d = 0 THEN [x \in Jobs |-> <<Thrown>>] ELSE WriteLevel(by, g[d - 1])
        <3>1. d # 0 => d - 1 \in 0..Depth
            BY <1>0
        <3>2. d # 0 => g[d - 1] = f[d - 1].write
            BY <2>1, <3>1
        <3>3. LowestLevel.write = [x \in Jobs |-> <<Thrown>>]
            BY DEF LowestLevel
        <3>4. d # 0 => f[d].write = WriteLevel(by, f[d - 1].write)
            BY <1>15, <1>16, Zenon
        <3> QED BY <1>2, <2>1, <3>2, <3>3, <3>4
    <2>3. Writes(g, by)
        BY <2>1, <2>2 DEF Writes
    <2> QED BY <2>3
<1>4. \E g : Reads(g, reg, buf)
    <2> DEFINE g == [d \in 0..Depth |-> f[d].read]
    <2>1. g = [d \in 0..Depth |-> g[d]] /\ \A d \in 0..Depth : g[d] = f[d].read
        OBVIOUS
    <2> HIDE DEF g
    <2>2. ASSUME NEW d \in 0..Depth
          PROVE  g[d] = IF d = 0 THEN [x \in Places |-> Failed] ELSE ReadLevel(reg, buf, g[d - 1])
        <3>1. d # 0 => d - 1 \in 0..Depth
            BY <1>0
        <3>2. d # 0 => g[d - 1] = f[d - 1].read
            BY <2>1, <3>1
        <3>3. LowestLevel.read = [x \in Places |-> Failed]
            BY DEF LowestLevel
        <3>4. d # 0 => f[d].read = ReadLevel(reg, buf, f[d - 1].read)
            BY <1>15, <1>16, Zenon
        <3> QED BY <1>2, <2>1, <3>2, <3>3, <3>4
    <2>3. Reads(g, reg, buf)
        BY <2>1, <2>2 DEF Reads
    <2> QED BY <2>3
<1>5. \E g : FitsAll(g, names)
    <2> DEFINE g == [d \in 0..Depth |-> f[d].fit]
    <2>1. g = [d \in 0..Depth |-> g[d]] /\ \A d \in 0..Depth : g[d] = f[d].fit
        OBVIOUS
    <2> HIDE DEF g
    <2>2. ASSUME NEW d \in 0..Depth
          PROVE  g[d] = IF d = 0 THEN [x \in Jobs |-> FALSE] ELSE FitLevel(names, g[d - 1])
        <3>1. d # 0 => d - 1 \in 0..Depth
            BY <1>0
        <3>2. d # 0 => g[d - 1] = f[d - 1].fit
            BY <2>1, <3>1
        <3>3. LowestLevel.fit = [x \in Jobs |-> FALSE]
            BY DEF LowestLevel
        <3>4. d # 0 => f[d].fit = FitLevel(names, f[d - 1].fit)
            BY <1>15, <1>16, Zenon
        <3> QED BY <1>2, <2>1, <3>2, <3>3, <3>4
    <2>3. FitsAll(g, names)
        BY <2>1, <2>2 DEF FitsAll
    <2> QED BY <2>3
<1>6. \E g : Sees(g, names)
    <2> DEFINE g == [d \in 0..Depth |-> f[d].see]
    <2>1. g = [d \in 0..Depth |-> g[d]] /\ \A d \in 0..Depth : g[d] = f[d].see
        OBVIOUS
    <2> HIDE DEF g
    <2>2. ASSUME NEW d \in 0..Depth
          PROVE  g[d] = IF d = 0 THEN [x \in Jobs |-> Nothing] ELSE SeenLevel(names, g[d - 1])
        <3>1. d # 0 => d - 1 \in 0..Depth
            BY <1>0
        <3>2. d # 0 => g[d - 1] = f[d - 1].see
            BY <2>1, <3>1
        <3>3. LowestLevel.see = [x \in Jobs |-> Nothing]
            BY DEF LowestLevel
        <3>4. d # 0 => f[d].see = SeenLevel(names, f[d - 1].see)
            BY <1>15, <1>16, Zenon
        <3> QED BY <1>2, <2>1, <3>2, <3>3, <3>4
    <2>3. Sees(g, names)
        BY <2>1, <2>2 DEF Sees
    <2> QED BY <2>3
<1>7. Written(by) = CHOOSE g : Writes(g, by)
    BY Zenon DEF Written, Writes, WriteLevel
<1>8. Understand(reg, buf) = CHOOSE g : Reads(g, reg, buf)
    BY Zenon DEF Understand, Reads, ReadLevel
<1>9. Fitting(names) = CHOOSE g : FitsAll(g, names)
    BY Zenon DEF Fitting, FitsAll, FitLevel
<1>10. Seeing(names) = CHOOSE g : Sees(g, names)
    BY Zenon DEF Seeing, Sees, SeenLevel
<1>11. Writes(Written(by), by)
    BY <1>3, <1>7, Zenon
<1>12. Reads(Understand(reg, buf), reg, buf)
    BY <1>4, <1>8, Zenon
<1>13. FitsAll(Fitting(names), names)
    BY <1>5, <1>9, Zenon
<1>14. Sees(Seeing(names), names)
    BY <1>6, <1>10, Zenon
<1> QED BY <1>11, <1>12, <1>13, <1>14

\* What each level makes of a type and a value, of the level below.
LEMMA LevelIs ==
    ASSUME NEW by, NEW names, NEW d \in 0..(Depth - 1), NEW t \in Types, NEW v \in Values
    PROVE  /\ Written(by)[d + 1][<<t, v>>] = WriteType(by, Written(by)[d], t, v)
           /\ Fitting(names)[d + 1][<<t, v>>] = Fit(names, Fitting(names)[d], t, v)
           /\ Fitting(names)[0][<<t, v>>] = FALSE
           /\ Seeing(names)[d + 1][<<t, v>>] = SeenType(names, Seeing(names)[d], t, v)
<1>1. Depth \in Nat /\ d + 1 \in 0..Depth /\ (d + 1) - 1 = d /\ d + 1 # 0 /\ 0 \in 0..Depth
    BY CodecAssumption
<1>2. <<t, v>> \in Jobs /\ <<t, v>>[1] = t /\ <<t, v>>[2] = v
    BY DEF Jobs
<1>4. Written(by)[d + 1] = WriteLevel(by, Written(by)[d])
    BY <1>1, LevelsAre DEF Writes
<1>6. Fitting(names)[d + 1] = FitLevel(names, Fitting(names)[d]) /\ Fitting(names)[0] = [x \in Jobs |-> FALSE]
    <2>1. FitsAll(Fitting(names), names)
        BY LevelsAre
    <2>2. Fitting(names)[d + 1] = FitLevel(names, Fitting(names)[d])
        BY <1>1, <2>1 DEF FitsAll
    <2>3. Fitting(names)[0] = [x \in Jobs |-> FALSE]
        BY <1>1, <2>1, Zenon DEF FitsAll
    <2> QED BY <2>2, <2>3
<1>7. Seeing(names)[d + 1] = SeenLevel(names, Seeing(names)[d])
    BY <1>1, LevelsAre DEF Sees
<1>8. Written(by)[d + 1][<<t, v>>] = WriteType(by, Written(by)[d], t, v)
    BY <1>2, <1>4, Zenon DEF WriteLevel
<1>10. Fitting(names)[d + 1][<<t, v>>] = Fit(names, Fitting(names)[d], t, v) /\ Fitting(names)[0][<<t, v>>] = FALSE
    BY <1>2, <1>6, Zenon DEF FitLevel
<1>11. Seeing(names)[d + 1][<<t, v>>] = SeenType(names, Seeing(names)[d], t, v)
    BY <1>2, <1>7, Zenon DEF SeenLevel
<1> QED BY <1>8, <1>10, <1>11

LEMMA ReadLevelIs ==
    ASSUME NEW reg, NEW buf, NEW d \in 0..(Depth - 1), NEW t \in Types
    PROVE  \A pos \in Nat : Understand(reg, buf)[d + 1][<<t, pos>>]
                              = ReadType(reg, Understand(reg, buf)[d], buf, t, pos)
<1>1. Depth \in Nat /\ d + 1 \in 0..Depth /\ (d + 1) - 1 = d /\ d + 1 # 0
    BY CodecAssumption
<1>2. \A pos \in Nat : <<t, pos>> \in Places /\ <<t, pos>>[1] = t /\ <<t, pos>>[2] = pos
    BY DEF Places
<1>3. Understand(reg, buf)[d + 1] = ReadLevel(reg, buf, Understand(reg, buf)[d])
    BY <1>1, LevelsAre DEF Reads
<1> QED BY <1>2, <1>3, Zenon DEF ReadLevel

(***************************************************************************)
(* What is written at a level is bytes, and read from them as it is seen.  *)
(***************************************************************************)
\* Wherever the buffer has what was written, it is read as the value, up to its end.
ReadBack(buf, t, s, read, v) ==
    s \in Seq(Int) /\ \A pos : Holds(buf, pos, s) => read[<<t, pos>>] = Read(pos + Len(s), v)

Back(buf, types, write, read, fit, see) ==
    \A t \in types, v \in Values :
        fit[<<t, v>>] => ReadBack(buf, t, write[<<t, v>>], read, see[<<t, v>>])

LEMMA UInt32Is ==
    ASSUME NEW n \in Int
    PROVE  UInt32(n) \in Seq(Int) /\ Len(UInt32(n)) = 4
<1>1. Sized(UInt32(n), 4)
    BY BytesOf DEF UInt32
<1> QED BY <1>1 DEF Sized

LEMMA UInt32Back ==
    ASSUME NEW buf \in Seq(Int), NEW pos, NEW n \in Int, Unsigned(n, 4), Holds(buf, pos, UInt32(n))
    PROVE  ReadUInt(buf, pos, 4) = Read(pos + 4, Num(n)) /\ pos + 4 \in Nat \ {0} /\ pos \in Nat \ {0}
<1>1. pos \in Nat \ {0}
    BY DEF Holds
<1>2. Holds(buf, pos, Digits(n, 256, 4))
    BY DEF UInt32
<1> QED BY <1>1, <1>2, UIntBack

NextItem(deeper, t, before) ==
    LET item == deeper[<<t, before.pos>>]
    IN IF before.pos = 0 THEN before
       ELSE Read(item.pos, Arr(Append(before.v.items, item.v)))

ItemsRead(f, deeper, t, size) ==
    f = [k \in 0..size.v.n |-> IF k = 0 THEN Read(size.pos, Arr(<<>>)) ELSE NextItem(deeper, t, f[k - 1])]

LEMMA ReadItemsIs ==
    ASSUME NEW deeper, NEW buf, NEW t, NEW pos
    PROVE  ReadItems(deeper, buf, t, pos) =
               LET size == ReadUInt(buf, pos, 4)
               IN IF size.pos = 0 THEN Failed ELSE (CHOOSE f : ItemsRead(f, deeper, t, size))[size.v.n]
BY Zenon DEF ReadItems, ItemsRead, NextItem

\* By induction over the items read, those of a vector are read back.
LEMMA ItemsBack ==
    ASSUME NEW buf \in Seq(Int), NEW types, NEW write, NEW read, NEW fit, NEW see,
           Back(buf, types, write, read, fit, see), NEW t \in types, NEW items \in Seq(Values),
           FitItems(fit, t, items)
    PROVE  /\ WriteItems(write, t, items) \in Seq(Int)
           /\ \A pos : Holds(buf, pos, WriteItems(write, t, items)) =>
                ReadItems(read, buf, t, pos)
                    = Read(pos + Len(WriteItems(write, t, items)), SeenItems(see, t, items))
<1> DEFINE n == Len(items)
           s == [i \in DOMAIN items |-> write[<<t, items[i]>>]]
           sees == [i \in DOMAIN items |-> see[<<t, items[i]>>]]
           bytes == WriteItems(write, t, items)
<1>1. n \in Nat /\ DOMAIN items = 1..n /\ \A i \in 1..n : items[i] \in Values
    OBVIOUS
<1>2. Unsigned(n, 4) /\ \A i \in 1..n : fit[<<t, items[i]>>]
    BY <1>1 DEF FitItems
<1>3. bytes = UInt32(n) \o FlattenSeq(s)
    BY DEF WriteItems
<1>4. Arr(sees) = SeenItems(see, t, items)
    BY DEF SeenItems
<1>5. \A i \in 1..n : s[i] = write[<<t, items[i]>>] /\ sees[i] = see[<<t, items[i]>>]
    BY <1>1
<1>6. s = [i \in 1..n |-> s[i]] /\ sees = [i \in 1..n |-> sees[i]]
    BY <1>1
<1> HIDE DEF n, s, sees, bytes
<1>7. \A i \in 1..n : ReadBack(buf, t, s[i], read, sees[i])
    BY <1>1, <1>2, <1>5 DEF Back
<1>8. s \in Seq(Seq(Int)) /\ Len(s) = n
    <2>1. \A i \in 1..n : s[i] \in Seq(Int)
        BY <1>7 DEF ReadBack
    <2>2. s \in [1..n -> Seq(Int)]
        BY <1>6, <2>1
    <2> QED BY <1>1, <2>2
<1>9. UInt32(n) \in Seq(Int) /\ Len(UInt32(n)) = 4 /\ FlattenSeq(s) \in Seq(Int)
    BY <1>1, <1>8, UInt32Is, FlattenInts
<1>10. bytes \in Seq(Int) /\ Len(bytes) = 4 + Len(FlattenSeq(s))
    <2> DEFINE a == UInt32(n)
               b == FlattenSeq(s)
    <2>1. bytes = a \o b /\ a \in Seq(Int) /\ b \in Seq(Int) /\ Len(a) = 4
        BY <1>3, <1>9
    <2> HIDE DEF a, b
    <2>2. a \o b \in Seq(Int) /\ Len(a \o b) = Len(a) + Len(b)
        BY <2>1, ConcatProperties
    <2>3. bytes \in Seq(Int) /\ Len(bytes) = 4 + Len(b)
        BY <2>1, <2>2
    <2> QED BY <2>3 DEF b
<1>11. ASSUME NEW pos, Holds(buf, pos, bytes)
       PROVE  ReadItems(read, buf, t, pos) = Read(pos + Len(bytes), Arr(sees))
    <2> DEFINE size == ReadUInt(buf, pos, 4)
               f == CHOOSE g : ItemsRead(g, read, t, size)
    <2>1. Holds(buf, pos, UInt32(n)) /\ Holds(buf, pos + 4, FlattenSeq(s))
        BY <1>3, <1>9, <1>11, HoldsConcat
    <2>2. size = Read(pos + 4, Num(n)) /\ pos + 4 \in Nat \ {0} /\ pos \in Nat \ {0}
        BY <1>1, <1>2, <2>1, UInt32Back
    <2>3. PICK start : Pieces(buf, pos + 4, s, start)
        BY <1>8, <2>1, PiecesExist
    <2>4. /\ start[0] = pos + 4 /\ start[n] = (pos + 4) + Len(FlattenSeq(s))
          /\ \A i \in 0..n : start[i] \in Nat \ {0}
          /\ \A i \in 0..(n - 1) : Holds(buf, start[i], s[i + 1]) /\ start[i + 1] = start[i] + Len(s[i + 1])
        BY <1>8, <2>3 DEF Pieces
    <2>5. size.pos = pos + 4 /\ size.v.n = n
        BY <2>2 DEF Read, Num
    <2>6. ReadItems(read, buf, t, pos) = f[n]
        BY <2>2, <2>5, ReadItemsIs
    <2> DEFINE Value(k) == Read(start[k], Arr([i \in 1..k |-> sees[i]]))
    <2>7. ASSUME NEW k \in 1..n PROVE NextItem(read, t, Value(k - 1)) = Value(k)
        <3> DEFINE before == Value(k - 1)
                   item == read[<<t, before.pos>>]
        <3>1. k - 1 \in 0..(n - 1) /\ k - 1 \in 0..n /\ (k - 1) + 1 = k /\ k - 1 \in Nat
            BY <1>1
        <3>2. before.pos = start[k - 1] /\ before.pos # 0 /\ before.v.items = [i \in 1..(k - 1) |-> sees[i]]
            BY <2>4, <3>1 DEF Read, Arr
        <3>3. Holds(buf, start[k - 1], s[k]) /\ start[k] = start[k - 1] + Len(s[k])
            BY <2>4, <3>1
        <3>4. item = Read(start[k], sees[k])
            <4>1. ReadBack(buf, t, s[k], read, sees[k])
                BY <1>7
            <4>2. read[<<t, start[k - 1]>>] = Read(start[k - 1] + Len(s[k]), sees[k])
                BY <3>3, <4>1, Zenon DEF ReadBack
            <4>3. item = read[<<t, start[k - 1]>>]
                BY <3>2
            <4> QED BY <3>3, <4>2, <4>3, Zenon
        <3>5. Append([i \in 1..(k - 1) |-> sees[i]], sees[k]) = [i \in 1..k |-> sees[i]]
            BY <3>1
        <3>6. item.pos = start[k] /\ item.v = sees[k]
            BY <3>4 DEF Read
        <3> HIDE DEF before, item
        <3>7. NextItem(read, t, before) = Read(item.pos, Arr(Append(before.v.items, item.v)))
            BY <3>2 DEF NextItem, item
        <3> QED BY <3>2, <3>5, <3>6, <3>7 DEF before
    <2>8. Value(0) = Read(size.pos, Arr(<<>>))
        <3>1. [i \in 1..0 |-> sees[i]] = <<>>
            OBVIOUS
        <3> QED BY <2>4, <2>5, <3>1
    <2>9. ItemsRead(f, read, t, size)
        <3>1. ItemsRead([k \in 0..n |-> Value(k)], read, t, size)
            <4> DEFINE g == [k \in 0..n |-> Value(k)]
            <4>1. \A k \in 0..n : g[k] = Value(k)
                OBVIOUS
            <4>2. g = [k \in 0..n |-> g[k]]
                OBVIOUS
            <4> HIDE DEF g, Value
            <4>3. ASSUME NEW k \in 0..n
                  PROVE  g[k] = IF k = 0 THEN Read(size.pos, Arr(<<>>)) ELSE NextItem(read, t, g[k - 1])
                <5>1. CASE k = 0
                    BY <2>8, <4>1, <5>1
                <5>2. CASE k # 0
                    <6>1. k \in 1..n /\ k - 1 \in 0..n
                        BY <1>1, <5>2
                    <6> QED BY <2>7, <4>1, <5>2, <6>1
                <5> QED BY <5>1, <5>2
            <4>4. ItemsRead(g, read, t, size)
                BY <2>5, <4>2, <4>3 DEF ItemsRead
            <4> QED BY <4>4 DEF g
        <3>2. \E g : ItemsRead(g, read, t, size)
            BY <3>1, Zenon
        <3> QED BY <3>2, Zenon
    <2> HIDE DEF f, size, Value
    <2>10. \A k \in 0..n : f[k] = IF k = 0 THEN Read(size.pos, Arr(<<>>)) ELSE NextItem(read, t, f[k - 1])
        BY <2>5, <2>9 DEF ItemsRead
    <2>11. f[n] = Value(n)
        <3> DEFINE G == {k \in Nat : k <= n => f[k] = Value(k)}
        <3>1. 0 \in G
            BY <1>1, <2>8, <2>10
        <3>2. ASSUME NEW k \in Nat, k \in G PROVE k + 1 \in G
            <4> SUFFICES ASSUME k + 1 <= n PROVE f[k + 1] = Value(k + 1)
                OBVIOUS
            <4>1. k + 1 \in 0..n /\ k + 1 \in 1..n /\ (k + 1) - 1 = k /\ k + 1 # 0 /\ f[k] = Value(k)
                BY <1>1, <3>2
            <4> QED BY <2>7, <2>10, <4>1
        <3>3. Nat \subseteq G
            <4> HIDE DEF G
            <4> QED BY <3>1, <3>2, NatAll
        <3> QED BY <1>1, <3>3
    <2>12. Value(n) = Read(pos + Len(bytes), Arr(sees))
        <3>1. start[n] = pos + Len(bytes)
            <4>1. Len(FlattenSeq(s)) \in Nat
                BY <1>9
            <4> QED BY <1>10, <2>2, <2>4, <4>1
        <3> QED BY <1>6, <3>1 DEF Value
    <2> QED BY <2>6, <2>11, <2>12
<1> QED BY <1>4, <1>10, <1>11 DEF bytes

\* Parameters with names of their own, masks first, of the types.
IsParams(params, types) ==
    /\ Len(params) \in Nat /\ DOMAIN params = 1..Len(params)
    /\ \A i, j \in DOMAIN params : params[i].name = params[j].name => i = j
    /\ MasksFirst(params)
    /\ \A i \in DOMAIN params : Inner(params[i]) \in types

\* A mask is not conditional itself.
LEMMA FlagIsNoMask ==
    ASSUME NEW types, NEW params, IsParams(params, types), NEW i \in DOMAIN params,
           params[i].type.kind = "flag"
    PROVE  params[i].name \notin BitmaskFields(params)
<1> SUFFICES ASSUME params[i].name \in BitmaskFields(params) PROVE FALSE
    OBVIOUS
<1>1. \A p \in ToSet(params) : \E j \in DOMAIN params : p = params[j]
    BY DEF ToSet
<1>2. CASE \E q \in ToSet(params) : q.type.kind = "flags" /\ q.name = params[i].name
    <2>1. PICK j \in DOMAIN params : params[j].type.kind = "flags" /\ params[j].name = params[i].name
        BY <1>1, <1>2
    <2>2. i = j
        BY <2>1 DEF IsParams
    <2> QED BY <2>1, <2>2
<1>3. CASE \E q \in ToSet(params) : q.type.kind = "flag" /\ q.type.field = params[i].name
    <2>1. PICK k \in DOMAIN params : params[k].type.kind = "flag" /\ params[k].type.field = params[i].name
        BY <1>1, <1>3
    <2>2. PICK j \in 1..(k - 1) : params[j].name = params[k].type.field /\ params[j].type.kind # "flag"
        BY <2>1 DEF IsParams, MasksFirst
    <2>3. j \in DOMAIN params
        BY <2>2 DEF IsParams
    <2>4. i = j
        BY <2>1, <2>2, <2>3 DEF IsParams
    <2> QED BY <2>2, <2>4
<1> QED BY <1>2, <1>3 DEF BitmaskFields

\* What is seen of an object up to its parameter i.
SeenNames(params, fields, i) ==
    {params[j].name : j \in {k \in 1..i : params[k] \in There(params, fields)}}
ParamNamed(params, name) == CHOOSE p \in ToSet(params) : p.name = name
SeenTo(see, params, fields, i) ==
    [n \in SeenNames(params, fields, i) |-> SeenField(see, params, fields, ParamNamed(params, n))]

LEMMA NamedIs ==
    ASSUME NEW types, NEW params, IsParams(params, types), NEW i \in DOMAIN params
    PROVE  params[i] \in ToSet(params) /\ ParamNamed(params, params[i].name) = params[i]
<1>1. params[i] \in ToSet(params)
    BY DEF ToSet
<1>2. \A p \in ToSet(params) : p.name = params[i].name => p = params[i]
    BY DEF ToSet, IsParams
<1> QED BY <1>1, <1>2 DEF ParamNamed

LEMMA ThereIs ==
    ASSUME NEW types, NEW params, NEW fields, IsParams(params, types), NEW i \in DOMAIN params
    PROVE  params[i] \in There(params, fields) <=>
               (params[i].type.kind = "flag" => params[i].type.bit \in Bits(params, fields, params[i].type.field))
BY NamedIs DEF There

\* What is seen up to a field adds it to what is seen before it, if it is there.
SeenStep(see, params, fields, i) ==
    LET before == SeenTo(see, params, fields, i - 1)
    IN IF params[i] \in There(params, fields)
       THEN SeenTo(see, params, fields, i)
             = [n \in DOMAIN before \cup {params[i].name} |->
                 IF n = params[i].name THEN SeenField(see, params, fields, params[i]) ELSE before[n]]
       ELSE SeenTo(see, params, fields, i) = before

LEMMA SeenNext ==
    ASSUME NEW types, NEW params, IsParams(params, types), NEW see, NEW fields, NEW i \in DOMAIN params
    PROVE  SeenStep(see, params, fields, i)
<1> DEFINE name == params[i].name
           new == SeenNames(params, fields, i)
           old == SeenNames(params, fields, i - 1)
           Value(n) == SeenField(see, params, fields, ParamNamed(params, n))
<1>1. i \in Nat \ {0} /\ 1..i = (1..(i - 1)) \cup {i}
    BY DEF IsParams
<1>2. params[i] \in There(params, fields) => new = old \cup {name}
    BY <1>1 DEF SeenNames
<1>3. params[i] \notin There(params, fields) => new = old
    BY <1>1 DEF SeenNames
<1>4. Value(name) = SeenField(see, params, fields, params[i])
    BY NamedIs
<1>5. /\ SeenTo(see, params, fields, i) = [n \in new |-> Value(n)]
      /\ SeenTo(see, params, fields, i - 1) = [n \in old |-> Value(n)]
    BY DEF SeenTo
<1> HIDE DEF new, old, Value
<1> QED BY <1>2, <1>3, <1>4, <1>5 DEF SeenStep

LEMMA SeenAll ==
    ASSUME NEW types, NEW params, IsParams(params, types), NEW see, NEW fields
    PROVE  /\ SeenTo(see, params, fields, 0) = <<>>
           /\ SeenTo(see, params, fields, Len(params)) = SeenFields(see, params, fields)
<1>1. SeenNames(params, fields, 0) = {}
    BY DEF SeenNames
<1>2. SeenTo(see, params, fields, 0) = <<>>
    BY <1>1 DEF SeenTo
<1>3. SeenNames(params, fields, Len(params)) = {p.name : p \in There(params, fields)}
    BY DEF SeenNames, There, ToSet, IsParams
<1>4. SeenTo(see, params, fields, Len(params)) = SeenFields(see, params, fields)
    BY <1>3, Zenon DEF SeenTo, SeenFields, ParamNamed
<1> QED BY <1>2, <1>4

\* The mask that was read before a parameter has the bits of those that are there.
LEMMA MaskSeen ==
    ASSUME NEW types, NEW params, IsParams(params, types), NEW see, NEW fields, NEW i \in DOMAIN params,
           params[i].type.kind = "flag"
    PROVE  Divided(MaskIn(SeenTo(see, params, fields, i - 1), params[i].type.field), 2)[params[i].type.bit] % 2 = 1
               <=> params[i] \in There(params, fields)
<1> DEFINE field == params[i].type.field
           seen == SeenTo(see, params, fields, i - 1)
           bits == Bits(params, fields, field)
<1>1. PICK j \in 1..(i - 1) : params[j].name = field /\ params[j].type.kind # "flag"
    BY DEF IsParams, MasksFirst
<1>2. j \in DOMAIN params /\ params[i].type.bit \in 0..31
    BY <1>1 DEF IsParams, MasksFirst
<1>3. params[j] \in There(params, fields)
    BY <1>1, <1>2, ThereIs
<1>4. field \in SeenNames(params, fields, i - 1)
    BY <1>1, <1>3 DEF SeenNames
<1>5. field \in BitmaskFields(params)
    BY NamedIs DEF BitmaskFields
<1>6. ParamNamed(params, field) = params[j]
    BY <1>1, <1>2, NamedIs
<1>7. field \in DOMAIN seen /\ seen[field] = SeenField(see, params, fields, params[j])
    BY <1>4, <1>6 DEF SeenTo
<1>8. seen[field] = Num(Mask(bits))
    BY <1>1, <1>5, <1>7 DEF SeenField
<1>9. MaskIn(seen, field) = Mask(bits)
    BY <1>7, <1>8 DEF MaskIn, Num
<1>10. params[i] \in There(params, fields) <=> params[i].type.bit \in bits
    BY ThereIs
<1> HIDE DEF seen, bits, field
<1>11. (Divided(Mask(bits), 2)[params[i].type.bit] % 2 = 1) <=> params[i].type.bit \in bits
    BY <1>2, MaskIs
<1>12. (Divided(MaskIn(seen, field), 2)[params[i].type.bit] % 2 = 1) <=> params[i].type.bit \in bits
    BY <1>9, <1>11
<1> QED BY <1>10, <1>12 DEF seen, bits, field

\* The fields are read one after the other.
FieldsRead(f, deeper, buf, params, pos) ==
    f = [i \in 0..Len(params) |->
            IF i = 0 THEN Read(pos, <<>>) ELSE ReadField(deeper, buf, params, params[i], f[i - 1])]

LEMMA ReadFieldsIs ==
    ASSUME NEW deeper, NEW buf, NEW params, NEW pos
    PROVE  ReadFields(deeper, buf, params, pos)
               = (CHOOSE f : FieldsRead(f, deeper, buf, params, pos))[Len(params)]
BY Zenon DEF ReadFields, FieldsRead

\* Each parameter is written as bytes, and read from them by who has read the others.
LEMMA FieldBack ==
    ASSUME NEW buf \in Seq(Int), NEW types, NEW write, NEW read, NEW fit, NEW see,
           Back(buf, types, write, read, fit, see), NEW params, IsParams(params, types),
           NEW fields, \A name : Field(fields, name) \in Values, FitFields(fit, params, fields),
           NEW i \in DOMAIN params
    PROVE  LET s == WriteField(write, params, fields, params[i])
           IN /\ s \in Seq(Int)
              /\ \A pos : Holds(buf, pos, s) =>
                    ReadField(read, buf, params, params[i], Read(pos, SeenTo(see, params, fields, i - 1)))
                        = Read(pos + Len(s), SeenTo(see, params, fields, i))
<1> DEFINE p == params[i]
           s == WriteField(write, params, fields, p)
           seen == SeenTo(see, params, fields, i - 1)
           value == SeenField(see, params, fields, p)
           With(got) == Read(got.pos, [n \in DOMAIN seen \cup {p.name} |->
                                           IF n = p.name THEN got.v ELSE seen[n]])
           mask == Mask(Bits(params, fields, p.name))
           bit == Divided(MaskIn(seen, p.type.field), 2)[p.type.bit] % 2
<1>1. p \in ToSet(params) /\ Inner(p) \in types /\ Field(fields, p.name) \in Values
    BY NamedIs DEF IsParams
<1>2. p \in There(params, fields) <=>
          (p.type.kind = "flag" => p.type.bit \in Bits(params, fields, p.type.field))
    BY ThereIs
<1>3. p.type.kind = "flag" => p.name \notin BitmaskFields(params) /\ (bit = 1 <=> p \in There(params, fields))
    BY FlagIsNoMask, MaskSeen
<1>3a. SeenStep(see, params, fields, i)
    BY SeenNext
<1>4. p \in There(params, fields) =>
          SeenTo(see, params, fields, i) = [n \in DOMAIN seen \cup {p.name} |-> IF n = p.name THEN value ELSE seen[n]]
    BY <1>3a DEF SeenStep
<1>5. p \notin There(params, fields) => SeenTo(see, params, fields, i) = seen
    BY <1>3a DEF SeenStep
<1>6. p \in There(params, fields) =>
          p.name \in BitmaskFields(params) \/ fit[<<Inner(p), Field(fields, p.name)>>]
    BY DEF FitFields
<1>7. s = IF p.name \in BitmaskFields(params) THEN UInt32(mask)
          ELSE IF p.type.kind # "flag" THEN write[<<p.type, Field(fields, p.name)>>]
          ELSE IF p.type.bit \in Bits(params, fields, p.type.field)
               THEN write[<<p.type.inner, Field(fields, p.name)>>]
          ELSE <<>>
    BY DEF WriteField
<1>8. value = IF p.name \in BitmaskFields(params) THEN Num(mask) ELSE see[<<Inner(p), Field(fields, p.name)>>]
    BY DEF SeenField
<1>9. Inner(p) = IF p.type.kind = "flag" THEN p.type.inner ELSE p.type
    BY DEF Inner
<1>10. ASSUME NEW pos, pos # 0
       PROVE  ReadField(read, buf, params, p, Read(pos, seen))
                = IF p.name \in BitmaskFields(params) THEN With(ReadUInt(buf, pos, 4))
                  ELSE IF p.type.kind # "flag" THEN With(read[<<p.type, pos>>])
                  ELSE IF bit = 1 THEN With(read[<<p.type.inner, pos>>])
                  ELSE Read(pos, seen)
    <2>1. Read(pos, seen).pos = pos /\ Read(pos, seen).v = seen
        BY DEF Read
    <2> HIDE DEF seen, p
    <2> QED BY <1>10, <2>1 DEF ReadField
<1>11. ASSUME NEW pos, Holds(buf, pos, s) PROVE pos \in Nat /\ pos # 0
    BY <1>11 DEF Holds
<1>12. ASSUME p \in There(params, fields), NEW got, NEW end, got = Read(end, value)
       PROVE  With(got) = Read(end, SeenTo(see, params, fields, i))
    <2>1. got.pos = end /\ got.v = value
        BY <1>12 DEF Read
    <2> QED BY <1>4, <1>12, <2>1, Zenon
<1> HIDE DEF p, s, seen, value, With, mask, bit
<1>13. CASE p.name \in BitmaskFields(params)
    <2>1. p \in There(params, fields)
        BY <1>2, <1>3, <1>13
    <2>2. mask \in Int /\ Unsigned(mask, 4)
        BY MaskIs DEF mask
    <2>3. s = UInt32(mask) /\ s \in Seq(Int) /\ Len(s) = 4 /\ value = Num(mask)
        BY <1>7, <1>8, <1>13, <2>2, UInt32Is
    <2>4. ASSUME NEW pos, Holds(buf, pos, s)
          PROVE  ReadField(read, buf, params, p, Read(pos, seen)) = Read(pos + Len(s), SeenTo(see, params, fields, i))
        <3>1. ReadUInt(buf, pos, 4) = Read(pos + 4, value)
            BY <2>2, <2>3, <2>4, UInt32Back
        <3>2. With(ReadUInt(buf, pos, 4)) = Read(pos + 4, SeenTo(see, params, fields, i))
            BY <1>12, <2>1, <3>1
        <3> QED BY <1>10, <1>11, <1>13, <2>3, <2>4, <3>2
    <2> QED BY <2>3, <2>4 DEF p, s, seen
<1>14. CASE p.name \notin BitmaskFields(params) /\ p \in There(params, fields)
    <2>1. fit[<<Inner(p), Field(fields, p.name)>>]
        BY <1>6, <1>14
    <2>2. s = write[<<Inner(p), Field(fields, p.name)>>]
        BY <1>2, <1>7, <1>9, <1>14
    <2>3. ReadBack(buf, Inner(p), s, read, value)
        BY <1>1, <1>8, <1>14, <2>1, <2>2 DEF Back
    <2>4. ASSUME NEW pos, Holds(buf, pos, s)
          PROVE  ReadField(read, buf, params, p, Read(pos, seen)) = Read(pos + Len(s), SeenTo(see, params, fields, i))
        <3>1. read[<<Inner(p), pos>>] = Read(pos + Len(s), value)
            BY <2>3, <2>4 DEF ReadBack
        <3>2. With(read[<<Inner(p), pos>>]) = Read(pos + Len(s), SeenTo(see, params, fields, i))
            BY <1>12, <1>14, <3>1
        <3>3. ReadField(read, buf, params, p, Read(pos, seen)) = With(read[<<Inner(p), pos>>])
            BY <1>3, <1>9, <1>10, <1>11, <1>14, <2>4
        <3> QED BY <3>2, <3>3
    <2> QED BY <2>3, <2>4 DEF p, s, seen, ReadBack
<1>15. CASE p \notin There(params, fields)
    <2>1. p.type.kind = "flag" /\ p.name \notin BitmaskFields(params) /\ bit # 1 /\ s = <<>>
        BY <1>2, <1>3, <1>7, <1>15
    <2>2. s \in Seq(Int) /\ Len(s) = 0
        BY <2>1
    <2>3. ASSUME NEW pos, Holds(buf, pos, s)
          PROVE  ReadField(read, buf, params, p, Read(pos, seen)) = Read(pos + Len(s), SeenTo(see, params, fields, i))
        <3>1. ReadField(read, buf, params, p, Read(pos, seen)) = Read(pos, seen)
            BY <1>10, <1>11, <2>1, <2>3
        <3>2. pos + Len(s) = pos
            BY <1>11, <2>2, <2>3
        <3> QED BY <1>5, <1>15, <3>1, <3>2
    <2> QED BY <2>2, <2>3 DEF p, s, seen
<1> QED BY <1>13, <1>14, <1>15

\* By induction over the parameters, the fields of an object are read back.
LEMMA FieldsBack ==
    ASSUME NEW buf \in Seq(Int), NEW types, NEW write, NEW read, NEW fit, NEW see,
           Back(buf, types, write, read, fit, see), NEW params, IsParams(params, types),
           NEW fields, \A name : Field(fields, name) \in Values, FitFields(fit, params, fields)
    PROVE  /\ WriteFields(write, params, fields) \in Seq(Int)
           /\ \A pos : Holds(buf, pos, WriteFields(write, params, fields)) =>
                ReadFields(read, buf, params, pos)
                    = Read(pos + Len(WriteFields(write, params, fields)), SeenFields(see, params, fields))
<1> DEFINE n == Len(params)
           s == [i \in DOMAIN params |-> WriteField(write, params, fields, params[i])]
           bytes == WriteFields(write, params, fields)
           Seen1(i) == SeenTo(see, params, fields, i)
<1>1. n \in Nat /\ DOMAIN params = 1..n /\ n = Len(params)
    BY DEF IsParams
<1>2. bytes = FlattenSeq(s)
    BY DEF WriteFields
<1>3. \A i \in 1..n : s[i] = WriteField(write, params, fields, params[i])
    BY <1>1
<1>4. s = [i \in 1..n |-> s[i]]
    BY <1>1
<1> HIDE DEF n, s, bytes, Seen1
<1>5. ASSUME NEW i \in 1..n
      PROVE  /\ s[i] \in Seq(Int)
             /\ \A pos : Holds(buf, pos, s[i]) =>
                    ReadField(read, buf, params, params[i], Read(pos, Seen1(i - 1))) = Read(pos + Len(s[i]), Seen1(i))
    BY <1>1, <1>3, FieldBack DEF Seen1
<1>6. s \in Seq(Seq(Int)) /\ Len(s) = n
    <2>1. s \in [1..n -> Seq(Int)]
        BY <1>4, <1>5
    <2> QED BY <1>1, <2>1
<1>7. bytes \in Seq(Int)
    BY <1>2, <1>6, FlattenInts
<1>8. ASSUME NEW pos, Holds(buf, pos, bytes)
      PROVE  ReadFields(read, buf, params, pos) = Read(pos + Len(bytes), SeenFields(see, params, fields))
    <2> DEFINE f == CHOOSE g : FieldsRead(g, read, buf, params, pos)
    <2>1. PICK start : Pieces(buf, pos, s, start)
        BY <1>2, <1>6, <1>8, PiecesExist
    <2>2. /\ start[0] = pos /\ start[n] = pos + Len(bytes)
          /\ \A i \in 0..n : start[i] \in Nat \ {0}
          /\ \A i \in 0..(n - 1) : Holds(buf, start[i], s[i + 1]) /\ start[i + 1] = start[i] + Len(s[i + 1])
        BY <1>2, <1>6, <2>1 DEF Pieces
    <2> DEFINE Value(i) == Read(start[i], Seen1(i))
               Deeper(i, before) == ReadField(read, buf, params, params[i], before)
    <2>3. ASSUME NEW i \in 1..n PROVE Deeper(i, Value(i - 1)) = Value(i)
        <3>1. i - 1 \in 0..(n - 1) /\ (i - 1) + 1 = i
            BY <1>1
        <3>2. Holds(buf, start[i - 1], s[i]) /\ start[i] = start[i - 1] + Len(s[i])
            BY <2>2, <3>1
        <3> QED BY <1>5, <3>2
    <2>4. Value(0) = Read(pos, <<>>) /\ Value(n) = Read(pos + Len(bytes), SeenFields(see, params, fields))
        <3>1. Seen1(0) = <<>> /\ Seen1(n) = SeenFields(see, params, fields)
            BY <1>1, SeenAll DEF Seen1
        <3> QED BY <2>2, <3>1
    <2>5. FieldsRead(f, read, buf, params, pos)
        <3> DEFINE g == [i \in 0..n |-> Value(i)]
        <3>1. \A i \in 0..n : g[i] = Value(i)
            OBVIOUS
        <3>2. g = [i \in 0..n |-> g[i]]
            OBVIOUS
        <3> HIDE DEF g, Value
        <3>3. ASSUME NEW i \in 0..n PROVE g[i] = IF i = 0 THEN Read(pos, <<>>) ELSE Deeper(i, g[i - 1])
            <4>1. CASE i = 0
                BY <2>4, <3>1, <4>1
            <4>2. CASE i # 0
                <5>1. i \in 1..n /\ i - 1 \in 0..n
                    BY <1>1, <4>2
                <5> HIDE DEF Next
                <5> QED BY <2>3, <3>1, <4>2, <5>1
            <4> QED BY <4>1, <4>2
        <3>4. FieldsRead(g, read, buf, params, pos)
            BY <1>1, <3>2, <3>3 DEF FieldsRead
        <3>5. \E h : FieldsRead(h, read, buf, params, pos)
            BY <3>4, Zenon
        <3> QED BY <3>5, Zenon
    <2> HIDE DEF f, Value
    <2>6. \A i \in 0..n : f[i] = IF i = 0 THEN Read(pos, <<>>) ELSE Deeper(i, f[i - 1])
        BY <1>1, <2>5 DEF FieldsRead
    <2> HIDE DEF Next
    <2>7. f[n] = Value(n)
        <3> DEFINE G == {i \in Nat : i <= n => f[i] = Value(i)}
        <3>1. 0 \in G
            BY <1>1, <2>4, <2>6
        <3>2. ASSUME NEW i \in Nat, i \in G PROVE i + 1 \in G
            <4> SUFFICES ASSUME i + 1 <= n PROVE f[i + 1] = Value(i + 1)
                OBVIOUS
            <4>1. i + 1 \in 0..n /\ i + 1 \in 1..n /\ (i + 1) - 1 = i /\ i + 1 # 0 /\ f[i] = Value(i)
                BY <1>1, <3>2
            <4> QED BY <2>3, <2>6, <4>1
        <3>3. Nat \subseteq G
            <4> HIDE DEF G
            <4> QED BY <3>1, <3>2, NatAll
        <3> QED BY <1>1, <3>3
    <2>8. ReadFields(read, buf, params, pos) = f[n]
        BY <1>1, ReadFieldsIs DEF f
    <2> QED BY <2>4, <2>7, <2>8
<1> QED BY <1>7, <1>8 DEF bytes

\* What is written by the definitions by is read by reg, and names has of them what the
\* values and the types at hand call for.
Agrees(reg, by, names, types) ==
    /\ types \subseteq Types /\ Anything \in types
    /\ \A t \in types : t.kind = "vector" => t.inner \in types
    /\ \A n \in DOMAIN names :
        LET d == names[n]
        IN /\ n \in DOMAIN by /\ by[n] = d /\ d.name = n
           /\ IsParams(d.params, types)
           /\ Unsigned(d.id, 4) /\ d.id \notin {BoolTrueId, BoolFalseId, VectorId}
           /\ d.id \in DOMAIN reg.byId /\ reg.byId[d.id] = d
    /\ \A t \in types :
        t.kind = "bare" /\ t.name \in DOMAIN names =>
            t.name \in DOMAIN reg.byName /\ reg.byName[t.name] = names[t.name]

LEMMA BytesAreInts ==
    ASSUME NEW s \in Seq(0..255)
    PROVE  s \in Seq(Int)
<1>1. \A i \in 1..Len(s) : s[i] \in Int
    <2>1. \A i \in 1..Len(s) : s[i] \in 0..255
        BY ElementOfSeq
    <2>2. \A x \in 0..255 : x \in Int
        OBVIOUS
    <2> QED BY <2>1, <2>2, Zenon
<1>2. Len(s) \in Nat /\ s = [i \in 1..Len(s) |-> s[i]]
    OBVIOUS
<1>3. s \in [1..Len(s) -> Int]
    BY <1>1, <1>2
<1> QED BY <1>2, <1>3

LEMMA BoolIdIs ==
    ASSUME NEW b \in BOOLEAN
    PROVE  \E id \in Int : /\ Unsigned(id, 4) /\ WriteBool(b) = UInt32(id)
                           /\ (id = BoolTrueId <=> b) /\ (id = BoolFalseId <=> ~b)
<1>0. Unsigned(1, 4) /\ Unsigned(2, 4)
    BY SmallUnsigned
<1>1. CASE b = TRUE
    <2>1. WriteBool(b) = UInt32(1)
        BY <1>1 DEF WriteBool, BoolTrueId
    <2> QED BY <1>0, <1>1, <2>1 DEF BoolTrueId, BoolFalseId
<1>2. CASE b = FALSE
    <2>1. WriteBool(b) = UInt32(2)
        BY <1>2 DEF WriteBool, BoolFalseId
    <2> QED BY <1>0, <1>2, <2>1 DEF BoolTrueId, BoolFalseId
<1>3. b = TRUE \/ b = FALSE
    OBVIOUS
<1> QED BY <1>1, <1>2, <1>3, Zenon

LEMMA VectorIdFits == VectorId \in Int /\ Unsigned(VectorId, 4)
BY SmallUnsigned DEF VectorId

\* Values of the types that are not made of others.
LEMMA PlainBack ==
    ASSUME NEW buf \in Seq(Int), NEW reg, NEW by, NEW names, NEW read, NEW write, NEW fit, NEW see,
           NEW t \in Types, NEW v \in Values, Fit(names, fit, t, v),
           t.kind \in {"int", "long", "data", "fixed", "bool", "true"}
    PROVE  LET s == WriteType(by, write, t, v)
           IN s \in Seq(Int) /\ \A pos : Holds(buf, pos, s) =>
                ReadType(reg, read, buf, t, pos) = Read(pos + Len(s), SeenType(names, see, t, v))
<1> DEFINE s == WriteType(by, write, t, v)
           seen == SeenType(names, see, t, v)
<1>1. CASE t.kind = "int"
    <2> DEFINE n == IF v = Nothing THEN 0 ELSE v.n
    <2>1. n \in Int /\ Divided(n, 256)[3] \in -128..127
        <3>1. CASE v = Nothing
            <4>1. n = 0
                BY <3>1
            <4>2. Divided(0, 256)[3] = 0
                BY SmallDivided
            <4> HIDE DEF n
            <4> QED BY <4>1, <4>2
        <3>2. CASE v # Nothing
            BY <1>1, <3>2, CodecAssumption DEF Fit
        <3> QED BY <3>1, <3>2
    <2>2. s = UInt32(n) /\ seen = Num(n)
        BY <1>1 DEF WriteType, SeenType
    <2>3. \A pos : ReadType(reg, read, buf, t, pos) = ReadInt32(buf, pos)
        BY <1>1 DEF ReadType
    <2> HIDE DEF n, s, seen
    <2>4. s \in Seq(Int) /\ Len(s) = 4
        BY <2>1, <2>2, UInt32Is, Zenon
    <2>5. ASSUME NEW pos, Holds(buf, pos, s) PROVE ReadInt32(buf, pos) = Read(pos + 4, Num(n))
        BY <2>1, <2>2, <2>5, Int32Back, Zenon
    <2> QED BY <2>2, <2>3, <2>4, <2>5 DEF s, seen
<1>2. CASE t.kind = "long"
    <2> DEFINE n == IF v = Nothing THEN 0 ELSE v.n
    <2>1. n \in Int /\ Unsigned(n, 8)
        <3>1. CASE v = Nothing
            <4>1. Unsigned(0, 8)
                BY SmallUnsigned
            <4> QED BY <3>1, <4>1
        <3>2. CASE v # Nothing
            BY <1>2, <3>2, CodecAssumption DEF Fit
        <3> QED BY <3>1, <3>2
    <2>2. s = Digits(n, 256, 8) /\ seen = Num(n)
        BY <1>2 DEF WriteType, SeenType
    <2>3. \A pos : ReadType(reg, read, buf, t, pos) = ReadUInt(buf, pos, 8)
        BY <1>2 DEF ReadType
    <2> HIDE DEF n, s, seen
    <2>4. s \in Seq(Int) /\ Len(s) = 8
        <3>1. Sized(s, 8)
            BY <2>1, <2>2, BytesOf
        <3> QED BY <3>1 DEF Sized
    <2>5. ASSUME NEW pos, Holds(buf, pos, s) PROVE ReadUInt(buf, pos, 8) = Read(pos + 8, Num(n))
        BY <2>1, <2>2, <2>5, UIntBack
    <2> QED BY <2>2, <2>3, <2>4, <2>5 DEF s, seen
<1>3. CASE t.kind = "data"
    <2> DEFINE bytes == IF v = Nothing THEN <<>> ELSE v.bytes
    <2>1. bytes \in Seq(Int) /\ Unsigned(Len(bytes), 3)
        <3>1. CASE v = Nothing
            <4>1. Unsigned(0, 3)
                BY SmallUnsigned
            <4> QED BY <3>1, <4>1
        <3>2. CASE v # Nothing
            <4>1. v.is = "data" /\ Unsigned(Len(v.bytes), 3)
                BY <1>3, <3>2 DEF Fit
            <4>2. v.bytes \in Seq(0..255)
                BY <4>1, CodecAssumption
            <4>3. v.bytes \in Seq(Int)
                BY <4>2, BytesAreInts
            <4> QED BY <3>2, <4>1, <4>3
        <3> QED BY <3>1, <3>2
    <2>2. s = WriteBytes(bytes) /\ seen = Data(bytes)
        BY <1>3 DEF WriteType, SeenType
    <2>3. \A pos : ReadType(reg, read, buf, t, pos) = ReadBytes(buf, pos)
        BY <1>3 DEF ReadType
    <2> HIDE DEF bytes, s, seen
    <2> QED BY <2>1, <2>2, <2>3, BytesWritten, BytesBack DEF s, seen
<1>4. CASE t.kind = "fixed"
    <2> DEFINE bytes == IF v = Nothing THEN <<>> ELSE v.bytes
               size == t.size
    <2>1. bytes \in Seq(Int) /\ size \in Nat /\ Len(bytes) <= size
        <3>0. size \in Nat
            BY <1>4, CodecAssumption
        <3>1. CASE v = Nothing
            BY <3>0, <3>1
        <3>2. CASE v # Nothing
            <4>1. v.is = "data" /\ Len(v.bytes) <= t.size
                BY <1>4, <3>2 DEF Fit
            <4>2. v.bytes \in Seq(0..255)
                BY <4>1, CodecAssumption
            <4>3. v.bytes \in Seq(Int)
                BY <4>2, BytesAreInts
            <4> QED BY <3>0, <3>2, <4>1, <4>3
        <3> QED BY <3>1, <3>2
    <2>2. s = WriteFixed(bytes, size) /\ seen = Data(WriteFixed(bytes, size))
        BY <1>4 DEF WriteType, SeenType
    <2>3. \A pos : ReadType(reg, read, buf, t, pos) = ReadRaw(buf, pos, size)
        BY <1>4 DEF ReadType
    <2> HIDE DEF bytes, size, s, seen
    <2>4. s \in Seq(Int) /\ Len(s) = size
        <3> DEFINE pad == Zeros(size - Len(bytes))
        <3>1. Len(bytes) \in Nat /\ size - Len(bytes) \in Nat
            BY <2>1
        <3>2. pad \in Seq(Int) /\ Len(pad) = size - Len(bytes)
            BY <3>1, ZerosAre
        <3>3. s = pad \o bytes
            BY <2>1, <2>2, <3>1 DEF WriteFixed
        <3> HIDE DEF pad
        <3>4. pad \o bytes \in Seq(Int) /\ Len(pad \o bytes) = Len(pad) + Len(bytes)
            BY <2>1, <3>2, ConcatProperties
        <3>5. (size - Len(bytes)) + Len(bytes) = size
            BY <2>1, <3>1
        <3> QED BY <3>2, <3>3, <3>4, <3>5
    <2> QED BY <2>2, <2>3, <2>4, RawBack DEF s, seen
<1>5. CASE t.kind = "bool"
    <2> DEFINE b == v = Bool(TRUE)
    <2>1. PICK id \in Int : Unsigned(id, 4) /\ WriteBool(b) = UInt32(id) /\ (id = BoolTrueId <=> b)
        BY BoolIdIs
    <2>2. s = UInt32(id) /\ seen = Bool(v = Bool(TRUE))
        BY <1>5, <2>1 DEF WriteType, SeenType
    <2>3. \A pos : ReadType(reg, read, buf, t, pos)
                    = Read(ReadUInt(buf, pos, 4).pos, Bool(ReadUInt(buf, pos, 4).v = Num(BoolTrueId)))
        BY <1>5 DEF ReadType
    <2> HIDE DEF s, seen
    <2>4. Unsigned(id, 4) /\ id \in Int /\ s \in Seq(Int) /\ Len(s) = 4
        BY <2>1, <2>2, UInt32Is, Zenon
    <2>5. ASSUME NEW pos, Holds(buf, pos, s)
          PROVE  Read(ReadUInt(buf, pos, 4).pos, Bool(ReadUInt(buf, pos, 4).v = Num(BoolTrueId))) = Read(pos + 4, seen)
        <3>1. ReadUInt(buf, pos, 4) = Read(pos + 4, Num(id))
            BY <2>2, <2>4, <2>5, UInt32Back
        <3>2. ReadUInt(buf, pos, 4).pos = pos + 4 /\ ReadUInt(buf, pos, 4).v = Num(id)
            BY <3>1 DEF Read
        <3>3. Num(id) = Num(BoolTrueId) <=> v = Bool(TRUE)
            BY <2>1 DEF Num
        <3>4. Bool(ReadUInt(buf, pos, 4).v = Num(BoolTrueId)) = seen
            BY <2>2, <3>2, <3>3 DEF Bool
        <3> QED BY <3>2, <3>4
    <2> QED BY <2>3, <2>4, <2>5 DEF s, seen
<1>6. CASE t.kind = "true"
    <2>1. s = <<>> /\ seen = Bool(TRUE)
        BY <1>6 DEF WriteType, SeenType
    <2>2. \A pos : ReadType(reg, read, buf, t, pos) = Read(pos, Bool(TRUE))
        BY <1>6 DEF ReadType
    <2> HIDE DEF s, seen
    <2>3. s \in Seq(Int) /\ Len(s) = 0
        BY <2>1
    <2>4. ASSUME NEW pos, Holds(buf, pos, s) PROVE pos + Len(s) = pos
        BY <2>3, <2>4 DEF Holds
    <2> QED BY <2>1, <2>2, <2>3, <2>4 DEF s, seen
<1> QED BY <1>1, <1>2, <1>3, <1>4, <1>5, <1>6

\* What begins with an id is read as the id and what follows it.
LEMMA AfterId ==
    ASSUME NEW buf \in Seq(Int), NEW id \in Int, Unsigned(id, 4), NEW rest \in Seq(Int)
    PROVE  /\ UInt32(id) \o rest \in Seq(Int) /\ Len(UInt32(id) \o rest) = 4 + Len(rest)
           /\ \A pos : Holds(buf, pos, UInt32(id) \o rest) =>
                /\ ReadUInt(buf, pos, 4) = Read(pos + 4, Num(id))
                /\ pos + 4 # 0 /\ Holds(buf, pos + 4, rest)
                /\ (pos + 4) + Len(rest) = pos + Len(UInt32(id) \o rest)
<1> DEFINE a == UInt32(id)
<1>1. a \in Seq(Int) /\ Len(a) = 4
    BY UInt32Is
<1> HIDE DEF a
<1>2. a \o rest \in Seq(Int) /\ Len(a \o rest) = Len(a) + Len(rest)
    BY <1>1, ConcatProperties
<1>3. ASSUME NEW pos, Holds(buf, pos, a \o rest)
      PROVE  /\ ReadUInt(buf, pos, 4) = Read(pos + 4, Num(id))
             /\ pos + 4 # 0 /\ Holds(buf, pos + 4, rest)
             /\ (pos + 4) + Len(rest) = pos + Len(a \o rest)
    <2>1. Holds(buf, pos, a) /\ Holds(buf, pos + Len(a), rest)
        BY <1>1, <1>3, HoldsConcat
    <2>2. Holds(buf, pos, UInt32(id))
        BY <2>1 DEF a
    <2>3. ReadUInt(buf, pos, 4) = Read(pos + 4, Num(id)) /\ pos + 4 \in Nat \ {0} /\ pos \in Nat \ {0}
        BY <2>2, UInt32Back
    <2>4. Len(rest) \in Nat
        OBVIOUS
    <2>5. (pos + 4) + Len(rest) = pos + (4 + Len(rest))
        BY <2>3, <2>4
    <2> QED BY <1>1, <1>2, <2>1, <2>3, <2>5
<1> QED BY <1>1, <1>2, <1>3 DEF a

LEMMA FieldIsValue ==
    ASSUME NEW v \in Values
    PROVE  /\ \A name : Field(Fields(v), name) \in Values
           /\ v.is = "object" => Fields(v) = v.fields
           /\ Items(v) \in Seq(Values)
           /\ v.is = "array" => Items(v) = v.items
<1>1. ASSUME NEW name PROVE Field(Fields(v), name) \in Values
    BY CodecAssumption DEF Field, Fields
<1>2. Items(v) \in Seq(Values)
    BY CodecAssumption DEF Items
<1> QED BY <1>1, <1>2 DEF Fields, Items

\* Vectors, bare and boxed objects, each of values that are read back a level below.
LEMMA VectorBack ==
    ASSUME NEW buf \in Seq(Int), NEW reg, NEW by, NEW names, NEW types, Agrees(reg, by, names, types),
           NEW write, NEW read, NEW fit, NEW see, Back(buf, types, write, read, fit, see),
           NEW t \in types, NEW v \in Values, Fit(names, fit, t, v), t.kind = "vector"
    PROVE  LET s == WriteType(by, write, t, v)
           IN s \in Seq(Int) /\ \A pos : Holds(buf, pos, s) =>
                ReadType(reg, read, buf, t, pos) = Read(pos + Len(s), SeenType(names, see, t, v))
<1> DEFINE s == WriteType(by, write, t, v)
           items == WriteItems(write, t.inner, Items(v))
           seen == SeenItems(see, t.inner, Items(v))
<1>1. t.inner \in types /\ t \in Types
    BY DEF Agrees
<1>2. FitItems(fit, t.inner, Items(v)) /\ Items(v) \in Seq(Values)
    BY FieldIsValue DEF Fit
<1>3. /\ items \in Seq(Int)
      /\ \A pos : Holds(buf, pos, items) => ReadItems(read, buf, t.inner, pos) = Read(pos + Len(items), seen)
    BY <1>1, <1>2, ItemsBack
<1>4. s = (IF t.boxed THEN UInt32(VectorId) ELSE <<>>) \o items /\ SeenType(names, see, t, v) = seen
    BY DEF WriteType, SeenType
<1> HIDE DEF s, items, seen
<1>6. CASE t.boxed
    <2>1. VectorId \in Int /\ Unsigned(VectorId, 4)
        BY VectorIdFits, Zenon
    <2>2. s = UInt32(VectorId) \o items
        BY <1>4, <1>6
    <2>3. s \in Seq(Int)
        BY <1>3, <2>1, <2>2, AfterId
    <2>4. ASSUME NEW pos, Holds(buf, pos, s)
          PROVE  ReadType(reg, read, buf, t, pos) = Read(pos + Len(s), seen)
        <3> DEFINE id == ReadUInt(buf, pos, 4)
        <3>1. /\ id = Read(pos + 4, Num(VectorId)) /\ Holds(buf, pos + 4, items)
              /\ (pos + 4) + Len(items) = pos + Len(s)
            BY <1>3, <2>1, <2>2, <2>4, AfterId
        <3>2. id.v = Num(VectorId) /\ id.pos = pos + 4
            BY <3>1 DEF Read
        <3>3. ReadType(reg, read, buf, t, pos)
                = IF id.v # Num(VectorId) THEN Failed ELSE ReadItems(read, buf, t.inner, id.pos)
            BY <1>6 DEF ReadType
        <3> QED BY <1>3, <3>1, <3>2, <3>3
    <2> QED BY <1>4, <2>3, <2>4 DEF s
<1>7. CASE ~t.boxed
    <2>1. s = items
        <3>1. s = <<>> \o items
            BY <1>4, <1>7
        <3> QED BY <1>3, <3>1, ConcatEmptySeq
    <2>2. \A pos : ReadType(reg, read, buf, t, pos) = ReadItems(read, buf, t.inner, pos)
        BY <1>7 DEF ReadType
    <2> QED BY <1>3, <1>4, <2>1, <2>2 DEF s
<1> QED BY <1>6, <1>7

LEMMA BareBack ==
    ASSUME NEW buf \in Seq(Int), NEW reg, NEW by, NEW names, NEW types, Agrees(reg, by, names, types),
           NEW write, NEW read, NEW fit, NEW see, Back(buf, types, write, read, fit, see),
           NEW t \in types, NEW v \in Values, Fit(names, fit, t, v), t.kind = "bare"
    PROVE  LET s == WriteType(by, write, t, v)
           IN s \in Seq(Int) /\ \A pos : Holds(buf, pos, s) =>
                ReadType(reg, read, buf, t, pos) = Read(pos + Len(s), SeenType(names, see, t, v))
<1> DEFINE s == WriteType(by, write, t, v)
           params == names[t.name].params
           fields == Fields(v)
           seen == SeenFields(see, params, fields)
<1>1. t.name \in DOMAIN names /\ FitFields(fit, params, fields)
    BY DEF Fit
<1>2. /\ t.name \in DOMAIN by /\ by[t.name] = names[t.name] /\ IsParams(params, types)
      /\ t.name \in DOMAIN reg.byName /\ reg.byName[t.name] = names[t.name]
    BY <1>1 DEF Agrees
<1>3. \A name : Field(fields, name) \in Values
    BY FieldIsValue
<1>4. s = WriteFields(write, params, fields)
    BY <1>2 DEF WriteType
<1>5. SeenType(names, see, t, v) = Obj(t.name, seen)
    BY DEF SeenType
<1>6. \A pos : ReadType(reg, read, buf, t, pos)
                = Read(ReadFields(read, buf, params, pos).pos, Obj(t.name, ReadFields(read, buf, params, pos).v))
    BY <1>2 DEF ReadType
<1> HIDE DEF s, params, fields, seen
<1>7. /\ s \in Seq(Int)
      /\ \A pos : Holds(buf, pos, s) => ReadFields(read, buf, params, pos) = Read(pos + Len(s), seen)
    BY <1>1, <1>2, <1>3, <1>4, FieldsBack DEF seen
<1>8. ASSUME NEW pos, Holds(buf, pos, s)
      PROVE  ReadType(reg, read, buf, t, pos) = Read(pos + Len(s), Obj(t.name, seen))
    <2>1. ReadFields(read, buf, params, pos).pos = pos + Len(s) /\ ReadFields(read, buf, params, pos).v = seen
        BY <1>7, <1>8 DEF Read
    <2> QED BY <1>6, <2>1
<1> QED BY <1>5, <1>7, <1>8 DEF s

LEMMA BoxedBack ==
    ASSUME NEW buf \in Seq(Int), NEW reg, NEW by, NEW names, NEW types, Agrees(reg, by, names, types),
           NEW write, NEW read, NEW fit, NEW see, Back(buf, types, write, read, fit, see),
           NEW t \in types, NEW v \in Values, Fit(names, fit, t, v), t.kind = "boxed"
    PROVE  LET s == WriteType(by, write, t, v)
           IN s \in Seq(Int) /\ \A pos : Holds(buf, pos, s) =>
                ReadType(reg, read, buf, t, pos) = Read(pos + Len(s), SeenType(names, see, t, v))
<1> DEFINE s == WriteObject(by, write, v)
           seen == SeenObject(names, see, v)
           id(pos) == ReadUInt(buf, pos, 4)
           Got(pos) == ReadObject(reg, read, buf, pos)
<1>1. /\ WriteType(by, write, t, v) = s /\ SeenType(names, see, t, v) = seen
      /\ \A pos : ReadType(reg, read, buf, t, pos) = Got(pos)
    BY DEF WriteType, SeenType, ReadType
<1>2. CASE v.is = "boolean"
    <2>1. PICK n \in Int : /\ Unsigned(n, 4) /\ WriteBool(v.truth) = UInt32(n)
                           /\ (n = BoolTrueId <=> v.truth) /\ (n = BoolFalseId <=> ~v.truth)
        BY <1>2, BoolIdIs, CodecAssumption
    <2>2. s = UInt32(n) /\ seen = Bool(v.truth) /\ v.truth \in BOOLEAN
        BY <1>2, <2>1, CodecAssumption DEF WriteObject, SeenObject
    <2>3. n \in Int /\ Unsigned(n, 4) /\ s \in Seq(Int) /\ Len(s) = 4
        BY <2>1, <2>2, UInt32Is, Zenon
    <2>4. ASSUME NEW pos, Holds(buf, pos, s) PROVE Got(pos) = Read(pos + 4, seen)
        <3>1. id(pos) = Read(pos + 4, Num(n)) /\ pos + 4 \in Nat \ {0}
            BY <2>2, <2>3, <2>4, UInt32Back
        <3>2. id(pos).pos = pos + 4 /\ id(pos).v.n = n /\ pos + 4 # 0
            BY <3>1 DEF Read, Num
        <3> HIDE DEF id
        <3>3. CASE v.truth = TRUE
            <4>1. n = BoolTrueId
                BY <2>1, <3>3
            <4>2. Got(pos) = Read(id(pos).pos, Bool(TRUE))
                <5>1. id(pos).v.n = BoolTrueId /\ id(pos).pos # 0
                    BY <3>2, <4>1
                <5>2. BoolTrueId # BoolFalseId /\ BoolTrueId # VectorId /\ BoolFalseId # VectorId
                    BY DEF BoolTrueId, BoolFalseId, VectorId
                <5> QED BY <5>1, <5>2 DEF ReadObject, id
            <4> QED BY <2>2, <3>2, <3>3, <4>2
        <3>4. CASE v.truth = FALSE
            <4>1. n = BoolFalseId /\ n # BoolTrueId
                BY <2>1, <3>4
            <4>2. Got(pos) = Read(id(pos).pos, Bool(FALSE))
                <5>1. id(pos).v.n = BoolFalseId /\ id(pos).pos # 0
                    BY <3>2, <4>1
                <5>2. BoolTrueId # BoolFalseId /\ BoolTrueId # VectorId /\ BoolFalseId # VectorId
                    BY DEF BoolTrueId, BoolFalseId, VectorId
                <5> QED BY <5>1, <5>2 DEF ReadObject, id
            <4> QED BY <2>2, <3>2, <3>4, <4>2
        <3>5. v.truth = TRUE \/ v.truth = FALSE
            BY <2>2
        <3> QED BY <3>3, <3>4, <3>5, Zenon
    <2> QED BY <1>1, <2>3, <2>4
<1>3. CASE v.is = "array"
    <2> DEFINE items == WriteItems(write, Anything, v.items)
    <2>1. v.items \in Seq(Values) /\ FitItems(fit, Anything, v.items) /\ Anything \in types
        BY <1>3, CodecAssumption DEF Fit, Agrees
    <2>2. s = UInt32(VectorId) \o items /\ seen = SeenItems(see, Anything, v.items)
        BY <1>3 DEF WriteObject, SeenObject
    <2>3. /\ items \in Seq(Int)
          /\ \A pos : Holds(buf, pos, items) => ReadItems(read, buf, Anything, pos) = Read(pos + Len(items), seen)
        BY <2>1, <2>2, ItemsBack
    <2>4. VectorId \in Int /\ Unsigned(VectorId, 4)
        BY VectorIdFits, Zenon
    <2> HIDE DEF items, s, seen
    <2>5. s \in Seq(Int)
        BY <2>2, <2>3, <2>4, AfterId
    <2>6. ASSUME NEW pos, Holds(buf, pos, s) PROVE Got(pos) = Read(pos + Len(s), seen)
        <3>1. /\ id(pos) = Read(pos + 4, Num(VectorId)) /\ pos + 4 # 0 /\ Holds(buf, pos + 4, items)
              /\ (pos + 4) + Len(items) = pos + Len(s)
            BY <2>2, <2>3, <2>4, <2>6, AfterId
        <3>2. id(pos).pos = pos + 4 /\ id(pos).v.n = VectorId
            BY <3>1 DEF Read, Num
        <3>3. VectorId # BoolTrueId /\ VectorId # BoolFalseId
            BY DEF VectorId, BoolTrueId, BoolFalseId
        <3> HIDE DEF id
        <3>4. Got(pos) = ReadItems(read, buf, Anything, id(pos).pos)
            BY <3>1, <3>2, <3>3 DEF ReadObject, id
        <3> QED BY <2>3, <3>1, <3>2, <3>4
    <2> QED BY <1>1, <2>5, <2>6 DEF s, seen
<1>4. CASE v.is = "object" /\ v.name \in DOMAIN names /\ FitFields(fit, names[v.name].params, v.fields)
    <2> DEFINE d == names[v.name]
               fields == v.fields
               seenFields == SeenFields(see, d.params, fields)
               rest == WriteFields(write, d.params, fields)
               back(pos) == ReadFields(read, buf, d.params, pos)
    <2>1. /\ v.name \in DOMAIN by /\ by[v.name] = d /\ d.name = v.name
          /\ IsParams(d.params, types)
          /\ Unsigned(d.id, 4) /\ d.id \notin {BoolTrueId, BoolFalseId, VectorId}
          /\ d.id \in DOMAIN reg.byId /\ reg.byId[d.id] = d
        BY <1>4 DEF Agrees
    <2>2. s = UInt32(d.id) \o rest /\ seen = Obj(v.name, seenFields)
        BY <1>4, <2>1 DEF WriteObject, SeenObject
    <2>3. \A name : Field(fields, name) \in Values
        BY <1>4, FieldIsValue
    <2>4. FitFields(fit, d.params, fields)
        BY <1>4
    <2> HIDE DEF d, fields, rest, s, seen
    <2>5. /\ rest \in Seq(Int)
          /\ \A pos : Holds(buf, pos, rest) => back(pos) = Read(pos + Len(rest), seenFields)
        BY <2>1, <2>3, <2>4, FieldsBack DEF rest
    <2>6. d.id \in Int /\ Unsigned(d.id, 4)
        BY <2>1 DEF Unsigned
    <2> HIDE DEF seenFields
    <2>7. s \in Seq(Int)
        BY <2>2, <2>5, <2>6, AfterId
    <2>8. ASSUME NEW pos, Holds(buf, pos, s) PROVE Got(pos) = Read(pos + Len(s), seen)
        <3>1. /\ id(pos) = Read(pos + 4, Num(d.id)) /\ pos + 4 # 0 /\ Holds(buf, pos + 4, rest)
              /\ (pos + 4) + Len(rest) = pos + Len(s)
            BY <2>2, <2>5, <2>6, <2>8, AfterId
        <3>2. id(pos).pos = pos + 4 /\ id(pos).v.n = d.id
            BY <3>1 DEF Read, Num
        <3>3. back(pos + 4).pos = pos + Len(s) /\ back(pos + 4).v = seenFields
            <4>1. back(pos + 4) = Read((pos + 4) + Len(rest), seenFields)
                BY <2>5, <3>1
            <4> HIDE DEF back
            <4> QED BY <3>1, <4>1 DEF Read
        <3> HIDE DEF id, back
        <3>4. Got(pos) = Read(back(id(pos).pos).pos, Obj(d.name, back(id(pos).pos).v))
            BY <2>1, <3>1, <3>2 DEF ReadObject, id, back
        <3> QED BY <2>1, <2>2, <3>2, <3>3, <3>4
    <2> QED BY <1>1, <2>7, <2>8 DEF s, seen
<1> QED BY <1>2, <1>3, <1>4 DEF Fit

LEMMA TypeBack ==
    ASSUME NEW buf \in Seq(Int), NEW reg, NEW by, NEW names, NEW types, Agrees(reg, by, names, types),
           NEW write, NEW read, NEW fit, NEW see, Back(buf, types, write, read, fit, see),
           NEW t \in types, NEW v \in Values, Fit(names, fit, t, v)
    PROVE  LET s == WriteType(by, write, t, v)
           IN s \in Seq(Int) /\ \A pos : Holds(buf, pos, s) =>
                ReadType(reg, read, buf, t, pos) = Read(pos + Len(s), SeenType(names, see, t, v))
<1>0. t \in Types
    BY DEF Agrees
<1>1. CASE t.kind \in {"int", "long", "data", "fixed", "bool", "true"}
    BY <1>0, <1>1, PlainBack
<1>2. CASE t.kind = "vector"
    BY <1>2, VectorBack
<1>3. CASE t.kind = "boxed"
    BY <1>3, BoxedBack
<1>4. CASE t.kind = "bare"
    BY <1>4, BareBack
<1>5. t.kind \in {"int", "long", "data", "fixed", "bool", "true", "vector", "boxed", "bare"}
    BY DEF Fit
<1> QED BY <1>1, <1>2, <1>3, <1>4, <1>5

\* By induction over the levels, all that fits is read back.
LEMMA EachLevelBack ==
    ASSUME NEW buf \in Seq(Int), NEW reg, NEW by, NEW names, NEW types, Agrees(reg, by, names, types),
           NEW d \in 0..Depth
    PROVE  Back(buf, types, Written(by)[d], Understand(reg, buf)[d], Fitting(names)[d], Seeing(names)[d])
<1> DEFINE w == Written(by)
           u == Understand(reg, buf)
           f == Fitting(names)
           s == Seeing(names)
           G == {k \in Nat : k <= Depth => Back(buf, types, w[k], u[k], f[k], s[k])}
<1>0. Depth \in Nat /\ types \subseteq Types
    BY CodecAssumption DEF Agrees
<1>1. CASE Depth = 0
    <2>1. d = 0 /\ f[0] = [x \in Jobs |-> FALSE]
        BY <1>1, LevelsAre DEF FitsAll
    <2>2. \A t \in types, v \in Values : <<t, v>> \in Jobs
        BY <1>0 DEF Jobs
    <2>3. \A t \in types, v \in Values : f[0][<<t, v>>] = FALSE
        BY <2>1, <2>2
    <2> HIDE DEF w, u, f, s
    <2>4. Back(buf, types, w[0], u[0], f[0], s[0])
        BY <2>3 DEF Back
    <2> QED BY <2>1, <2>4 DEF w, u, f, s
<1>2. CASE Depth # 0
    <2>1. 0 \in 0..(Depth - 1)
        BY <1>0, <1>2
    <2>2. \A t \in types, v \in Values : f[0][<<t, v>>] = FALSE
        BY <1>0, <2>1, LevelIs
    <2>3. 0 \in G
        <3> HIDE DEF w, u, f, s
        <3> QED BY <2>2 DEF Back
    <2>4. ASSUME NEW k \in Nat, k \in G PROVE k + 1 \in G
        <3> SUFFICES ASSUME k + 1 <= Depth PROVE Back(buf, types, w[k + 1], u[k + 1], f[k + 1], s[k + 1])
            OBVIOUS
        <3>1. k \in 0..(Depth - 1) /\ Back(buf, types, w[k], u[k], f[k], s[k])
            BY <1>0, <2>4
        <3>2. ASSUME NEW t \in types, NEW v \in Values, f[k + 1][<<t, v>>]
              PROVE  ReadBack(buf, t, w[k + 1][<<t, v>>], u[k + 1], s[k + 1][<<t, v>>])
            <4>1. t \in Types
                BY <1>0
            <4>2. /\ w[k + 1][<<t, v>>] = WriteType(by, w[k], t, v)
                  /\ \A pos \in Nat : u[k + 1][<<t, pos>>] = ReadType(reg, u[k], buf, t, pos)
                  /\ f[k + 1][<<t, v>>] = Fit(names, f[k], t, v)
                  /\ s[k + 1][<<t, v>>] = SeenType(names, s[k], t, v)
                <5>1. k \in 0..(Depth - 1)
                    BY <3>1
                <5>2. /\ w[k + 1][<<t, v>>] = WriteType(by, w[k], t, v)
                      /\ f[k + 1][<<t, v>>] = Fit(names, f[k], t, v)
                      /\ s[k + 1][<<t, v>>] = SeenType(names, s[k], t, v)
                    BY <4>1, <5>1, LevelIs
                <5>3. \A pos \in Nat : u[k + 1][<<t, pos>>] = ReadType(reg, u[k], buf, t, pos)
                    BY <4>1, <5>1, ReadLevelIs
                <5> QED BY <5>2, <5>3
            <4> HIDE DEF w, u, f, s
            <4>3. Fit(names, f[k], t, v)
                BY <3>2, <4>2, Zenon
            <4>4. /\ w[k + 1][<<t, v>>] \in Seq(Int)
                  /\ \A pos : Holds(buf, pos, w[k + 1][<<t, v>>]) =>
                        ReadType(reg, u[k], buf, t, pos) = Read(pos + Len(w[k + 1][<<t, v>>]), s[k + 1][<<t, v>>])
                BY <3>1, <4>2, <4>3, TypeBack
            <4>5. \A pos : Holds(buf, pos, w[k + 1][<<t, v>>]) => pos \in Nat
                BY DEF Holds
            <4> QED BY <4>2, <4>4, <4>5 DEF ReadBack
        <3> HIDE DEF w, u, f, s
        <3> QED BY <3>2 DEF Back
    <2>5. Nat \subseteq G
        <3> HIDE DEF G
        <3> QED BY <2>3, <2>4, NatAll
    <2> QED BY <1>0, <2>5
<1> QED BY <1>1, <1>2

\* What is written of a value that fits its definitions is bytes, and whoever agrees with
\* the definitions reads it to the last byte as what was meant.
LEMMA RoundTrip ==
    ASSUME NEW reg, NEW by, NEW names, NEW types, Agrees(reg, by, names, types),
           NEW v \in Values, Fits(names, v)
    PROVE  Understood(reg, Encode(by, v), Seen(names, v))
<1> DEFINE bytes == Encode(by, v)
<1>1. Depth \in 0..Depth /\ Anything \in types
    BY CodecAssumption DEF Agrees
<1>2. bytes \in Seq(Int)
    <2>1. <<>> \in Seq(Int)
        OBVIOUS
    <2>2. Back(<<>>, types, Written(by)[Depth], Understand(reg, <<>>)[Depth], Fitting(names)[Depth], Seeing(names)[Depth])
        BY <1>1, <2>1, EachLevelBack
    <2> QED BY <1>1, <2>2 DEF Back, ReadBack, Fits, Encode
<1>3. Back(bytes, types, Written(by)[Depth], Understand(reg, bytes)[Depth], Fitting(names)[Depth], Seeing(names)[Depth])
    BY <1>1, <1>2, EachLevelBack
<1>4. ReadBack(bytes, Anything, Written(by)[Depth][<<Anything, v>>], Understand(reg, bytes)[Depth], Seeing(names)[Depth][<<Anything, v>>])
    BY <1>1, <1>3 DEF Back, Fits
<1>5. bytes = Written(by)[Depth][<<Anything, v>>]
    BY DEF Encode
<1> HIDE DEF bytes
<1>6. Holds(bytes, 1, bytes)
    <2>1. Len(bytes) \in Nat /\ 1 - 1 = 0 /\ \A i \in 1..Len(bytes) : 0 + i = i
        BY <1>2
    <2> QED BY <1>2, <2>1 DEF Holds
<1>7. Understand(reg, bytes)[Depth][<<Anything, 1>>] = Read(1 + Len(bytes), Seeing(names)[Depth][<<Anything, v>>])
    BY <1>4, <1>5, <1>6 DEF ReadBack
<1>8. 1 + Len(bytes) = Len(bytes) + 1
    BY <1>2
<1>9. Decode(reg, bytes).pos = Len(bytes) + 1 /\ Decode(reg, bytes).v = Seen(names, v)
    BY <1>7, <1>8 DEF Decode, Read, Seen
<1> QED BY <1>9 DEF Understood, bytes

(***************************************************************************)
(* The schema agrees with what is said with it.                            *)
(***************************************************************************)
Bared(t) == IF t.kind \in {"vector", "flag"} THEN t.inner ELSE t
Peels(f, t, depth) == f = [n \in 0..depth |-> IF n = 0 THEN t ELSE Bared(f[n - 1])]

\* What Peeled is: it exists and unfolds.
LEMMA PeelsExists ==
    ASSUME NEW t, NEW depth \in Nat
    PROVE  \E f : Peels(f, t, depth)
<1> DEFINE G == {k \in Nat : \E f : Peels(f, t, k)}
<1>1. 0 \in G
    <2>1. Peels([n \in 0..0 |-> t], t, 0)
        BY DEF Peels
    <2> QED BY <2>1
<1>2. ASSUME NEW k \in Nat, k \in G PROVE k + 1 \in G
    <2>1. PICK f : Peels(f, t, k)
        BY <1>2
    <2> DEFINE e == Bared(f[k])
               g == More(f, k, e)
    <2> HIDE DEF e
    <2>2. g = [n \in 0..(k + 1) |-> g[n]]
        BY MoreIs
    <2>3. g[k + 1] = e /\ \A n \in 0..k : g[n] = f[n]
        BY MoreIs
    <2> HIDE DEF g
    <2>4. ASSUME NEW n \in 0..(k + 1) PROVE g[n] = IF n = 0 THEN t ELSE Bared(g[n - 1])
        <3>1. CASE n \in 0..k
            <4>1. n # 0 => g[n - 1] = f[n - 1]
                BY <2>3, <3>1
            <4>2. f[n] = IF n = 0 THEN t ELSE Bared(f[n - 1])
                BY <2>1, <3>1 DEF Peels
            <4> QED BY <2>3, <3>1, <4>1, <4>2
        <3>2. CASE n = k + 1
            <4>1. n # 0 /\ g[n - 1] = f[k]
                BY <2>3, <3>2
            <4> QED BY <2>3, <3>2, <4>1 DEF e
        <3> QED BY <3>1, <3>2
    <2>5. Peels(g, t, k + 1)
        BY <2>2, <2>4 DEF Peels
    <2> QED BY <2>5
<1>3. Nat \subseteq G
    <2> HIDE DEF G
    <2> QED BY <1>1, <1>2, NatAll
<1> QED BY <1>3

LEMMA PeeledIs ==
    ASSUME NEW t
    PROVE  Peeled(t)[0] = t /\ \A n \in 0..(Nesting - 1) : Peeled(t)[n + 1] = Bared(Peeled(t)[n])
<1> DEFINE f == Peeled(t)
<1>0. Nesting \in Nat
    BY SchemaAssumption
<1>1. f = CHOOSE g : Peels(g, t, Nesting)
    BY Zenon DEF Peeled, Peels, Bared
<1>2. Peels(f, t, Nesting)
    <2>1. \E g : Peels(g, t, Nesting)
        BY <1>0, PeelsExists
    <2> HIDE DEF f
    <2> QED BY <1>1, <2>1, Zenon
<1> HIDE DEF f
<1>3. ASSUME NEW n \in 0..Nesting PROVE f[n] = IF n = 0 THEN t ELSE Bared(f[n - 1])
    BY <1>2 DEF Peels
<1>4. f[0] = t
    BY <1>0, <1>3
<1>5. ASSUME NEW n \in 0..(Nesting - 1) PROVE f[n + 1] = Bared(f[n])
    <2>1. n + 1 \in 0..Nesting /\ n + 1 # 0 /\ (n + 1) - 1 = n
        BY <1>0
    <2> QED BY <1>3, <2>1
<1> QED BY <1>4, <1>5 DEF f

\* The type of a parameter is within the lines, and so is what it has inside.
LEMMA WithinClosed ==
    ASSUME NEW lines, lines \subseteq Lines \cup Protocol
    PROVE  /\ \A l \in lines : \A p \in ToSet(l.params) : p.type \in Within(lines)
           /\ \A t \in Within(lines) : t.kind \in {"vector", "flag"} => t.inner \in Within(lines)
<1>0. Nesting \in Nat
    BY SchemaAssumption
<1>1. ASSUME NEW l \in lines, NEW p \in ToSet(l.params) PROVE p.type \in Within(lines)
    <2>1. 0 \in 0..Nesting /\ p.type = Peeled(p.type)[0]
        BY <1>0, PeeledIs
    <2> QED BY <2>1, ParamsWithin
<1>2. ASSUME NEW t \in Within(lines), t.kind \in {"vector", "flag"} PROVE t.inner \in Within(lines)
    <2>1. PICK l \in lines : \E p \in ToSet(l.params) : \E n \in 0..Nesting : t = Peeled(p.type)[n]
        BY ParamsWithin
    <2>2. PICK p \in ToSet(l.params) : \E n \in 0..Nesting : t = Peeled(p.type)[n]
        BY <2>1
    <2>3. PICK n \in 0..Nesting : t = Peeled(p.type)[n]
        BY <2>2
    <2>4. Peeled(p.type)[Nesting].kind \notin {"vector", "flag"}
        BY SchemaAssumption
    <2>5. n \in 0..(Nesting - 1)
        BY <1>0, <1>2, <2>3, <2>4
    <2>6. n + 1 \in 0..Nesting /\ Peeled(p.type)[n + 1] = Bared(t)
        BY <1>0, <2>3, <2>5, PeeledIs
    <2>7. Bared(t) = t.inner
        BY <1>2 DEF Bared
    <2> QED BY <2>6, <2>7, ParamsWithin
<1> QED BY <1>1, <1>2

\* What names has is of the schema, is written by the definitions by as names has it, and
\* reg reads each as itself; and the types there are in it.
Knows(reg, by, names) ==
    \A n \in DOMAIN names : /\ names[n] \in Lines \cup Protocol /\ names[n].name = n
                            /\ n \in DOMAIN by /\ by[n] = names[n]
                            /\ ReadsAs(reg, names[n], names)
TypesOf(names) == {Anything} \cup Within({names[n] : n \in DOMAIN names})

\* Who is known to read the definitions agrees with the schema, by its assumptions.
LEMMA AgreesIf ==
    ASSUME NEW reg, NEW by, NEW names, Knows(reg, by, names)
    PROVE  Agrees(reg, by, names, TypesOf(names))
<1> DEFINE lines == {names[n] : n \in DOMAIN names}
           types == {Anything} \cup Within(lines)
<1>0. \A n \in DOMAIN names : /\ names[n] \in Lines \cup Protocol /\ names[n].name = n
                               /\ n \in DOMAIN by /\ by[n] = names[n]
                               /\ ReadsAs(reg, names[n], names)
    BY DEF Knows
<1>1. lines \subseteq Lines \cup Protocol
    BY <1>0
<1>2. \A n \in DOMAIN names : names[n] \in lines
    OBVIOUS
<1>3. Within(lines) \subseteq Types /\ Anything \in Types
    BY <1>1, BareGrows, WireAssumption, CodecAssumption
<1>4. Anything.kind = "boxed"
    BY DEF Anything
<1>5. /\ \A l \in lines : \A p \in ToSet(l.params) : p.type \in Within(lines)
      /\ \A t \in Within(lines) : t.kind \in {"vector", "flag"} => t.inner \in Within(lines)
    BY <1>1, WithinClosed
<1>6. ASSUME NEW n \in DOMAIN names
      PROVE  /\ IsParams(names[n].params, types)
             /\ Unsigned(names[n].id, 4) /\ names[n].id \notin {BoolTrueId, BoolFalseId, VectorId}
    <2> DEFINE d == names[n]
    <2>1. d \in Lines \cup Protocol /\ d \in lines
        BY <1>0, <1>2
    <2> HIDE DEF d, lines
    <2>2. /\ Unsigned(d.id, 4) /\ d.id \notin {BoolTrueId, BoolFalseId, VectorId}
          /\ d.params \in Seq(ToSet(d.params))
          /\ \A i, j \in DOMAIN d.params : d.params[i].name = d.params[j].name => i = j
          /\ MasksFirst(d.params)
        BY <2>1, WireAssumption
    <2>3. Len(d.params) \in Nat /\ DOMAIN d.params = 1..Len(d.params)
        BY <2>2
    <2>4. ASSUME NEW i \in DOMAIN d.params PROVE Inner(d.params[i]) \in types
        <3>1. d.params[i] \in ToSet(d.params)
            BY DEF ToSet
        <3>2. d.params[i].type \in Within(lines)
            BY <1>5, <2>1, <3>1
        <3>3. d.params[i].type.kind = "flag" => d.params[i].type.inner \in Within(lines)
            BY <1>5, <3>2
        <3> QED BY <3>2, <3>3 DEF Inner
    <2>5. IsParams(d.params, types)
        BY <2>2, <2>3, <2>4 DEF IsParams
    <2> QED BY <2>2, <2>5 DEF d
<1>7. ASSUME NEW t \in types, t.kind = "bare", t.name \in DOMAIN names
      PROVE  t.name \in DOMAIN reg.byName /\ reg.byName[t.name] = names[t.name]
    <2>1. t \in Within(lines)
        BY <1>4, <1>7
    <2>2. PICK l \in lines : \E p \in ToSet(l.params) : \E n \in 0..Nesting : t = Peeled(p.type)[n]
        <3> HIDE DEF lines
        <3> QED BY <2>1, ParamsWithin
    <2>3. t \in Within({l})
        <3>1. l \in {l}
            OBVIOUS
        <3> QED BY <2>2, <3>1, ParamsWithin
    <2>4. t.name \in BareOf({l})
        BY <1>7, <2>3 DEF BareOf
    <2>5. PICK n \in DOMAIN names : l = names[n]
        OBVIOUS
    <2>6. ReadsAs(reg, l, names)
        BY <1>0, <2>5
    <2> QED BY <2>4, <2>6 DEF ReadsAs
<1>8. ASSUME NEW n \in DOMAIN names
      PROVE  names[n].id \in DOMAIN reg.byId /\ reg.byId[names[n].id] = names[n]
    BY <1>0 DEF ReadsAs
<1>9. \A t \in types : t.kind = "vector" => t.inner \in types
    BY <1>4, <1>5
<1>10. types \subseteq Types /\ Anything \in types
    BY <1>3
<1> HIDE DEF types
<1>11. \A n \in DOMAIN names :
        LET d == names[n]
        IN /\ n \in DOMAIN by /\ by[n] = d /\ d.name = n
           /\ IsParams(d.params, types)
           /\ Unsigned(d.id, 4) /\ d.id \notin {BoolTrueId, BoolFalseId, VectorId}
           /\ d.id \in DOMAIN reg.byId /\ reg.byId[d.id] = d
    BY <1>0, <1>6, <1>8, Zenon
<1>12. \A t \in types :
        t.kind = "bare" /\ t.name \in DOMAIN names =>
            t.name \in DOMAIN reg.byName /\ reg.byName[t.name] = names[t.name]
    BY <1>7, Zenon
<1>13. Agrees(reg, by, names, types)
    BY <1>9, <1>10, <1>11, <1>12 DEF Agrees
<1> QED BY <1>13 DEF types, lines, TypesOf

LEMMA KnownIsUnderstood ==
    ASSUME NEW reg, NEW by, NEW names, Knows(reg, by, names), NEW v \in Values, Fits(names, v)
    PROVE  Understood(reg, Encode(by, v), Seen(names, v))
BY AgreesIf, RoundTrip

\* Whatever edits that keep what is used bare (BareKept) have made of the schema, the
\* server reads what a client of any layer or the studio sends to its last byte, as what
\* was meant (gateway.ts:79-81, codec.ts:85-127).
THEOREM RequestsAreUnderstood == HistorySpec => []RequestsUnderstood
<1>1. ASSUME HistoryInv, NEW speaker \in {Client(layer) : layer \in DOMAIN frozen} \cup {Studio}
      PROVE  Knows(Server, speaker.byName, speaker.byName)
    <2>1. CASE speaker = Studio
        BY <1>1, <2>1, StudioResolved DEF Knows
    <2>2. CASE \E layer \in DOMAIN frozen : speaker = Client(layer)
        <3>1. PICK layer \in DOMAIN frozen : speaker = Client(layer)
            BY <2>2
        <3> QED BY <1>1, <3>1, ClientResolved DEF Knows
    <2> QED BY <2>1, <2>2
<1>2. HistoryInv => RequestsUnderstood
    BY <1>1, KnownIsUnderstood DEF RequestsUnderstood
<1> QED BY <1>2, HistoryInvAlways, PTL

\* What a client of the layer knows is what the server writes for it.
LEMMA KnownIsWritten ==
    ASSUME HistoryInv, NEW shipped \in DOMAIN frozen, NEW layer \in UnchangedFrom(shipped)
    PROVE  \A n \in DOMAIN KnownAt(shipped) :
               /\ n \in Named(frozen[shipped]) \cup Named(Protocol)
               /\ KnownAt(shipped)[n] \in frozen[shipped] \cup Protocol
               /\ KnownAt(shipped)[n] \in Lines \cup Protocol /\ KnownAt(shipped)[n].name = n
               /\ n \in DOMAIN DefsForWrite(layer) /\ DefsForWrite(layer)[n] = KnownAt(shipped)[n]
<1> DEFINE own == frozen[shipped]
           names == DefsForWrite(layer)
           known == KnownAt(shipped)
<1>1. /\ own \in Sources
      /\ \A n \in Named(own) : names[n] = Line(own, n)
      /\ \A n \in Named(Protocol) \ Named(own) : names[n] = Line(Protocol, n)
      /\ Named(own) \cup Named(Protocol) \subseteq DOMAIN names
    BY WrittenAs
<1>2. known = [n \in Named(own) \cup Named(Protocol) |->
                  IF n \in Named(own) THEN Line(own, n) ELSE Line(Protocol, n)]
    BY DEF KnownAt
<1>3. Protocol \in Sources
    BY DEF Sources
<1> HIDE DEF own, names, known
<1>4. own \subseteq Lines \cup Protocol
    BY <1>1, SourceFacts
<1>5. ASSUME NEW n \in Named(own)
      PROVE  Line(own, n) \in own /\ Line(own, n).name = n
    BY <1>1, SourceFacts, OneLine
<1>6. ASSUME NEW n \in Named(Protocol)
      PROVE  Line(Protocol, n) \in Protocol /\ Line(Protocol, n).name = n
    BY <1>3, SourceFacts, OneLine
<1>7. ASSUME NEW n \in DOMAIN known
      PROVE  /\ n \in Named(own) \cup Named(Protocol)
             /\ known[n] \in own \cup Protocol /\ known[n] \in Lines \cup Protocol /\ known[n].name = n
             /\ n \in DOMAIN names /\ names[n] = known[n]
    <2>1. CASE n \in Named(own)
        BY <1>1, <1>2, <1>4, <1>5, <2>1
    <2>2. CASE n \in Named(Protocol) \ Named(own)
        BY <1>1, <1>2, <1>6, <2>2
    <2> QED BY <1>2, <2>1, <2>2
<1> QED BY <1>7 DEF own, names, known

\* What has bare constructors known at the layer reads by them as by the server's names.
LEMMA KnownReadsAs ==
    ASSUME HistoryInv, NEW shipped \in DOMAIN frozen, NEW layer \in UnchangedFrom(shipped),
           NEW reg, NEW d \in frozen[shipped] \cup Protocol, ReadsAs(reg, d, DefsForWrite(layer))
    PROVE  ReadsAs(reg, d, KnownAt(shipped))
<1>1. ASSUME NEW b \in BareOf({d})
      PROVE  b \in DOMAIN KnownAt(shipped) /\ KnownAt(shipped)[b] = DefsForWrite(layer)[b]
    <2>1. frozen[shipped] \in Sources /\ Protocol \in Sources
        BY DEF Sources
    <2>2. b \in Named(frozen[shipped]) \cup Named(Protocol)
        BY <2>1, BareMember, SourceFacts DEF WellFormed
    <2>3. b \in DOMAIN KnownAt(shipped)
        BY <2>2 DEF KnownAt
    <2> QED BY <2>3, KnownIsWritten
<1> QED BY <1>1 DEF ReadsAs

\* What the server writes for a layer, of what a client of the layer knows, the client
\* and, under BareKept, a studio that has the layer read to its last byte, as what was
\* meant (codec.ts:42-48, spec.ts:378-386).
THEOREM AnswersAreUnderstood == HistorySpec => []AnswersUnderstood
<1>1. ASSUME HistoryInv, NEW shipped \in DOMAIN frozen, NEW layer \in UnchangedFrom(shipped),
             NEW reg,
             \A n \in Named(frozen[shipped]) \cup Named(Protocol) :
                 ReadsAs(reg, DefsForWrite(layer)[n], DefsForWrite(layer))
      PROVE  Knows(reg, DefsForWrite(layer), KnownAt(shipped))
    <2> DEFINE known == KnownAt(shipped)
               names == DefsForWrite(layer)
    <2>1. ASSUME NEW n \in DOMAIN known
          PROVE  /\ known[n] \in Lines \cup Protocol /\ known[n].name = n
                 /\ n \in DOMAIN names /\ names[n] = known[n]
                 /\ ReadsAs(reg, known[n], known)
        <3>1. /\ n \in Named(frozen[shipped]) \cup Named(Protocol)
              /\ known[n] \in frozen[shipped] \cup Protocol
              /\ known[n] \in Lines \cup Protocol /\ known[n].name = n
              /\ n \in DOMAIN names /\ names[n] = known[n]
            BY <1>1, <2>1, KnownIsWritten
        <3>2. ReadsAs(reg, names[n], names)
            BY <1>1, <3>1
        <3> HIDE DEF known, names
        <3>3. ReadsAs(reg, known[n], names)
            BY <3>1, <3>2
        <3>4. ReadsAs(reg, known[n], known)
            BY <1>1, <3>1, <3>3, KnownReadsAs DEF known, names
        <3> QED BY <3>1, <3>4
    <2> QED BY <2>1 DEF Knows
<1>2. ASSUME HistoryInv, NEW shipped \in DOMAIN frozen, NEW layer \in UnchangedFrom(shipped)
      PROVE  /\ Knows(Client(shipped), DefsForWrite(layer), KnownAt(shipped))
             /\ shipped \in DOMAIN built => Knows(Studio, DefsForWrite(layer), KnownAt(shipped))
    <2>1. \A n \in Named(frozen[shipped]) \cup Named(Protocol) :
              /\ ReadsAs(Client(shipped), DefsForWrite(layer)[n], DefsForWrite(layer))
              /\ shipped \in DOMAIN built => ReadsAs(Studio, DefsForWrite(layer)[n], DefsForWrite(layer))
        BY <1>2, AnswerResolved
    <2>2. Knows(Client(shipped), DefsForWrite(layer), KnownAt(shipped))
        BY <1>1, <1>2, <2>1
    <2>3. ASSUME shipped \in DOMAIN built PROVE Knows(Studio, DefsForWrite(layer), KnownAt(shipped))
        BY <1>1, <1>2, <2>1, <2>3
    <2> QED BY <2>2, <2>3
<1>3. HistoryInv => AnswersUnderstood
    BY <1>2, KnownIsUnderstood DEF AnswersUnderstood
<1> QED BY <1>3, HistoryInvAlways, PTL
=============================================================================
