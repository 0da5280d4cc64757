----------------------- MODULE GatewaySessionsProofs -----------------------
(***************************************************************************)
(* What GatewaySessions guarantees for any set of connections, keys,       *)
(* sessions and subjects, any traffic and any bounds.                      *)
(***************************************************************************)
EXTENDS GatewaySessions, SequenceTheorems, TLAPS

(***************************************************************************)
(* What the dispatcher turns to next is well-typed work, and it stands at  *)
(* its request.                                                            *)
(***************************************************************************)
LEMMA DispatchType ==
    ASSUME NEW requests \in Seq(Request)
    PROVE  /\ Dispatch(requests) \in Work
           /\ AtItsRequest(Dispatch(requests))
           /\ Dispatch(requests).at \notin {"patch", "save", "touch", "destroy"}
           /\ Dispatch(requests).rec = None /\ Dispatch(requests).existing = None
  <1>1. CASE requests = <<>>
    BY <1>1 DEF Dispatch, Idle, Work, Steps, SubjectOrNone, AtItsRequest, RequestSteps
  <1>2. CASE requests # <<>>
    <2>1. Head(requests) \in Request
      BY <1>2
    <2>2. Head(requests).kind \in {"other", "bindUser", "unbindUser", "revokeKey", "destroy_session"}
      BY <2>1 DEF Request
    <2>3. QED
      BY <1>2, <2>2 DEF Dispatch, Idle, Work, Steps, SubjectOrNone, AtItsRequest,
                        RequestSteps, KindOf
  <1>3. QED
    BY <1>1, <1>2

(***************************************************************************)
(* A connection that stands at bindUser or at the patch that follows has a *)
(* subject at hand, one that stands at destroy_session a session.          *)
(***************************************************************************)
LEMMA RequestAtHand ==
    ASSUME NEW w \in Work, AtItsRequest(w), w.at \in RequestSteps
    PROVE  /\ w.requests # <<>> /\ Tail(w.requests) \in Seq(Request)
           /\ w.at \in {"bindUser", "patch"} => Head(w.requests).subject \in Subjects
           /\ w.at \in {"destroy_session", "destroy"} => Head(w.requests).sess \in Sessions
  <1>1. w.requests \in Seq(Request) /\ w.requests # <<>>
    BY DEF Work, AtItsRequest
  <1>2. Head(w.requests) \in Request /\ Tail(w.requests) \in Seq(Request)
    BY <1>1
  <1>3. Head(w.requests).kind = KindOf(w.at)
    BY DEF AtItsRequest
  <1>4. w.at \in {"bindUser", "patch"} => Head(w.requests).kind = "bindUser"
    BY <1>3 DEF KindOf
  <1>5. w.at \in {"destroy_session", "destroy"} => Head(w.requests).kind = "destroy_session"
    BY <1>3 DEF KindOf
  <1>6. Head(w.requests).kind = "bindUser" => Head(w.requests).subject \in Subjects
    BY <1>2 DEF Request
  <1>7. Head(w.requests).kind = "destroy_session" => Head(w.requests).sess \in Sessions
    BY <1>2 DEF Request
  <1>8. QED
    BY <1>1, <1>2, <1>4, <1>5, <1>6, <1>7

-----------------------------------------------------------------------------
LEMMA TypeInit == Init => TypeOK
  BY GatewayAssumption DEF Init, TypeOK, StorageType, CarrierType, ProcessType, RegistryType,
                           Idle, Work, Ctx, Steps, SubjectOrNone, AtItsRequest, RequestSteps

\* Moving on to another step or taking note of a subject keeps work well-typed.
LEMMA WorkAt ==
    ASSUME NEW w \in Work, NEW step \in Steps \ RequestSteps, NEW subject \in SubjectOrNone
    PROVE  /\ [w EXCEPT !.at = step] \in Work
           /\ AtItsRequest([w EXCEPT !.at = step])
           /\ [w EXCEPT !.at = step, !.existing = subject] \in Work
           /\ AtItsRequest([w EXCEPT !.at = step, !.existing = subject])
  BY DEF Work, AtItsRequest

LEMMA CtxSubject ==
    ASSUME NEW x \in Ctx, NEW subject \in SubjectOrNone
    PROVE  /\ [x EXCEPT !.subject = subject] \in Ctx
           /\ [x EXCEPT !.subject = subject].key = x.key
           /\ [x EXCEPT !.subject = subject].sess = x.sess
           /\ [x EXCEPT !.subject = subject].subject = subject
  BY DEF Ctx

LEMMA IdleType == Idle \in Work /\ AtItsRequest(Idle) /\ Idle.at = "idle"
  BY DEF Idle, Work, Steps, SubjectOrNone, AtItsRequest, RequestSteps

(***************************************************************************)
(* A connection whose work and context change to well-typed ones.          *)
(***************************************************************************)
LEMMA ProcessStep ==
    ASSUME ProcessType, NEW c \in Conns, NEW w \in Work, NEW x \in Ctx,
           AtItsRequest(w),
           w.at # "idle" => x.key # None /\ x.sess # None,
           work' = [work EXCEPT ![c] = w],
           ctx' = [ctx EXCEPT ![c] = x]
    PROVE  ProcessType'
  <1>1. ctx' \in [Conns -> Ctx] /\ work' \in [Conns -> Work]
    BY DEF ProcessType
  <1>2. ASSUME NEW d \in Conns
        PROVE  /\ work'[d].at # "idle" => ctx'[d].key # None /\ ctx'[d].sess # None
               /\ AtItsRequest(work'[d])
    BY DEF ProcessType
  <1>3. QED
    BY <1>1, <1>2 DEF ProcessType

\* As above, of a connection that is not idle and keeps its context.
LEMMA WorkStep ==
    ASSUME ProcessType, NEW c \in Conns, NEW w \in Work, AtItsRequest(w),
           w.at = "idle" \/ work[c].at # "idle",
           work' = [work EXCEPT ![c] = w],
           ctx' = ctx
    PROVE  ProcessType'
  <1>1. ctx[c] \in Ctx /\ ctx' = [ctx EXCEPT ![c] = ctx[c]]
    BY DEF ProcessType
  <1>2. w.at # "idle" => ctx[c].key # None /\ ctx[c].sess # None
    BY DEF ProcessType
  <1>3. QED
    BY <1>1, <1>2, ProcessStep

\* The requests left after the one a connection stands at.
LEMMA RestOfRequests ==
    ASSUME ProcessType, NEW c \in Conns, work[c].at \in RequestSteps
    PROVE  /\ work[c] \in Work /\ AtItsRequest(work[c])
           /\ ctx[c] \in Ctx /\ ctx[c].key \in Keys /\ ctx[c].sess \in Sessions
           /\ Tail(work[c].requests) \in Seq(Request)
           /\ Dispatch(Tail(work[c].requests)) \in Work
           /\ AtItsRequest(Dispatch(Tail(work[c].requests)))
  <1>1. work[c] \in Work /\ AtItsRequest(work[c]) /\ ctx[c] \in Ctx
    BY DEF ProcessType
  <1>2. ctx[c].key \in Keys /\ ctx[c].sess \in Sessions
    BY <1>1 DEF ProcessType, RequestSteps, Ctx
  <1>3. Tail(work[c].requests) \in Seq(Request)
    BY <1>1, RequestAtHand
  <1>4. QED
    BY <1>1, <1>2, <1>3, DispatchType

\* The registry stays well-typed under each of its operations.
LEMMA RegistryStep ==
    ASSUME RegistryType, ProcessType, NEW c \in Conns, NEW subject \in SubjectOrNone,
           \/ BindKeyAndSubject(c, subject) /\ work[c].at # "idle"
           \/ Bind(c, subject) \/ Unbind(c) \/ UNCHANGED registry
    PROVE  RegistryType'
  <1>1. CASE BindKeyAndSubject(c, subject) /\ work[c].at # "idle"
    <2>1. ctx[c].key \in Keys
      BY <1>1 DEF ProcessType, Ctx
    <2>2. QED
      BY <1>1, <2>1 DEF BindKeyAndSubject, KeyConnsAfter, RegistryType
  <1>2. CASE Bind(c, subject)
    BY <1>2 DEF Bind, RegistryType
  <1>3. CASE Unbind(c)
    BY <1>3 DEF Unbind, RegistryType, SubjectOrNone
  <1>4. CASE UNCHANGED registry
    BY <1>4 DEF registry, RegistryType
  <1>5. QED
    BY <1>1, <1>2, <1>3, <1>4

\* The storage stays well-typed when a session's record is removed.
LEMMA RemoveType ==
    ASSUME StorageType, NEW s \in Sessions, Remove(s), UNCHANGED <<keys, bound, announced>>
    PROVE  StorageType'
  <1>1. ended[s] + 1 \in Nat
    BY DEF StorageType
  <1>2. ended' \in [Sessions -> Nat]
    <2>1. CASE sessions[s] = None
      BY <2>1 DEF Remove, StorageType
    <2>2. CASE sessions[s] # None
      BY <1>1, <2>2 DEF Remove, StorageType
    <2>3. QED
      BY <2>1, <2>2
  <1>3. sessions' \in [Sessions -> StoredSession \cup {None}]
    BY DEF Remove, StorageType
  <1>4. QED
    BY <1>2, <1>3 DEF StorageType

LEMMA TypeNext == TypeOK /\ [Next]_vars => TypeOK'
  <1> SUFFICES ASSUME StorageType, CarrierType, ProcessType, RegistryType, [Next]_vars
               PROVE  StorageType' /\ CarrierType' /\ ProcessType' /\ RegistryType'
    BY DEF TypeOK
  <1> USE GatewayAssumption
  <1> None \in SubjectOrNone
    BY DEF SubjectOrNone
  <1>1. CASE UNCHANGED vars
    BY <1>1 DEF vars, storage, registry, history, StorageType, CarrierType, ProcessType,
                RegistryType
  <1>2. ASSUME NEW c \in Conns, Arrive(c)
        PROVE  StorageType' /\ CarrierType' /\ ProcessType' /\ RegistryType'
    <2>1. CarrierType'
      BY <1>2 DEF Arrive, CarrierType
    <2>2. QED
      BY <1>2, <2>1 DEF Arrive, storage, registry, history, StorageType, ProcessType, RegistryType
  <1>3. ASSUME NEW c \in Conns, SocketCloses(c)
        PROVE  StorageType' /\ CarrierType' /\ ProcessType' /\ RegistryType'
    <2>1. RegistryType'
      BY <1>3, RegistryStep DEF SocketCloses
    <2>2. CarrierType'
      BY <1>3 DEF SocketCloses, CarrierType
    <2>3. QED
      BY <1>3, <2>1, <2>2 DEF SocketCloses, storage, history, StorageType, ProcessType
  <1>4. ASSUME NEW c \in Conns, ReadKey(c)
        PROVE  StorageType' /\ CarrierType' /\ ProcessType' /\ RegistryType'
    <2> DEFINE p == Head(queue[c])
    <2>1. p \in Packet /\ Tail(queue[c]) \in Seq(Packet)
      BY <1>4 DEF ReadKey, CarrierType
    <2>2. p.key \in Keys /\ p.sess \in Sessions /\ p.requests \in Seq(Request)
      BY <2>1 DEF Packet
    <2>3. CarrierType'
      BY <1>4, <2>1 DEF ReadKey, Closed, CarrierType
    <2>4. ProcessType'
      <3>1. CASE keys[p.key].blocked
        BY <1>4, <3>1 DEF ReadKey, ProcessType
      <3>2. CASE ~keys[p.key].blocked
        <4> DEFINE w == [Idle EXCEPT !.at = "salts", !.rec = keys[p.key].subject,
                                     !.requests = p.requests]
        <4>1. keys[p.key].subject \in Subjects \cup {None}
          BY <2>2 DEF StorageType
        <4>2. w \in Work /\ AtItsRequest(w)
          BY <2>2, <4>1 DEF Idle, Work, Steps, SubjectOrNone, AtItsRequest, RequestSteps
        <4>3. ctx[c] \in Ctx
          BY DEF ProcessType
        <4>4. Context(c, p) \in Ctx /\ Context(c, p).key = p.key /\ Context(c, p).sess = p.sess
          BY <2>2, <4>3 DEF Context, Ctx
        <4>5. Context(c, p).key # None /\ Context(c, p).sess # None
          BY <2>2, <4>4
        <4>6. work' = [work EXCEPT ![c] = w] /\ ctx' = [ctx EXCEPT ![c] = Context(c, p)]
          BY <1>4, <3>2 DEF ReadKey
        <4> HIDE DEF w, p
        <4>7. QED
          BY <4>2, <4>4, <4>5, <4>6, ProcessStep
      <3>3. QED
        BY <3>1, <3>2
    <2>5. QED
      BY <1>4, <2>3, <2>4 DEF ReadKey, storage, registry, history, StorageType, RegistryType
  <1>5. ASSUME NEW c \in Conns, CheckPacket(c)
        PROVE  StorageType' /\ CarrierType' /\ ProcessType' /\ RegistryType'
    <2> DEFINE w == [work[c] EXCEPT !.at = "session"]
    <2>1. work[c] \in Work
      BY DEF ProcessType
    <2>2. w \in Work /\ AtItsRequest(w)
      BY <2>1, WorkAt DEF Steps, RequestSteps
    <2>3. work[c].at # "idle" /\ ctx' = ctx
          /\ (work' = [work EXCEPT ![c] = Idle] \/ work' = [work EXCEPT ![c] = w])
      BY <1>5 DEF CheckPacket
    <2> HIDE DEF w
    <2>4. ProcessType'
      BY <2>2, <2>3, IdleType, WorkStep
    <2>5. QED
      BY <1>5, <2>4 DEF CheckPacket, storage, registry, history, StorageType, CarrierType,
                        RegistryType
  <1>6. ASSUME NEW c \in Conns, FindSession(c)
        PROVE  StorageType' /\ CarrierType' /\ ProcessType' /\ RegistryType'
    <2>1. work[c] \in Work /\ ctx[c] \in Ctx /\ ctx[c].key \in Keys /\ ctx[c].sess \in Sessions
      BY <1>6 DEF FindSession, ProcessType, Ctx
    <2>2. work[c].rec \in SubjectOrNone
      BY <2>1 DEF Work, SubjectOrNone
    <2>3. ProcessType'
      <3>1. CASE Existing(c) = None
        <4> DEFINE w == [work[c] EXCEPT !.at = "save"]
                   x == [ctx[c] EXCEPT !.subject = SubjectOfNew(c)]
        <4>1. w \in Work /\ AtItsRequest(w)
          BY <2>1, WorkAt DEF Steps, RequestSteps
        <4>2. x \in Ctx /\ x.key = ctx[c].key /\ x.sess = ctx[c].sess
          BY <2>1, <2>2, CtxSubject DEF SubjectOfNew
        <4>3. work' = [work EXCEPT ![c] = w] /\ ctx' = [ctx EXCEPT ![c] = x]
          BY <1>6, <3>1 DEF FindSession
        <4> HIDE DEF w, x
        <4>4. QED
          BY <2>1, <4>1, <4>2, <4>3, ProcessStep
      <3>2. CASE Existing(c) # None /\ Existing(c).key = ctx[c].key
        <4> DEFINE w == [work[c] EXCEPT !.at = "touch", !.existing = Existing(c).subject]
        <4>1. Existing(c).subject \in SubjectOrNone
          BY <2>1, <3>2 DEF Existing, StorageType, StoredSession, SubjectOrNone
        <4>2. w \in Work /\ AtItsRequest(w)
          BY <2>1, <4>1, WorkAt DEF Steps, RequestSteps
        <4>3. work' = [work EXCEPT ![c] = w] /\ ctx' = ctx /\ work[c].at # "idle"
          BY <1>6, <3>2 DEF FindSession
        <4> HIDE DEF w
        <4>4. QED
          BY <4>2, <4>3, WorkStep
      <3>3. CASE Existing(c) # None /\ Existing(c).key # ctx[c].key
        <4> DEFINE w == [work[c] EXCEPT !.at = "delete"]
        <4>1. w \in Work /\ AtItsRequest(w)
          BY <2>1, WorkAt DEF Steps, RequestSteps
        <4>2. work' = [work EXCEPT ![c] = w] /\ ctx' = ctx /\ work[c].at # "idle"
          BY <1>6, <3>3 DEF FindSession
        <4> HIDE DEF w
        <4>3. QED
          BY <4>1, <4>2, WorkStep
      <3>4. QED
        BY <3>1, <3>2, <3>3
    <2>4. QED
      BY <1>6, <2>3 DEF FindSession, storage, registry, history, StorageType, CarrierType,
                        RegistryType
  <1>7. ASSUME NEW c \in Conns, TouchSession(c)
        PROVE  StorageType' /\ CarrierType' /\ ProcessType' /\ RegistryType'
    <2> DEFINE w == Dispatch(work[c].requests)
               x == [ctx[c] EXCEPT !.subject = work[c].existing]
    <2>1. work[c] \in Work /\ ctx[c] \in Ctx /\ work[c].at # "idle"
      BY <1>7 DEF TouchSession, ProcessType
    <2>2. work[c].existing \in SubjectOrNone /\ work[c].requests \in Seq(Request)
      BY <2>1 DEF Work
    <2>3. w \in Work /\ AtItsRequest(w)
      BY <2>2, DispatchType
    <2>4. x \in Ctx /\ x.key = ctx[c].key /\ x.sess = ctx[c].sess
      BY <2>1, <2>2, CtxSubject
    <2>5. work' = [work EXCEPT ![c] = w] /\ ctx' = [ctx EXCEPT ![c] = x]
      BY <1>7 DEF TouchSession
    <2>6. x.key # None /\ x.sess # None
      BY <2>1, <2>4 DEF ProcessType
    <2> HIDE DEF w, x
    <2>7. ProcessType'
      BY <2>3, <2>4, <2>5, <2>6, ProcessStep
    <2>8. RegistryType'
      BY <1>7, <2>1, <2>2, RegistryStep DEF TouchSession
    <2>9. QED
      BY <1>7, <2>7, <2>8 DEF TouchSession, storage, history, StorageType, CarrierType
  <1>8. ASSUME NEW c \in Conns, DeleteForeign(c)
        PROVE  StorageType' /\ CarrierType' /\ ProcessType' /\ RegistryType'
    <2> DEFINE w == [work[c] EXCEPT !.at = "save"]
               x == [ctx[c] EXCEPT !.subject = SubjectOfNew(c)]
    <2>1. work[c] \in Work /\ ctx[c] \in Ctx /\ work[c].at # "idle"
      BY <1>8 DEF DeleteForeign, ProcessType
    <2>2. SubjectOfNew(c) \in SubjectOrNone
      BY <2>1 DEF Work, SubjectOfNew, SubjectOrNone
    <2>3. w \in Work /\ AtItsRequest(w)
      BY <2>1, WorkAt DEF Steps, RequestSteps
    <2>4. x \in Ctx /\ x.key = ctx[c].key /\ x.sess = ctx[c].sess
      BY <2>1, <2>2, CtxSubject
    <2>5. work' = [work EXCEPT ![c] = w] /\ ctx' = [ctx EXCEPT ![c] = x]
      BY <1>8 DEF DeleteForeign
    <2>6. x.key # None /\ x.sess # None
      BY <2>1, <2>4 DEF ProcessType
    <2> HIDE DEF w, x
    <2>7. ProcessType'
      BY <2>3, <2>4, <2>5, <2>6, ProcessStep
    <2>8. StorageType'
      <3>1. ctx[c].sess \in Sessions
        BY <2>1 DEF ProcessType, Ctx
      <3>2. QED
        BY <1>8, <3>1, RemoveType DEF DeleteForeign
    <2>9. QED
      BY <1>8, <2>7, <2>8 DEF DeleteForeign, registry, CarrierType, RegistryType
  <1>9. ASSUME NEW c \in Conns, SaveSession(c)
        PROVE  StorageType' /\ CarrierType' /\ ProcessType' /\ RegistryType'
    <2>1. work[c] \in Work /\ ctx[c] \in Ctx /\ work[c].at # "idle"
      BY <1>9 DEF SaveSession, ProcessType
    <2>2. ctx[c].key \in Keys /\ ctx[c].sess \in Sessions /\ ctx[c].subject \in SubjectOrNone
      BY <2>1 DEF ProcessType, Ctx
    <2>3. work[c].requests \in Seq(Request) /\ work[c].rec \in Subjects \cup {None}
      BY <2>1 DEF Work
    <2>4. ProcessType'
      <3>1. Dispatch(work[c].requests) \in Work /\ AtItsRequest(Dispatch(work[c].requests))
        BY <2>3, DispatchType
      <3>2. QED
        BY <1>9, <2>1, <3>1, WorkStep DEF SaveSession
    <2>5. Stored(SubjectOfNew(c)) \in Subjects \cup {Unset}
      BY <2>3 DEF Stored, SubjectOfNew
    <2>6. StorageType'
      BY <1>9, <2>2, <2>5 DEF SaveSession, StorageType, StoredSession
    <2>7. RegistryType'
      BY <1>9, <2>1, <2>2, RegistryStep DEF SaveSession
    <2>8. QED
      BY <1>9, <2>4, <2>6, <2>7 DEF SaveSession, CarrierType
  <1>10. ASSUME NEW c \in Conns, OtherRequest(c) \/ RevokeKey(c)
         PROVE  StorageType' /\ CarrierType' /\ ProcessType' /\ RegistryType'
    <2>1. work[c].at \in RequestSteps /\ work[c].at # "idle"
      BY <1>10 DEF OtherRequest, RevokeKey, RequestSteps, Steps
    <2>2. ProcessType'
      BY <1>10, <2>1, RestOfRequests, WorkStep DEF OtherRequest, RevokeKey, NextRequest
    <2>3. StorageType'
      <3>1. CASE OtherRequest(c)
        BY <3>1 DEF OtherRequest, storage, history, StorageType
      <3>2. CASE RevokeKey(c)
        <4>1. ctx[c].key \in Keys
          BY <2>1, RestOfRequests
        <4>2. [keys[ctx[c].key] EXCEPT !.blocked = TRUE]
                  \in [blocked : BOOLEAN, subject : Subjects \cup {None}]
          BY <4>1 DEF StorageType
        <4>3. keys' = [keys EXCEPT ![ctx[c].key] = [keys[ctx[c].key] EXCEPT !.blocked = TRUE]]
              /\ UNCHANGED <<sessions, history>>
          BY <3>2 DEF RevokeKey
        <4>4. keys' \in [Keys -> [blocked : BOOLEAN, subject : Subjects \cup {None}]]
          BY <4>1, <4>2, <4>3 DEF StorageType
        <4>5. QED
          BY <4>3, <4>4 DEF history, StorageType
      <3>3. QED
        BY <1>10, <3>1, <3>2
    <2>4. QED
      BY <1>10, <2>2, <2>3 DEF OtherRequest, RevokeKey, registry, RegistryType, CarrierType
  <1>11. ASSUME NEW c \in Conns, BindUser(c)
         PROVE  StorageType' /\ CarrierType' /\ ProcessType' /\ RegistryType'
    <2> DEFINE subject == Head(work[c].requests).subject
               w == [work[c] EXCEPT !.at = "patch"]
               x == [ctx[c] EXCEPT !.subject = subject]
    <2>1. work[c].at = "bindUser" /\ work[c].at \in RequestSteps
      BY <1>11 DEF BindUser, RequestSteps, Steps
    <2>2. work[c] \in Work /\ AtItsRequest(work[c]) /\ ctx[c] \in Ctx
          /\ ctx[c].key \in Keys /\ ctx[c].sess \in Sessions
      BY <2>1, RestOfRequests
    <2>3. subject \in Subjects
      BY <2>1, <2>2, RequestAtHand
    <2>4. w \in Work /\ AtItsRequest(w)
      BY <2>1, <2>2 DEF Work, AtItsRequest, KindOf, Steps
    <2>5. x \in Ctx /\ x.key = ctx[c].key /\ x.sess = ctx[c].sess
      BY <2>2, <2>3, CtxSubject DEF SubjectOrNone
    <2>6. work' = [work EXCEPT ![c] = w] /\ ctx' = [ctx EXCEPT ![c] = x]
      BY <1>11 DEF BindUser
    <2>7. StorageType'
      BY <1>11, <2>2, <2>3 DEF BindUser, StorageType
    <2> HIDE DEF w, x, subject
    <2>8. ProcessType'
      BY <2>2, <2>4, <2>5, <2>6, ProcessStep
    <2>9. QED
      BY <1>11, <2>7, <2>8 DEF BindUser, registry, RegistryType, CarrierType
  <1>12. ASSUME NEW c \in Conns, PatchSession(c)
         PROVE  StorageType' /\ CarrierType' /\ ProcessType' /\ RegistryType'
    <2> DEFINE subject == Head(work[c].requests).subject
    <2>1. work[c].at = "patch" /\ work[c].at \in RequestSteps /\ work[c].at # "idle"
      BY <1>12 DEF PatchSession, RequestSteps, Steps
    <2>2. subject \in Subjects
      BY <2>1, RestOfRequests, RequestAtHand
    <2>3. ProcessType'
      BY <1>12, <2>1, RestOfRequests, WorkStep DEF PatchSession, NextRequest
    <2>4. ctx[c].sess \in Sessions
      BY <2>1, RestOfRequests
    <2>5. StorageType'
      <3>1. CASE sessions[ctx[c].sess] = None
        BY <1>12, <3>1 DEF PatchSession, history, StorageType
      <3>2. CASE sessions[ctx[c].sess] # None
        <4>1. sessions[ctx[c].sess] \in StoredSession
          BY <2>4, <3>2 DEF StorageType
        <4>2. [sessions[ctx[c].sess] EXCEPT !.subject = subject]
                  \in StoredSession
          BY <2>2, <4>1 DEF StoredSession
        <4>3. sessions' = [sessions EXCEPT ![ctx[c].sess] =
                               [sessions[ctx[c].sess] EXCEPT !.subject = subject]]
          BY <1>12, <3>2 DEF PatchSession
        <4> HIDE DEF subject
        <4>4. sessions' \in [Sessions -> StoredSession \cup {None}]
          BY <2>4, <4>2, <4>3 DEF StorageType
        <4>5. QED
          BY <1>12, <4>4 DEF PatchSession, history, StorageType
      <3>3. QED
        BY <3>1, <3>2
    <2>6. subject \in SubjectOrNone /\ Bind(c, subject)
      BY <1>12, <2>2 DEF PatchSession, Registered, SubjectOrNone
    <2>7. RegistryType'
      BY <2>6, RegistryStep
    <2>8. QED
      BY <1>12, <2>3, <2>5, <2>7 DEF PatchSession, CarrierType
  <1>13. ASSUME NEW c \in Conns, UnbindUser(c)
         PROVE  StorageType' /\ CarrierType' /\ ProcessType' /\ RegistryType'
    <2> DEFINE w == Dispatch(Tail(work[c].requests))
               x == [ctx[c] EXCEPT !.subject = None]
    <2>1. work[c].at \in RequestSteps
      BY <1>13 DEF UnbindUser, RequestSteps, Steps
    <2>2. w \in Work /\ AtItsRequest(w) /\ ctx[c] \in Ctx
          /\ ctx[c].key \in Keys /\ ctx[c].sess \in Sessions
      BY <2>1, RestOfRequests
    <2>3. x \in Ctx /\ x.key = ctx[c].key /\ x.sess = ctx[c].sess
      BY <2>2, CtxSubject DEF SubjectOrNone
    <2>4. work' = [work EXCEPT ![c] = w] /\ ctx' = [ctx EXCEPT ![c] = x]
      BY <1>13 DEF UnbindUser, NextRequest
    <2>5. StorageType'
      BY <1>13, <2>2 DEF UnbindUser, history, StorageType
    <2>6. RegistryType'
      BY <1>13, RegistryStep DEF UnbindUser
    <2> HIDE DEF w, x
    <2>7. ProcessType'
      BY <2>2, <2>3, <2>4, ProcessStep
    <2>8. QED
      BY <1>13, <2>5, <2>6, <2>7 DEF UnbindUser, CarrierType
  <1>14. ASSUME NEW c \in Conns, DestroySession(c)
         PROVE  StorageType' /\ CarrierType' /\ ProcessType' /\ RegistryType'
    <2> DEFINE w == [work[c] EXCEPT !.at = "destroy"]
    <2>1. work[c].at = "destroy_session" /\ work[c].at \in RequestSteps /\ work[c].at # "idle"
      BY <1>14 DEF DestroySession, RequestSteps, Steps
    <2>2. work[c] \in Work /\ AtItsRequest(work[c])
      BY <2>1, RestOfRequests
    <2>3. w \in Work /\ AtItsRequest(w)
      BY <2>1, <2>2 DEF Work, AtItsRequest, KindOf, Steps
    <2>4. ctx' = ctx /\ (work' = [work EXCEPT ![c] = w]
                         \/ work' = [work EXCEPT ![c] = Dispatch(Tail(work[c].requests))])
      BY <1>14 DEF DestroySession, NextRequest
    <2> HIDE DEF w
    <2>5. ProcessType'
      BY <2>1, <2>3, <2>4, RestOfRequests, WorkStep
    <2>6. QED
      BY <1>14, <2>5 DEF DestroySession, storage, registry, history, StorageType, CarrierType,
                         RegistryType
  <1>15. ASSUME NEW c \in Conns, DeleteSession(c)
         PROVE  StorageType' /\ CarrierType' /\ ProcessType' /\ RegistryType'
    <2>1. work[c].at = "destroy" /\ work[c].at \in RequestSteps /\ work[c].at # "idle"
      BY <1>15 DEF DeleteSession, RequestSteps, Steps
    <2>2. ProcessType'
      BY <1>15, <2>1, RestOfRequests, WorkStep DEF DeleteSession, NextRequest
    <2>3. StorageType'
      <3>1. Head(work[c].requests).sess \in Sessions
        BY <2>1, RestOfRequests, RequestAtHand
      <3>2. QED
        BY <1>15, <3>1, RemoveType DEF DeleteSession
    <2>4. QED
      BY <1>15, <2>2, <2>3 DEF DeleteSession, registry, RegistryType, CarrierType
  <1>16. ASSUME NEW c \in Conns, OperationFails(c)
         PROVE  StorageType' /\ CarrierType' /\ ProcessType' /\ RegistryType'
    <2>1. ProcessType'
      BY <1>16, IdleType, WorkStep DEF OperationFails
    <2>2. CarrierType'
      BY <1>16 DEF OperationFails, StorageRejects, CarrierType
    <2>3. QED
      BY <1>16, <2>1, <2>2 DEF OperationFails, storage, registry, history, StorageType,
                               RegistryType
  <1>17. ASSUME NEW c \in Conns, KeyReadFails(c)
         PROVE  StorageType' /\ CarrierType' /\ ProcessType' /\ RegistryType'
    <2>1. Tail(queue[c]) \in Seq(Packet)
      BY <1>17 DEF KeyReadFails, CarrierType
    <2>2. CarrierType'
      BY <1>17, <2>1 DEF KeyReadFails, StorageRejects, CarrierType
    <2>3. QED
      BY <1>17, <2>2 DEF KeyReadFails, storage, registry, history, StorageType, ProcessType,
                         RegistryType
  <1>18. QED
    BY <1>1, <1>2, <1>3, <1>4, <1>5, <1>6, <1>7, <1>8, <1>9, <1>10, <1>11, <1>12, <1>13,
       <1>14, <1>15, <1>16, <1>17 DEF Next, Process

\* Every reachable state is well typed, whatever the storage rejects.
THEOREM TypeCorrect == Spec => []TypeOK
  BY TypeInit, TypeNext, PTL DEF Spec
-----------------------------------------------------------------------------
(***************************************************************************)
(* The registry's key index never loses a connection it has a key for.     *)
(***************************************************************************)
LEMMA KeyIsReachableStep == TypeOK /\ KeyIsReachable /\ [Next]_vars => KeyIsReachable'
  <1> SUFFICES ASSUME ProcessType, RegistryType, KeyIsReachable, [Next]_vars
               PROVE  KeyIsReachable'
    BY DEF TypeOK
  <1> USE GatewayAssumption
  <1>1. ASSUME UNCHANGED registry PROVE KeyIsReachable'
    BY <1>1 DEF registry, KeyIsReachable
  <1>2. ASSUME NEW c \in Conns, NEW subject \in SubjectOrNone, Bind(c, subject)
        PROVE  KeyIsReachable'
    BY <1>2 DEF Bind, KeyIsReachable
  <1>3. ASSUME NEW c \in Conns, Unbind(c) PROVE KeyIsReachable'
    BY <1>3 DEF Unbind, KeyIsReachable, RegistryType
  <1>4. ASSUME NEW c \in Conns, NEW subject, work[c].at # "idle", BindKeyAndSubject(c, subject)
        PROVE  KeyIsReachable'
    <2>1. ctx[c].key \in Keys
      BY <1>4 DEF ProcessType, Ctx
    <2>2. QED
      BY <1>4, <2>1 DEF BindKeyAndSubject, KeyConnsAfter, KeyIsReachable, RegistryType
  <1>5. ASSUME NEW c \in Conns, TouchSession(c) PROVE KeyIsReachable'
    BY <1>4, <1>5 DEF TouchSession
  <1>6. ASSUME NEW c \in Conns, SaveSession(c) PROVE KeyIsReachable'
    BY <1>4, <1>6 DEF SaveSession
  <1>7. ASSUME NEW c \in Conns, PatchSession(c) PROVE KeyIsReachable'
    <2>1. Head(work[c].requests).subject \in SubjectOrNone
      BY <1>7, RestOfRequests, RequestAtHand DEF PatchSession, RequestSteps, Steps, SubjectOrNone
    <2>2. QED
      BY <1>2, <1>7, <2>1 DEF PatchSession, Registered
  <1>8. ASSUME NEW c \in Conns, SocketCloses(c) \/ UnbindUser(c) PROVE KeyIsReachable'
    BY <1>3, <1>8 DEF SocketCloses, UnbindUser
  <1>9. ASSUME NEW c \in Conns,
               \/ Arrive(c) \/ ReadKey(c) \/ CheckPacket(c) \/ FindSession(c) \/ DeleteForeign(c)
               \/ OtherRequest(c) \/ BindUser(c) \/ RevokeKey(c) \/ DestroySession(c)
               \/ DeleteSession(c) \/ KeyReadFails(c) \/ OperationFails(c)
        PROVE  KeyIsReachable'
    BY <1>1, <1>9 DEF Arrive, ReadKey, CheckPacket, FindSession, DeleteForeign, OtherRequest,
       BindUser, RevokeKey, DestroySession, DeleteSession, KeyReadFails, OperationFails
  <1>10. CASE UNCHANGED vars
    BY <1>1, <1>10 DEF vars
  <1>11. QED
    BY <1>5, <1>6, <1>7, <1>8, <1>9, <1>10 DEF Next, Process

\* Pushes to an auth key reach every connection the registry has the key of.
THEOREM KeyStaysReachable == Spec => []KeyIsReachable
  <1>1. Init => KeyIsReachable
    BY DEF Init, KeyIsReachable
  <1>2. QED
    BY <1>1, TypeCorrect, KeyIsReachableStep, PTL DEF Spec

-----------------------------------------------------------------------------
(***************************************************************************)
(* While the patch of its session is awaited, a connection's context has   *)
(* the subject it is about to register.                                    *)
(***************************************************************************)
PatchOf(c) == work[c].at = "patch" => ctx[c].subject = Head(work[c].requests).subject
PatchMatches == \A c \in Conns : PatchOf(c)

LEMMA PatchMatchesStep == TypeOK /\ PatchMatches /\ [Next]_vars => PatchMatches'
  <1> SUFFICES ASSUME ProcessType, PatchMatches, [Next]_vars, NEW d \in Conns
               PROVE  PatchOf(d)'
    BY DEF TypeOK, PatchMatches
  <1>0. PatchOf(d) /\ work \in [Conns -> Work] /\ ctx \in [Conns -> Ctx]
        /\ work[d] \in Work /\ ctx[d] \in Ctx
    BY DEF PatchMatches, ProcessType
  <1>1. ASSUME work'[d] = work[d], ctx'[d] = ctx[d] PROVE PatchOf(d)'
    BY <1>0, <1>1 DEF PatchOf
  <1>2. ASSUME work'[d].at # "patch" PROVE PatchOf(d)'
    BY <1>2 DEF PatchOf
  <1>3. CASE UNCHANGED vars
    BY <1>1, <1>3 DEF vars
  <1>4. ASSUME NEW c \in Conns, Arrive(c) \/ SocketCloses(c) PROVE PatchOf(d)'
    BY <1>1, <1>4 DEF Arrive, SocketCloses
  <1>5. ASSUME NEW c \in Conns, Process(c), c # d PROVE PatchOf(d)'
    BY <1>0, <1>1, <1>5 DEF Process, ReadKey, CheckPacket, FindSession, TouchSession,
       DeleteForeign, SaveSession, OtherRequest, BindUser, PatchSession, UnbindUser, RevokeKey,
       DestroySession, DeleteSession, KeyReadFails, OperationFails, NextRequest
  <1>6. CASE BindUser(d)
    BY <1>0, <1>6 DEF BindUser, PatchOf, Work, Ctx
  <1>7. CASE ReadKey(d)
    <2>1. CASE keys[Head(queue[d]).key].blocked
      BY <1>1, <1>7, <2>1 DEF ReadKey
    <2>2. CASE ~keys[Head(queue[d]).key].blocked
      <3>1. work'[d].at = "salts"
        BY <1>0, <1>7, <2>2 DEF ReadKey, Idle
      <3>2. QED
        BY <1>2, <3>1
    <2>3. QED
      BY <2>1, <2>2
  <1>8. CASE CheckPacket(d) \/ FindSession(d) \/ DeleteForeign(d) \/ OperationFails(d)
    <2>1. work'[d].at # "patch"
      BY <1>0, <1>8 DEF CheckPacket, FindSession, DeleteForeign, OperationFails, Idle, Work
    <2>2. QED
      BY <1>2, <2>1
  <1>9. CASE TouchSession(d) \/ SaveSession(d)
    <2>1. Dispatch(work[d].requests).at # "patch"
      BY <1>0, DispatchType DEF Work
    <2>2. QED
      BY <1>0, <1>2, <1>9, <2>1 DEF TouchSession, SaveSession
  <1>10. CASE \/ OtherRequest(d) \/ PatchSession(d) \/ UnbindUser(d) \/ RevokeKey(d)
              \/ DestroySession(d) \/ DeleteSession(d)
    <2>1. work[d].at \in RequestSteps
      BY <1>10 DEF OtherRequest, PatchSession, UnbindUser, RevokeKey, DestroySession,
                   DeleteSession, RequestSteps, Steps
    <2>2. Dispatch(Tail(work[d].requests)).at # "patch"
      BY <2>1, RestOfRequests, DispatchType
    <2>3. work'[d].at = "destroy" \/ work'[d] = Dispatch(Tail(work[d].requests))
      BY <1>0, <1>10 DEF OtherRequest, PatchSession, UnbindUser, RevokeKey, DestroySession,
                   DeleteSession, NextRequest, Work
    <2>4. QED
      BY <1>2, <2>2, <2>3
  <1>11. CASE KeyReadFails(d)
    BY <1>1, <1>11 DEF KeyReadFails
  <1>12. QED
    BY <1>3, <1>4, <1>5, <1>6, <1>7, <1>8, <1>9, <1>10, <1>11 DEF Next, Process

(***************************************************************************)
(* Only the connection itself changes its subject or its entry, and it     *)
(* does so in one step except where "save" and "patch" are awaited.        *)
(***************************************************************************)
Reachable(c) ==
    /\ socket[c] = "open"
    /\ work[c].at \notin {"save", "patch"}
    /\ ctx[c].subject # None
    => regSubject[c] = ctx[c].subject

LEMMA AuthorizedStep ==
    TypeOK /\ PatchMatches /\ AuthorizedIsReachable /\ [Next]_vars => AuthorizedIsReachable'
  <1> SUFFICES ASSUME StorageType, CarrierType, ProcessType, RegistryType, failures' = 0,
                      PatchMatches, AuthorizedIsReachable, [Next]_vars, NEW d \in Conns
               PROVE  Reachable(d)'
    BY DEF TypeOK, AuthorizedIsReachable, Reachable
  <1> USE GatewayAssumption
  <1> failures \in Nat
    BY DEF CarrierType
  <1>a. \A c \in Conns : ~KeyReadFails(c) /\ ~OperationFails(c)
    BY DEF KeyReadFails, OperationFails, StorageRejects
  <1>b. failures = 0
    <2>1. \/ UNCHANGED vars
          \/ \E c \in Conns : Arrive(c) \/ SocketCloses(c) \/ Process(c)
      BY DEF Next
    <2>2. CASE UNCHANGED vars
      BY <2>2 DEF vars
    <2>3. ASSUME NEW c \in Conns, Arrive(c) \/ SocketCloses(c) PROVE failures = 0
      BY <2>3 DEF Arrive, SocketCloses
    <2>4. ASSUME NEW c \in Conns, Process(c) PROVE failures = 0
      BY <1>a, <2>4 DEF Process, ReadKey, CheckPacket, FindSession, TouchSession,
         DeleteForeign, SaveSession, OtherRequest, BindUser, PatchSession, UnbindUser, RevokeKey,
         DestroySession, DeleteSession
    <2>5. QED
      BY <2>1, <2>2, <2>3, <2>4
  <1>0. Reachable(d)
    BY <1>b DEF AuthorizedIsReachable, Reachable
  <1> work \in [Conns -> Work] /\ ctx \in [Conns -> Ctx] /\ ctx[d] \in Ctx /\ work[d] \in Work
    BY DEF ProcessType
  <1> regSubject \in [Conns -> SubjectOrNone] /\ socket \in [Conns -> {"open", "closing", "closed"}]
    BY DEF RegistryType, CarrierType
  <1>1. CASE UNCHANGED vars
    BY <1>0, <1>1 DEF vars, registry, Reachable
  <1>2. ASSUME NEW c \in Conns, Arrive(c) PROVE Reachable(d)'
    BY <1>0, <1>2 DEF Arrive, registry, Reachable
  <1>3. ASSUME NEW c \in Conns, SocketCloses(c) PROVE Reachable(d)'
    BY <1>0, <1>3 DEF SocketCloses, Unbind, Reachable
  <1>4. ASSUME NEW c \in Conns, ReadKey(c) PROVE Reachable(d)'
    <2>1. ctx'[d].subject = ctx[d].subject
      <3>1. Context(c, Head(queue[c])).subject = ctx[c].subject
        BY DEF Context, Ctx
      <3>2. \/ ctx' = ctx
            \/ ctx' = [ctx EXCEPT ![c] = Context(c, Head(queue[c]))]
        BY <1>4 DEF ReadKey
      <3>3. QED
        BY <3>1, <3>2
    <2>2. work[d].at \in {"save", "patch"} => work'[d] = work[d]
      BY <1>4 DEF ReadKey
    <2>3. socket'[d] = "open" => socket[d] = "open"
      BY <1>4 DEF ReadKey, Closed
    <2>4. QED
      BY <1>0, <1>4, <2>1, <2>2, <2>3 DEF ReadKey, registry, Reachable
  <1>5. ASSUME NEW c \in Conns, CheckPacket(c) PROVE Reachable(d)'
    <2>1. work[d].at \in {"save", "patch"} => work'[d] = work[d]
      BY <1>5 DEF CheckPacket
    <2>2. QED
      BY <1>0, <1>5, <2>1 DEF CheckPacket, registry, Reachable
  <1>6. ASSUME NEW c \in Conns, FindSession(c) \/ DeleteForeign(c) PROVE Reachable(d)'
    <2>1. c # d => work'[d] = work[d] /\ ctx'[d] = ctx[d]
      BY <1>6 DEF FindSession, DeleteForeign
    <2>2. c = d => work[d].at \notin {"save", "patch"}
      BY <1>6 DEF FindSession, DeleteForeign
    <2>3. c = d => work'[d].at = "save" \/ ctx'[d] = ctx[d]
      BY <1>6 DEF FindSession, DeleteForeign, Work
    <2>4. UNCHANGED <<regSubject, socket>>
      BY <1>6 DEF FindSession, DeleteForeign, registry
    <2>5. QED
      BY <1>0, <2>1, <2>2, <2>3, <2>4 DEF Reachable
  <1>7. ASSUME NEW c \in Conns, TouchSession(c) PROVE Reachable(d)'
    BY <1>0, <1>7 DEF TouchSession, BindKeyAndSubject, Reachable, Ctx
  <1>8. ASSUME NEW c \in Conns, SaveSession(c) PROVE Reachable(d)'
    BY <1>0, <1>8 DEF SaveSession, BindKeyAndSubject, Reachable
  <1>9. ASSUME NEW c \in Conns, BindUser(c) PROVE Reachable(d)'
    BY <1>0, <1>9 DEF BindUser, registry, Reachable, Work
  <1>10. ASSUME NEW c \in Conns, PatchSession(c) PROVE Reachable(d)'
    <2>1. c = d => ctx[d].subject = Head(work[d].requests).subject
      BY <1>10 DEF PatchSession, PatchMatches, PatchOf
    <2>2. c # d => work'[d] = work[d] /\ regSubject'[d] = regSubject[d]
      BY <1>10 DEF PatchSession, Registered, Bind, NextRequest
    <2>3. c = d => regSubject'[d] = Head(work[d].requests).subject
      BY <1>10 DEF PatchSession, Registered, Bind
    <2>4. UNCHANGED <<ctx, socket>>
      BY <1>10 DEF PatchSession
    <2>5. QED
      BY <1>0, <2>1, <2>2, <2>3, <2>4 DEF Reachable
  <1>11. ASSUME NEW c \in Conns, UnbindUser(c) PROVE Reachable(d)'
    BY <1>0, <1>11 DEF UnbindUser, NextRequest, Unbind, Reachable, Ctx
  <1>12. ASSUME NEW c \in Conns,
                OtherRequest(c) \/ RevokeKey(c) \/ DestroySession(c) \/ DeleteSession(c)
         PROVE Reachable(d)'
    <2>1. work[d].at \in {"save", "patch"} => work'[d] = work[d]
      BY <1>12 DEF OtherRequest, RevokeKey, DestroySession, DeleteSession, NextRequest
    <2>2. UNCHANGED <<ctx, regSubject, socket>>
      BY <1>12 DEF OtherRequest, RevokeKey, DestroySession, DeleteSession, registry
    <2>3. QED
      BY <1>0, <2>1, <2>2 DEF Reachable
  <1>13. QED
    BY <1>a, <1>1, <1>2, <1>3, <1>4, <1>5, <1>6, <1>7, <1>8, <1>9, <1>10, <1>11, <1>12
       DEF Next, Process

(***************************************************************************)
(* As long as no storage operation has rejected, an open connection served *)
(* as some subject is registered under it.                                 *)
(***************************************************************************)
THEOREM AuthorizedStaysReachable == Spec => []AuthorizedIsReachable
  <1>1. Init => PatchMatches /\ AuthorizedIsReachable
    BY DEF Init, Idle, PatchMatches, PatchOf, AuthorizedIsReachable
  <1>2. TypeOK /\ PatchMatches /\ AuthorizedIsReachable /\ [Next]_vars
            => (PatchMatches /\ AuthorizedIsReachable)'
    BY PatchMatchesStep, AuthorizedStep
  <1>3. QED
    BY <1>1, <1>2, TypeCorrect, PTL DEF Spec

-----------------------------------------------------------------------------
(***************************************************************************)
(* Subjects stay with the auth key they were bound on, if no other key     *)
(* uses a session that a key logs in on (a client draws the id at random). *)
(* The invariant adds that what a connection has read and has in its       *)
(* context belongs to the key of the packet in process.                    *)
(***************************************************************************)
Sends(k, s) == \E c \in Conns : \E p \in Traffic[c] : p.key = k /\ p.sess = s
LogsIn(k, s) ==
    \E c \in Conns : \E p \in Traffic[c] :
        p.key = k /\ p.sess = s /\ \E i \in 1..Len(p.requests) : p.requests[i].kind = "bindUser"
SessionsOwned == \A k, l \in Keys, s \in Sessions : LogsIn(k, s) /\ Sends(l, s) => k = l

ConnInv(c) ==
    /\ \A i \in 1..Len(queue[c]) : Sends(queue[c][i].key, queue[c][i].sess)
    /\ work[c].at # "idle" =>
           /\ Sends(ctx[c].key, ctx[c].sess)
           /\ BoundOn(ctx[c].key, work[c].rec)
           /\ BoundOn(ctx[c].key, work[c].existing)
    /\ work[c].at \in RequestSteps \cup {"save"} => BoundOn(ctx[c].key, ctx[c].subject)
StoreInv ==
    /\ \A k \in Keys : BoundOn(k, keys[k].subject)
    /\ \A s \in Sessions :
           sessions[s] # None => /\ Sends(sessions[s].key, s)
                                 /\ BoundOn(sessions[s].key, sessions[s].subject)
IsolationInv == StoreInv /\ \A c \in Conns : ConnInv(c)

(***************************************************************************)
(* A login that is still to be served was sent in a packet of the key and  *)
(* the session in the connection's context.                                *)
(***************************************************************************)
AsksAsSent(c) ==
    /\ \A i \in 1..Len(queue[c]) : queue[c][i] \in Traffic[c]
    /\ work[c].at # "idle" =>
           \A i \in 1..Len(work[c].requests) :
               work[c].requests[i].kind = "bindUser" => LogsIn(ctx[c].key, ctx[c].sess)

LEMMA AsksStep ==
    TypeOK /\ (\A c \in Conns : AsksAsSent(c)) /\ [Next]_vars => \A c \in Conns : AsksAsSent(c)'
  <1> SUFFICES ASSUME TypeOK, \A c \in Conns : AsksAsSent(c), [Next]_vars, NEW d \in Conns
               PROVE  AsksAsSent(d)'
    OBVIOUS
  <1> USE GatewayAssumption
  <1>0. /\ work \in [Conns -> Work] /\ ctx \in [Conns -> Ctx] /\ queue \in [Conns -> Seq(Packet)]
        /\ work[d] \in Work /\ ctx[d] \in Ctx /\ queue[d] \in Seq(Packet)
        /\ work[d].requests \in Seq(Request)
        /\ AsksAsSent(d)
    BY DEF TypeOK, ProcessType, CarrierType, Work
  <1>1. ASSUME queue'[d] = queue[d] \/ (queue[d] # <<>> /\ queue'[d] = Tail(queue[d]))
        PROVE  \A i \in 1..Len(queue'[d]) : queue'[d][i] \in Traffic[d]
    <2>1. CASE queue'[d] = queue[d]
      BY <1>0, <2>1 DEF AsksAsSent
    <2>2. CASE queue[d] # <<>> /\ queue'[d] = Tail(queue[d])
      <3>1. \A i \in 1..Len(Tail(queue[d])) : Tail(queue[d])[i] = queue[d][i + 1]
                                              /\ i + 1 \in 1..Len(queue[d])
        BY <1>0, <2>2
      <3>2. QED
        BY <1>0, <2>2, <3>1 DEF AsksAsSent
    <2>3. QED
      BY <1>1, <2>1, <2>2
  <1>2. ASSUME queue'[d] = queue[d], ctx'[d].key = ctx[d].key, ctx'[d].sess = ctx[d].sess,
               work'[d].at # "idle" =>
                   /\ work[d].at # "idle"
                   /\ \/ work'[d].requests = work[d].requests
                      \/ work[d].requests # <<>> /\ work'[d].requests = Tail(work[d].requests)
        PROVE  AsksAsSent(d)'
    <2>1. ASSUME work'[d].at # "idle", NEW i \in 1..Len(work'[d].requests),
                 work'[d].requests[i].kind = "bindUser"
          PROVE  LogsIn(ctx'[d].key, ctx'[d].sess)
      <3>1. \E j \in 1..Len(work[d].requests) : work[d].requests[j] = work'[d].requests[i]
        <4>1. CASE work'[d].requests = work[d].requests
          BY <2>1, <4>1
        <4>2. CASE work[d].requests # <<>> /\ work'[d].requests = Tail(work[d].requests)
          <5>1. i + 1 \in 1..Len(work[d].requests) /\ work[d].requests[i + 1] = work'[d].requests[i]
            BY <1>0, <2>1, <4>2
          <5>2. QED
            BY <5>1
        <4>3. QED
          BY <1>2, <2>1, <4>1, <4>2
      <3>2. QED
        BY <1>0, <1>2, <2>1, <3>1 DEF AsksAsSent
    <2>2. QED
      BY <1>1, <1>2, <2>1 DEF AsksAsSent, LogsIn
  <1>3. \A r : Dispatch(r).at # "idle" => Dispatch(r).requests = r /\ r # <<>>
    BY DEF Dispatch, Idle
  <1>4. CASE UNCHANGED vars
    BY <1>2, <1>4 DEF vars
  <1>5. ASSUME NEW c \in Conns, c # d, Arrive(c) \/ SocketCloses(c) \/ Process(c)
        PROVE  AsksAsSent(d)'
    BY <1>0, <1>2, <1>5 DEF Arrive, SocketCloses, Process, ReadKey, CheckPacket, FindSession,
       TouchSession, DeleteForeign, SaveSession, OtherRequest, BindUser, PatchSession, UnbindUser,
       RevokeKey, DestroySession, DeleteSession, KeyReadFails, OperationFails, NextRequest
  <1>6. CASE Arrive(d)
    <2>1. PICK p \in Traffic[d] : queue' = [queue EXCEPT ![d] = Append(@, p)]
      BY <1>6 DEF Arrive
    <2>2. \A i \in 1..Len(queue'[d]) : queue'[d][i] \in Traffic[d]
      BY <1>0, <2>1 DEF AsksAsSent
    <2>3. QED
      BY <1>0, <1>6, <2>2 DEF Arrive, AsksAsSent, LogsIn
  <1>7. CASE SocketCloses(d)
    BY <1>2, <1>7 DEF SocketCloses
  <1>8. CASE ReadKey(d)
    <2> DEFINE p == Head(queue[d])
    <2>1. queue'[d] = Tail(queue[d]) /\ queue[d] # <<>> /\ p = queue[d][1] /\ p \in Traffic[d]
      BY <1>0, <1>8 DEF ReadKey, AsksAsSent
    <2>2. CASE keys[p.key].blocked
      BY <1>0, <1>1, <1>8, <2>1, <2>2 DEF ReadKey, AsksAsSent, LogsIn
    <2>3. CASE ~keys[p.key].blocked
      <3>1. ctx'[d].key = p.key /\ ctx'[d].sess = p.sess /\ work'[d].requests = p.requests
        <4>1. /\ ctx' = [ctx EXCEPT ![d] = Context(d, p)]
              /\ work' = [work EXCEPT ![d] = [Idle EXCEPT !.at = "salts", !.rec = keys[p.key].subject,
                                                         !.requests = p.requests]]
          BY <1>8, <2>3 DEF ReadKey
        <4>2. ctx'[d] = Context(d, p) /\ work'[d].requests = p.requests
          BY <1>0, <4>1 DEF Idle
        <4>3. QED
          BY <1>0, <4>2 DEF Context, Ctx
      <3>2. (\E i \in 1..Len(p.requests) : p.requests[i].kind = "bindUser")
                => LogsIn(p.key, p.sess)
        BY <2>1 DEF LogsIn
      <3>3. QED
        BY <1>1, <2>1, <3>1, <3>2 DEF AsksAsSent, LogsIn
    <2>4. QED
      BY <2>2, <2>3
  <1>9. CASE CheckPacket(d) \/ FindSession(d) \/ DeleteForeign(d) \/ BindUser(d)
    BY <1>0, <1>2, <1>9 DEF CheckPacket, FindSession, DeleteForeign, BindUser, Idle, Ctx, Work
  <1>10. CASE TouchSession(d) \/ SaveSession(d)
    BY <1>0, <1>2, <1>3, <1>10 DEF TouchSession, SaveSession, Ctx
  <1>11. CASE OtherRequest(d) \/ PatchSession(d) \/ UnbindUser(d) \/ RevokeKey(d)
              \/ DestroySession(d) \/ DeleteSession(d)
    <2>1. work[d].at \in RequestSteps /\ work[d].at # "idle"
      BY <1>11 DEF OtherRequest, PatchSession, UnbindUser, RevokeKey, DestroySession,
                   DeleteSession, RequestSteps, Steps
    <2>2. work[d].requests # <<>>
      <3>1. AtItsRequest(work[d])
        BY <2>1, RestOfRequests DEF TypeOK
      <3>2. QED
        BY <2>1, <3>1 DEF AtItsRequest
    <2>3. ctx'[d].key = ctx[d].key /\ ctx'[d].sess = ctx[d].sess /\ queue' = queue
      BY <1>0, <1>11 DEF OtherRequest, PatchSession, UnbindUser, RevokeKey, DestroySession,
                         DeleteSession, Ctx
    <2>4. \/ work'[d] = Dispatch(Tail(work[d].requests))
          \/ work'[d].requests = work[d].requests
      BY <1>0, <1>11 DEF OtherRequest, PatchSession, UnbindUser, RevokeKey, DestroySession,
                         DeleteSession, NextRequest, Work
    <2>5. QED
      BY <1>2, <1>3, <2>1, <2>2, <2>3, <2>4
  <1>12. CASE KeyReadFails(d)
    BY <1>0, <1>1, <1>12 DEF KeyReadFails, AsksAsSent, LogsIn
  <1>13. CASE OperationFails(d)
    BY <1>0, <1>2, <1>13 DEF OperationFails, Idle
  <1>14. QED
    BY <1>4, <1>5, <1>6, <1>7, <1>8, <1>9, <1>10, <1>11, <1>12, <1>13 DEF Next, Process

\* Bindings are remembered for ever, so a subject bound on a key stays bound on it.
LEMMA BoundGrows ==
    ASSUME StorageType, [Next]_vars, NEW k \in Keys, NEW subject, BoundOn(k, subject)
    PROVE  BoundOn(k, subject)'
  <1>1. ASSUME bound' = bound PROVE BoundOn(k, subject)'
    BY <1>1 DEF BoundOn
  <1>2. ASSUME NEW c \in Conns, BindUser(c) PROVE BoundOn(k, subject)'
    BY <1>2 DEF BindUser, BoundOn, StorageType
  <1>3. ASSUME NEW c \in Conns, Process(c), ~BindUser(c) PROVE BoundOn(k, subject)'
    BY <1>1, <1>3 DEF Process, ReadKey, CheckPacket, FindSession, TouchSession, DeleteForeign,
       SaveSession, OtherRequest, PatchSession, UnbindUser, RevokeKey, DestroySession,
       DeleteSession, KeyReadFails, OperationFails, history
  <1>4. ASSUME NEW c \in Conns, Arrive(c) \/ SocketCloses(c) PROVE BoundOn(k, subject)'
    BY <1>1, <1>4 DEF Arrive, SocketCloses, history
  <1>5. CASE UNCHANGED vars
    BY <1>1, <1>5 DEF vars, history
  <1>6. QED
    BY <1>2, <1>3, <1>4, <1>5 DEF Next

\* What another connection's step leaves alone.
LEMMA OthersKeepConnInv ==
    ASSUME TypeOK, [Next]_vars, NEW d \in Conns, ConnInv(d),
           queue'[d] = queue[d], work'[d] = work[d], ctx'[d] = ctx[d]
    PROVE  ConnInv(d)'
  <1>1. work[d].at # "idle" => ctx[d].key \in Keys
    BY DEF TypeOK, ProcessType, Ctx
  <1>2. work[d].at # "idle" =>
            /\ BoundOn(ctx[d].key, work[d].rec)'
            /\ BoundOn(ctx[d].key, work[d].existing)'
    BY <1>1, BoundGrows DEF ConnInv, TypeOK, BoundOn
  <1>3. work[d].at \in RequestSteps \cup {"save"} => BoundOn(ctx[d].key, ctx[d].subject)'
    BY <1>1, BoundGrows DEF ConnInv, TypeOK, BoundOn, RequestSteps
  <1>4. QED
    BY <1>2, <1>3 DEF ConnInv, Sends

\* A key's stored subject and the stored sessions, when no session is written.
LEMMA StoreKept ==
    ASSUME TypeOK, [Next]_vars, StoreInv,
           \A k \in Keys : keys'[k].subject \in {keys[k].subject, None},
           \A s \in Sessions : sessions'[s] \in {sessions[s], None}
    PROVE  StoreInv'
  <1>1. ASSUME NEW k \in Keys PROVE BoundOn(k, keys[k].subject)'
    <2>1. BoundOn(k, keys[k].subject) /\ BoundOn(k, None)
      BY DEF StoreInv, BoundOn
    <2>2. QED
      BY <2>1, BoundGrows DEF TypeOK, BoundOn
  <1>2. ASSUME NEW s \in Sessions, sessions'[s] # None
        PROVE  Sends(sessions'[s].key, s) /\ BoundOn(sessions[s].key, sessions[s].subject)'
    <2>1. sessions'[s] = sessions[s] /\ sessions[s].key \in Keys
      BY <1>2 DEF TypeOK, StorageType, StoredSession
    <2>2. Sends(sessions[s].key, s) /\ BoundOn(sessions[s].key, sessions[s].subject)
      BY <1>2, <2>1 DEF StoreInv
    <2>3. QED
      BY <2>1, <2>2, BoundGrows DEF TypeOK, BoundOn
  <1>3. QED
    BY <1>1, <1>2 DEF StoreInv, Sends

\* Nothing has been bound before; nothing is stored.
LEMMA IsolationInit == Init => IsolationInv
  BY DEF Init, Idle, IsolationInv, StoreInv, ConnInv, BoundOn, RequestSteps

\* The connection that stands at a request keeps to its key.
LEMMA ConnAtRequest ==
    ASSUME TypeOK, NEW c \in Conns, ConnInv(c), work[c].at \in RequestSteps
    PROVE  /\ ctx[c].key \in Keys /\ ctx[c].sess \in Sessions
           /\ Sends(ctx[c].key, ctx[c].sess)
           /\ BoundOn(ctx[c].key, ctx[c].subject)
  BY RestOfRequests DEF TypeOK, ConnInv, RequestSteps

\* Going on to the next request, with a subject of the key (or none).
LEMMA NextKeepsConnInv ==
    ASSUME TypeOK, [Next]_vars, NEW c \in Conns, ConnInv(c), work[c].at \in RequestSteps,
           queue'[c] = queue[c], work'[c] = Dispatch(Tail(work[c].requests)),
           ctx'[c].key = ctx[c].key, ctx'[c].sess = ctx[c].sess,
           ctx'[c].subject \in {ctx[c].subject, None}
    PROVE  ConnInv(c)'
  <1>1. ctx[c].key \in Keys /\ Sends(ctx[c].key, ctx[c].sess) /\ BoundOn(ctx[c].key, ctx[c].subject)
    BY ConnAtRequest
  <1>2. BoundOn(ctx[c].key, ctx[c].subject)' /\ BoundOn(ctx[c].key, None)'
    BY <1>1, BoundGrows DEF TypeOK, BoundOn
  <1>3. work'[c].rec = None /\ work'[c].existing = None
    BY RestOfRequests, DispatchType DEF TypeOK
  <1>4. QED
    BY <1>1, <1>2, <1>3 DEF ConnInv, BoundOn, Sends

LEMMA IsolationStep ==
    SessionsOwned /\ TypeOK /\ PatchMatches /\ (\A c \in Conns : AsksAsSent(c)) /\ IsolationInv
        /\ [Next]_vars => IsolationInv'
  <1> SUFFICES ASSUME SessionsOwned, TypeOK, PatchMatches, StoreInv, [Next]_vars,
                      \A c \in Conns : AsksAsSent(c) /\ ConnInv(c)
               PROVE  StoreInv' /\ \A d \in Conns : ConnInv(d)'
    BY DEF IsolationInv
  <1> USE GatewayAssumption
  <1> work \in [Conns -> Work] /\ ctx \in [Conns -> Ctx]
    BY DEF TypeOK, ProcessType
  <1>1. ASSUME NEW c \in Conns, StoreInv', ConnInv(c)',
               \A d \in Conns \ {c} :
                   queue'[d] = queue[d] /\ work'[d] = work[d] /\ ctx'[d] = ctx[d]
        PROVE  StoreInv' /\ \A d \in Conns : ConnInv(d)'
    BY <1>1, OthersKeepConnInv
  <1>2. CASE UNCHANGED vars
    BY <1>2, StoreKept, OthersKeepConnInv DEF vars, storage
  <1>3. ASSUME NEW c \in Conns, Arrive(c) PROVE StoreInv' /\ \A d \in Conns : ConnInv(d)'
    <2>1. PICK p \in Traffic[c] : queue' = [queue EXCEPT ![c] = Append(@, p)]
      BY <1>3 DEF Arrive
    <2>2. p \in Packet /\ Sends(p.key, p.sess) /\ queue \in [Conns -> Seq(Packet)]
      BY DEF Sends, TypeOK, CarrierType
    <2>3. \A i \in 1..Len(queue'[c]) :
              queue'[c][i] = p \/ (i \in 1..Len(queue[c]) /\ queue'[c][i] = queue[c][i])
      BY <2>1, <2>2
    <2>4. work' = work /\ ctx' = ctx /\ bound' = bound
      BY <1>3 DEF Arrive, history
    <2>5. \A i \in 1..Len(queue'[c]) : Sends(queue'[c][i].key, queue'[c][i].sess)
      BY <2>2, <2>3 DEF ConnInv
    <2>6. ConnInv(c)'
      BY <2>4, <2>5 DEF ConnInv, BoundOn, Sends
    <2>7. StoreInv'
      BY <1>3, StoreKept DEF Arrive, storage
    <2>8. QED
      BY <1>1, <2>1, <2>4, <2>6, <2>7
  <1>4. ASSUME NEW c \in Conns, SocketCloses(c) PROVE StoreInv' /\ \A d \in Conns : ConnInv(d)'
    BY <1>4, StoreKept, OthersKeepConnInv DEF SocketCloses, storage
  <1>5. ASSUME NEW c \in Conns, ReadKey(c) PROVE StoreInv' /\ \A d \in Conns : ConnInv(d)'
    <2> DEFINE p == Head(queue[c])
    <2>1. /\ queue[c] \in Seq(Packet) /\ queue[c] # <<>> /\ p = queue[c][1] /\ p \in Packet
          /\ queue' = [queue EXCEPT ![c] = Tail(@)] /\ queue \in [Conns -> Seq(Packet)]
      BY <1>5 DEF ReadKey, TypeOK, CarrierType
    <2>2. Sends(p.key, p.sess)
      BY <2>1 DEF ConnInv
    <2>3. \A i \in 1..Len(queue'[c]) : Sends(queue'[c][i].key, queue'[c][i].sess)
      <3>1. \A i \in 1..Len(Tail(queue[c])) : Tail(queue[c])[i] = queue[c][i + 1]
                                              /\ i + 1 \in 1..Len(queue[c])
        BY <2>1
      <3>2. QED
        BY <2>1, <3>1 DEF ConnInv
    <2>4. bound' = bound /\ StoreInv'
      BY <1>5, StoreKept DEF ReadKey, storage, history
    <2>5. ConnInv(c)'
      <3>1. CASE keys[p.key].blocked
        <4>1. work'[c] = work[c] /\ work[c].at = "idle"
          BY <1>5, <3>1 DEF ReadKey
        <4>2. QED
          BY <2>3, <4>1 DEF ConnInv, Sends, RequestSteps
      <3>2. CASE ~keys[p.key].blocked
        <4>1. Context(c, p).key = p.key /\ Context(c, p).sess = p.sess
          BY DEF Context, Ctx
        <4>2. work'[c].at = "salts" /\ work'[c].rec = keys[p.key].subject /\ work'[c].existing = None
          <5> DEFINE w == [Idle EXCEPT !.at = "salts", !.rec = keys[p.key].subject, !.requests = p.requests]
          <5>1. work' = [work EXCEPT ![c] = w]
            BY <1>5, <3>2 DEF ReadKey
          <5>2. w.at = "salts" /\ w.rec = keys[p.key].subject /\ w.existing = None
            BY DEF Idle
          <5>3. c \in DOMAIN work
            BY DEF TypeOK, ProcessType
          <5> HIDE DEF w, p
          <5>4. work'[c] = w
            BY <5>1, <5>3
          <5>5. QED
            BY <5>2, <5>4
        <4>3. BoundOn(p.key, keys[p.key].subject) /\ BoundOn(p.key, None)
          BY <2>1 DEF Packet, StoreInv, BoundOn
        <4>4. ctx'[c] = Context(c, p)
          BY <1>5, <3>2 DEF ReadKey
        <4> HIDE DEF p
        <4>5. QED
          BY <2>2, <2>3, <2>4, <4>1, <4>2, <4>3, <4>4 DEF ConnInv, BoundOn, Sends, RequestSteps
      <3>3. QED
        BY <3>1, <3>2
    <2>6. QED
      BY <1>1, <1>5, <2>1, <2>4, <2>5 DEF ReadKey
  <1>6. ASSUME NEW c \in Conns, CheckPacket(c) \/ OperationFails(c)
        PROVE  StoreInv' /\ \A d \in Conns : ConnInv(d)'
    <2>1. bound' = bound /\ StoreInv' /\ ctx' = ctx /\ queue' = queue
      BY <1>6, StoreKept DEF CheckPacket, OperationFails, storage, history
    <2>2. \/ work'[c] = Idle
          \/ work[c].at # "idle" /\ work'[c] = [work[c] EXCEPT !.at = "session"]
      BY <1>6 DEF CheckPacket, OperationFails
    <2>3. work'[c].at = "idle"
          \/ (work'[c].at = "session" /\ work'[c].rec = work[c].rec
              /\ work'[c].existing = work[c].existing /\ work[c].at # "idle")
      BY <2>2 DEF Idle, Work
    <2>4. ConnInv(c)'
      BY <2>1, <2>3 DEF ConnInv, BoundOn, Sends, RequestSteps
    <2>5. QED
      BY <1>1, <1>6, <2>1, <2>4 DEF CheckPacket, OperationFails
  <1>7. ASSUME NEW c \in Conns, FindSession(c) \/ DeleteForeign(c)
        PROVE  StoreInv' /\ \A d \in Conns : ConnInv(d)'
    <2>1. bound' = bound /\ queue' = queue /\ work[c].at # "idle"
      BY <1>7 DEF FindSession, DeleteForeign, history
    <2>2. StoreInv'
      <3>1. CASE FindSession(c)
        BY <3>1, StoreKept DEF FindSession, storage
      <3>2. CASE DeleteForeign(c)
        <4>1. keys' = keys /\ sessions' = [sessions EXCEPT ![ctx[c].sess] = None]
          BY <3>2 DEF DeleteForeign, Remove
        <4>2. \A s \in Sessions : sessions'[s] \in {sessions[s], None}
          BY <4>1 DEF TypeOK, StorageType
        <4>3. QED
          BY <4>1, <4>2, StoreKept
      <3>3. QED
        BY <1>7, <3>1, <3>2
    <2>3. /\ Sends(ctx[c].key, ctx[c].sess) /\ ctx[c].sess \in Sessions
          /\ BoundOn(ctx[c].key, work[c].rec) /\ BoundOn(ctx[c].key, work[c].existing)
      BY <2>1 DEF ConnInv, TypeOK, ProcessType, Ctx
    <2>4. ctx'[c].key = ctx[c].key /\ ctx'[c].sess = ctx[c].sess /\ work'[c].rec = work[c].rec
      BY <1>7 DEF FindSession, DeleteForeign, Ctx, Work
    <2>5. \/ work'[c].at = "save" /\ work'[c].existing = work[c].existing
             /\ ctx'[c].subject = work[c].rec
          \/ work'[c].at = "delete" /\ work'[c].existing = work[c].existing
          \/ /\ work'[c].at = "touch" /\ Existing(c) # None /\ Existing(c).key = ctx[c].key
             /\ work'[c].existing = Existing(c).subject
      BY <1>7 DEF FindSession, DeleteForeign, SubjectOfNew, Ctx, Work
    <2>6. Existing(c) # None /\ Existing(c).key = ctx[c].key
              => BoundOn(ctx[c].key, Existing(c).subject)
      BY <2>3 DEF Existing, StoreInv
    <2>7. ConnInv(c)'
      BY <2>1, <2>3, <2>4, <2>5, <2>6 DEF ConnInv, BoundOn, Sends, RequestSteps
    <2>8. QED
      BY <1>1, <1>7, <2>1, <2>2, <2>7 DEF FindSession, DeleteForeign
  <1>8. ASSUME NEW c \in Conns, TouchSession(c) \/ SaveSession(c)
        PROVE  StoreInv' /\ \A d \in Conns : ConnInv(d)'
    <2>1. bound' = bound /\ queue' = queue /\ keys' = keys /\ work[c].at \in {"touch", "save"}
      BY <1>8 DEF TouchSession, SaveSession, history, storage
    <2>2. /\ Sends(ctx[c].key, ctx[c].sess) /\ ctx[c].key \in Keys /\ ctx[c].sess \in Sessions
          /\ BoundOn(ctx[c].key, work[c].rec) /\ BoundOn(ctx[c].key, work[c].existing)
      BY <2>1 DEF ConnInv, TypeOK, ProcessType, Ctx
    <2>3. work'[c] = Dispatch(work[c].requests) /\ work[c].requests \in Seq(Request)
      BY <1>8 DEF TouchSession, SaveSession, Work
    <2>4. work'[c].rec = None /\ work'[c].existing = None
      BY <2>3, DispatchType
    <2>5. ctx'[c].key = ctx[c].key /\ ctx'[c].sess = ctx[c].sess
      BY <1>8 DEF TouchSession, SaveSession, Ctx
    <2>6. BoundOn(ctx[c].key, ctx'[c].subject)
      <3>1. CASE TouchSession(c)
        BY <2>2, <3>1 DEF TouchSession, Ctx
      <3>2. CASE SaveSession(c)
        <4>1. work[c].at = "save" /\ ctx' = ctx
          BY <3>2 DEF SaveSession
        <4>2. QED
          BY <4>1 DEF ConnInv
      <3>3. QED
        BY <1>8, <3>1, <3>2
    <2>7. ConnInv(c)'
      BY <2>1, <2>2, <2>4, <2>5, <2>6 DEF ConnInv, BoundOn, Sends
    <2>8. StoreInv'
      <3>1. CASE TouchSession(c)
        BY <3>1, StoreKept DEF TouchSession, storage
      <3>2. CASE SaveSession(c)
        <4>1. sessions' = [sessions EXCEPT ![ctx[c].sess] =
                               [key |-> ctx[c].key, subject |-> Stored(SubjectOfNew(c))]]
          BY <3>2 DEF SaveSession
        <4>2. BoundOn(ctx[c].key, Stored(SubjectOfNew(c)))
          BY <2>2 DEF Stored, SubjectOfNew, BoundOn
        <4>3. sessions \in [Sessions -> StoredSession \cup {None}]
          BY DEF TypeOK, StorageType
        <4>4. QED
          BY <2>1, <2>2, <4>1, <4>2, <4>3 DEF StoreInv, BoundOn, Sends
      <3>3. QED
        BY <1>8, <3>1, <3>2
    <2>9. QED
      BY <1>1, <1>8, <2>1, <2>7, <2>8 DEF TouchSession, SaveSession
  <1>9. ASSUME NEW c \in Conns, BindUser(c) PROVE StoreInv' /\ \A d \in Conns : ConnInv(d)'
    <2> DEFINE subject == Head(work[c].requests).subject
    <2>1. work[c].at = "bindUser" /\ work[c].at \in RequestSteps
      BY <1>9 DEF BindUser, RequestSteps, Steps
    <2>2. ctx[c].key \in Keys /\ Sends(ctx[c].key, ctx[c].sess)
      BY <2>1, ConnAtRequest
    <2>3. subject \in bound'[ctx[c].key]
      BY <1>9, <2>2 DEF BindUser, BoundOn, TypeOK, StorageType
    <2>4. /\ ctx'[c].key = ctx[c].key /\ ctx'[c].sess = ctx[c].sess /\ ctx'[c].subject = subject
          /\ work'[c].rec = work[c].rec /\ work'[c].existing = work[c].existing
          /\ queue' = queue
      BY <1>9 DEF BindUser, Ctx, Work
    <2>5. {work[c].rec, work[c].existing} \subseteq bound'[ctx[c].key] \cup {None, Unset}
      <3>1. BoundOn(ctx[c].key, work[c].rec) /\ BoundOn(ctx[c].key, work[c].existing)
        BY <2>1 DEF ConnInv, RequestSteps
      <3>2. bound[ctx[c].key] \subseteq bound'[ctx[c].key]
        BY <1>9, <2>2 DEF BindUser, TypeOK, StorageType
      <3>3. QED
        BY <3>1, <3>2 DEF BoundOn
    <2>6. ConnInv(c)'
      <3>1. Sends(ctx[c].key, ctx[c].sess)' /\ \A i \in 1..Len(queue[c]) :
                                                  Sends(queue[c][i].key, queue[c][i].sess)'
        BY <2>2, <2>4 DEF ConnInv, Sends
      <3> HIDE DEF subject
      <3>2. /\ BoundOn(ctx[c].key, work[c].rec)' /\ BoundOn(ctx[c].key, work[c].existing)'
            /\ BoundOn(ctx[c].key, ctx[c].subject)'
        BY <2>3, <2>4, <2>5 DEF BoundOn
      <3>3. QED
        BY <2>4, <3>1, <3>2 DEF ConnInv
    <2>7. StoreInv'
      <3>1. ASSUME NEW k \in Keys PROVE BoundOn(k, keys[k].subject)'
        <4>1. CASE k = ctx[c].key
          <5>1. keys'[k].subject = subject
            BY <1>9, <4>1 DEF BindUser, TypeOK, StorageType
          <5> HIDE DEF subject
          <5>2. QED
            BY <2>3, <4>1, <5>1 DEF BoundOn
        <4>2. CASE k # ctx[c].key
          <5>1. keys'[k] = keys[k] /\ bound'[k] = bound[k]
            BY <1>9, <4>2 DEF BindUser, TypeOK, StorageType
          <5>2. QED
            BY <5>1 DEF StoreInv, BoundOn
        <4>3. QED
          BY <4>1, <4>2
      <3>2. ASSUME NEW s \in Sessions, sessions[s] # None
            PROVE  Sends(sessions[s].key, s) /\ BoundOn(sessions[s].key, sessions[s].subject)'
        <4>1. Sends(sessions[s].key, s) /\ BoundOn(sessions[s].key, sessions[s].subject)
              /\ sessions[s].key \in Keys
          BY <3>2 DEF StoreInv, TypeOK, StorageType, StoredSession
        <4>2. sessions' = sessions
          BY <1>9 DEF BindUser
        <4>3. QED
          BY <4>1, <4>2, BoundGrows DEF TypeOK, BoundOn
      <3>3. QED
        <4>1. sessions' = sessions
          BY <1>9 DEF BindUser
        <4>2. QED
          BY <3>1, <3>2, <4>1 DEF StoreInv, Sends
    <2>8. QED
      BY <1>1, <1>9, <2>6, <2>7 DEF BindUser
  <1>10. ASSUME NEW c \in Conns, PatchSession(c) PROVE StoreInv' /\ \A d \in Conns : ConnInv(d)'
    <2> DEFINE subject == Head(work[c].requests).subject
               s0 == ctx[c].sess
    <2>1. work[c].at = "patch" /\ work[c].at \in RequestSteps
      BY <1>10 DEF PatchSession, RequestSteps, Steps
    <2>2. ctx[c].key \in Keys /\ s0 \in Sessions /\ Sends(ctx[c].key, s0)
          /\ BoundOn(ctx[c].key, subject)
      BY <2>1, ConnAtRequest DEF PatchMatches, PatchOf
    <2>3. ctx' = ctx /\ queue' = queue /\ keys' = keys /\ bound' = bound
          /\ work'[c] = Dispatch(Tail(work[c].requests))
      BY <1>10 DEF PatchSession, NextRequest, history
    <2>4. ConnInv(c)'
      BY <2>1, <2>3, NextKeepsConnInv
    <2>5. sessions[s0] # None => sessions[s0].key = ctx[c].key
      <3>1. work[c].requests # <<>> /\ Head(work[c].requests).kind = "bindUser"
        BY <2>1 DEF TypeOK, ProcessType, AtItsRequest, KindOf
      <3>2. work[c].requests \in Seq(Request) /\ work[c].at # "idle"
        BY <2>1 DEF Work
      <3>3. 1 \in 1..Len(work[c].requests) /\ work[c].requests[1].kind = "bindUser"
        BY <3>1, <3>2
      <3>4. LogsIn(ctx[c].key, s0)
        BY <3>2, <3>3 DEF AsksAsSent
      <3>5. QED
        BY <2>2, <3>4 DEF StoreInv, SessionsOwned, TypeOK, StorageType, StoredSession
    <2>6. ASSUME NEW s \in Sessions, sessions'[s] # None
          PROVE  Sends(sessions'[s].key, s) /\ BoundOn(sessions'[s].key, sessions'[s].subject)
      <3>1. sessions \in [Sessions -> StoredSession \cup {None}]
        BY DEF TypeOK, StorageType
      <3>2. CASE sessions'[s] = sessions[s]
        BY <2>6, <3>2 DEF StoreInv
      <3>3. CASE sessions'[s] # sessions[s]
        <4>1. s = s0 /\ sessions[s0] # None /\ sessions'[s] = [sessions[s0] EXCEPT !.subject = subject]
          BY <1>10, <3>1, <3>3 DEF PatchSession
        <4>2. sessions'[s].key = ctx[c].key /\ sessions'[s].subject = subject
          BY <2>2, <2>5, <3>1, <4>1
        <4>3. QED
          BY <2>2, <4>1, <4>2
      <3>4. QED
        BY <3>2, <3>3
    <2>7. StoreInv'
      BY <2>3, <2>6 DEF StoreInv, BoundOn, Sends
    <2>8. QED
      BY <1>1, <1>10, <2>4, <2>7 DEF PatchSession, NextRequest
  <1>11. ASSUME NEW c \in Conns, OtherRequest(c) \/ UnbindUser(c) \/ RevokeKey(c)
                                 \/ DeleteSession(c)
         PROVE  StoreInv' /\ \A d \in Conns : ConnInv(d)'
    <2>1. work[c].at \in RequestSteps /\ queue' = queue
      BY <1>11 DEF OtherRequest, UnbindUser, RevokeKey, DeleteSession, RequestSteps, Steps
    <2>2. work'[c] = Dispatch(Tail(work[c].requests))
      BY <1>11 DEF OtherRequest, UnbindUser, RevokeKey, DeleteSession, NextRequest
    <2>3. ctx'[c].key = ctx[c].key /\ ctx'[c].sess = ctx[c].sess
          /\ ctx'[c].subject \in {ctx[c].subject, None}
      BY <1>11 DEF OtherRequest, UnbindUser, RevokeKey, DeleteSession, Ctx
    <2>4. ConnInv(c)'
      BY <2>1, <2>2, <2>3, NextKeepsConnInv
    <2>5. /\ \A k \in Keys : keys'[k].subject \in {keys[k].subject, None}
          /\ \A s \in Sessions : sessions'[s] \in {sessions[s], None}
      <3> keys \in [Keys -> [blocked : BOOLEAN, subject : Subjects \cup {None}]]
          /\ sessions \in [Sessions -> StoredSession \cup {None}]
        BY DEF TypeOK, StorageType
      <3>1. CASE OtherRequest(c)
        BY <3>1 DEF OtherRequest, storage
      <3>2. CASE UnbindUser(c)
        BY <3>2 DEF UnbindUser
      <3>3. CASE RevokeKey(c)
        BY <3>3 DEF RevokeKey
      <3>4. CASE DeleteSession(c)
        BY <3>4 DEF DeleteSession, Remove
      <3>5. QED
        BY <1>11, <3>1, <3>2, <3>3, <3>4
    <2>6. StoreInv'
      BY <2>5, StoreKept
    <2>7. QED
      BY <1>1, <1>11, <2>4, <2>6
         DEF OtherRequest, UnbindUser, RevokeKey, DeleteSession, NextRequest
  <1>12. ASSUME NEW c \in Conns, DestroySession(c) PROVE StoreInv' /\ \A d \in Conns : ConnInv(d)'
    <2>1. work[c].at \in RequestSteps /\ queue' = queue /\ ctx' = ctx /\ bound' = bound
      BY <1>12 DEF DestroySession, RequestSteps, Steps, history
    <2>2. StoreInv'
      BY <1>12, StoreKept DEF DestroySession, storage
    <2>3. ConnInv(c)'
      <3>1. CASE work'[c] = Dispatch(Tail(work[c].requests))
        BY <2>1, <3>1, NextKeepsConnInv
      <3>2. CASE work'[c] = [work[c] EXCEPT !.at = "destroy"]
        <4>1. /\ work'[c].at = "destroy" /\ work'[c].rec = work[c].rec
              /\ work'[c].existing = work[c].existing /\ work[c].at # "idle"
          BY <2>1, <3>2 DEF Work, RequestSteps
        <4>2. QED
          BY <2>1, <4>1 DEF ConnInv, BoundOn, Sends
      <3>3. QED
        BY <1>12, <3>1, <3>2 DEF DestroySession, NextRequest
    <2>4. QED
      BY <1>1, <1>12, <2>1, <2>2, <2>3 DEF DestroySession, NextRequest
  <1>13. ASSUME NEW c \in Conns, KeyReadFails(c) PROVE StoreInv' /\ \A d \in Conns : ConnInv(d)'
    <2>1. /\ queue[c] \in Seq(Packet) /\ queue[c] # <<>>
          /\ queue' = [queue EXCEPT ![c] = Tail(@)] /\ queue \in [Conns -> Seq(Packet)]
      BY <1>13 DEF KeyReadFails, TypeOK, CarrierType
    <2>2. \A i \in 1..Len(Tail(queue[c])) : Tail(queue[c])[i] = queue[c][i + 1]
                                            /\ i + 1 \in 1..Len(queue[c])
      BY <2>1
    <2>3. \A i \in 1..Len(queue'[c]) : Sends(queue'[c][i].key, queue'[c][i].sess)
      BY <2>1, <2>2 DEF ConnInv
    <2>4. bound' = bound /\ StoreInv' /\ UNCHANGED <<work, ctx>>
      BY <1>13, StoreKept DEF KeyReadFails, storage, history
    <2>5. ConnInv(c)'
      BY <2>3, <2>4 DEF ConnInv, BoundOn, Sends
    <2>6. QED
      BY <1>1, <2>1, <2>4, <2>5
  <1>14. QED
    BY <1>2, <1>3, <1>4, <1>5, <1>6, <1>7, <1>8, <1>9, <1>10, <1>11, <1>12, <1>13
       DEF Next, Process

(***************************************************************************)
(* A request is only ever served as a subject that was bound on the key    *)
(* that sent it, whatever the interleaving and whatever the storage        *)
(* rejects.                                                                *)
(***************************************************************************)
THEOREM SubjectsStayWithTheirKey ==
    ASSUME SessionsOwned
    PROVE  Spec => []SubjectStaysWithKey
  <1> DEFINE Asks == \A c \in Conns : AsksAsSent(c)
  <1>1. Init => PatchMatches /\ Asks
    BY DEF Init, Idle, PatchMatches, PatchOf, AsksAsSent
  <1>2. TypeOK /\ PatchMatches /\ Asks /\ IsolationInv /\ [Next]_vars
            => (PatchMatches /\ Asks /\ IsolationInv)'
    BY PatchMatchesStep, AsksStep, IsolationStep
  <1>3. IsolationInv => SubjectStaysWithKey
    BY DEF IsolationInv, StoreInv, ConnInv, SubjectStaysWithKey, Handling
  <1> HIDE DEF Asks
  <1>4. QED
    BY <1>1, <1>2, <1>3, IsolationInit, TypeCorrect, PTL DEF Spec

-----------------------------------------------------------------------------
(***************************************************************************)
(* A connection is told of a session once in the session's life, although  *)
(* ensureSession reads the record and saves it in two steps.  The          *)
(* invariant: a connection that has been told as often as it may finds the *)
(* record there, whoever saved it, as its removal would have been counted; *)
(* so one that is about to save the record has been told less often.       *)
(***************************************************************************)
Told(c, s) ==
    /\ announced[c][s] <= ended[s] + 1
    /\ announced[c][s] = ended[s] + 1 => sessions[s] # None

MayTell(c) ==
    work[c].at = "save" => announced[c][ctx[c].sess] <= ended[ctx[c].sess]

AnnounceInv == \A c \in Conns : MayTell(c) /\ \A s \in Sessions : Told(c, s)

\* What a step does to the record of a session, and what it tells connection c of it.
Removes(c, s) ==
    /\ sessions'[s] = None /\ announced'[c][s] = announced[c][s]
    /\ ended'[s] = IF sessions[s] = None THEN ended[s] ELSE ended[s] + 1

Keeps(c, s) ==
    /\ sessions[s] # None => sessions'[s] # None
    /\ announced'[c][s] = announced[c][s] /\ ended'[s] = ended[s]

Announces(c, s) ==
    /\ work[c].at = "save" /\ s = ctx[c].sess
    /\ sessions'[s] # None
    /\ announced'[c][s] = announced[c][s] + 1 /\ ended'[s] = ended[s]

LEMMA SavedIsSession ==
    ASSUME TypeOK, NEW c \in Conns, work[c].at = "save"
    PROVE  /\ ctx[c].sess \in Sessions
           /\ [key |-> ctx[c].key, subject |-> Stored(SubjectOfNew(c))] \in StoredSession
  <1>1. work[c] \in Work /\ ctx[c] \in Ctx /\ ctx[c].key # None /\ ctx[c].sess # None
    BY DEF TypeOK, ProcessType
  <1>2. ctx[c].key \in Keys /\ ctx[c].sess \in Sessions /\ SubjectOfNew(c) \in Subjects \cup {None}
    BY <1>1 DEF Work, Ctx, SubjectOfNew
  <1>3. Stored(SubjectOfNew(c)) \in Subjects \cup {Unset}
    BY <1>2 DEF Stored
  <1>4. QED
    BY <1>2, <1>3 DEF StoredSession

LEMMA PatchedIsSession ==
    ASSUME TypeOK, NEW c \in Conns, PatchSession(c), NEW d \in Conns, NEW s \in Sessions
    PROVE  Keeps(d, s)
  <1> DEFINE subject == Head(work[c].requests).subject
             t == ctx[c].sess
  <1>1. work[c].at = "patch" /\ work[c] \in Work /\ AtItsRequest(work[c])
    BY DEF PatchSession, TypeOK, ProcessType
  <1>2. subject \in Subjects
    BY <1>1, RequestAtHand DEF RequestSteps, Steps
  <1>3. /\ sessions' = IF sessions[t] = None THEN sessions
                       ELSE [sessions EXCEPT ![t] = [sessions[t] EXCEPT !.subject = subject]]
        /\ announced' = announced /\ ended' = ended
    BY DEF PatchSession, history
  <1> HIDE DEF subject, t
  <1>4. CASE s = t /\ sessions[s] # None
    <2>1. sessions[s] \in StoredSession
      BY <1>4 DEF TypeOK, StorageType
    <2>2. [sessions[s] EXCEPT !.subject = subject] \in StoredSession
      BY <1>2, <2>1 DEF StoredSession
    <2>3. sessions'[s] = [sessions[s] EXCEPT !.subject = subject]
      BY <1>3, <1>4 DEF TypeOK, StorageType
    <2>4. QED
      BY <1>3, <1>4, <2>2, <2>3, NoneIsNoSession DEF Keeps
  <1>5. CASE ~(s = t /\ sessions[s] # None)
    BY <1>3, <1>5 DEF Keeps, TypeOK, StorageType
  <1>6. QED
    BY <1>4, <1>5

LEMMA RecordSteps ==
    ASSUME TypeOK, [Next]_vars, NEW d \in Conns, NEW s \in Sessions
    PROVE  Keeps(d, s) \/ Removes(d, s) \/ (SaveSession(d) /\ Announces(d, s))
  <1>1. CASE UNCHANGED <<sessions, announced, ended>>
    BY <1>1 DEF Keeps
  <1>2. ASSUME NEW r, Remove(r), announced' = announced PROVE Keeps(d, s) \/ Removes(d, s)
    BY <1>2 DEF Remove, Keeps, Removes, TypeOK, StorageType
  <1>3. ASSUME NEW c \in Conns, DeleteForeign(c) \/ DeleteSession(c)
        PROVE  Keeps(d, s) \/ Removes(d, s)
    BY <1>2, <1>3 DEF DeleteForeign, DeleteSession
  <1>4. ASSUME NEW c \in Conns, SaveSession(c)
        PROVE  Keeps(d, s) \/ (SaveSession(d) /\ Announces(d, s))
    <2> DEFINE r == [key |-> ctx[c].key, subject |-> Stored(SubjectOfNew(c))]
               t == ctx[c].sess
    <2>1. /\ sessions' = [sessions EXCEPT ![t] = r]
          /\ announced' = [announced EXCEPT ![c][t] = announced[c][t] + 1]
          /\ ended' = ended /\ work[c].at = "save"
      BY <1>4 DEF SaveSession
    <2>2. r # None
      BY <2>1, SavedIsSession, NoneIsNoSession
    <2>3. /\ sessions \in [Sessions -> StoredSession \cup {None}]
          /\ announced \in [Conns -> [Sessions -> Nat]]
      BY DEF TypeOK, StorageType
    <2> HIDE DEF r
    <2>4. CASE s = t /\ d = c
      BY <1>4, <2>1, <2>2, <2>3, <2>4 DEF Announces
    <2>5. CASE ~(s = t /\ d = c)
      <3>1. announced'[d][s] = announced[d][s]
        BY <2>1, <2>3, <2>5
      <3>2. sessions[s] # None => sessions'[s] # None
        BY <2>1, <2>2, <2>3
      <3>3. QED
        BY <2>1, <3>1, <3>2 DEF Keeps
    <2>6. QED
      BY <2>4, <2>5
  <1>5. ASSUME NEW c \in Conns, PatchSession(c) PROVE Keeps(d, s)
    BY <1>5, PatchedIsSession
  <1>6. ASSUME NEW c \in Conns, Process(c), ~DeleteForeign(c), ~DeleteSession(c),
               ~SaveSession(c), ~PatchSession(c)
        PROVE  UNCHANGED <<sessions, announced, ended>>
    BY <1>6 DEF Process, ReadKey, CheckPacket, FindSession, TouchSession, OtherRequest, BindUser,
                UnbindUser, RevokeKey, DestroySession, KeyReadFails, OperationFails, storage,
                history
  <1>7. ASSUME NEW c \in Conns, Arrive(c) \/ SocketCloses(c)
        PROVE  UNCHANGED <<sessions, announced, ended>>
    BY <1>7 DEF Arrive, SocketCloses, storage, history
  <1>8. QED
    BY <1>1, <1>3, <1>4, <1>5, <1>6, <1>7 DEF Next, vars, storage, history

\* A connection about to save a session was so before, or has found or made it missing.
LEMMA SaveComesFrom ==
    ASSUME TypeOK, [Next]_vars, NEW d \in Conns, work'[d].at = "save"
    PROVE  \/ sessions'[ctx'[d].sess] = None
           \/ work[d].at = "save" /\ ctx'[d] = ctx[d] /\ ~SaveSession(d)
  <1>1. work \in [Conns -> Work] /\ ctx \in [Conns -> Ctx]
    BY DEF TypeOK, ProcessType
  <1>2. ~SaveSession(d)
    <2>1. SUFFICES ASSUME SaveSession(d) PROVE FALSE
      OBVIOUS
    <2>2. work'[d] = Dispatch(work[d].requests) /\ work[d].requests \in Seq(Request)
      BY <1>1, <2>1 DEF SaveSession, Work
    <2>3. QED
      BY <2>2, DispatchType
  <1>3. ASSUME NEW c \in Conns, FindSession(c), c = d PROVE sessions'[ctx'[d].sess] = None
    <2>1. Existing(d) = None
      <3>1. SUFFICES ASSUME Existing(d) # None PROVE FALSE
        OBVIOUS
      <3>2. work'[d].at \in {"touch", "delete"}
        BY <1>1, <1>3, <3>1 DEF FindSession, Work
      <3>3. QED
        BY <3>2
    <2>2. ctx' = [ctx EXCEPT ![d].subject = SubjectOfNew(d)] /\ sessions' = sessions
      BY <1>3, <2>1 DEF FindSession, storage
    <2>3. ctx'[d].sess = ctx[d].sess
      BY <1>1, <2>2 DEF Ctx
    <2>4. QED
      BY <2>1, <2>2, <2>3 DEF Existing
  <1>4. ASSUME NEW c \in Conns, DeleteForeign(c), c = d PROVE sessions'[ctx'[d].sess] = None
    <2>1. ctx' = [ctx EXCEPT ![d].subject = SubjectOfNew(d)] /\ Remove(ctx[d].sess)
          /\ work[d].at = "delete"
      BY <1>4 DEF DeleteForeign
    <2>2. ctx'[d].sess = ctx[d].sess
      BY <1>1, <2>1 DEF Ctx
    <2>3. ctx[d].sess \in Sessions
      BY <1>1, <2>1 DEF TypeOK, ProcessType, Ctx
    <2>4. sessions'[ctx[d].sess] = None
      BY <2>1, <2>3 DEF Remove, TypeOK, StorageType
    <2>5. QED
      BY <2>2, <2>4
  <1>5. ASSUME Process(d), ~FindSession(d), ~DeleteForeign(d) PROVE FALSE
    <2>1. work[d] \in Work /\ work[d].requests \in Seq(Request)
      BY <1>1 DEF Work
    <2>2. CASE work'[d] = Dispatch(Tail(work[d].requests)) /\ work[d].at \in RequestSteps
      <3>1. Tail(work[d].requests) \in Seq(Request)
        BY <2>2, RestOfRequests DEF TypeOK
      <3>2. QED
        BY <2>2, <3>1, DispatchType
    <2>3. CASE work'[d].at \in {"idle", "salts", "session", "destroy", "patch"}
      BY <2>3
    <2>4. CASE ReadKey(d) \/ CheckPacket(d) \/ BindUser(d) \/ OperationFails(d)
      <3>1. Idle.at = "idle"
        BY DEF Idle
      <3>2. \/ work'[d] = work[d] /\ work[d].at = "idle"
            \/ work'[d] = Idle
            \/ \E w \in Work \cup {Idle}, at \in {"session", "patch"} : work'[d] = [w EXCEPT !.at = at]
            \/ work'[d].at = "salts"
        <4>1. CASE ReadKey(d)
          <5> DEFINE p == Head(queue[d])
                     w == [Idle EXCEPT !.at = "salts", !.rec = keys[p.key].subject, !.requests = p.requests]
          <5>1. (work' = work /\ work[d].at = "idle") \/ work' = [work EXCEPT ![d] = w]
            BY <4>1 DEF ReadKey
          <5>2. w.at = "salts"
            BY DEF Idle
          <5>3. d \in DOMAIN work
            BY <1>1
          <5> HIDE DEF w
          <5>4. QED
            BY <5>1, <5>2, <5>3
        <4>2. CASE CheckPacket(d)
          BY <1>1, <2>1, <4>2 DEF CheckPacket
        <4>3. CASE BindUser(d)
          BY <1>1, <2>1, <4>3 DEF BindUser
        <4>4. CASE OperationFails(d)
          BY <1>1, <4>4 DEF OperationFails
        <4>5. QED
          BY <2>4, <4>1, <4>2, <4>3, <4>4
      <3>3. QED
        BY <2>3, <3>1, <3>2 DEF Work, Idle
    <2>5. CASE OtherRequest(d) \/ PatchSession(d) \/ UnbindUser(d) \/ RevokeKey(d) \/ DeleteSession(d)
      <3>1. work[d].at \in RequestSteps
        BY <2>5 DEF OtherRequest, PatchSession, UnbindUser, RevokeKey, DeleteSession, RequestSteps,
                    Steps
      <3>2. NextRequest(d)
        BY <2>5 DEF OtherRequest, PatchSession, UnbindUser, RevokeKey, DeleteSession
      <3>3. QED
        BY <1>1, <2>2, <3>1, <3>2 DEF NextRequest
    <2>6. CASE DestroySession(d)
      <3>1. work[d].at \in RequestSteps
        BY <2>6 DEF DestroySession, RequestSteps, Steps
      <3>2. CASE NextRequest(d)
        BY <1>1, <2>2, <3>1, <3>2 DEF NextRequest
      <3>3. CASE work' = [work EXCEPT ![d].at = "destroy"]
        BY <1>1, <2>1, <2>3, <3>3 DEF Work
      <3>4. QED
        BY <2>6, <3>2, <3>3 DEF DestroySession
    <2>7. CASE TouchSession(d)
      <3>1. work'[d] = Dispatch(work[d].requests)
        BY <1>1, <2>7 DEF TouchSession
      <3>2. QED
        BY <2>1, <3>1, DispatchType
    <2>8. CASE KeyReadFails(d)
      BY <2>3, <2>8 DEF KeyReadFails
    <2>9. QED
      BY <1>2, <1>5, <2>4, <2>5, <2>6, <2>7, <2>8 DEF Process
  <1>6. ASSUME NEW c \in Conns, Process(c), c # d PROVE work'[d] = work[d] /\ ctx'[d] = ctx[d]
    BY <1>1, <1>6
       DEF Process, ReadKey, CheckPacket, FindSession, TouchSession, DeleteForeign, SaveSession,
           OtherRequest, BindUser, PatchSession, UnbindUser, RevokeKey, DestroySession,
           DeleteSession, KeyReadFails, OperationFails, NextRequest
  <1>7. ASSUME NEW c \in Conns, Arrive(c) \/ SocketCloses(c)
        PROVE  work'[d] = work[d] /\ ctx'[d] = ctx[d]
    BY <1>7 DEF Arrive, SocketCloses
  <1>8. CASE UNCHANGED vars
    BY <1>2, <1>8 DEF vars
  <1>9. QED
    BY <1>2, <1>3, <1>4, <1>5, <1>6, <1>7, <1>8 DEF Next

LEMMA AnnounceStep == TypeOK /\ AnnounceInv /\ [Next]_vars => AnnounceInv'
  <1> SUFFICES ASSUME TypeOK, AnnounceInv, [Next]_vars, NEW d \in Conns
               PROVE  MayTell(d)' /\ \A s \in Sessions : Told(d, s)'
    BY DEF AnnounceInv
  <1>1. \A s \in Sessions : announced[d][s] \in Nat /\ ended[s] \in Nat
    BY DEF TypeOK, StorageType
  <1>2. ASSUME NEW s \in Sessions PROVE Told(d, s)'
    <2>1. Told(d, s) /\ MayTell(d)
      BY DEF AnnounceInv
    <2>2. CASE Keeps(d, s) \/ Removes(d, s)
      BY <1>1, <2>1, <2>2 DEF Told, Keeps, Removes
    <2>3. CASE Announces(d, s)
      BY <1>1, <2>1, <2>3 DEF Told, MayTell, Announces
    <2>4. QED
      BY <2>2, <2>3, RecordSteps
  <1>3. ASSUME work'[d].at = "save" PROVE announced'[d][ctx'[d].sess] <= ended'[ctx'[d].sess]
    <2> DEFINE s == ctx'[d].sess
    <2>1. TypeOK'
      BY TypeNext
    <2>2. s \in Sessions /\ announced'[d][s] \in Nat /\ ended'[s] \in Nat
      BY <1>3, <2>1 DEF TypeOK, StorageType, ProcessType, Ctx
    <2>3. CASE sessions'[s] = None
      BY <1>2, <2>2, <2>3 DEF Told
    <2>4. CASE work[d].at = "save" /\ ctx'[d] = ctx[d] /\ ~SaveSession(d)
      <3>1. announced[d][s] <= ended[s]
        BY <2>4 DEF AnnounceInv, MayTell
      <3>2. Keeps(d, s) \/ Removes(d, s)
        BY <2>2, <2>4, RecordSteps
      <3>3. QED
        BY <1>1, <2>2, <3>1, <3>2 DEF Keeps, Removes
    <2>5. QED
      BY <1>3, <2>3, <2>4, SaveComesFrom
  <1>4. QED
    BY <1>2, <1>3 DEF MayTell

(***************************************************************************)
(* A connection is told once of each session the gateway keeps for it,     *)
(* however many connections use the session: every new_session_created on  *)
(* it beyond the first follows a removal of the record.                    *)
(***************************************************************************)
THEOREM SessionsAreAnnouncedOnce == Spec => []AnnouncedOnce
  <1>1. Init => AnnounceInv
    BY DEF Init, Idle, AnnounceInv, MayTell, Told
  <1>2. TypeOK /\ AnnounceInv /\ [Next]_vars => AnnounceInv'
    BY AnnounceStep
  <1>3. AnnounceInv => AnnouncedOnce
    BY DEF AnnounceInv, Told, AnnouncedOnce
  <1>4. QED
    BY <1>1, <1>2, <1>3, TypeCorrect, PTL DEF Spec
=============================================================================
