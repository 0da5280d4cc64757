--------------------------- MODULE InboundTracker ---------------------------
(***************************************************************************)
(* The inbound-message guard of one connection:                            *)
(* packages/server/src/session/inbound-tracker.ts, driven the way the      *)
(* pipeline drives it (message-pipeline.ts, dispatcher.ts).  Messages of a *)
(* connection are processed serially: an outer envelope is accepted, waits *)
(* for its session, and is dispatched, then, if it is a msg_container, its *)
(* inner messages one after the other, those of a container inside it      *)
(* included; the next message is looked at when a request was answered.    *)
(* Session and dispatch may throw: the chain of packets goes on, what was  *)
(* left of the envelope is gone (Connection.enqueue).                      *)
(*                                                                         *)
(* A msg_id is a number whose quotient by IdsPerSec (2^32 in the code) is  *)
(* the client's unix time and whose two low bits are 0 for a client.       *)
(* Date.now() is a wall clock: it may jump either way.                     *)
(* A rejected message changes nothing (the reply aside), so a rejection is *)
(* a stuttering step.                                                      *)
(***************************************************************************)
EXTENDS Integers, Sequences, FiniteSets

CONSTANTS
    MsgIds,           \* the msg_ids that occur
    SeqNos,           \* the seqnos that occur (uint32)
    Times,            \* values of Date.now(), in seconds
    IdsPerSec,        \* msg_ids per second of the clock
    MaxTracked,       \* size of the window of remembered msg_ids
    MaxContainer,     \* CONTAINER_MAX_MESSAGES
    PastTolerance, FutureTolerance,   \* in seconds
    CheckSeqNo,       \* not disableSeqNoCheck
    None              \* no message

ASSUME TrackerAssumption ==
    /\ MsgIds \subseteq Nat
    /\ SeqNos \subseteq Nat
    /\ Times \subseteq Nat
    /\ IdsPerSec \in Nat \ {0}
    /\ MaxTracked \in Nat \ {0}
    /\ MaxContainer \in Nat
    /\ PastTolerance \in Nat
    /\ FutureTolerance \in Nat
    /\ CheckSeqNo \in BOOLEAN
    /\ None \notin MsgIds

(***************************************************************************)
(* The dispatcher reads a container of up to CONTAINER_MAX_MESSAGES, the   *)
(* tracker remembers MAX_TRACKED messages: both are 1024.                  *)
(***************************************************************************)
ASSUME ContainerFitsWindow == MaxContainer <= MaxTracked

VARIABLES
    received,         \* msg_id |-> what is remembered of it
    order,            \* the remembered msg_ids, oldest arrival first
    evictedHigh,      \* highest msg_id that left the window
    maxReceived,      \* highest msg_id ever accepted
    lastContentSeqNo, \* highest seqno of an outer content-related message
    now,              \* the clock, in seconds
    opening,          \* the accepted envelope whose session is awaited, or None
    pending,          \* the request being processed, None between messages
    toCome,           \* inner messages of the current envelope still to read
    floor,            \* history: maxReceived when that envelope arrived
    nested,           \* history: whether it had a container in a container
    runs,             \* history: how often a msg_id was handed to the dispatcher
    lost,             \* history: the msg_ids accepted whose session failed
    answered          \* history: the msg_ids whose rpc_result was sent

tracker == <<received, order, evictedHigh, maxReceived, lastContentSeqNo>>
history == <<floor, nested, runs, lost, answered>>
vars == <<tracker, now, opening, pending, toCome, history>>

-----------------------------------------------------------------------------
(***************************************************************************)
(* messageClass reads the constructor id.  A "packed" message is a         *)
(* gzip_packed container (classified by the id of gzip_packed, hence       *)
(* content-related and not a container); a "query" is answered with an     *)
(* rpc_result; an "unknown" one is a content-related payload that is not:  *)
(* the codec cannot decode it, or its service answers otherwise.           *)
(***************************************************************************)
Kinds == {"query", "unknown", "service", "container", "packed"}
Message == [id : MsgIds, seqNo : SeqNos, kind : Kinds]

ASSUME NoneIsNoMessage == None \notin Message

IsContainer(m) == m.kind = "container"
ContentRelated(m) == m.kind \notin {"service", "container"}
HasInners(m) == m.kind \in {"container", "packed"}

Odd(n) == n % 2 = 1
Sec(id) == id \div IdsPerSec
Entry == [seqNo : SeqNos, answered : BOOLEAN]

TooOld(id) == Sec(id) < now - PastTolerance
TooNew(id) == Sec(id) > now + FutureTolerance

\* Left the window, or older than something that did: not to be verified any more.
Forgotten_OffByOne(id) == id < evictedHigh
Forgotten(id) == id <= evictedHigh

(***************************************************************************)
(* What accept() answers to message m.  checkOrder is set for the outer    *)
(* stream only: a resend container legitimately carries old seqnos.        *)
(***************************************************************************)
Verdict(m, checkOrder) ==
    IF m.id % 4 # 0 THEN "18"
    ELSE IF TooOld(m.id) THEN "16"
    ELSE IF TooNew(m.id) THEN "17"
    ELSE IF m.id \in DOMAIN received
         THEN IF IsContainer(m) THEN "19"
              ELSE IF received[m.id].answered THEN "detailed" ELSE "drop"
    ELSE IF Forgotten(m.id) THEN "20"
    ELSE IF CheckSeqNo /\ ContentRelated(m) /\ ~Odd(m.seqNo) THEN "35"
    ELSE IF CheckSeqNo /\ ~ContentRelated(m) /\ Odd(m.seqNo) THEN "34"
    ELSE IF checkOrder /\ ContentRelated(m) /\ m.seqNo <= lastContentSeqNo THEN "32"
    ELSE "ok"

(***************************************************************************)
(* note(): remember m; the oldest arrival leaves a full window.            *)
(***************************************************************************)
Full == Len(order) = MaxTracked
Evicted == IF Full THEN {Head(order)} ELSE {}
Higher(a, b) == IF a > b THEN a ELSE b

EvictedHighAfter_Last == IF Full THEN Head(order) ELSE evictedHigh
EvictedHighAfter == IF Full THEN Higher(Head(order), evictedHigh) ELSE evictedHigh
MaxReceivedAfter(m) == Higher(m.id, maxReceived)

Note(m) ==
    /\ received' = [i \in (DOMAIN received \cup {m.id}) \ Evicted |->
                       IF i = m.id THEN [seqNo |-> m.seqNo, answered |-> FALSE]
                       ELSE received[i]]
    /\ order' = Append(IF Full THEN Tail(order) ELSE order, m.id)
    /\ maxReceived' = MaxReceivedAfter(m)
    /\ evictedHigh' = EvictedHighAfter

(***************************************************************************)
(* One byte of msgs_state_info: 1 nothing known, 2 not received, 3 not     *)
(* received and above every message seen, "processed" (4 + 32 + 64) for a  *)
(* content-related and "noAck" (4 + 16) for a service message.             *)
(***************************************************************************)
StateByte_ClockOnly(id) ==
    IF id \in DOMAIN received
    THEN IF Odd(received[id].seqNo) THEN "processed" ELSE "noAck"
    ELSE IF TooOld(id) THEN "1" ELSE IF id > maxReceived THEN "3" ELSE "2"

StateByte(id) ==
    IF id \in DOMAIN received
    THEN IF Odd(received[id].seqNo) THEN "processed" ELSE "noAck"
    ELSE IF TooOld(id) \/ id <= evictedHigh THEN "1"
    ELSE IF id > maxReceived THEN "3" ELSE "2"

-----------------------------------------------------------------------------
Init ==
    /\ received = [i \in {} |-> {}]
    /\ order = <<>>
    /\ evictedHigh = 0
    /\ maxReceived = 0
    /\ lastContentSeqNo = -1
    /\ now \in Times
    /\ opening = None
    /\ pending = None
    /\ toCome = 0
    /\ floor = 0
    /\ nested = FALSE
    /\ runs = [i \in MsgIds |-> 0]
    /\ lost = {}
    /\ answered = {}

\* How many messages parseContainer lets a container announce; none if it is
\* malformed (code 64), or if gunzip throws.
ContainerSizes == 0..MaxContainer
Announced(m) == IF HasInners(m) THEN ContainerSizes ELSE {0}

Idle == opening = None /\ pending = None /\ toCome = 0

(***************************************************************************)
(* A message goes to the dispatcher; a container adds its messages to      *)
(* those still to be read.                                                 *)
(***************************************************************************)
Dispatch(m, rest) ==
    /\ runs' = [runs EXCEPT ![m.id] = @ + 1]
    /\ pending' = IF m.kind = "query" THEN m.id ELSE None
    /\ \E n \in Announced(m) : toCome' = rest + n

\* The outer envelope (handleEncrypted): order is checked.  ensureSession,
\* called next, is awaited.
AcceptOuter(m) ==
    /\ Idle
    /\ Verdict(m, CheckSeqNo) = "ok"
    /\ Note(m)
    /\ lastContentSeqNo' = IF CheckSeqNo /\ ContentRelated(m)
                           THEN m.seqNo ELSE lastContentSeqNo
    /\ opening' = m
    /\ floor' = maxReceived
    /\ nested' = FALSE
    /\ UNCHANGED <<now, pending, toCome, runs, lost, answered>>

\* The session is there.
OpenSession ==
    /\ opening # None
    /\ Dispatch(opening, 0)
    /\ opening' = None
    /\ UNCHANGED <<tracker, now, floor, nested, lost, answered>>

\* ensureSession rejected: the message stays noted and is never dispatched.
SessionFails ==
    /\ opening # None
    /\ lost' = lost \cup {opening.id}
    /\ opening' = None
    /\ UNCHANGED <<tracker, now, pending, toCome, floor, nested, runs, answered>>

\* The next inner message, checked without the order rule.
InnerAccepted(m) ==
    /\ Verdict(m, FALSE) = "ok"
    /\ Note(m)
    /\ Dispatch(m, toCome - 1)
    /\ nested' = (nested \/ HasInners(m))

\* A rejected inner message is replied to and skipped: the others still run.
InnerSkipped(m) ==
    /\ Verdict(m, FALSE) # "ok"
    /\ toCome' = toCome - 1
    /\ UNCHANGED <<received, order, evictedHigh, maxReceived, runs, nested, pending>>

ReadInner(m) ==
    /\ pending = None
    /\ toCome > 0
    /\ InnerAccepted(m) \/ InnerSkipped(m)
    /\ UNCHANGED <<lastContentSeqNo, now, opening, floor, lost, answered>>

RecordAnswer_NotCached ==
    /\ pending # None
    /\ pending' = None
    /\ answered' = answered \cup {pending}
    /\ UNCHANGED <<tracker, now, opening, toCome, floor, nested, runs, lost>>

\* sendEncrypted of the rpc_result: recordAnswer, if the id is still tracked.
RecordAnswer ==
    /\ pending # None
    /\ received' = [i \in DOMAIN received |->
                       IF i = pending THEN [received[i] EXCEPT !.answered = TRUE]
                       ELSE received[i]]
    /\ pending' = None
    /\ answered' = answered \cup {pending}
    /\ UNCHANGED <<order, evictedHigh, maxReceived, lastContentSeqNo,
                   now, opening, toCome, floor, nested, runs, lost>>

(***************************************************************************)
(* Processing a message throws: an effect's storage call or a migration    *)
(* rejects, the answer cannot be encoded.  enqueue() swallows it, with     *)
(* what is left of the envelope; nothing is recorded.                      *)
(***************************************************************************)
Abandon ==
    /\ pending # None \/ toCome > 0
    /\ pending' = None
    /\ toCome' = 0
    /\ UNCHANGED <<tracker, now, opening, history>>

SetClock ==
    /\ now' \in Times
    /\ UNCHANGED <<tracker, opening, pending, toCome, history>>

Next ==
    \/ \E m \in Message : AcceptOuter(m)
    \/ \E m \in Message : ReadInner(m)
    \/ OpenSession
    \/ SessionFails
    \/ RecordAnswer
    \/ Abandon
    \/ SetClock

Spec == Init /\ [][Next]_vars

-----------------------------------------------------------------------------
(***************************************************************************)
(* The types, and the window: order lists the remembered ids without       *)
(* repetition, at most MaxTracked of them.                                 *)
(***************************************************************************)
TypeOK ==
    /\ DOMAIN received \subseteq MsgIds
    /\ received \in [DOMAIN received -> Entry]
    /\ order \in Seq(MsgIds)
    /\ Len(order) <= MaxTracked
    /\ evictedHigh \in Nat
    /\ maxReceived \in Nat
    /\ lastContentSeqNo \in SeqNos \cup {-1}
    /\ now \in Times
    /\ opening \in Message \cup {None}
    /\ pending \in MsgIds \cup {None}
    /\ toCome \in Nat
    /\ floor \in Nat
    /\ nested \in BOOLEAN
    /\ runs \in [MsgIds -> Nat]
    /\ lost \subseteq MsgIds
    /\ answered \subseteq MsgIds

(***************************************************************************)
(* The Map and the array the tracker keeps side by side (received, order)  *)
(* never disagree: each remembered id is listed exactly once.              *)
(***************************************************************************)
WindowConsistent ==
    /\ DOMAIN received = {order[i] : i \in 1..Len(order)}
    /\ \A i, j \in 1..Len(order) : order[i] = order[j] => i = j

(***************************************************************************)
(* Re-processing is unsafe (inbound-tracker.ts:144): a msg_id reaches the  *)
(* dispatcher at most once in the life of the connection, also after the   *)
(* window forgot it, however it is resent (alone, in a container, with     *)
(* another seqno, after a clock jump).                                     *)
(***************************************************************************)
AtMostOnce == \A id \in MsgIds : runs[id] <= 1

(***************************************************************************)
(* msgs_state_info tells the truth about receipt: an id it calls not       *)
(* received (2, 3) was never accepted, thus neither dispatched nor lost,   *)
(* and one it calls received was dispatched, unless its session is still   *)
(* awaited or failed (message-pipeline.ts:206).                            *)
(***************************************************************************)
Opening(id) == opening # None /\ opening.id = id

StateInfoTruthful ==
    \A id \in MsgIds :
        /\ StateByte(id) \in {"2", "3"} =>
               runs[id] = 0 /\ ~Opening(id) /\ id \notin lost
        /\ StateByte(id) \in {"processed", "noAck"} =>
               runs[id] = 1 \/ Opening(id) \/ id \in lost

(***************************************************************************)
(* What state info invites the client to resend is accepted: a well-formed *)
(* message whose id it calls not received (2, 3), resent in a container,   *)
(* is dispatched unless its clock runs ahead.                              *)
(***************************************************************************)
WellFormed(m) ==
    /\ m.id % 4 = 0
    /\ ContentRelated(m) <=> Odd(m.seqNo)

ResendAccepted ==
    \A m \in Message :
        WellFormed(m) /\ ~TooNew(m.id) /\ StateByte(m.id) \in {"2", "3"}
            => Verdict(m, FALSE) = "ok"

(***************************************************************************)
(* A container never crowds out its own messages: reading up to            *)
(* CONTAINER_MAX_MESSAGES of them evicts the container's own (highest) id  *)
(* at the earliest after the last, so an inner message newer than all      *)
(* accepted before the container is never refused as too old to verify.    *)
(* With a container inside the container, which the dispatcher also reads, *)
(* there are more messages than the window has room for and this is lost.  *)
(***************************************************************************)
FreshInnerVerifiable ==
    toCome > 0 /\ ~nested =>
        \A m \in Message : m.id > floor => Verdict(m, FALSE) # "20"

(***************************************************************************)
(* A request whose answer was sent is never run again nor ignored in       *)
(* silence when it is resent: the client gets msg_detailed_info, or an     *)
(* error code once the window or the clock has moved on.  And              *)
(* msg_detailed_info, which tells the client where its answer is, is only  *)
(* sent of such a request.  (One whose handling threw is dropped.)         *)
(***************************************************************************)
AnsweredNeverDropped ==
    \A m \in Message :
        /\ m.id \in answered => Verdict(m, FALSE) \notin {"ok", "drop"}
        /\ Verdict(m, FALSE) = "detailed" => m.id \in answered

(***************************************************************************)
(* The life of a msg_id as a client may rely on it: MessageLifecycle.      *)
(***************************************************************************)
Status(id) ==
    IF id \in DOMAIN received THEN "taken"
    ELSE IF id <= evictedHigh THEN "retired" ELSE "fresh"

Lifecycle == INSTANCE MessageLifecycle
                 WITH Ids <- MsgIds, status <- [id \in MsgIds |-> Status(id)],
                      inHand <- IF opening = None THEN None ELSE opening.id

\* The tracker implements the life cycle.
ImplementsLifecycle == Lifecycle!Spec

(***************************************************************************)
(* An id above every accepted one is new: it is never taken for a          *)
(* duplicate nor for one too old to verify.                                *)
(***************************************************************************)
HigherIsNew ==
    \A m \in Message :
        m.id > maxReceived => Verdict(m, FALSE) \notin {"19", "20", "detailed", "drop"}
=============================================================================
