----------------------------- MODULE ClientSession -----------------------------
(***************************************************************************)
(* The client's session (packages/testing/src/session.ts, and its port to  *)
(* the browser, packages/studio/src/client/browser-session.ts, which also  *)
(* listens): concurrent invoke() and expectUpdate() calls that share one   *)
(* receive loop, the pump, over the inbox of the MTProto client below      *)
(* (test-client.ts).  The pump runs only while somebody waits; it takes a  *)
(* message, or polls until one comes, and hands it to whom it is for.      *)
(*                                                                         *)
(* The code between two awaits runs in one step.  A timer may run out at   *)
(* any time while it is armed.  Callbacks of the user do not throw.        *)
(***************************************************************************)
EXTENDS Integers, Sequences, FiniteSets, SequencesExt

CONSTANTS
    Calls,       \* invoke() calls
    Expects,     \* expectUpdate() calls
    Updates,     \* updates the server pushes, each once
    Matches,     \* the updates each expectUpdate() is for
    Negotiates,  \* the session was opened with a layer
    MaxFrames    \* bound: packets the server sends

\* How a call's promise stands, when it was not settled with an update.
Outcomes == {"new", "open", "closed", "timeout", "answered", "invalid"}

ASSUME SessionAssumption ==
    /\ Calls \cap Expects = {}
    /\ Updates \cap Outcomes = {}
    /\ Matches \in [Expects -> SUBSET Updates]
    /\ Negotiates \in BOOLEAN
    /\ MaxFrames \in Nat

VARIABLES
    closed,     \* close() was called
    listening,  \* listen() is on
    pump,       \* where the receive loop is: off, polling, or holding a packet
    hand,       \* the packet it holds
    inbox,      \* packets received and not taken yet
    pending,    \* the calls that wait for their answer
    expects,    \* the queue of update waiters
    updates,    \* the updates nobody has claimed
    timers,     \* the waiters whose timeout is armed
    outcome,    \* of each call: new, open, or how its promise was settled
    initSpec,   \* the first query is still to be wrapped
    sent,       \* the calls sent to the server, and whether they were wrapped
    frames,     \* how many packets the server sent
    pushed,     \* the updates it pushed
    drained     \* history: updates handed out by drainUpdates()

waiting == <<pending, expects, updates>>
client == <<closed, listening, waiting, timers, outcome, initSpec>>
loop == <<pump, hand, inbox>>
server == <<sent, frames, pushed>>
vars == <<closed, listening, pump, hand, inbox, waiting, timers, outcome, initSpec,
          sent, frames, pushed, drained>>

-----------------------------------------------------------------------------
(***************************************************************************)
(* A packet is the sequence of messages in it: one, or those of a          *)
(* container.  A service message is dropped, as is what does not decode.   *)
(* An rpc_result settles its call, with a result or an RpcError.           *)
(***************************************************************************)
Result(c) == [is |-> "rpc_result", call |-> c]
Push(u) == [is |-> "update", update |-> u]
Service == [is |-> "service"]

Waiters == pending \cup ToSet(expects)

Init ==
    /\ closed = FALSE
    /\ listening = FALSE
    /\ pump = "off" /\ hand = <<>> /\ inbox = <<>>
    /\ pending = {} /\ expects = <<>> /\ updates = <<>>
    /\ timers = {}
    /\ outcome = [x \in Calls \cup Expects |-> "new"]
    /\ initSpec = Negotiates
    /\ sent = <<>> /\ frames = 0 /\ pushed = {}
    /\ drained = {}

-----------------------------------------------------------------------------
(***************************************************************************)
(* The pump.  Its loop condition is evaluated as soon as a packet is dealt *)
(* with; receive() takes a packet from the inbox, or waits for one.        *)
(***************************************************************************)
Demand(calls, waiters, isClosed, isListening) ==
    ~isClosed /\ (calls # {} \/ waiters # <<>> \/ isListening)

Stop ==
    /\ pump' = "off" /\ hand' = <<>>
    /\ UNCHANGED inbox

Take ==
    IF inbox = <<>>
    THEN pump' = "polling" /\ hand' = <<>> /\ UNCHANGED inbox
    ELSE pump' = "holding" /\ hand' = Head(inbox) /\ inbox' = Tail(inbox)

\* ensurePump(), called with somebody waiting.
EnsurePump_OnlyOnce == IF pump = "off" /\ ~closed /\ sent = <<>> THEN Take ELSE UNCHANGED loop

EnsurePump == IF pump = "off" /\ ~closed THEN Take ELSE UNCHANGED loop

\* Back at the loop's condition.
Continue == IF Demand(pending', expects', closed, listening) THEN Take ELSE Stop

\* The poll's timeout: the client's waiter is removed, the condition checked.
PollTimeout ==
    /\ pump = "polling"
    /\ UNCHANGED <<client, server, drained>>
    /\ Continue

(***************************************************************************)
(* dispatch(): an answer settles the call it names, if it still waits; an  *)
(* update goes to the first waiter it matches, or to the queue.            *)
(***************************************************************************)
\* What dispatch() changes.
State == [pending |-> pending, expects |-> expects, updates |-> updates,
          timers |-> timers, outcome |-> outcome]

Becomes(s) ==
    /\ pending' = s.pending /\ expects' = s.expects /\ updates' = s.updates
    /\ timers' = s.timers /\ outcome' = s.outcome

Settled(s, x, how) ==
    [s EXCEPT !.timers = @ \ {x}, !.outcome[x] = how,
              !.pending = @ \ {x}, !.expects = RemoveFirst(@, x)]

FirstMatch(waiters, u) == SelectInSeq(waiters, LAMBDA x : u \in Matches[x])

RouteUpdate_QueuedToo(s, u) ==
    LET i == FirstMatch(s.expects, u)
        queued == [s EXCEPT !.updates = Append(@, u)]
    IN IF i # 0 THEN Settled(queued, s.expects[i], u) ELSE queued

RouteUpdate(s, u) ==
    LET i == FirstMatch(s.expects, u)
    IN IF i # 0 THEN Settled(s, s.expects[i], u)
                ELSE [s EXCEPT !.updates = Append(@, u)]

DispatchOne(s, m) ==
    CASE m.is = "rpc_result" -> IF m.call \in s.pending THEN Settled(s, m.call, "answered") ELSE s
      [] m.is = "update"     -> RouteUpdate(s, m.update)
      [] OTHER               -> s

Dispatch ==
    /\ pump = "holding"
    /\ Becomes(FoldLeft(DispatchOne, State, hand))
    /\ UNCHANGED <<closed, listening, initSpec, server, drained>>
    /\ Continue

-----------------------------------------------------------------------------
(***************************************************************************)
(* The user's calls.                                                       *)
(***************************************************************************)
RejectClosed(x) ==
    /\ outcome' = [outcome EXCEPT ![x] = "closed"]
    /\ UNCHANGED <<closed, listening, loop, waiting, timers, initSpec, server, drained>>

\* The query is wrapped, then encoded, sent, and waited for.
Invoke(c) ==
    /\ outcome[c] = "new" /\ ~closed
    /\ outcome' = [outcome EXCEPT ![c] = "open"]
    /\ pending' = pending \cup {c}
    /\ timers' = timers \cup {c}
    /\ initSpec' = FALSE
    /\ sent' = Append(sent, [call |-> c, wrapped |-> initSpec])
    /\ EnsurePump
    /\ UNCHANGED <<closed, listening, expects, updates, frames, pushed, drained>>

InvokeClosed(c) == outcome[c] = "new" /\ closed /\ RejectClosed(c)

\* The query does not encode: sendBody() throws, with the wrapping done.
InvokeInvalid(c) ==
    /\ outcome[c] = "new" /\ ~closed
    /\ outcome' = [outcome EXCEPT ![c] = "invalid"]
    /\ initSpec' = FALSE
    /\ UNCHANGED <<closed, listening, loop, waiting, timers, server, drained>>

\* The first unclaimed update that x is for.
Queued(x) == SelectInSeq(updates, LAMBDA u : u \in Matches[x])

ExpectQueued(x) ==
    /\ outcome[x] = "new" /\ Queued(x) # 0
    /\ outcome' = [outcome EXCEPT ![x] = updates[Queued(x)]]
    /\ updates' = RemoveAt(updates, Queued(x))
    /\ UNCHANGED <<closed, listening, loop, pending, expects, timers, initSpec, server, drained>>

ExpectClosed(x) == outcome[x] = "new" /\ Queued(x) = 0 /\ closed /\ RejectClosed(x)

Expect(x) ==
    /\ outcome[x] = "new" /\ Queued(x) = 0 /\ ~closed
    /\ outcome' = [outcome EXCEPT ![x] = "open"]
    /\ expects' = Append(expects, x)
    /\ timers' = timers \cup {x}
    /\ EnsurePump
    /\ UNCHANGED <<closed, listening, pending, updates, initSpec, server, drained>>

\* A waiter's own timeout.
Timeout(x) ==
    /\ x \in timers
    /\ Becomes(Settled(State, x, "timeout"))
    /\ UNCHANGED <<closed, listening, loop, initSpec, server, drained>>

DrainUpdates ==
    /\ updates # <<>>
    /\ drained' = drained \cup ToSet(updates)
    /\ updates' = <<>>
    /\ UNCHANGED <<closed, listening, loop, pending, expects, timers, outcome, initSpec, server>>

Listen ==
    /\ ~listening
    /\ listening' = TRUE
    /\ EnsurePump
    /\ UNCHANGED <<closed, waiting, timers, outcome, initSpec, server, drained>>

StopListening ==
    /\ listening
    /\ listening' = FALSE
    /\ UNCHANGED <<closed, loop, waiting, timers, outcome, initSpec, server, drained>>

\* Who is rejected when the session closes.
Rejected_CallsOnly == pending

Rejected == Waiters

Close ==
    /\ ~closed
    /\ closed' = TRUE
    /\ listening' = FALSE
    /\ pending' = {} /\ expects' = <<>>
    /\ timers' = timers \ Waiters
    /\ outcome' = [x \in DOMAIN outcome |-> IF x \in Rejected THEN "closed" ELSE outcome[x]]
    /\ UNCHANGED <<loop, updates, initSpec, server, drained>>

-----------------------------------------------------------------------------
(***************************************************************************)
(* The server and the wire: answers to what was sent, in any order, late,  *)
(* repeated or never (bad_server_salt is a service message); updates once. *)
(***************************************************************************)
Answers == {Result(e.call) : e \in ToSet(sent)}
Pushes == {Push(u) : u \in Updates \ pushed}
Containers == {<<a, p>> : a \in Answers, p \in Pushes} \cup {<<p, a>> : p \in Pushes, a \in Answers}

\* The carrier brings a packet: to the polling pump, or else to the inbox.
Arrive(packet) ==
    /\ frames < MaxFrames
    /\ frames' = frames + 1
    /\ IF pump = "polling"
       THEN pump' = "holding" /\ hand' = packet /\ UNCHANGED inbox
       ELSE inbox' = Append(inbox, packet) /\ UNCHANGED <<pump, hand>>
    /\ pushed' = pushed \cup {u \in Updates : Push(u) \in ToSet(packet)}
    /\ UNCHANGED <<client, sent, drained>>

Receive ==
    \E packet \in {<<m>> : m \in Answers \cup Pushes \cup {Service}} \cup Containers :
        Arrive(packet)

User ==
    \/ \E c \in Calls : Invoke(c) \/ InvokeClosed(c) \/ InvokeInvalid(c)
    \/ \E x \in Expects : ExpectQueued(x) \/ ExpectClosed(x) \/ Expect(x)
    \/ DrainUpdates \/ Listen \/ StopListening \/ Close

Next ==
    \/ User
    \/ \E x \in Calls \cup Expects : Timeout(x)
    \/ PollTimeout \/ Dispatch \/ Receive

Spec == Init /\ [][Next]_vars

\* Timers that are armed run out in the end.
FairSpec == Spec /\ \A x \in Calls \cup Expects : WF_vars(Timeout(x))

-----------------------------------------------------------------------------
(***************************************************************************)
(* No lost wake-up: while somebody waits the pump runs, and it does not    *)
(* poll past a packet that is there (ensurePump, nextPacket).              *)
(***************************************************************************)
ServedWhileWanted ==
    Demand(pending, expects, closed, listening) =>
        /\ pump # "off"
        /\ pump = "polling" => inbox = <<>>

(***************************************************************************)
(* An update that came is in one place: still in a packet, in the queue of *)
(* unclaimed ones, drained, or with one waiter; none is lost or given      *)
(* twice, whatever times out or closes while it is on its way.             *)
(***************************************************************************)
EachUpdateOnce ==
    \A u \in Updates :
        LET packets == {i \in DOMAIN inbox : Push(u) \in ToSet(inbox[i])}
            queued == {i \in DOMAIN updates : updates[i] = u}
            takers == {x \in Expects : outcome[x] = u}
            places == Cardinality(packets) + Cardinality(queued) + Cardinality(takers)
                        + Cardinality({Push(u)} \cap ToSet(hand)) + Cardinality({u} \cap drained)
        IN places = Cardinality({u} \cap pushed)

(***************************************************************************)
(* Whoever waits is answered in the end, if only by its timeout.           *)
(***************************************************************************)
EachIsSettled == \A x \in Calls \cup Expects : outcome[x] = "open" ~> outcome[x] # "open"
=============================================================================
