------------------------------ MODULE ScenarioRun ------------------------------
(***************************************************************************)
(* One run of a scenario: runScenario() of the command line (testing/src/  *)
(* cli/runner.ts) and run() of the studio's builder (studio/src/           *)
(* builder.tsx), which mirrors it.  The users are connected and            *)
(* authenticated, then the steps run one after the other; expectations     *)
(* that do not block are armed on the way and settled after the last step. *)
(*                                                                         *)
(* A client session is taken for what ClientSession shows it to be: an     *)
(* update goes to the first expectation it matches, or is kept; a call and *)
(* an expectation are settled in the end, if only by their timers.  A      *)
(* recipe, which is the user's code, makes one call and keeps its result.  *)
(* Connecting takes two awaits: the transport's connect(), which has no    *)
(* timer, and the handshake, whose every receive has one.                  *)
(***************************************************************************)
EXTENDS Integers, Sequences, FiniteSets, SequencesExt

CONSTANTS
    Users,
    Default,    \* the user of a scenario that declares none
    Names,      \* the names values are captured under
    Values,     \* the values the server sends
    Tags,       \* the constructors of what it sends
    Scenarios,
    MaxUpdates, \* bound: updates pushed
    None

(***************************************************************************)
(* A scenario: who runs it; its users, in order, each with the name its    *)
(* recipe keeps a result under, if it has one, and its steps to log in;    *)
(* and the steps.  A matcher asks for a tag and for the value of a name,   *)
(* or for neither.  A recipe step that keeps nothing is one not found; a   *)
(* step that is nothing names no method, no recipe and no update.          *)
(***************************************************************************)
Matcher == [tag : Tags \cup {None}, ref : Names \cup (Users \X Names) \cup {None}]
Step == [is : {"invoke", "expectUpdate", "recipe", "nothing"}, as : Users \cup {None}, blocks : BOOLEAN,
         match : Matcher, wantError : BOOLEAN, capture : Names \cup {None}]
ScenarioUser == [name : Users, recipe : Names \cup {None}, steps : Seq(Step)]

\* What the server sends, and what comes of a call or an expectation without.
Objects == [tag : Tags, val : Values]
RpcError == [tag |-> "rpc_error", val |-> None]
TimedOut == [tag |-> "timeout", val |-> None]

ASSUME ScenarioAssumption ==
    /\ \A s \in Scenarios :
        /\ s.studio \in BOOLEAN /\ s.users \in Seq(ScenarioUser) /\ s.steps \in Seq(Step)
        /\ \A i, j \in DOMAIN s.users : i # j => s.users[i].name # s.users[j].name
        /\ s.studio => \A i \in DOMAIN s.steps : s.steps[i].as # None
    /\ MaxUpdates \in Nat
    /\ Default \in Users
    /\ None \notin Values /\ None \notin Objects

VARIABLES
    scenario,
    pc,        \* the job in process
    phase,     \* ready, dialing, handshaking, failed, calling, expecting; then ended or aborted
    session,   \* of each user: none, held by the run, closed; or open and unheld: orphan, lost
    scope,     \* the captured values
    waiters,   \* of each user: the expectations that wait, in order
    unclaimed, \* of each user: the updates nobody took, in order
    got,       \* what each expectation got: an update, or timeout
    deferred,  \* the armed expectations not settled yet, in order
    reports,
    pushes     \* how many updates were pushed

clients == <<session, waiters, unclaimed, got>>
runVars == <<scenario, pc, phase, clients, scope, deferred, reports, pushes>>

-----------------------------------------------------------------------------
(***************************************************************************)
(* The jobs of a run, in order: for each user to connect, the recipe, the  *)
(* steps to log in; then the steps.                                        *)
(***************************************************************************)
Connect(u) == [do |-> "connect", user |-> u, index |-> 0]
Recipe(u, name) == [do |-> "login", user |-> u, index |-> 0, capture |-> name]
StepOf(user, index, step) == [do |-> step.is, user |-> user, index |-> index, step |-> step]

\* The user of a step, if it tells, or if there is one or none to choose from.
UserOf(s, step) ==
    CASE step.as # None -> step.as
      [] step.as = None /\ Len(s.users) = 1 -> s.users[1].name
      [] step.as = None /\ Len(s.users) = 0 -> Default
      [] OTHER -> None

\* A step to log in always blocks.
JobsOf(s) ==
    LET login(u) ==
            <<Connect(u.name)>>
            \o (IF u.recipe = None THEN <<>> ELSE <<Recipe(u.name, u.recipe)>>)
            \o [i \in DOMAIN u.steps |-> StepOf(u.name, 0, [u.steps[i] EXCEPT !.blocks = TRUE])]
    IN FlattenSeq([i \in DOMAIN s.users |-> login(s.users[i])])
       \o [i \in DOMAIN s.steps |-> StepOf(UserOf(s, s.steps[i]), i, s.steps[i])]

Jobs == JobsOf(scenario)
Job == Jobs[pc]
Running == pc \in DOMAIN Jobs /\ phase = "ready"
IsStep(job) == job.do \in {"invoke", "expectUpdate", "recipe", "nothing"}

RunInit ==
    /\ scenario \in Scenarios
    /\ pc = 1 /\ phase = "ready"
    /\ session = [u \in Users |-> "none"]
    /\ scope = [k \in Names \cup (Users \X Names) |-> None]
    /\ waiters = [u \in Users |-> <<>>]
    /\ unclaimed = [u \in Users |-> <<>>]
    /\ got = [j \in DOMAIN JobsOf(scenario) |-> None]
    /\ deferred = <<>> /\ reports = <<>> /\ pushes = 0

-----------------------------------------------------------------------------
\* match(): a name without a value stays as it is written, and matches nothing.
MatchesNow(m, value) ==
    /\ m.tag \in {None, value.tag}
    /\ m.ref = None \/ scope[m.ref] = value.val

Expected(j) == Jobs[j].step.match

\* record(), and on with the next job.
Report(j, ok) == reports' = Append(reports, [job |-> j, index |-> Jobs[j].index, ok |-> ok])
Next1 == pc' = pc + 1 /\ phase' = "ready"

\* applyCaptures()
Captured(name, value) == IF name = None THEN scope ELSE [scope EXCEPT ![name] = value.val]

\* userScope(), mergeCaptures(): what a recipe keeps, others find under its user too.
Merged(u, name, value) == [scope EXCEPT ![name] = value.val, ![<<u, name>>] = value.val]

\* finally: the sessions of the run are closed, and what waits is rejected.
CloseAll_LastOnly ==
    /\ session' = [session EXCEPT ![Job.user] = "closed"]
    /\ waiters' = [u \in Users |-> <<>>]
    /\ UNCHANGED <<unclaimed, got>>

CloseAll ==
    /\ session' = [u \in Users |-> IF session[u] = "held" THEN "closed" ELSE session[u]]
    /\ waiters' = [u \in Users |-> <<>>]
    /\ UNCHANGED <<unclaimed, got>>

-----------------------------------------------------------------------------
(***************************************************************************)
(* getSession(), openUser(): the command line connects a user when it is   *)
(* first needed, the builder only those that are declared.  A transport    *)
(* that does not open leaves nothing; when the handshake is rejected,      *)
(* nobody holds the open transport, and nobody closes it.                  *)
(***************************************************************************)
NeedsSession ==
    Running /\ Job.user # None /\ session[Job.user] = "none" /\ (Job.do = "connect" \/ ~scenario.studio)

BeginConnect ==
    /\ NeedsSession
    /\ phase' = "dialing"
    /\ UNCHANGED <<scenario, pc, clients, scope, deferred, reports, pushes>>

\* connect() of the transport: it opens, fails, or never answers.
Dial ==
    /\ phase = "dialing"
    /\ phase' \in {"handshaking", "failed"}
    /\ UNCHANGED <<scenario, pc, clients, scope, deferred, reports, pushes>>

HandshakeFails ==
    /\ phase = "handshaking"
    /\ phase' = "failed"
    /\ session' = [session EXCEPT ![Job.user] = "orphan"]
    /\ UNCHANGED <<scenario, pc, waiters, unclaimed, got, scope, deferred, reports, pushes>>

Connected ==
    /\ phase = "handshaking"
    /\ session' = [session EXCEPT ![Job.user] = "held"]
    /\ phase' = "ready"
    /\ pc' = IF Job.do = "connect" THEN pc + 1 ELSE pc
    /\ UNCHANGED <<scenario, waiters, unclaimed, got, scope, deferred, reports, pushes>>

\* The whole run is rejected.
ConnectAborts ==
    /\ phase = "failed" /\ ~scenario.studio
    /\ phase' = "aborted"
    /\ CloseAll
    /\ UNCHANGED <<scenario, pc, scope, deferred, reports, pushes>>

\* The builder goes on with the next user, or the first step.
NextUser ==
    CHOOSE k \in (pc + 1)..(Len(Jobs) + 1) :
        /\ \A i \in (pc + 1)..(k - 1) : Jobs[i].user = Job.user /\ Jobs[i].index = 0
        /\ k \in DOMAIN Jobs => Jobs[k].user # Job.user \/ Jobs[k].index # 0

ConnectSkips ==
    /\ phase = "failed" /\ scenario.studio
    /\ pc' = NextUser /\ phase' = "ready"
    /\ UNCHANGED <<scenario, clients, scope, deferred, reports, pushes>>

-----------------------------------------------------------------------------
\* A step that does not tell its user, or whose user is not connected.
NoSession ==
    /\ Running /\ IsStep(Job)
    /\ Job.user = None \/ (scenario.studio /\ session[Job.user] # "held")
    /\ Report(pc, FALSE)
    /\ Next1
    /\ UNCHANGED <<scenario, clients, scope, deferred, pushes>>

Ready == Running /\ Job.user # None /\ session[Job.user] = "held"

(***************************************************************************)
(* expectUpdate: an update that is there already, or else it waits.        *)
(***************************************************************************)
FirstClaimable(j) ==
    SelectInSeq(unclaimed[Jobs[j].user], LAMBDA value : MatchesNow(Expected(j), value))

Claimed_Kept(u, i) == UNCHANGED unclaimed

Claimed(u, i) == unclaimed' = [unclaimed EXCEPT ![u] = RemoveAt(@, i)]

ExpectUpdate ==
    /\ Ready /\ Job.do = "expectUpdate"
    /\ LET i == FirstClaimable(pc)
           u == Job.user
       IN IF i # 0
          THEN /\ got' = [got EXCEPT ![pc] = unclaimed[u][i]]
               /\ Claimed(u, i)
               /\ UNCHANGED waiters
          ELSE /\ waiters' = [waiters EXCEPT ![u] = Append(@, pc)]
               /\ UNCHANGED <<got, unclaimed>>
    /\ IF Job.step.blocks
       THEN phase' = "expecting" /\ UNCHANGED <<pc, deferred>>
       ELSE Next1 /\ deferred' = Append(deferred, pc)
    /\ UNCHANGED <<scenario, session, scope, reports, pushes>>

\* An expectation that got its update, or timed out, is reported.
Settle_NotReported(j) ==
    /\ got[j] # None
    /\ scope' = IF got[j] = TimedOut THEN scope ELSE Captured(Jobs[j].step.capture, got[j])
    /\ IF got[j] = TimedOut THEN UNCHANGED reports ELSE Report(j, TRUE)

Settle(j) ==
    /\ got[j] # None
    /\ scope' = IF got[j] = TimedOut THEN scope ELSE Captured(Jobs[j].step.capture, got[j])
    /\ Report(j, got[j] # TimedOut)

Expected1 ==
    /\ phase = "expecting"
    /\ Settle(pc)
    /\ Next1
    /\ UNCHANGED <<scenario, clients, deferred, pushes>>

\* After the last step, in the order they were armed.
SettleDeferred ==
    /\ pc = Len(Jobs) + 1 /\ phase = "ready" /\ deferred # <<>>
    /\ Settle(Head(deferred))
    /\ deferred' = Tail(deferred)
    /\ UNCHANGED <<scenario, pc, phase, clients, pushes>>

-----------------------------------------------------------------------------
(***************************************************************************)
(* invoke, and a recipe, which calls too.  The answer is a value or an     *)
(* rpc_error; a call that is not answered fails.                           *)
(***************************************************************************)
Call ==
    /\ Ready
    /\ Job.do \in {"invoke", "login"} \/ (Job.do = "recipe" /\ Job.step.capture # None)
    /\ phase' = "calling"
    /\ UNCHANGED <<scenario, pc, clients, scope, deferred, reports, pushes>>

RecipeNotFound ==
    /\ Ready /\ Job.do = "recipe" /\ Job.step.capture = None
    /\ Report(pc, FALSE)
    /\ Next1
    /\ UNCHANGED <<scenario, clients, scope, deferred, pushes>>

\* The command line finds nothing wrong with it, the builder passes it over.
NothingToDo ==
    /\ Ready /\ Job.do = "nothing"
    /\ IF scenario.studio THEN UNCHANGED reports ELSE Report(pc, TRUE)
    /\ Next1
    /\ UNCHANGED <<scenario, clients, scope, deferred, pushes>>

\* assertRpcError(), assertMatch()
Passes(step, answer) ==
    CASE answer = RpcError -> step.wantError
      [] answer = TimedOut -> FALSE
      [] OTHER -> ~step.wantError /\ MatchesNow(step.match, answer)

Answered(answer) ==
    /\ phase = "calling" /\ Job.do = "invoke"
    /\ Report(pc, Passes(Job.step, answer))
    /\ scope' = IF Passes(Job.step, answer) /\ ~Job.step.wantError
                THEN Captured(Job.step.capture, answer) ELSE scope
    /\ Next1
    /\ UNCHANGED <<scenario, clients, deferred, pushes>>

RecipeName == IF Job.do = "login" THEN Job.capture ELSE Job.step.capture

RecipeDone(answer) ==
    /\ phase = "calling" /\ Job.do \in {"login", "recipe"}
    /\ answer \in Objects
    /\ scope' = Merged(Job.user, RecipeName, answer)
    /\ Report(pc, TRUE)
    /\ Next1
    /\ UNCHANGED <<scenario, clients, deferred, pushes>>

RecipeThrows ==
    /\ phase = "calling"
    /\ Job.do = "recipe" \/ (Job.do = "login" /\ ~scenario.studio)
    /\ Report(pc, FALSE)
    /\ Next1
    /\ UNCHANGED <<scenario, clients, scope, deferred, pushes>>

\* The builder keeps a session only once its recipe is done.
LoginLost ==
    /\ phase = "calling" /\ Job.do = "login" /\ scenario.studio
    /\ session' = [session EXCEPT ![Job.user] = "lost"]
    /\ pc' = NextUser /\ phase' = "ready"
    /\ UNCHANGED <<scenario, waiters, unclaimed, got, scope, deferred, reports, pushes>>

-----------------------------------------------------------------------------
FirstMatching(u, value) == SelectInSeq(waiters[u], LAMBDA j : MatchesNow(Expected(j), value))

\* An update comes: to the first expectation it matches now, or it is kept.
Update(u, value) ==
    /\ session[u] = "held" /\ pushes < MaxUpdates
    /\ pushes' = pushes + 1
    /\ LET i == FirstMatching(u, value)
       IN IF i # 0
          THEN /\ got' = [got EXCEPT ![waiters[u][i]] = value]
               /\ waiters' = [waiters EXCEPT ![u] = RemoveAt(@, i)]
               /\ UNCHANGED unclaimed
          ELSE /\ unclaimed' = [unclaimed EXCEPT ![u] = Append(@, value)]
               /\ UNCHANGED <<got, waiters>>
    /\ UNCHANGED <<scenario, pc, phase, session, scope, deferred, reports>>

\* The expectations with a timer.
Timed_BlockingOnly(u) == {j \in ToSet(waiters[u]) : Jobs[j].step.blocks}

Timed(u) == ToSet(waiters[u])

ExpectationTimesOut(u) ==
    /\ \E j \in Timed(u) :
        /\ got' = [got EXCEPT ![j] = TimedOut]
        /\ waiters' = [waiters EXCEPT ![u] = RemoveFirst(@, j)]
    /\ UNCHANGED <<scenario, pc, phase, session, unclaimed, scope, deferred, reports, pushes>>

Finish ==
    /\ pc = Len(Jobs) + 1 /\ phase = "ready" /\ deferred = <<>>
    /\ phase' = "ended"
    /\ CloseAll
    /\ UNCHANGED <<scenario, pc, scope, deferred, reports, pushes>>

Run ==
    \/ BeginConnect \/ HandshakeFails \/ Connected \/ ConnectAborts \/ ConnectSkips
    \/ NoSession \/ NothingToDo \/ ExpectUpdate \/ Expected1 \/ SettleDeferred \/ Call \/ RecipeNotFound
    \/ \E answer \in Objects \cup {RpcError, TimedOut} : Answered(answer) \/ RecipeDone(answer)
    \/ RecipeThrows \/ LoginLost \/ Finish

RunNext ==
    \/ Run \/ Dial
    \/ \E u \in Users : ExpectationTimesOut(u) \/ (\E value \in Objects : Update(u, value))

RunSpec == RunInit /\ [][RunNext]_runVars

(***************************************************************************)
(* The run goes on when it can: handshakes, calls and expectations have    *)
(* their timers.  Nothing is assumed of the transport's connect().         *)
(***************************************************************************)
FairRunSpec == RunSpec /\ WF_runVars(Run) /\ \A u \in Users : WF_runVars(ExpectationTimesOut(u))

-----------------------------------------------------------------------------
Over == phase \in {"ended", "aborted"}
Deferrable(job) == job.do = "expectUpdate" /\ ~job.step.blocks
MayPass(job) == scenario.studio /\ job.do = "nothing"

(***************************************************************************)
(* The report tells of every step once: those the run waited for in their  *)
(* order, then the armed expectations in theirs, whatever failed, timed    *)
(* out or was not connected (runner.ts:41-44 "collecting a pass/fail       *)
(* StepReport per step").  Only of a step that names nothing to do the     *)
(* builder may say nothing.                                                *)
(***************************************************************************)
EveryStepReported ==
    phase = "ended" =>
        LET told == [i \in DOMAIN reports |-> reports[i].job]
            late(i) == Deferrable(Jobs[told[i]]) /\ got[told[i]] # None
        IN /\ {j \in DOMAIN Jobs : IsStep(Jobs[j]) /\ Jobs[j].index > 0 /\ ~MayPass(Jobs[j])}
               \subseteq ToSet(told)
           /\ \A i, k \in DOMAIN told : i < k =>
                /\ told[i] # told[k]
                /\ late(i) => late(k)
                /\ late(i) = late(k) => told[i] < told[k]

(***************************************************************************)
(* No update makes two expectations pass, and none gets lost: those that   *)
(* came are what expectations got and what nobody took.                    *)
(***************************************************************************)
CreditedOnce ==
    LET kept == UNION {{u} \X DOMAIN unclaimed[u] : u \in Users}
    IN pushes = Cardinality(kept) + Cardinality({j \in DOMAIN got : got[j] \in Objects})

(***************************************************************************)
(* However a run ends, it leaves no session it held open and no timer      *)
(* armed (the finally blocks).  What may stay open: the transport of a     *)
(* failed handshake, on the command line only when it failed the run; and  *)
(* a session of the builder whose recipe failed, which run() never put     *)
(* among its sessions.                                                     *)
(***************************************************************************)
NothingLeft ==
    Over =>
        /\ \A u \in Users : session[u] # "held" /\ waiters[u] = <<>>
        /\ ~scenario.studio =>
            /\ \A u \in Users : session[u] # "lost"
            /\ (\E u \in Users : session[u] = "orphan") => phase = "aborted"

(***************************************************************************)
(* A run ends, also if the server answers nothing and pushes nothing;      *)
(* unless it waits for good for a transport to open.                       *)
(***************************************************************************)
RunEnds == <>Over \/ <>[](phase = "dialing")
=============================================================================
