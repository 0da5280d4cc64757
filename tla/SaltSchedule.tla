---------------------------- MODULE SaltSchedule ----------------------------
(***************************************************************************)
(* The server-salt schedule of one auth key: SaltService                   *)
(* (packages/server/src/session/salts.ts) called concurrently by gateway   *)
(* nodes that share the salt repository (storage/mongo.ts).  Every await   *)
(* of the service is a point where other calls run.  A call works with a   *)
(* time it read before its awaits, or in between (seed), and is bound to   *)
(* end `latency` seconds after it began.                                   *)
(*                                                                         *)
(* An entry of the schedule is a window start and a salt; the window       *)
(* length is a constant.  Salts are random 64-bit numbers, so a salt just  *)
(* minted differs from all others: it is named by its window and a number  *)
(* no other salt of that window in use has.                                *)
(***************************************************************************)
EXTENDS Integers, FiniteSets

CONSTANTS
    Nodes,         \* concurrent callers of the service, each with a clock
    Window, Step,  \* windowSec and stepSec
    Prefetch,      \* windows resolve() mints ahead
    Settings,      \* deployments, as below; a run is in one of them
    NoSalt         \* a value that is no salt of this key

ASSUME SaltAssumption ==
    /\ Window \in Nat /\ Step \in Nat \ {0} /\ Step <= Window
    /\ Prefetch \in Nat
    /\ \A s \in Settings :
        /\ s.seeded \in BOOLEAN               \* the handshake has seeded the key
        /\ s.skew \in Nat                     \* how far the clocks of two nodes differ
        /\ s.latency \in Nat                  \* bound: the seconds one call takes
        /\ s.nums \subseteq Nat \ {0}         \* values of num in get_future_salts
        /\ s.start \in Nat                    \* when the key is first used
        /\ s.maxClock \in Nat                 \* bound of the run

VARIABLES
    setting,     \* the deployment
    clock,       \* true time, in seconds
    skew,        \* what each node's clock adds to it
    repo,        \* the stored entries [since, salt]
    call,        \* what each node's current (or last) call knows
    advertised   \* history: [salt, at], what clients were told to use, and the
                 \* true time the call that told them began

vars == <<setting, clock, skew, repo, call, advertised>>

-----------------------------------------------------------------------------
Until(e) == e.since + Window
Covers(e, t) == e.since <= t /\ t < Until(e)
Anchor(list) == CHOOSE e \in list : \A other \in list : e.since <= other.since
Last(list) == CHOOSE e \in list : \A other \in list : e.since >= other.since

\* grid(): the index of the window covering t, counted from the oldest entry.
CurrentIndex(list, t) ==
    LET t0 == Anchor(list).since
    IN IF t < t0 THEN 0 ELSE (t - t0) \div Step

GridStart(list, k) == Anchor(list).since + k * Step

\* pickCurrent(): the newest window covering t, else the last entry.
Current_Oldest(list, t) ==
    LET covering == {e \in list : Covers(e, t)}
    IN IF covering = {} THEN Last(list) ELSE Anchor(covering)

Current(list, t) ==
    LET covering == {e \in list : Covers(e, t)}
    IN IF covering = {} THEN Last(list) ELSE Last(covering)

-----------------------------------------------------------------------------
(***************************************************************************)
(* A call: its kind (resolve, future, seed), the await it is at, the time  *)
(* it works with, the true time it began, the windows it wants beyond the  *)
(* current one, the list it last read, the entries it has yet to append,   *)
(* the client's salt, and, as history, whether that salt is due acceptance *)
(* and whether the clock had reached the schedule the call minted for.     *)
(***************************************************************************)
Idle == [kind |-> "resolve", at |-> "idle", now |-> 0, began |-> 0, ahead |-> 0,
         list |-> {}, todo |-> {}, salt |-> NoSalt, due |-> FALSE, reached |-> FALSE]

Waiting(n) == call[n].at # "idle"
Now(n) == clock + skew[n]

Init ==
    /\ setting \in Settings
    /\ clock = setting.start
    /\ skew \in [Nodes -> 0..setting.skew]
    /\ repo \in IF setting.seeded
                THEN {{[since |-> s, salt |-> <<s, 0>>]} : s \in 0..setting.skew}
                ELSE {{}}
    /\ call = [n \in Nodes |-> Idle]
    /\ advertised = {}

(***************************************************************************)
(* A salt is due acceptance from the time every clock has come to where    *)
(* the advertiser's stood, until Window - Step after the first clock did:  *)
(* the newest window covering a time started less than Step before it.     *)
(***************************************************************************)
Expired(a, t) == a.at + (Window - Step) < t + setting.skew
Due(salt, t) ==
    \E a \in advertised : a.salt = salt /\ a.at + setting.skew <= t /\ ~Expired(a, t)

Begin(n, kind, ahead, salt) ==
    /\ ~Waiting(n)
    /\ call' = [call EXCEPT ![n] =
                   [Idle EXCEPT !.kind = kind, !.at = "list", !.now = Now(n),
                                !.began = clock, !.ahead = ahead,
                                !.salt = salt, !.due = Due(salt, clock)]]
    /\ UNCHANGED <<setting, clock, skew, repo, advertised>>

\* An encrypted message arrives with some salt.
BeginResolve(n) ==
    \E salt \in {a.salt : a \in advertised} \cup {NoSalt} :
        Begin(n, "resolve", Prefetch, salt)

BeginFuture(n) == \E num \in setting.nums : Begin(n, "future", num - 1, NoSalt)

\* set_client_DH_params (again, when a client repeats it).
BeginSeed(n) == Begin(n, "seed", 0, NoSalt)

\* A random salt for the window starting at s.
InUse == {e.salt : e \in repo} \cup {a.salt : a \in advertised}
         \cup UNION {{e.salt : e \in call[n].list \cup call[n].todo} \cup {call[n].salt} : n \in Nodes}
RandomSalt(s) ==
    LET taken == {i \in 0..Cardinality(InUse) : <<s, i>> \in InUse}
    IN <<s, CHOOSE i \in 0..Cardinality(InUse) \ taken :
                \A j \in 0..(i - 1) : j \in taken>>
NewEntry(s) == [since |-> s, salt |-> RandomSalt(s)]

\* The windows ensure() wants: from the current one to `ahead` after it.
Wanted_OneShort(list, t, ahead) ==
    LET k == CurrentIndex(list, t) IN {GridStart(list, i) : i \in k..(k + ahead - 1)}

Wanted(list, t, ahead) ==
    LET k == CurrentIndex(list, t) IN {GridStart(list, i) : i \in k..(k + ahead)}

Missing(list, t, ahead) ==
    {NewEntry(s) : s \in Wanted(list, t, ahead) \ {e.since : e \in list}}

\* ensure() with a schedule in hand: mint what is missing, else go on to prune.
Mint(n, list) ==
    LET missing == Missing(list, call[n].now, call[n].ahead)
    IN call' = [call EXCEPT ![n].list = list, ![n].todo = missing,
                            ![n].reached = Anchor(list).since <= call[n].now,
                            ![n].at = IF missing = {} THEN "prune" ELSE "mint"]

\* list() with entries: seed() returns, ensure() goes on.
ListFound(n) ==
    /\ call[n].at = "list"
    /\ repo # {}
    /\ IF call[n].kind = "seed"
       THEN call' = [call EXCEPT ![n] = Idle]
       ELSE Mint(n, repo)
    /\ UNCHANGED <<setting, clock, skew, repo, advertised>>

\* list() without: a first window, the handshake's or a random one.  seed()
\* reads the clock only now.
ListEmpty(n) ==
    /\ call[n].at = "list"
    /\ repo = {}
    /\ LET now == IF call[n].kind = "seed" THEN Now(n) ELSE call[n].now
       IN call' = [call EXCEPT ![n].now = now, ![n].todo = {NewEntry(now)}, ![n].at = "anchor"]
    /\ UNCHANGED <<setting, clock, skew, repo, advertised>>

(***************************************************************************)
(* append(): an unordered bulk of upserts keyed by the window start, each  *)
(* of which inserts only if the window is absent ($setOnInsert).           *)
(***************************************************************************)
Upsert(entries, e) ==
    IF \E x \in entries : x.since = e.since THEN entries ELSE entries \cup {e}

AfterAppend(c, e) ==
    IF c.todo # {e} THEN [c EXCEPT !.todo = @ \ {e}]
    ELSE IF c.kind = "seed" THEN Idle
    ELSE [c EXCEPT !.todo = {}, !.at = IF @ = "mint" THEN "relist" ELSE "relistAnchor"]

AppendOne(n) ==
    /\ call[n].at \in {"anchor", "mint"}
    /\ \E e \in call[n].todo :
        /\ repo' = Upsert(repo, e)
        /\ call' = [call EXCEPT ![n] = AfterAppend(@, e)]
    /\ UNCHANGED <<setting, clock, skew, advertised>>

RelistAnchor(n) ==
    /\ call[n].at = "relistAnchor"
    /\ repo # {}
    /\ Mint(n, repo)
    /\ UNCHANGED <<setting, clock, skew, repo, advertised>>

Relist(n) ==
    /\ call[n].at = "relist"
    /\ call' = [call EXCEPT ![n].list = repo, ![n].at = "prune"]
    /\ UNCHANGED <<setting, clock, skew, repo, advertised>>

\* prune(now - window): drop what expired a window ago; a failure is ignored.
Pruned_NotYetExpired(t) == {e \in repo : e.since <= t - Step}
Pruned(t) == {e \in repo : Until(e) <= t - Window}

(***************************************************************************)
(* What the call returns: resolve() the entry to advertise, future() the   *)
(* scheduled windows from the current one on.                              *)
(***************************************************************************)
Upcoming(list, t, ahead) == {e \in list : e.since \in Wanted(list, t, ahead)}

Result(c) == IF c.kind = "future" THEN Upcoming(c.list, c.now, c.ahead)
                                  ELSE {Current(c.list, c.now)}

\* resolve()'s verdict on the client's salt.
Valid(c) == \E e \in c.list : Covers(e, c.now) /\ e.salt = c.salt

\* What a client may rely on: not the salt of a schedule that has yet to start
\* on the clock of the node (grid() counts from its first window all the same).
Ads(c) == IF c.kind = "resolve" /\ c.reached
          THEN {[salt |-> e.salt, at |-> c.began] : e \in Result(c)} ELSE {}

PruneAndReturn(n) ==
    /\ call[n].at = "prune"
    /\ repo' \in {repo, repo \ Pruned(call[n].now)}
    /\ call' = [call EXCEPT ![n] = Idle]
    /\ advertised' = advertised \cup {a \in Ads(call[n]) : ~Expired(a, clock)}
    /\ UNCHANGED <<setting, clock, skew>>

\* A repository operation rejects: the call ends, the message is dropped.
StorageFails(n) ==
    /\ Waiting(n)
    /\ call' = [call EXCEPT ![n] = Idle]
    /\ UNCHANGED <<setting, clock, skew, repo, advertised>>

\* Time passes; what was advertised too long ago to be due is forgotten.
Tick ==
    /\ clock < setting.maxClock
    /\ \A n \in Nodes : Waiting(n) => clock < call[n].began + setting.latency
    /\ clock' = clock + 1
    /\ advertised' = {a \in advertised : ~Expired(a, clock + 1)}
    /\ UNCHANGED <<setting, skew, repo, call>>

Next ==
    \/ \E n \in Nodes :
        \/ BeginResolve(n) \/ BeginFuture(n) \/ BeginSeed(n)
        \/ ListFound(n) \/ ListEmpty(n)
        \/ AppendOne(n) \/ RelistAnchor(n) \/ Relist(n)
        \/ PruneAndReturn(n) \/ StorageFails(n)
    \/ Tick

Spec == Init /\ [][Next]_vars

-----------------------------------------------------------------------------
(***************************************************************************)
(* The shape of the state; a window has one entry.                         *)
(***************************************************************************)
IsEntry(e) == DOMAIN e = {"since", "salt"} /\ e.since \in Nat

IsCall(c) ==
    /\ DOMAIN c = DOMAIN Idle
    /\ c.kind \in {"resolve", "future", "seed"}
    /\ c.at \in {"idle", "list", "anchor", "relistAnchor", "mint", "relist", "prune"}
    /\ c.now \in Nat /\ c.began \in Nat /\ c.ahead \in Nat
    /\ \A e \in c.list \cup c.todo : IsEntry(e)

TypeOK ==
    /\ setting \in Settings
    /\ clock \in Nat
    /\ skew \in [Nodes -> 0..setting.skew]
    /\ \A e \in repo : IsEntry(e)
    /\ \A e, f \in repo : e.since = f.since => e = f
    /\ call = [n \in Nodes |-> call[n]]
    /\ \A n \in Nodes : IsCall(call[n])

\* The call has the list it returns its result from.
Returns(n, kind) == call[n].at = "prune" /\ call[n].kind = kind

(***************************************************************************)
(* Any node validates any salt (salts.ts:18): a client that uses a salt    *)
(* some node advertised is not told on any node that the salt is bad, from *)
(* the time the node's clock has come to where the advertiser's stood and  *)
(* for windowSec - stepSec, less what clocks differ by, although nodes     *)
(* mint and prune the same windows concurrently.                           *)
(***************************************************************************)
AdvertisedSaltAccepted ==
    \A n \in Nodes : Returns(n, "resolve") /\ call[n].due => Valid(call[n])

(***************************************************************************)
(* The stored salt of a window that has not expired is neither replaced    *)
(* nor pruned, whichever nodes race to mint or prune it.                   *)
(***************************************************************************)
LiveEntriesKept == [][\A e \in repo : clock < Until(e) => e \in repo']_vars

(***************************************************************************)
(* The answer to get_future_salts(num) is num consecutive windows, the     *)
(* first of them covering now, even if another node prunes meanwhile.      *)
(***************************************************************************)
AnswerComplete(c) ==
    LET starts == {e.since : e \in Result(c)}
    IN \E first \in starts :
           /\ first <= c.now /\ c.now < first + Step
           /\ starts = {first + i * Step : i \in 0..c.ahead}

\* The schedule has one first window: the key's handshake has seeded it, or
\* all calls that find none work with the same second.
OneAnchor == setting.seeded \/ (setting.skew = 0 /\ setting.latency = 0)

(***************************************************************************)
(* Where the schedule has one first window, get_future_salts(num) is       *)
(* answered in full by every node whose clock has reached it.              *)
(***************************************************************************)
FutureComplete ==
    \A n \in Nodes :
        OneAnchor /\ Returns(n, "future") /\ call[n].reached => AnswerComplete(call[n])
=============================================================================
