--------------------------- MODULE SaltScheduleProofs ---------------------------
(***************************************************************************)
(* Theorems about SaltSchedule, for any nodes, window lengths and          *)
(* deployments: the schedule keeps one entry per window, and no entry that *)
(* is still live is replaced or pruned while the clocks of two nodes       *)
(* differ by no more than a window.  While what clocks differ by and what  *)
(* a call takes add up to no more than a window, a salt a node advertised  *)
(* is accepted by all nodes, and the future salts a client is sent are     *)
(* consecutive.                                                            *)
(***************************************************************************)
EXTENDS SaltSchedule, WellFoundedInduction, TLAPS

(***************************************************************************)
(* What pruning rests on: a call works with a time its node's clock has    *)
(* reached, so it is ahead of true time by the skew at most, and behind it *)
(* by what the call has taken so far.                                      *)
(***************************************************************************)
InTime(n, c) ==
    /\ c.began <= clock /\ clock <= c.began + setting.latency
    /\ c.began <= c.now /\ c.now <= Now(n)
    /\ c.kind # "seed" => c.now = c.began + skew[n]

CallsInTime == \A n \in Nodes : Waiting(n) => InTime(n, call[n])

SaltInv == TypeOK /\ CallsInTime

-----------------------------------------------------------------------------
(***************************************************************************)
(* The grid: windows start at natural numbers.                             *)
(***************************************************************************)
LEMMA NatMin ==
    ASSUME NEW T, T \subseteq Nat, T # {}
    PROVE  \E x \in T : \A y \in T : x <= y
<1> DEFINE R == OpToRel(<, Nat)
<1>1. IsWellFoundedOn(R, Nat)
    BY NatLessThanWellFounded
<1>2. \A x, y \in Nat : <<y, x>> \in R <=> y < x
    BY DEF OpToRel
<1> HIDE DEF R
<1>3. PICK x \in T : \A y \in T : <<y, x>> \notin R
    BY <1>1, WFMin, Zenon
<1>4. ASSUME NEW y \in T PROVE x <= y
    <2>1. x \in Nat /\ y \in Nat
        OBVIOUS
    <2>2. ~(y < x)
        BY <2>1, <1>2, <1>3, Zenon
    <2> QED
        BY <2>1, <2>2
<1> QED
    BY <1>4

LEMMA AnchorIsEntry ==
    ASSUME NEW list, list # {}, \A e \in list : IsEntry(e)
    PROVE  Anchor(list) \in list /\ Anchor(list).since \in Nat
<1> DEFINE T == {e.since : e \in list}
<1>1. T \subseteq Nat /\ T # {}
    BY DEF IsEntry
<1>2. PICK x \in T : \A y \in T : x <= y
    BY <1>1, NatMin
<1>3. \E e \in list : \A other \in list : e.since <= other.since
    BY <1>2
<1> QED
    BY <1>3 DEF Anchor, IsEntry

LEMMA GridIsNat ==
    ASSUME NEW t0 \in Nat, NEW k \in Nat
    PROVE  t0 + k * Step \in Nat
BY SaltAssumption

LEMMA IndexIsNat ==
    ASSUME NEW t0 \in Nat, NEW t \in Nat, t >= t0
    PROVE  (t - t0) \div Step \in Nat
BY SaltAssumption

LEMMA WantedIsNat ==
    ASSUME NEW list, list # {}, \A e \in list : IsEntry(e),
           NEW t \in Nat, NEW ahead \in Nat, NEW s \in Wanted(list, t, ahead)
    PROVE  s \in Nat
<1> DEFINE t0 == Anchor(list).since
           k == CurrentIndex(list, t)
<1>1. t0 \in Nat
    BY AnchorIsEntry
<1>2. k \in Nat
    <2>1. CASE t < t0
        BY <2>1 DEF CurrentIndex
    <2>2. CASE ~(t < t0)
        BY <2>2, <1>1, IndexIsNat DEF CurrentIndex
    <2> QED
        BY <2>1, <2>2
<1>3. PICK i \in k..(k + ahead) : s = t0 + i * Step
    BY DEF Wanted, GridStart
<1>4. i \in Nat
    BY <1>2, <1>3
<1> QED
    BY <1>1, <1>3, <1>4, GridIsNat

LEMMA NewEntryIsEntry ==
    ASSUME NEW s \in Nat
    PROVE  IsEntry(NewEntry(s)) /\ NewEntry(s).since = s
BY DEF NewEntry, IsEntry

LEMMA MissingAreEntries ==
    ASSUME NEW list, list # {}, \A e \in list : IsEntry(e),
           NEW t \in Nat, NEW ahead \in Nat, NEW e \in Missing(list, t, ahead)
    PROVE  IsEntry(e)
<1>1. PICK s \in Wanted(list, t, ahead) : e = NewEntry(s)
    BY DEF Missing
<1> QED
    BY <1>1, WantedIsNat, NewEntryIsEntry

LEMMA UpsertKeeps ==
    ASSUME NEW entries, NEW e
    PROVE  entries \subseteq Upsert(entries, e)
BY DEF Upsert

-----------------------------------------------------------------------------
(***************************************************************************)
(* Every step of a call replaces the call of one node; what becomes of it  *)
(* is a call again.                                                        *)
(***************************************************************************)
LEMMA IdleIsCall == IsCall(Idle)
BY DEF IsCall, Idle

LEMMA OneCall ==
    ASSUME SaltInv, NEW n \in Nodes, NEW c, IsCall(c),
           call' = [call EXCEPT ![n] = c],
           c.at # "idle" => InTime(n, c),
           UNCHANGED <<setting, clock, skew>>
    PROVE  /\ call' = [i \in Nodes |-> call'[i]]
           /\ \A i \in Nodes : IsCall(call'[i])
           /\ CallsInTime'
<1>1. call = [i \in Nodes |-> call[i]] /\ \A i \in Nodes : IsCall(call[i])
    BY DEF SaltInv, TypeOK
<1>2. call'[n] = c /\ \A i \in Nodes \ {n} : call'[i] = call[i]
    BY <1>1
<1>3. call' = [i \in Nodes |-> call'[i]]
    BY <1>1
<1>4. ASSUME NEW i \in Nodes PROVE IsCall(call'[i])
    BY <1>1, <1>2 DEF IsCall
<1>5. ASSUME NEW i \in Nodes, Waiting(i)' PROVE InTime(i, call[i])'
    <2>1. InTime(i, call'[i])
        BY <1>2, <1>5 DEF Waiting, SaltInv, CallsInTime
    <2> QED
        BY <2>1 DEF InTime, Now
<1> QED
    BY <1>3, <1>4, <1>5 DEF CallsInTime

(***************************************************************************)
(* The type invariant and the times of the calls, action by action.        *)
(***************************************************************************)
LEMMA InitSalt == Init => SaltInv
<1> SUFFICES ASSUME Init PROVE SaltInv
    OBVIOUS
<1>1. setting.skew \in Nat /\ setting.start \in Nat
    BY SaltAssumption DEF Init
<1>2. /\ \A e \in repo : IsEntry(e)
      /\ \A e, f \in repo : e.since = f.since => e = f
    BY <1>1 DEF Init, IsEntry
<1>3. call = [n \in Nodes |-> call[n]] /\ \A n \in Nodes : IsCall(call[n]) /\ ~Waiting(n)
    BY IdleIsCall DEF Init, Waiting, Idle
<1> QED
    BY <1>1, <1>2, <1>3 DEF Init, SaltInv, TypeOK, CallsInTime

LEMMA BeginSalt ==
    ASSUME SaltInv, NEW n \in Nodes, NEW kind \in {"resolve", "future", "seed"},
           NEW ahead \in Nat, NEW salt, Begin(n, kind, ahead, salt)
    PROVE  SaltInv'
<1> DEFINE c == [Idle EXCEPT !.kind = kind, !.at = "list", !.now = Now(n),
                             !.began = clock, !.ahead = ahead,
                             !.salt = salt, !.due = Due(salt, clock)]
<1>1. Now(n) \in Nat /\ clock \in Nat
    BY SaltAssumption DEF SaltInv, TypeOK, Now
<1>2. IsCall(c) /\ c.now = Now(n) /\ c.began = clock
    BY <1>1 DEF IsCall, Idle
<1>3. call' = [call EXCEPT ![n] = c]
    BY DEF Begin
<1> HIDE DEF c
<1>4. InTime(n, c)
    <2>1. skew[n] \in Nat /\ setting.latency \in Nat
        BY SaltAssumption DEF SaltInv, TypeOK
    <2> QED
        BY <1>1, <1>2, <2>1 DEF InTime, Now
<1> QED
    BY <1>2, <1>3, <1>4, OneCall DEF Begin, SaltInv, TypeOK

\* A call that goes on or ends, with the schedule as it is.
LEMMA CallGoesOn ==
    ASSUME SaltInv, NEW n \in Nodes, Waiting(n), NEW c, IsCall(c),
           \/ c = Idle
           \/ c.now = call[n].now /\ c.began = call[n].began /\ c.kind = call[n].kind,
           call' = [call EXCEPT ![n] = c],
           UNCHANGED <<setting, clock, skew, repo>>
    PROVE  SaltInv'
<1>1. c.at # "idle" => InTime(n, c)
    BY DEF SaltInv, CallsInTime, InTime, Idle
<1> QED
    BY <1>1, OneCall DEF SaltInv, TypeOK

LEMMA MintSalt ==
    ASSUME SaltInv, NEW n \in Nodes, Waiting(n), repo # {}, Mint(n, repo),
           UNCHANGED <<setting, clock, skew, repo>>
    PROVE  SaltInv'
<1> DEFINE missing == Missing(repo, call[n].now, call[n].ahead)
           c == [call[n] EXCEPT !.list = repo, !.todo = missing,
                                !.reached = Anchor(repo).since <= call[n].now,
                                !.at = IF missing = {} THEN "prune" ELSE "mint"]
<1>1. IsCall(call[n]) /\ \A e \in repo : IsEntry(e)
    BY DEF SaltInv, TypeOK
<1>2. \A e \in missing : IsEntry(e)
    BY <1>1, MissingAreEntries DEF IsCall
<1>3. call' = [call EXCEPT ![n] = c]
    BY DEF Mint
<1> HIDE DEF missing
<1>4. IsCall(c) /\ c.now = call[n].now /\ c.began = call[n].began /\ c.kind = call[n].kind
    BY <1>1, <1>2 DEF IsCall, Idle
<1> HIDE DEF c
<1> QED
    BY <1>3, <1>4, CallGoesOn

\* seed() works with the clock as it is now, the others with that they began with.
LEMMA ListEmptySalt ==
    ASSUME SaltInv, NEW n \in Nodes, ListEmpty(n)
    PROVE  SaltInv'
<1> DEFINE now == IF call[n].kind = "seed" THEN Now(n) ELSE call[n].now
           c == [call[n] EXCEPT !.now = now, !.todo = {NewEntry(now)}, !.at = "anchor"]
<1>1. IsCall(call[n]) /\ Waiting(n) /\ InTime(n, call[n])
    BY DEF SaltInv, TypeOK, CallsInTime, ListEmpty, Waiting
<1>2. /\ Now(n) \in Nat /\ clock \in Nat /\ skew[n] \in Nat /\ call[n].now \in Nat
      /\ call[n].began \in Nat
    BY <1>1, SaltAssumption DEF SaltInv, TypeOK, Now, IsCall
<1>3. now \in Nat /\ call[n].began <= now /\ now <= Now(n)
    BY <1>1, <1>2 DEF InTime, Now
<1>4. call[n].kind # "seed" => now = call[n].now
    OBVIOUS
<1>5. call' = [call EXCEPT ![n] = c] /\ UNCHANGED <<setting, clock, skew, repo>>
    BY DEF ListEmpty
<1> HIDE DEF now
<1>6. IsCall(c) /\ c.now = now /\ c.began = call[n].began /\ c.kind = call[n].kind
    BY <1>1, <1>3, NewEntryIsEntry DEF IsCall, Idle
<1> HIDE DEF c
<1>7. InTime(n, c)
    BY <1>1, <1>3, <1>4, <1>6 DEF InTime
<1> QED
    BY <1>5, <1>6, <1>7, OneCall DEF SaltInv, TypeOK

LEMMA AppendOneSalt ==
    ASSUME SaltInv, NEW n \in Nodes, AppendOne(n)
    PROVE  SaltInv'
<1>1. PICK e \in call[n].todo :
        /\ repo' = Upsert(repo, e)
        /\ call' = [call EXCEPT ![n] = AfterAppend(@, e)]
    BY DEF AppendOne
<1> DEFINE c == AfterAppend(call[n], e)
<1>2. IsCall(call[n]) /\ call = [i \in Nodes |-> call[i]]
    BY DEF SaltInv, TypeOK
<1>3. call' = [call EXCEPT ![n] = c]
    BY <1>1
<1>4. Waiting(n) /\ UNCHANGED <<setting, clock, skew>>
    BY DEF AppendOne, Waiting
<1>5. /\ IsCall(c)
      /\ c.at # "idle" => /\ c.now = call[n].now /\ c.began = call[n].began
                          /\ c.kind = call[n].kind
    <2>1. CASE call[n].todo # {e}
        BY <2>1, <1>2 DEF AfterAppend, IsCall, Idle
    <2>2. CASE call[n].todo = {e} /\ call[n].kind = "seed"
        BY <2>2, IdleIsCall DEF AfterAppend, Idle
    <2>3. CASE call[n].todo = {e} /\ call[n].kind # "seed"
        BY <2>3, <1>2 DEF AfterAppend, IsCall, Idle
    <2> QED
        BY <2>1, <2>2, <2>3
<1> HIDE DEF c
<1>6. c.at # "idle" => InTime(n, c)
    BY <1>4, <1>5 DEF SaltInv, CallsInTime, InTime
<1>7. /\ call' = [i \in Nodes |-> call'[i]]
      /\ \A i \in Nodes : IsCall(call'[i])
      /\ CallsInTime'
    BY <1>3, <1>4, <1>5, <1>6, OneCall
<1>8. IsEntry(e)
    BY <1>1, <1>2 DEF IsCall
<1>9. /\ \A x \in repo' : IsEntry(x)
      /\ \A x, y \in repo' : x.since = y.since => x = y
    BY <1>1, <1>8 DEF Upsert, SaltInv, TypeOK
<1> QED
    BY <1>4, <1>7, <1>9 DEF SaltInv, TypeOK

LEMMA PruneSalt ==
    ASSUME SaltInv, NEW n \in Nodes, PruneAndReturn(n)
    PROVE  SaltInv'
<1>1. /\ call' = [call EXCEPT ![n] = Idle] /\ repo' \subseteq repo
      /\ UNCHANGED <<setting, clock, skew>>
    BY DEF PruneAndReturn
<1>2. /\ call' = [i \in Nodes |-> call'[i]]
      /\ \A i \in Nodes : IsCall(call'[i])
      /\ CallsInTime'
    BY <1>1, IdleIsCall, OneCall DEF Idle
<1> QED
    BY <1>1, <1>2 DEF SaltInv, TypeOK

LEMMA TickSalt == ASSUME SaltInv, Tick PROVE SaltInv'
<1>1. clock \in Nat /\ clock' = clock + 1 /\ UNCHANGED <<setting, skew, repo, call>>
    BY DEF Tick, SaltInv, TypeOK
<1>2. ASSUME NEW n \in Nodes, Waiting(n)' PROVE InTime(n, call[n])'
    <2>1. InTime(n, call[n]) /\ clock < call[n].began + setting.latency
        BY <1>1, <1>2 DEF Waiting, SaltInv, CallsInTime, Tick
    <2>2. call[n].now \in Nat /\ call[n].began \in Nat /\ skew[n] \in Nat /\ setting.latency \in Nat
        BY SaltAssumption DEF SaltInv, TypeOK, IsCall
    <2> QED
        BY <2>1, <2>2, <1>1 DEF InTime, Now
<1> QED
    BY <1>1, <1>2 DEF SaltInv, TypeOK, CallsInTime

LEMMA NextSalt == ASSUME SaltInv, Next PROVE SaltInv'
<1>1. ASSUME NEW n \in Nodes, BeginResolve(n) PROVE SaltInv'
    BY <1>1, BeginSalt, SaltAssumption DEF BeginResolve
<1>2. ASSUME NEW n \in Nodes, BeginFuture(n) PROVE SaltInv'
    <2>1. PICK num \in setting.nums : Begin(n, "future", num - 1, NoSalt)
        BY <1>2 DEF BeginFuture
    <2>2. num - 1 \in Nat
        BY SaltAssumption DEF SaltInv, TypeOK
    <2> QED
        BY <2>1, <2>2, BeginSalt
<1>3. ASSUME NEW n \in Nodes, BeginSeed(n) PROVE SaltInv'
    BY <1>3, BeginSalt DEF BeginSeed
<1>4. ASSUME NEW n \in Nodes, ListFound(n) PROVE SaltInv'
    <2>1. CASE call[n].kind = "seed"
        BY <1>4, <2>1, IdleIsCall, CallGoesOn DEF ListFound, Waiting
    <2>2. CASE call[n].kind # "seed"
        BY <1>4, <2>2, MintSalt DEF ListFound, Waiting
    <2> QED
        BY <2>1, <2>2
<1>5. ASSUME NEW n \in Nodes, ListEmpty(n) PROVE SaltInv'
    BY <1>5, ListEmptySalt
<1>6. ASSUME NEW n \in Nodes, RelistAnchor(n) PROVE SaltInv'
    BY <1>6, MintSalt DEF RelistAnchor, Waiting
<1>7. ASSUME NEW n \in Nodes, Relist(n) PROVE SaltInv'
    <2> DEFINE c == [call[n] EXCEPT !.list = repo, !.at = "prune"]
    <2>1. IsCall(call[n]) /\ \A e \in repo : IsEntry(e)
        BY DEF SaltInv, TypeOK
    <2>2. IsCall(c) /\ c.now = call[n].now /\ c.began = call[n].began /\ c.kind = call[n].kind
        BY <2>1 DEF IsCall, Idle
    <2>3. call' = [call EXCEPT ![n] = c]
        BY <1>7 DEF Relist
    <2> HIDE DEF c
    <2> QED
        BY <1>7, <2>2, <2>3, CallGoesOn DEF Relist, Waiting
<1>8. ASSUME NEW n \in Nodes, StorageFails(n) PROVE SaltInv'
    BY <1>8, IdleIsCall, CallGoesOn DEF StorageFails
<1> QED
    BY <1>1, <1>2, <1>3, <1>4, <1>5, <1>6, <1>7, <1>8,
       AppendOneSalt, PruneSalt, TickSalt DEF Next

LEMMA SaltInvariant == Spec => []SaltInv
<1>1. SaltInv /\ [Next]_vars => SaltInv'
    <2>1. CASE UNCHANGED vars
        BY <2>1 DEF vars, SaltInv, TypeOK, CallsInTime, Waiting, InTime, Now
    <2> QED
        BY <2>1, NextSalt
<1> QED
    BY InitSalt, <1>1, PTL DEF Spec

(***************************************************************************)
(* The schedule has one entry per window whichever nodes race to mint it   *)
(* (the repository's insert-if-absent), and every window starts at a       *)
(* natural number (salts.ts grid, windowAt).                               *)
(***************************************************************************)
THEOREM TypeCorrect == Spec => []TypeOK
BY SaltInvariant, PTL DEF SaltInv

-----------------------------------------------------------------------------
(***************************************************************************)
(* Pruning.  prune(now - window) with a clock at most a window ahead       *)
(* removes only what has expired.                                          *)
(***************************************************************************)
LEMMA PrunedHaveExpired ==
    ASSUME \A s \in Settings : s.skew <= Window,
           SaltInv, NEW n \in Nodes, Waiting(n), NEW e \in Pruned(call[n].now)
    PROVE  Until(e) <= clock
<1>1. /\ e.since \in Nat /\ Window \in Nat /\ clock \in Nat
      /\ call[n].now \in Nat /\ skew[n] \in Nat /\ skew[n] <= Window
    BY SaltAssumption DEF SaltInv, TypeOK, IsCall, IsEntry, Pruned
<1>2. call[n].now <= clock + skew[n]
    BY DEF SaltInv, CallsInTime, InTime, Now
<1>3. e.since + Window <= call[n].now - Window
    BY DEF Pruned, Until
<1> QED
    BY <1>1, <1>2, <1>3 DEF Until

(***************************************************************************)
(* The stored salt of a window that has not expired is neither replaced    *)
(* nor pruned, whichever nodes race to mint or prune it, while clocks      *)
(* differ by at most a window: half an hour (salts.ts ensure).             *)
(***************************************************************************)
THEOREM LiveEntriesStay ==
    ASSUME \A s \in Settings : s.skew <= Window
    PROVE  Spec => LiveEntriesKept
<1>1. SaltInv /\ [Next]_vars => [\A e \in repo : clock < Until(e) => e \in repo']_vars
    <2> SUFFICES ASSUME SaltInv, Next, NEW e \in repo, clock < Until(e)
                 PROVE  e \in repo'
        OBVIOUS
    <2>1. CASE \E n \in Nodes : AppendOne(n)
        BY <2>1, UpsertKeeps DEF AppendOne
    <2>2. CASE \E n \in Nodes : PruneAndReturn(n)
        <3>1. PICK n \in Nodes : PruneAndReturn(n)
            BY <2>2
        <3>2. CASE e \in Pruned(call[n].now)
            <4>1. Until(e) <= clock
                BY <3>1, <3>2, PrunedHaveExpired DEF PruneAndReturn, Waiting
            <4>2. clock \in Nat /\ Until(e) \in Nat
                BY SaltAssumption DEF SaltInv, TypeOK, IsEntry, Until
            <4> QED
                BY <4>1, <4>2
        <3>3. CASE e \notin Pruned(call[n].now)
            BY <3>1, <3>3 DEF PruneAndReturn
        <3> QED
            BY <3>2, <3>3
    <2>3. CASE UNCHANGED repo
        BY <2>3
    <2> QED
        BY <2>1, <2>2, <2>3
        DEF Next, BeginResolve, BeginFuture, BeginSeed, Begin, ListFound, ListEmpty,
            RelistAnchor, Relist, StorageFails, Tick
<1> QED
    BY SaltInvariant, <1>1, PTL DEF Spec, LiveEntriesKept

-----------------------------------------------------------------------------
(***************************************************************************)
(* While what the clocks differ by and what a call takes add up to no more *)
(* than a window, no call works with a time so late or so early that it    *)
(* prunes what another one needs: the windows a call wants are in the      *)
(* schedule when it returns, the schedule never becomes empty again, and   *)
(* what was advertised is there until a window after it expired.           *)
(***************************************************************************)
Timely == \A s \in Settings : s.latency + s.skew <= Window

Aligned(s, t) == \E k \in Int : s - t = k * Step

\* The windows from `first` on, and a window that covers t the latest.
Windows(first, ahead) == {first + i * Step : i \in 0..ahead}

IsCurrent(first, t) == first <= t /\ t < first + Step

\* What the call wants, if its clock has reached the schedule, from the current
\* window on.
Scheduled(entries, c) ==
    \E first \in Nat :
        /\ c.now < first + Step
        /\ c.reached => first <= c.now
        /\ \A s \in Windows(first, c.ahead) : \E e \in entries : e.since = s

\* Not yet to be pruned.
Kept(e) == clock + setting.skew < Until(e) + Window

Fits(e, c) == Covers(e, c.now) /\ e.salt = c.salt

CallHolds(c) ==
    /\ c.at \notin {"anchor", "mint"} => c.todo = {}
    /\ c.at \in {"idle", "list", "anchor", "relistAnchor"} => c.list = {}
    /\ c.at = "anchor" => \A e \in c.todo : e.since = c.now
    /\ c.at \in {"mint", "relist", "prune"} => repo # {}
    /\ c.at \in {"mint", "relist"} => Scheduled(repo \cup c.todo, c)
    /\ c.at = "prune" => Scheduled(c.list, c) /\ \A e \in c.list : Kept(e) => e \in repo
    /\ c.at # "idle" /\ c.due => \E e \in repo : Fits(e, c)
    /\ c.at = "prune" /\ c.due => \E e \in c.list : Fits(e, c)

AdvertisedAreStored ==
    \A a \in advertised :
        \E s \in Nat :
            /\ s <= a.at + setting.skew /\ a.at < s + Step /\ a.at \in Nat
            /\ clock + setting.skew < s + 2 * Window => \E e \in repo : e.since = s /\ e.salt = a.salt

(***************************************************************************)
(* With one first window, all windows are on one grid.                     *)
(***************************************************************************)
Known == repo \cup UNION {call[n].list \cup call[n].todo : n \in Nodes}

OneGrid == \A e, f \in Known : Aligned(e.since, f.since)

GridHolds == OneAnchor => OneGrid /\ (setting.seeded => repo # {})

ScheduleInv ==
    /\ AdvertisedAreStored /\ GridHolds
    /\ \A n \in Nodes : CallHolds(call[n])

-----------------------------------------------------------------------------
LEMMA TimesStep ==
    /\ \A i, j \in Int : i * Step + j * Step = (i + j) * Step
    /\ \A i, j \in Int : i * Step - j * Step = (i - j) * Step
    /\ \A i \in Int : i * Step \in Int
    /\ \A i \in Nat : i * Step \in Nat
    /\ \A i \in Nat \ {0} : i * Step >= Step
<1>1. Step \in Nat \ {0}
    BY SaltAssumption
<1>2. \A i \in Nat \ {0} : i * Step >= Step
    <2> SUFFICES ASSUME NEW i \in Nat \ {0} PROVE i * Step >= Step
        OBVIOUS
    <2>1. (i - 1) * Step \in Nat /\ i * Step = (i - 1) * Step + Step
        BY <1>1
    <2> QED BY <1>1, <2>1
<1> QED BY <1>1, <1>2

LEMMA AlignedRules ==
    /\ \A s \in Int : Aligned(s, s)
    /\ \A s, t \in Int : Aligned(s, t) => Aligned(t, s)
    /\ \A r, s, t \in Int : Aligned(r, s) /\ Aligned(s, t) => Aligned(r, t)
    /\ \A s \in Int, i \in Int : Aligned(s + i * Step, s)
<1>1. Step \in Int
    BY SaltAssumption
<1>2. ASSUME NEW s \in Int PROVE Aligned(s, s)
    <2>1. s - s = 0 * Step
        BY <1>1
    <2> QED BY <2>1 DEF Aligned
<1>3. ASSUME NEW s \in Int, NEW t \in Int, Aligned(s, t) PROVE Aligned(t, s)
    <2>1. PICK k \in Int : s - t = k * Step
        BY <1>3 DEF Aligned
    <2>2. t - s = (0 - k) * Step /\ 0 - k \in Int
        BY <1>1, <2>1
    <2> QED BY <2>2 DEF Aligned
<1>4. ASSUME NEW r \in Int, NEW s \in Int, NEW t \in Int, Aligned(r, s), Aligned(s, t) PROVE Aligned(r, t)
    <2>1. PICK k \in Int : r - s = k * Step
        BY <1>4 DEF Aligned
    <2>2. PICK l \in Int : s - t = l * Step
        BY <1>4 DEF Aligned
    <2>3. r - t = (k + l) * Step /\ k + l \in Int
        BY <1>1, <2>1, <2>2
    <2> QED BY <2>3 DEF Aligned
<1>5. ASSUME NEW s \in Int, NEW i \in Int PROVE Aligned(s + i * Step, s)
    <2>1. (s + i * Step) - s = i * Step
        BY <1>1
    <2> QED BY <2>1 DEF Aligned
<1> QED BY <1>2, <1>3, <1>4, <1>5

\* One window of a grid is current.
LEMMA OneCurrent ==
    ASSUME NEW s \in Int, NEW t \in Int, NEW now \in Int, Aligned(s, t),
           IsCurrent(s, now), IsCurrent(t, now)
    PROVE  s = t
<1>1. PICK k \in Int : s - t = k * Step
    BY DEF Aligned
<1>2. Step \in Nat \ {0} /\ s - t < Step /\ t - s < Step
    BY SaltAssumption DEF IsCurrent
<1>3. CASE k = 0
    BY <1>1, <1>2, <1>3
<1>4. CASE k > 0
    BY <1>1, <1>2, <1>4, TimesStep
<1>5. CASE k < 0
    <2>1. 0 - k \in Nat \ {0} /\ t - s = (0 - k) * Step
        BY <1>1, <1>2, <1>5
    <2> QED BY <1>2, <2>1, TimesStep
<1> QED BY <1>3, <1>4, <1>5

LEMMA Euclid ==
    ASSUME NEW d \in Nat
    PROVE  /\ d \div Step \in Nat
           /\ (d \div Step) * Step <= d /\ d < (d \div Step) * Step + Step
BY SaltAssumption

LEMMA Shapes ==
    ASSUME SaltInv
    PROVE  /\ clock \in Nat /\ Window \in Nat /\ Step \in Nat \ {0} /\ Step <= Window
           /\ setting \in Settings /\ setting.skew \in Nat /\ setting.latency \in Nat
           /\ \A e \in Known : IsEntry(e) /\ e.since \in Nat
           /\ call = [n \in Nodes |-> call[n]]
           /\ \A n \in Nodes : IsCall(call[n]) /\ skew[n] \in Nat /\ skew[n] <= setting.skew
BY SaltAssumption DEF SaltInv, TypeOK, IsCall, IsEntry, Known

\* What ensure() wants: windows of the grid of its list, the first of them the
\* current one if the list has one that started.
LEMMA WantedAreWindows ==
    ASSUME SaltInv, NEW list, NEW ahead \in Nat, NEW t \in Nat, list # {}, \A e \in list : IsEntry(e)
    PROVE  \E first \in Nat :
               /\ t < first + Step
               /\ (\E e \in list : e.since <= t) => first <= t
               /\ Aligned(first, Anchor(list).since)
               /\ Wanted(list, t, ahead) = Windows(first, ahead)
<1> DEFINE t0 == Anchor(list).since
           k == CurrentIndex(list, t)
           first == t0 + k * Step
<1>1. Anchor(list) \in list /\ t0 \in Nat
    BY AnchorIsEntry
<1>2. Step \in Nat \ {0}
    BY Shapes
<1>3. \A e \in list : t0 <= e.since
    <2> DEFINE T == {x.since : x \in list}
    <2>1. T \subseteq Nat /\ T # {}
        BY <1>1 DEF IsEntry
    <2>2. PICK x \in T : \A y \in T : x <= y
        BY <2>1, NatMin
    <2>3. \E a \in list : \A e2 \in list : a.since <= e2.since
        BY <2>2
    <2> QED BY <2>3, Zenon DEF Anchor
<1>4. k \in Nat /\ t < t0 + (k * Step + Step) /\ (t0 <= t => t0 + k * Step <= t)
    <2>1. CASE t < t0
        <3>1. k = 0
            BY <2>1 DEF CurrentIndex
        <3> QED BY <1>1, <1>2, <2>1, <3>1
    <2>2. CASE ~(t < t0)
        <3>1. t - t0 \in Nat /\ k = (t - t0) \div Step
            BY <1>1, <2>2 DEF CurrentIndex
        <3> DEFINE d == t - t0
        <3>2. d \in Nat /\ t = t0 + d
            BY <1>1, <2>2
        <3> HIDE DEF d
        <3>3. k \in Nat /\ k * Step <= d /\ d < k * Step + Step
            BY <3>1, <3>2, Euclid DEF d
        <3>4. k * Step \in Nat
            BY ONLY <1>2, <3>3
        <3> HIDE DEF k
        <3> QED BY <1>1, <1>2, <3>2, <3>3, <3>4
    <2> QED BY <2>1, <2>2
<1> HIDE DEF k
<1>5. k * Step \in Nat /\ first \in Nat
    <2>1. k * Step \in Nat
        BY ONLY <1>2, <1>4
    <2> QED BY <1>1, <2>1
<1>6. t < first + Step
    BY <1>1, <1>2, <1>4, <1>5
<1>7. (\E e \in list : e.since <= t) => first <= t
    <2> SUFFICES ASSUME NEW e \in list, e.since <= t PROVE first <= t
        OBVIOUS
    <2>1. e.since \in Nat /\ t0 <= e.since
        BY <1>3 DEF IsEntry
    <2>2. t0 <= t
        BY <1>1, <2>1
    <2> QED BY <1>4, <2>2
<1>8. Aligned(first, t0)
    BY <1>1, <1>4, AlignedRules
<1>9. Wanted(list, t, ahead) = Windows(first, ahead)
    <2>1. Wanted(list, t, ahead) = {t0 + i * Step : i \in k..(k + ahead)}
        BY DEF Wanted, GridStart, k
    <2>2. ASSUME NEW i \in k..(k + ahead) PROVE t0 + i * Step \in Windows(first, ahead)
        <3>1. i - k \in 0..ahead
            BY <1>4
        <3>2. i * Step = k * Step + (i - k) * Step /\ i * Step \in Int /\ (i - k) * Step \in Int
            <4>1. i \in Int /\ k \in Int /\ Step \in Int
                BY <1>2, <1>4
            <4> QED BY ONLY <4>1
        <3>3. t0 + i * Step = first + (i - k) * Step
            BY <1>1, <1>5, <3>2
        <3> QED BY <3>1, <3>3 DEF Windows
    <2>3. ASSUME NEW i \in 0..ahead
          PROVE  first + i * Step \in {t0 + j * Step : j \in k..(k + ahead)}
        <3>1. k + i \in k..(k + ahead)
            BY <1>4
        <3>2. (k + i) * Step = k * Step + i * Step /\ i * Step \in Int
            <4>1. i \in Int /\ k \in Int /\ Step \in Int
                BY <1>2, <1>4
            <4> QED BY ONLY <4>1
        <3>3. first + i * Step = t0 + (k + i) * Step
            BY <1>1, <1>5, <3>2
        <3> QED BY <3>1, <3>3
    <2>4. Windows(first, ahead) \subseteq {t0 + j * Step : j \in k..(k + ahead)}
        BY <2>3 DEF Windows
    <2>5. {t0 + i * Step : i \in k..(k + ahead)} \subseteq Windows(first, ahead)
        BY <2>2
    <2> QED BY <2>1, <2>4, <2>5
<1> HIDE DEF first
<1> QED BY <1>5, <1>6, <1>7, <1>8, <1>9

\* A call that began in time needs nothing that is due to be pruned.
LEMMA LateEnough ==
    ASSUME Timely, SaltInv, NEW n \in Nodes, NEW c, InTime(n, c), c.began \in Nat, c.now \in Nat,
           NEW e, e.since \in Nat, c.now < e.since + Window
    PROVE  Kept(e)
<1>1. setting.latency + setting.skew <= Window
    BY Shapes DEF Timely
<1>2. /\ clock \in Nat /\ setting.skew \in Nat /\ setting.latency \in Nat /\ Window \in Nat
    BY Shapes
<1>3. clock <= c.began + setting.latency /\ c.began <= c.now
    BY DEF InTime
<1>4. clock + setting.skew <= c.now + Window
    BY <1>1, <1>2, <1>3
<1>5. clock + setting.skew < e.since + Window + Window
    BY <1>2, <1>4
<1> QED BY <1>5 DEF Kept, Until

LEMMA WindowsAreKept ==
    ASSUME Timely, SaltInv, NEW n \in Nodes, NEW c, InTime(n, c), c.began \in Nat, c.now \in Nat,
           NEW first \in Nat, c.now < first + Step, NEW ahead \in Nat,
           NEW e, e.since \in Windows(first, ahead)
    PROVE  e.since \in Nat /\ Kept(e) /\ first <= e.since
<1>1. PICK i \in 0..ahead : e.since = first + i * Step
    BY DEF Windows
<1>2. Window \in Nat /\ Step \in Nat \ {0} /\ Step <= Window
    BY Shapes
<1>3. i \in Nat
    BY <1>1
<1>4. i * Step \in Nat
    BY ONLY <1>2, <1>3
<1>5. e.since \in Nat /\ first <= e.since
    BY <1>1, <1>4
<1>6. c.now < e.since + Window
    BY <1>2, <1>5
<1> QED BY <1>5, <1>6, LateEnough

LEMMA FirstIsWindow ==
    ASSUME NEW first \in Nat, NEW ahead \in Nat
    PROVE  first \in Windows(first, ahead)
<1>1. first = first + 0 * Step /\ 0 \in 0..ahead
    BY SaltAssumption
<1> QED BY <1>1 DEF Windows

\* A schedule has a first window that is to be kept.
LEMMA ScheduledHasFirst ==
    ASSUME Timely, SaltInv, NEW n \in Nodes, NEW c, InTime(n, c), IsCall(c),
           NEW entries, Scheduled(entries, c)
    PROVE  \E e \in entries : /\ e.since \in Nat /\ Kept(e)
                              /\ c.now < e.since + Step /\ (c.reached => e.since <= c.now)
<1>1. PICK first \in Nat :
          /\ c.now < first + Step /\ (c.reached => first <= c.now)
          /\ \A s \in Windows(first, c.ahead) : \E e \in entries : e.since = s
    BY DEF Scheduled
<1>2. c.began \in Nat /\ c.now \in Nat /\ c.ahead \in Nat
    BY DEF IsCall
<1>3. PICK e \in entries : e.since = first
    BY <1>1, <1>2, FirstIsWindow
<1>4. Kept(e)
    BY <1>1, <1>2, <1>3, FirstIsWindow, WindowsAreKept
<1> QED BY <1>1, <1>3, <1>4

LEMMA ScheduledStays ==
    ASSUME Timely, SaltInv, NEW n \in Nodes, NEW c, InTime(n, c), IsCall(c),
           NEW entries, NEW more, Scheduled(entries, c),
           \A e \in entries : Kept(e) => \E f \in more : f.since = e.since
    PROVE  Scheduled(more, c)
<1>1. PICK first \in Nat :
          /\ c.now < first + Step /\ (c.reached => first <= c.now)
          /\ \A s \in Windows(first, c.ahead) : \E e \in entries : e.since = s
    BY DEF Scheduled
<1>2. c.began \in Nat /\ c.now \in Nat /\ c.ahead \in Nat
    BY DEF IsCall
<1>3. ASSUME NEW s \in Windows(first, c.ahead) PROVE \E f \in more : f.since = s
    <2>1. PICK e \in entries : e.since = s
        BY <1>1
    <2>2. Kept(e)
        BY <1>1, <1>2, <2>1, WindowsAreKept
    <2> QED BY <2>1, <2>2
<1> QED BY <1>1, <1>3 DEF Scheduled

(***************************************************************************)
(* A step of one call changes nothing for another, as long as what is to   *)
(* be kept stays.                                                          *)
(***************************************************************************)
RepoKeeps == (\A e \in repo : Kept(e) => e \in repo') /\ (repo # {} => repo' # {})

LEMMA OtherCallStays ==
    ASSUME Timely, SaltInv, NEW m \in Nodes, CallHolds(call[m]), RepoKeeps,
           call'[m] = call[m], UNCHANGED <<setting, clock>>
    PROVE  CallHolds(call[m])'
<1> DEFINE c == call[m]
<1>1. IsCall(c) /\ \A e \in repo \cup c.list \cup c.todo : e.since \in Nat
    BY Shapes DEF IsCall, IsEntry, Known
<1>2. c.at # "idle" => InTime(m, c)
    BY DEF SaltInv, CallsInTime, Waiting
<1>3. c.at \in {"mint", "relist"} => Scheduled(repo' \cup c.todo, c)
    <2> SUFFICES ASSUME c.at \in {"mint", "relist"}
                 PROVE  Scheduled(repo' \cup c.todo, c)
        OBVIOUS
    <2>1. Scheduled(repo \cup c.todo, c)
        BY DEF CallHolds
    <2>2. \A e \in repo \cup c.todo : Kept(e) => \E f \in repo' \cup c.todo : f.since = e.since
        BY DEF RepoKeeps
    <2> QED BY <1>1, <1>2, <2>1, <2>2, ScheduledStays
<1>4. ASSUME c.at # "idle", c.due PROVE \E e \in repo' : Fits(e, c)
    <2>1. PICK e \in repo : Fits(e, c)
        BY <1>4 DEF CallHolds
    <2>2. Kept(e)
        BY <1>1, <1>2, <1>4, <2>1, LateEnough DEF Fits, Covers, Until, IsCall
    <2> QED BY <2>1, <2>2 DEF RepoKeeps
<1>5. /\ c.at \in {"mint", "relist", "prune"} => repo' # {}
      /\ c.at = "prune" => Scheduled(c.list, c) /\ \A e \in c.list : Kept(e) => e \in repo'
      /\ c.at = "prune" /\ c.due => \E e \in c.list : Fits(e, c)
    BY DEF CallHolds, RepoKeeps
<1>6. call'[m] = c /\ clock' = clock /\ setting' = setting
    OBVIOUS
<1>7. /\ c.at \notin {"anchor", "mint"} => c.todo = {}
      /\ c.at \in {"idle", "list", "anchor", "relistAnchor"} => c.list = {}
      /\ c.at = "anchor" => \A e \in c.todo : e.since = c.now
    BY DEF CallHolds
<1> HIDE DEF c
<1> QED BY <1>3, <1>4, <1>5, <1>6, <1>7 DEF CallHolds, Fits, Covers, Until, Scheduled, Windows, Kept

LEMMA AdvertisedStay ==
    ASSUME SaltInv, AdvertisedAreStored, RepoKeeps, advertised' \subseteq advertised,
           UNCHANGED <<setting, clock>>
    PROVE  AdvertisedAreStored'
<1> SUFFICES ASSUME NEW a \in advertised
             PROVE  \E s \in Nat :
                        /\ s <= a.at + setting.skew /\ a.at < s + Step /\ a.at \in Nat
                        /\ clock + setting.skew < s + 2 * Window =>
                               \E e \in repo' : e.since = s /\ e.salt = a.salt
    BY DEF AdvertisedAreStored
<1>1. PICK s \in Nat :
          /\ s <= a.at + setting.skew /\ a.at < s + Step /\ a.at \in Nat
          /\ clock + setting.skew < s + 2 * Window => \E e \in repo : e.since = s /\ e.salt = a.salt
    BY DEF AdvertisedAreStored
<1>2. ASSUME clock + setting.skew < s + 2 * Window PROVE \E e \in repo' : e.since = s /\ e.salt = a.salt
    <2>1. PICK e \in repo : e.since = s /\ e.salt = a.salt
        BY <1>1, <1>2
    <2>2. Kept(e)
        BY <1>2, <2>1, Shapes DEF Kept, Until
    <2> QED BY <2>1, <2>2 DEF RepoKeeps
<1> QED BY <1>1, <1>2

\* What a step adds is on the grid of what was known.
LEMMA GridStays ==
    ASSUME SaltInv, OneGrid, NEW n \in Nodes, NEW c,
           call' = [call EXCEPT ![n] = c], repo' \subseteq Known,
           \A e \in (c.list \cup c.todo) \ Known :
               e.since \in Int /\ \E f \in Known : Aligned(e.since, f.since)
    PROVE  OneGrid'
<1>1. \A e \in Known' : e \in Known \/ e \in (c.list \cup c.todo) \ Known
    <2>1. call' = [m \in Nodes |-> IF m = n THEN c ELSE call[m]]
        BY Shapes
    <2> QED BY <2>1 DEF Known
<1>2. \A e \in Known' : e.since \in Int /\ \E f \in Known : Aligned(e.since, f.since)
    <2>1. \A e \in Known : e.since \in Int /\ Aligned(e.since, e.since)
        BY Shapes, AlignedRules
    <2> QED BY <1>1, <2>1
<1>3. ASSUME NEW e \in Known', NEW g \in Known' PROVE Aligned(e.since, g.since)
    <2>1. PICK f \in Known : Aligned(e.since, f.since)
        BY <1>2
    <2>2. PICK h \in Known : Aligned(g.since, h.since)
        BY <1>2
    <2>3. Aligned(f.since, h.since)
        BY DEF OneGrid
    <2>4. e.since \in Int /\ f.since \in Int /\ g.since \in Int /\ h.since \in Int
        BY <1>2, Shapes
    <2>5. Aligned(e.since, h.since)
        BY <2>1, <2>3, <2>4, AlignedRules
    <2>6. Aligned(h.since, g.since)
        BY <2>2, <2>4, AlignedRules
    <2> QED BY <2>4, <2>5, <2>6, AlignedRules
<1> QED BY <1>3 DEF OneGrid, Aligned

\* A step of one call.
LEMMA CallSteps ==
    ASSUME Timely, SaltInv, ScheduleInv, NEW n \in Nodes, NEW c, call' = [call EXCEPT ![n] = c],
           RepoKeeps, UNCHANGED <<setting, clock>>,
           CallHolds(call[n])', AdvertisedAreStored', OneAnchor => OneGrid'
    PROVE  ScheduleInv'
<1>1. ASSUME NEW m \in Nodes, m # n PROVE CallHolds(call[m])'
    <2>1. call'[m] = call[m]
        BY <1>1, Shapes
    <2>2. CallHolds(call[m])
        BY DEF ScheduleInv
    <2> QED BY <2>1, <2>2, OtherCallStays
<1>2. GridHolds'
    <2>1. OneAnchor' <=> OneAnchor
        BY DEF OneAnchor
    <2>2. OneAnchor /\ setting.seeded => repo' # {}
        BY DEF ScheduleInv, GridHolds, RepoKeeps
    <2> QED BY <2>1, <2>2 DEF GridHolds
<1> QED BY <1>1, <1>2 DEF ScheduleInv

\* One that leaves the schedule alone.
LEMMA CallStepsAlone ==
    ASSUME Timely, SaltInv, ScheduleInv, NEW n \in Nodes, NEW c, call' = [call EXCEPT ![n] = c],
           UNCHANGED <<setting, clock, repo, advertised>>, CallHolds(c), OneAnchor => OneGrid'
    PROVE  ScheduleInv'
<1>1. RepoKeeps
    BY DEF RepoKeeps
<1>2. call'[n] = c
    BY Shapes
<1>3. CallHolds(call[n])'
    BY <1>2 DEF CallHolds, Scheduled, Windows, Kept, Until, Fits, Covers
<1>4. AdvertisedAreStored'
    BY <1>1, AdvertisedStay DEF ScheduleInv
<1> QED BY <1>1, <1>3, <1>4, CallSteps

-----------------------------------------------------------------------------
LEMMA InitSchedule == Init => ScheduleInv
<1> SUFFICES ASSUME Init PROVE ScheduleInv
    OBVIOUS
<1>1. PICK s \in 0..setting.skew : repo \subseteq {[since |-> s, salt |-> <<s, 0>>]}
    <2>1. setting.skew \in Nat
        BY SaltAssumption DEF Init
    <2> QED BY <2>1 DEF Init
<1>2. \A n \in Nodes : call[n] = Idle
    BY DEF Init
<1>3. \A e \in Known : e.since = s
    BY <1>1, <1>2 DEF Known, Idle
<1>4. OneGrid
    <2>1. s \in Int
        BY <1>1, SaltAssumption DEF Init
    <2> QED BY <1>3, <2>1, AlignedRules DEF OneGrid
<1>5. setting.seeded => repo # {}
    BY DEF Init
<1>6. CallHolds(Idle)
    BY DEF CallHolds, Idle
<1>7. AdvertisedAreStored
    BY DEF AdvertisedAreStored, Init
<1> QED BY <1>2, <1>4, <1>5, <1>6, <1>7 DEF ScheduleInv, GridHolds

\* A salt due acceptance is one of a window that covers the time on every clock.
LEMMA DueAreStored ==
    ASSUME SaltInv, AdvertisedAreStored, NEW n \in Nodes, NEW salt, Due(salt, clock)
    PROVE  \E e \in repo : Covers(e, Now(n)) /\ e.salt = salt
<1>1. PICK a \in advertised : /\ a.salt = salt /\ a.at + setting.skew <= clock
                              /\ ~Expired(a, clock)
    BY DEF Due
<1>2. PICK s \in Nat :
          /\ s <= a.at + setting.skew /\ a.at < s + Step /\ a.at \in Nat
          /\ clock + setting.skew < s + 2 * Window => \E e \in repo : e.since = s /\ e.salt = a.salt
    BY DEF AdvertisedAreStored
<1>3. /\ clock \in Nat /\ setting.skew \in Nat /\ Window \in Nat /\ Step \in Nat /\ Step <= Window
      /\ skew[n] \in Nat /\ skew[n] <= setting.skew
    BY Shapes
<1>4. clock + setting.skew <= a.at + (Window - Step)
    BY <1>1, <1>2, <1>3 DEF Expired
<1>5. /\ s <= clock + skew[n] /\ clock + skew[n] < s + Window
      /\ clock + setting.skew < s + 2 * Window
    BY <1>1, <1>2, <1>3, <1>4
<1>6. PICK e \in repo : e.since = s /\ e.salt = a.salt
    BY <1>2, <1>5
<1> QED BY <1>1, <1>5, <1>6 DEF Covers, Until, Now

LEMMA IdleAligned ==
    ASSUME SaltInv, OneGrid, NEW n \in Nodes, NEW c, call' = [call EXCEPT ![n] = c],
           c.list = {}, c.todo = {}, repo' \subseteq repo
    PROVE  OneGrid'
<1>1. repo' \subseteq Known
    BY DEF Known
<1> QED BY <1>1, GridStays

LEMMA BeginHolds ==
    ASSUME Timely, SaltInv, ScheduleInv,
           NEW n \in Nodes, NEW kind, NEW ahead, NEW salt, Begin(n, kind, ahead, salt)
    PROVE  ScheduleInv'
<1> DEFINE c == [Idle EXCEPT !.kind = kind, !.at = "list", !.now = Now(n),
                             !.began = clock, !.ahead = ahead,
                             !.salt = salt, !.due = Due(salt, clock)]
<1>1. /\ c.at = "list" /\ c.now = Now(n) /\ c.list = {} /\ c.todo = {}
      /\ c.salt = salt /\ c.due = Due(salt, clock)
    BY DEF Idle
<1>2. call' = [call EXCEPT ![n] = c] /\ UNCHANGED <<setting, clock, repo, advertised>>
    BY DEF Begin
<1> HIDE DEF c
<1>3. c.due => \E e \in repo : Fits(e, c)
    <2>1. Due(salt, clock) => \E e \in repo : Covers(e, Now(n)) /\ e.salt = salt
        BY DueAreStored DEF ScheduleInv
    <2> QED BY <1>1, <2>1 DEF Fits
<1>4. CallHolds(c)
    BY <1>1, <1>3 DEF CallHolds
<1> QED BY <1>1, <1>2, <1>4, IdleAligned, CallStepsAlone DEF ScheduleInv, GridHolds

\* A call that ends, with nothing advertised.
LEMMA EndHolds ==
    ASSUME Timely, SaltInv, ScheduleInv, NEW n \in Nodes, call' = [call EXCEPT ![n] = Idle],
           UNCHANGED <<setting, clock, repo, advertised>>
    PROVE  ScheduleInv'
<1>1. CallHolds(Idle) /\ Idle.list = {} /\ Idle.todo = {}
    BY DEF CallHolds, Idle
<1> QED BY <1>1, IdleAligned, CallStepsAlone DEF ScheduleInv, GridHolds

LEMMA MintHolds ==
    ASSUME Timely, SaltInv, ScheduleInv, NEW n \in Nodes, call[n].at \in {"list", "relistAnchor"},
           repo # {}, Mint(n, repo), UNCHANGED <<setting, clock, repo, advertised>>
    PROVE  ScheduleInv'
<1> DEFINE old == call[n]
           reached == Anchor(repo).since <= old.now
           missing == Missing(repo, old.now, old.ahead)
           c == [old EXCEPT !.list = repo, !.todo = missing, !.reached = reached,
                            !.at = IF missing = {} THEN "prune" ELSE "mint"]
<1>1. CallHolds(old) /\ IsCall(old) /\ old.now \in Nat /\ old.ahead \in Nat
    BY Shapes DEF ScheduleInv, IsCall
<1>2. Anchor(repo) \in repo /\ Anchor(repo).since \in Nat
    BY AnchorIsEntry DEF SaltInv, TypeOK
<1>3. PICK first \in Nat :
          /\ old.now < first + Step
          /\ (\E e \in repo : e.since <= old.now) => first <= old.now
          /\ Aligned(first, Anchor(repo).since)
          /\ Wanted(repo, old.now, old.ahead) = Windows(first, old.ahead)
    <2>1. \A e \in repo : IsEntry(e)
        BY DEF SaltInv, TypeOK
    <2> QED BY <1>1, <2>1, WantedAreWindows
<1>4. /\ missing = {NewEntry(s) : s \in Windows(first, old.ahead) \ {e.since : e \in repo}}
      /\ \A s : NewEntry(s).since = s
    BY <1>3 DEF Missing, NewEntry
<1>5. reached => first <= old.now
    BY <1>2, <1>3
<1>6. call' = [call EXCEPT ![n] = c]
    BY DEF Mint
<1> HIDE DEF missing, reached
<1>7. /\ c.list = repo /\ c.todo = missing /\ c.at = IF missing = {} THEN "prune" ELSE "mint"
      /\ c.now = old.now /\ c.ahead = old.ahead /\ c.reached = reached
      /\ c.due = old.due /\ c.salt = old.salt
    BY <1>1 DEF IsCall, Idle
<1>8. old.due => \E e \in repo : Fits(e, old)
    BY <1>1 DEF CallHolds
<1> HIDE DEF c, old
<1>9. Scheduled(repo \cup missing, c)
    <2>1. ASSUME NEW s \in Windows(first, c.ahead) PROVE \E e \in repo \cup missing : e.since = s
        <3>1. CASE s \in {e.since : e \in repo}
            BY <3>1
        <3>2. CASE s \notin {e.since : e \in repo}
            BY <1>4, <1>7, <2>1, <3>2
        <3> QED BY <3>1, <3>2
    <2> QED BY <1>3, <1>5, <1>7, <2>1 DEF Scheduled
<1>10. CallHolds(c)
    <2>1. c.at \in {"mint", "prune"} /\ (c.at = "prune" => missing = {})
        BY <1>7
    <2>2. c.due => \E e \in repo : Fits(e, c)
        BY <1>7, <1>8 DEF Fits
    <2>3. missing = {} => Scheduled(repo, c)
        <3>1. missing = {} => repo \cup missing = repo
            OBVIOUS
        <3> QED BY <1>9, <3>1
    <2> QED BY <1>7, <1>9, <2>1, <2>2, <2>3 DEF CallHolds
<1>11. ASSUME OneGrid PROVE OneGrid'
    <2>1. ASSUME NEW e \in missing PROVE e.since \in Int /\ \E f \in Known : Aligned(e.since, f.since)
        <3>1. e.since \in Windows(first, old.ahead)
            BY <1>4
        <3>2. PICK i \in 0..old.ahead : e.since = first + i * Step
            BY <3>1 DEF Windows
        <3>3. i \in Int /\ first \in Int /\ i * Step \in Int
            BY <1>1, <3>2, TimesStep DEF old
        <3>4. e.since \in Int /\ Aligned(e.since, first)
            BY <3>2, <3>3, AlignedRules
        <3>5. Anchor(repo) \in Known /\ Anchor(repo).since \in Int
            BY <1>2 DEF Known
        <3> QED BY <1>3, <3>3, <3>4, <3>5, AlignedRules
    <2>2. repo \subseteq Known
        BY DEF Known
    <2> QED BY <1>6, <1>7, <1>11, <2>1, <2>2, GridStays
<1> QED BY <1>6, <1>10, <1>11, CallStepsAlone DEF ScheduleInv, GridHolds

(***************************************************************************)
(* The first window.  Where the schedule has one first window, it is that  *)
(* of the handshake, or every call mints it with the second it is.         *)
(***************************************************************************)
LEMMA ListEmptyHolds ==
    ASSUME Timely, SaltInv, ScheduleInv, NEW n \in Nodes, ListEmpty(n)
    PROVE  ScheduleInv'
<1> DEFINE old == call[n]
           now == IF old.kind = "seed" THEN Now(n) ELSE old.now
           c == [old EXCEPT !.now = now, !.todo = {NewEntry(now)}, !.at = "anchor"]
<1>1. /\ CallHolds(old) /\ old.at = "list" /\ IsCall(old) /\ repo = {} /\ Waiting(n)
      /\ call' = [call EXCEPT ![n] = c] /\ UNCHANGED <<setting, clock, repo, advertised>>
    BY Shapes DEF ScheduleInv, ListEmpty, Waiting
<1>2. old.list = {} /\ NewEntry(now).since = now /\ ~old.due
    BY <1>1 DEF CallHolds, NewEntry
<1>3. /\ c.list = {} /\ c.todo = {NewEntry(now)} /\ c.at = "anchor" /\ c.now = now
      /\ c.due = old.due
    BY <1>1, <1>2 DEF IsCall, Idle
<1>4. InTime(n, old)
    BY <1>1 DEF SaltInv, CallsInTime
<1> HIDE DEF c
<1>5. CallHolds(c)
    BY <1>1, <1>2, <1>3 DEF CallHolds
<1>6. ASSUME OneAnchor PROVE OneGrid'
    <2>1. setting.skew = 0 /\ setting.latency = 0
        BY <1>1, <1>6 DEF ScheduleInv, GridHolds, OneAnchor
    <2>2. ASSUME NEW m \in Nodes, Waiting(m) PROVE call[m].now = clock /\ Now(m) = clock
        <3>1. InTime(m, call[m]) /\ IsCall(call[m]) /\ skew[m] = 0 /\ clock \in Nat
            BY <2>1, <2>2, Shapes DEF SaltInv, CallsInTime
        <3>2. call[m].began \in Nat /\ call[m].now \in Nat
            BY <3>1 DEF IsCall
        <3> QED BY <2>1, <3>1, <3>2 DEF InTime, Now
    <2>3. now = clock
        BY <1>1, <2>2
    <2>4. ASSUME NEW m \in Nodes, NEW e \in call[m].list \cup call[m].todo PROVE e.since = clock
        <3>1. CallHolds(call[m]) /\ IsCall(call[m])
            BY Shapes DEF ScheduleInv
        <3>2. call[m].at \in {"idle", "list", "anchor", "relistAnchor"}
            BY <1>1, <3>1 DEF CallHolds, IsCall
        <3>3. call[m].at = "anchor" /\ e.since = call[m].now
            BY <2>4, <3>1, <3>2 DEF CallHolds
        <3> QED BY <2>2, <3>3 DEF Waiting
    <2>5. \A e \in Known' : e.since = clock
        <3>1. call' = [m \in Nodes |-> IF m = n THEN c ELSE call[m]]
            BY <1>1, Shapes
        <3> HIDE DEF now
        <3> QED BY <1>1, <1>2, <1>3, <2>3, <2>4, <3>1 DEF Known
    <2>6. clock \in Int /\ Aligned(clock, clock)
        BY Shapes, AlignedRules
    <2>7. \A e, f \in Known' : Aligned(e.since, f.since)
        BY <2>5, <2>6
    <2> QED BY <2>7 DEF OneGrid, Aligned
<1> QED BY <1>1, <1>5, <1>6, CallStepsAlone

LEMMA AppendOneHolds ==
    ASSUME Timely, SaltInv, ScheduleInv, NEW n \in Nodes, AppendOne(n)
    PROVE  ScheduleInv'
<1> DEFINE old == call[n]
<1>1. /\ CallHolds(old) /\ old.at \in {"anchor", "mint"} /\ IsCall(old)
      /\ InTime(n, old) /\ UNCHANGED <<setting, clock, advertised>>
    BY Shapes DEF ScheduleInv, AppendOne, SaltInv, CallsInTime, Waiting
<1>2. PICK e \in old.todo : repo' = Upsert(repo, e) /\ call' = [call EXCEPT ![n] = AfterAppend(old, e)]
    BY DEF AppendOne
<1> DEFINE c == AfterAppend(old, e)
<1>3. /\ repo \subseteq repo' /\ repo' \subseteq repo \cup {e}
      /\ \E x \in repo' : x.since = e.since
    BY <1>2 DEF Upsert
<1>4. RepoKeeps /\ repo' # {}
    BY <1>3 DEF RepoKeeps
<1>5. /\ e \in Known /\ repo \subseteq Known
      /\ old.list \subseteq Known /\ old.todo \subseteq Known
    BY DEF Known
<1>6. \/ c = Idle
      \/ /\ c.list = old.list /\ c.todo = old.todo \ {e}
         /\ c.at \in {"anchor", "mint"} => c.at = old.at
         /\ c.at = "relist" => old.at = "mint" /\ c.todo = {}
         /\ c.at = "relistAnchor" => old.at = "anchor" /\ c.todo = {}
         /\ c.at \in {"anchor", "mint", "relist", "relistAnchor"}
         /\ c.now = old.now /\ c.began = old.began /\ c.ahead = old.ahead
         /\ c.due = old.due /\ c.salt = old.salt /\ c.reached = old.reached
    <2>1. CASE old.todo # {e}
        BY <1>1, <2>1 DEF AfterAppend, IsCall, Idle
    <2>2. CASE old.todo = {e} /\ old.kind = "seed"
        BY <2>2 DEF AfterAppend
    <2>3. CASE old.todo = {e} /\ old.kind # "seed"
        BY <1>1, <2>3 DEF AfterAppend, IsCall, Idle
    <2> QED BY <2>1, <2>2, <2>3
<1>7. call' = [call EXCEPT ![n] = c]
    BY <1>2
<1> HIDE DEF c
<1>8. OneAnchor => OneGrid'
    <2>1. c.list \subseteq Known /\ c.todo \subseteq Known
        BY <1>5, <1>6 DEF Idle
    <2>2. repo' \subseteq Known
        BY <1>3, <1>5
    <2> QED BY <1>7, <2>1, <2>2, GridStays DEF ScheduleInv, GridHolds
<1>9. AdvertisedAreStored'
    BY <1>1, <1>4, AdvertisedStay DEF ScheduleInv
<1>10. CASE c = Idle
    <2>1. call'[n] = Idle
        BY <1>7, <1>10, Shapes
    <2>2. CallHolds(call[n])'
        BY <2>1 DEF CallHolds, Idle
    <2> QED BY <1>1, <1>4, <1>7, <1>8, <1>9, <2>2, CallSteps
<1>11. CASE c # Idle
    <2>1. call'[n] = c
        BY <1>7, Shapes
    <2>2. c.at = "anchor" => c.list = {} /\ \A x \in c.todo : x.since = c.now
        BY <1>1, <1>6, <1>11 DEF CallHolds
    <2>3. c.at \in {"mint", "relist"} => Scheduled(repo' \cup c.todo, c)
        <3> SUFFICES ASSUME c.at \in {"mint", "relist"}
                     PROVE  Scheduled(repo' \cup c.todo, c)
            OBVIOUS
        <3>1. Scheduled(repo \cup old.todo, old)
            BY <1>1, <1>6, <1>11 DEF CallHolds
        <3>2. c.todo = old.todo \ {e}
            BY <1>6, <1>11
        <3>3. \A x \in repo \cup old.todo : \E f \in repo' \cup c.todo : f.since = x.since
            BY <1>3, <3>2
        <3>4. Scheduled(repo' \cup c.todo, old)
            BY <1>1, <3>1, <3>3, ScheduledStays
        <3> QED BY <1>6, <1>11, <3>4 DEF Scheduled
    <2>4. c.due => \E x \in repo' : Fits(x, c)
        <3>1. old.due => \E x \in repo : Fits(x, old)
            BY <1>1 DEF CallHolds
        <3> QED BY <1>3, <1>6, <1>11, <3>1 DEF Fits
    <2>5. /\ c.at = "relistAnchor" => c.list = {}
          /\ c.at \notin {"anchor", "mint"} => c.todo = {}
        BY <1>1, <1>6, <1>11 DEF CallHolds
    <2>6. c.at \notin {"idle", "list", "prune"}
        BY <1>6, <1>11
    <2>7. CallHolds(call[n])'
        BY <1>4, <2>1, <2>2, <2>3, <2>4, <2>5, <2>6
        DEF CallHolds, Fits, Covers, Until, Scheduled, Windows
    <2> QED BY <1>1, <1>4, <1>7, <1>8, <1>9, <2>7, CallSteps
<1> QED BY <1>10, <1>11

LEMMA RelistHolds ==
    ASSUME Timely, SaltInv, ScheduleInv, NEW n \in Nodes, Relist(n)
    PROVE  ScheduleInv'
<1> DEFINE old == call[n]
           c == [old EXCEPT !.list = repo, !.at = "prune"]
<1>1. /\ CallHolds(old) /\ old.at = "relist" /\ IsCall(old)
      /\ call' = [call EXCEPT ![n] = c] /\ UNCHANGED <<setting, clock, repo, advertised>>
    BY Shapes DEF ScheduleInv, Relist
<1>2. /\ c.list = repo /\ c.todo = old.todo /\ c.at = "prune" /\ c.now = old.now /\ c.ahead = old.ahead
      /\ c.due = old.due /\ c.salt = old.salt /\ c.reached = old.reached
    BY <1>1 DEF IsCall, Idle
<1>3. old.todo = {} /\ repo # {} /\ (old.due => \E e \in repo : Fits(e, old))
    BY <1>1 DEF CallHolds
<1> HIDE DEF c
<1>4. Scheduled(repo, c)
    <2>1. repo \cup old.todo = repo
        BY <1>3
    <2>2. Scheduled(repo, old)
        BY <1>1, <2>1 DEF CallHolds
    <2> QED BY <1>2, <2>2 DEF Scheduled
<1>5. c.due => \E e \in repo : Fits(e, c)
    BY <1>2, <1>3 DEF Fits
<1>6. CallHolds(c)
    BY <1>2, <1>3, <1>4, <1>5 DEF CallHolds
<1>7. OneGrid => OneGrid'
    BY <1>1, <1>2, <1>3, GridStays DEF Known
<1> QED BY <1>1, <1>6, <1>7, CallStepsAlone DEF ScheduleInv, GridHolds

LEMMA NewestCovering ==
    ASSUME NEW t \in Nat, NEW list, \A e \in list : IsEntry(e), NEW f \in list, Covers(f, t)
    PROVE  LET e == Current(list, t)
           IN e \in list /\ Covers(e, t) /\ f.since <= e.since
<1> DEFINE covering == {e \in list : Covers(e, t)}
           T == {t - e.since : e \in covering}
<1>1. \A e \in covering : e.since \in Nat /\ e.since <= t
    BY DEF IsEntry, Covers
<1>2. T \subseteq Nat /\ T # {}
    BY <1>1
<1>3. PICK x \in T : \A y \in T : x <= y
    <2> HIDE DEF T
    <2> QED BY <1>2, NatMin
<1>4. PICK e \in covering : x = t - e.since
    BY <1>3
<1>5. ASSUME NEW g \in covering PROVE e.since >= g.since
    <2>1. t - e.since <= t - g.since
        BY <1>3, <1>4
    <2>2. e.since \in Nat /\ g.since \in Nat
        BY <1>1, <1>4
    <2> QED BY ONLY t \in Nat, <2>1, <2>2
<1>6. \E a \in covering : \A g \in covering : a.since >= g.since
    BY <1>4, <1>5
<1>7. Last(covering) \in covering /\ \A g \in covering : Last(covering).since >= g.since
    BY <1>6, Zenon DEF Last
<1>8. f \in covering /\ Current(list, t) = Last(covering)
    BY DEF Current
<1>9. Last(covering).since >= f.since
    BY <1>7, <1>8
<1> HIDE DEF covering
<1>10. Last(covering) \in list /\ Covers(Last(covering), t)
    BY <1>7 DEF covering
<1> QED BY <1>1, <1>7, <1>8, <1>9, <1>10

\* What is advertised is the salt of a window the call has found current, in the schedule.
LEMMA AdsAreStored ==
    ASSUME Timely, SaltInv, ScheduleInv, NEW n \in Nodes, call[n].at = "prune", NEW a \in Ads(call[n])
    PROVE  \E f \in repo :
               /\ f.since \in Nat /\ Kept(f) /\ f.salt = a.salt
               /\ f.since <= a.at + setting.skew /\ a.at < f.since + Step /\ a.at \in Nat
<1> DEFINE c == call[n]
           f == Current(c.list, c.now)
<1>1. CallHolds(c) /\ IsCall(c) /\ InTime(n, c)
    BY Shapes DEF ScheduleInv, SaltInv, CallsInTime, Waiting
<1>2. /\ c.now \in Nat /\ c.began \in Nat /\ \A e \in c.list : IsEntry(e)
      /\ skew[n] \in Nat /\ skew[n] <= setting.skew /\ setting.skew \in Nat
      /\ Window \in Nat /\ Step \in Nat /\ Step <= Window
    BY <1>1, Shapes DEF IsCall
<1>3. c.kind = "resolve" /\ c.reached /\ a.salt = f.salt /\ a.at = c.began
    BY DEF Ads, Result
<1>4. PICK e \in c.list : e.since \in Nat /\ c.now < e.since + Step /\ e.since <= c.now
    BY <1>1, <1>3, ScheduledHasFirst DEF CallHolds
<1>5. Covers(e, c.now)
    BY <1>2, <1>4 DEF Covers, Until
<1>6. f \in c.list /\ Covers(f, c.now) /\ e.since <= f.since
    BY <1>2, <1>5, NewestCovering
<1> HIDE DEF f
<1>7. f.since \in Nat /\ f.since <= c.now /\ c.now < f.since + Window /\ c.now < f.since + Step
    BY <1>2, <1>4, <1>6 DEF IsEntry, Covers, Until
<1>8. Kept(f) /\ f \in repo
    BY <1>1, <1>2, <1>6, <1>7, LateEnough DEF CallHolds
<1>9. c.began <= c.now /\ c.now = c.began + skew[n]
    BY <1>1, <1>3 DEF InTime
<1>10. f.since <= c.began + setting.skew /\ c.began < f.since + Step
    BY <1>2, <1>7, <1>9
<1> QED BY <1>2, <1>3, <1>7, <1>8, <1>10

LEMMA PruneHolds ==
    ASSUME Timely, SaltInv, ScheduleInv, NEW n \in Nodes, PruneAndReturn(n)
    PROVE  ScheduleInv'
<1> DEFINE c == call[n]
<1>1. /\ CallHolds(c) /\ c.at = "prune" /\ IsCall(c) /\ InTime(n, c)
      /\ call' = [call EXCEPT ![n] = Idle] /\ UNCHANGED <<setting, clock>>
    BY Shapes DEF ScheduleInv, PruneAndReturn, SaltInv, CallsInTime, Waiting
<1>2. Scheduled(c.list, c) /\ \A e \in c.list : Kept(e) => e \in repo
    BY <1>1 DEF CallHolds
<1>3. repo' \subseteq repo /\ \A e \in repo : Kept(e) => e \in repo'
    <2>1. ASSUME NEW e \in repo, Kept(e) PROVE e \notin Pruned(c.now)
        <3>1. /\ e.since \in Nat /\ clock \in Nat /\ Window \in Nat /\ c.now \in Nat
              /\ skew[n] \in Nat /\ skew[n] <= setting.skew /\ setting.skew \in Nat
            BY <1>1, Shapes DEF Known, IsCall
        <3>2. c.now <= clock + setting.skew
            BY <1>1, <3>1 DEF InTime, Now
        <3> QED BY <2>1, <3>1, <3>2 DEF Kept, Pruned, Until
    <2> QED BY <2>1 DEF PruneAndReturn
<1>4. PICK e \in c.list : Kept(e)
    BY <1>1, <1>2, ScheduledHasFirst
<1>5. RepoKeeps
    BY <1>2, <1>3, <1>4 DEF RepoKeeps
<1>6. OneGrid => OneGrid'
    <2>1. Idle.list = {} /\ Idle.todo = {}
        BY DEF Idle
    <2> QED BY <1>1, <1>3, <2>1, IdleAligned
<1>7. CallHolds(call[n])'
    <2>1. call'[n] = Idle
        BY <1>1, Shapes
    <2> QED BY <2>1 DEF CallHolds, Idle
<1>8. ASSUME NEW a \in advertised'
      PROVE  \E s \in Nat :
                /\ s <= a.at + setting.skew /\ a.at < s + Step /\ a.at \in Nat
                /\ clock + setting.skew < s + 2 * Window => \E x \in repo' : x.since = s /\ x.salt = a.salt
    <2>1. CASE a \in Ads(c)
        <3>1. PICK f \in repo :
                /\ f.since \in Nat /\ Kept(f) /\ f.salt = a.salt
                /\ f.since <= a.at + setting.skew /\ a.at < f.since + Step /\ a.at \in Nat
            BY <1>1, <2>1, AdsAreStored
        <3> QED BY <1>3, <3>1
    <2>2. CASE a \in advertised
        <3>1. PICK s \in Nat :
                /\ s <= a.at + setting.skew /\ a.at < s + Step /\ a.at \in Nat
                /\ clock + setting.skew < s + 2 * Window => \E x \in repo : x.since = s /\ x.salt = a.salt
            BY <2>2 DEF ScheduleInv, AdvertisedAreStored
        <3>2. ASSUME clock + setting.skew < s + 2 * Window
              PROVE  \E x \in repo' : x.since = s /\ x.salt = a.salt
            <4>1. PICK x \in repo : x.since = s /\ x.salt = a.salt
                BY <3>1, <3>2
            <4>2. Kept(x)
                BY <3>2, <4>1, Shapes DEF Kept, Until
            <4> QED BY <1>3, <4>1, <4>2
        <3> QED BY <3>1, <3>2
    <2> QED BY <2>1, <2>2 DEF PruneAndReturn
<1>9. AdvertisedAreStored'
    BY <1>1, <1>8 DEF AdvertisedAreStored
<1> QED BY <1>1, <1>5, <1>6, <1>7, <1>9, CallSteps DEF ScheduleInv, GridHolds

\* Time passes: what is to be kept then is to be kept now.
LEMMA TickHolds ==
    ASSUME SaltInv, ScheduleInv, Tick
    PROVE  ScheduleInv'
<1>1. /\ clock' = clock + 1 /\ UNCHANGED <<setting, repo, call>> /\ advertised' \subseteq advertised
      /\ clock \in Nat /\ setting.skew \in Nat /\ Window \in Nat
    BY Shapes DEF Tick
<1>2. ASSUME NEW n \in Nodes PROVE CallHolds(call[n])'
    <2> DEFINE c == call[n]
    <2>1. CallHolds(c) /\ IsCall(c)
        BY Shapes DEF ScheduleInv
    <2>2. ASSUME NEW e \in c.list, Kept(e)' PROVE Kept(e)
        <3>1. Until(e) \in Nat
            BY <1>1, <2>1 DEF IsCall, IsEntry, Until
        <3> QED BY <1>1, <2>2, <3>1 DEF Kept, Until
    <2>3. call'[n] = c
        BY <1>1
    <2>4. /\ c.at = "prune" => Scheduled(c.list, c) /\ \A e \in c.list : Kept(e)' => e \in repo'
          /\ c.at \in {"mint", "relist", "prune"} => repo' # {}
          /\ c.at \in {"mint", "relist"} => Scheduled(repo' \cup c.todo, c)
          /\ c.at # "idle" /\ c.due => \E e \in repo' : Fits(e, c)
          /\ c.at = "prune" /\ c.due => \E e \in c.list : Fits(e, c)
        BY <1>1, <2>1, <2>2 DEF CallHolds
    <2>5. /\ c.at \notin {"anchor", "mint"} => c.todo = {}
          /\ c.at \in {"idle", "list", "anchor", "relistAnchor"} => c.list = {}
          /\ c.at = "anchor" => \A e \in c.todo : e.since = c.now
        BY <2>1 DEF CallHolds
    <2> HIDE DEF c
    <2> QED BY <2>3, <2>4, <2>5 DEF CallHolds, Scheduled, Windows, Fits, Covers, Until
<1>3. GridHolds'
    BY <1>1 DEF ScheduleInv, GridHolds, OneAnchor, OneGrid, Known, Aligned
<1>4. ASSUME NEW a \in advertised'
      PROVE  \E s \in Nat :
                /\ s <= a.at + setting.skew /\ a.at < s + Step /\ a.at \in Nat
                /\ clock' + setting.skew < s + 2 * Window => \E x \in repo' : x.since = s /\ x.salt = a.salt
    <2>1. PICK s \in Nat :
            /\ s <= a.at + setting.skew /\ a.at < s + Step /\ a.at \in Nat
            /\ clock + setting.skew < s + 2 * Window => \E x \in repo : x.since = s /\ x.salt = a.salt
        BY <1>1, <1>4 DEF ScheduleInv, AdvertisedAreStored
    <2>2. clock' + setting.skew < s + 2 * Window => clock + setting.skew < s + 2 * Window
        BY <1>1, <2>1
    <2> QED BY <1>1, <2>1, <2>2
<1>5. AdvertisedAreStored'
    BY <1>1, <1>4 DEF AdvertisedAreStored
<1> QED BY <1>2, <1>3, <1>5 DEF ScheduleInv

LEMMA NextHolds ==
    ASSUME Timely, SaltInv, ScheduleInv, Next
    PROVE  ScheduleInv'
<1>1. ASSUME NEW n \in Nodes, BeginResolve(n) \/ BeginFuture(n) \/ BeginSeed(n) PROVE ScheduleInv'
    BY <1>1, BeginHolds DEF BeginResolve, BeginFuture, BeginSeed
<1>2. ASSUME NEW n \in Nodes, ListFound(n) PROVE ScheduleInv'
    <2>1. CASE call[n].kind = "seed"
        BY <1>2, <2>1, EndHolds DEF ListFound
    <2>2. CASE call[n].kind # "seed"
        BY <1>2, <2>2, MintHolds DEF ListFound
    <2> QED BY <2>1, <2>2
<1>3. ASSUME NEW n \in Nodes, RelistAnchor(n) PROVE ScheduleInv'
    BY <1>3, MintHolds DEF RelistAnchor
<1>4. ASSUME NEW n \in Nodes, StorageFails(n) PROVE ScheduleInv'
    BY <1>4, EndHolds DEF StorageFails
<1>5. ASSUME NEW n \in Nodes, ListEmpty(n) \/ AppendOne(n) \/ Relist(n) \/ PruneAndReturn(n)
      PROVE  ScheduleInv'
    BY <1>5, ListEmptyHolds, AppendOneHolds, RelistHolds, PruneHolds
<1> QED BY <1>1, <1>2, <1>3, <1>4, <1>5, TickHolds DEF Next

LEMMA ScheduleInvariant ==
    ASSUME Timely
    PROVE  Spec => [](SaltInv /\ ScheduleInv)
<1>1. ASSUME SaltInv, ScheduleInv, Next PROVE ScheduleInv'
    BY <1>1, NextHolds
<1>2. ASSUME ScheduleInv, UNCHANGED vars PROVE ScheduleInv'
    <2>1. UNCHANGED <<setting, clock, repo, advertised, call>>
        BY <1>2 DEF vars
    <2>2. AdvertisedAreStored' = AdvertisedAreStored
        BY <2>1 DEF AdvertisedAreStored
    <2>3. GridHolds' = GridHolds
        BY <2>1 DEF GridHolds, OneAnchor, OneGrid, Known
    <2>4. \A n \in Nodes : CallHolds(call[n])' = CallHolds(call[n])
        BY <2>1 DEF CallHolds, Scheduled, Kept, Fits
    <2> QED BY <1>2, <2>1, <2>2, <2>3, <2>4 DEF ScheduleInv
<1>3. SaltInv /\ ScheduleInv /\ [Next]_vars => ScheduleInv'
    BY <1>1, <1>2
<1> QED BY SaltInvariant, InitSchedule, <1>3, PTL DEF Spec

(***************************************************************************)
(* While what clocks differ by and what a call takes add up to no more     *)
(* than a window (half an hour), a client that uses a salt some node       *)
(* advertised within windowSec - stepSec is not told that it is bad, on    *)
(* whatever node (salts.ts resolve, ensure, prune).                        *)
(***************************************************************************)
THEOREM AdvertisedSaltsAreAccepted ==
    ASSUME Timely
    PROVE  Spec => []AdvertisedSaltAccepted
<1>1. SaltInv /\ ScheduleInv => AdvertisedSaltAccepted
    <2> SUFFICES ASSUME SaltInv, ScheduleInv, NEW n \in Nodes,
                        Returns(n, "resolve"), call[n].due
                 PROVE  Valid(call[n])
        BY DEF AdvertisedSaltAccepted
    <2>1. CallHolds(call[n]) /\ call[n].at = "prune"
        BY DEF ScheduleInv, Returns
    <2>2. \E e \in call[n].list : Fits(e, call[n])
        BY <2>1 DEF CallHolds
    <2> QED BY <2>2 DEF Valid, Fits
<1> QED BY ScheduleInvariant, <1>1, PTL

(***************************************************************************)
(* Under the same condition get_future_salts(num) returns num consecutive  *)
(* windows, the first of them covering now, where the schedule has one     *)
(* first window and the clock of the node has reached it, even if another  *)
(* node prunes the oldest ones meanwhile (salts.ts future, grid).          *)
(***************************************************************************)
THEOREM FutureSaltsAreComplete ==
    ASSUME Timely
    PROVE  Spec => []FutureComplete
<1>1. SaltInv /\ ScheduleInv => FutureComplete
    <2> SUFFICES ASSUME SaltInv, ScheduleInv, NEW n \in Nodes, OneAnchor, Returns(n, "future"),
                        call[n].reached
                 PROVE  AnswerComplete(call[n])
        BY DEF FutureComplete
    <2> DEFINE c == call[n]
               starts == {e.since : e \in Result(c)}
    <2>1. /\ CallHolds(c) /\ c.at = "prune" /\ c.kind = "future" /\ c.reached /\ OneGrid
          /\ IsCall(c) /\ c.ahead \in Nat /\ c.now \in Nat
        BY Shapes DEF ScheduleInv, GridHolds, Returns, IsCall
    <2>2. PICK first \in Nat :
              /\ c.now < first + Step /\ first <= c.now
              /\ \A s \in Windows(first, c.ahead) : \E e \in c.list : e.since = s
        BY <2>1 DEF CallHolds, Scheduled
    <2>3. PICK f \in c.list : f.since = first
        BY <2>1, <2>2, FirstIsWindow
    <2>4. /\ \A e \in c.list : IsEntry(e)
          /\ \A e, g \in c.list : Aligned(e.since, g.since)
          /\ \E e \in c.list : e.since <= c.now
        BY <2>1, <2>2, <2>3 DEF IsCall, OneGrid, Known
    <2>5. PICK start \in Nat :
              /\ c.now < start + Step /\ start <= c.now
              /\ Aligned(start, Anchor(c.list).since)
              /\ Wanted(c.list, c.now, c.ahead) = Windows(start, c.ahead)
        <3>1. /\ c.list # {} /\ c.now \in Nat /\ c.ahead \in Nat
              /\ \A e \in c.list : IsEntry(e)
              /\ \E e \in c.list : e.since <= c.now
            BY <2>1, <2>3, <2>4
        <3> HIDE DEF c
        <3> QED BY <3>1, WantedAreWindows
    <2>6. Aligned(start, first)
        <3>1. Anchor(c.list) \in c.list /\ Anchor(c.list).since \in Nat
            BY <2>3, <2>4, AnchorIsEntry
        <3>2. Aligned(Anchor(c.list).since, first)
            BY <2>3, <2>4, <3>1
        <3> QED BY <2>5, <3>1, <3>2, AlignedRules
    <2>7. start = first
        <3>1. IsCurrent(start, c.now) /\ IsCurrent(first, c.now)
            BY <2>2, <2>5 DEF IsCurrent
        <3>2. start \in Int /\ first \in Int /\ c.now \in Int
            BY <2>1
        <3> HIDE DEF c
        <3> QED BY <2>6, <3>1, <3>2, OneCurrent
    <2>8. Result(c) = {e \in c.list : e.since \in Windows(first, c.ahead)}
        BY <2>1, <2>5, <2>7 DEF Result, Upcoming
    <2>9. starts = Windows(first, c.ahead)
        BY <2>2, <2>8
    <2>10. first \in starts
        BY <2>1, <2>9, FirstIsWindow
    <2> HIDE DEF starts, c
    <2>11. \E x \in starts :
               /\ x <= c.now /\ c.now < x + Step
               /\ starts = {x + i * Step : i \in 0..c.ahead}
        BY <2>2, <2>9, <2>10 DEF Windows
    <2> QED BY <2>11 DEF starts, c, AnswerComplete
<1> QED BY ScheduleInvariant, <1>1, PTL

=============================================================================
