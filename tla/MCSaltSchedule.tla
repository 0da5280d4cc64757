--------------------------- MODULE MCSaltSchedule ---------------------------
(***************************************************************************)
(* SaltSchedule with windows of 4 seconds every 2 (30 minutes every 15 in  *)
(* the code).  The deployments: Quick has calls that end within a second,  *)
(* clocks that agree and no schedule at first; in Raced calls of different *)
(* seconds find none, and append two first windows; Skewed has clocks that *)
(* differ; in Slow a call lasts while others begin and end.  The last two  *)
(* begin with a key used for the first time since its handshake, and run   *)
(* until its first window is pruned.  get_future_salts asks for more       *)
(* windows than resolve() mints ahead, or for the current one.             *)
(***************************************************************************)
EXTENDS SaltSchedule, TLC

Quick == [seeded |-> FALSE, skew |-> 0, latency |-> 0, nums |-> {3}, start |-> 0, maxClock |-> 4]
Raced == [seeded |-> FALSE, skew |-> 0, latency |-> 1, nums |-> {}, start |-> 0, maxClock |-> 3]
Skewed == [seeded |-> TRUE, skew |-> 1, latency |-> 1, nums |-> {1}, start |-> 5, maxClock |-> 8]
Slow == [seeded |-> TRUE, skew |-> 0, latency |-> 2, nums |-> {3}, start |-> 6, maxClock |-> 8]

MCSettings == {Quick, Raced, Skewed, Slow}

NodeSymmetry == Permutations(Nodes)
=============================================================================
