-------------------------- MODULE MCUpdateDelivery --------------------------
(***************************************************************************)
(* UpdateDelivery for TLC: connections of one node, whose process runs a   *)
(* router, or two nodes with a router each.  A heartbeat comes every       *)
(* second and an entry lasts three, the ratio of the code.                 *)
(***************************************************************************)
EXTENDS UpdateDelivery, TLC

CONSTANTS n1, n2, c1, c2

ConnSymmetry == Permutations(Conns)
SameNode == [c \in Conns |-> n1]

SentEverywhere == {[c \in Conns |-> "sent"]}

\* The update renders on the second connection, and in any way on the first.
SentToSecond == {r \in [Conns -> Outcome] : r[c2] = "sent"}
=============================================================================
