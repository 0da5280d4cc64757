--------------------------- MODULE MCClientSession ---------------------------
(***************************************************************************)
(* ClientSession for TLC: one waiter that takes any update, one that takes *)
(* only the first.                                                         *)
(***************************************************************************)
EXTENDS ClientSession

CONSTANTS any, one, u1, u2

MCMatches == [x \in {any, one} |-> IF x = any THEN {u1, u2} ELSE {u1}]
=============================================================================
