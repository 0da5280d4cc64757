--------------------------- MODULE MessageLifecycle -------------------------
(***************************************************************************)
(* What a connection promises about each msg_id, whatever window, clock    *)
(* and sequence numbers decide: a fresh id may be taken, once, and is then *)
(* handed to the dispatcher at most once: at once, or after it was kept in *)
(* hand, where it may be lost.  A taken id, and a fresh one that was       *)
(* overtaken, may be retired; nothing ever becomes fresh again and a       *)
(* retired id is never taken.                                              *)
(***************************************************************************)
EXTENDS Naturals

CONSTANTS Ids, None

VARIABLES
    status,   \* where each msg_id is in its life
    inHand,   \* the id that was taken and not handed over yet, or None
    runs      \* how often each was handed to the dispatcher

vars == <<status, inHand, runs>>

(***************************************************************************)
(* An id below the lowest a tracker accepts is retired from the start.     *)
(***************************************************************************)
Init ==
    /\ status \in [Ids -> {"fresh", "retired"}]
    /\ inHand = None
    /\ runs = [id \in Ids |-> 0]

HandOver(id) == runs' = [runs EXCEPT ![id] = runs[id] + 1]

Take(id) ==
    /\ inHand = None
    /\ status[id] = "fresh"
    /\ \/ inHand' = id /\ UNCHANGED runs
       \/ HandOver(id) /\ UNCHANGED inHand
    /\ status' \in [Ids -> {"fresh", "taken", "retired"}]
    /\ status'[id] = "taken"
    /\ \A other \in Ids \ {id} : status'[other] \in {status[other], "retired"}

\* What is in hand is handed over, or lost.
LetGo ==
    /\ inHand # None
    /\ inHand' = None
    /\ HandOver(inHand) \/ UNCHANGED runs
    /\ UNCHANGED status

Next == LetGo \/ \E id \in Ids : Take(id)

Spec == Init /\ [][Next]_vars
=============================================================================
