------------------------------ MODULE Rendering ------------------------------
(***************************************************************************)
(* What a client of some TL layer is sent (tl/src/migrate.ts, layered-     *)
(* registry.ts, updates/render.ts): a value in canonical shape is brought  *)
(* down the migration ladder of its predicate to the client's layer; an    *)
(* update the layer's schema cannot represent is replaced or dropped.      *)
(*                                                                         *)
(* The schemas are snapshots at some layers; a client at a layer between   *)
(* two has the lower.  One predicate has changed its shape: its ladder has *)
(* a rung for each shape, and shapes are numbered as the rungs.            *)
(***************************************************************************)
EXTENDS Integers, Sequences, FiniteSets, SequencesExt

CONSTANTS
    Snapshots,  \* the layers there is a schema of
    Rungs,      \* the layer each shape of the ladder is there since, ascending
    Keyed       \* the layers whose schema has updateUnsupported

ASSUME RenderingAssumption ==
    /\ Snapshots \subseteq Nat /\ IsFiniteSet(Snapshots) /\ Snapshots # {}
    /\ Rungs \in Seq(Snapshots) /\ Rungs # <<>>
    /\ \A i, j \in DOMAIN Rungs : i < j => Rungs[i] < Rungs[j]
    /\ \A s \in Snapshots : Rungs[1] <= s
    /\ Keyed \subseteq Snapshots

Newest == Len(Rungs)

\* resolveLayer(): the newest snapshot not after the layer, else the oldest.
ResolveLayer(layer) ==
    LET upTo == {s \in Snapshots : s <= layer}
    IN IF upTo # {} THEN CHOOSE s \in upTo : \A t \in upTo : t <= s
                    ELSE CHOOSE s \in Snapshots : \A t \in Snapshots : s <= t

\* startRung(): the last rung there is since the layer, else the first.
StartRung_Strict(layer) ==
    LET since == {i \in DOMAIN Rungs : Rungs[i] < layer}
    IN IF since # {} THEN CHOOSE i \in since : \A j \in since : j <= i ELSE 1

StartRung(layer) ==
    LET since == {i \in DOMAIN Rungs : Rungs[i] <= layer}
    IN IF since # {} THEN CHOOSE i \in since : \A j \in since : j <= i ELSE 1

\* upObject(), downObject(): one step of the ladder for each rung between the
\* client's and the newest.
Steps(layer) == Newest - StartRung(layer)
Up(shape, layer) == shape + Steps(layer)
Down(shape, layer) == shape - Steps(layer)

-----------------------------------------------------------------------------
(***************************************************************************)
(* A single update: at is the snapshots that have all types of its tree,   *)
(* pts its pts, or 0.  shape is that of the changed predicate in it,       *)
(* or 0.  An update is one of those, or in a container: updateShort        *)
(* has one, updates and updatesCombined a list of them, and users and      *)
(* chats, all types of which the snapshots in rest have.                   *)
(***************************************************************************)
Leaf(shapes) == [is : {"update", "updateUnsupported"}, at : SUBSET Snapshots, pts : Nat, shape : shapes]
Value(shapes) == [is : {"update", "updateShort", "updates"}, rest : SUBSET Snapshots, updates : Seq(Leaf(shapes))]

RepresentableLeaf(u, layer) == ResolveLayer(layer) \in u.at

Representable(v, layer) ==
    /\ ResolveLayer(layer) \in v.rest
    /\ \A i \in DOMAIN v.updates : RepresentableLeaf(v.updates[i], layer)

\* down() of the whole tree.
LoweredLeaf(u, layer) == IF u.shape = 0 THEN u ELSE [u EXCEPT !.shape = Down(@, layer)]
Lowered(v, layer) ==
    [v EXCEPT !.updates = [i \in DOMAIN v.updates |-> LoweredLeaf(v.updates[i], layer)]]

Unsupported(u) == [u EXCEPT !.is = "updateUnsupported", !.at = Keyed, !.shape = 0]

\* renderLeaf(): a sequence of the update to send, or none.
RenderLeaf_PtsDropped(u, layer) == IF RepresentableLeaf(u, layer) THEN <<u>> ELSE <<>>

RenderLeaf(u, layer) ==
    IF RepresentableLeaf(u, layer) THEN <<u>>
    ELSE IF u.pts # 0 THEN <<Unsupported(u)>> ELSE <<>>

\* renderUpdateForLayer(): the value to send, or none.
Rendered(v, layer) ==
    LET leaves == FlattenSeq([i \in DOMAIN v.updates |-> RenderLeaf(v.updates[i], layer)])
    IN IF Representable(v, layer) THEN {v}
       ELSE IF v.is # "updates" /\ leaves = <<>> THEN {}
       ELSE {[v EXCEPT !.updates = leaves]}
=============================================================================
