------------------------------ MODULE SchemaWire ------------------------------
(***************************************************************************)
(* What is said with the definitions of SchemaHistory: values that clients *)
(* and the studio encode and the server decodes, and the reverse.          *)
(***************************************************************************)
EXTENDS SchemaHistory, Codec

\* A mask comes before what it is the mask of, and is not conditional itself.
MasksFirst(params) ==
    \A i \in DOMAIN params :
        params[i].type.kind = "flag" =>
            /\ params[i].type.bit \in 0..31
            /\ \E j \in 1..(i - 1) : /\ params[j].name = params[i].type.field
                                     /\ params[j].type.kind # "flag"

ASSUME WireAssumption ==
    /\ Within(Lines \cup Protocol) \subseteq Types
    /\ \A l \in Lines \cup Protocol :
        /\ Unsigned(l.id, 4) /\ l.id \notin {BoolTrueId, BoolFalseId, VectorId}
        /\ l.params \in Seq(ToSet(l.params))
        /\ \A i, j \in DOMAIN l.params : l.params[i].name = l.params[j].name => i = j
        /\ MasksFirst(l.params)

-----------------------------------------------------------------------------
\* Read to its last byte, as what was meant.
Understood(reg, bytes, meant) ==
    LET got == Decode(reg, bytes)
    IN got.pos = Len(bytes) + 1 /\ got.v = meant

\* Whatever edits that keep what is used bare (BareKept, which no tool enforces:
\* codec.ts:109 reads a bare type with the newest line of its name) have made of the
\* schema, the server reads what a client of any layer sends, and what a studio built
\* at any time sends, as they meant it (gateway.ts:79-81;
\* docs/internals/architecture.md:132).
RequestsUnderstood ==
    \A speaker \in {Client(layer) : layer \in DOMAIN frozen} \cup {Studio} : \A v \in Values :
        LET names == speaker.byName
        IN Fits(names, v) => Understood(Server, Encode(names, v), Seen(names, v))

\* What a client of a layer knows: the layer's definitions, and the protocol's.
KnownAt(shipped) ==
    LET own == frozen[shipped]
    IN [n \in Named(own) \cup Named(Protocol) |->
            IF n \in Named(own) THEN Line(own, n) ELSE Line(Protocol, n)]

\* What the server writes for a layer, of what the layer has, is read by a client of
\* the layer as its own definitions have it, and so, after edits that keep what is used
\* bare (BareKept), by a studio that knows the layer (codec.ts:13-15, spec.ts:378-386).
AnswersUnderstood ==
    \A shipped \in DOMAIN frozen : \A layer \in UnchangedFrom(shipped) : \A v \in Values :
        Fits(KnownAt(shipped), v) =>
            LET bytes == Encode(DefsForWrite(layer), v)
                meant == Seen(KnownAt(shipped), v)
            IN /\ Understood(Client(shipped), bytes, meant)
               /\ shipped \in DOMAIN built => Understood(Studio, bytes, meant)
=============================================================================
