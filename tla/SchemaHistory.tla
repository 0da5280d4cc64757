---------------------------- MODULE SchemaHistory ----------------------------
(***************************************************************************)
(* The life of an app's schema: it is edited, frozen as a layer when that  *)
(* is shipped (freeze-layer.ts), and read back by those who speak it:      *)
(*                                                                         *)
(*  - the server, whose registry is the protocol, the schema and every     *)
(*    layer's snapshot (gateway.ts), and which writes with the snapshot of *)
(*    the client's layer;                                                  *)
(*  - a client of some layer, with the protocol and the schema it was      *)
(*    built from (testing/src/codec.ts);                                   *)
(*  - the studio, with the definitions buildWireDefs() collected from the  *)
(*    snapshots there were when it was built, and the history of every     *)
(*    symbol that buildApiSpec() made of them.                             *)
(*                                                                         *)
(* A definition is a record of its id, name, params and isProtocol; a      *)
(* parameter has a name and a type, and types are those of Codec.  The id  *)
(* is the checksum of the line: it changes with the parameters, and the    *)
(* line that is written again gets its id again.  A name keeps its result  *)
(* type.  SchemaWire has what is written with the definitions.             *)
(***************************************************************************)
EXTENDS Integers, Sequences, FiniteSets, SequencesExt, FiniteSetsExt

CONSTANTS
    Layers,     \* the layers that may be shipped
    Listing,    \* all of them, in the order a directory lists their files
    Protocol,   \* the protocol's definitions
    Wrappers,   \* PROTOCOL_WRAPPERS
    Lines,      \* the definitions the app may have in its schema
    FirstSchema,
    MaxEdits,   \* bound on the edits of the schema
    Nesting     \* bound on the vectors and flags around a type

Named(lines) == {l.name : l \in lines}
NamedOnce(lines) == \A k, l \in lines : k.name = l.name => k = l

\* A type with its outermost vectors and flags taken off, for each number of them.
Peeled(t) ==
    LET peeled[n \in 0..Nesting] ==
            IF n = 0 THEN t
            ELSE LET outer == peeled[n - 1]
                 IN IF outer.kind \in {"vector", "flag"} THEN outer.inner ELSE outer
    IN peeled

\* The types that definitions have in them, and the constructors they have bare.
Within(lines) ==
    UNION {{Peeled(p.type)[n] : n \in 0..Nesting} : p \in UNION {ToSet(l.params) : l \in lines}}

BareOf(lines) == {t.name : t \in {u \in Within(lines) : u.kind = "bare"}}

WellFormed(lines) == BareOf(lines) \subseteq Named(lines)

\* What an app calls bare is its own, and what the protocol does is the protocol's.
ASSUME SchemaAssumption ==
    /\ Layers \subseteq Nat \ {0} /\ Layers # {} /\ IsFiniteSet(Layers)
    /\ MaxEdits \in Nat /\ Nesting \in Nat
    /\ Listing \in Seq(Layers) /\ ToSet(Listing) = Layers /\ Len(Listing) = Cardinality(Layers)
    /\ FirstSchema \subseteq Lines /\ NamedOnce(FirstSchema) /\ WellFormed(FirstSchema)
    /\ NamedOnce(Protocol) /\ WellFormed(Protocol)
    /\ \A k, l \in Lines \cup Protocol : k.id = l.id => k = l
    /\ (\A l \in Lines : ~l.isProtocol) /\ \A l \in Protocol : l.isProtocol
    /\ \A l \in Lines \cup Protocol : \A p \in ToSet(l.params) :
            Peeled(p.type)[Nesting].kind \notin {"vector", "flag"}
    /\ BareOf(Lines) \cap Named(Protocol) = {} /\ BareOf(Protocol) \cap Named(Lines) = {}

VARIABLES
    schema,     \* the definitions in the .tl files the app edits
    edits,      \* how many edits there were
    frozen,     \* the snapshot of each layer shipped
    built       \* the snapshots the studio was built from

historyVars == <<schema, edits, frozen, built>>

-----------------------------------------------------------------------------
HistoryInit ==
    /\ schema = FirstSchema
    /\ edits = 0
    /\ frozen = [layer \in {} |-> {}]
    /\ built = frozen

\* A constructor that is used bare, in the schema or in a snapshot, has one version: it
\* has no id to tell them apart by (codec.ts:109).
BareKept(lines) ==
    LET all == lines \cup UNION {frozen[layer] : layer \in DOMAIN frozen}
    IN \A k, l \in all : k.name = l.name /\ k.name \in BareOf(all) => k = l

Edited(lines) ==
    /\ edits < MaxEdits
    /\ WellFormed(lines) /\ BareKept(lines)
    /\ schema' = lines
    /\ edits' = edits + 1
    /\ UNCHANGED <<frozen, built>>

\* A line is written, in place of the one with its name if there is one.
Write(line) ==
    /\ line \notin schema
    /\ Edited({l \in schema : l.name # line.name} \cup {line})

Drop(line) ==
    /\ line \in schema
    /\ Edited(schema \ {line})

\* freezeLayer(): the app's definitions as they are; layers are shipped in order.
Freeze(layer) ==
    /\ \A l \in DOMAIN frozen : l < layer
    /\ frozen' = [l \in DOMAIN frozen \cup {layer} |-> IF l = layer THEN schema ELSE frozen[l]]
    /\ UNCHANGED <<schema, edits, built>>

\* mt-tl-studio build
Build ==
    /\ frozen # built
    /\ built' = frozen
    /\ UNCHANGED <<schema, edits, frozen>>

HistoryNext ==
    \/ \E line \in Lines : Write(line) \/ Drop(line)
    \/ \E layer \in Layers : Freeze(layer)
    \/ Build

HistorySpec == HistoryInit /\ [][HistoryNext]_historyVars

-----------------------------------------------------------------------------
(***************************************************************************)
(* Who knows which definition.  Definitions come from sources, such as a   *)
(* snapshot, one after the other; a name is in a source once.              *)
(***************************************************************************)
Line(lines, name) == CHOOSE l \in lines : l.name = name
ByName(lines) == [n \in Named(lines) |-> Line(lines, n)]

\* TlRegistry.register(): the first definition of an id and of a name stays.
Registry(sources) ==
    LET all == UNION {sources[i] : i \in DOMAIN sources}
        First(n) == Min({i \in DOMAIN sources : n \in Named(sources[i])})
    IN [byId   |-> [id \in {l.id : l \in all} |-> CHOOSE l \in all : l.id = id],
        byName |-> [n \in Named(all) |-> Line(sources[First(n)], n)]]

SnapshotOf(snapshots, layer) == IF layer \in DOMAIN snapshots THEN snapshots[layer] ELSE {}

\* LayeredRegistry.allDefs(), in the order the snapshots were loaded.
AllDefs_Newest(snapshots) ==
    IF DOMAIN snapshots = {} THEN <<>> ELSE <<snapshots[Max(DOMAIN snapshots)]>>

AllDefs(snapshots) == [i \in DOMAIN Listing |-> SnapshotOf(snapshots, Listing[i])]

Server == Registry(<<Protocol, schema>> \o AllDefs(frozen))

\* resolveLayer()
ResolveLayer(layer) ==
    LET upTo == {l \in DOMAIN frozen : l <= layer}
    IN IF upTo # {} THEN Max(upTo) ELSE Min(DOMAIN frozen)

\* defForWrite(), for each name: the layer's definition, else the registry's.
DefsForWrite_Registry(layer) == Server.byName

DefsForWrite(layer) ==
    LET own == IF DOMAIN frozen = {} THEN {} ELSE frozen[ResolveLayer(layer)]
        rest == Server.byName
    IN [n \in Named(own) \cup DOMAIN rest |-> IF n \in Named(own) THEN Line(own, n) ELSE rest[n]]

\* createCodec() with the schema of the layer.
Client(layer) == Registry(<<Protocol, frozen[layer]>>)

\* buildWireDefs(): the protocol, then the snapshots from the latest on.
WireDefs(snapshots) ==
    LET latest == Max(Layers)
    IN [i \in 0..latest |-> IF i = 0 THEN Protocol ELSE SnapshotOf(snapshots, latest + 1 - i)]

\* BrowserRegistry.register(): the app's definition of a name replaces the protocol's.
BrowserRegistry(sources) ==
    LET all == Registry(sources)
        app == Registry([i \in DOMAIN sources |-> {l \in sources[i] : ~l.isProtocol}]).byName
    IN [byId   |-> all.byId,
        byName |-> [n \in DOMAIN all.byName |-> IF n \in DOMAIN app THEN app[n] ELSE all.byName[n]]]

Studio == BrowserRegistry(WireDefs(built))

\* A layer that was not frozen has what the last before it had.
UnchangedFrom(shipped) ==
    {l \in Layers : l >= shipped /\ \A g \in DOMAIN frozen : g <= shipped \/ g > l}

-----------------------------------------------------------------------------
(***************************************************************************)
(* buildApiSpec(): of each symbol, runs of layers with one shape, and for  *)
(* each parameter the layers it is there since and until.                  *)
(***************************************************************************)
Hidden == Named(Protocol) \ Wrappers
Symbols == UNION {Named(built[l]) : l \in DOMAIN built} \ Hidden

LineAt(name, layer) == {l \in built[layer] : l.name = name}
PresentIn(name) == {l \in DOMAIN built : LineAt(name, l) # {}}

\* foldShapes(); extends says that the run before ended at the layer before.
AddShape_GapsIgnored(name, acc, layer) ==
    IF LineAt(name, layer) = {} THEN acc
    ELSE LET line == Line(built[layer], name)
             last == acc.runs[Len(acc.runs)]
         IN IF acc.runs # <<>> /\ last.id = line.id
            THEN [acc EXCEPT !.runs[Len(acc.runs)].to = layer]
            ELSE [acc EXCEPT !.runs = Append(@, [id |-> line.id, params |-> line.params,
                                                 from |-> layer, to |-> layer])]

AddShape(name, acc, layer) ==
    IF LineAt(name, layer) = {} THEN [acc EXCEPT !.extends = FALSE]
    ELSE LET line == Line(built[layer], name)
             last == acc.runs[Len(acc.runs)]
         IN IF acc.extends /\ last.id = line.id
            THEN [acc EXCEPT !.runs[Len(acc.runs)].to = layer]
            ELSE [extends |-> TRUE,
                  runs |-> Append(acc.runs, [id |-> line.id, params |-> line.params,
                                             from |-> layer, to |-> layer])]

\* The shapes folded up to a layer.
Folded(name, last) ==
    LET fold[l \in 0..last] ==
            IF l = 0 THEN [extends |-> FALSE, runs |-> <<>>]
            ELSE IF l \in DOMAIN built THEN AddShape(name, fold[l - 1], l)
            ELSE fold[l - 1]
    IN fold[last]

Runs(name) == Folded(name, Max(DOMAIN built)).runs

LastLayer(name) == Max(PresentIn(name))
Removed(name) == LastLayer(name) < Max(DOMAIN built)
RemovedIn(name) == Min({l \in DOMAIN built : l > LastLayer(name)})

ParamIn(name, param) ==
    {l \in PresentIn(name) : param \in {p.name : p \in ToSet(Line(built[l], name).params)}}
Since(name, param) == Min(ParamIn(name, param))
ParamRemoved(name, param) == Max(ParamIn(name, param)) < LastLayer(name)

\* shapeAt() of the studio: the ids of the runs that cover the layer.
ShapeAt(name, layer) ==
    {r \in ToSet(Runs(name)) : r.from <= layer /\ layer <= r.to}

\* computeRangeDiff(), and computeLayerDiff() of two layers that follow each other.
Diff(from, to) ==
    [added   |-> {n \in Symbols : ShapeAt(n, to) # {} /\ ShapeAt(n, from) = {}},
     removed |-> {n \in Symbols : ShapeAt(n, to) = {} /\ ShapeAt(n, from) # {}},
     changed |-> {n \in Symbols : \E a \in ShapeAt(n, from), b \in ShapeAt(n, to) :
                                    a.id # b.id \/ a.params # b.params}]

-----------------------------------------------------------------------------
\* The history the studio shows is the snapshots': of every symbol the shape at each
\* layer, or that it was not there; whether and since when it is gone; which
\* parameters the newest shape has lost; and what changed between any two layers.
HistoryShown ==
    /\ \A n \in Symbols :
        /\ \A l \in DOMAIN built : {r.params : r \in ShapeAt(n, l)} = {k.params : k \in LineAt(n, l)}
        /\ Removed(n) <=> LineAt(n, Max(DOMAIN built)) = {}
        /\ Removed(n) => \A l \in DOMAIN built : l >= RemovedIn(n) => LineAt(n, l) = {}
        /\ \A l \in PresentIn(n) : \A p \in ToSet(Line(built[l], n).params) :
            /\ Since(n, p.name) <= l
            /\ ParamRemoved(n, p.name) <=>
                p.name \notin {q.name : q \in ToSet(Line(built[LastLayer(n)], n).params)}
    /\ \A a, b \in DOMAIN built :
        LET New(x, y) == {n \in Symbols : LineAt(n, y) # {} /\ LineAt(n, x) = {}}
        IN Diff(a, b) = [added |-> New(a, b), removed |-> New(b, a),
                         changed |-> {n \in Symbols \ (New(a, b) \cup New(b, a)) :
                                        LineAt(n, a) # LineAt(n, b)}]
=============================================================================
