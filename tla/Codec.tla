-------------------------------- MODULE Codec --------------------------------
(***************************************************************************)
(* The TL codec (server/src/tl/codec.ts, writer.ts and reader.ts; the      *)
(* studio's client/codec.ts is the same code over Uint8Array): values are  *)
(* written as bytes by the parameters of their definition and read back.   *)
(*                                                                         *)
(* A definition is a record [id, name, params], a parameter [name, type],  *)
(* and a type a record of its kind:                                        *)
(*   int, long (double alike), data (string and bytes), bool, true, flags, *)
(*   fixed (int128, int256) with its size, vector with boxed and inner,    *)
(*   boxed (a named type, Object or !X), bare with the name, and           *)
(*   flag (field.bit?inner) with the field, the bit and inner.             *)
(* No hand-written codec is registered by the program.                     *)
(*                                                                         *)
(* Names are looked up in a function from names to definitions, ids in one *)
(* from ids.  A long is not negative: it is read as unsigned.  The layer's *)
(* text encoding, and hex strings given for bytes, are left out.           *)
(*                                                                         *)
(* The calls of the codec within each other are levels: what one level     *)
(* makes of each type and value is a function of the one below.            *)
(***************************************************************************)
EXTENDS Integers, Sequences, FiniteSets, SequencesExt

CONSTANTS
    Values,     \* the values a program may have, with those they consist of
    Types,      \* the types of parameters, with those they consist of
    Depth       \* bound on the calls within each other: the room of the stack

\* Values of the program: null and undefined, number and bigint, string and
\* Buffer, boolean, array, and object with its _ and fields.
Nothing == [is |-> "nothing"]
Num(n) == [is |-> "number", n |-> n]
Data(bytes) == [is |-> "data", bytes |-> bytes]
Bool(b) == [is |-> "boolean", truth |-> b]
Arr(items) == [is |-> "array", items |-> items]
Obj(name, fields) == [is |-> "object", name |-> name, fields |-> fields]

Anything == [kind |-> "boxed"]

ASSUME CodecAssumption ==
    /\ Depth \in Nat
    /\ Nothing \in Values /\ Anything \in Types
    /\ \A v \in Values :
        /\ v.is = "number" => v.n \in Int
        /\ v.is = "data" => v.bytes \in Seq(0..255)
        /\ v.is = "boolean" => v.truth \in BOOLEAN
        /\ v.is = "array" => v.items \in Seq(Values)
        /\ v.is = "object" => \A n \in DOMAIN v.fields : v.fields[n] \in Values
    /\ \A t \in Types :
        /\ t.kind = "fixed" => t.size \in Nat
        /\ t.kind \in {"vector", "flag"} => t.inner \in Types

Jobs == Types \X Values     \* what is written of a type
Places == Types \X Nat      \* and read at a position

Field(fields, name) == IF name \in DOMAIN fields THEN fields[name] ELSE Nothing
Items(v) == IF v.is = "array" THEN v.items ELSE <<>>
Fields(v) == IF v.is = "object" THEN v.fields ELSE <<>>

BoolTrueId == 1
BoolFalseId == 2
VectorId == 3

\* collectBitmaskFields(), and the bits of one of them that are set.
BitmaskFields(params) ==
    {p.name : p \in {q \in ToSet(params) : q.type.kind = "flags"}}
        \cup {p.type.field : p \in {q \in ToSet(params) : q.type.kind = "flag"}}

Present(p, fields) ==
    IF p.type.inner.kind = "true" THEN Field(fields, p.name) = Bool(TRUE)
                                  ELSE Field(fields, p.name) # Nothing

Bits(params, fields, mask) ==
    {p.type.bit : p \in {q \in ToSet(params) :
        q.type.kind = "flag" /\ q.type.field = mask /\ Present(q, fields)}}

-----------------------------------------------------------------------------
(***************************************************************************)
(* A number and its digits, the lowest first: bytes or bits.               *)
(***************************************************************************)
\* The number without its lowest k digits, for each k.
Divided(n, base) ==
    LET rest[k \in 0..32] == IF k = 0 THEN n ELSE rest[k - 1] \div base
    IN rest

Digits(n, base, size) == [i \in 1..size |-> Divided(n, base)[i - 1] % base]

\* The number of the digits below top.
Composed(digits, base, top) ==
    LET size == Len(digits)
        above[k \in 0..size] ==
            IF k = 0 THEN top ELSE above[k - 1] * base + digits[(size - k) + 1]
    IN above[size]

Mask(bits) == Composed([i \in 1..32 |-> IF i - 1 \in bits THEN 1 ELSE 0], 2, 0)

-----------------------------------------------------------------------------
(***************************************************************************)
(* Writing: the sequence of bytes.  An error leaves Thrown in it.          *)
(***************************************************************************)
Thrown == -1

UInt32(n) == Digits(n, 256, 4)
Zeros(n) == [i \in 1..n |-> 0]

\* writeBytes(): the length in one byte, or a marker and three; then padding.
LengthOf(n) == IF n < 254 THEN <<n>> ELSE <<254>> \o Digits(n, 256, 3)

WriteBytes(bytes) ==
    LET whole == LengthOf(Len(bytes)) \o bytes
    IN whole \o Zeros((4 - (Len(whole) % 4)) % 4)

\* writeFixed(): a short buffer is padded on the left.
WriteFixed(bytes, size) ==
    IF Len(bytes) > size THEN <<Thrown>> ELSE Zeros(size - Len(bytes)) \o bytes

WriteBool(b) == UInt32(IF b THEN BoolTrueId ELSE BoolFalseId)

\* count values of type t; deeper is the level below.
WriteItems(deeper, t, items) ==
    UInt32(Len(items)) \o FlattenSeq([i \in DOMAIN items |-> deeper[<<t, items[i]>>]])

WriteField(deeper, params, fields, p) ==
    IF p.name \in BitmaskFields(params) THEN UInt32(Mask(Bits(params, fields, p.name)))
    ELSE IF p.type.kind # "flag" THEN deeper[<<p.type, Field(fields, p.name)>>]
    ELSE IF p.type.bit \in Bits(params, fields, p.type.field)
         THEN deeper[<<p.type.inner, Field(fields, p.name)>>]
    ELSE <<>>

WriteFields(deeper, params, fields) ==
    FlattenSeq([i \in DOMAIN params |-> WriteField(deeper, params, fields, params[i])])

WriteObject(names, deeper, v) ==
    CASE v.is = "boolean" -> WriteBool(v.truth)
      [] v.is = "array" -> UInt32(VectorId) \o WriteItems(deeper, Anything, v.items)
      [] v.is = "object" /\ v.name \in DOMAIN names ->
            UInt32(names[v.name].id) \o WriteFields(deeper, names[v.name].params, v.fields)
      [] OTHER -> <<Thrown>>

WriteType(names, deeper, t, v) ==
    CASE t.kind = "int"    -> UInt32(IF v = Nothing THEN 0 ELSE v.n)
      [] t.kind = "long"   -> Digits(IF v = Nothing THEN 0 ELSE v.n, 256, 8)
      [] t.kind = "data"   -> WriteBytes(IF v = Nothing THEN <<>> ELSE v.bytes)
      [] t.kind = "fixed"  -> WriteFixed(IF v = Nothing THEN <<>> ELSE v.bytes, t.size)
      [] t.kind = "bool"   -> WriteBool(v = Bool(TRUE))
      [] t.kind = "true"   -> <<>>
      [] t.kind = "vector" ->
            (IF t.boxed THEN UInt32(VectorId) ELSE <<>>) \o WriteItems(deeper, t.inner, Items(v))
      [] t.kind = "boxed"  -> WriteObject(names, deeper, v)
      [] t.kind = "bare" /\ t.name \in DOMAIN names ->
            WriteFields(deeper, names[t.name].params, Fields(v))
      [] OTHER -> <<Thrown>>

Written(names) ==
    LET write[d \in 0..Depth] ==
            IF d = 0 THEN [x \in Jobs |-> <<Thrown>>]
                     ELSE [x \in Jobs |-> WriteType(names, write[d - 1], x[1], x[2])]
    IN write

\* encode(), with the definitions names resolve to at the layer.
Encode(names, v) == Written(names)[Depth][<<Anything, v>>]

-----------------------------------------------------------------------------
(***************************************************************************)
(* Reading: the value and the position after it, 0 after an error.  The    *)
(* registry is a record of byId and byName.                                *)
(***************************************************************************)
Read(pos, v) == [pos |-> pos, v |-> v]
Failed == Read(0, Nothing)

\* expect()
Has(buf, pos, size) == pos # 0 /\ pos - 1 + size <= Len(buf)

Slice(buf, pos, size) == SubSeq(buf, pos, pos + (size - 1))

ReadUInt(buf, pos, size) ==
    IF Has(buf, pos, size) THEN Read(pos + size, Num(Composed(Slice(buf, pos, size), 256, 0)))
                           ELSE Failed

\* readInt32(): the top byte has the sign.
ReadInt32(buf, pos) ==
    IF ~Has(buf, pos, 4) THEN Failed
    ELSE LET top == buf[pos + 3]
             signed == IF top < 128 THEN top ELSE top - 256
         IN Read(pos + 4, Num(Composed(Slice(buf, pos, 3), 256, signed)))

ReadRaw(buf, pos, size) ==
    IF Has(buf, pos, size) THEN Read(pos + size, Data(Slice(buf, pos, size))) ELSE Failed

Skip(buf, pos, size) == IF Has(buf, pos, size) THEN pos + size ELSE 0

ReadBytes(buf, pos) ==
    LET short == ReadUInt(buf, pos, 1)
        long == short.pos # 0 /\ short.v.n >= 254
        length == IF long THEN ReadUInt(buf, pos + 1, 3) ELSE short
        body == IF length.pos = 0 THEN Failed ELSE ReadRaw(buf, length.pos, length.v.n)
        padding == IF body.pos = 0 THEN 0 ELSE (4 - ((body.pos - pos) % 4)) % 4
    IN Read(Skip(buf, body.pos, padding), body.v)

\* count values of type t; deeper is the level below.
ReadItems(deeper, buf, t, pos) ==
    LET size == ReadUInt(buf, pos, 4)
        read[k \in 0..size.v.n] ==
            IF k = 0 THEN Read(size.pos, Arr(<<>>))
            ELSE LET before == read[k - 1]
                     item == deeper[<<t, before.pos>>]
                 IN IF before.pos = 0 THEN before
                    ELSE Read(item.pos, Arr(Append(before.v.items, item.v)))
    IN IF size.pos = 0 THEN Failed ELSE read[size.v.n]

\* flags[field] ?? 0
MaskIn(fields, name) == IF name \in DOMAIN fields THEN fields[name].n ELSE 0

ReadField(deeper, buf, params, p, before) ==
    LET With(got) == Read(got.pos, [n \in DOMAIN before.v \cup {p.name} |->
                                        IF n = p.name THEN got.v ELSE before.v[n]])
    IN IF before.pos = 0 THEN before
       ELSE IF p.name \in BitmaskFields(params) THEN With(ReadUInt(buf, before.pos, 4))
       ELSE IF p.type.kind # "flag" THEN With(deeper[<<p.type, before.pos>>])
       ELSE IF Divided(MaskIn(before.v, p.type.field), 2)[p.type.bit] % 2 = 1
            THEN With(deeper[<<p.type.inner, before.pos>>])
       ELSE before

ReadFields(deeper, buf, params, pos) ==
    LET read[i \in 0..Len(params)] ==
            IF i = 0 THEN Read(pos, <<>>)
            ELSE ReadField(deeper, buf, params, params[i], read[i - 1])
    IN read[Len(params)]

ReadObject(reg, deeper, buf, pos) ==
    LET id == ReadUInt(buf, pos, 4)
        Is(n) == id.v.n = n
        def == reg.byId[id.v.n]
        fields == ReadFields(deeper, buf, def.params, id.pos)
    IN IF id.pos = 0 THEN Failed
       ELSE CASE Is(BoolTrueId)  -> Read(id.pos, Bool(TRUE))
              [] Is(BoolFalseId) -> Read(id.pos, Bool(FALSE))
              [] Is(VectorId)    -> ReadItems(deeper, buf, Anything, id.pos)
              [] OTHER -> IF id.v.n \in DOMAIN reg.byId THEN Read(fields.pos, Obj(def.name, fields.v))
                                                        ELSE Failed

ReadType(reg, deeper, buf, t, pos) ==
    CASE t.kind = "int"    -> ReadInt32(buf, pos)
      [] t.kind = "long"   -> ReadUInt(buf, pos, 8)
      [] t.kind = "data"   -> ReadBytes(buf, pos)
      [] t.kind = "fixed"  -> ReadRaw(buf, pos, t.size)
      [] t.kind = "bool"   -> LET id == ReadUInt(buf, pos, 4)
                              IN Read(id.pos, Bool(id.v = Num(BoolTrueId)))
      [] t.kind = "true"   -> Read(pos, Bool(TRUE))
      [] t.kind = "vector" ->
            IF ~t.boxed THEN ReadItems(deeper, buf, t.inner, pos)
            ELSE LET id == ReadUInt(buf, pos, 4)
                 IN IF id.v # Num(VectorId) THEN Failed
                    ELSE ReadItems(deeper, buf, t.inner, id.pos)
      [] t.kind = "boxed"  -> ReadObject(reg, deeper, buf, pos)
      [] t.kind = "bare" /\ t.name \in DOMAIN reg.byName ->
            LET fields == ReadFields(deeper, buf, reg.byName[t.name].params, pos)
            IN Read(fields.pos, Obj(t.name, fields.v))
      [] OTHER -> Failed

Understand(reg, buf) ==
    LET read[d \in 0..Depth] ==
            IF d = 0 THEN [x \in Places |-> Failed]
                     ELSE [x \in Places |-> ReadType(reg, read[d - 1], buf, x[1], x[2])]
    IN read

\* decode(): what follows the value is not looked at.
Decode(reg, buf) == Understand(reg, buf)[Depth][<<Anything, 1>>]

-----------------------------------------------------------------------------
(***************************************************************************)
(* Which values are of a type, by the definitions of names: numbers that   *)
(* the width has room for, lengths that the prefix has, objects that are   *)
(* defined.  And what whoever reads such a value should find: its fields   *)
(* in the definitions, the masks filled in and what is absent at its       *)
(* default.                                                                *)
(***************************************************************************)
Unsigned(n, bytes) == n \in Nat /\ Divided(n, 256)[bytes] = 0

\* The parameters that are written of an object.
There(params, fields) ==
    {p \in ToSet(params) : p.type.kind = "flag" => p.type.bit \in Bits(params, fields, p.type.field)}

Inner(p) == IF p.type.kind = "flag" THEN p.type.inner ELSE p.type

FitItems(deeper, t, items) ==
    /\ Unsigned(Len(items), 4)
    /\ \A i \in DOMAIN items : deeper[<<t, items[i]>>]

FitFields(deeper, params, fields) ==
    \A p \in There(params, fields) :
        p.name \in BitmaskFields(params) \/ deeper[<<Inner(p), Field(fields, p.name)>>]

Fit(names, deeper, t, v) ==
    CASE t.kind = "int"  -> v = Nothing \/ (v.is = "number" /\ Divided(v.n, 256)[3] \in -128..127)
      [] t.kind = "long" -> v = Nothing \/ (v.is = "number" /\ Unsigned(v.n, 8))
      [] t.kind = "data" -> v = Nothing \/ (v.is = "data" /\ Unsigned(Len(v.bytes), 3))
      [] t.kind = "fixed" -> v = Nothing \/ (v.is = "data" /\ Len(v.bytes) <= t.size)
      [] t.kind \in {"bool", "true"} -> TRUE
      [] t.kind = "vector" -> FitItems(deeper, t.inner, Items(v))
      [] t.kind = "boxed" ->
            \/ v.is = "boolean"
            \/ v.is = "array" /\ FitItems(deeper, Anything, v.items)
            \/ /\ v.is = "object" /\ v.name \in DOMAIN names
               /\ FitFields(deeper, names[v.name].params, v.fields)
      [] t.kind = "bare" ->
            /\ v = Nothing \/ v.is = "object"
            /\ t.name \in DOMAIN names /\ FitFields(deeper, names[t.name].params, Fields(v))
      [] OTHER -> FALSE

Fitting(names) ==
    LET fit[d \in 0..Depth] ==
            IF d = 0 THEN [x \in Jobs |-> FALSE]
                     ELSE [x \in Jobs |-> Fit(names, fit[d - 1], x[1], x[2])]
    IN fit

Fits(names, v) == Fitting(names)[Depth][<<Anything, v>>]

SeenItems(deeper, t, items) == Arr([i \in DOMAIN items |-> deeper[<<t, items[i]>>]])

SeenField(deeper, params, fields, p) ==
    IF p.name \in BitmaskFields(params) THEN Num(Mask(Bits(params, fields, p.name)))
    ELSE deeper[<<Inner(p), Field(fields, p.name)>>]

SeenFields(deeper, params, fields) ==
    [n \in {p.name : p \in There(params, fields)} |->
        SeenField(deeper, params, fields, CHOOSE p \in ToSet(params) : p.name = n)]

SeenObject(names, deeper, v) ==
    CASE v.is = "array"  -> SeenItems(deeper, Anything, v.items)
      [] v.is = "object" -> Obj(v.name, SeenFields(deeper, names[v.name].params, v.fields))
      [] OTHER -> Bool(v.truth)

SeenType(names, deeper, t, v) ==
    CASE t.kind \in {"int", "long"} -> Num(IF v = Nothing THEN 0 ELSE v.n)
      [] t.kind = "data"   -> Data(IF v = Nothing THEN <<>> ELSE v.bytes)
      [] t.kind = "fixed"  -> Data(WriteFixed(IF v = Nothing THEN <<>> ELSE v.bytes, t.size))
      [] t.kind = "bool"   -> Bool(v = Bool(TRUE))
      [] t.kind = "true"   -> Bool(TRUE)
      [] t.kind = "vector" -> SeenItems(deeper, t.inner, Items(v))
      [] t.kind = "boxed"  -> SeenObject(names, deeper, v)
      [] t.kind = "bare"   -> Obj(t.name, SeenFields(deeper, names[t.name].params, Fields(v)))
      [] OTHER -> Nothing

Seeing(names) ==
    LET see[d \in 0..Depth] ==
            IF d = 0 THEN [x \in Jobs |-> Nothing]
                     ELSE [x \in Jobs |-> SeenType(names, see[d - 1], x[1], x[2])]
    IN see

Seen(names, v) == Seeing(names)[Depth][<<Anything, v>>]
=============================================================================
