--------------------------- MODULE MCSchemaHistory ---------------------------
(***************************************************************************)
(* A small schema for TLC: a user whose parameters change from layer to    *)
(* layer and who has a bare photo, a method, a type that comes and goes,   *)
(* and an app that declares a wrapper of the protocol with an id of its    *)
(* own; of the protocol also an answer with bare salts.  The directory     *)
(* lists layer 10 before layer 9.                                          *)
(***************************************************************************)
EXTENDS SchemaWire

P(name, type) == [name |-> name, type |-> type]
Int32 == [kind |-> "int"]
Long == [kind |-> "long"]
Text == [kind |-> "data"]
Truth == [kind |-> "bool"]
Int128 == [kind |-> "fixed", size |-> 16]
Flags == [kind |-> "flags"]
Bare(name) == [kind |-> "bare", name |-> name]
Vector(boxed, inner) == [kind |-> "vector", boxed |-> boxed, inner |-> inner]
If(field, bit, inner) == [kind |-> "flag", field |-> field, bit |-> bit, inner |-> inner]
True == [kind |-> "true"]

Def(id, name, params) == [id |-> id, name |-> name, params |-> params, isProtocol |-> FALSE]
Core(id, name, params) == [Def(id, name, params) EXCEPT !.isProtocol = TRUE]

MCProtocol == {
    Core(11, "rpc_result", <<P("req_msg_id", Long), P("result", Anything)>>),
    Core(12, "invokeWithLayer", <<P("layer", Int32), P("query", Anything)>>),
    Core(13, "future_salt", <<P("valid_since", Int32), P("salt", Long)>>),
    Core(14, "future_salts", <<P("salts", Vector(FALSE, Bare("future_salt")))>>)}

Photo == Def(20, "photo", <<P("nonce", Int128), P("sizes", Vector(FALSE, Int32))>>)
User1 == Def(21, "user", <<P("id", Long), P("name", Text), P("photo", Bare("photo"))>>)
User2 == Def(22, "user",
    <<P("flags", Flags), P("id", Long), P("bot", If("flags", 0, True)),
      P("about", If("flags", 1, Text)), P("photo", If("flags", 3, Bare("photo")))>>)
User3 == Def(23, "user",
    <<P("flags", Int32), P("friends", If("flags", 2, Vector(TRUE, Anything))),
      P("about", If("flags", 1, Text)), P("zone", Int32), P("online", Truth)>>)
GetUser == Def(24, "getUser", <<P("id", Anything)>>)
Self == Def(25, "self", <<>>)
Wrapper == Def(26, "invokeWithLayer", <<P("layer", Int32), P("query", Anything), P("device", Text)>>)

MCLines == {Photo, User1, User2, User3, GetUser, Self, Wrapper}
MCFirstSchema == {Photo, User1, GetUser, Self}
MCWrappers == {"invokeWithLayer"}
MCListing == <<10, 11, 9>>

\* Byte strings around the lengths at which their prefix and padding change.
Bytes(n) == Data([i \in 1..n |-> (i * 7) % 256])

ThePhoto == Obj("photo", [nonce |-> Bytes(3), sizes |-> Arr(<<Num(1), Num(-2)>>)])
Full(about) ==
    Obj("user", [id |-> Num(70000), name |-> Bytes(about), photo |-> ThePhoto, bot |-> Bool(TRUE),
                 about |-> Bytes(about), zone |-> Num(-300), online |-> Bool(TRUE),
                 friends |-> Arr(<<Obj("self", <<>>), Bool(FALSE)>>)])
Sparse == Obj("user", [id |-> Num(5), bot |-> Bool(FALSE)])

Said == {
    Bool(TRUE),
    Full(253), Full(254), Full(0), Sparse,
    Arr(<<Sparse, Obj("self", <<>>)>>),
    Obj("getUser", [id |-> Obj("self", <<>>)]),
    Obj("invokeWithLayer", [layer |-> Num(9), device |-> Bytes(2),
                            query |-> Obj("getUser", [id |-> Full(2)])]),
    Obj("future_salts", [salts |-> Arr(<<Obj("future_salt", [salt |-> Num(77)])>>)]),
    Obj("rpc_result", [req_msg_id |-> Num(12), result |-> Full(5)])}

\* They and what they consist of.
Parts(v) == CASE v.is = "object" -> {v.fields[n] : n \in DOMAIN v.fields}
              [] v.is = "array"  -> ToSet(v.items)
              [] OTHER -> {}
Deeper(values) == values \cup UNION {Parts(v) : v \in values}
MCValues == {Nothing} \cup Deeper(Deeper(Deeper(Deeper(Said))))

MCTypes == {Anything} \cup Within(MCLines \cup MCProtocol)
=============================================================================
