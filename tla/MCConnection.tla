---------------------------- MODULE MCConnection ----------------------------
(* Two connections, the carriers and clients they may have.                *)
EXTENDS Connection

CONSTANTS c1, c2, s1, s2

Bare == [is |-> "none", size |-> 0, alike |-> 0]
V1 == [is |-> "v1", size |-> 40, alike |-> 0]
Near == [is |-> "none", size |-> 0, alike |-> 3]

Is(name) == [is |-> name]
Layer(n) == [is |-> "withLayer", layer |-> n]
Ping(delay) == [is |-> "ping", delay |-> delay]

Tcp(session, packets) ==
    [ws |-> FALSE, proxied |-> FALSE, header |-> Bare, mode |-> "abridged", tag |-> "unknown",
     size |-> 40, misnumbered |-> 0, cuts |-> {}, session |-> session, packets |-> packets]

Proxied(str, header) == [str EXCEPT !.proxied = TRUE, !.header = header]
Mode(str, mode, tag) == [str EXCEPT !.mode = mode, !.tag = tag]

\* Clients whose packets matter, and carriers whose bytes do.
Negotiators == {Tcp(s1, <<Layer(4), Is("query")>>), Tcp(s1, <<Ping(TRUE), Layer(3)>>)}
Listener == [Tcp(s1, <<Is("noUpdates"), Ping(TRUE)>>) EXCEPT !.ws = TRUE]
Query == Tcp(s1, <<Is("query")>>)

Pings == [Tcp(s1, <<Ping(TRUE), Ping(TRUE)>>) EXCEPT !.cuts = {2, 30, 60, 90}]
Carriers ==
    {Proxied(Pings, V1), Proxied(Mode(Pings, "intermediate", "unknown"), V1), Proxied(Pings, Near),
     Mode(Pings, "obfuscated", "intermediate"), Mode(Pings, "obfuscated", "unknown"),
     Mode(Pings, "full", "unknown"),
     [Mode(Pings, "full", "unknown") EXCEPT !.misnumbered = 2],
     [Pings EXCEPT !.packets = <<Is("short"), Is("short")>>, !.size = 4]}

MCConns == {c1, c2}
MCSessions == {s1, s2}
MCClients ==
    {c1 :> a @@ c2 :> b : a \in Negotiators, b \in {Query, Tcp(s2, <<Layer(4), Is("query")>>)}}
    \cup {c1 :> Listener @@ c2 :> Query}
    \cup {c1 :> a @@ c2 :> Tcp(s2, <<>>) : a \in Carriers}

Update(at, pts, shape) == [is |-> "update", at |-> at, pts |-> pts, shape |-> shape]
Short(u) == [is |-> "updateShort", rest |-> {2, 4}, updates |-> <<u>>]
Known == Update({2, 4}, 0, Newest)
New == Update({4}, 7, 0)
Typing == Update({4}, 0, 0)
MCUpdates == {Short(Typing),
              [is |-> "updates", rest |-> {2, 4}, updates |-> <<Known, New, Typing>>]}

MCRungs == <<2, 4>>
=============================================================================
