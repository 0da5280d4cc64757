------------------------------- MODULE Framing -------------------------------
(***************************************************************************)
(* From the bytes of a carrier to packets: the PROXY-protocol header a TCP *)
(* load balancer puts first (proxy-protocol.ts, proxyAware() of            *)
(* tcp-server.ts), the detection of the client's transport, and the        *)
(* packets it frames (framing.ts), as the bytes come in chunks of any size.*)
(*                                                                         *)
(* What a client sends is a stream: a record that tells what the code can  *)
(* see of the bytes.  Positions in it are counted in bytes.                *)
(*                                                                         *)
(*   proxied   the connection's carrier looks for a PROXY header           *)
(*   header    [is: none, v1 or v2; size; alike: how many bytes of a       *)
(*             stream without a header look like the start of one]; no     *)
(*             header is longer than the code's limits                     *)
(*   mode      abridged, intermediate, full or obfuscated                  *)
(*   tag       what byte 56 of an obfuscated opening decrypts to           *)
(*   size      the bytes of a packet, before framing                       *)
(*   packets   the packets, in order                                       *)
(*   misnumbered  which of them, after the first, a tcp_full client        *)
(*             numbers wrongly; or 0                                       *)
(*                                                                         *)
(* A stream that opens at random (obfuscated) is not taken for another     *)
(* mode: clients avoid those openings.  looksLikeTcpFullStreamStart() only *)
(* matters to tcp_full streams that do not begin with number 0.            *)
(***************************************************************************)
EXTENDS Integers, Sequences, FiniteSets

V1Max == 107
MaxHeader == 1024

IsStream(s) ==
    /\ s.proxied \in BOOLEAN
    /\ s.header.is \in {"none", "v1", "v2"}
    /\ s.header.size \in 0..(IF s.header.is = "v1" THEN V1Max ELSE MaxHeader)
    /\ s.header.alike \in Nat
    /\ ~s.proxied => s.header.is = "none"
    /\ s.mode \in {"abridged", "intermediate", "full", "obfuscated"}
    /\ s.mode = "obfuscated" => s.tag \in {"abridged", "intermediate", "unknown"}
    /\ s.size \in Nat \ {0} /\ s.size % 4 = 0
    /\ s.misnumbered \in Nat \ {1}

-----------------------------------------------------------------------------
(***************************************************************************)
(* parseProxyHeader() on the first n bytes: a header and its length, not   *)
(* enough of one yet, or none.  Bytes that have only begun like one are    *)
(* not told from it.                                                       *)
(***************************************************************************)
ParseProxyHeader(s, n) ==
    IF s.header.is = "none"
    THEN IF n <= s.header.alike THEN "incomplete" ELSE "absent"
    ELSE IF n < s.header.size THEN "incomplete" ELSE "done"

-----------------------------------------------------------------------------
(***************************************************************************)
(* A framer: the MTProto stream's first byte, once known; the mode, once   *)
(* detected; how many bytes it has consumed of the stream, how many        *)
(* packets it has returned; and whether it threw.                          *)
(***************************************************************************)
Framer == [start : Int, mode : {"unknown", "abridged", "intermediate", "full", "obfuscated"},
           used : Nat, read : Nat, threw : BOOLEAN]

NewFramer == [start |-> -1, mode |-> "unknown", used |-> 0, read |-> 0, threw |-> FALSE]

Opening(mode) == CASE mode = "abridged" -> 1 [] mode = "intermediate" -> 4
                   [] mode = "full" -> 0 [] mode = "obfuscated" -> 64

\* detect(), with the first n bytes of the MTProto stream.
Detect(s, n) ==
    CASE s.mode \in {"abridged", "intermediate"} -> IF n < 4 THEN "unknown" ELSE s.mode
      [] s.mode = "full"       -> IF n < 8 THEN "unknown" ELSE "full"
      [] s.mode = "obfuscated" -> IF n < 64 THEN "unknown"
                                  ELSE IF s.tag = "unknown" THEN "error" ELSE "obfuscated"

\* effectiveMode()
Effective(s, mode) == IF mode = "obfuscated" THEN s.tag ELSE mode

\* What a packet takes: abridged lengths of 127 words or more take four bytes.
FrameSize(mode, size) ==
    CASE mode = "abridged" -> size + (IF size \div 4 < 127 THEN 1 ELSE 4)
      [] mode = "intermediate" -> size + 4
      [] mode = "full" -> size + 12
      [] OTHER -> size

\* drain(): read packets until one is incomplete; a wrong number throws.
Complete(s, f, n) ==
    LET whole == (n - f.used) \div FrameSize(Effective(s, f.mode), s.size)
        left == Len(s.packets) - f.read
    IN IF whole < left THEN whole ELSE left

Throws(s, f, count) ==
    Effective(s, f.mode) = "full" /\ s.misnumbered \in (f.read + 1)..(f.read + count)

Drain(s, f, n) ==
    LET count == Complete(s, f, n)
    IN IF Throws(s, f, count)
       THEN [f EXCEPT !.threw = TRUE]
       ELSE [f EXCEPT !.read = @ + count,
                      !.used = @ + count * FrameSize(Effective(s, f.mode), s.size)]

\* feed(): detect once, keep what follows the opening, read packets.
Feed(s, f, n) ==
    LET mode == IF f.mode = "unknown" THEN Detect(s, n) ELSE f.mode
    IN CASE mode = "unknown" -> f
         [] mode = "error"   -> [f EXCEPT !.threw = TRUE]
         [] OTHER -> Drain(s, IF f.mode # "unknown" THEN f
                              ELSE [f EXCEPT !.mode = mode, !.used = Opening(mode)], n)

\* The carrier's data event, with n bytes of the stream received in all.  A header
\* that is absent after all is the start of the MTProto stream.
Started_RestLost(s, f, n) ==
    IF ~s.proxied THEN [f EXCEPT !.start = 0]
    ELSE CASE ParseProxyHeader(s, n) = "incomplete" -> f
           [] ParseProxyHeader(s, n) = "absent" -> [f EXCEPT !.start = 0]
           [] OTHER -> [f EXCEPT !.start = n]

Started(s, f, n) ==
    IF ~s.proxied THEN [f EXCEPT !.start = 0]
    ELSE CASE ParseProxyHeader(s, n) = "incomplete" -> f
           [] ParseProxyHeader(s, n) = "absent" -> [f EXCEPT !.start = 0]
           [] OTHER -> [f EXCEPT !.start = s.header.size]

Data(s, f, n) ==
    LET g == IF f.start < 0 THEN Started(s, f, n) ELSE f
    IN IF g.start < 0 THEN g ELSE Feed(s, g, n - g.start)

-----------------------------------------------------------------------------
(***************************************************************************)
(* What the stream says: the length of all of it, and how many packets are *)
(* whole in its first n bytes.  Bytes that begin like a header are told    *)
(* from one before the first packet is whole, or it would wait for them.   *)
(***************************************************************************)
HeaderSize(s) == IF s.header.is = "none" THEN 0 ELSE s.header.size

Sent(s) == HeaderSize(s) + Opening(s.mode)

Total(s) == Sent(s) + Len(s.packets) * FrameSize(Effective(s, s.mode), s.size)

WholeIn(s, n) ==
    IF n < Sent(s) THEN 0 ELSE (n - Sent(s)) \div FrameSize(Effective(s, s.mode), s.size)

ToldInTime(s) == s.header.alike < Sent(s) + FrameSize(Effective(s, s.mode), s.size)
=============================================================================
