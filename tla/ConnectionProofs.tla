----------------------------- MODULE ConnectionProofs -----------------------------
(***************************************************************************)
(* Theorems about Connection, for any connections, sessions, streams and   *)
(* chunks of them, ids, updates and layers.                                *)
(***************************************************************************)
EXTENDS Connection, FiniteSetTheorems, SequenceTheorems, NaturalsInduction, WellFoundedInduction, TLAPS

-----------------------------------------------------------------------------
(***************************************************************************)
(* Division.                                                               *)
(***************************************************************************)
LEMMA DivBounds ==
    ASSUME NEW x \in Nat, NEW f \in Nat \ {0}
    PROVE  /\ x \div f \in Nat
           /\ (x \div f) * f <= x /\ x < (x \div f) * f + f
OBVIOUS

LEMMA Quotient ==
    ASSUME NEW x \in Nat, NEW f \in Nat \ {0}, NEW q \in Nat, q * f <= x, x < q * f + f
    PROVE  x \div f = q
OBVIOUS

LEMMA AtMostQuotient ==
    ASSUME NEW x \in Nat, NEW f \in Nat \ {0}, NEW r \in Nat, r <= x \div f
    PROVE  r * f <= x
OBVIOUS

LEMMA Products ==
    ASSUME NEW r \in Nat, NEW c \in Nat, NEW k \in Nat
    PROVE  /\ r * k \in Nat /\ c * k \in Nat
           /\ (r + c) * k = r * k + c * k
           /\ (r + c + 1) * k = r * k + c * k + k
OBVIOUS

LEMMA NoneAfter ==
    ASSUME NEW n \in Nat, NEW m \in Nat, NEW p \in Nat, NEW f \in Nat \ {0}, n <= m + p
    PROVE  n - m < p + f
OBVIOUS

LEMMA RestAfter ==
    ASSUME NEW n \in Nat, NEW h \in Nat, NEW o \in Nat, NEW r \in Nat, NEW c \in Nat,
           NEW f \in Nat, n - h - (o + r * f) < c * f + f
    PROVE  n - (h + o) < (r + c + 1) * f
OBVIOUS

-----------------------------------------------------------------------------
(***************************************************************************)
(* The framer.  Of a stream, the frame size and the size of what comes     *)
(* before the packets.                                                     *)
(***************************************************************************)
Frame(s) == FrameSize(Effective(s, s.mode), s.size)

LEMMA FrameFacts ==
    ASSUME NEW s, IsStream(s)
    PROVE  /\ Frame(s) \in Nat \ {0} /\ Opening(s.mode) \in Nat /\ HeaderSize(s) \in Nat
           /\ Sent(s) \in Nat
           /\ Opening(s.mode) + Frame(s) > (IF s.mode \in {"abridged", "intermediate"} THEN 4 ELSE
                                            IF s.mode = "full" THEN 8 ELSE 64)
BY DEF IsStream, Frame, FrameSize, Effective, Opening, HeaderSize, Sent, V1Max, MaxHeader

(***************************************************************************)
(* A framer that was given the first n bytes: it knows the start of the    *)
(* MTProto stream or waits for it, knows its mode or waits for it, and has *)
(* read from the start on whole packets only; all of them, unless it threw.*)
(***************************************************************************)
Modes == {"abridged", "intermediate", "full", "obfuscated"}

Framed(s, f, n) ==
    /\ f \in Framer
    /\ n \in Nat /\ n <= Total(s)
    /\ f.start \in {-1, HeaderSize(s)} /\ f.start <= n
    /\ f.mode \in {"unknown", s.mode}
    /\ f.read <= Len(s.packets)
    /\ f.mode = "unknown" => f.read = 0 /\ (~f.threw => n < Sent(s) + Frame(s))
    /\ f.start = -1 => f.mode = "unknown"
    /\ f.mode # "unknown" =>
        /\ s.mode = "obfuscated" => s.tag # "unknown"
        /\ f.used = Opening(s.mode) + f.read * Frame(s)
        /\ HeaderSize(s) + f.used <= n
        /\ ~f.threw => n - Sent(s) < (f.read + 1) * Frame(s)

USE DEF Framer, Modes

LEMMA FramedIsExact ==
    ASSUME NEW s, IsStream(s), NEW f, NEW n, Framed(s, f, n), ~f.threw
    PROVE  f.read = WholeIn(s, n)
<1>f. /\ Frame(s) \in Nat \ {0} /\ Sent(s) \in Nat /\ n \in Nat /\ f.read \in Nat
      /\ HeaderSize(s) \in Nat /\ Opening(s.mode) \in Nat
    BY FrameFacts DEF Framed
<1>w. WholeIn(s, n) = IF n < Sent(s) THEN 0 ELSE (n - Sent(s)) \div Frame(s)
    BY DEF WholeIn, Frame
<1>1. CASE f.mode = "unknown"
    <2>1. f.read = 0 /\ n < Sent(s) + Frame(s)
        BY <1>1 DEF Framed
    <2>2. CASE n < Sent(s)
        BY <2>1, <2>2, <1>w
    <2>3. CASE n >= Sent(s)
        <3>1. n - Sent(s) \in Nat /\ 0 * Frame(s) <= n - Sent(s) /\ n - Sent(s) < 0 * Frame(s) + Frame(s)
            BY <2>1, <2>3, <1>f
        <3>2. (n - Sent(s)) \div Frame(s) = 0
            BY <3>1, <1>f, Quotient
        <3> QED BY <3>2, <2>1, <2>3, <1>w, <1>f
    <2> QED BY <2>2, <2>3, <1>f
<1>2. CASE f.mode # "unknown"
    <2>1. /\ f.used = Opening(s.mode) + f.read * Frame(s)
          /\ HeaderSize(s) + f.used <= n
          /\ n - Sent(s) < (f.read + 1) * Frame(s)
        BY <1>2 DEF Framed
    <2>2. Sent(s) = HeaderSize(s) + Opening(s.mode)
        BY DEF Sent
    <2>3. f.read * Frame(s) \in Nat /\ (f.read + 1) * Frame(s) = f.read * Frame(s) + Frame(s)
        BY <1>f
    <2>4. n - Sent(s) \in Nat /\ f.read * Frame(s) <= n - Sent(s)
          /\ n - Sent(s) < f.read * Frame(s) + Frame(s)
        BY <2>1, <2>2, <2>3, <1>f
    <2>5. (n - Sent(s)) \div Frame(s) = f.read
        BY <2>4, <1>f, Quotient
    <2> QED BY <2>4, <2>5, <1>w, <1>f
<1> QED BY <1>1, <1>2

\* read packets until one is incomplete
LEMMA DrainKeeps ==
    ASSUME NEW s, IsStream(s), s.packets \in Seq(Packet), NEW n \in Nat, n <= Total(s),
           NEW f \in [start : Int, mode : Modes, used : Nat, read : Nat, threw : BOOLEAN],
           f.start = HeaderSize(s), f.mode = s.mode, s.mode = "obfuscated" => s.tag # "unknown",
           f.read <= Len(s.packets), f.used = Opening(s.mode) + f.read * Frame(s),
           HeaderSize(s) + f.used <= n
    PROVE  Framed(s, Drain(s, f, n - f.start), n)
<1> DEFINE count == Complete(s, f, n - f.start)
           d == Drain(s, f, n - f.start)
           whole == (n - f.start - f.used) \div Frame(s)
           left == Len(s.packets) - f.read
<1>f. /\ Frame(s) \in Nat \ {0} /\ Sent(s) \in Nat
      /\ HeaderSize(s) \in Nat /\ Opening(s.mode) \in Nat
      /\ Sent(s) = HeaderSize(s) + Opening(s.mode)
    BY FrameFacts DEF Sent
<1>l. Len(s.packets) \in Nat /\ f.read \in Nat /\ f.used \in Nat /\ left \in Nat
    OBVIOUS
<1>e. FrameSize(Effective(s, f.mode), s.size) = Frame(s)
    BY DEF Frame
<1>x. n - f.start - f.used \in Nat
    BY <1>f, <1>l
<1>w. whole \in Nat /\ whole * Frame(s) <= n - f.start - f.used
      /\ n - f.start - f.used < whole * Frame(s) + Frame(s)
    BY <1>x, <1>f, DivBounds
<1>c. count = IF whole < left THEN whole ELSE left
    BY <1>e DEF Complete
<1>n. count \in Nat /\ count <= left /\ count <= whole
    BY <1>c, <1>w, <1>l
<1> HIDE DEF count
<1>t. n <= Sent(s) + Len(s.packets) * Frame(s)
    BY DEF Total, Frame
<1>m. count * Frame(s) \in Nat /\ count * Frame(s) <= n - f.start - f.used
    <2>1. count * Frame(s) <= n - f.start - f.used
        BY ONLY <1>n, <1>x, <1>f, AtMostQuotient
    <2>2. count * Frame(s) \in Nat
        BY ONLY Products, <1>n, <1>f
    <2> QED BY <2>1, <2>2
<1>d. /\ f.read * Frame(s) \in Nat
      /\ (f.read + count) * Frame(s) = f.read * Frame(s) + count * Frame(s)
      /\ (f.read + count + 1) * Frame(s) = f.read * Frame(s) + count * Frame(s) + Frame(s)
    <2>1. f.read \in Nat /\ count \in Nat /\ Frame(s) \in Nat
        BY <1>n, <1>l, <1>f
    <2> HIDE DEF whole, left
    <2>2. f.read * Frame(s) \in Nat
        BY ONLY <2>1, Products
    <2>3. (f.read + count) * Frame(s) = f.read * Frame(s) + count * Frame(s)
        BY ONLY <2>1, Products
    <2>4. (f.read + count + 1) * Frame(s) = f.read * Frame(s) + count * Frame(s) + Frame(s)
        BY ONLY <2>1, Products
    <2> QED BY <2>2, <2>3, <2>4
<1>1. CASE Throws(s, f, count)
    <2>1. d = [f EXCEPT !.threw = TRUE]
        BY <1>1 DEF Drain, count
    <2>2. /\ d.start = f.start /\ d.mode = f.mode /\ d.used = f.used /\ d.read = f.read /\ d.threw
          /\ d \in Framer
        BY <2>1
    <2> HIDE DEF d
    <2>3. f.mode # "unknown" /\ f.start # -1
        BY <1>f DEF Modes
    <2>4. /\ d.start \in {-1, HeaderSize(s)} /\ d.mode \in {"unknown", s.mode}
          /\ d.mode # "unknown" /\ d.start # -1 /\ d.read <= Len(s.packets)
          /\ d.used = Opening(s.mode) + d.read * Frame(s) /\ HeaderSize(s) + d.used <= n
        BY <2>2, <2>3
    <2>5. Framed(s, d, n)
        BY <2>2, <2>4 DEF Framed
    <2> QED BY <2>5 DEF d
<1>2. CASE ~Throws(s, f, count)
    <2>1. d = [f EXCEPT !.read = @ + count, !.used = @ + count * Frame(s)]
        BY <1>2, <1>e DEF Drain, count
    <2>2. /\ d.start = f.start /\ d.mode = f.mode /\ d.used = f.used + count * Frame(s)
          /\ d.read = f.read + count /\ d.threw = f.threw
        BY <2>1
    <2> HIDE DEF d, whole
    <2>3. d \in Framer
        <3>1. f.read + count \in Nat /\ f.used + count * Frame(s) \in Nat
            BY ONLY <1>n, <1>m, <1>l
        <3> QED BY <3>1, <2>1
    <2>4. d.read <= Len(s.packets)
        BY <2>2, <1>n, <1>l
    <2>5. d.used = Opening(s.mode) + d.read * Frame(s)
        BY <2>2, <1>d, <1>m, <1>f, <1>l
    <2>6. HeaderSize(s) + d.used <= n
        BY ONLY <2>2, <1>m, <1>f, <1>l, f.start = HeaderSize(s), n \in Nat
    <2>7. n - Sent(s) < (d.read + 1) * Frame(s)
        <3>1. CASE whole < left
            <4>1. n - HeaderSize(s) - (Opening(s.mode) + f.read * Frame(s)) < count * Frame(s) + Frame(s)
                BY <3>1, <1>c, <1>w
            <4>2. n - (HeaderSize(s) + Opening(s.mode)) < (f.read + count + 1) * Frame(s)
                BY ONLY <4>1, <1>f, <1>l, <1>n, n \in Nat, RestAfter
            <4> QED BY <4>2, <2>2, <1>f
        <3>2. CASE whole >= left
            <4>1. count = left
                BY <3>2, <1>c, <1>w, <1>l
            <4>2. d.read = Len(s.packets)
                BY <4>1, <1>l, <2>2
            <4>3. \A a, b \in Nat : (a + 1) * b = a * b + b /\ a * b \in Nat
                OBVIOUS
            <4>4. (d.read + 1) * Frame(s) = Len(s.packets) * Frame(s) + Frame(s)
                BY <4>2, <4>3, <1>l, <1>f
            <4>5. Len(s.packets) * Frame(s) \in Nat
                BY <4>3, <1>l, <1>f
            <4>6. n - Sent(s) < Len(s.packets) * Frame(s) + Frame(s)
                BY ONLY <4>5, <1>t, <1>f, n \in Nat, NoneAfter
            <4> QED BY ONLY <4>4, <4>6
        <3> QED BY <3>1, <3>2, <1>w, <1>l
    <2>8. f.mode # "unknown" /\ f.start # -1
        BY <1>f DEF Modes
    <2>9. /\ d.start \in {-1, HeaderSize(s)} /\ d.mode \in {"unknown", s.mode}
          /\ d.mode # "unknown" /\ d.start # -1
        BY <2>2, <2>8
    <2>10. Framed(s, d, n)
        BY <2>3, <2>4, <2>5, <2>6, <2>7, <2>9 DEF Framed
    <2> QED BY <2>10 DEF d
<1> QED BY <1>1, <1>2

\* The mode is not known yet.
LEMMA DetectWaits ==
    ASSUME NEW s, s.mode \in Modes, NEW x \in Int, Detect(s, x) = "unknown"
    PROVE  x < (IF s.mode \in {"abridged", "intermediate"} THEN 4 ELSE
                IF s.mode = "full" THEN 8 ELSE 64)
BY DEF Detect, Modes

\* feed() of a framer that knows where the MTProto stream starts: the mode is detected
\* once, before the first packet is whole.
LEMMA FeedKeeps ==
    ASSUME NEW s, IsStream(s), s.packets \in Seq(Packet), NEW n \in Nat, n <= Total(s),
           NEW f, NEW m, Framed(s, f, m), m <= n, f.start = HeaderSize(s), f.start <= n
    PROVE  Framed(s, Feed(s, f, n - f.start), n)
<1> DEFINE mode == IF f.mode = "unknown" THEN Detect(s, n - f.start) ELSE f.mode
           g == IF f.mode # "unknown" THEN f
                ELSE [f EXCEPT !.mode = mode, !.used = Opening(mode)]
<1>f. /\ Frame(s) \in Nat \ {0} /\ Sent(s) \in Nat
      /\ HeaderSize(s) \in Nat /\ Opening(s.mode) \in Nat
      /\ Sent(s) = HeaderSize(s) + Opening(s.mode)
    BY FrameFacts DEF Sent
<1>y. /\ f \in Framer
      /\ m \in Nat /\ f.mode \in {"unknown", s.mode} /\ f.read <= Len(s.packets)
      /\ f.start # -1
    BY <1>f DEF Framed
<1>s. s.mode \in Modes /\ (s.mode = "obfuscated" => s.tag \in {"abridged", "intermediate", "unknown"})
    BY DEF IsStream, Modes
<1>1. CASE f.mode # "unknown"
    <2>1. mode = s.mode /\ g = f /\ mode # "unknown" /\ mode # "error"
        BY <1>1, <1>y, <1>s DEF Modes
    <2>2. Feed(s, f, n - f.start) = Drain(s, f, n - f.start)
        BY <2>1 DEF Feed
    <2>3. /\ s.mode = "obfuscated" => s.tag # "unknown"
          /\ f.used = Opening(s.mode) + f.read * Frame(s)
          /\ HeaderSize(s) + f.used <= n
        BY <1>1, <1>f, <1>y DEF Framed
    <2>4. f \in [start : Int, mode : Modes, used : Nat, read : Nat, threw : BOOLEAN]
        BY <1>1, <1>y
    <2>5. f.mode = s.mode
        BY <1>1, <1>y
    <2> HIDE DEF mode, g
    <2>6. Framed(s, Drain(s, f, n - f.start), n)
        BY ONLY <2>3, <2>4, <2>5, <1>y, DrainKeeps, IsStream(s), s.packets \in Seq(Packet),
                n \in Nat, n <= Total(s), f.start = HeaderSize(s)
    <2> QED BY <2>2, <2>6, Zenon
<1>2. CASE f.mode = "unknown"
    <2>1. f.read = 0
        BY <1>2 DEF Framed
    <2>2. mode \in {"unknown", "error", s.mode}
        BY <1>2, <1>s DEF Detect, Modes
    <2>3. CASE mode = "unknown"
        <3>1. Feed(s, f, n - f.start) = f
            BY <2>3 DEF Feed
        <3> DEFINE least == IF s.mode \in {"abridged", "intermediate"} THEN 4 ELSE
                            IF s.mode = "full" THEN 8 ELSE 64
        <3>2. n - f.start < least
            BY <2>3, <1>2, <1>s, <1>y, DetectWaits
        <3>4. Opening(s.mode) + Frame(s) > least
            BY FrameFacts
        <3>5. least \in Nat
            OBVIOUS
        <3> HIDE DEF least
        <3>3. n < Sent(s) + Frame(s)
            BY ONLY <3>2, <3>4, <3>5, <1>f, n \in Nat, f.start = HeaderSize(s)
        <3> QED BY <3>1, <3>3, <2>1, <1>2 DEF Framed
    <2>4. CASE mode = "error"
        <3>1. Feed(s, f, n - f.start) = [f EXCEPT !.threw = TRUE]
            BY <2>4 DEF Feed
        <3> DEFINE h == [f EXCEPT !.threw = TRUE]
        <3>2. /\ h \in Framer
              /\ h.start = f.start /\ h.mode = "unknown" /\ h.read = 0 /\ h.threw
            BY <2>1, <1>2, <1>y
        <3> HIDE DEF h
        <3>3. Framed(s, h, n)
            BY <3>2, <1>y, <2>1 DEF Framed
        <3> QED BY <3>1, <3>3 DEF h
    <2>5. CASE mode = s.mode
        <3>1. mode # "unknown" /\ mode # "error"
            BY <2>5, <1>s DEF Modes
        <3>2. Feed(s, f, n - f.start) = Drain(s, g, n - f.start)
            BY <3>1 DEF Feed
        <3>3. g = [f EXCEPT !.mode = s.mode, !.used = Opening(s.mode)]
            BY <1>2, <2>5
        <3>4. /\ s.mode = "obfuscated" => s.tag # "unknown"
              /\ n - f.start >= Opening(s.mode)
            BY <2>5, <1>2, <1>s, <1>y, <3>1 DEF Detect, Opening, Modes
        <3> HIDE DEF mode, g
        <3>5. /\ g \in [start : Int, mode : Modes, used : Nat, read : Nat, threw : BOOLEAN]
              /\ g.start = f.start /\ g.mode = s.mode /\ g.used = Opening(s.mode) /\ g.read = 0
            BY <3>3, <1>y, <1>s, <1>f, <2>1
        <3>6. g.used = Opening(s.mode) + g.read * Frame(s) /\ HeaderSize(s) + g.used <= n
            BY <3>4, <3>5, <1>f
        <3>7. Framed(s, Drain(s, g, n - g.start), n)
            BY <3>4, <3>5, <3>6, <1>y, <2>1, DrainKeeps
        <3> QED BY <3>2, <3>5, <3>7
    <2> QED BY <2>2, <2>3, <2>4, <2>5
<1> QED BY <1>1, <1>2

\* The data event, the header included.
LEMMA DataKeeps ==
    ASSUME NEW s, IsStream(s), ToldInTime(s), s.packets \in Seq(Packet),
           NEW n \in Nat, n <= Total(s), NEW f, NEW m, Framed(s, f, m), m <= n
    PROVE  Framed(s, Data(s, f, n), n)
<1>f. /\ Frame(s) \in Nat \ {0} /\ Sent(s) \in Nat
      /\ HeaderSize(s) \in Nat /\ Opening(s.mode) \in Nat
      /\ Sent(s) = HeaderSize(s) + Opening(s.mode)
    BY FrameFacts DEF Sent
<1>y. /\ f \in Framer
      /\ m \in Nat /\ f.start \in {-1, HeaderSize(s)} /\ f.start <= n
    BY <1>f DEF Framed
<1>t. Total(s) \in Nat
    <2>1. Len(s.packets) * Frame(s) \in Nat
        BY <1>f, Products
    <2> QED BY <2>1, <1>f DEF Total, Frame
<1>1. CASE f.start = HeaderSize(s)
    <2>1. Data(s, f, n) = Feed(s, f, n - f.start)
        BY <1>1, <1>f DEF Data
    <2> QED BY <2>1, <1>1, <1>y, FeedKeeps
<1>2. CASE f.start = -1
    <2> DEFINE g == Started(s, f, n)
    <2>1. f.mode = "unknown" /\ f.read = 0
        BY <1>2 DEF Framed
    <2>2. \/ g = f /\ n < Sent(s) + Frame(s)
          \/ g = [f EXCEPT !.start = HeaderSize(s)] /\ HeaderSize(s) <= n
        <3>1. CASE ~s.proxied
            BY <3>1, <1>f DEF Started, HeaderSize, IsStream
        <3>2. CASE s.proxied /\ s.header.is = "none"
            BY <3>2, <1>f DEF Started, ParseProxyHeader, HeaderSize, IsStream, ToldInTime, Frame
        <3>3. CASE s.proxied /\ s.header.is # "none" /\ n < s.header.size
            <4>1. g = f
                BY <3>3 DEF Started, ParseProxyHeader
            <4>2. HeaderSize(s) = s.header.size
                BY <3>3 DEF HeaderSize
            <4> QED BY <4>1, <4>2, <3>3, <1>f
        <3>4. CASE s.proxied /\ s.header.is # "none" /\ ~(n < s.header.size)
            <4>1. g = [f EXCEPT !.start = s.header.size]
                BY <3>4 DEF Started, ParseProxyHeader
            <4>2. HeaderSize(s) = s.header.size
                BY <3>4 DEF HeaderSize
            <4> QED BY <4>1, <4>2, <3>4, <1>f
        <3> QED BY <3>1, <3>2, <3>3, <3>4 DEF IsStream
    <2> HIDE DEF g
    <2>3. Data(s, f, n) = IF g.start < 0 THEN g ELSE Feed(s, g, n - g.start)
        BY <1>2 DEF Data, g
    <2>4. CASE g = f /\ n < Sent(s) + Frame(s)
        <3>1. Data(s, f, n) = f
            BY <2>3, <2>4, <1>2
        <3> QED BY <3>1, <2>4, <2>1, <1>2 DEF Framed
    <2>5. CASE g = [f EXCEPT !.start = HeaderSize(s)] /\ HeaderSize(s) <= n
        <3>1. /\ g \in Framer
              /\ g.start = HeaderSize(s) /\ g.mode = f.mode /\ g.read = f.read /\ g.threw = f.threw
            <4>1. /\ g.start = HeaderSize(s) /\ g.mode = f.mode /\ g.used = f.used
                  /\ g.read = f.read /\ g.threw = f.threw
                  /\ g = [start |-> g.start, mode |-> g.mode, used |-> g.used,
                           read |-> g.read, threw |-> g.threw]
                BY <2>5, <1>y
            <4>2. HeaderSize(s) \in Int /\ f \in Framer
                BY <1>y, <1>f
            <4> QED BY ONLY <4>1, <4>2
        <3> DEFINE k == IF m < HeaderSize(s) THEN HeaderSize(s) ELSE m
        <3>2. k \in Nat /\ k <= n /\ HeaderSize(s) <= k
            BY <2>5, <1>y, <1>f
        <3>3. ~f.threw => k < Sent(s) + Frame(s)
            BY <2>1, <1>y, <1>f DEF Framed
        <3> HIDE DEF k
        <3>4. Framed(s, g, k)
            <4>1. k <= Total(s)
                BY <3>2, <1>t
            <4> QED BY <3>1, <3>2, <3>3, <4>1, <2>1, <1>f DEF Framed
        <3>5. Framed(s, Feed(s, g, n - g.start), n)
            BY <3>1, <3>2, <3>4, <2>5, FeedKeeps
        <3> QED BY <2>3, <3>1, <3>5, <1>f
    <2> QED BY <2>2, <2>4, <2>5
<1> QED BY <1>y, <1>1, <1>2

-----------------------------------------------------------------------------
(***************************************************************************)
(* The types, with what each connection's framer has read: the packets     *)
(* that wait are cut out of the stream by it.                              *)
(***************************************************************************)
FramingInv == \A c \in Conns : Framed(stream[c], framer[c], received[c])

TypeInv == TypeOK /\ FramingInv

LEMMA StreamFacts ==
    ASSUME stream \in Clients, NEW c \in Conns
    PROVE  /\ IsStream(stream[c]) /\ ToldInTime(stream[c])
           /\ stream[c].packets \in Seq(Packet) /\ stream[c].session \in Sessions
           /\ stream[c].cuts \subseteq Nat
           /\ Total(stream[c]) \in Nat
<1>1. /\ IsStream(stream[c]) /\ ToldInTime(stream[c])
      /\ stream[c].packets \in Seq(Packet) /\ stream[c].session \in Sessions
      /\ stream[c].cuts \subseteq Nat
    BY ConnectionAssumption
<1> DEFINE s == stream[c]
<1> HIDE DEF s
<1>2. IsStream(s) /\ s.packets \in Seq(Packet)
    BY <1>1 DEF s
<1>3. Frame(s) \in Nat /\ Sent(s) \in Nat /\ Len(s.packets) \in Nat
    BY <1>2, FrameFacts
<1>4. Total(s) = Sent(s) + Len(s.packets) * Frame(s)
    BY DEF Total, Frame
<1>5. Len(s.packets) * Frame(s) \in Nat
    BY <1>3, Products
<1>6. Total(s) \in Nat
    BY <1>3, <1>4, <1>5
<1> QED BY <1>1, <1>6 DEF s

LEMMA InitTypes == Init => TypeInv
<1> SUFFICES ASSUME Init PROVE TypeInv
    OBVIOUS
<1>1. stream \in Clients
    BY DEF Init
<1>2. \A c \in Conns : Framed(stream[c], framer[c], received[c])
    <2> TAKE c \in Conns
    <2>1. framer[c] = NewFramer /\ received[c] = 0
        BY DEF Init
    <2>2. /\ IsStream(stream[c]) /\ stream[c].packets \in Seq(Packet) /\ Total(stream[c]) \in Nat
        BY <1>1, StreamFacts
    <2>3. 0 < Sent(stream[c]) + Frame(stream[c])
        BY <2>2, FrameFacts
    <2>4. Len(stream[c].packets) \in Nat
        BY <2>2
    <2> QED BY <2>1, <2>2, <2>3, <2>4 DEF Framed, NewFramer
<1>3. TypeOK
    BY <1>1, ConnectionAssumption DEF Init, TypeOK, Nothing, Places, NewFramer
<1> QED BY <1>2, <1>3 DEF TypeInv, FramingInv

\* Bytes come.
LEMMA ReceiveTypes ==
    ASSUME TypeInv, NEW c \in Conns, Receive(c)
    PROVE  TypeInv'
<1>1. PICK n \in {m \in stream[c].cuts : m < Total(stream[c])} \cup {Total(stream[c])} :
        /\ received[c] < n
        /\ received' = [received EXCEPT ![c] = n]
        /\ LET f == Data(stream[c], framer[c], n)
           IN /\ framer' = [framer EXCEPT ![c] = f]
              /\ waiting' = [waiting EXCEPT ![c] =
                                @ \o SubSeq(stream[c].packets, framer[c].read + 1, f.read)]
              /\ IF f.threw THEN Close(c) ELSE UNCHANGED <<socket, idle>>
    BY DEF Receive
<1> DEFINE f == Data(stream[c], framer[c], n)
<1>2. stream \in Clients /\ TypeOK /\ FramingInv
    BY DEF TypeInv, TypeOK
<1>3. /\ IsStream(stream[c]) /\ ToldInTime(stream[c]) /\ stream[c].packets \in Seq(Packet)
      /\ stream[c].cuts \subseteq Nat /\ Total(stream[c]) \in Nat
    BY <1>2, StreamFacts
<1>4. n \in Nat /\ n <= Total(stream[c]) /\ received[c] \in Nat /\ received[c] <= n
    BY <1>1, <1>2, <1>3 DEF TypeOK
<1>5. Framed(stream[c], framer[c], received[c])
    BY <1>2 DEF FramingInv
<1>6. Framed(stream[c], f, n)
    BY <1>3, <1>4, <1>5, DataKeeps
<1> HIDE DEF f
<1>7. f \in Framer /\ f.read <= Len(stream[c].packets) /\ framer[c].read \in Nat /\ f.read \in Nat
    BY <1>5, <1>6 DEF Framed
<1>8. /\ received' = [received EXCEPT ![c] = n] /\ framer' = [framer EXCEPT ![c] = f]
      /\ waiting' = [waiting EXCEPT ![c] = @ \o SubSeq(stream[c].packets, framer[c].read + 1, f.read)]
      /\ IF f.threw THEN Close(c) ELSE UNCHANGED <<socket, idle>>
    BY <1>1 DEF f
<1>9. UNCHANGED <<stream, work, ctx, held, stored, pushes, wire, due, agreed>>
    BY DEF Receive
<1>10. SubSeq(stream[c].packets, framer[c].read + 1, f.read) \in Seq(Packet)
    <2>1. \A i \in (framer[c].read + 1)..f.read : stream[c].packets[i] \in Packet
        BY <1>3, <1>7
    <2> QED BY <2>1, <1>7, SubSeqProperties
<1>11. waiting' \in [Conns -> Seq(Packet)]
    <2>1. waiting \in [Conns -> Seq(Packet)]
        BY <1>2 DEF TypeOK
    <2>2. waiting[c] \o SubSeq(stream[c].packets, framer[c].read + 1, f.read) \in Seq(Packet)
        BY <2>1, <1>10, ConcatProperties
    <2> QED BY <2>1, <2>2, <1>8
<1>12. /\ idle' \in [Conns -> [delay : BOOLEAN, armed : BOOLEAN]]
       /\ socket' \in [Conns -> {"open", "closing", "closed"}]
    <2>1. CASE f.threw
        <3>1. /\ socket' = [socket EXCEPT ![c] = IF @ = "open" THEN "closing" ELSE @]
              /\ idle' = IF Open(c) THEN [idle EXCEPT ![c].armed = FALSE] ELSE idle
            BY <2>1, <1>8 DEF Close
        <3> QED BY <3>1, <1>2 DEF TypeOK
    <2>2. CASE ~f.threw
        BY <2>2, <1>2, <1>8 DEF TypeOK
    <2> QED BY <2>1, <2>2
<1>13. received' \in [Conns -> Nat] /\ framer' \in [Conns -> Framer]
    BY <1>2, <1>4, <1>7, <1>8 DEF TypeOK
<1>14. TypeOK'
    BY <1>2, <1>9, <1>11, <1>12, <1>13 DEF TypeOK
<1>15. FramingInv'
    <2>1. \A d \in Conns : Framed(stream[d], framer'[d], received'[d])
        <3> TAKE d \in Conns
        <3>1. CASE d = c
            BY <3>1, <1>2, <1>6, <1>8 DEF TypeOK
        <3>2. CASE d # c
            <4>1. framer'[d] = framer[d] /\ received'[d] = received[d]
                BY <3>2, <1>2, <1>8 DEF TypeOK
            <4> QED BY <4>1, <1>2 DEF FramingInv
        <3> QED BY <3>1, <3>2
    <2> QED BY <2>1, <1>9 DEF FramingInv
<1> QED BY <1>14, <1>15 DEF TypeInv

-----------------------------------------------------------------------------
(***************************************************************************)
(* Numbering a message.                                                    *)
(***************************************************************************)
Ctx == [layer : Nat, noUpdates : BOOLEAN, last : Nat \cup {None}, seq : Nat]

Message(name, v) ==
    [is : {name}, notification : BOOLEAN, content : BOOLEAN, value : {v}, id : Nat, seqNo : Nat, layer : Nat]

IsMessage(m) == \E name, v : m \in Message(name, v)

LEMMA Messages ==
    /\ \A name : IsMessage(Service(name))
    /\ IsMessage(NewSession)
    /\ \A v : IsMessage(Push(v))
    /\ \A x : IsMessage(Result(x))
<1>1. \A name : Service(name) \in Message(name, None)
    BY DEF Message, Service
<1>2. NewSession \in Message("new_session_created", None)
    BY <1>1 DEF NewSession, Message
<1>3. ASSUME NEW v PROVE Push(v) \in Message("push", v)
    <2>1. Service("push") \in Message("push", None)
        BY <1>1
    <2> QED BY <2>1 DEF Push, Message
<1>4. ASSUME NEW x PROVE Result(x) \in Message("rpc_result", Down(Newest, x.layer))
    <2>1. Service("rpc_result") \in Message("rpc_result", None)
        BY <1>1
    <2> QED BY <2>1 DEF Result, Message
<1> QED BY <1>1, <1>2, <1>3, <1>4 DEF IsMessage

LEMMA NextIdFacts ==
    ASSUME NEW last \in Nat \cup {None}, NEW g \in Nat, NEW note \in BOOLEAN
    PROVE  /\ NextId(last, g, note) \in Nat
           /\ NextId(last, g, note) % 4 = (IF note THEN 3 ELSE 1)
           /\ last # None => last < NextId(last, g, note)
<1> DEFINE from == IF last # None /\ g <= last THEN last + 1 ELSE g
           low == IF note THEN 3 ELSE 1
           P(id) == id % 4 = low
<1>1. from \in Nat /\ (last # None => last < from)
    OBVIOUS
<1>2. NextId(last, g, note) = CHOOSE id \in from..(from + 3) : P(id)
    BY DEF NextId
<1> HIDE DEF from
<1>3. \E id \in from..(from + 3) : P(id)
    <2>1. \/ from % 4 = low \/ (from + 1) % 4 = low \/ (from + 2) % 4 = low \/ (from + 3) % 4 = low
        BY <1>1
    <2>2. from \in from..(from + 3) /\ from + 1 \in from..(from + 3)
          /\ from + 2 \in from..(from + 3) /\ from + 3 \in from..(from + 3)
        BY <1>1
    <2> QED BY <2>1, <2>2
<1>4. NextId(last, g, note) \in from..(from + 3) /\ P(NextId(last, g, note))
    BY <1>2, <1>3
<1> QED BY <1>1, <1>4

LEMMA NumberedFacts ==
    ASSUME NEW x \in Ctx, NEW m, IsMessage(m), NEW g \in Generated
    PROVE  /\ Numbered(x, m, g).ctx \in Ctx
           /\ Numbered(x, m, g).ctx.layer = x.layer
           /\ Numbered(x, m, g).ctx.last = Numbered(x, m, g).message.id
           /\ Numbered(x, m, g).ctx.seq = x.seq + (IF m.content THEN 1 ELSE 0)
           /\ Numbered(x, m, g).message.id \in Nat
           /\ x.last # None => x.last < Numbered(x, m, g).message.id
           /\ Numbered(x, m, g).message.id % 4 = (IF m.notification THEN 3 ELSE 1)
           /\ Numbered(x, m, g).message.seqNo = 2 * x.seq + (IF m.content THEN 1 ELSE 0)
           /\ Numbered(x, m, g).message.content = m.content
           /\ Numbered(x, m, g).message.notification = m.notification
<1> DEFINE id == NextId(x.last, g, m.notification)
           odd == IF m.content THEN 1 ELSE 0
           y == [x EXCEPT !.last = id, !.seq = @ + odd]
           k == [m EXCEPT !.id = id, !.seqNo = 2 * x.seq + odd, !.layer = x.layer]
<1>1. Numbered(x, m, g) = [ctx |-> y, message |-> k]
    BY DEF Numbered
<1>2. g \in Nat /\ x.last \in Nat \cup {None} /\ m.notification \in BOOLEAN /\ odd \in Nat /\ x.seq \in Nat
    BY ConnectionAssumption DEF Ctx, IsMessage, Message
<1>3. id \in Nat /\ id % 4 = (IF m.notification THEN 3 ELSE 1) /\ (x.last # None => x.last < id)
    BY <1>2, NextIdFacts
<1> HIDE DEF id
<1>4. y \in Ctx /\ y.layer = x.layer /\ y.last = id /\ y.seq = x.seq + odd
    <2>1. x.seq + odd \in Nat /\ id \in Nat \cup {None}
        BY <1>2, <1>3
    <2> HIDE DEF odd
    <2> QED BY <2>1 DEF Ctx
<1>5. /\ k.id = id /\ k.seqNo = 2 * x.seq + odd
      /\ k.content = m.content /\ k.notification = m.notification
    BY DEF IsMessage, Message
<1> HIDE DEF y, k
<1> QED BY <1>1, <1>3, <1>4, <1>5

-----------------------------------------------------------------------------
(***************************************************************************)
(* The other steps and the types.  None of them touches the stream.        *)
(***************************************************************************)
LEMMA StreamKept ==
    ASSUME TypeInv, UNCHANGED <<stream, received, framer>>
    PROVE  FramingInv'
BY DEF TypeInv, FramingInv

\* What the types say, with names for the record sets.
WorkSet == [at : Places, packet : Packet \cup {None}, layer : Nat, kept : Nat \cup {None}]

Working(w) ==
    /\ w.at # "idle" => w.packet \in Packet
    /\ w.at = "update" => w.packet.is = "withLayer"

Types ==
    /\ waiting \in [Conns -> Seq(Packet)]
    /\ work \in [Conns -> WorkSet]
    /\ \A c \in Conns : Working(work[c])
    /\ ctx \in [Conns -> Ctx]
    /\ idle \in [Conns -> [delay : BOOLEAN, armed : BOOLEAN]]
    /\ socket \in [Conns -> {"open", "closing", "closed"}]
    /\ held \subseteq Conns
    /\ stored \in [Sessions -> Nat \cup {None}] /\ agreed \in [Sessions -> Nat \cup {None}]
    /\ pushes \in 0..MaxPushes

LEMMA TypesOf == TypeInv => Types /\ stream \in Clients
BY DEF TypeInv, TypeOK, Types, WorkSet, Ctx, Working

LEMMA TypesTo ==
    ASSUME TypeInv, Types', UNCHANGED <<stream, received, framer>>
    PROVE  TypeInv'
<1>1. FramingInv'
    BY StreamKept
<1>2. TypeOK'
    BY DEF TypeInv, TypeOK, Types, WorkSet, Ctx, Working
<1> QED BY <1>1, <1>2 DEF TypeInv

LEMMA NothingTyped == Nothing \in WorkSet /\ Working(Nothing)
BY DEF Nothing, WorkSet, Places, Working

LEMMA CloseTypes ==
    ASSUME Types, NEW c \in Conns, Close(c)
    PROVE  /\ idle' \in [Conns -> [delay : BOOLEAN, armed : BOOLEAN]]
           /\ socket' \in [Conns -> {"open", "closing", "closed"}]
BY DEF Types, Close

LEMMA SessionOf ==
    ASSUME TypeInv, NEW c \in Conns
    PROVE  stream[c].session \in Sessions
BY TypesOf, StreamFacts

LEMMA StartTypes ==
    ASSUME TypeInv, NEW c \in Conns, Start(c)
    PROVE  Types'
<1>1. Types /\ stream[c].session \in Sessions
    BY TypesOf, SessionOf
<1> DEFINE p == Head(waiting[c])
           changing == \E d \in Peers(c) :
               work[d].at = "save" \/ (Negotiating(d) /\ work[d].at \in {"update", "forward"})
<1>2. /\ waiting[c] # <<>> /\ waiting' = [waiting EXCEPT ![c] = Tail(@)]
      /\ UNCHANGED <<held, stored, pushes, agreed>>
    BY DEF Start
<1>3. waiting[c] \in Seq(Packet) /\ p \in Packet /\ Tail(waiting[c]) \in Seq(Packet)
    BY <1>1, <1>2 DEF Types
<1>4. waiting' \in [Conns -> Seq(Packet)]
    BY <1>1, <1>2, <1>3 DEF Types
<1>5. CASE p.is = "short"
    <2>1. Close(c) /\ UNCHANGED <<work, ctx>>
        BY <1>5 DEF Start
    <2> QED BY <2>1, <1>1, <1>2, <1>4, CloseTypes DEF Types
<1>6. CASE p.is # "short"
    <2>1. /\ idle' = [idle EXCEPT ![c] = Reset(@)]
          /\ work' = [work EXCEPT ![c] =
                         [at |-> "get", packet |-> p, layer |-> 0,
                          kept |-> IF changing THEN None ELSE agreed[stream[c].session]]]
          /\ ctx' = IF ctx[c].layer = DefaultLayer THEN [ctx EXCEPT ![c].layer = KeyLayer] ELSE ctx
          /\ UNCHANGED socket
        BY <1>6 DEF Start
    <2> HIDE DEF p, changing
    <2>2. work' \in [Conns -> WorkSet] /\ \A d \in Conns : Working(work'[d])
        BY <2>1, <1>1, <1>3 DEF Types, WorkSet, Places, Working
    <2>3. ctx' \in [Conns -> Ctx]
        <3>1. ctx[c] \in Ctx /\ KeyLayer \in Nat
            BY <1>1, ConnectionAssumption DEF Types
        <3>2. [ctx[c] EXCEPT !.layer = KeyLayer] \in Ctx
            BY <3>1 DEF Ctx
        <3>3. ctx' = ctx \/ ctx' = [ctx EXCEPT ![c] = [ctx[c] EXCEPT !.layer = KeyLayer]]
            BY <2>1
        <3> QED BY <3>2, <3>3, <1>1 DEF Types
    <2>4. idle' \in [Conns -> [delay : BOOLEAN, armed : BOOLEAN]]
        BY <2>1, <1>1 DEF Types, Reset
    <2> QED BY <2>1, <2>2, <2>3, <2>4, <1>1, <1>2, <1>4 DEF Types
<1> QED BY <1>5, <1>6

\* The work of a connection changes, and what it holds stays a packet.
LEMMA WorkTypes ==
    ASSUME Types, NEW c \in Conns, NEW w \in WorkSet, Working(w),
           work' = [work EXCEPT ![c] = w]
    PROVE  work' \in [Conns -> WorkSet] /\ \A d \in Conns : Working(work'[d])
BY DEF Types

LEMMA UnsettledTypes ==
    ASSUME NEW w \in [Conns -> WorkSet], \A d \in Conns : Working(w[d]),
           NEW c \in Conns
    PROVE  /\ Unsettled(c, w) \in [Conns -> WorkSet]
           /\ \A d \in Conns : Working(Unsettled(c, w)[d])
<1>1. ASSUME NEW d \in Conns
      PROVE  LET u == IF d \in Peers(c) THEN [w[d] EXCEPT !.kept = None] ELSE w[d]
             IN u \in WorkSet /\ u.at = w[d].at /\ u.packet = w[d].packet
    <2>1. w[d] \in WorkSet
        OBVIOUS
    <2>2. /\ [w[d] EXCEPT !.kept = None] \in WorkSet
          /\ [w[d] EXCEPT !.kept = None].at = w[d].at
          /\ [w[d] EXCEPT !.kept = None].packet = w[d].packet
        BY <2>1 DEF WorkSet
    <2> QED BY <2>1, <2>2
<1> QED BY <1>1 DEF Unsettled, Working

LEMMA DispatchTypes ==
    ASSUME Types, NEW c \in Conns, work[c].at # "idle", NEW x \in Ctx, NEW before, Dispatch(c, x, before)
    PROVE  /\ work' \in [Conns -> WorkSet]
           /\ \A d \in Conns : Working(work'[d])
           /\ ctx' \in [Conns -> Ctx]
           /\ idle' \in [Conns -> [delay : BOOLEAN, armed : BOOLEAN]]
<1>1. work[c] \in WorkSet /\ work[c].packet \in Packet /\ ctx[c] \in Ctx
      /\ ctx \in [Conns -> Ctx] /\ idle \in [Conns -> [delay : BOOLEAN, armed : BOOLEAN]]
    BY DEF Types, Working
<1>2. CASE DispatchQuery(c, x, before)
    <2>1. /\ ctx' = [ctx EXCEPT ![c] = [x EXCEPT !.noUpdates = x.noUpdates \/ work[c].packet.is = "noUpdates"]]
          /\ work' = [work EXCEPT ![c].at = "forward", ![c].layer = x.layer]
          /\ UNCHANGED idle
        BY <1>2 DEF DispatchQuery, Forward
    <2>2. [x EXCEPT !.noUpdates = x.noUpdates \/ work[c].packet.is = "noUpdates"] \in Ctx
        BY DEF Ctx
    <2> DEFINE w == [work[c] EXCEPT !.at = "forward", !.layer = x.layer]
    <2>3. w \in WorkSet /\ Working(w)
        BY <1>1 DEF WorkSet, Places, Ctx, Working
    <2>4. work' = [work EXCEPT ![c] = w]
        BY <2>1, <1>1 DEF Types
    <2> HIDE DEF w
    <2>5. ctx' \in [Conns -> Ctx]
        BY <2>1, <2>2, <1>1
    <2> QED BY <2>1, <2>3, <2>4, <2>5, <1>1, WorkTypes
<1>3. CASE DispatchWithLayer(c, x, before)
    <2>1. /\ work[c].packet.is = "withLayer"
          /\ ctx' = [ctx EXCEPT ![c] = [x EXCEPT !.layer = work[c].packet.layer]]
          /\ work' = Unsettled(c, [work EXCEPT ![c].at = "update"])
          /\ UNCHANGED idle
        BY <1>3 DEF DispatchWithLayer
    <2>2. work[c].packet.layer \in Nat
        BY <2>1, <1>1 DEF Packet
    <2>3. [x EXCEPT !.layer = work[c].packet.layer] \in Ctx
        BY <2>2 DEF Ctx
    <2>4. ctx' \in [Conns -> Ctx]
        BY <2>1, <2>3, <1>1
    <2> DEFINE v == [work EXCEPT ![c].at = "update"]
    <2>5. v \in [Conns -> WorkSet] /\ \A d \in Conns : Working(v[d])
        <3> DEFINE w == [work[c] EXCEPT !.at = "update"]
        <3>1. w \in WorkSet /\ Working(w)
            BY <1>1, <2>1 DEF WorkSet, Places, Working
        <3>2. v = [work EXCEPT ![c] = w]
            OBVIOUS
        <3> HIDE DEF w
        <3> QED BY <3>1, <3>2 DEF Types
    <2> HIDE DEF v
    <2>6. work' = Unsettled(c, v)
        BY <2>1 DEF v
    <2>7. work' \in [Conns -> WorkSet] /\ \A d \in Conns : Working(work'[d])
        BY <2>5, <2>6, UnsettledTypes
    <2>8. idle' = idle
        BY <2>1
    <2> QED BY <2>4, <2>7, <2>8, <1>1
<1>4. CASE DispatchPing(c, x, before)
    <2>1. /\ work[c].packet.is = "ping"
          /\ idle' = [idle EXCEPT ![c] = Reset([@ EXCEPT !.delay = work[c].packet.delay])]
          /\ Send(c, x, before, Service("pong"))
          /\ work' = [work EXCEPT ![c] = Nothing]
        BY <1>4 DEF DispatchPing, Done
    <2>2. work[c].packet.delay \in BOOLEAN
        BY <2>1, <1>1 DEF Packet
    <2>3. idle' \in [Conns -> [delay : BOOLEAN, armed : BOOLEAN]]
        BY <2>1, <2>2, <1>1 DEF Reset
    <2>4. PICK generated \in Generated : ctx' = [ctx EXCEPT ![c] = Numbered(x, Service("pong"), generated).ctx]
        BY <2>1 DEF Send
    <2>5. Numbered(x, Service("pong"), generated).ctx \in Ctx
        BY Messages, NumberedFacts
    <2>6. ctx' \in [Conns -> Ctx]
        BY <2>4, <2>5, <1>1
    <2> QED BY <2>1, <2>3, <2>6, NothingTyped, WorkTypes
<1> QED BY <1>2, <1>3, <1>4 DEF Dispatch

LEMMA GetSessionTypes ==
    ASSUME TypeInv, NEW c \in Conns, GetSession(c)
    PROVE  Types'
<1>1. Types /\ stream[c].session \in Sessions
    BY TypesOf, SessionOf
<1> DEFINE layer == stored[stream[c].session]
           w == IF layer # None THEN [work[c] EXCEPT !.at = "touch", !.layer = layer]
                                ELSE [work[c] EXCEPT !.at = "save"]
<1>2. work[c] \in WorkSet /\ work[c].packet \in Packet /\ layer \in Nat \cup {None}
    BY <1>1 DEF Types, GetSession, Working
<1>3. work' = [work EXCEPT ![c] = w]
      /\ UNCHANGED <<waiting, ctx, idle, socket, held, stored, pushes, agreed>>
    BY DEF GetSession
<1>4. w \in WorkSet /\ Working(w)
    BY <1>2 DEF WorkSet, Places, Working
<1> HIDE DEF w
<1>5. work' \in [Conns -> WorkSet] /\ \A d \in Conns : Working(work'[d])
    BY <1>1, <1>3, <1>4, WorkTypes
<1> QED BY <1>1, <1>3, <1>5 DEF Types

LEMMA TouchSessionTypes ==
    ASSUME TypeInv, NEW c \in Conns, TouchSession(c)
    PROVE  Types'
<1>1. Types
    BY TypesOf
<1>2. /\ work[c].at = "touch" /\ held' = held \cup {c}
      /\ Dispatch(c, [ctx[c] EXCEPT !.layer = work[c].layer], <<>>)
      /\ UNCHANGED <<waiting, socket, stored, pushes, agreed>>
    BY DEF TouchSession, Restored
<1>3. [ctx[c] EXCEPT !.layer = work[c].layer] \in Ctx
    <2>1. ctx[c] \in Ctx /\ work[c] \in WorkSet
        BY <1>1 DEF Types
    <2>2. work[c].layer \in Nat
        BY <2>1 DEF WorkSet
    <2> DEFINE x == ctx[c]
               l == work[c].layer
    <2>3. x \in Ctx /\ l \in Nat
        BY <2>1, <2>2
    <2> HIDE DEF x, l
    <2>4. [x EXCEPT !.layer = l] \in Ctx
        BY <2>3 DEF Ctx
    <2> QED BY <2>4 DEF x, l
<1>4. /\ work' \in [Conns -> WorkSet]
      /\ \A d \in Conns : Working(work'[d])
      /\ ctx' \in [Conns -> Ctx]
      /\ idle' \in [Conns -> [delay : BOOLEAN, armed : BOOLEAN]]
    BY <1>1, <1>2, <1>3, DispatchTypes
<1> QED BY <1>1, <1>2, <1>4 DEF Types

LEMMA SaveSessionTypes ==
    ASSUME TypeInv, NEW c \in Conns, SaveSession(c)
    PROVE  Types'
<1>1. Types /\ stream[c].session \in Sessions
    BY TypesOf, SessionOf
<1> DEFINE v == [work EXCEPT ![c].at = "saved", ![c].kept = None]
<1>2. /\ work[c].at = "save"
      /\ stored' = [stored EXCEPT ![stream[c].session] = ctx[c].layer]
      /\ agreed' = [agreed EXCEPT ![stream[c].session] = None]
      /\ work' = Unsettled(c, v)
      /\ UNCHANGED <<waiting, ctx, idle, socket, held, pushes>>
    BY DEF SaveSession
<1>3. v \in [Conns -> WorkSet] /\ \A d \in Conns : Working(v[d])
    <2> DEFINE w == [work[c] EXCEPT !.at = "saved", !.kept = None]
    <2>1. work[c] \in WorkSet /\ work[c].packet \in Packet
        BY <1>1, <1>2 DEF Types, Working
    <2>2. w \in WorkSet /\ Working(w)
        BY <2>1 DEF WorkSet, Places, Working
    <2>3. v = [work EXCEPT ![c] = w]
        BY <1>1 DEF Types
    <2> HIDE DEF w
    <2> QED BY <1>1, <2>2, <2>3 DEF Types
<1> HIDE DEF v
<1>4. work' \in [Conns -> WorkSet] /\ \A d \in Conns : Working(work'[d])
    BY <1>2, <1>3, UnsettledTypes
<1>5. stored' \in [Sessions -> Nat \cup {None}] /\ agreed' \in [Sessions -> Nat \cup {None}]
    BY <1>1, <1>2 DEF Types, Ctx
<1> QED BY <1>1, <1>2, <1>4, <1>5 DEF Types

LEMMA AnnounceTypes ==
    ASSUME TypeInv, NEW c \in Conns, Announce(c)
    PROVE  Types'
<1>1. Types
    BY TypesOf
<1>2. /\ work[c].at = "saved" /\ held' = held \cup {c}
      /\ UNCHANGED <<waiting, socket, stored, pushes, agreed>>
    BY DEF Announce
<1>3. PICK generated \in Generated :
        Dispatch(c, Numbered(ctx[c], NewSession, generated).ctx, <<Numbered(ctx[c], NewSession, generated).message>>)
    BY DEF Announce
<1>4. Numbered(ctx[c], NewSession, generated).ctx \in Ctx
    BY <1>1, Messages, NumberedFacts DEF Types
<1>5. /\ work' \in [Conns -> WorkSet]
      /\ \A d \in Conns : Working(work'[d])
      /\ ctx' \in [Conns -> Ctx]
      /\ idle' \in [Conns -> [delay : BOOLEAN, armed : BOOLEAN]]
    BY <1>1, <1>2, <1>3, <1>4, DispatchTypes
<1> QED BY <1>1, <1>2, <1>5 DEF Types

LEMMA UpdateSessionTypes ==
    ASSUME TypeInv, NEW c \in Conns, UpdateSession(c)
    PROVE  Types'
<1>1. Types /\ stream[c].session \in Sessions
    BY TypesOf, SessionOf
<1> DEFINE w == [work[c] EXCEPT !.at = "forward", !.layer = ctx[c].layer]
<1>2. /\ work[c].at = "update"
      /\ stored' = [stored EXCEPT ![stream[c].session] = work[c].packet.layer]
      /\ work' = [work EXCEPT ![c].at = "forward", ![c].layer = ctx[c].layer]
      /\ UNCHANGED <<waiting, ctx, idle, socket, held, pushes, agreed>>
    BY DEF UpdateSession, Forward
<1>3. /\ work[c] \in WorkSet /\ work[c].packet \in Packet /\ work[c].packet.is = "withLayer"
      /\ ctx[c].layer \in Nat
    BY <1>1, <1>2 DEF Types, Ctx, Working
<1>4. work[c].packet.layer \in Nat
    BY <1>3 DEF Packet
<1>5. w \in WorkSet /\ Working(w)
    BY <1>3 DEF WorkSet, Places, Working
<1>6. work' = [work EXCEPT ![c] = w]
    BY <1>1, <1>2 DEF Types
<1> HIDE DEF w
<1>7. work' \in [Conns -> WorkSet] /\ \A d \in Conns : Working(work'[d])
    BY <1>1, <1>5, <1>6, WorkTypes
<1>8. stored' \in [Sessions -> Nat \cup {None}]
    BY <1>1, <1>2, <1>4 DEF Types
<1> QED BY <1>1, <1>2, <1>7, <1>8 DEF Types

LEMMA AnswerTypes ==
    ASSUME TypeInv, NEW c \in Conns, Answer(c)
    PROVE  Types'
<1>1. Types /\ stream[c].session \in Sessions
    BY TypesOf, SessionOf
<1>2. /\ Send(c, ctx[c], <<>>, Result(ctx[c]))
      /\ agreed' = IF Negotiating(c)
                   THEN [agreed EXCEPT ![stream[c].session] = stored[stream[c].session]] ELSE agreed
      /\ work' = [work EXCEPT ![c] = Nothing]
      /\ UNCHANGED <<waiting, idle, socket, held, stored, pushes>>
    BY DEF Answer, Done
<1>3. PICK generated \in Generated : ctx' = [ctx EXCEPT ![c] = Numbered(ctx[c], Result(ctx[c]), generated).ctx]
    BY <1>2 DEF Send
<1>4. Numbered(ctx[c], Result(ctx[c]), generated).ctx \in Ctx
    BY <1>1, Messages, NumberedFacts DEF Types
<1>5. ctx' \in [Conns -> Ctx]
    BY <1>1, <1>3, <1>4 DEF Types
<1>6. work' \in [Conns -> WorkSet] /\ \A d \in Conns : Working(work'[d])
    BY <1>1, <1>2, NothingTyped, WorkTypes
<1>7. agreed' \in [Sessions -> Nat \cup {None}]
    BY <1>1, <1>2 DEF Types
<1> QED BY <1>1, <1>2, <1>5, <1>6, <1>7 DEF Types

LEMMA StorageFailsTypes ==
    ASSUME TypeInv, NEW c \in Conns, StorageFails(c)
    PROVE  Types'
<1>1. Types
    BY TypesOf
<1>2. /\ work' = [work EXCEPT ![c] = Nothing]
      /\ UNCHANGED <<waiting, ctx, idle, socket, held, stored, pushes, agreed>>
    BY DEF StorageFails, Done
<1>3. work' \in [Conns -> WorkSet] /\ \A d \in Conns : Working(work'[d])
    BY <1>1, <1>2, NothingTyped, WorkTypes
<1> QED BY <1>1, <1>2, <1>3 DEF Types

\* What a push does, one connection at a time.
LEMMA DeliverFacts ==
    ASSUME NEW v \in Updates, Deliver(v), TypeInv
    PROVE  \A c \in Conns :
            \/ ctx'[c] = ctx[c] /\ wire'[c] = wire[c]
            \/ \E generated \in Generated : \E m :
                /\ IsMessage(m)
                /\ ctx'[c] = Numbered(ctx[c], m, generated).ctx
                /\ wire'[c] = IF Open(c) THEN Append(wire[c], Numbered(ctx[c], m, generated).message) ELSE wire[c]
<1> DEFINE to == {c \in held : ~ctx[c].noUpdates}
           given(c) == Rendered(Lowered(v, ctx[c].layer), ctx[c].layer)
           served == {c \in to : given(c) # {}}
<1>1. PICK generated \in [served -> Generated], body \in [served -> UNION {given(c) : c \in served}] :
        /\ ctx' = [c \in Conns |-> IF c \in served THEN Numbered(ctx[c], Push(body[c]), generated[c]).ctx ELSE ctx[c]]
        /\ wire' = [c \in Conns |-> IF c \in served /\ Open(c)
                                    THEN Append(wire[c], Numbered(ctx[c], Push(body[c]), generated[c]).message)
                                    ELSE wire[c]]
    BY ZenonT(40) DEF Deliver
<1> HIDE DEF served
<1> TAKE c \in Conns
<1>2. CASE c \in served
    <2>1. generated[c] \in Generated /\ IsMessage(Push(body[c]))
        BY <1>2, Messages
    <2>2. /\ ctx'[c] = Numbered(ctx[c], Push(body[c]), generated[c]).ctx
          /\ wire'[c] = IF Open(c) THEN Append(wire[c], Numbered(ctx[c], Push(body[c]), generated[c]).message)
                        ELSE wire[c]
        BY <1>1, <1>2
    <2> QED BY <2>1, <2>2
<1>3. CASE c \notin served
    BY <1>1, <1>3
<1> QED BY <1>2, <1>3

LEMMA DeliverTypes ==
    ASSUME TypeInv, NEW v \in Updates, Deliver(v)
    PROVE  Types'
<1>1. Types
    BY TypesOf
<1>2. /\ pushes < MaxPushes /\ pushes' = pushes + 1
      /\ UNCHANGED <<waiting, work, idle, socket, held, stored, agreed>>
    BY DEF Deliver
<1>3. ctx' \in [Conns -> Ctx]
    <2>1. \E F \in {[c \in Conns |-> ctx'[c]]} : ctx' = F
        BY DEF Deliver
    <2>2. ASSUME NEW c \in Conns PROVE ctx'[c] \in Ctx
        <3>1. ctx[c] \in Ctx
            BY <1>1 DEF Types
        <3>2. CASE ctx'[c] = ctx[c]
            BY <3>1, <3>2
        <3>3. CASE \E generated \in Generated : \E m : IsMessage(m) /\ ctx'[c] = Numbered(ctx[c], m, generated).ctx
            BY <3>1, <3>3, NumberedFacts
        <3> QED BY <3>2, <3>3, DeliverFacts
    <2> QED BY <2>1, <2>2
<1>4. pushes' \in 0..MaxPushes
    BY <1>1, <1>2, ConnectionAssumption DEF Types
<1> QED BY <1>1, <1>2, <1>3, <1>4 DEF Types

LEMMA SocketTypes ==
    ASSUME TypeInv, NEW c \in Conns, IdleTimeout(c) \/ SocketClose(c)
    PROVE  Types'
<1>1. Types
    BY TypesOf
<1>2. CASE IdleTimeout(c)
    BY <1>1, <1>2 DEF Types, IdleTimeout
<1>3. CASE SocketClose(c)
    BY <1>1, <1>3 DEF Types, SocketClose
<1> QED BY <1>2, <1>3

LEMMA NextTypes == TypeInv /\ [Next]_vars => TypeInv'
<1> SUFFICES ASSUME TypeInv, [Next]_vars PROVE TypeInv'
    OBVIOUS
<1>1. ASSUME NEW c \in Conns, Receive(c) PROVE TypeInv'
    BY <1>1, ReceiveTypes
<1>2. ASSUME NEW c \in Conns, Process(c) PROVE TypeInv'
    <2>1. UNCHANGED <<stream, received, framer>>
        BY <1>2 DEF Process, Start, GetSession, TouchSession, SaveSession, Announce, UpdateSession, Answer,
                    StorageFails, conn
    <2>2. Types'
        BY <1>2, StartTypes, GetSessionTypes, TouchSessionTypes, SaveSessionTypes, AnnounceTypes,
           UpdateSessionTypes, AnswerTypes, StorageFailsTypes DEF Process
    <2> QED BY <2>1, <2>2, TypesTo
<1>3. ASSUME NEW c \in Conns, IdleTimeout(c) \/ SocketClose(c) PROVE TypeInv'
    <2>1. UNCHANGED <<stream, received, framer>>
        BY <1>3 DEF IdleTimeout, SocketClose, conn
    <2> QED BY <2>1, <1>3, SocketTypes, TypesTo
<1>4. ASSUME NEW v \in Updates, Deliver(v) PROVE TypeInv'
    <2>1. UNCHANGED <<stream, received, framer>>
        BY <1>4 DEF Deliver, conn
    <2> QED BY <2>1, <1>4, DeliverTypes, TypesTo
<1>5. CASE UNCHANGED vars
    BY <1>5, TypesOf, TypesTo DEF vars, conn, Types
<1> QED BY <1>1, <1>2, <1>3, <1>4, <1>5 DEF Next

THEOREM TypeCorrect == Spec => []TypeOK
<1>1. TypeInv => TypeOK
    BY DEF TypeInv
<1> QED BY <1>1, InitTypes, NextTypes, PTL DEF Spec

\* However the bytes are cut into chunks, the packets a connection has read are those
\* that are whole in what has come.  (parseProxyHeader, Framing.feed)
THEOREM ChunksNeverMatter == Spec => []ChunksDoNotMatter
<1>1. TypeInv => ChunksDoNotMatter
    <2> SUFFICES ASSUME TypeInv, NEW c \in Conns, ~framer[c].threw
                 PROVE  framer[c].read = WholeIn(stream[c], received[c])
        BY DEF ChunksDoNotMatter
    <2>1. IsStream(stream[c])
        BY TypesOf, StreamFacts
    <2>2. Framed(stream[c], framer[c], received[c])
        BY DEF TypeInv, FramingInv
    <2> QED BY <2>1, <2>2, FramedIsExact
<1> QED BY <1>1, InitTypes, NextTypes, PTL DEF Spec

-----------------------------------------------------------------------------
(***************************************************************************)
(* Numbers on the wire.  As long as a connection is open, what it sent and *)
(* its context agree; a closed one goes on counting and sends nothing.     *)
(***************************************************************************)
Contents(w, k) == {j \in 1..k : w[j].content}

Numbering(w) ==
    \A i \in DOMAIN w :
        /\ \A j \in 1..(i - 1) : w[j].id < w[i].id
        /\ w[i].id % 4 = (IF w[i].notification THEN 3 ELSE 1)
        /\ w[i].seqNo = 2 * Cardinality(Contents(w, i - 1)) + (IF w[i].content THEN 1 ELSE 0)

Line(w, x, isOpen) ==
    /\ \E S : w \in Seq(S)
    /\ \A i \in DOMAIN w : w[i].id \in Nat /\ w[i].content \in BOOLEAN
    /\ Numbering(w)
    /\ isOpen => /\ \A i \in DOMAIN w : x.last # None /\ w[i].id <= x.last
                 /\ x.seq = Cardinality(Contents(w, Len(w)))

WireInv ==
    /\ DOMAIN wire = Conns
    /\ \A c \in Conns : Line(wire[c], ctx[c], Open(c))

LEMMA NumberedIffLine ==
    ASSUME WireInv
    PROVE  WireNumbered
BY DEF WireInv, Line, Numbering, Contents, WireNumbered

LEMMA CountContents ==
    ASSUME NEW w, NEW k \in Nat, NEW m, w[k + 1].content \in BOOLEAN
    PROVE  /\ Cardinality(Contents(w, k)) \in Nat
           /\ Cardinality(Contents(w, k + 1)) = Cardinality(Contents(w, k)) + (IF w[k + 1].content THEN 1 ELSE 0)
<1>1. IsFiniteSet(1..k)
    BY FS_Interval
<1>2. IsFiniteSet(Contents(w, k))
    BY <1>1, FS_Subset DEF Contents
<1>3. Cardinality(Contents(w, k)) \in Nat
    BY <1>2, FS_CardinalityType
<1>4. CASE w[k + 1].content
    <2>1. Contents(w, k + 1) = Contents(w, k) \cup {k + 1} /\ k + 1 \notin Contents(w, k)
        BY <1>4 DEF Contents
    <2>2. Cardinality(Contents(w, k) \cup {k + 1}) = Cardinality(Contents(w, k)) + 1
        BY <1>2, <2>1, FS_AddElement
    <2> QED BY <2>1, <2>2, <1>3, <1>4
<1>5. CASE ~w[k + 1].content
    <2>1. Contents(w, k + 1) = Contents(w, k)
        BY <1>5 DEF Contents
    <2> QED BY <2>1, <1>3, <1>5
<1> QED BY <1>3, <1>4, <1>5

LEMMA LineKeeps ==
    ASSUME NEW w, NEW x, NEW y, NEW isOpen \in BOOLEAN, NEW stays \in BOOLEAN, stays => isOpen,
           Line(w, x, isOpen), y.last = x.last, y.seq = x.seq
    PROVE  Line(w, y, stays)
BY DEF Line

\* A message more, numbered from a context that agrees with what was sent.
LEMMA LineExtends ==
    ASSUME NEW w, NEW x \in Ctx, Line(w, x, TRUE), NEW m, IsMessage(m), NEW g \in Generated
    PROVE  Line(Append(w, Numbered(x, m, g).message), Numbered(x, m, g).ctx, TRUE)
<1> DEFINE k == Numbered(x, m, g).message
           y == Numbered(x, m, g).ctx
           v == Append(w, k)
<1>1. /\ y.last = k.id /\ y.seq = x.seq + (IF m.content THEN 1 ELSE 0) /\ k.id \in Nat
      /\ x.last # None => x.last < k.id
      /\ k.id % 4 = (IF m.notification THEN 3 ELSE 1)
      /\ k.seqNo = 2 * x.seq + (IF m.content THEN 1 ELSE 0)
      /\ k.content = m.content /\ k.notification = m.notification
    BY NumberedFacts
<1>2. m.content \in BOOLEAN /\ x.seq \in Nat /\ x.last \in Nat \cup {None} /\ None \notin Nat
    BY ConnectionAssumption DEF IsMessage, Message, Ctx
<1> HIDE DEF k, y
<1>3. PICK S : w \in Seq(S)
    BY DEF Line
<1>4. /\ \A i \in DOMAIN w : w[i].id \in Nat /\ w[i].content \in BOOLEAN /\ w[i].id <= x.last /\ x.last # None
      /\ Numbering(w) /\ x.seq = Cardinality(Contents(w, Len(w)))
    BY DEF Line
<1>5. w \in Seq(S \cup {k}) /\ v \in Seq(S \cup {k}) /\ Len(w) \in Nat
    BY <1>3
<1>6. /\ DOMAIN w = 1..Len(w) /\ DOMAIN v = 1..(Len(w) + 1) /\ Len(v) = Len(w) + 1
      /\ \A i \in 1..Len(w) : v[i] = w[i]
      /\ v[Len(w) + 1] = k
    BY <1>5
<1> HIDE DEF v
<1>7. \A i \in DOMAIN v : v[i].id \in Nat /\ v[i].content \in BOOLEAN
    <2> SUFFICES ASSUME NEW i \in DOMAIN v PROVE v[i].id \in Nat /\ v[i].content \in BOOLEAN
        OBVIOUS
    <2>1. CASE i \in 1..Len(w)
        BY <2>1, <1>4, <1>6
    <2>2. CASE i = Len(w) + 1
        BY <2>2, <1>1, <1>2, <1>6
    <2> QED BY <2>1, <2>2, <1>5, <1>6
<1>8. \A n \in 0..Len(w) : Contents(v, n) = Contents(w, n)
    BY <1>6, <1>5 DEF Contents
<1>9. Numbering(v)
    <2> SUFFICES ASSUME NEW i \in DOMAIN v
                 PROVE  /\ \A j \in 1..(i - 1) : v[j].id < v[i].id
                        /\ v[i].id % 4 = (IF v[i].notification THEN 3 ELSE 1)
                        /\ v[i].seqNo = 2 * Cardinality(Contents(v, i - 1)) + (IF v[i].content THEN 1 ELSE 0)
        BY DEF Numbering
    <2>1. CASE i \in 1..Len(w)
        <3>1. v[i] = w[i] /\ i \in DOMAIN w /\ i - 1 \in 0..Len(w)
            BY <2>1, <1>5, <1>6
        <3>2. /\ \A j \in 1..(i - 1) : w[j].id < w[i].id
              /\ w[i].id % 4 = (IF w[i].notification THEN 3 ELSE 1)
              /\ w[i].seqNo = 2 * Cardinality(Contents(w, i - 1)) + (IF w[i].content THEN 1 ELSE 0)
            BY <3>1, <1>4 DEF Numbering
        <3>3. \A j \in 1..(i - 1) : v[j] = w[j]
            BY <2>1, <1>5, <1>6
        <3>4. Contents(v, i - 1) = Contents(w, i - 1)
            BY <3>1, <1>8
        <3> QED BY <3>1, <3>2, <3>3, <3>4
    <2>2. CASE i = Len(w) + 1
        <3>1. v[i] = k /\ i - 1 = Len(w)
            BY <2>2, <1>5, <1>6
        <3>2. Contents(v, i - 1) = Contents(w, Len(w))
            BY <3>1, <1>5, <1>8
        <3>3. \A j \in 1..(i - 1) : v[j].id < k.id
            <4> SUFFICES ASSUME NEW j \in 1..(i - 1) PROVE v[j].id < k.id
                OBVIOUS
            <4>1. v[j] = w[j] /\ j \in DOMAIN w
                BY <3>1, <1>6
            <4> QED BY <4>1, <1>1, <1>2, <1>4
        <3> QED BY <3>1, <3>2, <3>3, <1>1, <1>4
    <2> QED BY <2>1, <2>2, <1>5, <1>6
<1>10. \A i \in DOMAIN v : y.last # None /\ v[i].id <= y.last
    <2> SUFFICES ASSUME NEW i \in DOMAIN v PROVE y.last # None /\ v[i].id <= y.last
        OBVIOUS
    <2>1. CASE i \in 1..Len(w)
        BY <2>1, <1>1, <1>2, <1>4, <1>6
    <2>2. CASE i = Len(w) + 1
        BY <2>2, <1>1, <1>2, <1>6
    <2> QED BY <2>1, <2>2, <1>5, <1>6
<1>11. y.seq = Cardinality(Contents(v, Len(v)))
    <2>1. v[Len(w) + 1].content \in BOOLEAN
        BY <1>1, <1>2, <1>6
    <2>2. Cardinality(Contents(v, Len(w) + 1)) = Cardinality(Contents(v, Len(w))) + (IF k.content THEN 1 ELSE 0)
        BY <2>1, <1>5, <1>6, CountContents
    <2>3. Contents(v, Len(w)) = Contents(w, Len(w))
        BY <1>5, <1>8
    <2> QED BY <2>2, <2>3, <1>1, <1>4, <1>6
<1>12. Line(v, y, TRUE)
    BY <1>5, <1>7, <1>9, <1>10, <1>11 DEF Line
<1> QED BY <1>12 DEF v, k, y

\* The messages of a turn are written at once.
LEMMA AppendedAfter ==
    ASSUME NEW S, NEW w \in Seq(S), NEW b \in Seq(S), NEW m \in S
    PROVE  w \o Append(b, m) = Append(w \o b, m)
<1>1. <<m>> \in Seq(S) /\ w \o b \in Seq(S)
    BY ConcatProperties
<1>2. Append(b, m) = b \o <<m>> /\ Append(w \o b, m) = (w \o b) \o <<m>>
    BY <1>1, AppendIsConcat
<1> QED BY <1>1, <1>2, ConcatAssociative

LEMMA LineInit == Init => WireInv
<1> SUFFICES ASSUME Init PROVE WireInv
    OBVIOUS
<1>1. DOMAIN wire = Conns
    BY DEF Init
<1>2. ASSUME NEW c \in Conns PROVE Line(wire[c], ctx[c], Open(c))
    <2>1. wire[c] = <<>> /\ ctx[c].seq = 0
        BY DEF Init
    <2>2. <<>> \in Seq({}) /\ Len(<<>>) = 0 /\ DOMAIN <<>> = {}
        OBVIOUS
    <2>3. Contents(<<>>, 0) = {}
        BY DEF Contents
    <2>4. Cardinality({}) = 0
        BY FS_EmptySet
    <2> QED BY <2>1, <2>2, <2>3, <2>4 DEF Line, Numbering
<1> QED BY <1>1, <1>2 DEF WireInv

\* Steps that send nothing.
LEMMA QuietLine ==
    ASSUME WireInv, UNCHANGED wire,
           \A c \in Conns : /\ ctx'[c].last = ctx[c].last /\ ctx'[c].seq = ctx[c].seq
                            /\ Open(c)' => Open(c)
    PROVE  WireInv'
<1>1. ASSUME NEW c \in Conns PROVE Line(wire'[c], ctx'[c], Open(c)')
    <2>1. Line(wire[c], ctx[c], Open(c))
        BY DEF WireInv
    <2>2. Open(c) \in BOOLEAN /\ Open(c)' \in BOOLEAN
        BY DEF Open
    <2>3. Line(wire[c], ctx'[c], Open(c)')
        BY <2>1, <2>2, LineKeeps
    <2> QED BY <2>3
<1> QED BY <1>1 DEF WireInv

\* Steps in which one connection sends.
LEMMA SendingLine ==
    ASSUME WireInv, NEW c \in Conns, UNCHANGED socket, DOMAIN wire' = Conns,
           \A d \in Conns \ {c} : wire'[d] = wire[d] /\ ctx'[d] = ctx[d],
           Line(wire'[c], ctx'[c], Open(c))
    PROVE  WireInv'
BY DEF WireInv, Open

\* A message is sent after those of before, from the context they left.
LEMMA SendLine ==
    ASSUME WireInv, Types, NEW c \in Conns, NEW x \in Ctx, NEW S, NEW before \in Seq(S),
           Open(c) => Line(wire[c] \o before, x, TRUE),
           NEW m, IsMessage(m), Send(c, x, before, m)
    PROVE  /\ DOMAIN wire' = Conns
           /\ \A d \in Conns \ {c} : wire'[d] = wire[d] /\ ctx'[d] = ctx[d]
           /\ Line(wire'[c], ctx'[c], Open(c))
<1>1. PICK g \in Generated :
        /\ ctx' = [ctx EXCEPT ![c] = Numbered(x, m, g).ctx]
        /\ wire' = IF Open(c) THEN [wire EXCEPT ![c] = @ \o Append(before, Numbered(x, m, g).message)] ELSE wire
    BY DEF Send, Written
<1>2. DOMAIN wire = Conns /\ ctx \in [Conns -> Ctx] /\ Line(wire[c], ctx[c], Open(c))
    BY DEF WireInv, Types
<1> DEFINE k == Numbered(x, m, g).message
<1>3. CASE Open(c)
    <2>1. wire'[c] = wire[c] \o Append(before, k) /\ ctx'[c] = Numbered(x, m, g).ctx
        BY <1>1, <1>2, <1>3
    <2>2. PICK T : wire[c] \in Seq(T)
        BY <1>2 DEF Line
    <2> HIDE DEF k
    <2> DEFINE all == T \cup S \cup {k}
    <2>3. wire[c] \in Seq(all) /\ before \in Seq(all) /\ k \in all
        BY <2>2
    <2> HIDE DEF all
    <2>4. wire[c] \o Append(before, k) = Append(wire[c] \o before, k)
        <3>1. \A w, b \in Seq(all), e \in all : w \o Append(b, e) = Append(w \o b, e)
            BY AppendedAfter
        <3> QED BY ONLY <2>3, <3>1, Zenon
    <2>5. Line(Append(wire[c] \o before, k), Numbered(x, m, g).ctx, TRUE)
        BY <1>3, LineExtends DEF k
    <2>6. Line(wire'[c], ctx'[c], Open(c))
        BY <2>1, <2>4, <2>5, <1>3
    <2> QED BY <2>6, <1>1, <1>2, <1>3
<1>4. CASE ~Open(c)
    <2>1. wire' = wire
        BY <1>1, <1>4
    <2>2. Line(wire[c], ctx'[c], FALSE)
        BY <1>2, <1>4 DEF Line
    <2>3. \A d \in Conns \ {c} : ctx'[d] = ctx[d]
        BY <1>1, <1>2
    <2>4. Line(wire'[c], ctx'[c], Open(c))
        BY <2>1, <2>2, <1>4 DEF Line
    <2> QED BY <2>1, <2>3, <2>4, <1>2
<1> QED BY <1>3, <1>4

\* The dispatch of a packet, after the messages of before.
LEMMA DispatchLine ==
    ASSUME WireInv, Types, NEW c \in Conns, NEW x \in Ctx, NEW S, NEW before \in Seq(S),
           Open(c) => Line(wire[c] \o before, x, TRUE),
           Dispatch(c, x, before), UNCHANGED socket
    PROVE  WireInv'
<1>1. DOMAIN wire = Conns /\ ctx \in [Conns -> Ctx] /\ Line(wire[c], ctx[c], Open(c))
    BY DEF WireInv, Types
<1>2. CASE DispatchPing(c, x, before)
    <2>1. Send(c, x, before, Service("pong"))
        BY <1>2 DEF DispatchPing
    <2>2. IsMessage(Service("pong"))
        BY Messages
    <2> QED BY <2>1, <2>2, SendLine, SendingLine
<1>3. CASE DispatchQuery(c, x, before) \/ DispatchWithLayer(c, x, before)
    <2>1. /\ wire' = IF Open(c) THEN [wire EXCEPT ![c] = @ \o before] ELSE wire
          /\ \E y : ctx' = [ctx EXCEPT ![c] = y] /\ y.last = x.last /\ y.seq = x.seq
        <3>1. CASE DispatchQuery(c, x, before)
            <4> DEFINE y == [x EXCEPT !.noUpdates = x.noUpdates \/ work[c].packet.is = "noUpdates"]
            <4>1. ctx' = [ctx EXCEPT ![c] = y]
                BY <3>1 DEF DispatchQuery
            <4>2. y.last = x.last /\ y.seq = x.seq
                BY DEF Ctx
            <4> HIDE DEF y
            <4> QED BY <3>1, <4>1, <4>2 DEF DispatchQuery, Written
        <3>2. CASE DispatchWithLayer(c, x, before)
            <4> DEFINE y == [x EXCEPT !.layer = work[c].packet.layer]
            <4>1. ctx' = [ctx EXCEPT ![c] = y]
                BY <3>2 DEF DispatchWithLayer
            <4>2. y.last = x.last /\ y.seq = x.seq
                BY DEF Ctx
            <4> HIDE DEF y
            <4> QED BY <3>2, <4>1, <4>2 DEF DispatchWithLayer, Written
        <3> QED BY <1>3, <3>1, <3>2
    <2>2. PICK y : ctx' = [ctx EXCEPT ![c] = y] /\ y.last = x.last /\ y.seq = x.seq
        BY <2>1
    <2>3. CASE Open(c)
        <3>1. wire'[c] = wire[c] \o before /\ ctx'[c] = y
            BY <1>1, <2>1, <2>2, <2>3
        <3>2. Line(wire[c] \o before, y, TRUE)
            BY <2>2, <2>3, LineKeeps
        <3>3. Line(wire'[c], ctx'[c], Open(c))
            BY <3>1, <3>2, <2>3
        <3> QED BY <3>3, <1>1, <2>1, <2>2, <2>3, SendingLine
    <2>4. CASE ~Open(c)
        <3>1. wire' = wire
            BY <2>1, <2>4
        <3>2. Line(wire'[c], ctx'[c], Open(c))
            BY <3>1, <1>1, <2>4 DEF Line
        <3> QED BY <3>1, <3>2, <1>1, <2>2, SendingLine
    <2> QED BY <2>3, <2>4
<1> QED BY <1>2, <1>3 DEF Dispatch

LEMMA TouchSessionLine ==
    ASSUME WireInv, TypeInv, NEW c \in Conns, TouchSession(c)
    PROVE  WireInv'
<1>1. Types
    BY TypesOf
<1> DEFINE x == [ctx[c] EXCEPT !.layer = work[c].layer]
<1>2. Dispatch(c, x, <<>>) /\ UNCHANGED socket
    BY DEF TouchSession, Restored
<1>3. x \in Ctx /\ x.last = ctx[c].last /\ x.seq = ctx[c].seq
    BY <1>1 DEF Types, Ctx, WorkSet
<1> HIDE DEF x
<1>4. PICK S : wire[c] \in Seq(S)
    BY DEF WireInv, Line
<1>5. wire[c] \o <<>> = wire[c] /\ <<>> \in Seq({})
    BY <1>4, ConcatEmptySeq
<1>6. Open(c) => Line(wire[c], x, TRUE)
    BY <1>3 DEF WireInv, Line
<1> QED BY <1>1, <1>2, <1>3, <1>5, <1>6, DispatchLine

LEMMA AnnounceLine ==
    ASSUME WireInv, TypeInv, NEW c \in Conns, Announce(c)
    PROVE  WireInv'
<1>1. Types /\ ctx[c] \in Ctx
    BY TypesOf DEF Types
<1>2. PICK g \in Generated :
        Dispatch(c, Numbered(ctx[c], NewSession, g).ctx, <<Numbered(ctx[c], NewSession, g).message>>)
    BY DEF Announce
<1> DEFINE k == Numbered(ctx[c], NewSession, g).message
           y == Numbered(ctx[c], NewSession, g).ctx
<1>3. y \in Ctx
    BY <1>1, Messages, NumberedFacts
<1>4. UNCHANGED socket
    BY DEF Announce
<1>5. PICK S : wire[c] \in Seq(S)
    BY DEF WireInv, Line
<1>6. ASSUME Open(c) PROVE Line(wire[c] \o <<k>>, y, TRUE)
    <2>1. Line(wire[c], ctx[c], TRUE)
        BY <1>6 DEF WireInv, Line
    <2>2. Line(Append(wire[c], k), y, TRUE)
        BY <2>1, <1>1, Messages, LineExtends
    <2> HIDE DEF k, y
    <2>3. wire[c] \in Seq(S \cup {k})
        BY <1>5
    <2>4. Append(wire[c], k) = wire[c] \o <<k>>
        BY <2>3, AppendIsConcat
    <2> QED BY <2>2, <2>4
<1>7. Dispatch(c, y, <<k>>)
    BY <1>2
<1> HIDE DEF k, y
<1>8. <<k>> \in Seq({k})
    OBVIOUS
<1> QED BY <1>1, <1>3, <1>4, <1>6, <1>7, <1>8, DispatchLine

LEMMA AnswerLine ==
    ASSUME WireInv, TypeInv, NEW c \in Conns, Answer(c)
    PROVE  WireInv'
<1>1. Types /\ ctx[c] \in Ctx
    BY TypesOf DEF Types
<1>2. Send(c, ctx[c], <<>>, Result(ctx[c])) /\ UNCHANGED socket
    BY DEF Answer
<1>3. PICK S : wire[c] \in Seq(S)
    BY DEF WireInv, Line
<1>4. wire[c] \o <<>> = wire[c] /\ <<>> \in Seq({})
    BY <1>3, ConcatEmptySeq
<1>5. Open(c) => Line(wire[c], ctx[c], TRUE)
    BY DEF WireInv, Line
<1>6. IsMessage(Result(ctx[c]))
    BY Messages
<1> QED BY <1>1, <1>2, <1>4, <1>5, <1>6, SendLine, SendingLine

LEMMA DeliverLine ==
    ASSUME WireInv, TypeInv, NEW v \in Updates, Deliver(v)
    PROVE  WireInv'
<1>1. Types
    BY TypesOf
<1>2. DOMAIN wire' = Conns /\ UNCHANGED socket
    BY DEF Deliver
<1>3. ASSUME NEW c \in Conns PROVE Line(wire'[c], ctx'[c], Open(c))
    <2>1. Line(wire[c], ctx[c], Open(c)) /\ ctx[c] \in Ctx
        BY <1>1 DEF WireInv, Types
    <2>2. CASE ctx'[c] = ctx[c] /\ wire'[c] = wire[c]
        BY <2>1, <2>2
    <2>3. ASSUME NEW g \in Generated, NEW m, IsMessage(m),
                 ctx'[c] = Numbered(ctx[c], m, g).ctx,
                 wire'[c] = IF Open(c) THEN Append(wire[c], Numbered(ctx[c], m, g).message) ELSE wire[c]
          PROVE  Line(wire'[c], ctx'[c], Open(c))
        <3>1. CASE Open(c)
            <4>1. Line(wire[c], ctx[c], TRUE)
                BY <2>1, <3>1
            <4>2. Line(Append(wire[c], Numbered(ctx[c], m, g).message), Numbered(ctx[c], m, g).ctx, TRUE)
                BY <4>1, <2>1, <2>3, LineExtends
            <4> QED BY <4>2, <3>1, <2>3
        <3>2. CASE ~Open(c)
            <4>1. wire'[c] = wire[c]
                BY <2>3, <3>2
            <4> QED BY <4>1, <2>1, <3>2 DEF Line
        <3> QED BY <3>1, <3>2
    <2> QED BY <2>2, <2>3, DeliverFacts
<1> QED BY <1>2, <1>3 DEF WireInv, Open

LEMMA NextLine == TypeInv /\ WireInv /\ [Next]_vars => WireInv'
<1> SUFFICES ASSUME TypeInv, WireInv, [Next]_vars PROVE WireInv'
    OBVIOUS
<1>t. Types
    BY TypesOf
<1>1. ASSUME NEW c \in Conns, Receive(c) PROVE WireInv'
    <2>1. UNCHANGED <<wire, ctx>>
        BY <1>1 DEF Receive
    <2>2. \A d \in Conns : Open(d)' => Open(d)
        BY <1>1, <1>t DEF Receive, Close, Open, Types
    <2> QED BY <2>1, <2>2, QuietLine
<1>2. ASSUME NEW c \in Conns, Start(c) PROVE WireInv'
    <2>1. UNCHANGED wire /\ (ctx' = ctx \/ ctx' = [ctx EXCEPT ![c].layer = KeyLayer])
        BY <1>2 DEF Start
    <2>2. \A d \in Conns : Open(d)' => Open(d)
        BY <1>2, <1>t DEF Start, Close, Open, Types
    <2>3. \A d \in Conns : ctx'[d].last = ctx[d].last /\ ctx'[d].seq = ctx[d].seq
        <3> SUFFICES ASSUME NEW d \in Conns
                     PROVE  ctx'[d].last = ctx[d].last /\ ctx'[d].seq = ctx[d].seq
            OBVIOUS
        <3>1. ctx[d] \in Ctx /\ ctx \in [Conns -> Ctx]
            BY <1>t DEF Types
        <3>2. [ctx[d] EXCEPT !.layer = KeyLayer].last = ctx[d].last
              /\ [ctx[d] EXCEPT !.layer = KeyLayer].seq = ctx[d].seq
            BY <3>1 DEF Ctx
        <3>3. ctx'[d] = ctx[d] \/ ctx'[d] = [ctx[d] EXCEPT !.layer = KeyLayer]
            BY <2>1, <3>1
        <3> QED BY <3>2, <3>3
    <2> QED BY <2>1, <2>2, <2>3, QuietLine
<1>3. ASSUME NEW c \in Conns, GetSession(c) \/ SaveSession(c) \/ UpdateSession(c) \/ StorageFails(c)
      PROVE  WireInv'
    <2>1. UNCHANGED <<wire, ctx, socket>>
        BY <1>3 DEF GetSession, SaveSession, UpdateSession, StorageFails
    <2> QED BY <2>1, QuietLine DEF Open
<1>4. ASSUME NEW c \in Conns, IdleTimeout(c) \/ SocketClose(c) PROVE WireInv'
    <2>1. UNCHANGED <<wire, ctx>>
        BY <1>4 DEF IdleTimeout, SocketClose
    <2>2. \A d \in Conns : Open(d)' => Open(d)
        BY <1>4, <1>t DEF IdleTimeout, SocketClose, Open, Types
    <2> QED BY <2>1, <2>2, QuietLine
<1>5. CASE UNCHANGED vars
    BY <1>5, QuietLine DEF vars, Open
<1> QED BY <1>1, <1>2, <1>3, <1>4, <1>5, TouchSessionLine, AnnounceLine, AnswerLine, DeliverLine
        DEF Next, Process

\* Message ids increase on every connection, their low bits tell what a message is, and
\* seqnos count the content-related messages, whatever generateId() returns and however
\* pushes fall between answers.  (nextMessageId, nextSeqNo)
THEOREM WireStaysNumbered == Spec => []WireNumbered
<1>1. Init => TypeInv /\ WireInv
    BY InitTypes, LineInit
<1>2. TypeInv /\ WireInv /\ [Next]_vars => (TypeInv /\ WireInv)'
    BY NextTypes, NextLine
<1>3. TypeInv /\ WireInv => WireNumbered
    BY NumberedIffLine
<1> QED BY <1>1, <1>2, <1>3, PTL DEF Spec

-----------------------------------------------------------------------------
(***************************************************************************)
(* Induction, with sets for the predicates.                                *)
(***************************************************************************)
LEMMA NatMin ==
    ASSUME NEW S, S \subseteq Nat, S # {}
    PROVE  \E m \in S : \A n \in S : m <= n
<1> DEFINE R == OpToRel(<, Nat)
<1>1. IsWellFoundedOn(R, Nat) /\ \A m, n \in Nat : <<n, m>> \in R <=> n < m
    BY NatLessThanWellFounded DEF OpToRel
<1> HIDE DEF R
<1>2. PICK m \in S : \A n \in S : <<n, m>> \notin R
    BY <1>1, WFMin, Zenon
<1>3. ASSUME NEW n \in S PROVE m <= n
    <2>1. m \in Nat /\ n \in Nat /\ ~(n < m)
        BY <1>1, <1>2
    <2> QED BY <2>1
<1> QED BY <1>3

LEMMA NatMax ==
    ASSUME NEW S, S \subseteq Nat, S # {}, NEW b \in Nat, \A n \in S : n <= b
    PROVE  \E m \in S : \A n \in S : n <= m
<1> DEFINE T == {b - n : n \in S}
<1>1. T \subseteq Nat /\ T # {}
    OBVIOUS
<1>2. PICK t \in T : \A u \in T : t <= u
    <2> HIDE DEF T
    <2> QED BY <1>1, NatMin
<1>3. PICK m \in S : t = b - m
    BY <1>2
<1>4. ASSUME NEW n \in S PROVE n <= m
    <2>1. b - m <= b - n
        BY <1>2, <1>3
    <2>2. m \in Nat /\ n \in Nat
        OBVIOUS
    <2> HIDE DEF T
    <2> QED BY ONLY <2>1, <2>2, b \in Nat
<1> QED BY <1>4

LEMMA NatAll ==
    ASSUME NEW G, 0 \in G, \A n \in Nat : n \in G => n + 1 \in G
    PROVE  Nat \subseteq G
<1> SUFFICES ASSUME ~(Nat \subseteq G) PROVE FALSE
    OBVIOUS
<1>1. PICK m \in Nat \ G : \A n \in Nat \ G : m <= n
    <2>1. Nat \ G \subseteq Nat /\ Nat \ G # {}
        OBVIOUS
    <2> QED BY <2>1, NatMin
<1>2. m # 0 /\ m - 1 \in Nat
    BY <1>1
<1>3. m - 1 \in G
    BY <1>1, <1>2
<1> QED BY <1>1, <1>2, <1>3

-----------------------------------------------------------------------------
(***************************************************************************)
(* The ladder.  Every rung is a snapshot, so that a layer and the snapshot *)
(* its clients have are on the same rung.                                  *)
(***************************************************************************)
LEMMA RungTypes ==
    /\ Newest \in Nat \ {0} /\ DOMAIN Rungs = 1..Newest /\ 1 \in DOMAIN Rungs
    /\ \A i \in 1..Newest : Rungs[i] \in Snapshots /\ Rungs[i] \in Nat
<1>1. Rungs \in Seq(Snapshots) /\ Rungs # <<>> /\ Snapshots \subseteq Nat
    BY RenderingAssumption
<1>2. Len(Rungs) \in Nat /\ DOMAIN Rungs = 1..Len(Rungs) /\ \A i \in 1..Len(Rungs) : Rungs[i] \in Snapshots
    BY <1>1
<1>3. Len(Rungs) # 0
    BY <1>1, EmptySeq
<1>4. Newest \in Nat \ {0} /\ DOMAIN Rungs = 1..Newest
    BY <1>2, <1>3 DEF Newest
<1>5. 1 \in 1..Newest
    <2> HIDE DEF Newest
    <2> QED BY ONLY <1>4
<1>6. \A i \in 1..Newest : Rungs[i] \in Snapshots
    BY <1>2 DEF Newest
<1>7. \A i \in 1..Newest : Rungs[i] \in Nat
    BY <1>1, <1>6, Zenon
<1> QED BY <1>4, <1>5, <1>6, <1>7, Zenon

Since(layer) == {i \in DOMAIN Rungs : Rungs[i] <= layer}

\* The rungs there are since a layer are the first ones.
LEMMA SinceFacts ==
    ASSUME NEW layer \in Nat
    PROVE  /\ Newest \in Nat \ {0} /\ StartRung(layer) \in 1..Newest
           /\ Since(layer) # {} => Since(layer) = 1..StartRung(layer)
           /\ Since(layer) = {} => StartRung(layer) = 1
<1>1. /\ Rungs \in Seq(Snapshots) /\ Rungs # <<>> /\ Snapshots \subseteq Nat
      /\ \A i, j \in DOMAIN Rungs : i < j => Rungs[i] < Rungs[j]
    BY RenderingAssumption
<1>2. Newest \in Nat \ {0} /\ DOMAIN Rungs = 1..Newest /\ \A i \in 1..Newest : Rungs[i] \in Nat
    BY RungTypes
<1>3. CASE Since(layer) # {}
    <2>1. \E m \in Since(layer) : \A x \in Since(layer) : x <= m
        <3>1. Since(layer) \subseteq Nat /\ \A x \in Since(layer) : x <= Newest
            BY <1>2 DEF Since
        <3> QED BY <3>1, <1>2, <1>3, NatMax
    <2>2. StartRung(layer) = CHOOSE i \in Since(layer) : \A j \in Since(layer) : j <= i
        BY <1>3 DEF StartRung, Since
    <2>3. StartRung(layer) \in Since(layer) /\ \A j \in Since(layer) : j <= StartRung(layer)
        BY <2>1, <2>2
    <2> DEFINE k == StartRung(layer)
    <2> HIDE DEF k
    <2>4. k \in 1..Newest /\ Rungs[k] <= layer /\ \A j \in 1..Newest : Rungs[j] <= layer => j <= k
        BY <2>3, <1>2 DEF Since, k
    <2>5. \A j \in 1..k : j \in 1..Newest /\ Rungs[j] <= layer
        <3> SUFFICES ASSUME NEW j \in 1..k PROVE j \in 1..Newest /\ Rungs[j] <= layer
            OBVIOUS
        <3>1. j \in 1..Newest
            BY <2>4, <1>2
        <3>2. j = k \/ Rungs[j] < Rungs[k]
            BY <3>1, <2>4, <1>1, <1>2
        <3>3. Rungs[j] \in Nat /\ Rungs[k] \in Nat
            BY <3>1, <2>4, <1>2
        <3> QED BY <3>1, <3>2, <3>3, <2>4
    <2>6. Since(layer) = 1..k
        BY <2>4, <2>5, <1>2 DEF Since
    <2> QED BY <2>4, <2>6, <1>2, <1>3 DEF k
<1>4. CASE Since(layer) = {}
    <2>1. StartRung(layer) = 1
        BY <1>4 DEF StartRung, Since
    <2> QED BY <2>1, <1>2, <1>4
<1> QED BY <1>3, <1>4

LEMMA RungFacts ==
    ASSUME NEW layer \in Nat
    PROVE  /\ StartRung(layer) \in Nat /\ Newest \in Nat /\ StartRung(layer) # 0
           /\ Down(Newest, layer) = StartRung(layer)
<1>1. Newest \in Nat /\ StartRung(layer) \in 1..Newest
    BY SinceFacts
<1> QED BY <1>1 DEF Down, Steps

\* A client of a layer has the shape of the rung the layer is on.
LEMMA ShapeOfLayer ==
    ASSUME NEW layer \in Nat
    PROVE  ShapeIn(ResolveLayer(layer)) = StartRung(layer)
<1> DEFINE snapshot == ResolveLayer(layer)
           upTo == {s \in Snapshots : s <= layer}
<1>1. /\ Rungs \in Seq(Snapshots) /\ Rungs # <<>> /\ Snapshots \subseteq Nat /\ Snapshots # {}
      /\ \A i, j \in DOMAIN Rungs : i < j => Rungs[i] < Rungs[j]
      /\ \A s \in Snapshots : Rungs[1] <= s
    BY RenderingAssumption
<1>2. Newest \in Nat \ {0} /\ DOMAIN Rungs = 1..Newest /\ 1 \in DOMAIN Rungs
      /\ \A i \in DOMAIN Rungs : Rungs[i] \in Snapshots /\ Rungs[i] \in Nat
    BY RungTypes
<1>3. ShapeIn(snapshot) = Cardinality(Since(snapshot))
    BY DEF ShapeIn, Since
<1>4. CASE upTo # {}
    <2>1. snapshot = CHOOSE s \in upTo : \A t \in upTo : t <= s
        BY <1>4 DEF ResolveLayer
    <2>2. \E s \in upTo : \A t \in upTo : t <= s
        <3>1. upTo \subseteq Nat /\ \A x \in upTo : x <= layer
            BY <1>1
        <3> HIDE DEF upTo
        <3> QED BY <3>1, <1>4, NatMax
    <2>3. snapshot \in upTo /\ \A t \in upTo : t <= snapshot
        BY <2>1, <2>2
    <2> HIDE DEF snapshot
    <2>4. \A i \in DOMAIN Rungs : Rungs[i] <= layer <=> Rungs[i] <= snapshot
        <3> SUFFICES ASSUME NEW i \in DOMAIN Rungs PROVE Rungs[i] <= layer <=> Rungs[i] <= snapshot
            OBVIOUS
        <3>1. Rungs[i] \in Snapshots /\ Rungs[i] \in Nat /\ snapshot \in Nat /\ snapshot <= layer
            BY <2>3, <1>1, <1>2
        <3>2. Rungs[i] <= layer => Rungs[i] <= snapshot
            BY <3>1, <2>3
        <3> QED BY <3>1, <3>2
    <2>5. Since(layer) = Since(snapshot)
        BY <2>4 DEF Since
    <2>6. Since(layer) # {}
        <3>1. Rungs[1] \in Snapshots /\ Rungs[1] <= snapshot /\ 1 \in DOMAIN Rungs /\ snapshot <= layer /\ snapshot \in Nat
            BY <2>3, <1>1, <1>2
        <3>2. Rungs[1] \in Nat
            BY <1>2
        <3>3. Rungs[1] <= layer
            BY ONLY <3>1, <3>2, layer \in Nat
        <3> QED BY <3>1, <3>3 DEF Since
    <2>7. Since(layer) = 1..StartRung(layer) /\ StartRung(layer) \in Nat
        BY <2>6, SinceFacts, RungFacts
    <2>8. Cardinality(1..StartRung(layer)) = StartRung(layer)
        BY <2>7, FS_Interval
    <2> QED BY <2>5, <2>7, <2>8, <1>3 DEF snapshot
<1>5. CASE upTo = {}
    <2>1. snapshot = CHOOSE s \in Snapshots : \A t \in Snapshots : s <= t
        BY <1>5 DEF ResolveLayer
    <2>2. Rungs[1] \in Snapshots
        BY <1>2
    <2>3. snapshot \in Snapshots /\ \A t \in Snapshots : snapshot <= t
        BY <2>1, <2>2, <1>1
    <2> HIDE DEF snapshot
    <2>4. snapshot = Rungs[1]
        <3>1. snapshot \in Nat /\ Rungs[1] \in Nat /\ snapshot <= Rungs[1] /\ Rungs[1] <= snapshot
            BY <2>2, <2>3, <1>1
        <3> QED BY <3>1
    <2>5. Since(snapshot) = {1}
        <3>1. ASSUME NEW i \in DOMAIN Rungs, i # 1
              PROVE  Rungs[1] < Rungs[i] /\ Rungs[1] \in Nat /\ Rungs[i] \in Nat
            <4>1. 1 \in DOMAIN Rungs /\ 1 < i
                BY <3>1, <1>2
            <4> QED BY <4>1, <1>1, <1>2
        <3>2. 1 \in DOMAIN Rungs /\ Rungs[1] \in Nat
            BY <1>2
        <3>3. \A i \in DOMAIN Rungs : Rungs[i] <= snapshot => i = 1
            BY <3>1, <2>4
        <3> QED BY <3>2, <3>3, <2>4 DEF Since
    <2>6. Cardinality({1}) = 1
        BY FS_Singleton
    <2>7. Since(layer) = {}
        <3>1. \A i \in DOMAIN Rungs : ~(Rungs[i] <= layer)
            BY <1>2, <1>5
        <3> QED BY <3>1 DEF Since
    <2>8. StartRung(layer) = 1
        BY <2>7, SinceFacts
    <2> QED BY <2>5, <2>6, <2>8, <1>3 DEF snapshot
<1> QED BY <1>4, <1>5

-----------------------------------------------------------------------------
(***************************************************************************)
(* Layers.  What was agreed for a session is what is stored with it, but   *)
(* while a negotiation that was stored is not answered; a packet keeps     *)
(* what was agreed when it started as long as no peer changes it, and then *)
(* it is what the packet reads.                                            *)
(***************************************************************************)
Session(c) == stream[c].session

\* A negotiation on the session is stored and not yet answered.
Unanswered(s) == \E d \in Conns : Session(d) = s /\ Negotiating(d) /\ work[d].at = "forward"

AgreedIsStored ==
    \A s \in Sessions : agreed[s] # None => agreed[s] = stored[s] \/ Unanswered(s)

LayerOf(c) ==
    LET w == work[c] IN
    /\ w.at = "get" /\ w.kept # None => w.kept = stored[Session(c)]
    /\ w.at \in {"touch", "forward"} /\ w.packet.is # "withLayer" /\ w.kept # None => w.kept = w.layer
    /\ w.at = "saved" => w.kept = None
    /\ w.at = "update" => ctx[c].layer = w.packet.layer
    /\ w.at = "forward" /\ w.packet.is = "withLayer" => w.layer = w.packet.layer

NothingKept == \A c \in Conns : \A d \in Peers(c) : work[d].at = "update" => work[c].kept = None

LayersInv == AgreedIsStored /\ (\A c \in Conns : LayerOf(c)) /\ NothingKept

LEMMA LayersInit == Init => LayersInv
<1> SUFFICES ASSUME Init PROVE LayersInv
    OBVIOUS
<1>1. /\ \A c \in Conns : work[c] = Nothing
      /\ \A s \in Sessions : agreed[s] = None
    BY DEF Init
<1>2. Nothing.at = "idle" /\ Nothing.kept = None
    BY DEF Nothing
<1> QED BY <1>1, <1>2 DEF LayersInv, AgreedIsStored, LayerOf, NothingKept, Peers

\* Steps that leave the packets in process, the sessions and the layers alone.
LEMMA QuietLayers ==
    ASSUME LayersInv, UNCHANGED <<stream, work, stored, agreed>>,
           \A c \in Conns : work[c].at # "idle" => ctx'[c].layer = ctx[c].layer
    PROVE  LayersInv'
<1>1. AgreedIsStored' /\ NothingKept'
    BY DEF LayersInv, AgreedIsStored, NothingKept, Unanswered, Session, Negotiating, Peers
<1>2. \A c \in Conns : LayerOf(c)'
    BY DEF LayersInv, LayerOf, Session
<1> QED BY <1>1, <1>2 DEF LayersInv

\* A push leaves the layers alone.
LEMMA DeliverLayers ==
    ASSUME TypeInv, NEW v \in Updates, Deliver(v), NEW c \in Conns
    PROVE  ctx'[c].layer = ctx[c].layer
<1>1. ctx[c] \in Ctx
    BY TypesOf DEF Types
<1>2. ASSUME NEW g \in Generated, NEW m, IsMessage(m), ctx'[c] = Numbered(ctx[c], m, g).ctx
      PROVE  ctx'[c].layer = ctx[c].layer
    BY <1>1, <1>2, NumberedFacts
<1> QED BY <1>2, DeliverFacts

LEMMA StartLayers ==
    ASSUME TypeInv, LayersInv, NEW c \in Conns, Start(c)
    PROVE  LayersInv'
<1>1. Types /\ Session(c) \in Sessions
    BY TypesOf, SessionOf DEF Session
<1> DEFINE p == Head(waiting[c])
           changing == \E d \in Peers(c) :
               work[d].at = "save" \/ (Negotiating(d) /\ work[d].at \in {"update", "forward"})
           kept == IF changing THEN None ELSE agreed[stream[c].session]
           w == [at |-> "get", packet |-> p, layer |-> 0, kept |-> kept]
<1>2. work[c].at = "idle" /\ UNCHANGED <<stream, stored, agreed>>
    BY DEF Start, conn
<1>3. CASE p.is = "short"
    <2>1. UNCHANGED <<work, ctx>>
        BY <1>3 DEF Start
    <2> QED BY <2>1, <1>2, QuietLayers
<1>4. CASE p.is # "short"
    <2>1. /\ work' = [work EXCEPT ![c] = w]
          /\ ctx' = IF ctx[c].layer = DefaultLayer THEN [ctx EXCEPT ![c].layer = KeyLayer] ELSE ctx
        BY <1>4 DEF Start
    <2>2. /\ w.at = "get" /\ w.kept = kept
          /\ work'[c] = w
          /\ \A d \in Conns \ {c} : work'[d] = work[d] /\ ctx'[d] = ctx[d]
        BY <2>1, <1>1 DEF Types
    <2>3. kept # None => /\ kept = agreed[Session(c)]
                         /\ \A d \in Peers(c) : work[d].at # "update" /\ ~(Negotiating(d) /\ work[d].at = "forward")
        <3>1. \A d \in Peers(c) : work[d].at = "update" => Negotiating(d)
            BY <1>1 DEF Types, Working, Negotiating, Peers
        <3> QED BY <3>1 DEF Session
    <2> HIDE DEF kept, w
    <2>4. kept # None => kept = stored[Session(c)]
        <3> SUFFICES ASSUME kept # None PROVE kept = stored[Session(c)]
            OBVIOUS
        <3>1. ~Unanswered(Session(c))
            BY <2>3, <1>2 DEF Unanswered, Peers, Session
        <3> QED BY <3>1, <2>3, <1>1 DEF LayersInv, AgreedIsStored
    <2>5. AgreedIsStored'
        <3>1. \A s \in Sessions : Unanswered(s) => Unanswered(s)'
            BY <1>2, <2>2 DEF Unanswered, Session, Negotiating
        <3> QED BY <3>1, <1>2 DEF LayersInv, AgreedIsStored
    <2>6. ASSUME NEW d \in Conns PROVE LayerOf(d)'
        <3>1. CASE d = c
            BY <3>1, <2>2, <2>4, <1>2 DEF LayerOf, Session
        <3>2. CASE d # c
            BY <3>2, <2>2, <1>2 DEF LayersInv, LayerOf, Session
        <3> QED BY <3>1, <3>2
    <2>7. NothingKept'
        BY <2>2, <2>3, <1>2 DEF LayersInv, NothingKept, Peers
    <2> QED BY <2>5, <2>6, <2>7 DEF LayersInv
<1> QED BY <1>3, <1>4

LEMMA GetSessionLayers ==
    ASSUME TypeInv, LayersInv, NEW c \in Conns, GetSession(c)
    PROVE  LayersInv'
<1>1. Types /\ work[c] \in WorkSet
    BY TypesOf DEF Types
<1> DEFINE layer == stored[Session(c)]
           w == IF layer # None THEN [work[c] EXCEPT !.at = "touch", !.layer = layer]
                                ELSE [work[c] EXCEPT !.at = "save"]
<1>2. work[c].at = "get" /\ work' = [work EXCEPT ![c] = w] /\ UNCHANGED <<stream, ctx, stored, agreed>>
    BY DEF GetSession, Session, conn
<1>3. /\ w.kept = work[c].kept
      /\ w.at \in {"touch", "save"}
      /\ w.at = "touch" => w.layer = layer
    BY <1>1 DEF WorkSet
<1>4. work'[c] = w /\ \A d \in Conns \ {c} : work'[d] = work[d]
    BY <1>1, <1>2 DEF Types
<1> HIDE DEF w
<1>5. AgreedIsStored'
    <2>1. \A s \in Sessions : Unanswered(s) => Unanswered(s)'
        BY <1>2, <1>4 DEF Unanswered, Session, Negotiating
    <2> QED BY <2>1, <1>2 DEF LayersInv, AgreedIsStored
<1>6. ASSUME NEW d \in Conns PROVE LayerOf(d)'
    <2>1. CASE d = c
        BY <2>1, <1>2, <1>3, <1>4 DEF LayersInv, LayerOf, Session
    <2>2. CASE d # c
        BY <2>2, <1>2, <1>4 DEF LayersInv, LayerOf, Session
    <2> QED BY <2>1, <2>2
<1>7. NothingKept'
    BY <1>2, <1>3, <1>4 DEF LayersInv, NothingKept, Peers
<1> QED BY <1>5, <1>6, <1>7 DEF LayersInv

\* The dispatch of a packet at layer x.layer, which it read or which nothing was agreed against.
LEMMA DispatchLayers ==
    ASSUME Types, LayersInv, NEW c \in Conns, NEW x \in Ctx, NEW before, Dispatch(c, x, before),
           work[c].at \in {"touch", "saved"},
           work[c].packet.is # "withLayer" /\ work[c].kept # None => work[c].kept = x.layer,
           UNCHANGED <<stream, stored, agreed>>
    PROVE  LayersInv'
<1>1. work[c] \in WorkSet /\ work[c].packet \in Packet
    BY DEF Types, Working
<1>2. \A d \in Conns \ {c} : ctx'[d] = ctx[d]
    BY DEF Dispatch, DispatchQuery, DispatchWithLayer, DispatchPing, Send, Types
<1>3. ASSUME \A d \in Conns \ {c} : /\ work'[d].at = work[d].at /\ work'[d].packet = work[d].packet
                                    /\ work'[d].layer = work[d].layer /\ work'[d].kept \in {work[d].kept, None},
             work'[c].at # "update" \/ \A d \in Peers(c) : work'[d].kept = None,
             work'[c].kept \in {work[c].kept, None},
             LayerOf(c)'
      PROVE  LayersInv'
    <2>1. AgreedIsStored'
        <3>1. \A s \in Sessions : Unanswered(s) => Unanswered(s)'
            BY <1>3 DEF Unanswered, Session, Negotiating
        <3> QED BY <3>1 DEF LayersInv, AgreedIsStored
    <2>2. ASSUME NEW d \in Conns PROVE LayerOf(d)'
        <3>1. CASE d # c
            BY <3>1, <1>2, <1>3 DEF LayersInv, LayerOf, Session
        <3> QED BY <3>1, <1>3
    <2>3. NothingKept'
        <3> SUFFICES ASSUME NEW e \in Conns, NEW d \in Peers(e), work'[d].at = "update"
                     PROVE  work'[e].kept = None
            BY DEF NothingKept, Peers
        <3>1. CASE d = c
            BY <3>1, <1>3 DEF Peers
        <3>2. CASE d # c
            <4>1. work[d].at = "update" /\ work[e].kept = None
                BY <3>2, <1>3 DEF LayersInv, NothingKept, Peers
            <4> QED BY <4>1, <1>3 DEF Peers
        <3> QED BY <3>1, <3>2
    <2> QED BY <2>1, <2>2, <2>3 DEF LayersInv
<1>4. CASE DispatchQuery(c, x, before)
    <2> DEFINE w == [work[c] EXCEPT !.at = "forward", !.layer = x.layer]
    <2>1. work' = [work EXCEPT ![c] = w] /\ work[c].packet.is # "withLayer"
        BY <1>4 DEF DispatchQuery, Forward, Types
    <2>2. w.at = "forward" /\ w.layer = x.layer /\ w.kept = work[c].kept /\ w.packet = work[c].packet
        BY <1>1 DEF WorkSet
    <2> HIDE DEF w
    <2>3. work'[c] = w /\ \A d \in Conns \ {c} : work'[d] = work[d]
        BY <2>1 DEF Types
    <2>4. LayerOf(c)'
        BY <2>1, <2>2, <2>3 DEF LayerOf
    <2> QED BY <2>2, <2>3, <2>4, <1>3
<1>5. CASE DispatchWithLayer(c, x, before)
    <2> DEFINE w == [work[c] EXCEPT !.at = "update"]
               y == [x EXCEPT !.layer = work[c].packet.layer]
    <2>1. work' = Unsettled(c, [work EXCEPT ![c] = w]) /\ ctx' = [ctx EXCEPT ![c] = y]
        BY <1>5 DEF DispatchWithLayer
    <2>2. w.at = "update" /\ w.packet = work[c].packet /\ w.kept = work[c].kept
        BY <1>1 DEF WorkSet
    <2>3. y.layer = work[c].packet.layer
        BY DEF Ctx
    <2> HIDE DEF w, y
    <2>4. ctx'[c] = y
        BY <2>1 DEF Types
    <2>5. /\ work'[c] = w
          /\ \A d \in Conns \ {c} : work'[d] = IF d \in Peers(c) THEN [work[d] EXCEPT !.kept = None] ELSE work[d]
        BY <2>1 DEF Types, Unsettled, Peers
    <2>6. ASSUME NEW d \in Conns \ {c}
          PROVE  /\ work'[d].at = work[d].at /\ work'[d].packet = work[d].packet
                 /\ work'[d].layer = work[d].layer /\ work'[d].kept \in {work[d].kept, None}
                 /\ d \in Peers(c) => work'[d].kept = None
        <3>1. work[d] \in WorkSet
            BY DEF Types
        <3>2. /\ [work[d] EXCEPT !.kept = None].at = work[d].at
              /\ [work[d] EXCEPT !.kept = None].packet = work[d].packet
              /\ [work[d] EXCEPT !.kept = None].layer = work[d].layer
              /\ [work[d] EXCEPT !.kept = None].kept = None
            BY <3>1 DEF WorkSet
        <3> QED BY <3>2, <2>5
    <2>7. \A d \in Peers(c) : work'[d].kept = None
        BY <2>6 DEF Peers
    <2>8. LayerOf(c)'
        BY <2>2, <2>3, <2>4, <2>5 DEF LayerOf
    <2> QED BY <2>2, <2>5, <2>6, <2>7, <2>8, <1>3
<1>6. CASE DispatchPing(c, x, before)
    <2>1. work' = [work EXCEPT ![c] = Nothing]
        BY <1>6 DEF DispatchPing, Done
    <2>2. work'[c] = Nothing /\ \A d \in Conns \ {c} : work'[d] = work[d]
        BY <2>1 DEF Types
    <2>3. Nothing.at = "idle" /\ Nothing.kept = None
        BY DEF Nothing
    <2>4. LayerOf(c)'
        BY <2>2, <2>3 DEF LayerOf
    <2> QED BY <2>2, <2>3, <2>4, <1>3
<1> QED BY <1>4, <1>5, <1>6 DEF Dispatch

LEMMA TouchSessionLayers ==
    ASSUME TypeInv, LayersInv, NEW c \in Conns, TouchSession(c)
    PROVE  LayersInv'
<1>1. Types /\ work[c] \in WorkSet
    BY TypesOf DEF Types
<1> DEFINE x == [ctx[c] EXCEPT !.layer = work[c].layer]
<1>2. work[c].at = "touch" /\ Dispatch(c, x, <<>>) /\ UNCHANGED <<stream, stored, agreed>>
    BY DEF TouchSession, Restored, conn
<1>3. x \in Ctx /\ x.layer = work[c].layer
    <2>1. ctx[c] \in Ctx /\ work[c].layer \in Nat
        BY <1>1 DEF Types, WorkSet
    <2> QED BY <2>1 DEF Ctx
<1>4. work[c].packet.is # "withLayer" /\ work[c].kept # None => work[c].kept = x.layer
    BY <1>2, <1>3 DEF LayersInv, LayerOf
<1> HIDE DEF x
<1> QED BY <1>1, <1>2, <1>3, <1>4, DispatchLayers

LEMMA AnnounceLayers ==
    ASSUME TypeInv, LayersInv, NEW c \in Conns, Announce(c)
    PROVE  LayersInv'
<1>1. Types /\ work[c] \in WorkSet /\ ctx[c] \in Ctx
    BY TypesOf DEF Types
<1>2. work[c].at = "saved" /\ UNCHANGED <<stream, stored, agreed>>
    BY DEF Announce, conn
<1>3. PICK g \in Generated :
        Dispatch(c, Numbered(ctx[c], NewSession, g).ctx, <<Numbered(ctx[c], NewSession, g).message>>)
    BY DEF Announce
<1>4. Numbered(ctx[c], NewSession, g).ctx \in Ctx
    BY <1>1, Messages, NumberedFacts
<1>5. work[c].kept = None
    BY <1>2 DEF LayersInv, LayerOf
<1> QED BY <1>1, <1>2, <1>3, <1>4, <1>5, DispatchLayers

\* A new session: what its peers kept is settled no more.
LEMMA SaveSessionLayers ==
    ASSUME TypeInv, LayersInv, NEW c \in Conns, SaveSession(c)
    PROVE  LayersInv'
<1>1. Types /\ Session(c) \in Sessions /\ work[c] \in WorkSet
    BY TypesOf, SessionOf DEF Session, Types
<1> DEFINE w == [work[c] EXCEPT !.at = "saved", !.kept = None]
<1>2. /\ work[c].at = "save" /\ UNCHANGED <<stream, ctx>>
      /\ stored' = [stored EXCEPT ![Session(c)] = ctx[c].layer]
      /\ agreed' = [agreed EXCEPT ![Session(c)] = None]
      /\ work' = Unsettled(c, [work EXCEPT ![c] = w])
    BY <1>1 DEF SaveSession, Session, conn, Types
<1>3. w.at = "saved" /\ w.kept = None
    BY <1>1 DEF WorkSet
<1> HIDE DEF w
<1>4. /\ work'[c] = w
      /\ \A d \in Conns \ {c} : work'[d] = IF d \in Peers(c) THEN [work[d] EXCEPT !.kept = None] ELSE work[d]
    BY <1>1, <1>2 DEF Types, Unsettled, Peers
<1>5. ASSUME NEW d \in Conns \ {c}
      PROVE  /\ work'[d].at = work[d].at /\ work'[d].packet = work[d].packet
             /\ work'[d].layer = work[d].layer /\ work'[d].kept \in {work[d].kept, None}
             /\ d \in Peers(c) => work'[d].kept = None
    <2>1. work[d] \in WorkSet
        BY <1>1 DEF Types
    <2>2. /\ [work[d] EXCEPT !.kept = None].at = work[d].at
          /\ [work[d] EXCEPT !.kept = None].packet = work[d].packet
          /\ [work[d] EXCEPT !.kept = None].layer = work[d].layer
          /\ [work[d] EXCEPT !.kept = None].kept = None
        BY <2>1 DEF WorkSet
    <2> QED BY <2>2, <1>4
<1>6. AgreedIsStored'
    <2>1. \A s \in Sessions : Unanswered(s) => Unanswered(s)'
        BY <1>2, <1>5 DEF Unanswered, Session, Negotiating
    <2>2. \A s \in Sessions \ {Session(c)} : agreed'[s] = agreed[s] /\ stored'[s] = stored[s]
        BY <1>1, <1>2 DEF Types
    <2>3. agreed'[Session(c)] = None
        BY <1>1, <1>2 DEF Types
    <2> SUFFICES ASSUME NEW s \in Sessions, agreed'[s] # None
                 PROVE  agreed'[s] = stored'[s] \/ Unanswered(s)'
        BY DEF AgreedIsStored
    <2>4. agreed'[s] = agreed[s] /\ stored'[s] = stored[s]
        BY <2>2, <2>3
    <2> QED BY <2>1, <2>4 DEF LayersInv, AgreedIsStored
<1>7. ASSUME NEW d \in Conns PROVE LayerOf(d)'
    <2>1. CASE d = c
        BY <2>1, <1>3, <1>4 DEF LayerOf
    <2>2. CASE d \in Peers(c)
        BY <2>2, <1>2, <1>5 DEF LayersInv, LayerOf, Peers
    <2>3. CASE d # c /\ d \notin Peers(c)
        <3>1. Session(d) # Session(c) /\ Session(d) \in Sessions
            BY <2>3, SessionOf DEF Peers, Session
        <3>2. stored'[Session(d)] = stored[Session(d)] /\ work'[d] = work[d] /\ Session(d)' = Session(d)
            BY <3>1, <2>3, <1>1, <1>2, <1>4 DEF Types, Session
        <3> QED BY <3>2, <1>2 DEF LayersInv, LayerOf
    <2> QED BY <2>1, <2>2, <2>3
<1>8. NothingKept'
    <2> SUFFICES ASSUME NEW e \in Conns, NEW d \in Peers(e), work'[d].at = "update"
                 PROVE  work'[e].kept = None
        BY <1>2 DEF NothingKept, Peers
    <2>1. d # c /\ work[d].at = "update"
        BY <1>3, <1>4, <1>5 DEF Peers
    <2>2. work[e].kept = None
        BY <2>1 DEF LayersInv, NothingKept
    <2> QED BY <2>2, <1>3, <1>4, <1>5
<1> QED BY <1>6, <1>7, <1>8 DEF LayersInv

\* The negotiated layer is stored; no peer has kept what was agreed before.
LEMMA UpdateSessionLayers ==
    ASSUME TypeInv, LayersInv, NEW c \in Conns, UpdateSession(c)
    PROVE  LayersInv'
<1>1. Types /\ Session(c) \in Sessions /\ work[c] \in WorkSet
    BY TypesOf, SessionOf DEF Session, Types
<1> DEFINE w == [work[c] EXCEPT !.at = "forward", !.layer = ctx[c].layer]
<1>2. /\ work[c].at = "update" /\ UNCHANGED <<stream, ctx, agreed>>
      /\ stored' = [stored EXCEPT ![Session(c)] = work[c].packet.layer]
      /\ work' = [work EXCEPT ![c] = w]
    BY <1>1 DEF UpdateSession, Forward, Session, conn, Types
<1>3. w.at = "forward" /\ w.layer = ctx[c].layer /\ w.packet = work[c].packet /\ w.kept = work[c].kept
    BY <1>1 DEF WorkSet
<1> HIDE DEF w
<1>4. work[c].packet.is = "withLayer" /\ ctx[c].layer = work[c].packet.layer
    BY <1>1, <1>2 DEF Types, Working, LayersInv, LayerOf
<1>5. work'[c] = w /\ \A d \in Conns \ {c} : work'[d] = work[d]
    BY <1>1, <1>2 DEF Types
<1>6. AgreedIsStored'
    <2>1. ASSUME NEW s, s = Session(c) PROVE Unanswered(s)'
        BY <2>1, <1>2, <1>3, <1>4, <1>5 DEF Unanswered, Session, Negotiating
    <2>2. \A s \in Sessions \ {Session(c)} : stored'[s] = stored[s]
        BY <1>1, <1>2 DEF Types
    <2>3. \A s \in Sessions : Unanswered(s) => Unanswered(s)'
        BY <1>2, <1>5 DEF Unanswered, Session, Negotiating
    <2> SUFFICES ASSUME NEW s \in Sessions, agreed[s] # None
                 PROVE  agreed[s] = stored'[s] \/ Unanswered(s)'
        BY <1>2 DEF AgreedIsStored
    <2>4. s = Session(c) \/ stored'[s] = stored[s]
        BY <2>2
    <2> QED BY <2>1, <2>3, <2>4 DEF LayersInv, AgreedIsStored
<1>7. ASSUME NEW d \in Conns PROVE LayerOf(d)'
    <2>1. CASE d = c
        BY <2>1, <1>3, <1>4, <1>5 DEF LayerOf
    <2>2. CASE d \in Peers(c)
        <3>1. work[d].kept = None /\ work'[d] = work[d]
            <4>1. c \in Peers(d) /\ d # c
                BY <2>2 DEF Peers
            <4> QED BY <4>1, <1>2, <1>5 DEF LayersInv, NothingKept
        <3> QED BY <3>1, <1>2 DEF LayersInv, LayerOf
    <2>3. CASE d # c /\ d \notin Peers(c)
        <3>1. Session(d) # Session(c) /\ Session(d) \in Sessions
            BY <2>3, SessionOf DEF Peers, Session
        <3>2. stored'[Session(d)] = stored[Session(d)] /\ work'[d] = work[d] /\ Session(d)' = Session(d)
            BY <3>1, <2>3, <1>1, <1>2, <1>5 DEF Types, Session
        <3> QED BY <3>2, <1>2 DEF LayersInv, LayerOf
    <2> QED BY <2>1, <2>2, <2>3
<1>8. NothingKept'
    BY <1>2, <1>3, <1>5 DEF LayersInv, NothingKept, Peers
<1> QED BY <1>6, <1>7, <1>8 DEF LayersInv

LEMMA AnswerLayers ==
    ASSUME TypeInv, LayersInv, NEW c \in Conns, Answer(c)
    PROVE  LayersInv'
<1>1. Types /\ Session(c) \in Sessions
    BY TypesOf, SessionOf DEF Session
<1>2. /\ work[c].at = "forward" /\ UNCHANGED <<stream, stored>>
      /\ agreed' = IF Negotiating(c) THEN [agreed EXCEPT ![Session(c)] = stored[Session(c)]] ELSE agreed
      /\ work' = [work EXCEPT ![c] = Nothing]
      /\ \A d \in Conns \ {c} : ctx'[d] = ctx[d]
    BY <1>1 DEF Answer, Done, Session, conn, Send, Types
<1>3. work'[c] = Nothing /\ \A d \in Conns \ {c} : work'[d] = work[d]
    BY <1>1, <1>2 DEF Types
<1>4. Nothing.at = "idle" /\ Nothing.kept = None
    BY DEF Nothing
<1>5. AgreedIsStored'
    <2> SUFFICES ASSUME NEW s \in Sessions, agreed'[s] # None
                 PROVE  agreed'[s] = stored[s] \/ Unanswered(s)'
        BY <1>2 DEF AgreedIsStored
    <2>1. CASE Negotiating(c) /\ s = Session(c)
        BY <2>1, <1>1, <1>2 DEF Types
    <2>2. CASE ~(Negotiating(c) /\ s = Session(c))
        <3>1. agreed'[s] = agreed[s]
            BY <2>2, <1>1, <1>2 DEF Types
        <3>2. Unanswered(s) => Unanswered(s)'
            BY <2>2, <1>2, <1>3 DEF Unanswered, Session, Negotiating
        <3> QED BY <3>1, <3>2 DEF LayersInv, AgreedIsStored
    <2> QED BY <2>1, <2>2
<1>6. ASSUME NEW d \in Conns PROVE LayerOf(d)'
    <2>1. CASE d = c
        BY <2>1, <1>3, <1>4 DEF LayerOf
    <2>2. CASE d # c
        BY <2>2, <1>2, <1>3 DEF LayersInv, LayerOf, Session
    <2> QED BY <2>1, <2>2
<1>7. NothingKept'
    BY <1>2, <1>3, <1>4 DEF LayersInv, NothingKept, Peers
<1> QED BY <1>5, <1>6, <1>7 DEF LayersInv

LEMMA StorageFailsLayers ==
    ASSUME TypeInv, LayersInv, NEW c \in Conns, StorageFails(c)
    PROVE  LayersInv'
<1>1. Types
    BY TypesOf
<1>2. /\ work[c].at \in {"get", "touch", "save", "update"}
      /\ UNCHANGED <<stream, ctx, stored, agreed>> /\ work' = [work EXCEPT ![c] = Nothing]
    BY DEF StorageFails, Done, conn
<1>3. work'[c] = Nothing /\ \A d \in Conns \ {c} : work'[d] = work[d]
    BY <1>1, <1>2 DEF Types
<1>4. Nothing.at = "idle" /\ Nothing.kept = None
    BY DEF Nothing
<1>5. AgreedIsStored'
    <2>1. \A s \in Sessions : Unanswered(s) => Unanswered(s)'
        BY <1>2, <1>3 DEF Unanswered, Session, Negotiating
    <2> QED BY <2>1, <1>2 DEF LayersInv, AgreedIsStored
<1>6. ASSUME NEW d \in Conns PROVE LayerOf(d)'
    <2>1. CASE d = c
        BY <2>1, <1>3, <1>4 DEF LayerOf
    <2>2. CASE d # c
        BY <2>2, <1>2, <1>3 DEF LayersInv, LayerOf, Session
    <2> QED BY <2>1, <2>2
<1>7. NothingKept'
    BY <1>2, <1>3, <1>4 DEF LayersInv, NothingKept, Peers
<1> QED BY <1>5, <1>6, <1>7 DEF LayersInv

LEMMA NextLayers == TypeInv /\ LayersInv /\ [Next]_vars => LayersInv'
<1> SUFFICES ASSUME TypeInv, LayersInv, [Next]_vars PROVE LayersInv'
    OBVIOUS
<1>1. ASSUME NEW c \in Conns, Receive(c) \/ IdleTimeout(c) \/ SocketClose(c) PROVE LayersInv'
    <2>1. UNCHANGED <<stream, work, ctx, stored, agreed>>
        BY <1>1 DEF Receive, IdleTimeout, SocketClose, conn
    <2> QED BY <2>1, QuietLayers
<1>2. ASSUME NEW v \in Updates, Deliver(v) PROVE LayersInv'
    <2>1. UNCHANGED <<stream, work, stored, agreed>>
        BY <1>2 DEF Deliver, conn
    <2> QED BY <2>1, <1>2, DeliverLayers, QuietLayers
<1>3. CASE UNCHANGED vars
    BY <1>3, QuietLayers DEF vars, conn
<1>4. ASSUME NEW c \in Conns, Process(c) PROVE LayersInv'
    BY <1>4, StartLayers, GetSessionLayers, TouchSessionLayers, SaveSessionLayers, AnnounceLayers,
       UpdateSessionLayers, AnswerLayers, StorageFailsLayers DEF Process
<1> QED BY <1>1, <1>2, <1>3, <1>4 DEF Next

\* A client that sends the shape of the layer it agreed for its session, on whichever
\* connection, has its query brought up to the newest shape.
\* (invokeWithLayer, ensureSession, MigrationRegistry.up)
THEOREM HandlersSeeNewest == Spec => []HandlerSeesNewest
<1>1. TypeInv /\ LayersInv => HandlerSeesNewest
    <2> SUFFICES ASSUME TypeInv, LayersInv, NEW c \in Conns, work[c].at = "forward",
                        NEW sent, sent = IF work[c].packet.is = "withLayer" THEN work[c].packet.layer
                                                                            ELSE work[c].kept,
                        sent # None
                 PROVE  Up(StartRung(sent), work[c].layer) = Newest
        BY DEF HandlerSeesNewest
    <2>1. sent = work[c].layer
        BY DEF LayersInv, LayerOf
    <2>2. StartRung(sent) \in Nat /\ Newest \in Nat
        <3>1. work[c] \in WorkSet
            BY TypesOf DEF Types
        <3>2. sent \in Nat
            BY <2>1, <3>1 DEF WorkSet
        <3> QED BY <3>2, RungFacts
    <2> QED BY <2>1, <2>2 DEF Up, Steps
<1> QED BY <1>1, InitTypes, NextTypes, LayersInit, NextLayers, PTL DEF Spec

-----------------------------------------------------------------------------
(***************************************************************************)
(* FlattenSeq, one sequence more at a time.                                *)
(***************************************************************************)
Flattens(f, s, n) == f = [i \in 1..n |-> IF i = 1 THEN s[i] ELSE f[i - 1] \o s[i]]

LEMMA FlattenDef ==
    ASSUME NEW s
    PROVE  FlattenSeq(s) = IF Len(s) = 0 THEN s ELSE (CHOOSE f : Flattens(f, s, Len(s)))[Len(s)]
BY DEF FlattenSeq, Flattens

LEMMA FlattensExists ==
    ASSUME NEW s, NEW n \in Nat
    PROVE  \E f : Flattens(f, s, n)
<1> DEFINE G == {k \in Nat : \E f : Flattens(f, s, k)}
<1>1. 0 \in G
    <2>1. Flattens(<<>>, s, 0)
        BY DEF Flattens
    <2> QED BY <2>1
<1>2. ASSUME NEW k \in Nat, k \in G PROVE k + 1 \in G
    <2>1. PICK f : Flattens(f, s, k)
        BY <1>2
    <2> DEFINE g == [i \in 1..(k + 1) |-> IF i <= k THEN f[i] ELSE IF i = 1 THEN s[i] ELSE f[k] \o s[i]]
    <2>2. f = [i \in 1..k |-> IF i = 1 THEN s[i] ELSE f[i - 1] \o s[i]]
        BY <2>1 DEF Flattens
    <2>3. ASSUME NEW i \in 1..(k + 1)
          PROVE  g[i] = IF i = 1 THEN s[i] ELSE g[i - 1] \o s[i]
        <3>1. CASE i <= k
            <4>1. g[i] = f[i] /\ i \in 1..k
                BY <3>1
            <4>2. f[i] = IF i = 1 THEN s[i] ELSE f[i - 1] \o s[i]
                BY <2>2, <4>1
            <4>3. i # 1 => g[i - 1] = f[i - 1]
                BY <3>1
            <4> QED BY <4>1, <4>2, <4>3
        <3>2. CASE i = k + 1
            <4>1. g[i] = IF i = 1 THEN s[i] ELSE f[k] \o s[i]
                BY <3>2
            <4>2. i # 1 => g[i - 1] = f[k]
                BY <3>2
            <4> QED BY <4>1, <4>2
        <3> QED BY <3>1, <3>2
    <2>4. Flattens(g, s, k + 1)
        <3>1. g = [i \in 1..(k + 1) |-> g[i]]
            OBVIOUS
        <3> HIDE DEF g
        <3> QED BY <2>3, <3>1 DEF Flattens
    <2> QED BY <2>4
<1>3. Nat \subseteq G
    <2> HIDE DEF G
    <2> QED BY <1>1, <1>2, NatAll
<1> QED BY <1>3

\* Two of them agree as far as their sequences do, and yield sequences of their elements.
LEMMA FlattensAgree ==
    ASSUME NEW S, NEW s, NEW t, NEW m \in Nat, NEW n \in Nat, m <= n,
           \A i \in 1..m : s[i] = t[i] /\ s[i] \in Seq(S),
           NEW f, Flattens(f, s, m), NEW g, Flattens(g, t, n)
    PROVE  \A i \in 1..m : f[i] = g[i] /\ f[i] \in Seq(S)
<1> DEFINE G == {i \in Nat : i \in 1..m => f[i] = g[i] /\ f[i] \in Seq(S)}
<1>1. 0 \in G
    OBVIOUS
<1>2. ASSUME NEW i \in Nat, i \in G PROVE i + 1 \in G
    <2> SUFFICES ASSUME i + 1 \in 1..m PROVE f[i + 1] = g[i + 1] /\ f[i + 1] \in Seq(S)
        OBVIOUS
    <2>1. /\ f[i + 1] = IF i + 1 = 1 THEN s[i + 1] ELSE f[i] \o s[i + 1]
          /\ g[i + 1] = IF i + 1 = 1 THEN t[i + 1] ELSE g[i] \o t[i + 1]
        <3>1. i + 1 \in 1..m /\ i + 1 \in 1..n /\ (i + 1) - 1 = i
            OBVIOUS
        <3>2. f[i + 1] = IF i + 1 = 1 THEN s[i + 1] ELSE f[(i + 1) - 1] \o s[i + 1]
            BY <3>1 DEF Flattens
        <3>3. g[i + 1] = IF i + 1 = 1 THEN t[i + 1] ELSE g[(i + 1) - 1] \o t[i + 1]
            BY <3>1 DEF Flattens
        <3> QED BY <3>1, <3>2, <3>3
    <2>2. s[i + 1] = t[i + 1] /\ s[i + 1] \in Seq(S)
        OBVIOUS
    <2>3. CASE i = 0
        BY <2>1, <2>2, <2>3
    <2>4. CASE i # 0
        <3>1. f[i] = g[i] /\ f[i] \in Seq(S)
            BY <1>2, <2>4
        <3>2. f[i] \o s[i + 1] \in Seq(S)
            BY <2>2, <3>1, ConcatProperties
        <3> QED BY <2>1, <2>2, <2>4, <3>1, <3>2
    <2> QED BY <2>3, <2>4
<1>3. Nat \subseteq G
    <2> HIDE DEF G
    <2> QED BY <1>1, <1>2, NatAll
<1> QED BY <1>3

LEMMA FlattenAppend ==
    ASSUME NEW S, NEW s \in Seq(Seq(S)), NEW x \in Seq(S)
    PROVE  /\ FlattenSeq(<<>>) = <<>>
           /\ FlattenSeq(s) \in Seq(S)
           /\ FlattenSeq(Append(s, x)) = FlattenSeq(s) \o x
<1> DEFINE t == Append(s, x)
           n == Len(s)
           f == CHOOSE h : Flattens(h, s, n)
           g == CHOOSE h : Flattens(h, t, n + 1)
<1>1. n \in Nat /\ Len(t) = n + 1 /\ t[n + 1] = x /\ \A i \in 1..n : s[i] = t[i] /\ s[i] \in Seq(S)
    OBVIOUS
<1>2. FlattenSeq(<<>>) = <<>>
    BY FlattenDef
<1>4. FlattenSeq(s) = IF n = 0 THEN s ELSE f[n]
    BY FlattenDef
<1> HIDE DEF t, n
<1>3. FlattenSeq(t) = g[n + 1]
    <2>1. FlattenSeq(t) = IF Len(t) = 0 THEN t ELSE (CHOOSE h : Flattens(h, t, Len(t)))[Len(t)]
        BY FlattenDef
    <2>2. Len(t) = n + 1 /\ n + 1 # 0
        BY <1>1
    <2> QED BY <2>1, <2>2
<1>5. Flattens(f, s, n) /\ Flattens(g, t, n + 1)
    <2>1. n + 1 \in Nat
        BY <1>1
    <2>2. (\E h : Flattens(h, s, n)) /\ (\E h : Flattens(h, t, n + 1))
        BY <1>1, <2>1, FlattensExists
    <2> QED BY <2>2, Zenon
<1> HIDE DEF f, g
<1>6. \A i \in 1..n : f[i] = g[i] /\ f[i] \in Seq(S)
    <2>1. n + 1 \in Nat /\ n <= n + 1
        BY <1>1
    <2> QED BY <1>1, <1>5, <2>1, FlattensAgree
<1>7. g[n + 1] = IF n + 1 = 1 THEN t[n + 1] ELSE g[n] \o t[n + 1]
    <2>1. n + 1 \in 1..(n + 1) /\ (n + 1) - 1 = n
        BY <1>1
    <2>2. g[n + 1] = IF n + 1 = 1 THEN t[n + 1] ELSE g[(n + 1) - 1] \o t[n + 1]
        BY <1>5, <2>1 DEF Flattens
    <2> QED BY <2>1, <2>2
<1>8. CASE n = 0
    <2>1. s = <<>>
        BY <1>8, EmptySeq DEF n
    <2>2. <<>> \o x = x /\ <<>> \in Seq(S)
        BY ConcatEmptySeq, EmptySeq
    <2>3. FlattenSeq(t) = x
        BY <1>1, <1>3, <1>7, <1>8
    <2>4. FlattenSeq(s) = <<>>
        BY <1>2, <2>1
    <2> QED BY <1>2, <2>2, <2>3, <2>4 DEF t
<1>9. CASE n # 0
    <2>1. n \in 1..n /\ n + 1 # 1
        BY <1>1, <1>9
    <2>2. f[n] = g[n] /\ f[n] \in Seq(S)
        BY <1>6, <2>1
    <2>3. FlattenSeq(t) = f[n] \o x
        BY <1>1, <1>3, <1>7, <2>1, <2>2
    <2> QED BY <1>2, <1>4, <1>9, <2>2, <2>3 DEF t
<1> QED BY <1>8, <1>9

(***************************************************************************)
(* A sequence of what a function makes of each element, in a row.          *)
(***************************************************************************)
Makes(g, U, S) == g \in [U -> Seq(S)]
Each(u, g) == [i \in DOMAIN u |-> g[u[i]]]
FlatMap(u, g) == FlattenSeq(Each(u, g))

LEMMA SeqAll ==
    ASSUME NEW U, NEW G, <<>> \in G, \A u \in Seq(U) : \A e \in U : u \in G => Append(u, e) \in G
    PROVE  Seq(U) \subseteq G
<1> DEFINE N == {n \in Nat : \A u \in Seq(U) : Len(u) = n => u \in G}
<1>1. 0 \in N
    BY EmptySeq
<1>2. ASSUME NEW n \in Nat, n \in N PROVE n + 1 \in N
    <2> SUFFICES ASSUME NEW u \in Seq(U), Len(u) = n + 1 PROVE u \in G
        OBVIOUS
    <2>1. u # <<>>
        BY EmptySeq
    <2>2. PICK w \in Seq(U), e \in U : u = Append(w, e)
        BY <2>1, SequenceEmptyOrAppend
    <2>3. Len(w) = n
        BY <2>2, AppendProperties, LenProperties
    <2> QED BY <1>2, <2>2, <2>3
<1>3. Nat \subseteq N
    <2> HIDE DEF N
    <2> QED BY <1>1, <1>2, NatAll
<1> QED BY <1>3, LenProperties

LEMMA FlatMapAppend ==
    ASSUME NEW U, NEW S, NEW g, Makes(g, U, S), NEW u \in Seq(U), NEW e \in U
    PROVE  /\ FlatMap(<<>>, g) = <<>>
           /\ FlatMap(u, g) \in Seq(S)
           /\ FlatMap(Append(u, e), g) = FlatMap(u, g) \o g[e]
<1>1. Each(u, g) \in Seq(Seq(S))
    BY DEF Each, Makes
<1>2. Each(<<>>, g) = <<>>
    BY DEF Each
<1>3. Each(Append(u, e), g) = Append(Each(u, g), g[e])
    <2> DEFINE a == Each(Append(u, e), g)
               b == Append(Each(u, g), g[e])
    <2>1. a \in Seq(Seq(S)) /\ b \in Seq(Seq(S))
        BY <1>1 DEF Each, Makes
    <2>2. Len(a) = Len(u) + 1 /\ Len(b) = Len(u) + 1
        BY DEF Each
    <2>3. \A i \in 1..(Len(u) + 1) : a[i] = b[i]
        BY DEF Each
    <2> HIDE DEF a, b
    <2>4. a = b
        BY <2>1, <2>2, <2>3, SeqEqual
    <2> QED BY <2>4 DEF a, b
<1>4. g[e] \in Seq(S)
    BY DEF Makes
<1> QED BY <1>1, <1>2, <1>3, <1>4, FlattenAppend DEF FlatMap

LEMMA FlatMapIn ==
    ASSUME NEW U, NEW S, NEW g, Makes(g, U, S), NEW u \in Seq(U)
    PROVE  FlatMap(u, g) \in Seq(S)
<1>1. CASE U = {}
    <2>1. u = <<>>
        BY <1>1
    <2>2. Each(<<>>, g) = <<>>
        BY DEF Each
    <2> QED BY <2>1, <2>2, EmptySeq, FlattenAppend DEF FlatMap
<1>2. CASE U # {}
    BY <1>2, FlatMapAppend
<1> QED BY <1>1, <1>2

LEMMA FlatMapConcat ==
    ASSUME NEW U, NEW S, NEW g, Makes(g, U, S), NEW u \in Seq(U)
    PROVE  \A w \in Seq(U) : FlatMap(u \o w, g) = FlatMap(u, g) \o FlatMap(w, g)
<1> DEFINE G == {w \in Seq(U) : FlatMap(u \o w, g) = FlatMap(u, g) \o FlatMap(w, g)}
<1>0. FlatMap(u, g) \in Seq(S)
    BY FlatMapIn
<1>1. <<>> \in G
    <2>1. u \o <<>> = u /\ FlatMap(u, g) \o <<>> = FlatMap(u, g) /\ <<>> \in Seq(U)
        BY <1>0, ConcatEmptySeq, EmptySeq
    <2>2. FlatMap(<<>>, g) = <<>>
        <3>1. Each(<<>>, g) = <<>>
            BY DEF Each
        <3> QED BY <3>1, EmptySeq, FlattenAppend DEF FlatMap
    <2> QED BY <2>1, <2>2
<1>2. ASSUME NEW w \in Seq(U), NEW e \in U, w \in G PROVE Append(w, e) \in G
    <2>0. \A v \in Seq(U) : /\ FlatMap(v, g) \in Seq(S)
                            /\ FlatMap(Append(v, e), g) = FlatMap(v, g) \o g[e]
        BY FlatMapAppend
    <2>1. /\ FlatMap(w, g) \in Seq(S) /\ g[e] \in Seq(S)
          /\ FlatMap(Append(w, e), g) = FlatMap(w, g) \o g[e]
        BY <2>0 DEF Makes
    <2>2. u \o Append(w, e) = Append(u \o w, e) /\ u \o w \in Seq(U)
        BY AppendedAfter, ConcatProperties
    <2>3. FlatMap(Append(u \o w, e), g) = FlatMap(u \o w, g) \o g[e]
        BY <2>0, <2>2
    <2>4. (FlatMap(u, g) \o FlatMap(w, g)) \o g[e] = FlatMap(u, g) \o (FlatMap(w, g) \o g[e])
        <3>1. \A a, b, d \in Seq(S) : (a \o b) \o d = a \o (b \o d)
            BY ConcatAssociative
        <3> QED BY ONLY <1>0, <2>1, <3>1, Zenon
    <2>5. FlatMap(u \o w, g) = FlatMap(u, g) \o FlatMap(w, g)
        BY <1>2
    <2>6. Append(w, e) \in Seq(U)
        BY AppendProperties
    <2> QED BY <2>1, <2>2, <2>3, <2>4, <2>5, <2>6
<1>3. Seq(U) \subseteq G
    <2> HIDE DEF G
    <2> QED BY <1>1, <1>2, SeqAll
<1> QED BY <1>3

\* If h makes of what g makes of an element what k makes of the element, so it does of
\* what they make of a sequence.
LEMMA FlatMapThen ==
    ASSUME NEW U, NEW W, NEW S, NEW g, Makes(g, U, W), NEW h, Makes(h, W, S), NEW k, Makes(k, U, S),
           \A e \in U : FlatMap(g[e], h) = k[e]
    PROVE  \A u \in Seq(U) : FlatMap(u, g) \in Seq(W) /\ FlatMap(FlatMap(u, g), h) = FlatMap(u, k)
<1> DEFINE G == {u \in Seq(U) : FlatMap(u, g) \in Seq(W) /\ FlatMap(FlatMap(u, g), h) = FlatMap(u, k)}
<1>1. <<>> \in G
    <2>1. Each(<<>>, g) = <<>> /\ Each(<<>>, h) = <<>> /\ Each(<<>>, k) = <<>>
        BY DEF Each
    <2>2. FlattenSeq(<<>>) = <<>>
        BY FlattenDef
    <2>3. FlatMap(<<>>, g) = <<>> /\ FlatMap(<<>>, h) = <<>> /\ FlatMap(<<>>, k) = <<>>
        BY <2>1, <2>2 DEF FlatMap
    <2> QED BY <2>3, EmptySeq
<1>2. ASSUME NEW u \in Seq(U), NEW e \in U, u \in G PROVE Append(u, e) \in G
    <2>1. g[e] \in Seq(W) /\ k[e] \in Seq(S) /\ FlatMap(u, g) \in Seq(W) /\ Append(u, e) \in Seq(U)
        BY <1>2, AppendProperties DEF Makes
    <2>2. FlatMap(Append(u, e), g) = FlatMap(u, g) \o g[e] /\ FlatMap(Append(u, e), k) = FlatMap(u, k) \o k[e]
        <3>1. \A v \in Seq(U) : FlatMap(Append(v, e), g) = FlatMap(v, g) \o g[e]
            BY FlatMapAppend
        <3>2. \A v \in Seq(U) : FlatMap(Append(v, e), k) = FlatMap(v, k) \o k[e]
            BY FlatMapAppend
        <3> QED BY <3>1, <3>2
    <2>3. FlatMap(FlatMap(u, g) \o g[e], h) = FlatMap(FlatMap(u, g), h) \o FlatMap(g[e], h)
        <3>1. \A a \in Seq(W) : \A b \in Seq(W) : FlatMap(a \o b, h) = FlatMap(a, h) \o FlatMap(b, h)
            BY FlatMapConcat
        <3> QED BY <2>1, <3>1
    <2>4. FlatMap(FlatMap(u, g), h) = FlatMap(u, k) /\ FlatMap(g[e], h) = k[e]
        BY <1>2
    <2>5. FlatMap(u, g) \o g[e] \in Seq(W)
        BY <2>1, ConcatProperties
    <2> QED BY <2>1, <2>2, <2>3, <2>4, <2>5
<1>3. Seq(U) \subseteq G
    <2> HIDE DEF G
    <2> QED BY <1>1, <1>2, SeqAll
<1> QED BY <1>3

-----------------------------------------------------------------------------
(***************************************************************************)
(* What a push renders.                                                    *)
(***************************************************************************)
\* The pts of an update, as PtsOf collects them.
PtsMade(shapes) == [u \in Leaf(shapes) |-> IF u.pts # 0 THEN <<u.pts>> ELSE <<>>]

LEMMA PtsMakes == ASSUME NEW shapes PROVE Makes(PtsMade(shapes), Leaf(shapes), Nat)
<1>1. ASSUME NEW u \in Leaf(shapes) PROVE PtsMade(shapes)[u] \in Seq(Nat)
    <2>1. u.pts \in Nat
        BY DEF Leaf
    <2> QED BY <2>1 DEF PtsMade
<1> QED BY <1>1 DEF Makes, PtsMade

LEMMA PtsIsFlat ==
    ASSUME NEW shapes, NEW v, v.updates \in Seq(Leaf(shapes))
    PROVE  PtsOf(v) = FlatMap(v.updates, PtsMade(shapes)) /\ PtsOf(v) \in Seq(Nat)
<1> DEFINE us == v.updates
<1>1. ASSUME NEW i \in DOMAIN us PROVE us[i] \in Leaf(shapes)
    OBVIOUS
<1>2. [i \in DOMAIN us |-> IF us[i].pts # 0 THEN <<us[i].pts>> ELSE <<>>] = Each(us, PtsMade(shapes))
    BY <1>1 DEF Each, PtsMade
<1>3. PtsOf(v) = FlatMap(us, PtsMade(shapes))
    BY <1>2 DEF PtsOf, FlatMap
<1>4. FlatMap(us, PtsMade(shapes)) \in Seq(Nat)
    <2>1. Makes(PtsMade(shapes), Leaf(shapes), Nat)
        BY PtsMakes
    <2> HIDE DEF us
    <2> QED BY <2>1, FlatMapIn DEF us
<1> QED BY <1>3, <1>4

\* Each update, when it is rendered, keeps its pts.
LEMMA LeafRendered ==
    ASSUME NEW layer \in Nat, NEW shapes, 0 \in shapes, NEW u \in Leaf(shapes)
    PROVE  /\ RenderLeaf(u, layer) \in Seq(Leaf(shapes))
           /\ FlatMap(RenderLeaf(u, layer), PtsMade(shapes)) = PtsMade(shapes)[u]
<1> DEFINE w == Unsupported(u)
           g == PtsMade(shapes)
<1>1. w \in Leaf(shapes) /\ w.pts = u.pts
    <2>1. Keyed \subseteq Snapshots
        BY RenderingAssumption
    <2>2. [u EXCEPT !.is = "updateUnsupported"] \in Leaf(shapes)
          /\ [u EXCEPT !.is = "updateUnsupported"].pts = u.pts
        BY DEF Leaf
    <2>3. \A x \in Leaf(shapes) : [x EXCEPT !.at = Keyed] \in Leaf(shapes) /\ [x EXCEPT !.at = Keyed].pts = x.pts
        BY <2>1 DEF Leaf
    <2>4. \A x \in Leaf(shapes) : [x EXCEPT !.shape = 0] \in Leaf(shapes) /\ [x EXCEPT !.shape = 0].pts = x.pts
        BY DEF Leaf
    <2>5. w = [[[u EXCEPT !.is = "updateUnsupported"] EXCEPT !.at = Keyed] EXCEPT !.shape = 0]
        BY DEF Unsupported
    <2> HIDE DEF w
    <2> QED BY <2>2, <2>3, <2>4, <2>5
<1>2. g[u] \in Seq(Nat) /\ g[u] = (IF u.pts # 0 THEN <<u.pts>> ELSE <<>>) /\ g[w] = g[u]
    <2>1. u.pts \in Nat
        BY DEF Leaf
    <2> QED BY <1>1, <2>1 DEF PtsMade
<1> HIDE DEF w, g
<1>3. RenderLeaf(u, layer) \in {<<u>>, <<w>>} \/ (RenderLeaf(u, layer) = <<>> /\ u.pts = 0)
    BY DEF RenderLeaf, w
<1>4. ASSUME NEW x \in Leaf(shapes) PROVE <<x>> \in Seq(Leaf(shapes)) /\ FlatMap(<<x>>, g) = g[x]
    <2>1. Makes(g, Leaf(shapes), Nat)
        BY PtsMakes DEF g
    <2>2. <<>> \in Seq(Leaf(shapes)) /\ <<x>> \in Seq(Leaf(shapes)) /\ <<x>> = Append(<<>>, x)
        OBVIOUS
    <2>3. FlatMap(<<x>>, g) = <<>> \o g[x]
        <3>1. \A v \in Seq(Leaf(shapes)) : /\ FlatMap(<<>>, g) = <<>>
                                            /\ FlatMap(Append(v, x), g) = FlatMap(v, g) \o g[x]
            BY <2>1, FlatMapAppend
        <3> QED BY <2>2, <3>1
    <2>4. g[x] \in Seq(Nat)
        BY <2>1 DEF Makes
    <2>5. <<>> \o g[x] = g[x]
        BY <2>4, ConcatEmptySeq
    <2> QED BY <2>2, <2>3, <2>5
<1>5. <<>> \in Seq(Leaf(shapes)) /\ FlatMap(<<>>, g) = <<>>
    <2>1. Each(<<>>, g) = <<>> /\ FlattenSeq(<<>>) = <<>>
        BY FlattenDef DEF Each
    <2> QED BY <2>1, EmptySeq DEF FlatMap
<1>6. CASE RenderLeaf(u, layer) = <<u>>
    BY <1>4, <1>6 DEF g
<1>7. CASE RenderLeaf(u, layer) = <<w>>
    BY <1>1, <1>2, <1>4, <1>7 DEF g
<1>8. CASE RenderLeaf(u, layer) = <<>> /\ u.pts = 0
    BY <1>2, <1>5, <1>8 DEF g
<1> QED BY <1>3, <1>6, <1>7, <1>8

\* A value in canonical shape, brought down.
LEMMA LoweredFacts ==
    ASSUME NEW layer \in Nat, NEW v \in Value({0, Newest})
    PROVE  /\ Lowered(v, layer) \in Value({0, StartRung(layer)})
           /\ PtsOf(Lowered(v, layer)) = PtsOf(v)
<1> DEFINE us == v.updates
           low == [i \in DOMAIN us |-> LoweredLeaf(us[i], layer)]
<1>1. Lowered(v, layer) = [v EXCEPT !.updates = low]
    BY DEF Lowered
<1>2. us \in Seq(Leaf({0, Newest})) /\ v \in [is : {"update", "updateShort", "updates"}, rest : SUBSET Snapshots, updates : Seq(Leaf({0, Newest}))]
    BY DEF Value
<1>3. ASSUME NEW i \in DOMAIN us PROVE low[i] \in Leaf({0, StartRung(layer)}) /\ low[i].pts = us[i].pts
    <2>1. us[i] \in Leaf({0, Newest})
        BY <1>2
    <2>2. us[i].shape # 0 => Down(us[i].shape, layer) = StartRung(layer)
        BY <2>1, RungFacts DEF Leaf
    <2>3. low[i] = IF us[i].shape = 0 THEN us[i] ELSE [us[i] EXCEPT !.shape = StartRung(layer)]
        BY <2>2 DEF LoweredLeaf
    <2> HIDE DEF low
    <2> QED BY <2>1, <2>3 DEF Leaf
<1>4. low \in Seq(Leaf({0, StartRung(layer)})) /\ DOMAIN low = DOMAIN us
    <2>1. low = [i \in DOMAIN us |-> low[i]] /\ DOMAIN us = 1..Len(us) /\ Len(us) \in Nat
        BY <1>2
    <2> HIDE DEF low, us
    <2>2. low \in [1..Len(us) -> Leaf({0, StartRung(layer)})]
        BY <1>3, <2>1
    <2> QED BY <2>1, <2>2, SeqDef
<1> HIDE DEF low
<1>5. Lowered(v, layer).updates = low /\ Lowered(v, layer) \in Value({0, StartRung(layer)})
    BY <1>1, <1>2, <1>4 DEF Value
<1>6. [i \in DOMAIN low |-> IF low[i].pts # 0 THEN <<low[i].pts>> ELSE <<>>]
      = [i \in DOMAIN us |-> IF us[i].pts # 0 THEN <<us[i].pts>> ELSE <<>>]
    BY <1>3, <1>4
<1> QED BY <1>5, <1>6 DEF PtsOf

\* What is rendered has the shape of its layer, and the pts of what was pushed; what is
\* not sent at all has none.
LEMMA RenderedFacts ==
    ASSUME NEW layer \in Nat, NEW v \in Value({0, Newest})
    PROVE  /\ \A r \in Rendered(Lowered(v, layer), layer) :
                r \in Value({0, StartRung(layer)}) /\ PtsOf(r) = PtsOf(v)
           /\ Rendered(Lowered(v, layer), layer) = {} => PtsOf(v) = <<>>
<1> DEFINE l == Lowered(v, layer)
           shapes == {0, StartRung(layer)}
           us == l.updates
           render == [u \in Leaf(shapes) |-> RenderLeaf(u, layer)]
           leaves == FlatMap(us, render)
<1>1. l \in Value(shapes) /\ PtsOf(l) = PtsOf(v)
    BY LoweredFacts
<1> HIDE DEF l
<1>2. us \in Seq(Leaf(shapes)) /\ l \in [is : {"update", "updateShort", "updates"}, rest : SUBSET Snapshots, updates : Seq(Leaf(shapes))]
    BY <1>1 DEF Value
<1>3. FlattenSeq([i \in DOMAIN us |-> RenderLeaf(us[i], layer)]) = leaves
    <2>1. \A i \in DOMAIN us : us[i] \in Leaf(shapes)
        BY <1>2
    <2>2. [i \in DOMAIN us |-> RenderLeaf(us[i], layer)] = Each(us, render)
        BY <2>1 DEF Each
    <2> QED BY <2>2 DEF FlatMap
<1>4. leaves \in Seq(Leaf(shapes)) /\ FlatMap(leaves, PtsMade(shapes)) = FlatMap(us, PtsMade(shapes))
    <2>1. \A u \in Leaf(shapes) : /\ RenderLeaf(u, layer) \in Seq(Leaf(shapes))
                                  /\ FlatMap(RenderLeaf(u, layer), PtsMade(shapes)) = PtsMade(shapes)[u]
        BY LeafRendered
    <2>2. Makes(render, Leaf(shapes), Leaf(shapes))
        BY <2>1 DEF Makes
    <2>3. \A u \in Leaf(shapes) : FlatMap(render[u], PtsMade(shapes)) = PtsMade(shapes)[u]
        BY <2>1
    <2>4. Makes(PtsMade(shapes), Leaf(shapes), Nat)
        BY PtsMakes
    <2> HIDE DEF render, shapes, us
    <2> QED BY <1>2, <2>2, <2>3, <2>4, FlatMapThen
<1> HIDE DEF leaves
<1> DEFINE r == [l EXCEPT !.updates = leaves]
<1>5. r \in Value(shapes) /\ r.updates = leaves
    BY <1>2, <1>4 DEF Value
<1>6. PtsOf(r) = PtsOf(v)
    <2>1. PtsOf(l) = FlatMap(us, PtsMade(shapes))
        BY <1>2, PtsIsFlat
    <2>2. PtsOf(r) = FlatMap(leaves, PtsMade(shapes))
        BY <1>4, <1>5, PtsIsFlat
    <2> QED BY <1>1, <1>4, <2>1, <2>2
<1> HIDE DEF r
<1>7. Rendered(l, layer) = IF Representable(l, layer) THEN {l}
                           ELSE IF l.is # "updates" /\ leaves = <<>> THEN {} ELSE {r}
    BY <1>3 DEF Rendered, r
<1>8. leaves = <<>> => PtsOf(r) = <<>>
    <2>1. \A w : w.updates = <<>> => PtsOf(w) = <<>>
        BY FlattenDef DEF PtsOf
    <2> QED BY <1>5, <2>1
<1>9. \A q \in Rendered(l, layer) : q \in Value(shapes) /\ PtsOf(q) = PtsOf(v)
    BY <1>1, <1>5, <1>6, <1>7
<1>10. Rendered(l, layer) = {} => PtsOf(v) = <<>>
    BY <1>6, <1>7, <1>8
<1> QED BY <1>9, <1>10 DEF l

-----------------------------------------------------------------------------
(***************************************************************************)
(* What was sent: each message has the shape of its layer, and the pushes  *)
(* have the pts that were due.                                             *)
(***************************************************************************)
Fits(m) ==
    /\ m.layer \in Nat
    /\ m.is = "rpc_result" => m.value = StartRung(m.layer)
    /\ m.is = "push" => m.value \in Value({0, StartRung(m.layer)})

PtsSent(m) == IF m.is = "push" THEN PtsOf(m.value) ELSE <<>>

WellSent(w, d) ==
    /\ \E S : w \in Seq(S)
    /\ \A i \in DOMAIN w : Fits(w[i])
    /\ d = FlattenSeq([i \in DOMAIN w |-> PtsSent(w[i])])

SentInv ==
    /\ DOMAIN wire = Conns /\ DOMAIN due = Conns
    /\ \A c \in Conns : WellSent(wire[c], due[c])

LEMMA PtsSentIn == ASSUME NEW m, Fits(m) PROVE PtsSent(m) \in Seq(Nat)
<1>1. CASE m.is = "push"
    <2>1. m.value.updates \in Seq(Leaf({0, StartRung(m.layer)}))
        BY <1>1 DEF Fits, Value
    <2> QED BY <1>1, <2>1, PtsIsFlat DEF PtsSent
<1>2. CASE m.is # "push"
    BY <1>2, EmptySeq DEF PtsSent
<1> QED BY <1>1, <1>2

LEMMA WellSentPts == ASSUME NEW w, NEW d, WellSent(w, d)
                     PROVE  [i \in DOMAIN w |-> PtsSent(w[i])] \in Seq(Seq(Nat)) /\ d \in Seq(Nat)
<1>1. PICK S : w \in Seq(S)
    BY DEF WellSent
<1>2. \A i \in DOMAIN w : PtsSent(w[i]) \in Seq(Nat)
    BY PtsSentIn DEF WellSent
<1>3. [i \in DOMAIN w |-> PtsSent(w[i])] \in Seq(Seq(Nat))
    BY <1>1, <1>2
<1>4. <<>> \in Seq(Nat)
    BY EmptySeq
<1> QED BY <1>3, <1>4, FlattenAppend DEF WellSent

LEMMA WellSentMore ==
    ASSUME NEW w, NEW d, WellSent(w, d), NEW m, Fits(m)
    PROVE  WellSent(Append(w, m), d \o PtsSent(m))
<1>1. PICK S : w \in Seq(S)
    BY DEF WellSent
<1> DEFINE T == S \cup {m}
           v == Append(w, m)
           a == [i \in DOMAIN w |-> PtsSent(w[i])]
           b == [i \in DOMAIN v |-> PtsSent(v[i])]
<1>2. /\ w \in Seq(T) /\ v \in Seq(T) /\ Len(w) \in Nat
      /\ DOMAIN w = 1..Len(w) /\ DOMAIN v = 1..(Len(w) + 1)
      /\ \A i \in 1..Len(w) : v[i] = w[i]
      /\ v[Len(w) + 1] = m
    <2>1. w \in Seq(T) /\ m \in T
        BY <1>1
    <2> HIDE DEF T
    <2> QED BY <2>1, AppendProperties, LenProperties
<1>3. a \in Seq(Seq(Nat)) /\ d = FlattenSeq(a) /\ PtsSent(m) \in Seq(Nat)
    BY WellSentPts, PtsSentIn DEF WellSent
<1> HIDE DEF v, T
<1>4. b = Append(a, PtsSent(m))
    <2>1. DOMAIN a = 1..Len(w) /\ \A i \in 1..Len(w) : a[i] = PtsSent(w[i])
        BY <1>2
    <2>2. DOMAIN b = 1..(Len(w) + 1) /\ \A i \in 1..(Len(w) + 1) : b[i] = PtsSent(v[i])
        BY <1>2
    <2>3. b = [i \in 1..(Len(w) + 1) |-> b[i]]
        BY <2>2
    <2>4. Len(a) = Len(w)
        BY <1>2, <1>3, <2>1, LenProperties
    <2>5. \A i \in 1..(Len(w) + 1) : b[i] = IF i <= Len(w) THEN a[i] ELSE PtsSent(m)
        <3> SUFFICES ASSUME NEW i \in 1..(Len(w) + 1)
                     PROVE  b[i] = IF i <= Len(w) THEN a[i] ELSE PtsSent(m)
            OBVIOUS
        <3>1. CASE i <= Len(w)
            BY <3>1, <1>2, <2>1, <2>2
        <3>2. CASE ~(i <= Len(w))
            <4>1. i = Len(w) + 1
                BY <3>2, <1>2
            <4> QED BY <3>2, <4>1, <1>2, <2>2
        <3> QED BY <3>1, <3>2
    <2> DEFINE e == Append(a, PtsSent(m))
    <2>6. /\ e \in Seq(Seq(Nat)) /\ Len(e) = Len(w) + 1
          /\ \A i \in 1..Len(w) : e[i] = a[i]
          /\ e[Len(w) + 1] = PtsSent(m)
        BY <1>3, <2>4, AppendProperties
    <2> HIDE DEF a, b, e
    <2>7. b \in Seq(Seq(Nat)) /\ Len(b) = Len(w) + 1
        <3>1. \A i \in 1..(Len(w) + 1) : b[i] \in Seq(Nat)
            <4>1. \A i \in 1..Len(w) : a[i] \in Seq(Nat)
                BY <1>3, <2>4, ElementOfSeq
            <4> SUFFICES ASSUME NEW i \in 1..(Len(w) + 1) PROVE b[i] \in Seq(Nat)
                OBVIOUS
            <4>2. CASE i <= Len(w)
                <5>1. i \in 1..Len(w)
                    BY <4>2, <1>2
                <5> QED BY <4>1, <4>2, <5>1, <2>5
            <4>3. CASE ~(i <= Len(w))
                BY <4>3, <2>5, <1>3
            <4> QED BY <4>2, <4>3
        <3>2. b \in [1..(Len(w) + 1) -> Seq(Nat)] /\ Len(w) + 1 \in Nat
            BY <3>1, <2>2, <2>3, <1>2
        <3>3. b \in Seq(Seq(Nat))
            BY <3>2, SeqDef
        <3> QED BY <3>2, <3>3, LenProperties
    <2>8. \A i \in 1..(Len(w) + 1) : b[i] = e[i]
        <3> SUFFICES ASSUME NEW i \in 1..(Len(w) + 1) PROVE b[i] = e[i]
            OBVIOUS
        <3>1. i \in 1..Len(w) \/ i = Len(w) + 1
            BY <1>2
        <3>2. CASE i \in 1..Len(w)
            <4>1. i <= Len(w)
                BY <3>2, <1>2
            <4> QED BY <3>2, <4>1, <2>5, <2>6
        <3>3. CASE i = Len(w) + 1
            <4>1. ~(i <= Len(w))
                BY <3>3, <1>2
            <4>2. b[i] = PtsSent(m)
                BY <4>1, <2>5
            <4>3. e[i] = PtsSent(m)
                BY <3>3, <2>6
            <4> QED BY <4>2, <4>3
        <3> QED BY <3>1, <3>2, <3>3
    <2>9. b = e
        BY <2>6, <2>7, <2>8, SeqEqual
    <2> QED BY <2>9 DEF e
<1>5. FlattenSeq(b) = d \o PtsSent(m)
    <2> HIDE DEF a, b
    <2> QED BY <1>3, <1>4, FlattenAppend
<1>6. \A i \in DOMAIN v : Fits(v[i])
    <2> SUFFICES ASSUME NEW i \in 1..(Len(w) + 1) PROVE Fits(v[i])
        BY <1>2
    <2>1. CASE i \in 1..Len(w)
        BY <2>1, <1>2 DEF WellSent
    <2>2. CASE i = Len(w) + 1
        BY <2>2, <1>2
    <2> QED BY <2>1, <2>2, <1>2
<1>7. WellSent(v, d \o PtsSent(m))
    BY <1>2, <1>5, <1>6 DEF WellSent
<1> QED BY <1>7 DEF v

\* A message that is no push: nothing was due.
LEMMA WellSentPlain ==
    ASSUME NEW w, NEW d, WellSent(w, d), NEW m, Fits(m), m.is # "push"
    PROVE  WellSent(Append(w, m), d)
<1>1. d \o <<>> = d
    BY WellSentPts, ConcatEmptySeq
<1>2. PtsSent(m) = <<>>
    BY DEF PtsSent
<1> QED BY <1>1, <1>2, WellSentMore

\* A numbered message says what it said, at the layer of its context.
LEMMA NumberedSays ==
    ASSUME NEW x \in Ctx, NEW m, IsMessage(m), NEW g \in Generated
    PROVE  LET k == Numbered(x, m, g).message
           IN k.is = m.is /\ k.value = m.value /\ k.layer = x.layer
<1> DEFINE id == NextId(x.last, g, m.notification)
           odd == IF m.content THEN 1 ELSE 0
           k == [m EXCEPT !.id = id, !.seqNo = 2 * x.seq + odd, !.layer = x.layer]
<1>1. Numbered(x, m, g).message = k
    BY DEF Numbered
<1> HIDE DEF id, odd
<1>2. k.is = m.is /\ k.value = m.value /\ k.layer = x.layer
    BY DEF IsMessage, Message
<1> QED BY <1>1, <1>2

LEMMA PlainFits ==
    ASSUME NEW x \in Ctx, NEW g \in Generated
    PROVE  /\ \A m \in {NewSession, Service("pong"), Result(x)} :
                LET k == Numbered(x, m, g).message IN Fits(k) /\ k.is # "push"
           /\ \A v \in Value({0, StartRung(x.layer)}) :
                LET k == Numbered(x, Push(v), g).message IN Fits(k) /\ PtsSent(k) = PtsOf(v)
<1>1. x.layer \in Nat /\ Down(Newest, x.layer) = StartRung(x.layer)
    BY RungFacts DEF Ctx
<1>2. ASSUME NEW m \in {NewSession, Service("pong"), Result(x)}
      PROVE  LET k == Numbered(x, m, g).message IN Fits(k) /\ k.is # "push"
    <2>1. IsMessage(m)
        BY Messages
    <2>2. m.is # "push" /\ (m.is = "rpc_result" => m.value = StartRung(x.layer))
        <3>1. CASE m = NewSession
            BY <3>1 DEF NewSession, Service
        <3>2. CASE m = Service("pong")
            BY <3>2 DEF Service
        <3>3. CASE m = Result(x)
            BY <3>3, <1>1 DEF Result, Service
        <3> QED BY <3>1, <3>2, <3>3
    <2> QED BY <2>1, <2>2, <1>1, NumberedSays DEF Fits
<1>3. ASSUME NEW v \in Value({0, StartRung(x.layer)})
      PROVE  LET k == Numbered(x, Push(v), g).message IN Fits(k) /\ PtsSent(k) = PtsOf(v)
    <2>1. IsMessage(Push(v)) /\ Push(v).is = "push" /\ Push(v).value = v
        BY Messages DEF Push, Service
    <2> QED BY <2>1, <1>1, NumberedSays DEF Fits, PtsSent
<1> QED BY <1>2, <1>3

LEMMA SentInit == Init => SentInv
<1> SUFFICES ASSUME Init PROVE SentInv
    OBVIOUS
<1>1. \A c \in Conns : wire[c] = <<>> /\ due[c] = <<>>
    BY DEF Init
<1>2. FlattenSeq(<<>>) = <<>>
    BY FlattenDef
<1>3. [i \in DOMAIN <<>> |-> PtsSent(<<>>[i])] = <<>> /\ <<>> \in Seq({}) /\ DOMAIN <<>> = {}
    OBVIOUS
<1>4. WellSent(<<>>, <<>>)
    BY <1>2, <1>3 DEF WellSent
<1> QED BY <1>1, <1>4 DEF Init, SentInv

LEMMA QuietSent == ASSUME SentInv, UNCHANGED <<wire, due>> PROVE SentInv'
BY DEF SentInv

\* A connection writes messages that are no pushes.
LEMMA WrittenSent ==
    ASSUME SentInv, NEW c \in Conns, UNCHANGED due, NEW list, Written(c, list),
           Open(c) => WellSent(wire[c] \o list, due[c])
    PROVE  SentInv'
<1>1. CASE Open(c)
    <2>1. wire' = [wire EXCEPT ![c] = wire[c] \o list]
        BY <1>1 DEF Written
    <2>2. \A d \in Conns : WellSent(wire'[d], due[d])
        BY <1>1, <2>1 DEF SentInv
    <2>3. DOMAIN wire' = Conns
        BY <2>1 DEF SentInv
    <2> QED BY <2>2, <2>3 DEF SentInv
<1>2. CASE ~Open(c)
    BY <1>2, QuietSent DEF Written
<1> QED BY <1>1, <1>2

\* None, one or two of them.
LEMMA Lists ==
    ASSUME SentInv, NEW c \in Conns
    PROVE  /\ WellSent(wire[c] \o <<>>, due[c])
           /\ \A k : Fits(k) /\ k.is # "push" => WellSent(wire[c] \o <<k>>, due[c])
           /\ \A k, m : Fits(k) /\ k.is # "push" /\ Fits(m) /\ m.is # "push" =>
                WellSent(wire[c] \o Append(<<k>>, m), due[c])
<1>1. WellSent(wire[c], due[c])
    BY DEF SentInv
<1>2. PICK S : wire[c] \in Seq(S)
    BY <1>1 DEF WellSent
<1>3. WellSent(wire[c] \o <<>>, due[c])
    BY <1>1, <1>2, ConcatEmptySeq
<1>4. ASSUME NEW k, Fits(k), k.is # "push"
      PROVE  WellSent(wire[c] \o <<k>>, due[c]) /\ wire[c] \o <<k>> = Append(wire[c], k)
    <2>1. wire[c] \in Seq(S \cup {k}) /\ k \in S \cup {k}
        BY <1>2
    <2>2. Append(wire[c], k) = wire[c] \o <<k>>
        BY <2>1, AppendIsConcat
    <2> QED BY <2>2, <1>1, <1>4, WellSentPlain
<1>5. ASSUME NEW k, NEW m, Fits(k), k.is # "push", Fits(m), m.is # "push"
      PROVE  WellSent(wire[c] \o Append(<<k>>, m), due[c])
    <2> DEFINE T == S \cup {k, m}
    <2>1. wire[c] \in Seq(T) /\ <<k>> \in Seq(T) /\ m \in T
        BY <1>2
    <2> HIDE DEF T
    <2>2. wire[c] \o Append(<<k>>, m) = Append(wire[c] \o <<k>>, m)
        <3>1. \A w, b \in Seq(T), e \in T : w \o Append(b, e) = Append(w \o b, e)
            BY AppendedAfter
        <3> QED BY ONLY <2>1, <3>1, Zenon
    <2>3. WellSent(wire[c] \o <<k>>, due[c])
        BY <1>4, <1>5
    <2>4. WellSent(Append(wire[c] \o <<k>>, m), due[c])
        BY <2>3, <1>5, WellSentPlain
    <2> QED BY <2>2, <2>4
<1> QED BY <1>3, <1>4, <1>5

\* The dispatch of a packet, after nothing or an announcement.
LEMMA DispatchSent ==
    ASSUME SentInv, Types, NEW c \in Conns, NEW x \in Ctx, NEW before, Dispatch(c, x, before), UNCHANGED due,
           \/ before = <<>>
           \/ \E k : before = <<k>> /\ Fits(k) /\ k.is # "push"
    PROVE  SentInv'
<1>1. CASE DispatchQuery(c, x, before) \/ DispatchWithLayer(c, x, before)
    <2>1. Written(c, before)
        BY <1>1 DEF DispatchQuery, DispatchWithLayer
    <2>2. WellSent(wire[c] \o before, due[c])
        BY Lists
    <2> QED BY <2>1, <2>2, WrittenSent
<1>2. CASE DispatchPing(c, x, before)
    <2>1. PICK g \in Generated : Written(c, Append(before, Numbered(x, Service("pong"), g).message))
        BY <1>2 DEF DispatchPing, Send
    <2> DEFINE m == Numbered(x, Service("pong"), g).message
    <2>2. Fits(m) /\ m.is # "push"
        BY PlainFits
    <2> HIDE DEF m
    <2>3. WellSent(wire[c] \o Append(before, m), due[c])
        <3>1. CASE before = <<>>
            <4>1. Append(<<>>, m) = <<m>>
                OBVIOUS
            <4>2. WellSent(wire[c] \o <<m>>, due[c])
                BY <2>2, Lists
            <4> QED BY <3>1, <4>1, <4>2
        <3>2. ASSUME NEW k, before = <<k>>, Fits(k), k.is # "push"
              PROVE  WellSent(wire[c] \o Append(before, m), due[c])
            BY <3>2, <2>2, Lists
        <3> QED BY <3>1, <3>2
    <2> QED BY <2>1, <2>3, WrittenSent DEF m
<1> QED BY <1>1, <1>2 DEF Dispatch

\* A push: whoever it was due to is sent its pts.
LEMMA DeliverSent ==
    ASSUME SentInv, TypeInv, NEW v \in Updates, Deliver(v)
    PROVE  SentInv'
<1>1. Types /\ v \in Value({0, Newest})
    BY TypesOf, ConnectionAssumption
<1> DEFINE to == {c \in held : ~ctx[c].noUpdates}
           given(c) == Rendered(Lowered(v, ctx[c].layer), ctx[c].layer)
           served == {c \in to : given(c) # {}}
<1>2. PICK generated \in [served -> Generated], body \in [served -> UNION {given(c) : c \in served}] :
        /\ \A c \in served : body[c] \in given(c)
        /\ wire' = [c \in Conns |-> IF c \in served /\ Open(c)
                                    THEN Append(wire[c], Numbered(ctx[c], Push(body[c]), generated[c]).message)
                                    ELSE wire[c]]
        /\ due' = [c \in Conns |-> IF c \in to /\ Open(c) THEN due[c] \o PtsOf(v) ELSE due[c]]
    BY ZenonT(40) DEF Deliver
<1>3. ASSUME NEW c \in Conns PROVE WellSent(wire'[c], due'[c])
    <2>1. WellSent(wire[c], due[c]) /\ ctx[c] \in Ctx /\ ctx[c].layer \in Nat
        BY <1>1 DEF SentInv, Types, Ctx
    <2>2. /\ \A r \in given(c) : r \in Value({0, StartRung(ctx[c].layer)}) /\ PtsOf(r) = PtsOf(v)
          /\ given(c) = {} => PtsOf(v) = <<>>
        BY <1>1, <2>1, RenderedFacts
    <2>3. CASE c \in served /\ Open(c)
        <3> DEFINE m == Numbered(ctx[c], Push(body[c]), generated[c]).message
        <3>1. body[c] \in given(c) /\ generated[c] \in Generated
            BY <1>2, <2>3
        <3>2. Fits(m) /\ PtsSent(m) = PtsOf(v)
            BY <2>1, <2>2, <3>1, PlainFits
        <3>3. wire'[c] = Append(wire[c], m) /\ due'[c] = due[c] \o PtsOf(v)
            BY <1>2, <2>3
        <3> HIDE DEF m
        <3> QED BY <2>1, <3>2, <3>3, WellSentMore
    <2>4. CASE c \in to /\ c \notin served /\ Open(c)
        <3>1. wire'[c] = wire[c] /\ due'[c] = due[c] \o PtsOf(v)
            BY <1>2, <2>4
        <3>2. PtsOf(v) = <<>>
            BY <2>2, <2>4
        <3>3. due[c] \o <<>> = due[c]
            BY <2>1, WellSentPts, ConcatEmptySeq
        <3> QED BY <2>1, <3>1, <3>2, <3>3
    <2>5. CASE c \notin to \/ ~Open(c)
        <3>1. wire'[c] = wire[c] /\ due'[c] = due[c]
            BY <1>2, <2>5
        <3> QED BY <2>1, <3>1
    <2> QED BY <2>3, <2>4, <2>5
<1>4. DOMAIN wire' = Conns /\ DOMAIN due' = Conns
    BY <1>2
<1> QED BY <1>3, <1>4 DEF SentInv

LEMMA NextSent == TypeInv /\ SentInv /\ [Next]_vars => SentInv'
<1> SUFFICES ASSUME TypeInv, SentInv, [Next]_vars PROVE SentInv'
    OBVIOUS
<1>t. Types
    BY TypesOf
<1>1. ASSUME NEW c \in Conns,
             \/ Receive(c) \/ Start(c) \/ GetSession(c) \/ SaveSession(c) \/ UpdateSession(c)
             \/ StorageFails(c) \/ IdleTimeout(c) \/ SocketClose(c)
      PROVE  SentInv'
    <2>1. UNCHANGED <<wire, due>>
        BY <1>1 DEF Receive, Start, GetSession, SaveSession, UpdateSession, StorageFails, IdleTimeout, SocketClose
    <2> QED BY <2>1, QuietSent
<1>2. ASSUME NEW c \in Conns, TouchSession(c) PROVE SentInv'
    <2> DEFINE x == [ctx[c] EXCEPT !.layer = work[c].layer]
    <2>1. Dispatch(c, x, <<>>) /\ UNCHANGED due
        BY <1>2 DEF TouchSession, Restored
    <2>2. x \in Ctx
        <3>1. ctx[c] \in Ctx /\ work[c] \in WorkSet
            BY <1>t DEF Types
        <3>2. work[c].layer \in Nat
            BY <3>1 DEF WorkSet
        <3> QED BY <3>1, <3>2 DEF Ctx
    <2> HIDE DEF x
    <2> QED BY <1>t, <2>1, <2>2, DispatchSent
<1>3. ASSUME NEW c \in Conns, Announce(c) PROVE SentInv'
    <2>1. PICK g \in Generated :
            Dispatch(c, Numbered(ctx[c], NewSession, g).ctx, <<Numbered(ctx[c], NewSession, g).message>>)
        BY <1>3 DEF Announce
    <2>2. ctx[c] \in Ctx /\ UNCHANGED due
        BY <1>3, <1>t DEF Types, Announce
    <2> DEFINE k == Numbered(ctx[c], NewSession, g).message
               y == Numbered(ctx[c], NewSession, g).ctx
    <2>3. y \in Ctx
        BY <2>2, Messages, NumberedFacts
    <2>4. Fits(k) /\ k.is # "push"
        BY <2>2, PlainFits
    <2>5. Dispatch(c, y, <<k>>)
        BY <2>1
    <2> HIDE DEF k, y
    <2> QED BY <1>t, <2>2, <2>3, <2>4, <2>5, DispatchSent
<1>4. ASSUME NEW c \in Conns, Answer(c) PROVE SentInv'
    <2>1. PICK g \in Generated : Written(c, Append(<<>>, Numbered(ctx[c], Result(ctx[c]), g).message))
        BY <1>4 DEF Answer, Send
    <2>2. ctx[c] \in Ctx /\ UNCHANGED due
        BY <1>4, <1>t DEF Types, Answer
    <2> DEFINE k == Numbered(ctx[c], Result(ctx[c]), g).message
    <2>3. Fits(k) /\ k.is # "push"
        BY <2>2, PlainFits
    <2>4. Written(c, Append(<<>>, k))
        BY <2>1
    <2> HIDE DEF k
    <2>5. Written(c, <<k>>)
        <3>1. Append(<<>>, k) = <<k>>
            OBVIOUS
        <3> QED BY <2>4, <3>1
    <2>6. WellSent(wire[c] \o <<k>>, due[c])
        BY <2>3, Lists
    <2> QED BY <2>2, <2>5, <2>6, WrittenSent
<1>5. ASSUME NEW v \in Updates, Deliver(v) PROVE SentInv'
    BY <1>5, DeliverSent
<1>6. CASE UNCHANGED vars
    BY <1>6, QuietSent DEF vars
<1> QED BY <1>1, <1>2, <1>3, <1>4, <1>5, <1>6 DEF Next, Process

\* Every answer and every push has the shape the schema of its connection's layer was
\* made of, whatever layers are negotiated between.  (downObject, renderUpdateForLayer)
THEOREM ShapesAlwaysFit == Spec => []ShapesFit
<1>1. SentInv => ShapesFit
    <2> SUFFICES ASSUME SentInv, NEW c \in Conns, NEW i \in DOMAIN wire[c]
                 PROVE  Shapes(wire[c][i]) \subseteq {ShapeIn(ResolveLayer(wire[c][i].layer))}
        BY DEF ShapesFit
    <2> DEFINE m == wire[c][i]
    <2>1. Fits(m)
        BY DEF SentInv, WellSent
    <2> HIDE DEF m
    <2>2. ShapeIn(ResolveLayer(m.layer)) = StartRung(m.layer)
        BY <2>1, ShapeOfLayer DEF Fits
    <2>3. CASE m.is = "rpc_result"
        BY <2>1, <2>2, <2>3 DEF Fits, Shapes, m
    <2>4. CASE m.is = "push"
        <3>1. m.value.updates \in Seq(Leaf({0, StartRung(m.layer)}))
            BY <2>1, <2>4 DEF Fits, Value
        <3>2. \A j \in DOMAIN m.value.updates : m.value.updates[j].shape \in {0, StartRung(m.layer)}
            <4>1. \A j \in DOMAIN m.value.updates : m.value.updates[j] \in Leaf({0, StartRung(m.layer)})
                BY <3>1
            <4> QED BY <4>1 DEF Leaf
        <3>3. Shapes(m) = {m.value.updates[j].shape : j \in DOMAIN m.value.updates} \ {0}
            BY <2>4 DEF Shapes
        <3> QED BY <2>2, <3>2, <3>3 DEF m
    <2>5. CASE m.is \notin {"rpc_result", "push"}
        BY <2>5 DEF Shapes, m
    <2> QED BY <2>3, <2>4, <2>5
<1>2. Init => TypeInv /\ SentInv
    BY InitTypes, SentInit
<1>3. TypeInv /\ SentInv /\ [Next]_vars => (TypeInv /\ SentInv)'
    BY NextTypes, NextSent
<1> QED BY <1>1, <1>2, <1>3, PTL DEF Spec

\* A client that counts the pts of what it is sent misses no update it was due, whatever
\* the schema of its layer lacks.  (renderLeaf, renderUpdateForLayer)
THEOREM PtsAreAccounted == Spec => []PtsAccounted
<1>1. SentInv => PtsAccounted
    <2> SUFFICES ASSUME SentInv, NEW c \in Conns
                 PROVE  due[c] = FlattenSeq([i \in DOMAIN wire[c] |->
                                    IF wire[c][i].is = "push" THEN PtsOf(wire[c][i].value) ELSE <<>>])
        BY DEF PtsAccounted
    <2>1. due[c] = FlattenSeq([i \in DOMAIN wire[c] |-> PtsSent(wire[c][i])])
        BY DEF SentInv, WellSent
    <2>2. [i \in DOMAIN wire[c] |-> PtsSent(wire[c][i])]
          = [i \in DOMAIN wire[c] |-> IF wire[c][i].is = "push" THEN PtsOf(wire[c][i].value) ELSE <<>>]
        BY DEF PtsSent
    <2> QED BY <2>1, <2>2
<1>2. Init => TypeInv /\ SentInv
    BY InitTypes, SentInit
<1>3. TypeInv /\ SentInv /\ [Next]_vars => (TypeInv /\ SentInv)'
    BY NextTypes, NextSent
<1> QED BY <1>1, <1>2, <1>3, PTL DEF Spec
=============================================================================
