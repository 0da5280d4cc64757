------------------------ MODULE InboundTrackerProofs ------------------------
(***************************************************************************)
(* InboundTracker proved for every window size, container limit, clock and *)
(* set of msg_ids.                                                         *)
(***************************************************************************)
EXTENDS InboundTracker, TLAPS

(***************************************************************************)
(* Every id in the window, and the highest evicted one, was accepted, so   *)
(* none exceeds the highest accepted id.                                   *)
(***************************************************************************)
Bounded ==
    /\ evictedHigh <= maxReceived
    /\ \A i \in 1..Len(order) : order[i] <= maxReceived

(***************************************************************************)
(* An id that was dispatched, is about to be, or was lost is remembered or *)
(* not above the eviction mark: the mark stands for the ids the window     *)
(* forgot.                                                                 *)
(***************************************************************************)
Known(id) == runs[id] = 1 \/ Opening(id) \/ id \in lost

Accounted ==
    \A id \in MsgIds :
        /\ runs[id] <= 1
        /\ Opening(id) => runs[id] = 0
        /\ id \in DOMAIN received => Known(id)
        /\ Known(id) => id \in DOMAIN received \/ id <= evictedHigh

(***************************************************************************)
(* What was there before the envelope: of the window, all but the last     *)
(* arrivals that k more messages leave in it.                              *)
(***************************************************************************)
BeforeUpTo(k) ==
    /\ evictedHigh <= floor
    /\ \A i \in 1..Len(order) : i + MaxTracked + 1 <= Len(order) + k => order[i] <= floor

(***************************************************************************)
(* While toCome messages of a container are unread, what the next reads    *)
(* can evict (all but the last MaxTracked - toCome + 1 arrivals) was there *)
(* before the container; an envelope that waits for its session may turn   *)
(* out to hold as many as any.                                             *)
(***************************************************************************)
ContainerSafe ==
    /\ opening # None => toCome = 0 /\ pending = None /\ ~nested
    /\ opening # None => BeforeUpTo(MaxContainer)
    /\ toCome > 0 /\ ~nested => toCome <= MaxContainer /\ BeforeUpTo(toCome)

IInv == TypeOK /\ WindowConsistent /\ Bounded /\ Accounted /\ ContainerSafe

USE TrackerAssumption, ContainerFitsWindow

-----------------------------------------------------------------------------
(***************************************************************************)
(* note() as a shift of the window by k = 0 or 1 places.                   *)
(***************************************************************************)
Shift == IF Full THEN 1 ELSE 0

LEMMA NoteShifts ==
    ASSUME NEW m \in Message, TypeOK, Note(m)
    PROVE  /\ order' \in Seq(MsgIds)
           /\ Len(order') = Len(order) + 1 - Shift
           /\ Len(order') \in 1..MaxTracked
           /\ order'[Len(order')] = m.id
           /\ \A i \in 1..(Len(order) - Shift) : order'[i] = order[i + Shift]
           /\ Evicted = {order[i] : i \in 1..Shift}
           /\ Len(order) >= Shift
  <1>1. m.id \in MsgIds /\ order \in Seq(MsgIds) /\ Len(order) \in 0..MaxTracked
    BY DEF Message, TypeOK
  <1>2. CASE Full
    <2>1. Len(order) >= 1 /\ order # <<>>
      BY <1>1, <1>2 DEF Full
    <2>2. /\ Tail(order) \in Seq(MsgIds)
          /\ Len(Tail(order)) = Len(order) - 1
          /\ \A i \in 1..(Len(order) - 1) : Tail(order)[i] = order[i + 1]
          /\ Head(order) = order[1]
      BY <1>1, <2>1
    <2>3. order' = Append(Tail(order), m.id)
      BY <1>2 DEF Note
    <2>4. /\ order' \in Seq(MsgIds)
          /\ Len(order') = Len(order)
          /\ order'[Len(order)] = m.id
          /\ \A i \in 1..(Len(order) - 1) : order'[i] = order[i + 1]
      BY <1>1, <2>1, <2>2, <2>3
    <2>5. Shift = 1 /\ Evicted = {order[i] : i \in 1..1}
      BY <1>2, <2>2 DEF Shift, Evicted
    <2>. QED  BY <1>1, <1>2, <2>1, <2>4, <2>5 DEF Full
  <1>3. CASE ~Full
    <2>1. order' = Append(order, m.id) /\ Len(order) < MaxTracked
      BY <1>1, <1>3 DEF Note, Full
    <2>2. Shift = 0 /\ Evicted = {order[i] : i \in 1..0}
      BY <1>3 DEF Shift, Evicted
    <2>. QED  BY <1>1, <2>1, <2>2
  <1>. QED  BY <1>2, <1>3

(***************************************************************************)
(* note() of a new id keeps the window consistent and typed.               *)
(***************************************************************************)
LEMMA NoteKeepsWindow ==
    ASSUME NEW m \in Message, TypeOK, WindowConsistent, Bounded,
           m.id \notin DOMAIN received, Note(m)
    PROVE  /\ WindowConsistent'
           /\ Bounded'
           /\ DOMAIN received' = (DOMAIN received \cup {m.id}) \ Evicted
           /\ DOMAIN received' \subseteq MsgIds
           /\ received' \in [DOMAIN received' -> Entry]
           /\ evictedHigh' \in Nat
           /\ maxReceived' \in Nat
           /\ evictedHigh <= evictedHigh'
           /\ \A e \in Evicted : e <= evictedHigh'
           /\ evictedHigh' <= maxReceived
           /\ m.id \in DOMAIN received'
  <1>. DEFINE k == Shift  n == Len(order)
  <1>1. /\ m.id \in MsgIds /\ m.id \in Nat /\ m.seqNo \in SeqNos
        /\ order \in Seq(MsgIds) /\ n \in 0..MaxTracked
        /\ \A i \in 1..n : order[i] \in MsgIds /\ order[i] \in Nat
        /\ k \in 0..1
        /\ evictedHigh \in Nat /\ maxReceived \in Nat
    BY DEF Message, TypeOK, Shift
  <1>2. /\ order' \in Seq(MsgIds)
        /\ Len(order') = n + 1 - k
        /\ order'[Len(order')] = m.id
        /\ \A i \in 1..(n - k) : order'[i] = order[i + k]
        /\ Evicted = {order[i] : i \in 1..k}
        /\ n >= k
    BY NoteShifts
  <1>3. DOMAIN received' = (DOMAIN received \cup {m.id}) \ Evicted
    BY DEF Note
  <1>4. \A e \in Evicted : e \in DOMAIN received /\ e <= maxReceived /\ e # m.id
    BY <1>1, <1>2 DEF WindowConsistent, Bounded
  <1>5. m.id \in DOMAIN received'
    BY <1>3, <1>4
  <1>6. DOMAIN received' \subseteq MsgIds /\ received' \in [DOMAIN received' -> Entry]
    BY <1>1, <1>3 DEF Note, TypeOK, Entry
  <1>7. /\ evictedHigh' \in Nat
        /\ evictedHigh <= evictedHigh'
        /\ evictedHigh' <= maxReceived
        /\ \A e \in Evicted : e <= evictedHigh'
    <2>1. CASE Full
      <3>1. k = 1 /\ Head(order) = order[1] /\ n >= 1
        BY <1>1, <1>2, <2>1 DEF Shift, Full
      <3>2. evictedHigh' = Higher(order[1], evictedHigh) /\ Evicted = {order[1]}
        BY <2>1, <3>1 DEF Note, EvictedHighAfter, Evicted
      <3>. QED  BY <1>1, <3>1, <3>2 DEF Higher, Bounded
    <2>2. CASE ~Full
      BY <1>1, <2>2 DEF Note, EvictedHighAfter, Evicted, Bounded
    <2>. QED  BY <2>1, <2>2
  <1>8. maxReceived' \in Nat /\ m.id <= maxReceived' /\ maxReceived <= maxReceived'
    BY <1>1 DEF Note, MaxReceivedAfter, Higher
  <1>9. Bounded'
    <2>1. evictedHigh' <= maxReceived'
      BY <1>1, <1>7, <1>8
    <2>2. ASSUME NEW i \in 1..Len(order') PROVE order'[i] <= maxReceived'
      <3>1. CASE i = Len(order')
        BY <1>2, <1>8, <3>1
      <3>2. CASE i # Len(order')
        <4>1. i \in 1..(n - k) /\ i + k \in 1..n
          BY <1>1, <1>2, <3>2
        <4>2. order'[i] = order[i + k] /\ order[i + k] <= maxReceived
          BY <1>2, <4>1 DEF Bounded
        <4>. QED  BY <1>1, <1>8, <4>1, <4>2
      <3>. QED  BY <3>1, <3>2
    <2>. QED  BY <2>1, <2>2 DEF Bounded
  <1>10. \A i, j \in 1..Len(order') : order'[i] = order'[j] => i = j
    <2>1. ASSUME NEW i \in 1..(n - k), NEW j \in 1..(n - k), order'[i] = order'[j]
          PROVE  i = j
      <3>1. order[i + k] = order[j + k] /\ i + k \in 1..n /\ j + k \in 1..n
        BY <1>1, <1>2, <2>1
      <3>. QED  BY <1>1, <3>1 DEF WindowConsistent
    <2>2. ASSUME NEW i \in 1..(n - k) PROVE order'[i] # m.id
      <3>1. order'[i] = order[i + k]
        BY <1>2
      <3>2. i + k \in 1..n
        BY <1>1, <1>2
      <3>3. order[i + k] \in DOMAIN received
        BY <3>2 DEF WindowConsistent
      <3>. QED  BY <3>1, <3>3
    <2>3. \A i \in 1..Len(order') : i \in 1..(n - k) \/ i = Len(order')
      BY <1>1, <1>2
    <2>. QED  BY <1>2, <2>1, <2>2, <2>3
  <1>11. DOMAIN received' = {order'[i] : i \in 1..Len(order')}
    <2>1. ASSUME NEW id \in DOMAIN received' PROVE \E i \in 1..Len(order') : order'[i] = id
      <3>1. CASE id = m.id
        BY <1>1, <1>2, <3>1
      <3>2. CASE id # m.id
        <4>1. PICK j \in 1..n : order[j] = id
          BY <1>3, <3>2 DEF WindowConsistent
        <4>2. j \notin 1..k
          BY <1>2, <1>3, <4>1
        <4>3. j - k \in 1..(n - k) /\ (j - k) + k = j
          BY <1>1, <1>2, <4>2
        <4>4. order'[j - k] = order[j]
          BY <1>2, <4>3
        <4>5. j - k \in 1..Len(order')
          BY <1>1, <1>2, <4>3
        <4>. QED  BY <4>1, <4>4, <4>5
      <3>. QED  BY <3>1, <3>2
    <2>2. ASSUME NEW i \in 1..Len(order') PROVE order'[i] \in DOMAIN received'
      <3>1. CASE i = Len(order')
        BY <1>2, <1>5, <3>1
      <3>2. CASE i # Len(order')
        <4>1. i \in 1..(n - k) /\ i + k \in 1..n /\ order'[i] = order[i + k]
          BY <1>1, <1>2, <3>2
        <4>2. order[i + k] \notin Evicted
          <5>1. ASSUME NEW e \in 1..k PROVE order[e] # order[i + k]
            BY <1>1, <1>2, <4>1, <5>1 DEF WindowConsistent
          <5>. QED  BY <1>2, <5>1
        <4>3. order[i + k] \in DOMAIN received
          BY <4>1 DEF WindowConsistent
        <4>. QED  BY <1>3, <4>1, <4>2, <4>3
      <3>. QED  BY <3>1, <3>2
    <2>. QED  BY <2>1, <2>2
  <1>12. WindowConsistent'
    BY <1>10, <1>11 DEF WindowConsistent
  <1>. QED  BY <1>3, <1>5, <1>6, <1>7, <1>8, <1>9, <1>12

-----------------------------------------------------------------------------
(***************************************************************************)
(* Only a new id above the eviction mark passes accept().                  *)
(***************************************************************************)
LEMMA AcceptedIsNew ==
    ASSUME NEW m, NEW checkOrder, Verdict(m, checkOrder) = "ok"
    PROVE  m.id \notin DOMAIN received /\ ~Forgotten(m.id)
  BY DEF Verdict

(***************************************************************************)
(* note() leaves what is known of the other ids remembered or below the    *)
(* mark, and of m nothing was known.                                       *)
(***************************************************************************)
LEMMA NoteAccounts ==
    ASSUME NEW m \in Message, TypeOK, WindowConsistent, Bounded, Accounted,
           m.id \notin DOMAIN received, ~Forgotten(m.id), Note(m)
    PROVE  /\ ~Known(m.id) /\ runs[m.id] = 0
           /\ m.id \in MsgIds /\ m.id \in DOMAIN received'
           /\ \A id \in MsgIds \ {m.id} :
                  /\ id \in DOMAIN received' => Known(id)
                  /\ Known(id) => id \in DOMAIN received' \/ id <= evictedHigh'
  <1>1. /\ m.id \in MsgIds /\ runs \in [MsgIds -> Nat]
        /\ MsgIds \subseteq Nat /\ evictedHigh \in Nat
    BY DEF Message, TypeOK
  <1>2. /\ DOMAIN received' = (DOMAIN received \cup {m.id}) \ Evicted
        /\ evictedHigh' \in Nat
        /\ evictedHigh <= evictedHigh'
        /\ \A e \in Evicted : e <= evictedHigh'
        /\ m.id \in DOMAIN received'
    BY NoteKeepsWindow
  <1>3. ~Known(m.id)
    BY <1>1 DEF Accounted, Forgotten
  <1>4. runs[m.id] = 0
    <2>1. runs[m.id] \in Nat /\ runs[m.id] <= 1
      BY <1>1 DEF Accounted
    <2>. QED  BY <1>3, <2>1 DEF Known
  <1>5. ASSUME NEW id \in MsgIds \ {m.id}
        PROVE  /\ id \in DOMAIN received' => Known(id)
               /\ Known(id) => id \in DOMAIN received' \/ id <= evictedHigh'
    <2>1. id \in Nat
      BY <1>1
    <2>2. /\ id \in DOMAIN received => Known(id)
          /\ Known(id) => id \in DOMAIN received \/ id <= evictedHigh
      BY DEF Accounted
    <2>3. id \in DOMAIN received' => id \in DOMAIN received
      BY <1>2
    <2>4. id \in DOMAIN received => id \in DOMAIN received' \/ id <= evictedHigh'
      BY <1>2
    <2>. QED  BY <1>1, <1>2, <2>1, <2>2, <2>3, <2>4
  <1>. QED  BY <1>1, <1>2, <1>3, <1>4, <1>5

(***************************************************************************)
(* note() shifts what was there before the envelope by one message.        *)
(***************************************************************************)
LEMMA NoteShiftsBefore ==
    ASSUME NEW m \in Message, TypeOK, WindowConsistent, Note(m),
           NEW k \in Nat, k > 1, k <= MaxContainer, BeforeUpTo(k), floor' = floor
    PROVE  /\ evictedHigh' <= floor'
           /\ \A i \in 1..Len(order') :
                  i + MaxTracked + 1 <= Len(order') + (k - 1) => order'[i] <= floor'
  <1>1. /\ order' \in Seq(MsgIds)
        /\ Len(order') = Len(order) + 1 - Shift
        /\ Len(order') \in 1..MaxTracked
        /\ \A i \in 1..(Len(order) - Shift) : order'[i] = order[i + Shift]
        /\ Len(order) >= Shift
    BY NoteShifts
  <1>2. /\ Len(order) \in Nat /\ Shift \in 0..1 /\ floor \in Nat
        /\ order \in Seq(MsgIds) /\ Len(order) <= MaxTracked
    BY DEF TypeOK, Shift
  <1>3. evictedHigh' <= floor'
    <2>1. CASE Full
      <3>1. Head(order) = order[1] /\ 1 \in 1..Len(order) /\ Len(order) = MaxTracked
        BY <1>2, <2>1, TrackerAssumption DEF Full
      <3>2. order[1] <= floor
        BY <3>1 DEF BeforeUpTo
      <3>3. evictedHigh <= floor /\ evictedHigh' = Higher(order[1], evictedHigh)
        BY <2>1, <3>1 DEF BeforeUpTo, Note, EvictedHighAfter
      <3>. QED  BY <3>2, <3>3 DEF Higher
    <2>2. CASE ~Full
      BY <2>2 DEF BeforeUpTo, Note, EvictedHighAfter
    <2>. QED  BY <2>1, <2>2
  <1>4. ASSUME NEW i \in 1..Len(order'), i + MaxTracked + 1 <= Len(order') + (k - 1)
        PROVE  order'[i] <= floor'
    <2>1. i \in 1..(Len(order) - Shift)
      BY <1>1, <1>2, <1>4
    <2>2. i + Shift \in 1..Len(order)
      BY <1>2, <2>1
    <2>3. (i + Shift) + MaxTracked + 1 <= Len(order) + k
      BY <1>1, <1>2, <1>4
    <2>4. order[i + Shift] <= floor
      BY <2>2, <2>3 DEF BeforeUpTo
    <2>5. order'[i] = order[i + Shift]
      BY <1>1, <2>1
    <2>. QED  BY <2>4, <2>5
  <1>. QED  BY <1>3, <1>4

LEMMA InitIInv == Init => IInv
  <1>. SUFFICES ASSUME Init PROVE IInv
    OBVIOUS
  <1>. USE DEF Init
  <1>1. TypeOK
    <2>1. received \in [DOMAIN received -> Entry] /\ DOMAIN received \subseteq MsgIds
      OBVIOUS
    <2>2. order \in Seq(MsgIds) /\ Len(order) <= MaxTracked
      OBVIOUS
    <2>3. runs \in [MsgIds -> Nat]
      OBVIOUS
    <2>. QED  BY <2>1, <2>2, <2>3 DEF TypeOK
  <1>2. WindowConsistent /\ Bounded /\ ContainerSafe
    BY DEF WindowConsistent, Bounded, ContainerSafe
  <1>3. Accounted
    BY DEF Accounted, Known, Opening
  <1>. QED  BY <1>1, <1>2, <1>3 DEF IInv

(***************************************************************************)
(* An outer message: what was in the window is at most the new floor.      *)
(***************************************************************************)
LEMMA OuterKeepsIInv ==
    ASSUME IInv, NEW m \in Message, AcceptOuter(m)
    PROVE  IInv'
  <1>. USE DEF IInv
  <1>1. /\ m.id \notin DOMAIN received /\ ~Forgotten(m.id) /\ Note(m)
        /\ opening = None /\ opening' = m /\ m # None
        /\ pending = None /\ toCome = 0
        /\ floor' = maxReceived /\ nested' = FALSE
        /\ now' = now /\ pending' = pending /\ toCome' = toCome
        /\ runs' = runs /\ lost' = lost /\ answered' = answered
    BY AcceptedIsNew, NoneIsNoMessage DEF AcceptOuter, Idle
  <1>2. /\ ~Known(m.id) /\ runs[m.id] = 0
        /\ m.id \in MsgIds /\ m.id \in DOMAIN received'
        /\ \A id \in MsgIds \ {m.id} :
               /\ id \in DOMAIN received' => Known(id)
               /\ Known(id) => id \in DOMAIN received' \/ id <= evictedHigh'
    BY <1>1, NoteAccounts
  <1>3. /\ WindowConsistent' /\ Bounded'
        /\ DOMAIN received' \subseteq MsgIds
        /\ received' \in [DOMAIN received' -> Entry]
        /\ evictedHigh' \in Nat /\ maxReceived' \in Nat
        /\ evictedHigh' <= maxReceived
    BY <1>1, NoteKeepsWindow
  <1>4. /\ order' \in Seq(MsgIds)
        /\ Len(order') = Len(order) + 1 - Shift
        /\ Len(order') \in 1..MaxTracked
        /\ \A i \in 1..(Len(order) - Shift) : order'[i] = order[i + Shift]
        /\ Len(order) >= Shift
    BY <1>1, NoteShifts
  <1>5. lastContentSeqNo' \in SeqNos \cup {-1}
    BY DEF AcceptOuter, TypeOK, Message
  <1>6. TypeOK'
    <2>1. /\ now' \in Times /\ floor' \in Nat /\ toCome' \in Nat
          /\ nested' \in BOOLEAN
      BY <1>1, Zenon DEF TypeOK
    <2>3. Len(order') <= MaxTracked
      BY <1>4
    <2>2. /\ opening' \in Message \cup {None} /\ pending' \in MsgIds \cup {None}
          /\ runs' \in [MsgIds -> Nat] /\ lost' \subseteq MsgIds
          /\ answered' \subseteq MsgIds
      BY <1>1, Zenon DEF TypeOK
    <2>. QED  BY <1>3, <1>4, <1>5, <2>1, <2>2, <2>3, Zenon DEF TypeOK
  <1>7. ASSUME NEW id \in MsgIds
        PROVE  /\ runs'[id] <= 1
               /\ Opening(id)' => runs'[id] = 0
               /\ id \in DOMAIN received' => Known(id)'
               /\ Known(id)' => id \in DOMAIN received' \/ id <= evictedHigh'
    <2>1. runs'[id] <= 1
      BY <1>1 DEF Accounted
    <2>2. CASE id = m.id
      <3>1. Opening(id)' /\ runs'[id] = 0 /\ id \in DOMAIN received'
        BY <1>1, <1>2, <2>2 DEF Opening
      <3>. QED  BY <2>1, <3>1 DEF Known
    <2>3. CASE id # m.id
      <3>1. ~Opening(id)' /\ ~Opening(id)
        BY <1>1, <2>3 DEF Opening
      <3>2. Known(id)' <=> Known(id)
        BY <1>1, <3>1 DEF Known
      <3>. QED  BY <1>2, <2>1, <2>3, <3>1, <3>2
    <2>. QED  BY <2>2, <2>3
  <1>8. BeforeUpTo(MaxContainer)'
    <2>. SUFFICES ASSUME NEW i \in 1..Len(order'),
                         i + MaxTracked + 1 <= Len(order') + MaxContainer
                  PROVE  order'[i] <= floor'
      BY <1>1, <1>3 DEF BeforeUpTo
    <2>1. Len(order) \in Nat /\ Shift \in 0..1
      BY DEF TypeOK, Shift
    <2>2. i \in 1..(Len(order) - Shift)
      BY <1>1, <1>4, <2>1
    <2>3. i + Shift \in 1..Len(order)
      BY <2>1, <2>2
    <2>4. order[i + Shift] <= maxReceived
      BY <2>3 DEF Bounded
    <2>5. order'[i] = order[i + Shift]
      BY <1>4, <2>2
    <2>. QED  BY <1>1, <2>4, <2>5
  <1>9. Accounted'
    BY <1>7 DEF Accounted
  <1>10. ContainerSafe'
    BY <1>1, <1>8 DEF ContainerSafe
  <1>. QED  BY <1>3, <1>6, <1>9, <1>10

(***************************************************************************)
(* What dispatch does to types and to what is known of the ids.            *)
(***************************************************************************)
LEMMA DispatchTypes ==
    ASSUME TypeOK, NEW m \in Message, NEW rest \in Nat, Dispatch(m, rest)
    PROVE  /\ runs' \in [MsgIds -> Nat]
           /\ pending' \in MsgIds \cup {None}
           /\ toCome' \in Nat
           /\ toCome' <= rest + MaxContainer
           /\ ~HasInners(m) => toCome' = rest
           /\ runs[m.id] = 0 => runs'[m.id] = 1
           /\ \A id \in MsgIds \ {m.id} : runs'[id] = runs[id]
  <1>1. m.id \in MsgIds /\ runs \in [MsgIds -> Nat]
    BY DEF Message, TypeOK
  <1>2. PICK n \in Announced(m) : toCome' = rest + n
    BY DEF Dispatch
  <1>3. n \in Nat /\ n <= MaxContainer /\ (~HasInners(m) => n = 0)
    BY <1>2 DEF Announced, ContainerSizes
  <1>4. pending' \in MsgIds \cup {None} /\ runs' = [runs EXCEPT ![m.id] = @ + 1]
    BY <1>1 DEF Dispatch
  <1>5. /\ runs' \in [MsgIds -> Nat]
        /\ runs[m.id] = 0 => runs'[m.id] = 1
        /\ \A id \in MsgIds \ {m.id} : runs'[id] = runs[id]
    <2>1. runs[m.id] \in Nat
      BY <1>1
    <2>2. runs' \in [MsgIds -> Nat]
      BY <1>1, <1>4, <2>1
    <2>3. runs'[m.id] = runs[m.id] + 1
      BY <1>1, <1>4
    <2>4. \A id \in MsgIds \ {m.id} : runs'[id] = runs[id]
      BY <1>1, <1>4
    <2>. QED  BY <2>1, <2>2, <2>3, <2>4
  <1>6. toCome' \in Nat /\ toCome' <= rest + MaxContainer /\ (~HasInners(m) => toCome' = rest)
    <2>1. toCome' = rest + n /\ rest \in Nat /\ n \in Nat /\ n <= MaxContainer
      BY <1>2, <1>3
    <2>2. toCome' \in Nat /\ toCome' <= rest + MaxContainer
      BY <2>1, TrackerAssumption
    <2>3. ~HasInners(m) => toCome' = rest
      BY <1>3, <2>1
    <2>. QED  BY <2>2, <2>3
  <1>. QED  BY <1>4, <1>5, <1>6

LEMMA OpenKeepsIInv ==
    ASSUME IInv, OpenSession
    PROVE  IInv'
  <1>. USE DEF IInv
  <1>. DEFINE m == opening
  <1>1. /\ m # None /\ m \in Message /\ Dispatch(m, 0) /\ opening' = None
        /\ received' = received /\ order' = order /\ evictedHigh' = evictedHigh
        /\ maxReceived' = maxReceived /\ lastContentSeqNo' = lastContentSeqNo
        /\ now' = now /\ floor' = floor /\ nested' = nested
        /\ lost' = lost /\ answered' = answered
    BY DEF OpenSession, tracker, TypeOK
  <1>2. /\ runs' \in [MsgIds -> Nat]
        /\ pending' \in MsgIds \cup {None}
        /\ toCome' \in Nat
        /\ toCome' <= 0 + MaxContainer
        /\ runs[m.id] = 0 => runs'[m.id] = 1
        /\ \A id \in MsgIds \ {m.id} : runs'[id] = runs[id]
    BY <1>1, DispatchTypes
  <1>3. m.id \in MsgIds /\ Opening(m.id) /\ runs[m.id] = 0
    BY <1>1 DEF Message, Opening, Accounted
  <1>4. TypeOK'
    BY <1>1, <1>2, Zenon DEF TypeOK
  <1>5. WindowConsistent' /\ Bounded'
    BY <1>1 DEF WindowConsistent, Bounded
  <1>6. ASSUME NEW id \in MsgIds
        PROVE  /\ runs'[id] <= 1
               /\ Opening(id)' => runs'[id] = 0
               /\ id \in DOMAIN received' => Known(id)'
               /\ Known(id)' => id \in DOMAIN received' \/ id <= evictedHigh'
    <2>1. ~Opening(id)'
      BY <1>1 DEF Opening
    <2>2. CASE id = m.id
      <3>1. runs'[id] = 1 /\ Known(id)' /\ Known(id)
        BY <1>2, <1>3, <2>2 DEF Known
      <3>. QED  BY <1>1, <2>1, <3>1 DEF Accounted
    <2>3. CASE id # m.id
      <3>1. runs'[id] = runs[id]
        BY <1>2, <2>3
      <3>2. ~Opening(id)
        BY <1>1, <2>3 DEF Opening
      <3>3. Known(id)' <=> Known(id)
        BY <1>1, <2>1, <3>1, <3>2 DEF Known
      <3>. QED  BY <1>1, <2>1, <3>1, <3>3 DEF Accounted
    <2>. QED  BY <2>2, <2>3
  <1>7. toCome' > 0 => BeforeUpTo(toCome)'
    <2>. SUFFICES ASSUME toCome' > 0, NEW i \in 1..Len(order),
                         i + MaxTracked + 1 <= Len(order) + toCome'
                  PROVE  order[i] <= floor
      BY <1>1 DEF BeforeUpTo, ContainerSafe
    <2>1. Len(order) \in Nat
      BY DEF TypeOK
    <2>2. i + MaxTracked + 1 <= Len(order) + MaxContainer
      BY <1>2, <2>1
    <2>. QED  BY <1>1, <2>2 DEF ContainerSafe, BeforeUpTo
  <1>8. ContainerSafe'
    BY <1>1, <1>2, <1>7 DEF ContainerSafe
  <1>9. Accounted'
    BY <1>6 DEF Accounted
  <1>. QED  BY <1>4, <1>5, <1>8, <1>9

LEMMA FailKeepsIInv ==
    ASSUME IInv, SessionFails
    PROVE  IInv'
  <1>. USE DEF IInv
  <1>1. /\ opening # None /\ opening \in Message /\ opening' = None
        /\ lost' = lost \cup {opening.id}
        /\ received' = received /\ order' = order /\ evictedHigh' = evictedHigh
        /\ maxReceived' = maxReceived /\ lastContentSeqNo' = lastContentSeqNo
        /\ now' = now /\ floor' = floor /\ nested' = nested
        /\ pending' = pending /\ toCome' = toCome
        /\ runs' = runs /\ answered' = answered
    BY DEF SessionFails, tracker, TypeOK
  <1>2. opening.id \in MsgIds
    BY <1>1 DEF Message
  <1>3. lost' \subseteq MsgIds
    BY <1>1, <1>2 DEF TypeOK
  <1>4. TypeOK'
    BY <1>1, <1>3, Zenon DEF TypeOK
  <1>5. WindowConsistent' /\ Bounded'
    BY <1>1 DEF WindowConsistent, Bounded
  <1>6. ASSUME NEW id \in MsgIds
        PROVE  /\ runs'[id] <= 1
               /\ Opening(id)' => runs'[id] = 0
               /\ id \in DOMAIN received' => Known(id)'
               /\ Known(id)' => id \in DOMAIN received' \/ id <= evictedHigh'
    <2>1. ~Opening(id)'
      BY <1>1 DEF Opening
    <2>2. Known(id)' <=> Known(id)
      BY <1>1, <2>1 DEF Known, Opening
    <2>. QED  BY <1>1, <2>1, <2>2 DEF Accounted
  <1>7. Accounted'
    BY <1>6 DEF Accounted
  <1>8. ContainerSafe'
    BY <1>1 DEF ContainerSafe
  <1>. QED  BY <1>4, <1>5, <1>7, <1>8

(***************************************************************************)
(* An inner message: what its arrival evicts predates the container.       *)
(***************************************************************************)
LEMMA InnerKeepsIInv ==
    ASSUME IInv, NEW m \in Message, ReadInner(m)
    PROVE  IInv'
  <1>. USE DEF IInv
  <1>1. /\ toCome > 0 /\ toCome \in Nat /\ toCome - 1 \in Nat
        /\ opening = None /\ opening' = None
        /\ floor' = floor /\ now' = now /\ lastContentSeqNo' = lastContentSeqNo
        /\ lost' = lost /\ answered' = answered
    BY DEF ReadInner, TypeOK, ContainerSafe
  <1>2. CASE InnerSkipped(m)
    <2>1. /\ received' = received /\ order' = order /\ evictedHigh' = evictedHigh
          /\ maxReceived' = maxReceived /\ runs' = runs /\ nested' = nested
          /\ pending' = pending /\ toCome' = toCome - 1
      BY <1>2 DEF InnerSkipped
    <2>2. toCome' \in Nat
      BY <1>1, <2>1
    <2>3. TypeOK'
      BY <1>1, <2>1, <2>2, Zenon DEF TypeOK
    <2>4. WindowConsistent' /\ Bounded' /\ Accounted'
      BY <1>1, <2>1 DEF WindowConsistent, Bounded, Accounted, Known, Opening
    <2>5. ContainerSafe'
      <3>1. Len(order) \in Nat
        BY DEF TypeOK
      <3>2. ASSUME BeforeUpTo(toCome), toCome' > 0 PROVE BeforeUpTo(toCome)'
        BY <1>1, <2>1, <3>1, <3>2 DEF BeforeUpTo
      <3>. QED  BY <1>1, <2>1, <2>2, <3>2 DEF ContainerSafe
    <2>. QED  BY <2>3, <2>4, <2>5
  <1>3. CASE InnerAccepted(m)
    <2>1. /\ m.id \notin DOMAIN received /\ ~Forgotten(m.id)
          /\ Note(m) /\ Dispatch(m, toCome - 1)
          /\ nested' = (nested \/ HasInners(m))
      BY <1>3, AcceptedIsNew DEF InnerAccepted
    <2>2. /\ ~Known(m.id) /\ runs[m.id] = 0
          /\ m.id \in MsgIds /\ m.id \in DOMAIN received'
          /\ \A id \in MsgIds \ {m.id} :
                 /\ id \in DOMAIN received' => Known(id)
                 /\ Known(id) => id \in DOMAIN received' \/ id <= evictedHigh'
      BY <2>1, NoteAccounts
    <2>3. /\ WindowConsistent' /\ Bounded'
          /\ DOMAIN received' \subseteq MsgIds
          /\ received' \in [DOMAIN received' -> Entry]
          /\ evictedHigh' \in Nat /\ maxReceived' \in Nat
      BY <2>1, NoteKeepsWindow
    <2>4. order' \in Seq(MsgIds) /\ Len(order') \in 1..MaxTracked
      BY <2>1, NoteShifts
    <2>5. /\ runs' \in [MsgIds -> Nat]
          /\ pending' \in MsgIds \cup {None}
          /\ toCome' \in Nat
          /\ ~HasInners(m) => toCome' = toCome - 1
          /\ runs'[m.id] = 1
          /\ \A id \in MsgIds \ {m.id} : runs'[id] = runs[id]
      BY <1>1, <2>1, <2>2, DispatchTypes
    <2>6. TypeOK'
      <3>1. /\ now' \in Times /\ lastContentSeqNo' \in SeqNos \cup {-1} /\ floor' \in Nat
            /\ opening' \in Message \cup {None}
            /\ lost' \subseteq MsgIds /\ answered' \subseteq MsgIds
        BY <1>1, Zenon DEF TypeOK
      <3>2. Len(order') <= MaxTracked /\ nested' \in BOOLEAN
        BY <2>1, <2>4, TrackerAssumption
      <3>. QED  BY <2>3, <2>4, <2>5, <3>1, <3>2, Zenon DEF TypeOK
    <2>7. ASSUME NEW id \in MsgIds
          PROVE  /\ runs'[id] <= 1
                 /\ Opening(id)' => runs'[id] = 0
                 /\ id \in DOMAIN received' => Known(id)'
                 /\ Known(id)' => id \in DOMAIN received' \/ id <= evictedHigh'
      <3>1. ~Opening(id)' /\ ~Opening(id)
        BY <1>1 DEF Opening
      <3>2. CASE id = m.id
        <4>1. runs'[id] = 1 /\ Known(id)' /\ id \in DOMAIN received'
          BY <2>2, <2>5, <3>2 DEF Known
        <4>. QED  BY <3>1, <4>1
      <3>3. CASE id # m.id
        <4>1. runs'[id] = runs[id] /\ runs[id] <= 1
          BY <2>5, <3>3 DEF Accounted
        <4>2. Known(id)' <=> Known(id)
          BY <1>1, <3>1, <4>1 DEF Known
        <4>. QED  BY <2>2, <3>1, <3>3, <4>1, <4>2
      <3>. QED  BY <3>2, <3>3
    <2>8. ASSUME toCome' > 0, ~nested' PROVE toCome' <= MaxContainer /\ BeforeUpTo(toCome)'
      <3>1. ~nested /\ ~HasInners(m)
        BY <2>1, <2>8
      <3>4. toCome' = toCome - 1
        BY <2>5, <3>1
      <3>5. toCome > 1
        BY <1>1, <2>8, <3>4
      <3>2. BeforeUpTo(toCome) /\ toCome <= MaxContainer
        BY <1>1, <3>1 DEF ContainerSafe
      <3>3. /\ evictedHigh' <= floor'
            /\ \A i \in 1..Len(order') :
                   i + MaxTracked + 1 <= Len(order') + (toCome - 1) => order'[i] <= floor'
        BY <1>1, <2>1, <3>2, <3>5, NoteShiftsBefore
      <3>. QED  BY <1>1, <3>2, <3>3, <3>4 DEF BeforeUpTo
    <2>9. Accounted'
      BY <2>7 DEF Accounted
    <2>10. ContainerSafe'
      BY <1>1, <2>8 DEF ContainerSafe
    <2>. QED  BY <2>3, <2>6, <2>9, <2>10
  <1>. QED  BY <1>2, <1>3 DEF ReadInner

LEMMA AnswerKeepsIInv ==
    ASSUME IInv, RecordAnswer
    PROVE  IInv'
  <1>. USE DEF IInv, RecordAnswer
  <1>1. /\ DOMAIN received' = DOMAIN received
        /\ order' = order /\ evictedHigh' = evictedHigh
        /\ maxReceived' = maxReceived /\ lastContentSeqNo' = lastContentSeqNo
        /\ now' = now /\ opening' = opening /\ toCome' = toCome /\ floor' = floor
        /\ nested' = nested /\ runs' = runs /\ lost' = lost
        /\ pending' = None /\ pending \in MsgIds
    BY DEF TypeOK
  <1>2. received' \in [DOMAIN received -> Entry]
    <2>. SUFFICES ASSUME NEW i \in DOMAIN received PROVE received'[i] \in Entry
      BY <1>1
    <2>1. received[i] \in Entry
      BY DEF TypeOK
    <2>. QED  BY <2>1 DEF Entry
  <1>3. answered' \subseteq MsgIds
    BY <1>1 DEF TypeOK
  <1>4. TypeOK'
    BY <1>1, <1>2, <1>3, Zenon DEF TypeOK
  <1>5. WindowConsistent' /\ Bounded' /\ Accounted'
    BY <1>1 DEF WindowConsistent, Bounded, Accounted, Known, Opening
  <1>6. ContainerSafe'
    BY <1>1 DEF ContainerSafe, BeforeUpTo
  <1>. QED  BY <1>4, <1>5, <1>6

(***************************************************************************)
(* What neither the tracker nor what is known of the ids changes in, and   *)
(* what is left of an envelope only shrinks.                               *)
(***************************************************************************)
LEMMA RestKeepsIInv ==
    ASSUME IInv, UNCHANGED <<tracker, opening, history>>,
           now' \in Times, pending' \in {pending, None}, toCome' \in {toCome, 0}
    PROVE  IInv'
  <1>. USE DEF IInv
  <1>1. /\ received' = received /\ order' = order /\ evictedHigh' = evictedHigh
        /\ maxReceived' = maxReceived /\ lastContentSeqNo' = lastContentSeqNo
        /\ opening' = opening /\ floor' = floor /\ nested' = nested
        /\ runs' = runs /\ lost' = lost /\ answered' = answered
    BY DEF tracker, history
  <1>2. toCome' \in Nat /\ pending' \in MsgIds \cup {None}
    BY DEF TypeOK
  <1>3. TypeOK'
    BY <1>1, <1>2, Zenon DEF TypeOK
  <1>4. WindowConsistent' /\ Bounded' /\ Accounted'
    BY <1>1 DEF WindowConsistent, Bounded, Accounted, Known, Opening
  <1>5. ContainerSafe'
    BY <1>1 DEF ContainerSafe, BeforeUpTo
  <1>. QED  BY <1>3, <1>4, <1>5

LEMMA NextKeepsIInv == IInv /\ [Next]_vars => IInv'
  <1>. SUFFICES ASSUME IInv, [Next]_vars PROVE IInv'
    OBVIOUS
  <1>1. ASSUME NEW m \in Message, AcceptOuter(m) PROVE IInv'
    BY <1>1, OuterKeepsIInv
  <1>2. ASSUME NEW m \in Message, ReadInner(m) PROVE IInv'
    BY <1>2, InnerKeepsIInv
  <1>3. CASE OpenSession
    BY <1>3, OpenKeepsIInv
  <1>4. CASE SessionFails
    BY <1>4, FailKeepsIInv
  <1>5. CASE RecordAnswer
    BY <1>5, AnswerKeepsIInv
  <1>6. CASE Abandon
    BY <1>6, RestKeepsIInv DEF Abandon, IInv, TypeOK
  <1>7. CASE SetClock \/ UNCHANGED vars
    BY <1>7, RestKeepsIInv DEF SetClock, vars, IInv, TypeOK
  <1>. QED  BY <1>1, <1>2, <1>3, <1>4, <1>5, <1>6, <1>7 DEF Next

THEOREM IInvHolds == Spec => []IInv
  BY InitIInv, NextKeepsIInv, PTL DEF Spec

-----------------------------------------------------------------------------
(***************************************************************************)
(* The tracker's data keep their types and its window stays bounded.       *)
(***************************************************************************)
THEOREM TypeCorrect == Spec => []TypeOK
  <1>1. IInv => TypeOK
    BY DEF IInv
  <1>. QED  BY <1>1, IInvHolds, PTL

(***************************************************************************)
(* The map and the array of remembered ids (received, order) never         *)
(* disagree.                                                               *)
(***************************************************************************)
THEOREM WindowStaysConsistent == Spec => []WindowConsistent
  <1>1. IInv => WindowConsistent
    BY DEF IInv
  <1>. QED  BY <1>1, IInvHolds, PTL

(***************************************************************************)
(* accept() lets a msg_id through to the dispatcher at most once.          *)
(***************************************************************************)
THEOREM DispatchedAtMostOnce == Spec => []AtMostOnce
  <1>1. IInv => AtMostOnce
    BY DEF IInv, Accounted, AtMostOnce
  <1>. QED  BY <1>1, IInvHolds, PTL

(***************************************************************************)
(* stateOf() never reports an accepted message as not received; what it    *)
(* reports as received was dispatched, is about to be, or was lost with    *)
(* its session.                                                            *)
(***************************************************************************)
THEOREM StateInfoIsTruthful == Spec => []StateInfoTruthful
  <1>1. ASSUME IInv PROVE StateInfoTruthful
    <2>. SUFFICES ASSUME NEW id \in MsgIds
                  PROVE  /\ StateByte(id) \in {"2", "3"} => runs[id] = 0 /\ ~Opening(id) /\ id \notin lost
                         /\ StateByte(id) \in {"processed", "noAck"} => Known(id)
      BY DEF StateInfoTruthful, Known
    <2>1. /\ runs[id] \in Nat /\ runs[id] <= 1
          /\ id \in DOMAIN received => Known(id)
          /\ Known(id) => id \in DOMAIN received \/ id <= evictedHigh
      BY <1>1 DEF IInv, Accounted, TypeOK
    <2>2. StateByte(id) \in {"processed", "noAck"} => id \in DOMAIN received
      BY DEF StateByte
    <2>3. StateByte(id) \in {"2", "3"} => id \notin DOMAIN received /\ ~(id <= evictedHigh)
      BY DEF StateByte
    <2>. QED  BY <2>1, <2>2, <2>3 DEF Known
  <1>. QED  BY <1>1, IInvHolds, PTL

(***************************************************************************)
(* A container of at most CONTAINER_MAX_MESSAGES messages never pushes its *)
(* own unread messages below the eviction mark, because                    *)
(* CONTAINER_MAX_MESSAGES <= MAX_TRACKED; as long as none of them is a     *)
(* container itself.                                                       *)
(***************************************************************************)
THEOREM FreshInnerStaysVerifiable == Spec => []FreshInnerVerifiable
  <1>1. ASSUME IInv PROVE FreshInnerVerifiable
    <2>. SUFFICES ASSUME toCome > 0, ~nested, NEW m \in Message, m.id > floor
                  PROVE  Verdict(m, FALSE) # "20"
      BY DEF FreshInnerVerifiable
    <2>1. /\ evictedHigh <= floor
          /\ evictedHigh \in Nat /\ floor \in Nat /\ m.id \in Nat
      BY <1>1 DEF IInv, ContainerSafe, BeforeUpTo, TypeOK, Message
    <2>2. ~Forgotten(m.id)
      BY <2>1 DEF Forgotten
    <2>. QED  BY <2>2 DEF Verdict
  <1>. QED  BY <1>1, IInvHolds, PTL

(***************************************************************************)
(* accept() takes no id above every accepted one for a duplicate or for a  *)
(* forgotten one.                                                          *)
(***************************************************************************)
THEOREM HigherStaysNew == Spec => []HigherIsNew
  <1>1. ASSUME IInv PROVE HigherIsNew
    <2>. SUFFICES ASSUME NEW m \in Message, m.id > maxReceived
                  PROVE  Verdict(m, FALSE) \notin {"19", "20", "detailed", "drop"}
      BY DEF HigherIsNew
    <2>1. /\ evictedHigh \in Nat /\ maxReceived \in Nat /\ m.id \in Nat
          /\ evictedHigh <= maxReceived
      BY <1>1 DEF IInv, Bounded, TypeOK, Message
    <2>2. ~Forgotten(m.id)
      BY <2>1 DEF Forgotten
    <2>3. m.id \notin DOMAIN received
      <3>. order \in Seq(MsgIds) /\ \A i \in 1..Len(order) : order[i] <= maxReceived
        BY <1>1 DEF IInv, Bounded, TypeOK
      <3>1. \A i \in 1..Len(order) : order[i] <= maxReceived /\ order[i] \in Nat
        <4>. SUFFICES ASSUME NEW i \in 1..Len(order) PROVE order[i] \in Nat
          OBVIOUS
        <4>1. order[i] \in MsgIds
          OBVIOUS
        <4>. QED  BY <4>1
      <3>2. DOMAIN received = {order[i] : i \in 1..Len(order)}
        BY <1>1 DEF IInv, WindowConsistent
      <3>. QED  BY <2>1, <3>1, <3>2
    <2>. QED  BY <2>2, <2>3 DEF Verdict
  <1>. QED  BY <1>1, IInvHolds, PTL

(***************************************************************************)
(* What stateOf() calls not received is accepted when it is resent in a    *)
(* container.                                                              *)
(***************************************************************************)
THEOREM ResendIsAccepted == Spec => []ResendAccepted
  <1>1. ResendAccepted
    <2>. SUFFICES ASSUME NEW m \in Message, WellFormed(m), ~TooNew(m.id),
                         StateByte(m.id) \in {"2", "3"}
                  PROVE  Verdict(m, FALSE) = "ok"
      BY DEF ResendAccepted
    <2>1. m.id \notin DOMAIN received /\ ~TooOld(m.id) /\ ~Forgotten(m.id)
      BY DEF StateByte, Forgotten
    <2>. QED  BY <2>1 DEF Verdict, WellFormed
  <1>. QED  BY <1>1, PTL

-----------------------------------------------------------------------------
(***************************************************************************)
(* The tracker implements the life cycle of a msg_id: note() takes a fresh *)
(* id and at most retires others; what waits for its session is let go;    *)
(* every other step is a stutter.                                          *)
(***************************************************************************)
LEMMA NoteTakes ==
    ASSUME IInv, NEW m \in Message,
           m.id \notin DOMAIN received, ~Forgotten(m.id), Note(m)
    PROVE  LET st == [id \in MsgIds |-> Status(id)]
           IN  /\ st[m.id] = "fresh"
               /\ st' \in [MsgIds -> {"fresh", "taken", "retired"}]
               /\ st'[m.id] = "taken"
               /\ \A other \in MsgIds \ {m.id} : st'[other] \in {st[other], "retired"}
  <1>. DEFINE st == [id \in MsgIds |-> Status(id)]
  <1>1. /\ m.id \in MsgIds /\ evictedHigh \in Nat /\ MsgIds \subseteq Nat
    BY DEF IInv, TypeOK, Message
  <1>2. /\ DOMAIN received' = (DOMAIN received \cup {m.id}) \ Evicted
        /\ evictedHigh' \in Nat
        /\ evictedHigh <= evictedHigh'
        /\ \A e \in Evicted : e <= evictedHigh'
        /\ m.id \in DOMAIN received'
    BY NoteKeepsWindow DEF IInv
  <1>3. st[m.id] = "fresh"
    BY <1>1 DEF Status, Forgotten
  <1>4. st' = [id \in MsgIds |-> Status(id)']
    OBVIOUS
  <1>5. st'[m.id] = "taken" /\ st' \in [MsgIds -> {"fresh", "taken", "retired"}]
    BY <1>1, <1>2, <1>4 DEF Status
  <1>6. ASSUME NEW other \in MsgIds \ {m.id}
        PROVE  st'[other] \in {st[other], "retired"}
    <2>1. CASE other \in DOMAIN received
      <3>1. st[other] = "taken"
        BY <2>1 DEF Status
      <3>2. other \in DOMAIN received' \/ other <= evictedHigh'
        BY <1>2, <2>1
      <3>. QED  BY <1>4, <3>1, <3>2 DEF Status
    <2>2. CASE other \notin DOMAIN received
      <3>1. other \notin DOMAIN received'
        BY <1>2, <2>2
      <3>2. other \in Nat
        BY <1>1
      <3>3. other <= evictedHigh => other <= evictedHigh'
        BY <1>1, <1>2, <3>2
      <3>4. st[other] = IF other <= evictedHigh THEN "retired" ELSE "fresh"
        BY <2>2 DEF Status
      <3>5. st'[other] = IF other <= evictedHigh' THEN "retired" ELSE "fresh"
        BY <1>4, <3>1 DEF Status
      <3>. QED  BY <3>3, <3>4, <3>5
    <2>. QED  BY <2>1, <2>2
  <1>. QED  BY <1>3, <1>5, <1>6

InHand == IF opening = None THEN None ELSE opening.id

LEMMA OpeningInHand ==
    ASSUME TypeOK
    PROVE  /\ opening # None => InHand = opening.id /\ InHand \in MsgIds /\ InHand # None
           /\ opening = None => InHand = None
  BY TrackerAssumption DEF InHand, TypeOK, Message

THEOREM TrackerImplementsLifecycle == Spec => ImplementsLifecycle
  <1>1. Init => Lifecycle!Init
    <2>. SUFFICES ASSUME Init PROVE Lifecycle!Init
      OBVIOUS
    <2>1. \A id \in MsgIds : Status(id) \in {"fresh", "retired"}
      BY DEF Init, Status
    <2>. QED  BY <2>1 DEF Init, Lifecycle!Init
  <1>2. IInv /\ [Next]_vars => [Lifecycle!Next]_(Lifecycle!vars)
    <2>. SUFFICES ASSUME IInv, [Next]_vars
                  PROVE  Lifecycle!Next \/ UNCHANGED Lifecycle!vars
      OBVIOUS
    <2>. DEFINE st == [id \in MsgIds |-> Status(id)]
    <2>1. ASSUME DOMAIN received' = DOMAIN received, evictedHigh' = evictedHigh
          PROVE  st' = st
      BY <2>1 DEF Status
    <2>2. ASSUME DOMAIN received' = DOMAIN received, evictedHigh' = evictedHigh,
                 runs' = runs, opening' = opening
          PROVE  UNCHANGED Lifecycle!vars
      BY <2>1, <2>2 DEF Lifecycle!vars
    <2>3. ASSUME NEW m \in Message, AcceptOuter(m) PROVE Lifecycle!Next
      <3>1. /\ m.id \in MsgIds /\ m # None /\ opening = None /\ opening' = m
            /\ Note(m) /\ runs' = runs
            /\ m.id \notin DOMAIN received /\ ~Forgotten(m.id)
        BY <2>3, AcceptedIsNew, NoneIsNoMessage DEF AcceptOuter, Idle, Message
      <3>2. /\ st[m.id] = "fresh"
            /\ st' \in [MsgIds -> {"fresh", "taken", "retired"}]
            /\ st'[m.id] = "taken"
            /\ \A other \in MsgIds \ {m.id} : st'[other] \in {st[other], "retired"}
        BY <3>1, NoteTakes
      <3>3. InHand = None /\ InHand' = m.id
        BY <3>1 DEF InHand
      <3>4. Lifecycle!Take(m.id)
        BY <3>1, <3>2, <3>3 DEF Lifecycle!Take, InHand
      <3>. QED  BY <3>1, <3>4 DEF Lifecycle!Next
    <2>4. ASSUME NEW m \in Message, ReadInner(m), InnerAccepted(m) PROVE Lifecycle!Next
      <3>1. /\ m.id \in MsgIds /\ opening = None /\ opening' = None /\ Note(m)
            /\ m.id \notin DOMAIN received /\ ~Forgotten(m.id)
        <4>1. Note(m) /\ m.id \notin DOMAIN received /\ ~Forgotten(m.id)
          BY <2>4, AcceptedIsNew DEF InnerAccepted
        <4>2. opening = None /\ opening' = opening
          BY <2>4 DEF ReadInner, IInv, ContainerSafe
        <4>. QED  BY <4>1, <4>2 DEF Message
      <3>2. /\ st[m.id] = "fresh"
            /\ st' \in [MsgIds -> {"fresh", "taken", "retired"}]
            /\ st'[m.id] = "taken"
            /\ \A other \in MsgIds \ {m.id} : st'[other] \in {st[other], "retired"}
        BY <3>1, NoteTakes
      <3>3. InHand = None /\ InHand' = None
        BY <3>1 DEF InHand
      <3>4. Lifecycle!HandOver(m.id)
        BY <2>4 DEF InnerAccepted, Dispatch, Lifecycle!HandOver
      <3>5. Lifecycle!Take(m.id)
        BY <3>2, <3>3, <3>4 DEF Lifecycle!Take, InHand
      <3>. QED  BY <3>1, <3>5 DEF Lifecycle!Next
    <2>5. ASSUME NEW m \in Message, ReadInner(m), InnerSkipped(m)
          PROVE  UNCHANGED Lifecycle!vars
      BY <2>2, <2>5 DEF InnerSkipped, ReadInner
    <2>6. CASE OpenSession \/ SessionFails
      <3>1. /\ opening # None /\ opening' = None
            /\ received' = received /\ evictedHigh' = evictedHigh
        BY <2>6 DEF OpenSession, SessionFails, tracker
      <3>2. InHand = opening.id /\ InHand # None /\ InHand' = None
        BY <3>1, OpeningInHand DEF IInv, InHand
      <3>3. st' = st
        BY <2>1, <3>1
      <3>4. runs' = [runs EXCEPT ![opening.id] = runs[opening.id] + 1] \/ runs' = runs
        BY <2>6 DEF OpenSession, SessionFails, Dispatch
      <3>5. Lifecycle!LetGo
        BY <3>2, <3>3, <3>4 DEF Lifecycle!LetGo, Lifecycle!HandOver, InHand
      <3>. QED  BY <3>5 DEF Lifecycle!Next
    <2>7. CASE RecordAnswer
      BY <2>2, <2>7 DEF RecordAnswer
    <2>8. CASE Abandon \/ SetClock \/ UNCHANGED vars
      BY <2>2, <2>8 DEF Abandon, SetClock, vars, tracker, history
    <2>. QED  BY <2>3, <2>4, <2>5, <2>6, <2>7, <2>8 DEF Next, ReadInner
  <1>. QED  BY <1>1, <1>2, IInvHolds, PTL DEF Spec, ImplementsLifecycle, Lifecycle!Spec

-----------------------------------------------------------------------------
(***************************************************************************)
(* A request that was answered once is remembered so or forgotten for      *)
(* good: only note() and recordAnswer() write what is remembered of an id, *)
(* and note() writes ids that were never handed over.  The request being   *)
(* processed is in the window.                                             *)
(***************************************************************************)
Settled ==
    /\ \A id \in answered :
           /\ runs[id] = 1
           /\ id \in DOMAIN received => received[id].answered
    /\ \A id \in DOMAIN received : received[id].answered => id \in answered
    /\ pending # None => runs[pending] = 1

LEMMA NoteKeepsSettled ==
    ASSUME NEW m \in Message, IInv, Settled,
           m.id \notin DOMAIN received, ~Forgotten(m.id), Note(m), answered' = answered
    PROVE  /\ \A id \in answered' : id # m.id /\ runs[id] = 1
                                    /\ (id \in DOMAIN received' => received'[id].answered)
           /\ \A id \in DOMAIN received' : received'[id].answered => id \in answered'
  <1>1. m.id \in MsgIds /\ answered \subseteq MsgIds /\ runs[m.id] = 0
    BY NoteAccounts DEF IInv, TypeOK
  <1>2. \A id \in DOMAIN received' : id # m.id =>
            id \in DOMAIN received /\ received'[id] = received[id]
    BY DEF Note
  <1>3. m.id \in DOMAIN received' => received'[m.id].answered = FALSE
    BY DEF Note
  <1>4. ASSUME NEW id \in answered
        PROVE  id # m.id /\ runs[id] = 1 /\ (id \in DOMAIN received' => received'[id].answered)
    <2>1. runs[id] = 1 /\ id # m.id
      BY <1>1 DEF Settled
    <2>. QED  BY <1>2, <2>1 DEF Settled
  <1>5. ASSUME NEW id \in DOMAIN received', received'[id].answered PROVE id \in answered
    BY <1>2, <1>3, <1>5 DEF Settled
  <1>. QED  BY <1>4, <1>5

LEMMA NextKeepsSettled == IInv /\ Settled /\ [Next]_vars => Settled'
  <1>. SUFFICES ASSUME IInv, Settled, [Next]_vars PROVE Settled'
    OBVIOUS
  <1>1. ASSUME NEW m \in Message, AcceptOuter(m) PROVE Settled'
    <2>1. /\ Note(m) /\ answered' = answered /\ runs' = runs /\ pending' = pending
          /\ m.id \notin DOMAIN received /\ ~Forgotten(m.id)
      BY <1>1, AcceptedIsNew DEF AcceptOuter
    <2>. QED  BY <2>1, NoteKeepsSettled DEF Settled
  <1>2. ASSUME NEW m \in Message, ReadInner(m) PROVE Settled'
    <2>1. CASE InnerAccepted(m)
      <3>1. /\ Note(m) /\ answered' = answered /\ Dispatch(m, toCome - 1)
            /\ m.id \notin DOMAIN received /\ ~Forgotten(m.id)
        BY <1>2, <2>1, AcceptedIsNew DEF ReadInner, InnerAccepted
      <3>2. m.id \in MsgIds /\ answered \subseteq MsgIds /\ runs[m.id] = 0
            /\ runs \in [MsgIds -> Nat]
        BY <3>1, NoteAccounts DEF IInv, TypeOK
      <3>3. runs' = [runs EXCEPT ![m.id] = 1] /\ pending' \in {m.id, None}
        BY <3>1, <3>2 DEF Dispatch
      <3>4. /\ \A id \in answered' : id # m.id /\ runs[id] = 1
                                     /\ (id \in DOMAIN received' => received'[id].answered)
            /\ \A id \in DOMAIN received' : received'[id].answered => id \in answered'
        BY <3>1, NoteKeepsSettled
      <3>5. \A id \in answered' : runs'[id] = 1
        BY <3>1, <3>2, <3>3, <3>4
      <3>6. pending' # None => runs'[pending'] = 1
        BY <3>2, <3>3
      <3>. QED  BY <3>4, <3>5, <3>6 DEF Settled
    <2>2. CASE InnerSkipped(m)
      BY <1>2, <2>2 DEF InnerSkipped, ReadInner, Settled
    <2>. QED  BY <1>2, <2>1, <2>2 DEF ReadInner
  <1>3. CASE OpenSession
    <2>1. /\ opening # None /\ opening \in Message /\ Dispatch(opening, 0)
          /\ received' = received /\ answered' = answered
      BY <1>3 DEF OpenSession, tracker, IInv, TypeOK
    <2>2. opening.id \in MsgIds /\ runs[opening.id] = 0 /\ runs \in [MsgIds -> Nat]
          /\ answered \subseteq MsgIds
      BY <2>1 DEF IInv, TypeOK, Accounted, Opening, Message
    <2>3. runs' = [runs EXCEPT ![opening.id] = 1] /\ pending' \in {opening.id, None}
      BY <2>1, <2>2 DEF Dispatch
    <2>4. \A id \in answered : runs'[id] = 1
      BY <2>2, <2>3 DEF Settled
    <2>5. pending' # None => runs'[pending'] = 1
      BY <2>2, <2>3
    <2>. QED  BY <2>1, <2>4, <2>5 DEF Settled
  <1>4. CASE RecordAnswer
    <2>1. /\ answered' = answered \cup {pending} /\ runs' = runs /\ pending # None
          /\ pending' = None /\ DOMAIN received' = DOMAIN received
      BY <1>4 DEF RecordAnswer
    <2>2. ASSUME NEW id \in DOMAIN received
          PROVE  received'[id].answered <=> id = pending \/ received[id].answered
      <3>1. received[id] \in Entry
        BY DEF IInv, TypeOK
      <3>2. CASE id = pending
        BY <1>4, <3>1, <3>2 DEF RecordAnswer, Entry
      <3>3. CASE id # pending
        BY <1>4, <3>3 DEF RecordAnswer
      <3>. QED  BY <3>2, <3>3
    <2>. QED  BY <2>1, <2>2 DEF Settled
  <1>5. CASE SessionFails \/ Abandon \/ SetClock \/ UNCHANGED vars
    <2>1. /\ received' = received /\ answered' = answered /\ runs' = runs
          /\ pending' \in {pending, None}
      BY <1>5 DEF SessionFails, Abandon, SetClock, vars, tracker, history
    <2>. QED  BY <2>1 DEF Settled
  <1>. QED  BY <1>1, <1>2, <1>3, <1>4, <1>5 DEF Next

(***************************************************************************)
(* accept() never drops a resent request in silence once its answer was    *)
(* sent: what it still remembers of it is answered with msg_detailed_info, *)
(* what it forgot with a bad_msg_notification; and msg_detailed_info is    *)
(* not sent of anything else.                                              *)
(***************************************************************************)
THEOREM AnsweredIsNeverDropped == Spec => []AnsweredNeverDropped
  <1>1. Init => Settled
    BY DEF Init, Settled
  <1>2. IInv /\ Settled => AnsweredNeverDropped
    <2>. SUFFICES ASSUME IInv, Settled, NEW m \in Message
                  PROVE  /\ m.id \in answered => Verdict(m, FALSE) \notin {"ok", "drop"}
                         /\ Verdict(m, FALSE) = "detailed" => m.id \in answered
      BY DEF AnsweredNeverDropped
    <2>1. m.id \in answered /\ m.id \in DOMAIN received => received[m.id].answered
      BY DEF Settled
    <2>2. m.id \in answered => m.id \in DOMAIN received \/ Forgotten(m.id)
      BY DEF Settled, IInv, Accounted, Known, TypeOK, Forgotten
    <2>3. Verdict(m, FALSE) = "detailed" => m.id \in DOMAIN received /\ received[m.id].answered
      BY DEF Verdict
    <2>. QED  BY <2>1, <2>2, <2>3 DEF Verdict, Settled
  <1>. QED  BY <1>1, <1>2, IInvHolds, NextKeepsSettled, PTL DEF Spec
=============================================================================
