------------------------------ MODULE TcpProofs ------------------------------
(***************************************************************************)
(* The two byte streams of a TCP socket, for every size of the rings, of   *)
(* the window and of the segments, and every order, loss and overlap of    *)
(* what arrives.                                                           *)
(***************************************************************************)
EXTENDS TcpSocket, SequenceTheorems, FiniteSetTheorems, TLAPS

Socket(s) == DOMAIN s = DOMAIN Closed

\* What the receiving side keeps: the ring, its two ends and the hole.
SameRx(s, t) ==
    /\ t.rx = s.rx /\ t.rxHead = s.rxHead /\ t.rxTail = s.rxTail
    /\ t.RemoteSEQ = s.RemoteSEQ
    /\ t.sHoleSize = s.sHoleSize /\ t.wFutureDataSize = s.wFutureDataSize

-----------------------------------------------------------------------------
(* Positions in the ring of the receiving side *)

\* How far slot p is ahead of the head, once around.
Ahead(s, p) == (p - s.rxHead) % (R + 1)

\* The place in the peer's stream of the next byte, when L bytes and a FIN
\* are in the stream.
Place(s, L) == Least(s.RemoteSEQ - 1, L)

RxTypes(s, L) ==
    /\ s.rxHead \in 0 .. R /\ s.rxTail \in 0 .. R
    /\ DOMAIN s.rx = 0 .. R
    /\ s.RemoteSEQ \in 0 .. L + 2
    /\ s.sHoleSize \in Int /\ s.wFutureDataSize \in Nat

\* The slots behind the head hold the bytes that are ready, in order.
ReadyHeld(s, L) ==
    \A p \in 0 .. R : Ahead(s, p) + GetReady(s) > R =>
        s.rx[p] = Place(s, L) + Ahead(s, p) - (R + 1)

\* Behind a hole the slots hold what came out of order, and it fits.
FutureHeld(s, L) ==
    s.sHoleSize # -1 =>
        /\ s.sHoleSize > 0
        /\ s.sHoleSize + s.wFutureDataSize <= FreeSpace(s)
        /\ Place(s, L) + s.sHoleSize + s.wFutureDataSize <= L
        /\ \A p \in 0 .. R :
              s.sHoleSize <= Ahead(s, p) /\ Ahead(s, p) < s.sHoleSize + s.wFutureDataSize
                => s.rx[p] = Place(s, L) + Ahead(s, p)

RxHeld(s, L) == RxTypes(s, L) /\ ReadyHeld(s, L) /\ FutureHeld(s, L)

LEMMA RingFacts == R \in Nat \ {0} /\ T \in Nat \ {0} /\ MSS \in Nat \ {0} /\ W \in Nat \ {0}
  BY SocketAssumption

LEMMA Remainder == ASSUME NEW a \in Int, NEW r \in Nat PROVE a % (r + 1) \in 0 .. r
  OBVIOUS

LEMMA AheadRange ==
    ASSUME NEW s, NEW p \in 0 .. R, s.rxHead \in 0 .. R
    PROVE  Ahead(s, p) \in 0 .. R
  <1>1. p - s.rxHead \in Int /\ R \in Nat
    BY RingFacts
  <1>2. QED
    BY <1>1, Remainder DEF Ahead

\* Moving the head by n slots.
LEMMA AheadMoves ==
    ASSUME NEW r \in Nat, NEW h \in 0 .. r, NEW p \in 0 .. r, NEW n \in 0 .. r
    PROVE  (p - ((h + n) % (r + 1))) % (r + 1) =
               IF (p - h) % (r + 1) >= n THEN ((p - h) % (r + 1)) - n
               ELSE ((p - h) % (r + 1)) - n + (r + 1)
  <1>1. (h + n) % (r + 1) = IF h + n <= r THEN h + n ELSE h + n - (r + 1)
    OBVIOUS
  <1>2. (p - h) % (r + 1) = IF p >= h THEN p - h ELSE p - h + (r + 1)
    OBVIOUS
  <1>3. QED
    BY <1>1, <1>2

LEMMA ReadyMoves ==
    ASSUME NEW r \in Nat, NEW h \in 0 .. r, NEW t \in 0 .. r, NEW n \in 0 .. r,
           ((h - t) % (r + 1)) + n <= r
    PROVE  (((h + n) % (r + 1)) - t) % (r + 1) = ((h - t) % (r + 1)) + n
  <1>1. (h + n) % (r + 1) = IF h + n <= r THEN h + n ELSE h + n - (r + 1)
    OBVIOUS
  <1>2. (h - t) % (r + 1) = IF h >= t THEN h - t ELSE h - t + (r + 1)
    OBVIOUS
  <1>3. QED
    BY <1>1, <1>2

-----------------------------------------------------------------------------
(* What does not touch the receiving side *)

LEMMA RxKept ==
    ASSUME NEW s, NEW t, NEW L, SameRx(s, t)
    PROVE  /\ RxHeld(s, L) => RxHeld(t, L)
           /\ GetReady(t) = GetReady(s) /\ Place(t, L) = Place(s, L)
           /\ FreeSpace(t) = FreeSpace(s)
  BY DEF SameRx, RxHeld, RxTypes, ReadyHeld, FutureHeld, GetReady, Place, FreeSpace, Ahead

LEMMA ReadyRange ==
    ASSUME NEW s, s.rxHead \in 0 .. R, s.rxTail \in 0 .. R
    PROVE  GetReady(s) \in 0 .. R /\ FreeSpace(s) \in 0 .. R /\ FreeSpace(s) + GetReady(s) = R
  <1>1. (s.rxHead - s.rxTail) % (R + 1) \in 0 .. R
    BY RingFacts
  <1>2. QED
    BY <1>1, RingFacts DEF GetReady, FreeSpace

LEMMA SendRx ==
    ASSUME NEW s, NEW flags, NEW how, Socket(s)
    PROVE  /\ Socket(SendTCP(s, flags, how))
           /\ SameRx(s, SendTCP(s, flags, how))
           /\ SendTCP(s, flags, how).smState = s.smState
  BY DEF Socket, SameRx, SendTCP, Closed

-----------------------------------------------------------------------------
(* What arrives in order *)

\* A segment of the peer's stream of L bytes and a FIN.
Carried(m, L) ==
    /\ m.data \in Seq(Nat) /\ m.seq \in Nat
    /\ \A k \in 1 .. Len(m.data) : m.data[k] = m.seq + k - 2
    /\ m.data # <<>> => m.seq + Len(m.data) <= L + 1
    /\ "FIN" \in m.flags => m.seq + Len(m.data) = L + 1 /\ "SYN" \notin m.flags
    /\ "SYN" \in m.flags => m.seq = 0 /\ m.data = <<>>

LEMMA SegLenIs ==
    ASSUME NEW m, NEW L, Carried(m, L)
    PROVE  SegLen(m) = Len(m.data) + (IF m.flags \cap {"SYN", "FIN"} = {} THEN 0 ELSE 1)
  <1>1. CASE m.flags \cap {"SYN", "FIN"} = {}
    BY <1>1, FS_EmptySet DEF SegLen, Carried
  <1>2. CASE m.flags \cap {"SYN", "FIN"} # {}
    <2>1. PICK f : m.flags \cap {"SYN", "FIN"} = {f}
      BY <1>2 DEF Carried
    <2>2. Cardinality(m.flags \cap {"SYN", "FIN"}) = 1
      BY <2>1, FS_Singleton
    <2>3. QED
      BY <1>2, <2>2 DEF SegLen
  <1>3. QED
    BY <1>1, <1>2

\* The slots that a segment's data goes to.
LEMMA StoredHolds ==
    ASSUME NEW L \in Nat, NEW s, NEW m, NEW skip \in Nat, NEW len \in Nat,
           RxTypes(s, L), Carried(m, L), s.RemoteSEQ <= L + 1,
           Missing(s, m) <= skip, skip + len - Missing(s, m) <= Len(m.data),
           NEW p \in 0 .. R
    PROVE  Stored(s, m, skip, len)[p] =
               IF skip <= Ahead(s, p) /\ Ahead(s, p) < skip + len
               THEN Place(s, L) + Ahead(s, p) ELSE s.rx[p]
  <1>1. Ahead(s, p) \in 0 .. R
    BY AheadRange DEF RxTypes
  <1>2. Place(s, L) = s.RemoteSEQ - 1
    BY DEF Place, Least, RxTypes
  <1>3. Missing(s, m) = m.seq - s.RemoteSEQ /\ m.seq \in Nat /\ s.RemoteSEQ \in Nat
    BY DEF Missing, Carried, RxTypes
  <1>4. CASE skip <= Ahead(s, p) /\ Ahead(s, p) < skip + len
    <2>1. Ahead(s, p) - Missing(s, m) + 1 \in 1 .. Len(m.data)
      <3>1. Len(m.data) \in Nat
        BY DEF Carried
      <3>2. Missing(s, m) \in Int
        BY <1>3
      <3>3. QED
        BY <1>1, <1>4, <3>1, <3>2
    <2>2. m.data[Ahead(s, p) - Missing(s, m) + 1] = m.seq + (Ahead(s, p) - Missing(s, m) + 1) - 2
      BY <2>1 DEF Carried
    <2>3. Stored(s, m, skip, len)[p] = m.data[(Ahead(s, p) - skip) + skip - Missing(s, m) + 1]
      BY <1>1, <1>4 DEF Stored, Ahead, RxTypes
    <2>4. (Ahead(s, p) - skip) + skip - Missing(s, m) + 1 = Ahead(s, p) - Missing(s, m) + 1
      BY <1>1, <1>3
    <2>5. QED
      <3>1. Stored(s, m, skip, len)[p] = m.seq + (Ahead(s, p) - Missing(s, m) + 1) - 2
        BY <2>2, <2>3, <2>4
      <3>2. m.seq + (Ahead(s, p) - Missing(s, m) + 1) - 2 = (s.RemoteSEQ - 1) + Ahead(s, p)
        BY <1>1, <1>3
      <3>3. QED
        BY <1>2, <1>4, <3>1, <3>2
  <1>5. CASE ~(skip <= Ahead(s, p) /\ Ahead(s, p) < skip + len)
    BY <1>1, <1>5 DEF Stored, Ahead, RxTypes
  <1>6. QED
    BY <1>4, <1>5

\* The head moves over n slots that hold the next n bytes.
TakesIn(s, t, n, L) ==
    /\ n <= FreeSpace(s) /\ s.RemoteSEQ + n <= L + 1
    /\ t.rxHead = (s.rxHead + n) % (R + 1) /\ t.rxTail = s.rxTail
    /\ t.RemoteSEQ = s.RemoteSEQ + n /\ DOMAIN t.rx = 0 .. R
    /\ \A p \in 0 .. R : Ahead(s, p) < n => t.rx[p] = Place(s, L) + Ahead(s, p)
    /\ \A p \in 0 .. R : Ahead(s, p) >= FreeSpace(s) => t.rx[p] = s.rx[p]

LEMMA HeadMoves ==
    ASSUME NEW L \in Nat, NEW s, NEW t, NEW n \in 0 .. R, RxHeld(s, L), TakesIn(s, t, n, L)
    PROVE  /\ ReadyHeld(t, L) /\ t.rxHead \in 0 .. R
           /\ GetReady(t) = GetReady(s) + n /\ FreeSpace(t) = FreeSpace(s) - n
           /\ Place(t, L) = Place(s, L) + n
           /\ \A p \in 0 .. R :
                 Ahead(t, p) = IF Ahead(s, p) >= n THEN Ahead(s, p) - n
                               ELSE Ahead(s, p) - n + (R + 1)
  <1>1. s.rxHead \in 0 .. R /\ s.rxTail \in 0 .. R /\ s.RemoteSEQ \in 0 .. L + 2
    BY DEF RxHeld, RxTypes
  <1>2. /\ GetReady(s) \in 0 .. R /\ FreeSpace(s) \in 0 .. R /\ FreeSpace(s) + GetReady(s) = R
    BY <1>1, ReadyRange
  <1>3. R \in Nat /\ s.rxHead + n \in Int
    BY <1>1, RingFacts
  <1>4. /\ n <= FreeSpace(s) /\ s.RemoteSEQ + n <= L + 1
        /\ t.rxHead = (s.rxHead + n) % (R + 1) /\ t.rxTail = s.rxTail
        /\ t.RemoteSEQ = s.RemoteSEQ + n
    BY DEF TakesIn
  <1>5. t.rxHead \in 0 .. R
    BY <1>3, <1>4, Remainder
  <1>6. GetReady(t) = GetReady(s) + n
    <2>1. ((s.rxHead - s.rxTail) % (R + 1)) + n <= R
      BY <1>2, <1>3, <1>4 DEF GetReady
    <2>2. (((s.rxHead + n) % (R + 1)) - s.rxTail) % (R + 1) = ((s.rxHead - s.rxTail) % (R + 1)) + n
      BY <1>1, <1>3, <2>1, ReadyMoves
    <2>3. QED
      BY <1>4, <2>2 DEF GetReady
  <1>7. FreeSpace(t) = FreeSpace(s) - n
    BY <1>2, <1>3, <1>6 DEF FreeSpace
  <1>8. Place(s, L) = s.RemoteSEQ - 1 /\ Place(t, L) = s.RemoteSEQ - 1 + n
    BY <1>1, <1>4 DEF Place, Least
  <1>9. ASSUME NEW p \in 0 .. R
        PROVE  /\ Ahead(s, p) \in 0 .. R
               /\ Ahead(t, p) = IF Ahead(s, p) >= n THEN Ahead(s, p) - n
                                ELSE Ahead(s, p) - n + (R + 1)
    <2>1. Ahead(s, p) \in 0 .. R
      BY <1>1, AheadRange
    <2>2. (p - ((s.rxHead + n) % (R + 1))) % (R + 1) =
              IF (p - s.rxHead) % (R + 1) >= n THEN ((p - s.rxHead) % (R + 1)) - n
              ELSE ((p - s.rxHead) % (R + 1)) - n + (R + 1)
      BY <1>1, <1>3, AheadMoves
    <2>3. QED
      BY <1>4, <2>1, <2>2 DEF Ahead
  <1>10. ASSUME NEW p \in 0 .. R, Ahead(t, p) + GetReady(t) > R
         PROVE  t.rx[p] = Place(t, L) + Ahead(t, p) - (R + 1)
    <2>0. Ahead(s, p) \in 0 .. R
      BY <1>9
    <2>1. CASE Ahead(s, p) >= n
      <3>1. Ahead(t, p) = Ahead(s, p) - n
        BY <1>9, <2>1
      <3>2. Ahead(s, p) + GetReady(s) > R
        BY <1>2, <1>3, <1>6, <1>10, <2>0, <3>1
      <3>3. Ahead(s, p) >= FreeSpace(s)
        BY <1>2, <1>3, <2>0, <3>2
      <3>4. t.rx[p] = Place(s, L) + Ahead(s, p) - (R + 1)
        BY <3>2, <3>3 DEF RxHeld, ReadyHeld, TakesIn
      <3>5. (s.RemoteSEQ - 1) + Ahead(s, p) - (R + 1)
              = (s.RemoteSEQ - 1 + n) + (Ahead(s, p) - n) - (R + 1)
        BY <1>1, <1>3, <2>0
      <3>6. QED
        BY <1>8, <3>1, <3>4, <3>5
    <2>2. CASE Ahead(s, p) < n
      <3>1. t.rx[p] = Place(s, L) + Ahead(s, p)
        BY <2>2 DEF TakesIn
      <3>2. ~(Ahead(s, p) >= n)
        BY <2>0, <2>2
      <3>3. Ahead(t, p) = Ahead(s, p) - n + (R + 1)
        BY <1>9, <3>2
      <3>4. (s.RemoteSEQ - 1) + Ahead(s, p)
              = (s.RemoteSEQ - 1 + n) + (Ahead(s, p) - n + (R + 1)) - (R + 1)
        BY <1>1, <1>3, <2>0
      <3>5. QED
        BY <1>8, <3>1, <3>3, <3>4
    <2>3. QED
      BY <2>0, <2>1, <2>2
  <1>11. Place(t, L) = Place(s, L) + n
    BY <1>1, <1>8
  <1>12. QED
    BY <1>5, <1>6, <1>7, <1>9, <1>10, <1>11 DEF ReadyHeld

LEMMA InOrderHolds ==
    ASSUME NEW L \in Nat, NEW s, NEW m, Socket(s), RxHeld(s, L), Carried(m, L),
           m.data # <<>>, Missing(s, m) <= 0, Acceptable(s, m)
    PROVE  LET t == InOrder(s, m)
           IN /\ Socket(t) /\ RxHeld(t, L) /\ t.smState = s.smState
              /\ t.RemoteSEQ <= L + 1 /\ s.RemoteSEQ <= L + 1
              /\ Place(t, L) - GetReady(t) = Place(s, L) - GetReady(s)
  <1> DEFINE len  == Least(Len(m.data) + Missing(s, m), FreeSpace(s))
             hole == s.sHoleSize - len
             rest == s.wFutureDataSize + hole
             join == IF s.sHoleSize # -1 /\ hole <= 0 /\ rest >= 0 THEN rest ELSE 0
             t    == InOrder(s, m)
  <1>0. /\ RxTypes(s, L) /\ s.rxHead \in 0 .. R /\ s.rxTail \in 0 .. R /\ DOMAIN s.rx = 0 .. R
    BY DEF RxHeld, RxTypes
  <1>1. s.RemoteSEQ \in Nat /\ s.RemoteSEQ <= L + 2
        /\ s.sHoleSize \in Int /\ s.wFutureDataSize \in Nat
    BY DEF RxHeld, RxTypes
  <1>2. GetReady(s) \in Nat /\ FreeSpace(s) \in Nat /\ R \in Nat /\ FreeSpace(s) + GetReady(s) = R
    BY <1>0, ReadyRange, RingFacts
  <1>3. Missing(s, m) = m.seq - s.RemoteSEQ /\ m.seq \in Nat /\ Len(m.data) \in Nat
        /\ m.seq + Len(m.data) <= L + 1
    BY DEF Missing, Carried
  <1>4. SegLen(m) \in {Len(m.data), Len(m.data) + 1}
    <2>1. SegLen(m) = Len(m.data) + (IF m.flags \cap {"SYN", "FIN"} = {} THEN 0 ELSE 1)
      BY SegLenIs
    <2>2. CASE m.flags \cap {"SYN", "FIN"} = {}
      BY <1>3, <2>1, <2>2
    <2>3. CASE m.flags \cap {"SYN", "FIN"} # {}
      BY <2>1, <2>3
    <2>4. QED
      BY <2>2, <2>3
  <1>5. Missing(s, m) + SegLen(m) > 0
    <2>1. SegLen(m) > 0
      <3>1. Len(m.data) > 0
        BY <1>3, EmptySeq DEF Carried
      <3>2. QED
        BY <1>3, <1>4, <3>1
    <2>2. QED
      BY <2>1 DEF Acceptable
  <1>6. s.RemoteSEQ <= L + 1 /\ Len(m.data) + Missing(s, m) \in Nat
    <2>1. CASE SegLen(m) = Len(m.data)
      BY <1>1, <1>3, <1>5, <2>1
    <2>2. CASE SegLen(m) = Len(m.data) + 1
      BY <1>1, <1>3, <1>5, <2>2
    <2>3. QED
      BY <1>4, <2>1, <2>2
  <1>7. Place(s, L) = s.RemoteSEQ - 1
    BY <1>1, <1>6 DEF Place, Least
  <1>8. len \in 0 .. FreeSpace(s) /\ len <= Len(m.data) + Missing(s, m)
    BY <1>2, <1>6 DEF Least
  <1>9. /\ t.rx = Stored(s, m, 0, len) /\ t.RemoteSEQ = s.RemoteSEQ + len + join
        /\ t.rxHead = (s.rxHead + len + join) % (R + 1) /\ t.rxTail = s.rxTail
        /\ t.sHoleSize = (IF s.sHoleSize = -1 \/ hole <= 0 \/ rest < 0 THEN -1 ELSE hole)
        /\ t.wFutureDataSize = s.wFutureDataSize /\ t.smState = s.smState /\ Socket(t)
    BY DEF InOrder, Socket, Closed
  <1> HIDE DEF len, t
  <1>10. s.RemoteSEQ + len <= L + 1 /\ len \in Nat /\ len <= R
    <2>1. len \in Nat /\ len <= FreeSpace(s)
      BY <1>2, <1>8
    <2>2. s.RemoteSEQ + len <= m.seq + Len(m.data)
      BY <1>1, <1>3, <1>8, <2>1
    <2>3. len <= R
      BY <1>2, <2>1
    <2>4. s.RemoteSEQ + len <= L + 1
      BY <1>1, <1>3, <2>1, <2>2
    <2>5. QED
      BY <2>1, <2>3, <2>4
  <1>11. \A p \in 0 .. R : t.rx[p] = IF Ahead(s, p) < len THEN Place(s, L) + Ahead(s, p)
                                     ELSE s.rx[p]
    <2> SUFFICES ASSUME NEW p \in 0 .. R
                 PROVE t.rx[p] = IF Ahead(s, p) < len THEN Place(s, L) + Ahead(s, p) ELSE s.rx[p]
      OBVIOUS
    <2>1. 0 + len - Missing(s, m) <= Len(m.data)
      BY <1>3, <1>1, <1>8, <1>10
    <2>2. Ahead(s, p) \in 0 .. R
      BY <1>0, AheadRange
    <2>3. 0 <= Ahead(s, p) /\ 0 + len = len /\ 0 \in Nat
      BY <1>10, <2>2
    <2>4. QED
      BY <1>0, <1>6, <1>9, <1>10, <2>1, <2>3, StoredHolds
  <1>12. DOMAIN t.rx = 0 .. R
    BY <1>0, <1>9 DEF Stored
  <1>13. s.sHoleSize # -1 =>
            /\ s.sHoleSize > 0 /\ s.sHoleSize + s.wFutureDataSize <= FreeSpace(s)
            /\ Place(s, L) + s.sHoleSize + s.wFutureDataSize <= L
            /\ \A p \in 0 .. R :
                  s.sHoleSize <= Ahead(s, p) /\ Ahead(s, p) < s.sHoleSize + s.wFutureDataSize
                    => s.rx[p] = Place(s, L) + Ahead(s, p)
    BY DEF RxHeld, FutureHeld
  <1> DEFINE n == len + join
  <1>14. n \in 0 .. R /\ n <= FreeSpace(s) /\ s.RemoteSEQ + n <= L + 1
         /\ \A p \in 0 .. R : Ahead(s, p) < n => t.rx[p] = Place(s, L) + Ahead(s, p)
    <2>1. CASE join = 0
      <3>1. n = len
        BY <1>10, <2>1
      <3>2. QED
        BY <1>2, <1>8, <1>10, <1>11, <3>1
    <2>2. CASE join # 0
      <3>1. s.sHoleSize # -1 /\ hole <= 0 /\ rest >= 0 /\ join = rest
        BY <2>2
      <3>2. n = s.sHoleSize + s.wFutureDataSize
        BY <1>1, <1>10, <3>1
      <3>3. n <= FreeSpace(s) /\ s.RemoteSEQ - 1 + n <= L
        BY <1>1, <1>7, <1>13, <3>1, <3>2
      <3>4. n \in Nat /\ s.sHoleSize > 0
        BY <1>1, <1>13, <3>1, <3>2
      <3>7. n \in 0 .. R /\ s.RemoteSEQ + n <= L + 1
        <4> HIDE DEF n
        <4> QED
          BY <1>1, <1>2, <3>3, <3>4
      <3>5. ASSUME NEW p \in 0 .. R, Ahead(s, p) < n
            PROVE  t.rx[p] = Place(s, L) + Ahead(s, p)
        <4>1. CASE Ahead(s, p) < len
          BY <1>11, <4>1
        <4>2. CASE ~(Ahead(s, p) < len)
          <5>1. Ahead(s, p) \in 0 .. R
            BY <1>0, AheadRange
          <5>2. s.sHoleSize <= Ahead(s, p)
            BY <1>1, <1>10, <3>1, <4>2, <5>1
          <5>3. s.rx[p] = Place(s, L) + Ahead(s, p)
            BY <1>13, <3>1, <3>2, <3>5, <5>2
          <5>4. QED
            BY <1>11, <4>2, <5>3
        <4>3. QED
          BY <4>1, <4>2
      <3>6. QED
        BY <3>3, <3>5, <3>7
    <2>3. QED
      BY <2>1, <2>2
  <1>15. join \in Nat
    BY <1>1, <1>10
  <1> HIDE DEF join
  <1>16. TakesIn(s, t, n, L)
    <2>1. s.RemoteSEQ + len + join = s.RemoteSEQ + n /\ s.rxHead + len + join = s.rxHead + n
      <3>1. s.rxHead \in Int
        BY <1>0, <1>2
      <3>2. QED
        BY <1>1, <1>10, <1>15, <3>1
    <2>2. ASSUME NEW p \in 0 .. R, Ahead(s, p) >= FreeSpace(s)
          PROVE  t.rx[p] = s.rx[p]
      <3>1. Ahead(s, p) \in 0 .. R
        BY <1>0, AheadRange
      <3>2. ~(Ahead(s, p) < len)
        BY <1>2, <1>8, <2>2, <3>1
      <3>3. QED
        BY <1>11, <3>2
    <2>3. QED
      BY <1>9, <1>12, <1>14, <2>1, <2>2 DEF TakesIn
  <1> HIDE DEF n
  <1>17. /\ ReadyHeld(t, L) /\ t.rxHead \in 0 .. R
         /\ GetReady(t) = GetReady(s) + n /\ FreeSpace(t) = FreeSpace(s) - n
         /\ Place(t, L) = Place(s, L) + n
         /\ \A p \in 0 .. R :
                 Ahead(t, p) = IF Ahead(s, p) >= n THEN Ahead(s, p) - n
                               ELSE Ahead(s, p) - n + (R + 1)
    <2>1. n \in 0 .. R
      BY <1>14
    <2> HIDE DEF t, len, hole, rest
    <2>2. QED
      BY <1>16, <2>1, HeadMoves
  <1>18. RxTypes(t, L) /\ t.RemoteSEQ <= L + 1
    <2>1. t.RemoteSEQ = s.RemoteSEQ + n
      BY <1>1, <1>16 DEF TakesIn
    <2>2. t.RemoteSEQ \in 0 .. L + 2 /\ t.RemoteSEQ <= L + 1
      BY <1>1, <1>14, <2>1
    <2>3. t.sHoleSize \in Int
      BY <1>1, <1>9, <1>10
    <2>4. QED
      BY <1>0, <1>1, <1>9, <1>12, <1>17, <2>2, <2>3 DEF RxTypes
  <1>19. FutureHeld(t, L)
    <2> SUFFICES ASSUME t.sHoleSize # -1
                 PROVE  /\ t.sHoleSize > 0
                        /\ t.sHoleSize + s.wFutureDataSize <= FreeSpace(t)
                        /\ Place(t, L) + t.sHoleSize + s.wFutureDataSize <= L
                        /\ \A p \in 0 .. R :
                              t.sHoleSize <= Ahead(t, p)
                              /\ Ahead(t, p) < t.sHoleSize + s.wFutureDataSize
                                => t.rx[p] = Place(t, L) + Ahead(t, p)
      BY <1>9 DEF FutureHeld
    <2>1. s.sHoleSize # -1 /\ ~(hole <= 0) /\ t.sHoleSize = s.sHoleSize - len
      BY <1>9
    <2>2. join = 0
      BY <2>1 DEF join
    <2>3. n = len
      BY <1>10, <2>2 DEF n
    <2>4. t.sHoleSize > 0
      BY <1>1, <1>10, <2>1
    <2>5. t.sHoleSize + s.wFutureDataSize <= FreeSpace(t)
      <3>1. FreeSpace(t) = FreeSpace(s) - len
        BY <1>17, <2>3
      <3>2. s.sHoleSize + s.wFutureDataSize <= FreeSpace(s)
        BY <1>13, <2>1
      <3>3. QED
        BY <1>1, <1>2, <1>10, <2>1, <3>1, <3>2
    <2>6. Place(t, L) + t.sHoleSize + s.wFutureDataSize
            = Place(s, L) + s.sHoleSize + s.wFutureDataSize
      BY <1>1, <1>7, <1>10, <1>17, <2>1, <2>3
    <2>7. ASSUME NEW p \in 0 .. R, t.sHoleSize <= Ahead(t, p),
                 Ahead(t, p) < t.sHoleSize + s.wFutureDataSize
          PROVE  t.rx[p] = Place(t, L) + Ahead(t, p)
      <3>1. Ahead(s, p) \in 0 .. R /\ R \in Nat
        BY <1>0, AheadRange, RingFacts
      <3>2. Ahead(s, p) >= len
        <4>1. SUFFICES ASSUME ~(Ahead(s, p) >= len) PROVE FALSE
          OBVIOUS
        <4>2. Ahead(t, p) = Ahead(s, p) - len + (R + 1)
          BY <1>17, <2>3, <4>1
        <4>3. FreeSpace(t) = FreeSpace(s) - len
          BY <1>17, <2>3
        <4>4. QED
          <5>1. Ahead(s, p) >= 0
            BY <3>1
          <5>3. Ahead(t, p) \in Int /\ t.sHoleSize + s.wFutureDataSize \in Int
            <6>1. Ahead(s, p) - len + (R + 1) \in Int
              BY <1>10, <3>1
            <6>2. s.sHoleSize - len + s.wFutureDataSize \in Int
              BY <1>1, <1>10
            <6>3. QED
              BY <2>1, <4>2, <6>1, <6>2
          <5>4. FreeSpace(t) \in Int
            BY <1>2, <1>10, <4>3
          <5>5. Ahead(s, p) - len + (R + 1) < FreeSpace(s) - len
            BY <2>5, <2>7, <4>2, <4>3, <5>3, <5>4
          <5>6. QED
            BY <1>2, <1>10, <3>1, <5>1, <5>5
      <3>3. Ahead(t, p) = Ahead(s, p) - len
        BY <1>17, <2>3, <3>2
      <3>4. s.sHoleSize <= Ahead(s, p) /\ Ahead(s, p) < s.sHoleSize + s.wFutureDataSize
        <4>1. s.sHoleSize - len <= Ahead(s, p) - len
              /\ Ahead(s, p) - len < s.sHoleSize - len + s.wFutureDataSize
          BY <2>1, <2>7, <3>3
        <4>2. Ahead(s, p) \in Int
          BY <3>1
        <4>3. QED
          BY <1>1, <1>10, <4>1, <4>2
      <3>5. t.rx[p] = Place(s, L) + Ahead(s, p)
        <4>1. s.rx[p] = Place(s, L) + Ahead(s, p)
          BY <1>13, <2>1, <3>4
        <4>2. QED
          BY <1>11, <4>1
      <3>6. Place(s, L) + Ahead(s, p) = (Place(s, L) + n) + (Ahead(s, p) - len)
        BY <1>1, <1>7, <1>10, <2>3, <3>1
      <3>7. QED
        BY <1>17, <3>3, <3>5, <3>6
    <2>8. QED
      BY <1>13, <2>1, <2>4, <2>5, <2>6, <2>7
  <1>20. Place(t, L) - GetReady(t) = Place(s, L) - GetReady(s)
    <2>1. Place(s, L) \in Int /\ GetReady(s) \in Int /\ n \in Int
      BY <1>1, <1>2, <1>7, <1>14
    <2>2. QED
      BY <1>17, <2>1
  <1>21. QED
    BY <1>6, <1>9, <1>17, <1>18, <1>19, <1>20 DEF RxHeld, t

-----------------------------------------------------------------------------
(* What arrives out of order *)

\* The hole and the stretch behind it become h and f when a stretch from k on
\* of length len is stored (OutOfOrder).
GrowsTo(hole, future, k, len, h, f) ==
    LET end == hole + future
    IN /\ h = IF hole = -1 \/ k < hole THEN k ELSE hole
       /\ f = CASE hole = -1 -> len
               [] hole # -1 /\ k < hole ->
                     IF k + len > end \/ k + len < hole THEN len ELSE end - k
               [] OTHER ->
                     IF k + len > end /\ k <= end THEN k + len - hole ELSE future

\* Every place of the new stretch is in the old one or was stored.
Covered(hole, future, k, len, h, f) ==
    /\ h > 0 /\ f \in Nat /\ h # -1
    /\ h + f = k + len \/ (hole # -1 /\ h + f = hole + future)
    /\ \A a \in Int : h <= a /\ a < h + f =>
          \/ k <= a /\ a < k + len
          \/ hole # -1 /\ hole <= a /\ a < hole + future

LEMMA StretchGrows ==
    ASSUME NEW hole \in Int, NEW future \in Nat, NEW k \in Nat \ {0}, NEW len \in Nat,
           hole = -1 \/ hole > 0, NEW h \in Int, NEW f \in Int,
           GrowsTo(hole, future, k, len, h, f)
    PROVE  Covered(hole, future, k, len, h, f)
  <1> USE DEF GrowsTo, Covered
  <1>1. CASE hole = -1
    BY <1>1
  <1>2. CASE hole # -1 /\ k < hole /\ (k + len > hole + future \/ k + len < hole)
    BY <1>2
  <1>3. CASE hole # -1 /\ k < hole /\ ~(k + len > hole + future \/ k + len < hole)
    BY <1>3
  <1>4. CASE hole # -1 /\ ~(k < hole) /\ k + len > hole + future /\ k <= hole + future
    BY <1>4
  <1>5. CASE hole # -1 /\ ~(k < hole) /\ ~(k + len > hole + future /\ k <= hole + future)
    BY <1>5
  <1>6. QED
    BY <1>1, <1>2, <1>3, <1>4, <1>5

LEMMA OutOfOrderHolds ==
    ASSUME NEW L \in Nat, NEW s, NEW m, Socket(s), RxHeld(s, L), Carried(m, L),
           m.data # <<>>, ~(Missing(s, m) <= 0), Acceptable(s, m)
    PROVE  LET t == OutOfOrder(s, m)
           IN /\ Socket(t) /\ RxHeld(t, L) /\ t.smState = s.smState
              /\ t.RemoteSEQ <= L + 1 /\ s.RemoteSEQ <= L + 1
              /\ Place(t, L) - GetReady(t) = Place(s, L) - GetReady(s)
  <1> DEFINE missing == Missing(s, m)
             len  == Least(Len(m.data), FreeSpace(s) - missing)
             hole == s.sHoleSize
             end  == hole + s.wFutureDataSize
             t    == OutOfOrder(s, m)
  <1>0. /\ RxTypes(s, L) /\ s.rxHead \in 0 .. R /\ s.rxTail \in 0 .. R /\ DOMAIN s.rx = 0 .. R
    BY DEF RxHeld, RxTypes
  <1>1. s.RemoteSEQ \in Nat /\ s.RemoteSEQ <= L + 2
        /\ s.sHoleSize \in Int /\ s.wFutureDataSize \in Nat
    BY DEF RxHeld, RxTypes
  <1>2. GetReady(s) \in Nat /\ FreeSpace(s) \in Nat /\ R \in Nat /\ FreeSpace(s) + GetReady(s) = R
    BY <1>0, ReadyRange, RingFacts
  <1>3. missing = m.seq - s.RemoteSEQ /\ m.seq \in Nat /\ Len(m.data) \in Nat
        /\ m.seq + Len(m.data) <= L + 1
    BY DEF Missing, Carried
  <1>4. missing < FreeSpace(s)
    <2>1. CASE SegLen(m) > 0
      BY <2>1 DEF Acceptable
    <2>2. CASE ~(SegLen(m) > 0)
      BY <2>2, <1>1, <1>3 DEF Acceptable
    <2>3. QED
      BY <2>1, <2>2
  <1>5. missing \in Nat \ {0}
    BY <1>1, <1>3
  <1>6. s.RemoteSEQ <= L + 1 /\ Place(s, L) = s.RemoteSEQ - 1
    <2>1. s.RemoteSEQ <= L + 1
      BY <1>1, <1>3, <1>5
    <2>2. QED
      BY <1>1, <2>1 DEF Place, Least
  <1>7. len \in Nat /\ len <= Len(m.data) /\ missing + len <= FreeSpace(s)
    <2> HIDE DEF missing
    <2>1. FreeSpace(s) - missing \in Nat
      BY <1>2, <1>4, <1>5
    <2>2. QED
      BY <1>2, <1>3, <1>5, <2>1 DEF Least
  <1> DEFINE before == hole = -1 \/ missing < hole
             future ==
                CASE hole = -1 -> len
                  [] hole # -1 /\ missing < hole ->
                        IF missing + len > end \/ missing + len < hole THEN len ELSE end - missing
                  [] OTHER ->
                        IF missing + len > end /\ missing <= end THEN missing + len - hole
                        ELSE s.wFutureDataSize
  <1>8. /\ t.rx = Stored(s, m, missing, len)
        /\ t.RemoteSEQ = s.RemoteSEQ /\ t.rxHead = s.rxHead /\ t.rxTail = s.rxTail
        /\ t.sHoleSize = (IF before THEN missing ELSE hole)
        /\ t.wFutureDataSize = future /\ t.smState = s.smState /\ Socket(t)
    BY DEF OutOfOrder, Socket, Closed
  <1>9. hole # -1 =>
            /\ hole > 0 /\ end <= FreeSpace(s)
            /\ Place(s, L) + hole + s.wFutureDataSize <= L
            /\ \A p \in 0 .. R :
                  hole <= Ahead(s, p) /\ Ahead(s, p) < end => s.rx[p] = Place(s, L) + Ahead(s, p)
    BY DEF RxHeld, FutureHeld
  <1> HIDE DEF t, len, missing
  <1>10. t.sHoleSize \in Int /\ t.wFutureDataSize \in Int
    <2>1. end \in Int /\ missing \in Int
      BY <1>1, <1>5
    <2>2. future \in Int
      BY <1>1, <1>7, <2>1
    <2>3. QED
      BY <1>1, <1>8, <2>1, <2>2
  <1> DEFINE h == t.sHoleSize
             f == t.wFutureDataSize
  <1>11. /\ h > 0 /\ f \in Nat /\ h # -1
         /\ h + f = missing + len \/ (hole # -1 /\ h + f = end)
         /\ \A a \in Int : h <= a /\ a < h + f =>
               \/ missing <= a /\ a < missing + len
               \/ hole # -1 /\ hole <= a /\ a < end
    <2>1. hole = -1 \/ hole > 0
      BY <1>9
    <2>2. GrowsTo(hole, s.wFutureDataSize, missing, len, h, f)
      BY <1>8 DEF GrowsTo
    <2>3. Covered(hole, s.wFutureDataSize, missing, len, h, f)
      BY <1>1, <1>5, <1>7, <1>10, <2>1, <2>2, StretchGrows
    <2>4. QED
      BY <2>3 DEF Covered
  <1>12. \A p \in 0 .. R : t.rx[p] =
            IF missing <= Ahead(s, p) /\ Ahead(s, p) < missing + len
            THEN Place(s, L) + Ahead(s, p) ELSE s.rx[p]
    <2> SUFFICES ASSUME NEW p \in 0 .. R
                 PROVE  t.rx[p] = IF missing <= Ahead(s, p) /\ Ahead(s, p) < missing + len
                                  THEN Place(s, L) + Ahead(s, p) ELSE s.rx[p]
      OBVIOUS
    <2>1. missing = Missing(s, m)
      BY DEF missing
    <2>2. missing <= missing /\ missing + len - missing <= Len(m.data) /\ missing \in Nat
      BY <1>5, <1>7
    <2>3. QED
      BY <1>0, <1>6, <1>7, <1>8, <2>1, <2>2, StoredHolds
  <1>13. \A p : Ahead(t, p) = Ahead(s, p)
    BY <1>8 DEF Ahead
  <1>14. GetReady(t) = GetReady(s) /\ FreeSpace(t) = FreeSpace(s) /\ Place(t, L) = Place(s, L)
    BY <1>8 DEF GetReady, FreeSpace, Place
  <1>15. RxTypes(t, L)
    <2>1. DOMAIN t.rx = 0 .. R
      BY <1>0, <1>8 DEF Stored
    <2>2. QED
      BY <1>8, <1>10, <1>11, <2>1 DEF RxHeld, RxTypes
  <1>16. ReadyHeld(t, L)
    <2> SUFFICES ASSUME NEW p \in 0 .. R, Ahead(s, p) + GetReady(s) > R
                 PROVE  t.rx[p] = Place(s, L) + Ahead(s, p) - (R + 1)
      BY <1>13, <1>14 DEF ReadyHeld
    <2>1. Ahead(s, p) \in 0 .. R
      BY <1>0, AheadRange
    <2>2. ~(Ahead(s, p) < missing + len)
      BY <1>2, <1>5, <1>7, <2>1
    <2>3. t.rx[p] = s.rx[p]
      BY <1>12, <2>2
    <2>4. QED
      BY <2>3 DEF RxHeld, ReadyHeld
  <1>17. FutureHeld(t, L)
    <2>1. h + f <= FreeSpace(s)
      BY <1>7, <1>9, <1>11
    <2>2. Place(s, L) + (missing + len) <= L
      <3>1. Place(s, L) + (missing + len) = m.seq - 1 + len
        <4>1. (s.RemoteSEQ - 1) + ((m.seq - s.RemoteSEQ) + len) = m.seq - 1 + len
          BY <1>1, <1>3, <1>7
        <4>2. QED
          BY <1>3, <1>6, <4>1
      <3>2. m.seq - 1 + len <= L
        BY <1>3, <1>7
      <3>3. QED
        BY <3>1, <3>2
    <2>3. Place(s, L) + (h + f) <= L
      <3>1. CASE h + f = missing + len
        BY <2>2, <3>1
      <3>2. CASE hole # -1 /\ h + f = end
        <4>1. Place(s, L) + hole + s.wFutureDataSize = Place(s, L) + end
          BY <1>1, <1>6
        <4>2. QED
          BY <1>9, <3>2, <4>1
      <3>3. QED
        BY <1>11, <3>1, <3>2
    <2>4. Place(s, L) + h + f = Place(s, L) + (h + f)
      BY <1>1, <1>6, <1>10
    <2>5. ASSUME NEW p \in 0 .. R, h <= Ahead(s, p), Ahead(s, p) < h + f
          PROVE  t.rx[p] = Place(s, L) + Ahead(s, p)
      <3>1. Ahead(s, p) \in Int
        BY <1>0, AheadRange
      <3>2. CASE missing <= Ahead(s, p) /\ Ahead(s, p) < missing + len
        BY <1>12, <3>2
      <3>3. CASE hole # -1 /\ hole <= Ahead(s, p) /\ Ahead(s, p) < end
        <4>1. s.rx[p] = Place(s, L) + Ahead(s, p)
          BY <1>9, <3>3
        <4>2. QED
          BY <1>12, <4>1
      <3>4. QED
        BY <1>11, <2>5, <3>1, <3>2, <3>3
    <2>6. QED
      BY <1>11, <1>13, <1>14, <2>1, <2>3, <2>4, <2>5 DEF FutureHeld
  <1>18. QED
    BY <1>6, <1>8, <1>14, <1>15, <1>16, <1>17 DEF RxHeld, t

-----------------------------------------------------------------------------
(* The receiving side in every state of the connection *)

Open == {"SYN_RECEIVED", "ESTABLISHED"}
States == Open \cup
    {"LISTEN", "CLOSE_WAIT", "FIN_WAIT_1", "FIN_WAIT_2", "CLOSING", "LAST_ACK"}

\* The application has read n bytes; what is ready follows them, unless the
\* connection is closing and nothing is ready any more.
Reads(s, L, n) ==
    GetReady(s) > 0 \/ s.smState \in Open => n + GetReady(s) = Place(s, L)

RxInv(s, L, n) ==
    /\ Socket(s) /\ s.smState \in States
    /\ RxHeld(s, L) /\ Reads(s, L, n)
    /\ s.smState \in Open => s.RemoteSEQ <= L + 1
    /\ s.smState = "CLOSE_WAIT" => s.RemoteSEQ = L + 2
    /\ s.smState = "LISTEN" =>
          s.rxHead = 0 /\ s.rxTail = 0 /\ s.RemoteSEQ = 0 /\ s.sHoleSize = -1

\* A step of the connection's state that leaves the receiving side alone.
Follows(s, t) ==
    /\ Socket(t) /\ SameRx(s, t)
    /\ \/ t.smState = s.smState
       \/ t.smState \in {"FIN_WAIT_1", "FIN_WAIT_2", "CLOSING", "LAST_ACK"}
       \/ s.smState = "SYN_RECEIVED" /\ t.smState = "ESTABLISHED"

LEMMA FollowsInv ==
    ASSUME NEW s, NEW t, NEW L, NEW n, RxInv(s, L, n), Follows(s, t)
    PROVE  RxInv(t, L, n)
  <1>1. SameRx(s, t)
    BY DEF Follows
  <1>2. RxHeld(t, L) /\ GetReady(t) = GetReady(s) /\ Place(t, L) = Place(s, L)
    BY <1>1, RxKept DEF RxInv
  <1>3. QED
    BY <1>1, <1>2 DEF RxInv, Follows, SameRx, Reads, Open, States

LEMMA SendFollows ==
    ASSUME NEW s, NEW flags, NEW how, Socket(s)
    PROVE  Follows(s, SendTCP(s, flags, how))
  BY SendRx DEF Follows

LEMMA ClosedInv ==
    ASSUME NEW s, NEW L \in Nat, NEW n
    PROVE  RxInv(CloseSocket(s), L, n) /\ CloseSocket(s).smState = "LISTEN"
  <1> DEFINE t == CloseSocket(s)
  <1>1. /\ Socket(t) /\ t.smState = "LISTEN" /\ t.rxHead = 0 /\ t.rxTail = 0
        /\ t.RemoteSEQ = 0 /\ t.sHoleSize = -1 /\ t.wFutureDataSize = 0
        /\ t.rx = [p \in 0 .. R |-> -1]
    BY DEF CloseSocket, Closed, Socket
  <1> HIDE DEF t
  <1>2. GetReady(t) = 0
    BY <1>1, RingFacts DEF GetReady
  <1>3. RxTypes(t, L)
    BY <1>1, RingFacts DEF RxTypes
  <1>4. ReadyHeld(t, L)
    <2> SUFFICES ASSUME NEW p \in 0 .. R PROVE ~(Ahead(t, p) + GetReady(t) > R)
      BY DEF ReadyHeld
    <2>1. Ahead(t, p) \in 0 .. R
      BY <1>3, AheadRange DEF RxTypes
    <2>2. QED
      BY <1>2, <2>1, RingFacts
  <1>5. QED
    BY <1>1, <1>2, <1>3, <1>4 DEF RxInv, RxHeld, FutureHeld, Reads, States, Open, t

\* The application, or a closing connection, gives up what is ready.
LEMMA DropHolds ==
    ASSUME NEW s, NEW L, Socket(s), RxHeld(s, L)
    PROVE  LET t == [s EXCEPT !.rxTail = s.rxHead]
           IN /\ Socket(t) /\ RxHeld(t, L) /\ GetReady(t) = 0 /\ Place(t, L) = Place(s, L)
              /\ t.smState = s.smState /\ t.RemoteSEQ = s.RemoteSEQ
  <1> DEFINE t == [s EXCEPT !.rxTail = s.rxHead]
  <1>1. /\ Socket(t) /\ t.rxTail = s.rxHead /\ t.rxHead = s.rxHead /\ t.rx = s.rx
        /\ t.RemoteSEQ = s.RemoteSEQ /\ t.smState = s.smState
        /\ t.sHoleSize = s.sHoleSize /\ t.wFutureDataSize = s.wFutureDataSize
    BY DEF Socket, Closed
  <1> HIDE DEF t
  <1>2. s.rxHead \in 0 .. R /\ s.rxTail \in 0 .. R /\ R \in Nat
    BY RingFacts DEF RxHeld, RxTypes
  <1>3. GetReady(t) = 0
    <2>1. t.rxHead - t.rxTail = 0
      BY <1>1, <1>2
    <2>2. QED
      BY <1>2, <2>1 DEF GetReady
  <1>4. FreeSpace(t) = R /\ FreeSpace(s) \in 0 .. R
    BY <1>2, <1>3, ReadyRange DEF FreeSpace
  <1>5. Place(t, L) = Place(s, L) /\ \A p : Ahead(t, p) = Ahead(s, p)
    BY <1>1 DEF Place, Ahead
  <1>6. RxTypes(t, L)
    BY <1>1 DEF RxHeld, RxTypes
  <1>7. ReadyHeld(t, L)
    <2> SUFFICES ASSUME NEW p \in 0 .. R PROVE ~(Ahead(t, p) + GetReady(t) > R)
      BY DEF ReadyHeld
    <2>1. Ahead(s, p) \in 0 .. R
      BY <1>2, AheadRange
    <2>2. QED
      BY <1>2, <1>3, <1>5, <2>1
  <1>8. FutureHeld(t, L)
    <2>1. s.sHoleSize # -1 => s.sHoleSize + s.wFutureDataSize <= R
      <3> SUFFICES ASSUME s.sHoleSize # -1 PROVE s.sHoleSize + s.wFutureDataSize <= R
        OBVIOUS
      <3>1. s.sHoleSize + s.wFutureDataSize <= FreeSpace(s)
        BY DEF RxHeld, FutureHeld
      <3>2. s.sHoleSize \in Int /\ s.wFutureDataSize \in Int
        BY DEF RxHeld, RxTypes
      <3>3. QED
        BY <1>2, <1>4, <3>1, <3>2
    <2>2. QED
      BY <1>1, <1>4, <1>5, <2>1 DEF RxHeld, FutureHeld
  <1>9. QED
    BY <1>1, <1>3, <1>5, <1>6, <1>7, <1>8 DEF RxHeld, t

Alike(s, t) == Socket(t) /\ SameRx(s, t) /\ t.smState = s.smState

LEMMA AcknowledgedRx ==
    ASSUME NEW s, NEW m, Socket(s)
    PROVE  Alike(s, TxAcknowledged(s, m))
  <1> USE DEF Alike, Socket, SameRx, Closed
  <1>1. ASSUME NEW acked PROVE Alike(s, Advance(s, acked))
    BY DEF Advance
  <1>2. Alike(s, Duplicate(s))
    <2>1. CASE s.txTail = s.txUnackedTail
      BY <2>1 DEF Duplicate
    <2>2. CASE s.txTail # s.txUnackedTail /\ s.bRXNoneACKed1 /\ s.bRXNoneACKed2
      BY <2>2 DEF Duplicate, RollBack
    <2>3. CASE s.txTail # s.txUnackedTail /\ ~(s.bRXNoneACKed1 /\ s.bRXNoneACKed2)
      BY <2>3 DEF Duplicate
    <2>4. QED
      BY <2>1, <2>2, <2>3
  <1>3. ASSUME NEW r, Alike(s, r) PROVE Alike(s, Window(AllAcknowledged(r, m.ack), m))
    <2>1. Alike(s, AllAcknowledged(r, m.ack))
      <3>1. CASE r.txTail # r.txHead
        BY <1>3, <3>1 DEF AllAcknowledged
      <3>2. CASE r.txTail = r.txHead /\ ~r.bTXFIN
        BY <1>3, <3>2 DEF AllAcknowledged
      <3>3. CASE r.txTail = r.txHead /\ r.bTXFIN /\ r.MySEQ = m.ack
        BY <1>3, <3>3 DEF AllAcknowledged
      <3>4. CASE r.txTail = r.txHead /\ r.bTXFIN /\ r.MySEQ # m.ack
        BY <1>3, <3>4 DEF AllAcknowledged
      <3>5. QED
        BY <3>1, <3>2, <3>3, <3>4
    <2>2. ASSUME NEW q, Alike(s, q) PROVE Alike(s, Window(q, m))
      BY <2>2 DEF Window
    <2>3. QED
      BY <2>1, <2>2
  <1>4. QED
    BY <1>1, <1>2, <1>3 DEF TxAcknowledged

\* What is left to do once the content is stored (Answer, Final).
Stores(s, m, L, n) ==
    /\ Socket(s) /\ RxHeld(s, L)
    /\ s.smState \in {"ESTABLISHED", "FIN_WAIT_1", "FIN_WAIT_2"}
    /\ s.smState = "ESTABLISHED" \/ SegLen(m) = 0 => RxInv(s, L, n)

LEMMA AnswerInv ==
    ASSUME NEW s, NEW m, NEW L, NEW n, Stores(s, m, L, n), SegLen(m) \in Nat
    PROVE  /\ RxInv(Answer(s, m), L, n)
           /\ Answer(s, m).smState = s.smState /\ Answer(s, m).RemoteSEQ = s.RemoteSEQ
  <1>1. CASE SegLen(m) = 0
    BY <1>1 DEF Answer, Stores
  <1>2. CASE SegLen(m) > 0
    <2> DEFINE r == IF s.smState = "ESTABLISHED" THEN s ELSE [s EXCEPT !.rxTail = s.rxHead]
               u == [r EXCEPT !.bOneSegmentReceived = TRUE, !.bAckDue = TRUE]
    <2>1. RxInv(r, L, n) /\ r.smState = s.smState /\ r.RemoteSEQ = s.RemoteSEQ
      <3>1. CASE s.smState = "ESTABLISHED"
        BY <3>1 DEF Stores
      <3>2. CASE s.smState # "ESTABLISHED"
        <4>1. r = [s EXCEPT !.rxTail = s.rxHead]
          BY <3>2
        <4>2. /\ Socket(r) /\ RxHeld(r, L) /\ GetReady(r) = 0
              /\ r.smState = s.smState /\ r.RemoteSEQ = s.RemoteSEQ
          BY <4>1, DropHolds DEF Stores
        <4>3. QED
          BY <3>2, <4>2 DEF Stores, RxInv, Reads, Open, States
      <3>3. QED
        BY <3>1, <3>2
    <2> HIDE DEF r
    <2>2. Socket(r)
      BY <2>1 DEF RxInv
    <2>3. Follows(r, SendTCP(r, {"ACK"}, RESET)) /\ Follows(r, u)
      <3>1. Follows(r, u)
        BY <2>2 DEF Follows, Socket, SameRx, Closed
      <3>2. QED
        BY <2>2, <3>1, SendFollows
    <2>4. SendTCP(r, {"ACK"}, RESET).smState = r.smState
          /\ SendTCP(r, {"ACK"}, RESET).RemoteSEQ = r.RemoteSEQ
      BY <2>2, SendRx DEF SameRx
    <2>5. u.smState = r.smState /\ u.RemoteSEQ = r.RemoteSEQ
      BY <2>2 DEF Socket, Closed
    <2>6. Answer(s, m) = IF s.bOneSegmentReceived THEN SendTCP(r, {"ACK"}, RESET) ELSE u
      BY <1>2 DEF Answer, r
    <2>7. QED
      BY <2>1, <2>3, <2>4, <2>5, <2>6, FollowsInv
  <1>3. QED
    BY <1>1, <1>2

\* The FIN takes one sequence number and no place.
LEMMA FinHolds ==
    ASSUME NEW s, NEW L \in Nat, Socket(s), RxHeld(s, L), s.RemoteSEQ = L + 1
    PROVE  LET t == [s EXCEPT !.RemoteSEQ = @ + 1]
           IN /\ Socket(t) /\ RxHeld(t, L) /\ GetReady(t) = GetReady(s)
              /\ Place(t, L) = Place(s, L) /\ t.smState = s.smState /\ t.RemoteSEQ = L + 2
  <1> DEFINE t == [s EXCEPT !.RemoteSEQ = @ + 1]
  <1>1. /\ Socket(t) /\ t.rxTail = s.rxTail /\ t.rxHead = s.rxHead /\ t.rx = s.rx
        /\ t.RemoteSEQ = L + 2 /\ t.smState = s.smState
        /\ t.sHoleSize = s.sHoleSize /\ t.wFutureDataSize = s.wFutureDataSize
    <2>1. t.RemoteSEQ = s.RemoteSEQ + 1
      BY DEF Socket, Closed
    <2>2. QED
      BY <2>1 DEF Socket, Closed
  <1> HIDE DEF t
  <1>2. Place(t, L) = L /\ Place(s, L) = L
    BY <1>1 DEF Place, Least
  <1>3. GetReady(t) = GetReady(s) /\ FreeSpace(t) = FreeSpace(s) /\ \A p : Ahead(t, p) = Ahead(s, p)
    BY <1>1 DEF GetReady, FreeSpace, Ahead
  <1>4. RxTypes(t, L)
    BY <1>1 DEF RxHeld, RxTypes
  <1>5. ReadyHeld(t, L) /\ FutureHeld(t, L)
    BY <1>1, <1>2, <1>3 DEF RxHeld, ReadyHeld, FutureHeld
  <1>6. QED
    BY <1>1, <1>2, <1>3, <1>4, <1>5 DEF RxHeld, t

LEMMA FinalInv ==
    ASSUME NEW s, NEW m, NEW L \in Nat, NEW n, RxInv(s, L, n), Carried(m, L),
           s.smState \in {"ESTABLISHED", "FIN_WAIT_1", "FIN_WAIT_2"}
    PROVE  RxInv(Final(s, m), L, n)
  <1> DEFINE r == [s EXCEPT !.RemoteSEQ = @ + 1]
  <1>1. CASE ~("FIN" \in m.flags /\ s.RemoteSEQ + 1 = m.seq + SegLen(m))
    BY <1>1 DEF Final
  <1>2. CASE "FIN" \in m.flags /\ s.RemoteSEQ + 1 = m.seq + SegLen(m)
    <2>1. s.RemoteSEQ = L + 1
      <3>1. SegLen(m) = Len(m.data) + 1
        <4>1. m.flags \cap {"SYN", "FIN"} # {}
          BY <1>2
        <4>2. QED
          BY <4>1, SegLenIs
      <3>2. m.seq + Len(m.data) = L + 1 /\ m.seq \in Nat /\ Len(m.data) \in Nat
        BY <1>2 DEF Carried
      <3>3. s.RemoteSEQ \in Nat
        BY DEF RxInv, RxHeld, RxTypes
      <3>4. QED
        BY <1>2, <3>1, <3>2, <3>3
    <2>2. Socket(s) /\ RxHeld(s, L)
      BY DEF RxInv
    <2>3. /\ Socket(r) /\ RxHeld(r, L) /\ GetReady(r) = GetReady(s)
          /\ Place(r, L) = Place(s, L) /\ r.smState = s.smState /\ r.RemoteSEQ = L + 2
      BY <2>1, <2>2, FinHolds
    <2> HIDE DEF r
    <2>4. ASSUME NEW state \in {"CLOSE_WAIT", "CLOSING"},
                 state = "CLOSE_WAIT" => s.smState = "ESTABLISHED"
          PROVE  RxInv(SendTCP([r EXCEPT !.smState = state], {"ACK"}, RESET), L, n)
      <3> DEFINE q == [r EXCEPT !.smState = state]
      <3>1. Socket(q) /\ SameRx(r, q) /\ q.smState = state
        BY <2>3 DEF Socket, SameRx, Closed
      <3> HIDE DEF q
      <3>2. RxHeld(q, L) /\ GetReady(q) = GetReady(s) /\ Place(q, L) = Place(s, L)
            /\ q.RemoteSEQ = L + 2
        BY <2>3, <3>1, RxKept DEF SameRx
      <3>3. Reads(q, L, n)
        BY <3>1, <3>2 DEF RxInv, Reads, Open
      <3>4. RxInv(q, L, n)
        BY <3>1, <3>2, <3>3 DEF RxInv, States, Open
      <3>5. QED
        BY <3>1, <3>4, SendFollows, FollowsInv DEF q
    <2>5. CASE s.smState = "ESTABLISHED"
      BY <1>2, <2>4, <2>5 DEF Final, r
    <2>6. CASE s.smState = "FIN_WAIT_1"
      BY <1>2, <2>4, <2>6 DEF Final, r
    <2>7. CASE s.smState = "FIN_WAIT_2"
      BY <1>2, <2>7, ClosedInv DEF Final
    <2>8. QED
      BY <2>5, <2>6, <2>7
  <1>3. QED
    BY <1>1, <1>2

LEMMA ContentInv ==
    ASSUME NEW s, NEW m, NEW L \in Nat, NEW n \in Nat, RxInv(s, L, n), Carried(m, L),
           Acceptable(s, m),
           s.smState \in {"ESTABLISHED", "CLOSE_WAIT", "FIN_WAIT_1", "FIN_WAIT_2"}
    PROVE  RxInv(Content(s, m), L, n)
  <1> DEFINE r == CASE m.data = <<>> -> s
                    [] m.data # <<>> /\ Missing(s, m) <= 0 -> InOrder(s, m)
                    [] OTHER -> OutOfOrder(s, m)
  <1>1. SegLen(m) \in Nat /\ (m.data # <<>> => SegLen(m) > 0)
    <2>1. Len(m.data) \in Nat /\ (m.data # <<>> => Len(m.data) > 0)
      BY EmptySeq DEF Carried
    <2>2. CASE m.flags \cap {"SYN", "FIN"} = {}
      <3>1. SegLen(m) = Len(m.data) + 0
        BY <2>2, SegLenIs
      <3>2. QED
        BY <2>1, <3>1
    <2>3. CASE m.flags \cap {"SYN", "FIN"} # {}
      <3>1. SegLen(m) = Len(m.data) + 1
        BY <2>3, SegLenIs
      <3>2. QED
        BY <2>1, <3>1
    <2>4. QED
      BY <2>2, <2>3
  <1>2. Socket(s) /\ RxHeld(s, L)
    BY DEF RxInv
  <1>3. CASE m.data = <<>>
    <2>1. r = s
      BY <1>3
    <2>2. CASE s.smState = "CLOSE_WAIT"
      BY <2>1, <2>2 DEF Content
    <2>3. CASE s.smState # "CLOSE_WAIT"
      <3>1. Stores(s, m, L, n)
        BY <1>2, <2>3 DEF Stores
      <3>2. /\ RxInv(Answer(s, m), L, n) /\ Answer(s, m).smState = s.smState
        BY <1>1, <3>1, AnswerInv
      <3>3. RxInv(Final(Answer(s, m), m), L, n)
        BY <2>3, <3>2, FinalInv
      <3>4. QED
        BY <1>3, <2>3, <3>3 DEF Content
    <2>4. QED
      BY <2>2, <2>3
  <1>4. CASE m.data # <<>>
    <2>1. /\ Socket(r) /\ RxHeld(r, L) /\ r.smState = s.smState
          /\ r.RemoteSEQ <= L + 1 /\ s.RemoteSEQ <= L + 1
          /\ Place(r, L) - GetReady(r) = Place(s, L) - GetReady(s)
      <3>1. CASE Missing(s, m) <= 0
        BY <1>2, <1>4, <3>1, InOrderHolds
      <3>2. CASE ~(Missing(s, m) <= 0)
        BY <1>2, <1>4, <3>2, OutOfOrderHolds
      <3>3. QED
        BY <3>1, <3>2
    <2>2. r = IF Missing(s, m) <= 0 THEN InOrder(s, m) ELSE OutOfOrder(s, m)
      BY <1>4
    <2> HIDE DEF r
    <2>3. s.smState # "CLOSE_WAIT"
      BY <2>1 DEF RxInv
    <2>4. s.smState = "ESTABLISHED" => RxInv(r, L, n)
      <3> SUFFICES ASSUME s.smState = "ESTABLISHED" PROVE RxInv(r, L, n)
        OBVIOUS
      <3>1. n + GetReady(s) = Place(s, L)
        BY DEF RxInv, Reads, Open
      <3>2. /\ GetReady(s) \in Int /\ GetReady(r) \in Int
            /\ Place(s, L) \in Int /\ Place(r, L) \in Int
        <4>1. ASSUME NEW q, RxTypes(q, L) PROVE GetReady(q) \in Int /\ Place(q, L) \in Int
          <5>1. q.rxHead \in 0 .. R /\ q.rxTail \in 0 .. R /\ q.RemoteSEQ \in Int
            BY <4>1 DEF RxTypes
          <5>2. GetReady(q) \in Int
            BY <5>1, ReadyRange, RingFacts
          <5>3. QED
            BY <5>1, <5>2 DEF Place, Least
        <4>2. QED
          BY <1>2, <2>1, <4>1 DEF RxHeld
      <3>3. n + GetReady(r) = Place(r, L)
        BY <2>1, <3>1, <3>2
      <3>4. QED
        BY <2>1, <3>3 DEF RxInv, Reads, Open, States
    <2>5. Stores(r, m, L, n)
      BY <1>1, <1>4, <2>1, <2>3, <2>4 DEF Stores
    <2>6. RxInv(Answer(r, m), L, n) /\ Answer(r, m).smState = r.smState
      BY <1>1, <2>5, AnswerInv
    <2>7. RxInv(Final(Answer(r, m), m), L, n)
      BY <2>1, <2>3, <2>6, FinalInv
    <2>8. Content(s, m) = Final(Answer(r, m), m)
      BY <2>3 DEF Content, r
    <2>9. QED
      BY <2>7, <2>8
  <1>5. QED
    BY <1>3, <1>4

LEMMA AcceptableKept ==
    ASSUME NEW s, NEW t, NEW m, SameRx(s, t), Acceptable(s, m)
    PROVE  Acceptable(t, m)
  BY DEF SameRx, Acceptable, Missing, FreeSpace, GetReady

LEMMA StateAfterAckInv ==
    ASSUME NEW s, NEW m, NEW L \in Nat, NEW n \in Nat, RxInv(s, L, n), Carried(m, L),
           Acceptable(s, m),
           s.smState \in {"ESTABLISHED", "CLOSE_WAIT", "FIN_WAIT_1", "FIN_WAIT_2", "CLOSING"}
    PROVE  RxInv(StateAfterAck(s, m), L, n)
  <1>1. CASE s.smState = "FIN_WAIT_1" /\ s.MySEQ = m.ack
    <2> DEFINE r == [s EXCEPT !.bTimerEnabled = TRUE, !.smState = "FIN_WAIT_2"]
    <2>1. Socket(r) /\ SameRx(s, r) /\ r.smState = "FIN_WAIT_2"
      BY DEF RxInv, Socket, SameRx, Closed
    <2> HIDE DEF r
    <2>2. RxInv(r, L, n)
      BY <2>1, FollowsInv DEF Follows
    <2>3. RxInv(Content(r, m), L, n)
      BY <2>1, <2>2, AcceptableKept, ContentInv
    <2>4. QED
      BY <1>1, <2>3 DEF StateAfterAck, r
  <1>2. CASE s.smState = "FIN_WAIT_2" /\ "FIN" \notin m.flags
    BY <1>2, ClosedInv DEF StateAfterAck
  <1>3. CASE s.smState = "CLOSING"
    BY <1>3, ClosedInv DEF StateAfterAck
  <1>4. CASE /\ ~(s.smState = "FIN_WAIT_1" /\ s.MySEQ = m.ack)
             /\ ~(s.smState = "FIN_WAIT_2" /\ "FIN" \notin m.flags)
             /\ s.smState # "CLOSING"
    BY <1>4, ContentInv DEF StateAfterAck
  <1>5. QED
    BY <1>1, <1>2, <1>3, <1>4

LEMMA WrongAckFollows ==
    ASSUME NEW s, NEW m, Socket(s)
    PROVE  Follows(s, WrongAck(s, m))
  <1> DEFINE r == [s EXCEPT !.MySEQ = m.ack]
             q == SendTCP(r, {"RST"}, RESET)
  <1>1. Alike(s, r)
    BY DEF Alike, Socket, SameRx, Closed
  <1> HIDE DEF r
  <1>2. Alike(s, q)
    BY <1>1, SendRx DEF Alike, SameRx
  <1> HIDE DEF q
  <1>3. Alike(s, [q EXCEPT !.MySEQ = s.MySEQ])
    BY <1>2 DEF Alike, Socket, SameRx, Closed
  <1>4. QED
    BY <1>3 DEF WrongAck, Follows, Alike, q, r

LEMMA AcknowledgeInv ==
    ASSUME NEW s, NEW m, NEW L \in Nat, NEW n \in Nat, RxInv(s, L, n), Carried(m, L),
           Acceptable(s, m), s.smState # "LISTEN"
    PROVE  RxInv(Acknowledge(s, m), L, n)
  <1>0. Socket(s)
    BY DEF RxInv
  <1>1. CASE s.smState = "LAST_ACK"
    BY <1>1, ClosedInv DEF Acknowledge
  <1>2. CASE s.smState = "SYN_RECEIVED" /\ m.ack # s.MySEQ
    BY <1>0, <1>2, WrongAckFollows, FollowsInv DEF Acknowledge
  <1>3. CASE s.smState \notin {"LAST_ACK", "SYN_RECEIVED"} /\ s.MySEQ + Unsent(s) < m.ack
    BY <1>0, <1>3, SendFollows, FollowsInv DEF Acknowledge
  <1>4. CASE /\ s.smState # "LAST_ACK"
             /\ ~(s.smState = "SYN_RECEIVED" /\ m.ack # s.MySEQ)
             /\ ~(/\ s.smState \notin {"LAST_ACK", "SYN_RECEIVED"}
                  /\ s.MySEQ + Unsent(s) < m.ack)
    <2> DEFINE e == IF s.smState = "SYN_RECEIVED" THEN [s EXCEPT !.smState = "ESTABLISHED"] ELSE s
    <2>1. Follows(s, e) /\ e.smState # "SYN_RECEIVED"
      BY <1>0 DEF Follows, Socket, SameRx, Closed
    <2>2. Acknowledge(s, m) = StateAfterAck(TxAcknowledged(e, m), m)
      BY <1>4 DEF Acknowledge
    <2>3. e.smState \in {"ESTABLISHED", "CLOSE_WAIT", "FIN_WAIT_1", "FIN_WAIT_2", "CLOSING"}
      BY <1>0, <1>4 DEF RxInv, States, Open, Socket, Closed
    <2> HIDE DEF e
    <2>4. Socket(e) /\ RxInv(e, L, n) /\ Acceptable(e, m)
      BY <2>1, FollowsInv, AcceptableKept DEF Follows
    <2> DEFINE r == TxAcknowledged(e, m)
    <2>5. Alike(e, r)
      BY <2>4, AcknowledgedRx
    <2> HIDE DEF r
    <2>6. RxInv(r, L, n) /\ Acceptable(r, m)
      BY <2>4, <2>5, FollowsInv, AcceptableKept DEF Alike, Follows
    <2>7. RxInv(StateAfterAck(r, m), L, n)
      BY <2>3, <2>5, <2>6, StateAfterAckInv DEF Alike
    <2>8. QED
      BY <2>2, <2>7 DEF r
  <1>5. QED
    BY <1>1, <1>2, <1>3, <1>4

LEMMA ListeningInv ==
    ASSUME NEW s, NEW m, NEW L \in Nat, RxInv(s, L, 0), Carried(m, L), s.smState = "LISTEN"
    PROVE  RxInv(Listening(s, m), L, 0)
  <1>1. CASE "RST" \in m.flags
    BY <1>1, ClosedInv DEF Listening
  <1>2. CASE "RST" \notin m.flags /\ "ACK" \in m.flags
    BY <1>2, ClosedInv DEF Listening
  <1>3. CASE "RST" \notin m.flags /\ "ACK" \notin m.flags /\ "SYN" \in m.flags
    <2> DEFINE r == [s EXCEPT !.RemoteSEQ = m.seq + 1]
               q == SendTCP(r, {"SYN", "ACK"}, RESET)
               t == [q EXCEPT !.smState = "SYN_RECEIVED"]
    <2>1. /\ Socket(r) /\ r.RemoteSEQ = 1 /\ r.rx = s.rx /\ r.rxHead = 0 /\ r.rxTail = 0
          /\ r.sHoleSize = -1 /\ r.wFutureDataSize = s.wFutureDataSize
      BY <1>3 DEF RxInv, Carried, Socket, Closed
    <2> HIDE DEF r
    <2>2. Socket(q) /\ SameRx(r, q)
      BY <2>1, SendRx
    <2> HIDE DEF q
    <2>3. Socket(t) /\ SameRx(q, t) /\ t.smState = "SYN_RECEIVED"
      BY <2>2 DEF Socket, SameRx, Closed
    <2> HIDE DEF t
    <2>4. /\ t.RemoteSEQ = 1 /\ t.rx = s.rx /\ t.rxHead = 0 /\ t.rxTail = 0
          /\ t.sHoleSize = -1 /\ t.wFutureDataSize = s.wFutureDataSize
      BY <2>1, <2>2, <2>3 DEF SameRx
    <2>5. RxTypes(t, L) /\ Place(t, L) = 0 /\ GetReady(t) = 0
      <3>1. R \in Nat
        BY RingFacts
      <3>2. GetReady(t) = 0
        BY <2>4, <3>1 DEF GetReady
      <3>3. Place(t, L) = 0
        BY <2>4 DEF Place, Least
      <3>4. RxTypes(t, L)
        BY <2>4, <3>1 DEF RxInv, RxHeld, RxTypes
      <3>5. QED
        BY <3>2, <3>3, <3>4
    <2>6. ReadyHeld(t, L)
      <3> SUFFICES ASSUME NEW p \in 0 .. R PROVE ~(Ahead(t, p) + GetReady(t) > R)
        BY DEF ReadyHeld
      <3>1. Ahead(t, p) \in 0 .. R
        BY <2>5, AheadRange DEF RxTypes
      <3>2. QED
        BY <2>5, <3>1, RingFacts
    <2>7. RxInv(t, L, 0)
      BY <2>3, <2>4, <2>5, <2>6 DEF RxInv, RxHeld, FutureHeld, Reads, States, Open
    <2>8. QED
      BY <1>3, <2>7 DEF Listening, t, q, r
  <1>4. CASE "RST" \notin m.flags /\ "ACK" \notin m.flags /\ "SYN" \notin m.flags
    BY <1>4, ClosedInv DEF Listening
  <1>5. QED
    BY <1>1, <1>2, <1>3, <1>4

LEMMA HandleInv ==
    ASSUME NEW s, NEW m, NEW L \in Nat, NEW n \in Nat, RxInv(s, L, n), Carried(m, L),
           s.smState = "LISTEN" => n = 0
    PROVE  RxInv(HandleTCPSeg(s, m), L, n)
  <1>0. Socket(s)
    BY DEF RxInv
  <1>1. CASE s.smState = "LISTEN"
    BY <1>1, ListeningInv DEF HandleTCPSeg
  <1>2. CASE s.smState # "LISTEN" /\ ~Acceptable(s, m)
    BY <1>0, <1>2, SendFollows, FollowsInv DEF HandleTCPSeg
  <1>3. CASE s.smState # "LISTEN" /\ Acceptable(s, m) /\ m.flags \cap {"RST", "SYN"} # {}
    BY <1>3, ClosedInv DEF HandleTCPSeg
  <1>4. CASE s.smState # "LISTEN" /\ Acceptable(s, m) /\ m.flags \cap {"RST", "SYN"} = {}
    BY <1>4, AcknowledgeInv DEF HandleTCPSeg
  <1>5. QED
    BY <1>1, <1>2, <1>3, <1>4

-----------------------------------------------------------------------------
(* Ticks and calls of the application *)

LEMMA DisconnectInv ==
    ASSUME NEW s, NEW L \in Nat, NEW n, RxInv(s, L, n)
    PROVE  RxInv(Disconnect(s), L, n)
  <1> DEFINE r == [s EXCEPT !.rxTail = s.rxHead]
  <1>1. /\ Socket(r) /\ RxHeld(r, L) /\ GetReady(r) = 0 /\ r.smState = s.smState
    BY DropHolds DEF RxInv
  <1> HIDE DEF r
  <1>2. ASSUME NEW state \in {"FIN_WAIT_1", "LAST_ACK"}
        PROVE  RxInv([SendTCP(r, {"FIN", "ACK"}, RESET) EXCEPT !.smState = state], L, n)
    <2> DEFINE q == SendTCP(r, {"FIN", "ACK"}, RESET)
               t == [q EXCEPT !.smState = state]
    <2>1. Socket(q) /\ SameRx(r, q)
      BY <1>1, SendRx
    <2> HIDE DEF q
    <2>2. Socket(t) /\ SameRx(q, t) /\ t.smState = state
      BY <2>1 DEF Socket, SameRx, Closed
    <2> HIDE DEF t
    <2>3. SameRx(r, t)
      BY <2>1, <2>2 DEF SameRx
    <2>4. RxHeld(t, L) /\ GetReady(t) = 0
      BY <1>1, <2>3, RxKept
    <2>5. RxInv(t, L, n)
      BY <2>2, <2>4 DEF RxInv, Reads, Open, States
    <2>6. QED
      BY <2>5 DEF t, q
  <1>3. CASE s.smState \in {"SYN_RECEIVED", "ESTABLISHED"}
    BY <1>2, <1>3 DEF Disconnect, r
  <1>4. CASE s.smState = "CLOSE_WAIT"
    BY <1>2, <1>4 DEF Disconnect, r
  <1>5. CASE s.smState \notin {"SYN_RECEIVED", "ESTABLISHED", "CLOSE_WAIT"}
    BY <1>5, ClosedInv DEF Disconnect
  <1>6. QED
    BY <1>3, <1>4, <1>5

LEMMA ResendRx ==
    ASSUME NEW s, NEW flags, Socket(s)
    PROVE  Alike(s, Resend(s, flags))
  <1> DEFINE r == RollBack(s)
             q == [r EXCEPT !.retryCount = (@ + 1) % 256]
             u == SendTCP(q, flags, {})
  <1>1. Alike(s, r)
    BY DEF Alike, RollBack, Socket, SameRx, Closed
  <1> HIDE DEF r
  <1>2. Alike(s, q)
    BY <1>1 DEF Alike, Socket, SameRx, Closed
  <1> HIDE DEF q
  <1>3. Alike(s, u)
    BY <1>2, SendRx DEF Alike, SameRx
  <1> HIDE DEF u
  <1>4. \A x : Alike(s, [u EXCEPT !.resent = x])
    BY <1>3 DEF Alike, Socket, SameRx, Closed
  <1>5. PICK x : Resend(s, flags) = [u EXCEPT !.resent = x]
    <2>1. Resend(s, flags) = [u EXCEPT !.resent = IF u.MySEQ # s.MySEQ - Outstanding(s)
                                                  THEN Least(@ + 1, MAX_RETRIES) ELSE @]
      BY DEF Resend, u, q, r
    <2>2. QED
      BY <1>3, <2>1 DEF Alike, Socket, Closed
  <1>6. QED
    BY <1>4, <1>5

LEMMA FlushRx == ASSUME NEW s, Socket(s) PROVE Alike(s, TCPFlush(s))
  <1>1. CASE s.txHead # s.txUnackedTail
    BY <1>1, SendRx DEF TCPFlush, Alike
  <1>2. CASE s.txHead = s.txUnackedTail
    BY <1>2 DEF TCPFlush, Alike, SameRx
  <1>3. QED
    BY <1>1, <1>2

LEMMA AlikeTwice ==
    ASSUME NEW r, NEW s, NEW t, Alike(r, s), Alike(s, t)
    PROVE  Alike(r, t)
  BY DEF Alike, SameRx

LEMMA PutRx == ASSUME NEW s, NEW len, Socket(s) PROVE Alike(s, TCPPutArray(s, len))
  <1> DEFINE free == PutReady(s)
             h == HalfFull(s, free)
             r == PutBytes(h, Least(free, len))
  <1>1. Alike(s, h)
    <2>1. CASE ~s.bHalfFullFlush /\ free <= T \div 2
      <3> DEFINE f == TCPFlush(s)
      <3>1. Alike(s, f)
        BY FlushRx
      <3> HIDE DEF f
      <3>2. Alike(s, [f EXCEPT !.bHalfFullFlush = TRUE])
        BY <3>1 DEF Alike, Socket, SameRx, Closed
      <3>3. QED
        BY <2>1, <3>2 DEF HalfFull, f
    <2>2. CASE ~(~s.bHalfFullFlush /\ free <= T \div 2)
      BY <2>2 DEF HalfFull, Alike, SameRx
    <2>3. QED
      BY <2>1, <2>2
  <1> HIDE DEF h
  <1>2. Alike(s, r)
    BY <1>1 DEF PutBytes, Alike, Socket, SameRx, Closed
  <1> HIDE DEF r
  <1>3. Alike(s, TCPFlush(s)) /\ Alike(s, TCPFlush(r))
    <2>1. Alike(r, TCPFlush(r))
      BY <1>2, FlushRx DEF Alike
    <2>2. QED
      BY <1>2, <2>1, FlushRx, AlikeTwice
  <1>4. Alike(s, [r EXCEPT !.bAckDue = TRUE])
    BY <1>2 DEF Alike, Socket, SameRx, Closed
  <1>5. QED
    BY <1>3, <1>4 DEF TCPPutArray, r, h

LEMMA AlikeInv ==
    ASSUME NEW s, NEW t, NEW L, NEW n, RxInv(s, L, n), Alike(s, t)
    PROVE  RxInv(t, L, n)
  BY FollowsInv DEF Alike, Follows

LEMMA TailMoves ==
    ASSUME NEW r \in Nat, NEW h \in 0 .. r, NEW t \in 0 .. r, NEW n \in 0 .. r,
           n <= (h - t) % (r + 1)
    PROVE  (h - ((t + n) % (r + 1))) % (r + 1) = ((h - t) % (r + 1)) - n
  <1>1. (t + n) % (r + 1) = IF t + n <= r THEN t + n ELSE t + n - (r + 1)
    OBVIOUS
  <1>2. (h - t) % (r + 1) = IF h >= t THEN h - t ELSE h - t + (r + 1)
    OBVIOUS
  <1>3. QED
    BY <1>1, <1>2

LEMMA SlotAhead ==
    ASSUME NEW r \in Nat, NEW h \in 0 .. r, NEW t \in 0 .. r, NEW j \in 0 .. r,
           j < (h - t) % (r + 1)
    PROVE  /\ (t + j) % (r + 1) \in 0 .. r
           /\ (((t + j) % (r + 1)) - h) % (r + 1) = (r + 1) - ((h - t) % (r + 1)) + j
  <1>1. (t + j) % (r + 1) = IF t + j <= r THEN t + j ELSE t + j - (r + 1)
    OBVIOUS
  <1>2. (h - t) % (r + 1) = IF h >= t THEN h - t ELSE h - t + (r + 1)
    OBVIOUS
  <1>3. QED
    BY <1>1, <1>2

-----------------------------------------------------------------------------
(* What the peer sends *)

LEMMA DataShape ==
    ASSUME NEW b \in Nat, NEW e \in Nat
    PROVE  LET d == [k \in 1 .. e - b |-> b + k - 1]
           IN /\ d \in Seq(Nat) /\ Len(d) = (IF e >= b THEN e - b ELSE 0)
              /\ \A k \in 1 .. Len(d) : d[k] = b + k - 1
  <1> DEFINE d == [k \in 1 .. e - b |-> b + k - 1]
  <1>1. CASE e >= b
    <2>1. e - b \in Nat
      BY <1>1
    <2>2. \A k \in 1 .. e - b : b + k - 1 \in Nat
      BY <2>1
    <2>3. d \in Seq(Nat) /\ Len(d) = e - b
      BY <2>1, <2>2
    <2>4. QED
      BY <1>1, <2>3
  <1>2. CASE ~(e >= b)
    <2>1. 1 .. e - b = {}
      BY <1>2
    <2>2. d = <<>>
      BY <2>1
    <2> HIDE DEF d
    <2>3. d \in Seq(Nat) /\ Len(d) = 0
      BY <2>2, EmptySeq
    <2>4. /\ Len(d) = (IF e >= b THEN e - b ELSE 0)
          /\ \A k \in 1 .. Len(d) : d[k] = b + k - 1
      BY <1>2, <2>3
    <2>5. QED
      BY <2>3, <2>4 DEF d
  <1>3. QED
    BY <1>1, <1>2

\* What the application knows of its two streams.
App ==
    /\ DOMAIN app = {"limit", "written", "read", "wrong", "over"}
    /\ app.limit \in Nat \X Nat /\ app.read \in Seq(Int)

LEMMA ArrivingCarried ==
    ASSUME NEW m \in Arriving, App, tcb.RemoteSEQ \in Int, FreeSpace(tcb) \in Int
    PROVE  Carried(m, app.limit[2])
  <1> DEFINE L == app.limit[2]
             last == Least(L, tcb.RemoteSEQ + FreeSpace(tcb) - 1)
             Carries(b, e, a, f) ==
                [flags |-> f, seq |-> b + 1, ack |-> a.ack, wnd |-> a.wnd,
                 data |-> [k \in 1 .. e - b |-> b + k - 1]]
  <1>1. L \in Nat
    BY DEF App
  <1>2. ASSUME NEW b \in Nat, NEW e \in Nat, NEW a, NEW f, "SYN" \notin f,
               e > b => e <= L, "FIN" \in f => e = L /\ b <= e
        PROVE  Carried(Carries(b, e, a, f), L)
    <2> DEFINE d == [k \in 1 .. e - b |-> b + k - 1]
               c == Carries(b, e, a, f)
    <2>1. /\ d \in Seq(Nat) /\ Len(d) = (IF e >= b THEN e - b ELSE 0)
          /\ \A k \in 1 .. Len(d) : d[k] = b + k - 1
      BY DataShape
    <2>2. c.data = d /\ c.seq = b + 1 /\ c.flags = f
      OBVIOUS
    <2> HIDE DEF c, d
    <2>3. \A k \in 1 .. Len(d) : b + k - 1 = (b + 1) + k - 2
      BY <2>1
    <2>4. d # <<>> => (b + 1) + Len(d) <= L + 1
      <3> SUFFICES ASSUME d # <<>> PROVE (b + 1) + Len(d) <= L + 1
        OBVIOUS
      <3>1. Len(d) > 0
        BY <2>1, EmptySeq
      <3>2. QED
        BY <1>1, <1>2, <2>1, <3>1
    <2>5. "FIN" \in f => (b + 1) + Len(d) = L + 1
      BY <1>1, <1>2, <2>1
    <2>6. Carried(c, L)
      <3>1. c.data \in Seq(Nat) /\ c.seq \in Nat
        BY <2>1, <2>2
      <3>2. \A k \in 1 .. Len(c.data) : c.data[k] = c.seq + k - 2
        BY <2>1, <2>2, <2>3
      <3>3. QED
        BY <1>2, <2>2, <2>4, <2>5, <3>1, <3>2 DEF Carried
    <2>7. QED
      BY <2>6 DEF c
  <1>3. ASSUME NEW e, e \in 0 .. last PROVE e \in Nat /\ e <= L
    <2>1. last \in Int /\ last <= L
      BY <1>1 DEF Least
    <2>2. QED
      BY <1>1, <1>3, <2>1
  <1>4. CASE m = [flags |-> {"SYN"}, seq |-> 0, ack |-> 0, wnd |-> W, data |-> <<>>]
    BY <1>4 DEF Carried
  <1> HIDE DEF last
  <1>5. ASSUME NEW b \in 0 .. last, NEW e \in 0 .. last, NEW a,
               m = Carries(b, e, a, {"ACK"})
        PROVE  Carried(m, L)
    BY <1>2, <1>3, <1>5
  <1>6. ASSUME NEW b \in 0 .. last, NEW a, m = Carries(b, b, a, {"RST", "ACK"})
        PROVE  Carried(m, L)
    <2>1. b \in Nat /\ ~(b > b)
      BY <1>3
    <2>2. QED
      BY <1>2, <1>6, <2>1
  <1>7. ASSUME NEW b \in 0 .. L, NEW a, m = Carries(b, L, a, {"FIN", "ACK"})
        PROVE  Carried(m, L)
    <2>1. b \in Nat /\ b <= L /\ L <= L
      BY <1>1
    <2> DEFINE f == {"FIN", "ACK"}
    <2>2. "SYN" \notin f
      OBVIOUS
    <2> HIDE DEF f, L
    <2>3. Carried(Carries(b, L, a, f), L)
      BY <1>1, <1>2, <2>1, <2>2
    <2>4. QED
      BY <1>7, <2>3 DEF f
  <1>8. ASSUME NEW a, m = Carries(L + 1, 0, a, {"ACK"})
        PROVE  Carried(m, L)
    <2>1. L + 1 \in Nat /\ ~(0 > L + 1)
      BY <1>1
    <2>2. QED
      BY <1>2, <1>8, <2>1
  <1>9. \/ m = [flags |-> {"SYN"}, seq |-> 0, ack |-> 0, wnd |-> W, data |-> <<>>]
        \/ \E b \in 0 .. last, e \in 0 .. last, a \in peer.ads : m = Carries(b, e, a, {"ACK"})
        \/ \E b \in 0 .. last, a \in peer.ads : m = Carries(b, b, a, {"RST", "ACK"})
        \/ \E b \in 0 .. L, a \in peer.ads : m = Carries(b, L, a, {"FIN", "ACK"})
        \/ \E a \in peer.ads : m = Carries(L + 1, 0, a, {"ACK"})
    BY DEF Arriving, last
  <1> HIDE DEF Carries
  <1>10. QED
    BY <1>4, <1>5, <1>6, <1>7, <1>8, <1>9

-----------------------------------------------------------------------------
(* The stream the application reads *)

StreamInv ==
    /\ App /\ ReadsStream
    /\ tcb.smState = "LISTEN" => app.over \/ app.read = <<>>
    /\ RxInv(tcb, app.limit[2], Len(app.read))

LEMMA StreamTypes ==
    ASSUME StreamInv
    PROVE  /\ app.limit[2] \in Nat /\ Len(app.read) \in Nat /\ Socket(tcb)
           /\ tcb.RemoteSEQ \in Nat
           /\ GetReady(tcb) \in 0 .. R /\ FreeSpace(tcb) \in 0 .. R
  BY ReadyRange DEF StreamInv, App, RxInv, RxHeld, RxTypes

\* A step of the socket that gives the application nothing to read.
LEMMA BecomesInv ==
    ASSUME StreamInv, NEW t, NEW put, Step(t, put), RxInv(t, app.limit[2], Len(app.read))
    PROVE  StreamInv'
  <1>1. /\ tcb' = [t EXCEPT !.out = <<>>]
        /\ DOMAIN app' = DOMAIN app /\ app'.limit = app.limit /\ app'.read = app.read
        /\ app'.over = (app.over \/ (t.smState = "LISTEN" /\ tcb.smState # "LISTEN"))
    BY DEF Step, StreamInv, App
  <1>2. Alike(t, tcb')
    BY <1>1 DEF RxInv, Alike, Socket, SameRx, Closed
  <1>3. RxInv(tcb', app'.limit[2], Len(app'.read))
    BY <1>1, <1>2, AlikeInv
  <1>4. tcb'.smState = "LISTEN" => app'.over \/ app'.read = <<>>
    BY <1>1, <1>2 DEF Alike, StreamInv
  <1>5. App' /\ ReadsStream'
    BY <1>1 DEF StreamInv, App, ReadsStream
  <1>6. QED
    BY <1>3, <1>4, <1>5 DEF StreamInv

LEMMA ProcessStream == ASSUME StreamInv, TCPProcess PROVE StreamInv'
  <1> DEFINE s == [tcb EXCEPT !.vUnackedKeepalives = 0]
             L == app.limit[2]
             n == Len(app.read)
  <1>1. PICK m \in Arriving : Step(HandleTCPSeg(s, m), 0)
    BY DEF TCPProcess, Becomes
  <1>2. L \in Nat /\ n \in Nat /\ Socket(tcb) /\ RxInv(tcb, L, n)
    BY StreamTypes DEF StreamInv
  <1>3. Alike(tcb, s)
    BY <1>2 DEF Alike, Socket, SameRx, Closed
  <1>4. s.smState = "LISTEN" => n = 0
    <2>1. tcb.smState = "LISTEN" => app.read = <<>>
      BY DEF TCPProcess, StreamInv
    <2>2. QED
      BY <1>3, <2>1, EmptySeq DEF Alike
  <1>5. Carried(m, L)
    BY StreamTypes, ArrivingCarried DEF StreamInv
  <1>6. RxInv(s, L, n)
    BY <1>2, <1>3, AlikeInv
  <1> HIDE DEF s, L, n
  <1>7. RxInv(HandleTCPSeg(s, m), L, n)
    BY <1>2, <1>4, <1>5, <1>6, HandleInv
  <1>8. QED
    BY <1>1, <1>7, BecomesInv DEF L, n

LEMMA TickStream == ASSUME StreamInv, TCPTick PROVE StreamInv'
  <1> DEFINE L == app.limit[2]
             n == Len(app.read)
  <1>0. L \in Nat /\ n \in Nat /\ Socket(tcb) /\ RxInv(tcb, L, n)
    BY StreamTypes DEF StreamInv
  <1>1. ASSUME NEW t, Follows(tcb, t), Step(t, 0) PROVE StreamInv'
    BY <1>0, <1>1, FollowsInv, BecomesInv
  <1>2. ASSUME NEW state, NEW flags, NEW how,
               state \in {"FIN_WAIT_1", "LAST_ACK"}
        PROVE  Follows(tcb, SendTCP([tcb EXCEPT !.smState = state], flags, how))
    <2> DEFINE r == [tcb EXCEPT !.smState = state]
    <2>1. Socket(r) /\ SameRx(tcb, r) /\ r.smState = state
      BY <1>0 DEF Socket, SameRx, Closed
    <2> HIDE DEF r
    <2> DEFINE t == SendTCP(r, flags, how)
    <2>2. Socket(t) /\ SameRx(r, t) /\ t.smState = state
      BY <2>1, SendRx
    <2> HIDE DEF t
    <2>3. Follows(tcb, t)
      BY <1>2, <2>1, <2>2 DEF Follows, SameRx
    <2>4. QED
      BY <2>3 DEF t, r
  <1>3. CASE TickTransmit
    BY <1>0, <1>1, <1>3, SendFollows DEF TickTransmit, Becomes
  <1>4. CASE TickCloseWait
    BY <1>1, <1>2, <1>4 DEF TickCloseWait, Becomes
  <1>5. CASE TickKeepAlive
    <2>1. CASE tcb.vUnackedKeepalives = MAX_UNACKED_KEEP_ALIVES
      <3>1. RxInv(Disconnect(Disconnect(tcb)), L, n)
        BY <1>0, DisconnectInv
      <3>2. QED
        BY <1>5, <2>1, <3>1, BecomesInv DEF TickKeepAlive, Becomes
    <2>2. CASE tcb.vUnackedKeepalives # MAX_UNACKED_KEEP_ALIVES
      BY <1>0, <1>1, <1>5, <2>2, SendFollows DEF TickKeepAlive, Becomes
    <2>3. QED
      BY <2>1, <2>2
  <1>6. CASE TickTimer
    <2> DEFINE again == tcb.retryCount < Retries[tcb.smState] /\ tcb.smState # "FIN_WAIT_2"
               last  == /\ tcb.retryCount >= Retries[tcb.smState]
                        /\ tcb.smState \in {"ESTABLISHED", "CLOSE_WAIT"}
               t == CASE again -> Resend(tcb, Flags[tcb.smState])
                      [] last -> SendTCP([tcb EXCEPT !.smState = "FIN_WAIT_1"], {"FIN", "ACK"}, RESET)
                      [] OTHER -> GiveUp(tcb)
    <2>1. Step(t, 0)
      BY <1>6 DEF TickTimer, Becomes
    <2>2. RxInv(GiveUp(tcb), L, n)
      BY <1>0, ClosedInv DEF GiveUp
    <2>3. RxInv(Resend(tcb, Flags[tcb.smState]), L, n)
      BY <1>0, ResendRx, AlikeInv
    <2>4. RxInv(SendTCP([tcb EXCEPT !.smState = "FIN_WAIT_1"], {"FIN", "ACK"}, RESET), L, n)
      <3>1. Follows(tcb, SendTCP([tcb EXCEPT !.smState = "FIN_WAIT_1"], {"FIN", "ACK"}, RESET))
        BY <1>2
      <3> HIDE DEF L, n
      <3>2. QED
        BY <1>0, <3>1, FollowsInv
    <2>5. RxInv(t, L, n)
      <3> HIDE DEF again, last, L, n
      <3>1. \/ t = Resend(tcb, Flags[tcb.smState])
            \/ t = SendTCP([tcb EXCEPT !.smState = "FIN_WAIT_1"], {"FIN", "ACK"}, RESET)
            \/ t = GiveUp(tcb)
        OBVIOUS
      <3>2. QED
        BY <2>2, <2>3, <2>4, <3>1
    <2> HIDE DEF t
    <2>6. QED
      BY <2>1, <2>5, BecomesInv
  <1>7. QED
    BY <1>3, <1>4, <1>5, <1>6 DEF TCPTick

LEMMA PutStream ==
    ASSUME StreamInv, NEW len, NEW flush, Put(len, flush)
    PROVE  StreamInv'
  <1> DEFINE r == TCPPutArray(tcb, len)
             t == IF flush THEN TCPFlush(r) ELSE r
  <1>1. PICK put : Step(t, put)
    BY DEF Put
  <1>2. Socket(tcb)
    BY StreamTypes
  <1>3. Alike(tcb, r)
    BY <1>2, PutRx
  <1> HIDE DEF r
  <1>4. Alike(tcb, t)
    <2>1. Alike(r, TCPFlush(r))
      BY <1>3, FlushRx DEF Alike
    <2>2. QED
      BY <1>3, <2>1, AlikeTwice
  <1> HIDE DEF t
  <1>5. QED
    BY <1>1, <1>4, AlikeInv, BecomesInv DEF StreamInv

LEMMA Cancel ==
    ASSUME NEW x \in Int, NEW a \in Int, NEW b \in Int, NEW r \in Int
    PROVE  (x + a) + (r - a + b) - r = x + b
  OBVIOUS

LEMMA GetStream ==
    ASSUME StreamInv, NEW len \in Nat, TCPGetArray(len)
    PROVE  StreamInv'
  <1> DEFINE L == app.limit[2]
             ready == GetReady(tcb)
             n == Least(len, ready)
             got == [k \in 1 .. n |-> tcb.rx[(tcb.rxTail + k - 1) % (R + 1)]]
  <1>1. /\ ready > 0
        /\ tcb' = [tcb EXCEPT !.rxTail = (@ + n) % (R + 1),
                              !.bTXASAPWithoutTimerReset = @ \/ ready - n <= n,
                              !.bAckDue = @ \/ ready - n > n]
        /\ app' = [app EXCEPT !.read = @ \o got]
    BY DEF TCPGetArray
  <1>2. /\ tcb.rxHead \in 0 .. R /\ tcb.rxTail \in 0 .. R /\ ready \in 0 .. R
        /\ L \in Nat /\ Len(app.read) \in Nat /\ Socket(tcb)
        /\ FreeSpace(tcb) \in 0 .. R /\ FreeSpace(tcb) + ready = R
    BY StreamTypes, ReadyRange DEF StreamInv, RxInv, RxHeld, RxTypes
  <1>22. R \in Nat /\ tcb.rxHead \in 0 .. R /\ tcb.rxTail \in 0 .. R
    BY <1>2, RingFacts
  <1>3. R \in Nat /\ ready \in Nat /\ ready <= R
    BY <1>2, RingFacts
  <1>4. n \in Nat /\ n <= ready /\ n <= R
    BY <1>3 DEF Least
  <1>5. ready = (tcb.rxHead - tcb.rxTail) % (R + 1)
    BY DEF GetReady
  <1>6. /\ Socket(tcb') /\ tcb'.smState = tcb.smState
        /\ tcb'.rxTail = (tcb.rxTail + n) % (R + 1)
        /\ tcb'.rxHead = tcb.rxHead /\ tcb'.rx = tcb.rx
        /\ tcb'.RemoteSEQ = tcb.RemoteSEQ
        /\ tcb'.sHoleSize = tcb.sHoleSize /\ tcb'.wFutureDataSize = tcb.wFutureDataSize
    BY <1>1, <1>2 DEF Socket, Closed
  <1>7. /\ DOMAIN app' = DOMAIN app /\ app'.limit = app.limit /\ app'.over = app.over
        /\ app'.read = app.read \o got
    BY <1>1 DEF StreamInv, App
  <1> HIDE DEF n, ready, got
  <1>8. GetReady(tcb') = ready - n
    <2>1. n \in 0 .. R /\ n <= (tcb.rxHead - tcb.rxTail) % (R + 1)
      BY <1>3, <1>4, <1>5
    <2>2. (tcb.rxHead - ((tcb.rxTail + n) % (R + 1))) % (R + 1)
            = ((tcb.rxHead - tcb.rxTail) % (R + 1)) - n
      BY <1>22, <2>1, TailMoves
    <2>3. QED
      BY <1>5, <1>6, <2>2 DEF GetReady
  <1>9. tcb.RemoteSEQ \in Int /\ Place(tcb, L) \in Int
        /\ Len(app.read) + ready = Place(tcb, L)
    <2>1. tcb.RemoteSEQ \in Int
      BY DEF StreamInv, RxInv, RxHeld, RxTypes
    <2>2. Place(tcb, L) \in Int
      BY <1>2, <2>1 DEF Place, Least
    <2>3. QED
      BY <1>1, <2>1, <2>2 DEF StreamInv, RxInv, Reads, ready
  <1>10. ASSUME NEW k \in 1 .. n
         PROVE  tcb.rx[(tcb.rxTail + k - 1) % (R + 1)] = Len(app.read) + k - 1
    <2> DEFINE j == k - 1
               p == (tcb.rxTail + j) % (R + 1)
    <2>0. j \in Nat /\ j < ready
      BY <1>3, <1>4
    <2>1. tcb.rxTail + k - 1 = tcb.rxTail + j
      BY <1>2, <1>3
    <2> HIDE DEF j
    <2>2. j \in 0 .. R /\ j < (tcb.rxHead - tcb.rxTail) % (R + 1)
      BY <1>3, <1>5, <2>0
    <2>3. p \in 0 .. R /\ Ahead(tcb, p) = (R + 1) - ready + j
      <3>1. /\ (tcb.rxTail + j) % (R + 1) \in 0 .. R
            /\ (((tcb.rxTail + j) % (R + 1)) - tcb.rxHead) % (R + 1)
                 = (R + 1) - ((tcb.rxHead - tcb.rxTail) % (R + 1)) + j
        BY <1>22, <2>2, SlotAhead
      <3>2. QED
        BY <1>5, <3>1 DEF Ahead
    <2> HIDE DEF p
    <2>4. Ahead(tcb, p) + ready > R
      BY <1>3, <2>0, <2>3
    <2>5. tcb.rx[p] = Place(tcb, L) + Ahead(tcb, p) - (R + 1)
      BY <2>3, <2>4 DEF StreamInv, RxInv, RxHeld, ReadyHeld, ready
    <2>6. Place(tcb, L) + Ahead(tcb, p) - (R + 1) = Len(app.read) + j
      <3>1. Len(app.read) \in Nat /\ Place(tcb, L) = Len(app.read) + ready
        BY <1>2, <1>9
      <3>2. (Len(app.read) + ready) + ((R + 1) - ready + j) - (R + 1) = Len(app.read) + j
        <4>1. R + 1 \in Int /\ ready \in Int /\ j \in Int /\ Len(app.read) \in Int
          BY <1>3, <2>0, <3>1
        <4>2. QED
          BY <4>1, Cancel
      <3>3. QED
        BY <2>3, <3>1, <3>2
    <2>7. Len(app.read) + j = Len(app.read) + k - 1
      BY <1>2, <1>4 DEF j
    <2>8. QED
      BY <2>1, <2>5, <2>6, <2>7 DEF p
  <1>11. /\ got \in Seq(Int) /\ Len(got) = n
         /\ \A k \in 1 .. n : got[k] = Len(app.read) + k - 1
    <2>1. \A k \in 1 .. n : got[k] = Len(app.read) + k - 1
      BY <1>10 DEF got
    <2>2. \A k \in 1 .. n : got[k] \in Int
      BY <1>2, <1>4, <2>1
    <2>3. DOMAIN got = 1 .. n
      BY DEF got
    <2>4. got \in [1 .. n -> Int]
      BY <2>2 DEF got
    <2>5. QED
      BY <1>4, <2>1, <2>4, LenProperties, SeqDef
  <1>12. /\ app'.read \in Seq(Int) /\ Len(app'.read) = Len(app.read) + n
         /\ \A k \in 1 .. Len(app'.read) : app'.read[k] = k - 1
    <2>1. app.read \in Seq(Int) /\ \A k \in 1 .. Len(app.read) : app.read[k] = k - 1
      BY DEF StreamInv, App, ReadsStream
    <2>2. app'.read \in Seq(Int) /\ Len(app'.read) = Len(app.read) + n
      <3>1. /\ app.read \o got \in Seq(Int)
            /\ Len(app.read \o got) = Len(app.read) + Len(got)
        BY <1>11, <2>1, ConcatProperties
      <3>2. QED
        BY <1>7, <1>11, <3>1
    <2>3. ASSUME NEW k \in 1 .. Len(app'.read) PROVE app'.read[k] = k - 1
      <3>1. CASE k <= Len(app.read)
        BY <1>2, <1>7, <1>11, <2>1, <2>2, <3>1
      <3>2. CASE k > Len(app.read)
        <4>1. k - Len(app.read) \in 1 .. n
          BY <1>2, <1>4, <2>2, <3>2
        <4>2. app'.read[k] = got[k - Len(app.read)]
          BY <1>2, <1>7, <1>11, <2>1, <2>2, <3>2
        <4>3. got[k - Len(app.read)] = Len(app.read) + (k - Len(app.read)) - 1
          BY <1>11, <4>1
        <4>4. QED
          BY <1>2, <2>2, <4>2, <4>3
      <3>3. QED
        BY <1>2, <2>2, <3>1, <3>2
    <2>4. QED
      BY <2>2, <2>3
  <1>13. App' /\ ReadsStream'
    <2>1. DOMAIN app'.read = 1 .. Len(app'.read)
      BY <1>12
    <2>2. QED
      BY <1>7, <1>12, <2>1 DEF StreamInv, App, ReadsStream
  <1>14. /\ Place(tcb', L) = Place(tcb, L) /\ \A p : Ahead(tcb', p) = Ahead(tcb, p)
         /\ FreeSpace(tcb') = FreeSpace(tcb) + n
    <2>1. FreeSpace(tcb') = R - (ready - n) /\ FreeSpace(tcb) = R - ready
      BY <1>8 DEF FreeSpace, ready
    <2>2. FreeSpace(tcb') = FreeSpace(tcb) + n
      BY <1>3, <1>4, <2>1
    <2>3. QED
      BY <1>6, <2>2 DEF Place, Ahead
  <1>15. RxTypes(tcb', L)
    <2>1. tcb.rxTail + n \in Int
      BY <1>2, <1>3, <1>4
    <2>2. tcb'.rxTail \in 0 .. R
      BY <1>3, <1>6, <2>1, Remainder
    <2>3. QED
      BY <1>6, <2>2 DEF StreamInv, RxInv, RxHeld, RxTypes
  <1>16. ReadyHeld(tcb', L)
    <2> SUFFICES ASSUME NEW p \in 0 .. R, Ahead(tcb, p) + GetReady(tcb') > R
                 PROVE  tcb.rx[p] = Place(tcb, L) + Ahead(tcb, p) - (R + 1)
      BY <1>6, <1>14 DEF ReadyHeld
    <2>1. Ahead(tcb, p) \in 0 .. R
      BY <1>2, AheadRange
    <2>2. Ahead(tcb, p) + ready > R
      BY <1>3, <1>4, <1>8, <2>1
    <2>3. QED
      BY <2>2 DEF StreamInv, RxInv, RxHeld, ReadyHeld, ready
  <1>17. FutureHeld(tcb', L)
    <2>1. tcb.sHoleSize # -1 =>
            /\ tcb.sHoleSize > 0
            /\ tcb.sHoleSize + tcb.wFutureDataSize <= FreeSpace(tcb)
            /\ Place(tcb, L) + tcb.sHoleSize + tcb.wFutureDataSize <= L
            /\ \A p \in 0 .. R :
                  tcb.sHoleSize <= Ahead(tcb, p)
                  /\ Ahead(tcb, p) < tcb.sHoleSize + tcb.wFutureDataSize
                    => tcb.rx[p] = Place(tcb, L) + Ahead(tcb, p)
      BY DEF StreamInv, RxInv, RxHeld, FutureHeld
    <2>2. tcb.sHoleSize \in Int /\ tcb.wFutureDataSize \in Int /\ FreeSpace(tcb) \in Int
      BY <1>2, <1>3 DEF StreamInv, RxInv, RxHeld, RxTypes
    <2>3. tcb.sHoleSize # -1 => tcb.sHoleSize + tcb.wFutureDataSize <= FreeSpace(tcb')
      BY <1>4, <1>14, <2>1, <2>2
    <2>4. QED
      BY <1>6, <1>14, <2>1, <2>3 DEF FutureHeld
  <1>18. Reads(tcb', L, Len(app'.read))
    BY <1>2, <1>3, <1>4, <1>8, <1>9, <1>12, <1>14 DEF Reads
  <1>19. tcb.smState # "LISTEN"
    <2> SUFFICES ASSUME tcb.smState = "LISTEN" PROVE FALSE
      OBVIOUS
    <2>1. tcb.rxHead = 0 /\ tcb.rxTail = 0
      BY DEF StreamInv, RxInv
    <2>2. ready = 0
      BY <1>3, <1>5, <2>1
    <2>3. QED
      BY <1>1, <2>2
  <1>20. RxInv(tcb', L, Len(app'.read))
    BY <1>6, <1>15, <1>16, <1>17, <1>18, <1>19 DEF StreamInv, RxInv, RxHeld
  <1>21. QED
    BY <1>6, <1>7, <1>13, <1>19, <1>20 DEF StreamInv

LEMMA StreamInit == Init => StreamInv
  <1> SUFFICES ASSUME Init PROVE StreamInv
    OBVIOUS
  <1>1. PICK limit \in Streams :
          app = [limit |-> limit, written |-> 0, read |-> <<>>, wrong |-> {}, over |-> FALSE]
    BY DEF Init
  <1>2. App /\ ReadsStream /\ app.read = <<>> /\ Len(app.read) = 0
    BY <1>1, SocketAssumption, EmptySeq DEF App, ReadsStream
  <1>3. app.limit[2] \in Nat
    BY <1>2 DEF App
  <1>4. RxInv(CloseSocket(tcb), app.limit[2], 0)
    BY <1>3, ClosedInv
  <1>5. Alike(CloseSocket(tcb), tcb)
    BY DEF Init, CloseSocket, Closed, Alike, SameRx, Socket
  <1>6. QED
    BY <1>2, <1>4, <1>5, AlikeInv DEF StreamInv

LEMMA StreamStep == StreamInv /\ [Next]_vars => StreamInv'
  <1> SUFFICES ASSUME StreamInv, [Next]_vars PROVE StreamInv'
    OBVIOUS
  <1>1. CASE TCPProcess
    BY <1>1, ProcessStream
  <1>2. CASE TCPTick
    BY <1>2, TickStream
  <1>3. CASE Application
    <2>1. ASSUME NEW len \in 1 .. 2, NEW flush, Put(len, flush) PROVE StreamInv'
      BY <2>1, PutStream
    <2>2. ASSUME NEW len \in 1 .. 2, TCPGetArray(len) PROVE StreamInv'
      BY <2>2, GetStream
    <2>3. ASSUME TCPDisconnect PROVE StreamInv'
      <3>1. RxInv(Disconnect(tcb), app.limit[2], Len(app.read))
        BY StreamTypes, DisconnectInv DEF StreamInv
      <3>2. QED
        BY <2>3, <3>1, BecomesInv DEF TCPDisconnect, Becomes
    <2>4. QED
      BY <1>3, <2>1, <2>2, <2>3 DEF Application
  <1>4. CASE UNCHANGED <<tcb, app>>
    BY <1>4 DEF StreamInv, App, ReadsStream
  <1>5. QED
    BY <1>1, <1>2, <1>3, <1>4 DEF Next, PeerRead, PeerClose, PeerGone, vars

\* The application reads the bytes of the peer's stream in order, each once,
\* whatever is lost, duplicated, cut or comes out of order (HandleTCPSeg,
\* FindMatchingSocket, TCPGetArray).
THEOREM ReadsInOrder == Spec => []ReadsStream
  <1>1. StreamInv => ReadsStream
    BY DEF StreamInv
  <1>2. QED
    BY <1>1, StreamInit, StreamStep, PTL DEF Spec

\* What the board acknowledges is in its ring or has been read.
THEOREM AcksWhatIsHeld == Spec => []AcksWhatItHolds
  <1>1. StreamInv => AcksWhatItHolds
    <2> SUFFICES ASSUME StreamInv, tcb.smState \in Open
                 PROVE  tcb.RemoteSEQ = 1 + Len(app.read) + GetReady(tcb)
      BY DEF AcksWhatItHolds, Open
    <2>1. Len(app.read) + GetReady(tcb) = Place(tcb, app.limit[2])
          /\ tcb.RemoteSEQ <= app.limit[2] + 1
      BY DEF StreamInv, RxInv, Reads
    <2>2. /\ Len(app.read) \in Nat /\ tcb.RemoteSEQ \in Nat /\ app.limit[2] \in Nat
          /\ GetReady(tcb) \in Int
      BY StreamTypes, RingFacts
    <2>3. Place(tcb, app.limit[2]) = tcb.RemoteSEQ - 1
      BY <2>1, <2>2 DEF Place, Least
    <2>4. QED
      BY <2>1, <2>2, <2>3
  <1>2. QED
    BY <1>1, StreamInit, StreamStep, PTL DEF Spec

-----------------------------------------------------------------------------
(* The ring of the sending side *)

Held(s)   == (s.txHead - s.txTail) % T
Una(s)    == s.MySEQ - Outstanding(s)
Off(s, p) == (p - s.txTail) % T

TxTypes(s) ==
    /\ s.txHead \in 0 .. T - 1 /\ s.txTail \in 0 .. T - 1 /\ s.txUnackedTail \in 0 .. T - 1
    /\ DOMAIN s.tx = 0 .. T - 1
    /\ s.MySEQ \in Int /\ s.remoteWindow \in Int
    /\ s.bFINSent \in BOOLEAN /\ s.bTXFIN \in BOOLEAN
    /\ s.bSYNSent \in BOOLEAN /\ s.bTimerEnabled \in BOOLEAN

\* What is on its way and what is still to be sent share the ring, and
\* nothing is on its way without the timer.
TxOrder(s) ==
    /\ Outstanding(s) + Unsent(s) = Held(s)
    /\ s.bTimerEnabled \/ Outstanding(s) = 0

\* The ring holds the last bytes of the w that were put, from the first one on
\* that is not acknowledged; the peer has received at least what is acknowledged.
Exact(s, w, r) ==
    /\ Una(s) <= r /\ w = Una(s) - 1 + Held(s)
    /\ \A p \in 0 .. T - 1 : Off(s, p) < Held(s) => s.tx[p] = Una(s) - 1 + Off(s, p)

\* In the middle of a step that began before a FIN was sent (~b), the FIN has
\* left nothing unsent behind.
TxCore(s, w, r, b) ==
    /\ Socket(s) /\ TxTypes(s) /\ TxOrder(s)
    /\ s.bFINSent => b \/ Unsent(s) = 0
    /\ s.bFINSent \/ Held(s) = 0 \/ Exact(s, w, r)

Fresh(s) ==
    /\ s.MySEQ = 0 /\ Held(s) = 0
    /\ ~s.bSYNSent /\ ~s.bTXFIN /\ ~s.bFINSent /\ ~s.bTimerEnabled

Sending == {"SYN_RECEIVED", "ESTABLISHED", "CLOSE_WAIT"}

TxState(s, w, r) ==
    /\ s.smState \in Sending => ~s.bTXFIN /\ ~s.bFINSent /\ Exact(s, w, r)
    /\ s.smState = "SYN_RECEIVED" => s.bSYNSent
    /\ s.smState = "LISTEN" => Fresh(s)

\* A segment whose bytes are, where the peer can accept them, at their places.
Placed(m, r) == \A k \in DOMAIN m.data : m.seq + k - 1 < r \/ m.data[k] = m.seq + k - 2
Sound(m, r, b) ==
    m.seq \in Int /\ Len(m.data) \in Nat /\ DOMAIN m.data \subseteq Int /\ (b \/ Placed(m, r))
Sent(s, r, b) == \E S : s.out \in Seq(S) /\ \A m \in S : Sound(m, r, b)

TxHeld(s, w, r, b) == TxCore(s, w, r, b) /\ Sent(s, r, b)
TxInv(s, w, r, b)  == TxHeld(s, w, r, b) /\ TxState(s, w, r)

Peer(p) ==
    /\ DOMAIN p = {"rcv", "edge", "ads", "fin", "done"}
    /\ p.rcv \in Nat \ {0} /\ p.edge \in Nat /\ p.rcv <= p.edge
    /\ \A a \in p.ads : a.ack \in Nat /\ a.ack <= p.rcv /\ a.wnd \in Nat

\* What the sending side keeps.
SameTx(s, t) ==
    /\ t.txHead = s.txHead /\ t.txTail = s.txTail /\ t.txUnackedTail = s.txUnackedTail
    /\ t.tx = s.tx /\ t.MySEQ = s.MySEQ /\ t.remoteWindow = s.remoteWindow
    /\ t.bFINSent = s.bFINSent /\ t.bTXFIN = s.bTXFIN /\ t.bSYNSent = s.bSYNSent
    /\ t.bTimerEnabled = s.bTimerEnabled /\ t.out = s.out

LEMMA Distance ==
    ASSUME NEW q \in Nat \ {0}, NEW a \in 0 .. q - 1, NEW b \in 0 .. q - 1
    PROVE  (a - b) % q = IF a >= b THEN a - b ELSE a - b + q
  OBVIOUS

LEMMA Forward ==
    ASSUME NEW q \in Nat \ {0}, NEW a \in 0 .. q - 1, NEW d \in Nat, d < q
    PROVE  (a + d) % q = IF a + d < q THEN a + d ELSE a + d - q
  OBVIOUS

LEMMA TxRange ==
    ASSUME NEW s, TxTypes(s)
    PROVE  /\ Outstanding(s) \in Nat /\ Outstanding(s) < T
           /\ Unsent(s) \in Nat /\ Unsent(s) < T
           /\ Held(s) \in Nat /\ Held(s) < T
           /\ Una(s) \in Int
  <1>1. /\ s.txHead \in Int /\ s.txTail \in Int /\ s.txUnackedTail \in Int
        /\ T \in Nat \ {0} /\ s.MySEQ \in Int
    BY RingFacts DEF TxTypes
  <1>2. ASSUME NEW a \in Int PROVE a % T \in Nat /\ a % T < T
    BY <1>1
  <1>8. s.txUnackedTail - s.txTail \in Int
    BY <1>1
  <1>3. Outstanding(s) \in Nat /\ Outstanding(s) < T
    BY <1>2, <1>8 DEF Outstanding
  <1>4. Unsent(s) \in Nat /\ Unsent(s) < T
    BY <1>1, <1>2 DEF Unsent
  <1>5. Held(s) \in Nat /\ Held(s) < T
    BY <1>1, <1>2 DEF Held
  <1>6. Una(s) \in Int
    BY <1>1, <1>3 DEF Una
  <1>7. QED
    BY <1>3, <1>4, <1>5, <1>6

LEMMA OffRange ==
    ASSUME NEW s, TxTypes(s), NEW p \in 0 .. T - 1
    PROVE  Off(s, p) \in Nat /\ Off(s, p) < T
  <1>1. p - s.txTail \in Int /\ T \in Nat \ {0}
    BY RingFacts DEF TxTypes
  <1>2. QED
    BY <1>1 DEF Off

\* A ring of q slots with tail a and head h, of which u is between them.
Ring(q, a, u, h) ==
    /\ q \in Nat \ {0} /\ a \in 0 .. q - 1 /\ u \in 0 .. q - 1 /\ h \in 0 .. q - 1
    /\ ((u - a) % q) + ((h - u) % q) = (h - a) % q

LEMMA TxRing ==
    ASSUME NEW s, TxTypes(s), TxOrder(s)
    PROVE  Ring(T, s.txTail, s.txUnackedTail, s.txHead)
  BY RingFacts DEF TxTypes, TxOrder, Ring, Outstanding, Unsent, Held

\* Sending the next d bytes.
LEMMA UnackedMoves ==
    ASSUME NEW q, NEW a, NEW u, NEW h, Ring(q, a, u, h), NEW d \in Nat, d <= (h - u) % q
    PROVE  /\ (u + d) % q \in 0 .. q - 1
           /\ (((u + d) % q) - a) % q = ((u - a) % q) + d
           /\ (h - ((u + d) % q)) % q = ((h - u) % q) - d
  <1>0. /\ q \in Nat \ {0} /\ a \in 0 .. q - 1 /\ u \in 0 .. q - 1 /\ h \in 0 .. q - 1
        /\ ((u - a) % q) + ((h - u) % q) = (h - a) % q
    BY DEF Ring
  <1>1. /\ (h - u) % q = (IF h >= u THEN h - u ELSE h - u + q)
        /\ (u - a) % q = (IF u >= a THEN u - a ELSE u - a + q)
        /\ (h - a) % q = (IF h >= a THEN h - a ELSE h - a + q)
    BY <1>0, Distance
  <1>2. d < q
    BY <1>0, <1>1
  <1>3. (u + d) % q = IF u + d < q THEN u + d ELSE u + d - q
    BY <1>0, <1>2, Forward
  <1>4. (u + d) % q \in 0 .. q - 1
    BY <1>0, <1>2, <1>3
  <1> DEFINE v == (u + d) % q
  <1>5. /\ (v - a) % q = (IF v >= a THEN v - a ELSE v - a + q)
        /\ (h - v) % q = (IF h >= v THEN h - v ELSE h - v + q)
    BY <1>0, <1>4, Distance
  <1> HIDE DEF v
  <1>6. v = IF u + d < q THEN u + d ELSE u + d - q
    BY <1>3 DEF v
  <1>7. (v - a) % q = ((u - a) % q) + d
    BY <1>0, <1>1, <1>2, <1>5, <1>6
  <1>8. (h - v) % q = ((h - u) % q) - d
    BY <1>0, <1>1, <1>2, <1>5, <1>6
  <1>9. QED
    BY <1>0, <1>4, <1>7, <1>8 DEF v

LEMMA SendLengths ==
    ASSUME NEW s, NEW flags, TxTypes(s)
    PROVE  /\ DataLen(s, flags) \in Nat /\ DataLen(s, flags) <= Unsent(s)
           /\ Control(flags) => DataLen(s, flags) = 0
           /\ SendsFin(s, flags) =>
                 DataLen(s, flags) = Unsent(s) /\ ~Control(flags) /\ FinDue(s, flags)
  <1> DEFINE e == EffectiveWindow(s)
             n == Pending(s, flags)
             d == DataLen(s, flags)
  <1>1. Unsent(s) \in Nat /\ Outstanding(s) \in Nat /\ MSS \in Nat /\ s.remoteWindow \in Int
    BY TxRange, RingFacts DEF TxTypes
  <1>2. e \in Nat
    BY <1>1 DEF EffectiveWindow, Word
  <1>3. n \in Nat /\ n <= Unsent(s) /\ (Control(flags) => n = 0) /\ (~Control(flags) => n = Unsent(s))
    BY <1>1 DEF Pending
  <1> HIDE DEF e, n
  <1>4. d = Least(Least(n, e), MSS)
    BY DEF DataLen, Fitting, e, n
  <1>5. d \in Nat /\ d <= n /\ (d = n \/ d = e \/ d = MSS)
    BY <1>1, <1>2, <1>3, <1>4 DEF Least
  <1>6. SendsFin(s, flags) => ~Control(flags) /\ FinDue(s, flags) /\ d = n
    <2>1. SendsFin(s, flags) => ~Control(flags) /\ FinDue(s, flags) /\ (n = 0 \/ (d # e /\ d # MSS))
      BY DEF SendsFin, e, n
    <2>2. n = 0 => d = n
      BY <1>3, <1>5
    <2>3. QED
      BY <1>5, <2>1, <2>2
  <1>7. QED
    BY <1>1, <1>3, <1>5, <1>6

LEMMA SendEffect ==
    ASSUME NEW s, NEW flags, NEW how, Socket(s)
    PROVE  LET t == SendTCP(s, flags, how)
           IN /\ Socket(t) /\ t.smState = s.smState
              /\ t.txHead = s.txHead /\ t.txTail = s.txTail /\ t.tx = s.tx
              /\ t.txUnackedTail = (s.txUnackedTail + DataLen(s, flags)) % T
              /\ t.MySEQ = s.MySEQ + DataLen(s, flags) + (IF Turns(s, flags) THEN 1 ELSE 0)
              /\ t.remoteWindow = s.remoteWindow
              /\ t.bTXFIN = FinDue(s, flags)
              /\ t.bSYNSent = (s.bSYNSent \/ "SYN" \in flags)
              /\ t.bFINSent = (s.bFINSent \/ SendsFin(s, flags))
              /\ t.bTimerEnabled = (s.bTimerEnabled \/ Counts(s, flags))
              /\ t.out = Append(s.out, Segment(s, flags, how))
  BY DEF SendTCP, Socket, Closed

LEMMA BytesShape ==
    ASSUME NEW s, NEW len \in Nat
    PROVE  /\ DOMAIN Bytes(s, len) = 1 .. len /\ Len(Bytes(s, len)) = len
           /\ \A k \in 1 .. len : Bytes(s, len)[k] = s.tx[(s.txUnackedTail + k - 1) % T]
  BY DEF Bytes

\* What a call of SendTCP does to the ring.
LEMMA SendRing ==
    ASSUME NEW s, NEW flags, NEW how, Socket(s), TxTypes(s), TxOrder(s)
    PROVE  LET t == SendTCP(s, flags, how)
           IN /\ TxTypes(t) /\ TxOrder(t) /\ Held(t) = Held(s)
              /\ Outstanding(t) = Outstanding(s) + DataLen(s, flags)
              /\ Unsent(t) = Unsent(s) - DataLen(s, flags)
              /\ t.MySEQ = s.MySEQ + DataLen(s, flags) + (IF Turns(s, flags) THEN 1 ELSE 0)
  <1> DEFINE t == SendTCP(s, flags, how)
             d == DataLen(s, flags)
             c == Counts(s, flags)
             x == IF Turns(s, flags) THEN 1 ELSE 0
  <1>1. /\ d \in Nat /\ d <= Unsent(s) /\ x \in Int
        /\ Outstanding(s) \in Nat /\ Unsent(s) \in Nat
    BY SendLengths, TxRange
  <1>2. c \in BOOLEAN /\ (~c => d = 0)
    <2>1. c \in BOOLEAN
      BY DEF Counts
    <2>2. ~c => ~(d > 0)
      BY DEF Counts
    <2>3. QED
      BY <1>1, <2>1, <2>2
  <1>3. FinDue(s, flags) \in BOOLEAN /\ SendsFin(s, flags) \in BOOLEAN
        /\ ("SYN" \in flags) \in BOOLEAN
    BY DEF FinDue, SendsFin, Control
  <1>4. /\ t.smState = s.smState
        /\ t.txHead = s.txHead /\ t.txTail = s.txTail /\ t.tx = s.tx
        /\ t.txUnackedTail = (s.txUnackedTail + d) % T
        /\ t.MySEQ = s.MySEQ + d + x
        /\ t.remoteWindow = s.remoteWindow
        /\ t.bTXFIN = FinDue(s, flags)
        /\ t.bSYNSent = (s.bSYNSent \/ "SYN" \in flags)
        /\ t.bFINSent = (s.bFINSent \/ SendsFin(s, flags))
        /\ t.bTimerEnabled = (s.bTimerEnabled \/ c)
    BY SendEffect
  <1> HIDE DEF t, d, c, x
  <1>5. Ring(T, s.txTail, s.txUnackedTail, s.txHead)
    BY TxRing
  <1>6. d \in Nat /\ d <= (s.txHead - s.txUnackedTail) % T
    BY <1>1 DEF Unsent
  <1>7. /\ (s.txUnackedTail + d) % T \in 0 .. T - 1
        /\ (((s.txUnackedTail + d) % T) - s.txTail) % T = ((s.txUnackedTail - s.txTail) % T) + d
        /\ (s.txHead - ((s.txUnackedTail + d) % T)) % T = ((s.txHead - s.txUnackedTail) % T) - d
    BY <1>5, <1>6, UnackedMoves
  <1>8. Outstanding(t) = Outstanding(s) + d /\ Unsent(t) = Unsent(s) - d /\ Held(t) = Held(s)
    BY <1>4, <1>7 DEF Outstanding, Unsent, Held
  <1>9. TxTypes(t)
    <2>1. s.MySEQ + d + x \in Int
      BY <1>1 DEF TxTypes
    <2>2. QED
      BY <1>2, <1>3, <1>4, <1>7, <2>1 DEF TxTypes
  <1>10. TxOrder(t)
    <2>1. Outstanding(t) + Unsent(t) = Held(t)
      BY <1>1, <1>8 DEF TxOrder
    <2>2. ~t.bTimerEnabled => Outstanding(t) = 0
      <3> SUFFICES ASSUME ~t.bTimerEnabled PROVE Outstanding(t) = 0
        OBVIOUS
      <3>1. ~s.bTimerEnabled /\ ~c
        BY <1>4
      <3>2. Outstanding(s) = 0 /\ d = 0
        BY <1>2, <3>1 DEF TxOrder
      <3>3. QED
        BY <1>8, <3>2
    <2>3. QED
      BY <2>1, <2>2 DEF TxOrder
  <1>11. QED
    BY <1>4, <1>8, <1>9, <1>10 DEF t, d, x

\* Without a FIN the peer has something in flight at the place it belongs to:
\* byte number MySEQ - 1 is the next one.
LEMMA BytesPlaced ==
    ASSUME NEW s, NEW w, NEW r, TxTypes(s), TxOrder(s), Exact(s, w, r),
           NEW len \in Nat, len <= Unsent(s), NEW k \in 1 .. len
    PROVE  Bytes(s, len)[k] = s.MySEQ + k - 2
  <1> DEFINE j == k - 1
             p == (s.txUnackedTail + j) % T
  <1>1. /\ Outstanding(s) \in Nat /\ Unsent(s) \in Nat /\ Una(s) \in Int /\ s.MySEQ \in Int
        /\ Outstanding(s) + Unsent(s) = Held(s) /\ Una(s) = s.MySEQ - Outstanding(s)
    BY TxRange DEF TxTypes, TxOrder, Una
  <1>2. j \in Nat /\ j < Unsent(s) /\ j <= Unsent(s) /\ s.txUnackedTail + k - 1 = s.txUnackedTail + j
    BY <1>1, RingFacts DEF TxTypes
  <1> HIDE DEF j
  <1>3. p \in 0 .. T - 1 /\ Off(s, p) = Outstanding(s) + j
    <2>1. Ring(T, s.txTail, s.txUnackedTail, s.txHead)
      BY TxRing
    <2>2. j \in Nat /\ j <= (s.txHead - s.txUnackedTail) % T
      BY <1>2 DEF Unsent
    <2>3. /\ (s.txUnackedTail + j) % T \in 0 .. T - 1
          /\ (((s.txUnackedTail + j) % T) - s.txTail) % T = ((s.txUnackedTail - s.txTail) % T) + j
      BY <2>1, <2>2, UnackedMoves
    <2>4. QED
      BY <2>3 DEF Off, Outstanding
  <1>4. Off(s, p) < Held(s)
    BY <1>1, <1>2, <1>3
  <1>5. s.tx[p] = Una(s) - 1 + Off(s, p)
    BY <1>3, <1>4 DEF Exact
  <1>6. Bytes(s, len)[k] = s.tx[p]
    BY <1>2, BytesShape
  <1>7. (s.MySEQ - Outstanding(s)) - 1 + (Outstanding(s) + j) = s.MySEQ + k - 2
    BY <1>1, <1>2 DEF j
  <1>8. QED
    BY <1>1, <1>3, <1>5, <1>6, <1>7

LEMMA SentMore ==
    ASSUME NEW s, NEW t, NEW m, NEW r, NEW b,
           Sent(s, r, b), t.out = Append(s.out, m), Sound(m, r, b)
    PROVE  Sent(t, r, b)
  <1>1. PICK S : s.out \in Seq(S) /\ \A e \in S : Sound(e, r, b)
    BY DEF Sent
  <1>2. t.out \in Seq(S \cup {m})
    <2>1. s.out \in Seq(S \cup {m})
      BY <1>1
    <2>2. QED
      BY <2>1, AppendProperties
  <1>3. QED
    BY <1>1, <1>2 DEF Sent

\* A segment that SendTCP makes is sound.  A keep-alive repeats a byte that has
\* been acknowledged.
LEMMA SegmentSound ==
    ASSUME NEW s, NEW w, NEW r \in Int, NEW b, NEW flags, NEW how, TxCore(s, w, r, b),
           how = KEEP_ALIVE => flags = {"ACK"} /\ ~s.bTXFIN /\ s.MySEQ <= r
    PROVE  Sound(Segment(s, flags, how), r, b)
  <1> DEFINE m == Segment(s, flags, how)
             d == DataLen(s, flags)
             x == IF Probes(s, flags, how) THEN 1 ELSE 0
             y == IF Repeats(s, flags) THEN 1 ELSE 0
  <1>1. /\ m.seq = s.MySEQ - x - y
        /\ m.data = IF Probes(s, flags, how) THEN <<-1>> ELSE Bytes(s, d)
    BY DEF Segment
  <1>2. s.MySEQ \in Int /\ TxTypes(s) /\ TxOrder(s)
    BY DEF TxCore, TxTypes
  <1>3. d \in Nat /\ d <= Unsent(s) /\ (Control(flags) => d = 0) /\ Unsent(s) \in Nat
    BY <1>2, SendLengths, TxRange
  <1>4. m.seq \in Int
    <2>1. x \in Int /\ y \in Int
      OBVIOUS
    <2> HIDE DEF x, y, m
    <2>2. QED
      BY <1>1, <1>2, <2>1
  <1>5. CASE Probes(s, flags, how)
    <2>1. how = KEEP_ALIVE
      BY <1>5 DEF Probes
    <2>2. flags = {"ACK"} /\ ~s.bTXFIN /\ s.MySEQ <= r
      BY <2>1
    <2>3. ~Repeats(s, flags)
      BY <2>2 DEF Repeats, SendsFin, FinDue
    <2>4. x = 1 /\ y = 0 /\ m.data = <<-1>>
      BY <1>1, <1>5, <2>3
    <2> HIDE DEF m, x, y
    <2>5. m.seq = s.MySEQ - 1 - 0
      BY <1>1, <2>4
    <2>6. Placed(m, r)
      <3> SUFFICES ASSUME NEW k \in DOMAIN m.data PROVE m.seq + k - 1 < r
        BY DEF Placed
      <3>1. k = 1
        BY <2>4
      <3>2. QED
        BY <1>2, <2>2, <2>5, <3>1
    <2>7. QED
      BY <1>4, <2>4, <2>6 DEF Sound, m
  <1>6. CASE ~Probes(s, flags, how)
    <2>1. x = 0 /\ m.data = Bytes(s, d)
      BY <1>1, <1>6
    <2>2. Len(m.data) = d /\ DOMAIN m.data = 1 .. d
      BY <1>3, <2>1, BytesShape
    <2>3. b \/ Placed(m, r)
      <3> SUFFICES ASSUME ~b, NEW k \in 1 .. d PROVE m.data[k] = m.seq + k - 2
        BY <2>2 DEF Placed
      <3>1. d > 0 /\ Unsent(s) # 0
        BY <1>3
      <3>2. ~Control(flags) /\ ~s.bFINSent
        BY <1>3, <3>1 DEF TxCore
      <3>3. y = 0
        BY <3>2 DEF Repeats, Control
      <3>4. Exact(s, w, r)
        <4>1. Held(s) # 0
          BY <1>2, <1>3, <3>1, TxRange DEF TxOrder
        <4>2. QED
          BY <3>2, <4>1 DEF TxCore
      <3>5. m.data[k] = s.MySEQ + k - 2
        BY <1>2, <1>3, <2>1, <3>4, BytesPlaced
      <3> HIDE DEF m, x, y, d
      <3>6. m.seq = s.MySEQ - 0 - 0
        BY <1>1, <2>1, <3>3
      <3>7. m.seq = s.MySEQ
        BY <1>2, <3>6
      <3>8. QED
        BY <3>5, <3>7
    <2>4. QED
      BY <1>3, <1>4, <2>2, <2>3 DEF Sound
  <1>7. QED
    BY <1>5, <1>6

LEMMA SameHeld ==
    ASSUME NEW s, NEW t, NEW w, NEW r, NEW b, Socket(t), SameTx(s, t), TxHeld(s, w, r, b)
    PROVE  TxHeld(t, w, r, b) /\ (Exact(s, w, r) => Exact(t, w, r))
  <1>1. /\ Outstanding(t) = Outstanding(s) /\ Unsent(t) = Unsent(s) /\ Held(t) = Held(s)
        /\ \A p : Off(t, p) = Off(s, p)
    BY DEF SameTx, Outstanding, Unsent, Held, Off
  <1>2. Una(t) = Una(s)
    BY <1>1 DEF SameTx, Una
  <1>3. TxTypes(t) /\ TxOrder(t)
    BY <1>1 DEF SameTx, TxHeld, TxCore, TxTypes, TxOrder
  <1>4. Exact(s, w, r) => Exact(t, w, r)
    BY <1>1, <1>2 DEF SameTx, Exact
  <1>5. TxCore(t, w, r, b)
    BY <1>1, <1>3, <1>4 DEF SameTx, TxHeld, TxCore
  <1>6. Sent(t, r, b)
    BY DEF SameTx, TxHeld, Sent
  <1>7. QED
    BY <1>4, <1>5, <1>6 DEF TxHeld

\* A state that only changes among those that promise nothing, or from one
\* state of an open connection to another.
LEMMA SameInv ==
    ASSUME NEW s, NEW t, NEW w, NEW r, NEW b, Socket(t), SameTx(s, t), TxInv(s, w, r, b),
           \/ t.smState = s.smState
           \/ t.smState \notin Sending \cup {"LISTEN"}
           \/ s.smState \in Sending /\ t.smState \in Sending \ {"SYN_RECEIVED"}
    PROVE  TxInv(t, w, r, b)
  <1>1. TxHeld(t, w, r, b) /\ (Exact(s, w, r) => Exact(t, w, r))
    BY SameHeld DEF TxInv
  <1>2. Held(t) = Held(s)
    BY DEF SameTx, Held
  <1>3. TxState(t, w, r)
    BY <1>1, <1>2 DEF TxInv, TxState, SameTx, Fresh, Sending
  <1>4. QED
    BY <1>1, <1>3 DEF TxInv

\* SendTCP, but for the first SYN.
LEMMA SendHeld ==
    ASSUME NEW s, NEW w, NEW r \in Int, NEW b, NEW flags, NEW how, TxHeld(s, w, r, b),
           "SYN" \in flags => s.bSYNSent,
           how = KEEP_ALIVE => flags = {"ACK"} /\ ~s.bTXFIN /\ s.MySEQ <= r
    PROVE  LET t == SendTCP(s, flags, how)
           IN /\ TxHeld(t, w, r, b)
              /\ Exact(s, w, r) /\ ~t.bFINSent => Exact(t, w, r)
  <1> DEFINE t == SendTCP(s, flags, how)
             d == DataLen(s, flags)
             m == Segment(s, flags, how)
  <1>1. Socket(s) /\ TxTypes(s) /\ TxOrder(s) /\ TxCore(s, w, r, b) /\ Sent(s, r, b)
    BY DEF TxHeld, TxCore
  <1>2. /\ TxTypes(t) /\ TxOrder(t) /\ Held(t) = Held(s)
        /\ Outstanding(t) = Outstanding(s) + d /\ Unsent(t) = Unsent(s) - d
        /\ t.MySEQ = s.MySEQ + d + (IF Turns(s, flags) THEN 1 ELSE 0)
    BY <1>1, SendRing
  <1>3. /\ Socket(t) /\ t.txTail = s.txTail /\ t.tx = s.tx /\ t.out = Append(s.out, m)
        /\ t.bFINSent = (s.bFINSent \/ SendsFin(s, flags))
    BY <1>1, SendEffect
  <1>4. /\ d \in Nat /\ d <= Unsent(s) /\ (SendsFin(s, flags) => d = Unsent(s))
        /\ Unsent(s) \in Nat /\ Outstanding(s) \in Nat /\ s.MySEQ \in Int
    BY <1>1, SendLengths, TxRange DEF TxTypes
  <1> HIDE DEF t, d, m
  <1>5. Sent(t, r, b)
    <2>1. Sound(m, r, b)
      BY <1>1, SegmentSound DEF m
    <2>2. QED
      BY <1>1, <1>3, <2>1, SentMore
  <1>6. t.bFINSent => b \/ Unsent(t) = 0
    <2> SUFFICES ASSUME t.bFINSent, ~b PROVE Unsent(t) = 0
      OBVIOUS
    <2>1. CASE SendsFin(s, flags)
      BY <1>2, <1>4, <2>1
    <2>2. CASE ~SendsFin(s, flags)
      <3>1. Unsent(s) = 0
        BY <1>1, <1>3, <2>2 DEF TxCore
      <3>2. QED
        BY <1>2, <1>4, <3>1
    <2>3. QED
      BY <2>1, <2>2
  <1>7. Exact(s, w, r) /\ ~t.bFINSent => Exact(t, w, r)
    <2> SUFFICES ASSUME Exact(s, w, r), ~t.bFINSent PROVE Exact(t, w, r)
      OBVIOUS
    <2>1. ~Turns(s, flags)
      BY <1>3 DEF Turns
    <2>2. t.MySEQ = s.MySEQ + d + 0
      BY <1>2, <2>1
    <2>3. Una(t) = Una(s)
      BY <1>2, <1>4, <2>2 DEF Una
    <2>4. \A p : Off(t, p) = Off(s, p)
      BY <1>3 DEF Off
    <2>5. QED
      BY <1>2, <1>3, <2>3, <2>4 DEF Exact
  <1>8. t.bFINSent \/ Held(t) = 0 \/ Exact(t, w, r)
    BY <1>1, <1>2, <1>3, <1>7 DEF TxCore
  <1>9. TxCore(t, w, r, b)
    BY <1>2, <1>3, <1>6, <1>8 DEF TxCore
  <1>10. QED
    BY <1>5, <1>7, <1>9 DEF TxHeld, t

\* SendTCP without a FIN, in any state.
LEMMA SendKeeps ==
    ASSUME NEW s, NEW w, NEW r \in Int, NEW b, NEW flags, NEW how, TxInv(s, w, r, b),
           "FIN" \notin flags, "SYN" \in flags => s.bSYNSent,
           how = KEEP_ALIVE => flags = {"ACK"} /\ ~s.bTXFIN /\ s.MySEQ <= r
    PROVE  TxInv(SendTCP(s, flags, how), w, r, b)
  <1> DEFINE t == SendTCP(s, flags, how)
  <1>1. TxHeld(t, w, r, b) /\ (Exact(s, w, r) /\ ~t.bFINSent => Exact(t, w, r))
    BY SendHeld DEF TxInv
  <1>2. Socket(s) /\ TxTypes(s) /\ TxOrder(s)
    BY DEF TxInv, TxHeld, TxCore
  <1>3. /\ t.smState = s.smState /\ t.bTXFIN = FinDue(s, flags)
        /\ t.bSYNSent = (s.bSYNSent \/ "SYN" \in flags)
        /\ t.bFINSent = (s.bFINSent \/ SendsFin(s, flags))
        /\ t.bTimerEnabled = (s.bTimerEnabled \/ Counts(s, flags))
    BY <1>2, SendEffect
  <1>4. ~s.bTXFIN => ~FinDue(s, flags) /\ ~SendsFin(s, flags)
    BY DEF SendsFin, FinDue
  <1>5. s.smState \in Sending => ~t.bTXFIN /\ ~t.bFINSent /\ Exact(t, w, r)
    BY <1>1, <1>3, <1>4 DEF TxInv, TxState
  <1>6. s.smState = "LISTEN" => Fresh(t)
    <2> SUFFICES ASSUME s.smState = "LISTEN" PROVE Fresh(t)
      OBVIOUS
    <2>1. Fresh(s)
      BY DEF TxInv, TxState
    <2>2. "SYN" \notin flags /\ ~SendsFin(s, flags) /\ ~FinDue(s, flags)
      BY <1>4, <2>1 DEF Fresh
    <2>3. DataLen(s, flags) = 0
      <3>1. Unsent(s) = 0
        BY <1>2, <2>1, TxRange DEF Fresh, TxOrder
      <3>2. QED
        BY <1>2, <3>1, SendLengths
    <2>4. ~Turns(s, flags) /\ ~Counts(s, flags)
      <3>1. HeaderFlags(s, flags) \cap {"SYN", "FIN"} = {}
        BY <2>2 DEF HeaderFlags
      <3>2. QED
        BY <2>2, <2>3, <3>1 DEF Turns, Counts
    <2>5. Held(t) = Held(s) /\ t.MySEQ = 0
      <3>1. Held(t) = Held(s)
            /\ t.MySEQ = s.MySEQ + DataLen(s, flags) + (IF Turns(s, flags) THEN 1 ELSE 0)
        BY <1>2, SendRing
      <3>2. t.MySEQ = 0 + 0 + 0
        BY <2>1, <2>3, <2>4, <3>1 DEF Fresh
      <3>3. QED
        BY <3>1, <3>2
    <2>6. QED
      BY <1>3, <2>1, <2>2, <2>4, <2>5 DEF Fresh
  <1> HIDE DEF t
  <1>7. TxState(t, w, r)
    BY <1>3, <1>5, <1>6 DEF TxInv, TxState
  <1>8. QED
    BY <1>1, <1>7 DEF TxInv, t

\* A control segment carries nothing and leaves the ring alone, whatever its
\* sequence number.
LEMMA ControlSent ==
    ASSUME NEW s, NEW r, NEW b, NEW flags, NEW how, Socket(s), TxTypes(s), Sent(s, r, b),
           Control(flags), how # KEEP_ALIVE
    PROVE  Sent(SendTCP(s, flags, how), r, b)
  <1> DEFINE m == Segment(s, flags, how)
             y == IF Repeats(s, flags) THEN 1 ELSE 0
             x == IF Probes(s, flags, how) THEN 1 ELSE 0
  <1>1. DataLen(s, flags) = 0 /\ ~Probes(s, flags, how)
    BY SendLengths DEF Probes
  <1>2. m.seq = s.MySEQ - x - y /\ m.data = Bytes(s, 0)
    BY <1>1 DEF Segment
  <1>3. x \in Int /\ y \in Int /\ s.MySEQ \in Int
    BY DEF TxTypes
  <1> HIDE DEF x, y, m
  <1>4. m.seq \in Int /\ Len(m.data) = 0 /\ DOMAIN m.data = {}
    <2>1. m.seq \in Int
      BY <1>2, <1>3
    <2>2. Len(m.data) = 0 /\ DOMAIN m.data = 1 .. 0
      BY <1>2, BytesShape
    <2>3. QED
      BY <2>1, <2>2
  <1>5. Sound(m, r, b)
    BY <1>4 DEF Sound, Placed
  <1>6. SendTCP(s, flags, how).out = Append(s.out, m)
    BY SendEffect DEF m
  <1>7. QED
    BY <1>5, <1>6, SentMore

LEMMA CloseKeeps ==
    ASSUME NEW s, NEW w, NEW r, NEW b, Sent(s, r, b)
    PROVE  TxInv(CloseSocket(s), w, r, b)
  <1> DEFINE t == CloseSocket(s)
  <1>1. /\ Socket(t) /\ t.smState = "LISTEN" /\ t.txHead = 0 /\ t.txTail = 0
        /\ t.txUnackedTail = 0 /\ t.tx = [p \in 0 .. T - 1 |-> -1]
        /\ t.MySEQ = 0 /\ t.remoteWindow = 1 /\ t.out = s.out
        /\ ~t.bFINSent /\ ~t.bTXFIN /\ ~t.bSYNSent /\ ~t.bTimerEnabled
        /\ t.bFINSent = FALSE /\ t.bTXFIN = FALSE /\ t.bSYNSent = FALSE /\ t.bTimerEnabled = FALSE
    BY DEF CloseSocket, Closed, Socket
  <1> HIDE DEF t
  <1>2. Held(t) = 0 /\ Outstanding(t) = 0 /\ Unsent(t) = 0
    BY <1>1, RingFacts DEF Held, Outstanding, Unsent
  <1>3. TxTypes(t) /\ TxOrder(t)
    <2>1. 0 \in 0 .. T - 1
      BY RingFacts
    <2>2. DOMAIN t.tx = 0 .. T - 1
      BY <1>1
    <2>3. TxTypes(t)
      <3>1. /\ t.bFINSent \in BOOLEAN /\ t.bTXFIN \in BOOLEAN
            /\ t.bSYNSent \in BOOLEAN /\ t.bTimerEnabled \in BOOLEAN
        BY <1>1
      <3>2. t.txHead \in 0 .. T - 1 /\ t.txTail \in 0 .. T - 1 /\ t.txUnackedTail \in 0 .. T - 1
        BY <1>1, <2>1
      <3>3. t.MySEQ \in Int /\ t.remoteWindow \in Int
        BY <1>1
      <3>4. QED
        BY <2>2, <3>1, <3>2, <3>3 DEF TxTypes
    <2>4. TxOrder(t)
      BY <1>2 DEF TxOrder
    <2>5. QED
      BY <2>3, <2>4
  <1>4. Sent(t, r, b)
    BY <1>1 DEF Sent
  <1>5. QED
    BY <1>1, <1>2, <1>3, <1>4 DEF TxInv, TxHeld, TxCore, TxState, Fresh, Sending, t

\* The connection is torn down with a RST.
LEMMA ResetKeeps ==
    ASSUME NEW s, NEW w, NEW r, NEW b, NEW flags, NEW how, Socket(s), TxTypes(s), Sent(s, r, b),
           "RST" \in flags, how # KEEP_ALIVE
    PROVE  TxInv(CloseSocket(SendTCP(s, flags, how)), w, r, b)
  <1>1. Control(flags)
    BY DEF Control
  <1>2. Sent(SendTCP(s, flags, how), r, b)
    BY <1>1, ControlSent
  <1>3. QED
    BY <1>2, CloseKeeps

-----------------------------------------------------------------------------
(* What is acknowledged *)

\* The tail goes n slots on and takes the unacknowledged part with it.
LEMMA TailAdvances ==
    ASSUME NEW q, NEW a, NEW u, NEW h, Ring(q, a, u, h), NEW n \in Nat, n <= (h - a) % q,
           NEW p \in 0 .. q - 1
    PROVE  LET v == (a + n) % q
           IN /\ v \in 0 .. q - 1
              /\ (h - v) % q = ((h - a) % q) - n
              /\ n <= (u - a) % q => (u - v) % q = ((u - a) % q) - n
              /\ (p - v) % q = IF (p - a) % q >= n THEN ((p - a) % q) - n
                               ELSE ((p - a) % q) - n + q
  <1> DEFINE v == (a + n) % q
  <1>0. /\ q \in Nat \ {0} /\ a \in 0 .. q - 1 /\ u \in 0 .. q - 1 /\ h \in 0 .. q - 1
    BY DEF Ring
  <1>1. /\ (h - a) % q = (IF h >= a THEN h - a ELSE h - a + q)
        /\ (u - a) % q = (IF u >= a THEN u - a ELSE u - a + q)
        /\ (p - a) % q = (IF p >= a THEN p - a ELSE p - a + q)
    BY <1>0, Distance
  <1>2. n < q
    BY <1>0, <1>1
  <1>3. v = IF a + n < q THEN a + n ELSE a + n - q
    BY <1>0, <1>2, Forward
  <1> HIDE DEF v
  <1>4. v \in 0 .. q - 1
    BY <1>0, <1>2, <1>3
  <1>5. /\ (h - v) % q = (IF h >= v THEN h - v ELSE h - v + q)
        /\ (u - v) % q = (IF u >= v THEN u - v ELSE u - v + q)
        /\ (p - v) % q = (IF p >= v THEN p - v ELSE p - v + q)
    BY <1>0, <1>4, Distance
  <1>6. (h - v) % q = ((h - a) % q) - n
    BY <1>0, <1>1, <1>2, <1>3, <1>5
  <1>7. n <= (u - a) % q => (u - v) % q = ((u - a) % q) - n
    BY <1>0, <1>1, <1>2, <1>3, <1>5
  <1>8. (p - v) % q = IF (p - a) % q >= n THEN ((p - a) % q) - n ELSE ((p - a) % q) - n + q
    BY <1>0, <1>1, <1>2, <1>3, <1>5
  <1>9. QED
    BY <1>4, <1>6, <1>7, <1>8 DEF v

\* The flag of the FIN is the one the step began with (b), and what is
\* acknowledged anew has been put into the ring.
LEMMA AdvanceKeeps ==
    ASSUME NEW s, NEW w, NEW r \in Int, NEW b, TxInv(s, w, r, b), s.bFINSent => b,
           s.smState # "LISTEN",
           NEW acked \in Nat, acked > 0, acked <= Held(s), Una(s) + acked <= r
    PROVE  TxInv(Advance(s, acked), w, r, b)
  <1> DEFINE t == Advance(s, acked)
             v == (s.txTail + acked) % T
             beyond == acked - Outstanding(s)
  <1>1. Socket(s) /\ TxTypes(s) /\ TxOrder(s) /\ TxCore(s, w, r, b) /\ Sent(s, r, b)
    BY DEF TxInv, TxHeld, TxCore
  <1>2. /\ Outstanding(s) \in Nat /\ Unsent(s) \in Nat /\ Held(s) \in Nat /\ Held(s) < T
        /\ Outstanding(s) + Unsent(s) = Held(s) /\ s.MySEQ \in Int /\ T \in Nat \ {0}
        /\ Una(s) = s.MySEQ - Outstanding(s)
    BY <1>1, TxRange, RingFacts DEF TxTypes, TxOrder, Una
  <1>3. Ring(T, s.txTail, s.txUnackedTail, s.txHead) /\ acked <= (s.txHead - s.txTail) % T
    BY <1>1, TxRing DEF Held
  <1>4. \A p \in 0 .. T - 1 :
           /\ v \in 0 .. T - 1
           /\ (s.txHead - v) % T = ((s.txHead - s.txTail) % T) - acked
           /\ acked <= (s.txUnackedTail - s.txTail) % T
                 => (s.txUnackedTail - v) % T = ((s.txUnackedTail - s.txTail) % T) - acked
           /\ (p - v) % T = IF (p - s.txTail) % T >= acked THEN ((p - s.txTail) % T) - acked
                            ELSE ((p - s.txTail) % T) - acked + T
    BY <1>3, TailAdvances
  <1>5. /\ Socket(t) /\ t.smState = s.smState /\ t.tx = s.tx /\ t.out = s.out
        /\ t.txHead = s.txHead /\ t.txTail = v
        /\ t.txUnackedTail = (IF beyond > 0 THEN v ELSE s.txUnackedTail)
        /\ t.MySEQ = (IF beyond > 0 THEN s.MySEQ + beyond ELSE s.MySEQ)
        /\ t.remoteWindow = s.remoteWindow /\ t.bFINSent = s.bFINSent
        /\ t.bTXFIN = s.bTXFIN /\ t.bSYNSent = s.bSYNSent /\ t.bTimerEnabled = s.bTimerEnabled
    BY <1>1 DEF Advance, Socket, Closed
  <1> HIDE DEF t, v
  <1>6. 0 \in 0 .. T - 1
    BY <1>2
  <1>7. v \in 0 .. T - 1 /\ Held(t) = Held(s) - acked
    BY <1>4, <1>5, <1>6 DEF Held
  <1>8. /\ Outstanding(t) = IF beyond > 0 THEN 0 ELSE Outstanding(s) - acked
        /\ Unsent(t) = IF beyond > 0 THEN Held(t) ELSE Unsent(s)
        /\ Una(t) = Una(s) + acked
    <2>1. CASE beyond > 0
      <3>1. v - v = 0
        BY <1>7
      <3>2. Outstanding(t) = 0
        BY <1>2, <1>5, <2>1, <3>1 DEF Outstanding
      <3>3. Unsent(t) = Held(t)
        BY <1>5, <2>1 DEF Unsent, Held
      <3>4. t.MySEQ = s.MySEQ + (acked - Outstanding(s))
        BY <1>5, <2>1
      <3>5. Una(t) = Una(s) + acked
        BY <1>2, <3>2, <3>4 DEF Una
      <3>6. QED
        BY <2>1, <3>2, <3>3, <3>5
    <2>2. CASE ~(beyond > 0)
      <3>1. acked <= (s.txUnackedTail - s.txTail) % T
        BY <1>2, <2>2 DEF Outstanding
      <3>2. Outstanding(t) = Outstanding(s) - acked
        BY <1>4, <1>5, <1>6, <2>2, <3>1 DEF Outstanding
      <3>3. Unsent(t) = Unsent(s)
        BY <1>5, <2>2 DEF Unsent
      <3>4. t.MySEQ = s.MySEQ
        BY <1>5, <2>2
      <3>5. Una(t) = Una(s) + acked
        BY <1>2, <3>2, <3>4 DEF Una
      <3>6. QED
        BY <2>2, <3>2, <3>3, <3>5
    <2>3. QED
      BY <2>1, <2>2
  <1>9. TxTypes(t)
    <2>1. t.MySEQ \in Int
      BY <1>2, <1>5
    <2>2. QED
      BY <1>1, <1>5, <1>7, <2>1 DEF TxTypes
  <1>10. TxOrder(t)
    <2>1. Outstanding(t) + Unsent(t) = Held(t)
      BY <1>2, <1>7, <1>8
    <2>2. ~s.bTimerEnabled => Outstanding(t) = 0
      <3>1. ~s.bTimerEnabled => Outstanding(s) = 0
        BY <1>1 DEF TxOrder
      <3>2. QED
        BY <1>8, <3>1
    <2>3. QED
      BY <1>5, <2>1, <2>2 DEF TxOrder
  <1>11. Exact(s, w, r) => Exact(t, w, r)
    <2> SUFFICES ASSUME Exact(s, w, r) PROVE Exact(t, w, r)
      OBVIOUS
    <2>1. w = Una(t) - 1 + Held(t)
      <3>1. w = Una(s) - 1 + Held(s)
        BY DEF Exact
      <3>2. QED
        BY <1>2, <1>7, <1>8, <3>1
    <2>2. ASSUME NEW p \in 0 .. T - 1, Off(t, p) < Held(t)
          PROVE  t.tx[p] = Una(t) - 1 + Off(t, p)
      <3>1. Off(s, p) \in Nat /\ Off(s, p) < T
        BY <1>1, OffRange
      <3>2. Off(t, p) = IF Off(s, p) >= acked THEN Off(s, p) - acked ELSE Off(s, p) - acked + T
        BY <1>4, <1>5 DEF Off
      <3>3. Off(s, p) >= acked
        BY <1>2, <1>7, <2>2, <3>1, <3>2
      <3>4. Off(s, p) < Held(s)
        BY <1>2, <1>7, <2>2, <3>1, <3>2, <3>3
      <3>5. s.tx[p] = Una(s) - 1 + Off(s, p)
        BY <3>4 DEF Exact
      <3>6. (Una(s) + acked) - 1 + (Off(s, p) - acked) = Una(s) - 1 + Off(s, p)
        BY <1>2, <3>1
      <3>7. QED
        BY <1>5, <1>8, <3>2, <3>3, <3>5, <3>6
    <2>3. QED
      BY <1>8, <2>1, <2>2 DEF Exact
  <1>12. TxCore(t, w, r, b)
    <2>1. Held(s) # 0
      BY <1>2
    <2>2. s.bFINSent \/ Exact(s, w, r)
      BY <1>1, <2>1 DEF TxCore
    <2>3. QED
      BY <1>5, <1>9, <1>10, <1>11, <2>2 DEF TxCore
  <1>13. Sent(t, r, b)
    BY <1>1, <1>5 DEF Sent
  <1>14. TxState(t, w, r)
    BY <1>5, <1>11 DEF TxInv, TxState
  <1>15. QED
    BY <1>12, <1>13, <1>14 DEF TxInv, TxHeld, t

LEMMA RollBackKeeps ==
    ASSUME NEW s, NEW w, NEW r \in Int, NEW b, TxInv(s, w, r, b), s.bFINSent => b,
           s.smState # "LISTEN"
    PROVE  TxInv(RollBack(s), w, r, b)
  <1> DEFINE t == RollBack(s)
  <1>1. Socket(s) /\ TxTypes(s) /\ TxOrder(s) /\ TxCore(s, w, r, b) /\ Sent(s, r, b)
    BY DEF TxInv, TxHeld, TxCore
  <1>2. /\ Outstanding(s) \in Nat /\ Held(s) \in Nat /\ s.MySEQ \in Int /\ T \in Nat \ {0}
        /\ Una(s) = s.MySEQ - Outstanding(s) /\ s.txTail \in Int
    BY <1>1, TxRange, RingFacts DEF TxTypes, Una
  <1>3. /\ Socket(t) /\ t.smState = s.smState /\ t.tx = s.tx /\ t.out = s.out
        /\ t.txHead = s.txHead /\ t.txTail = s.txTail /\ t.txUnackedTail = s.txTail
        /\ t.MySEQ = s.MySEQ - Outstanding(s)
        /\ t.remoteWindow = s.remoteWindow /\ t.bFINSent = s.bFINSent
        /\ t.bTXFIN = s.bTXFIN /\ t.bSYNSent = s.bSYNSent /\ t.bTimerEnabled = s.bTimerEnabled
    BY <1>1 DEF RollBack, Socket, Closed
  <1> HIDE DEF t
  <1>4. Outstanding(t) = 0
    <2>1. t.txUnackedTail - t.txTail = 0
      BY <1>2, <1>3
    <2>2. QED
      BY <1>2, <2>1 DEF Outstanding
  <1>5. Unsent(t) = Held(s) /\ Held(t) = Held(s) /\ \A p : Off(t, p) = Off(s, p)
    BY <1>3 DEF Unsent, Held, Off
  <1>6. Una(t) = Una(s)
    BY <1>2, <1>3, <1>4 DEF Una
  <1>7. TxTypes(t)
    BY <1>1, <1>2, <1>3 DEF TxTypes
  <1>8. TxOrder(t)
    BY <1>2, <1>4, <1>5 DEF TxOrder
  <1>9. Exact(s, w, r) => Exact(t, w, r)
    BY <1>3, <1>5, <1>6 DEF Exact
  <1>10. TxCore(t, w, r, b)
    BY <1>1, <1>3, <1>5, <1>7, <1>8, <1>9 DEF TxCore
  <1>11. Sent(t, r, b)
    BY <1>1, <1>3 DEF Sent
  <1>12. TxState(t, w, r)
    BY <1>3, <1>9 DEF TxInv, TxState
  <1>13. QED
    BY <1>10, <1>11, <1>12 DEF TxInv, TxHeld, t

LEMMA DuplicateKeeps ==
    ASSUME NEW s, NEW w, NEW r \in Int, NEW b, TxInv(s, w, r, b), s.bFINSent => b,
           s.smState # "LISTEN"
    PROVE  TxInv(Duplicate(s), w, r, b) /\ Duplicate(s).smState = s.smState
  <1> DEFINE q == RollBack(s)
  <1>1. Socket(s)
    BY DEF TxInv, TxHeld, TxCore
  <1>2. TxInv(q, w, r, b)
    BY RollBackKeeps
  <1>3. Socket(q) /\ q.smState = s.smState
    BY <1>1 DEF RollBack, Socket, Closed
  <1> HIDE DEF q
  <1> DEFINE u == [q EXCEPT !.bTXASAPWithoutTimerReset = TRUE]
  <1>5. Socket(u) /\ TxInv(u, w, r, b) /\ u.smState = s.smState
    <2>1. Socket(u) /\ SameTx(q, u) /\ u.smState = q.smState
      BY <1>3 DEF Socket, SameTx, Closed
    <2> HIDE DEF u
    <2>2. QED
      BY <1>2, <1>3, <2>1, SameInv
  <1> HIDE DEF u
  <1>6. CASE s.txTail = s.txUnackedTail
    BY <1>6 DEF Duplicate
  <1>7. CASE s.txTail # s.txUnackedTail /\ s.bRXNoneACKed1 /\ s.bRXNoneACKed2
    <2> DEFINE t == [u EXCEPT !.bRXNoneACKed2 = @ \/ s.bRXNoneACKed1, !.bRXNoneACKed1 = TRUE]
    <2>1. Duplicate(s) = t
      BY <1>7 DEF Duplicate, u, q
    <2>2. Socket(t) /\ SameTx(u, t) /\ t.smState = u.smState
      BY <1>5 DEF Socket, SameTx, Closed
    <2> HIDE DEF t
    <2>3. QED
      BY <1>5, <2>1, <2>2, SameInv
  <1>8. CASE s.txTail # s.txUnackedTail /\ ~(s.bRXNoneACKed1 /\ s.bRXNoneACKed2)
    <2> DEFINE t == [s EXCEPT !.bRXNoneACKed2 = @ \/ s.bRXNoneACKed1, !.bRXNoneACKed1 = TRUE]
    <2>1. Duplicate(s) = t
      BY <1>8 DEF Duplicate
    <2>2. Socket(t) /\ SameTx(s, t) /\ t.smState = s.smState
      BY <1>1 DEF Socket, SameTx, Closed
    <2> HIDE DEF t
    <2>3. QED
      BY <2>1, <2>2, SameInv
  <1>9. QED
    BY <1>6, <1>7, <1>8

LEMMA AllAcknowledgedKeeps ==
    ASSUME NEW s, NEW w, NEW r \in Int, NEW b, TxInv(s, w, r, b), s.smState # "LISTEN", NEW ack
    PROVE  TxInv(AllAcknowledged(s, ack), w, r, b) /\ AllAcknowledged(s, ack).smState = s.smState
  <1>1. Socket(s) /\ TxTypes(s) /\ TxOrder(s) /\ TxCore(s, w, r, b) /\ Sent(s, r, b)
    BY DEF TxInv, TxHeld, TxCore
  <1>2. CASE s.txTail # s.txHead
    BY <1>2 DEF AllAcknowledged
  <1>3. ASSUME s.txTail = s.txHead, NEW t,
               Socket(t), t.smState = s.smState, t.tx = s.tx, t.out = s.out,
               t.txHead = s.txHead, t.txTail = s.txTail, t.txUnackedTail = s.txUnackedTail,
               t.MySEQ = s.MySEQ, t.remoteWindow = s.remoteWindow, t.bSYNSent = s.bSYNSent,
               t.bTimerEnabled = FALSE, t.bTXFIN \in BOOLEAN, t.bFINSent \in BOOLEAN,
               \/ t.bTXFIN = s.bTXFIN /\ t.bFINSent = s.bFINSent
               \/ s.bTXFIN /\ ~t.bTXFIN /\ ~t.bFINSent
        PROVE  TxInv(t, w, r, b)
    <2>1. Held(s) = 0
      <3>1. s.txHead - s.txTail = 0
        BY <1>1, <1>3, RingFacts DEF TxTypes
      <3>2. QED
        BY <3>1, RingFacts DEF Held
    <2>2. Outstanding(s) = 0 /\ Unsent(s) = 0
      BY <1>1, <2>1, TxRange DEF TxOrder
    <2>3. /\ Held(t) = 0 /\ Outstanding(t) = 0 /\ Unsent(t) = 0 /\ Una(t) = Una(s)
          /\ \A p : Off(t, p) = Off(s, p)
      BY <1>3, <2>1, <2>2 DEF Held, Outstanding, Unsent, Una, Off
    <2>4. TxTypes(t)
      BY <1>1, <1>3 DEF TxTypes
    <2>5. TxOrder(t)
      BY <2>3 DEF TxOrder
    <2>6. Exact(s, w, r) => Exact(t, w, r)
      BY <1>3, <2>1, <2>3 DEF Exact
    <2>7. TxCore(t, w, r, b)
      BY <1>3, <2>3, <2>4, <2>5 DEF TxCore
    <2>8. Sent(t, r, b)
      BY <1>1, <1>3 DEF Sent
    <2>9. TxState(t, w, r)
      BY <1>3, <2>6 DEF TxInv, TxState
    <2>10. QED
      BY <2>7, <2>8, <2>9 DEF TxInv, TxHeld
  <1>4. s.bTXFIN \in BOOLEAN /\ s.bFINSent \in BOOLEAN
    BY <1>1 DEF TxTypes
  <1>5. CASE s.txTail = s.txHead /\ ~s.bTXFIN
    <2> DEFINE t == [s EXCEPT !.bTimerEnabled = FALSE]
    <2>1. AllAcknowledged(s, ack) = t
      BY <1>5 DEF AllAcknowledged
    <2>2. /\ Socket(t) /\ t.smState = s.smState /\ t.tx = s.tx /\ t.out = s.out
          /\ t.txHead = s.txHead /\ t.txTail = s.txTail /\ t.txUnackedTail = s.txUnackedTail
          /\ t.MySEQ = s.MySEQ /\ t.remoteWindow = s.remoteWindow /\ t.bSYNSent = s.bSYNSent
          /\ t.bTimerEnabled = FALSE /\ t.bTXFIN = s.bTXFIN /\ t.bFINSent = s.bFINSent
      BY <1>1 DEF Socket, Closed
    <2> HIDE DEF t
    <2>3. QED
      BY <1>3, <1>4, <1>5, <2>1, <2>2
  <1>6. CASE s.txTail = s.txHead /\ s.bTXFIN /\ s.MySEQ = ack
    <2> DEFINE t == [s EXCEPT !.bTimerEnabled = FALSE, !.bTXFIN = FALSE, !.bFINSent = FALSE]
    <2>1. AllAcknowledged(s, ack) = t
      BY <1>6 DEF AllAcknowledged
    <2>2. /\ Socket(t) /\ t.smState = s.smState /\ t.tx = s.tx /\ t.out = s.out
          /\ t.txHead = s.txHead /\ t.txTail = s.txTail /\ t.txUnackedTail = s.txUnackedTail
          /\ t.MySEQ = s.MySEQ /\ t.remoteWindow = s.remoteWindow /\ t.bSYNSent = s.bSYNSent
          /\ t.bTimerEnabled = FALSE /\ t.bTXFIN = FALSE /\ t.bFINSent = FALSE
      BY <1>1 DEF Socket, Closed
    <2> HIDE DEF t
    <2>3. QED
      BY <1>3, <1>6, <2>1, <2>2
  <1>7. CASE s.txTail = s.txHead /\ s.bTXFIN /\ s.MySEQ # ack
    BY <1>7 DEF AllAcknowledged
  <1>8. QED
    BY <1>2, <1>5, <1>6, <1>7

LEMMA AcknowledgedKeeps ==
    ASSUME NEW s, NEW w, NEW r \in Int, NEW b, TxInv(s, w, r, b), s.bFINSent => b,
           s.smState # "LISTEN",
           NEW m, m.ack \in Int, m.wnd \in Int, m.ack <= r, m.ack <= s.MySEQ + Unsent(s)
    PROVE  TxInv(TxAcknowledged(s, m), w, r, b) /\ TxAcknowledged(s, m).smState = s.smState
  <1> DEFINE acked == m.ack - (s.MySEQ - Outstanding(s))
             q == IF 0 < acked /\ acked <= T THEN Advance(s, acked) ELSE Duplicate(s)
             u == AllAcknowledged(q, m.ack)
             t == Window(u, m)
  <1>1. Socket(s) /\ TxTypes(s) /\ TxOrder(s)
    BY DEF TxInv, TxHeld, TxCore
  <1>2. /\ Outstanding(s) \in Nat /\ Unsent(s) \in Nat /\ Held(s) \in Nat /\ s.MySEQ \in Int
        /\ Outstanding(s) + Unsent(s) = Held(s) /\ Una(s) = s.MySEQ - Outstanding(s)
    BY <1>1, TxRange DEF TxTypes, TxOrder, Una
  <1>3. TxInv(q, w, r, b) /\ q.smState = s.smState
    <2>1. CASE 0 < acked /\ acked <= T
      <3>1. acked \in Nat /\ acked > 0 /\ acked <= Held(s) /\ Una(s) + acked <= r
        BY <1>2, <2>1
      <3>2. q = Advance(s, acked)
        BY <2>1
      <3>3. Advance(s, acked).smState = s.smState
        BY <1>1 DEF Advance, Socket, Closed
      <3> HIDE DEF acked, q
      <3>4. QED
        BY <3>1, <3>2, <3>3, AdvanceKeeps
    <2>2. CASE ~(0 < acked /\ acked <= T)
      BY <2>2, DuplicateKeeps
    <2>3. QED
      BY <2>1, <2>2
  <1> HIDE DEF q
  <1>4. TxInv(u, w, r, b) /\ u.smState = s.smState
    BY <1>3, AllAcknowledgedKeeps
  <1> HIDE DEF u
  <1>5. Socket(u) /\ TxTypes(u)
    BY <1>4 DEF TxInv, TxHeld, TxCore
  <1>6. /\ Socket(t) /\ t.smState = u.smState /\ t.tx = u.tx /\ t.out = u.out
        /\ t.txHead = u.txHead /\ t.txTail = u.txTail /\ t.txUnackedTail = u.txUnackedTail
        /\ t.MySEQ = u.MySEQ /\ t.remoteWindow = m.wnd /\ t.bSYNSent = u.bSYNSent
        /\ t.bTimerEnabled = u.bTimerEnabled /\ t.bTXFIN = u.bTXFIN /\ t.bFINSent = u.bFINSent
    BY <1>5 DEF Window, Socket, Closed
  <1> HIDE DEF t
  <1>7. /\ Held(t) = Held(u) /\ Outstanding(t) = Outstanding(u) /\ Unsent(t) = Unsent(u)
        /\ Una(t) = Una(u) /\ \A p : Off(t, p) = Off(u, p)
    BY <1>6 DEF Held, Outstanding, Unsent, Una, Off
  <1>8. Exact(u, w, r) => Exact(t, w, r)
    BY <1>6, <1>7 DEF Exact
  <1>9. TxTypes(t)
    BY <1>5, <1>6 DEF TxTypes
  <1>10. TxCore(t, w, r, b)
    <2>1. TxOrder(t)
      BY <1>4, <1>6, <1>7 DEF TxInv, TxHeld, TxCore, TxOrder
    <2>2. QED
      BY <1>4, <1>6, <1>7, <1>8, <1>9, <2>1 DEF TxInv, TxHeld, TxCore
  <1>11. Sent(t, r, b)
    BY <1>4, <1>6 DEF TxInv, TxHeld, Sent
  <1>12. TxState(t, w, r)
    BY <1>4, <1>6, <1>8 DEF TxInv, TxState
  <1>13. TxAcknowledged(s, m) = t
    BY DEF TxAcknowledged, t, u, q
  <1>14. QED
    BY <1>4, <1>6, <1>10, <1>11, <1>12, <1>13 DEF TxInv, TxHeld

-----------------------------------------------------------------------------
(* A segment, seen from the sending side *)

\* A segment of the peer acknowledges what it has received at most.
Acks(m, r) == m.ack \in Int /\ m.wnd \in Int /\ m.ack <= r

LEMMA ContentTx ==
    ASSUME NEW s, NEW m, Socket(s)
    PROVE  /\ Socket(InOrder(s, m)) /\ SameTx(s, InOrder(s, m))
           /\ InOrder(s, m).smState = s.smState
           /\ Socket(OutOfOrder(s, m)) /\ SameTx(s, OutOfOrder(s, m))
           /\ OutOfOrder(s, m).smState = s.smState
  <1>1. /\ Socket(InOrder(s, m)) /\ SameTx(s, InOrder(s, m))
        /\ InOrder(s, m).smState = s.smState
    BY DEF InOrder, Socket, SameTx, Closed
  <1>2. /\ Socket(OutOfOrder(s, m)) /\ SameTx(s, OutOfOrder(s, m))
        /\ OutOfOrder(s, m).smState = s.smState
    BY DEF OutOfOrder, Socket, SameTx, Closed
  <1>3. QED
    BY <1>1, <1>2

LEMMA AnswerKeeps ==
    ASSUME NEW s, NEW m, NEW w, NEW r \in Int, NEW b, TxInv(s, w, r, b)
    PROVE  TxInv(Answer(s, m), w, r, b) /\ Answer(s, m).smState = s.smState
  <1> DEFINE q == IF s.smState = "ESTABLISHED" THEN s ELSE [s EXCEPT !.rxTail = s.rxHead]
             u == [q EXCEPT !.bOneSegmentReceived = TRUE, !.bAckDue = TRUE]
             t == SendTCP(q, {"ACK"}, RESET)
  <1>1. Socket(s)
    BY DEF TxInv, TxHeld, TxCore
  <1>2. Answer(s, m) \in {s, t, u}
    BY DEF Answer
  <1>3. Socket(q) /\ SameTx(s, q) /\ q.smState = s.smState
    BY <1>1 DEF Socket, SameTx, Closed
  <1> HIDE DEF q
  <1>4. TxInv(q, w, r, b)
    BY <1>3, SameInv
  <1>5. TxInv(t, w, r, b) /\ t.smState = s.smState
    <2>1. RESET # KEEP_ALIVE
      BY DEF RESET, KEEP_ALIVE
    <2>2. TxInv(t, w, r, b)
      BY <1>4, <2>1, SendKeeps
    <2>3. QED
      BY <1>3, <2>2, SendEffect
  <1>6. Socket(u) /\ SameTx(q, u) /\ u.smState = q.smState
    BY <1>3 DEF Socket, SameTx, Closed
  <1> HIDE DEF u, t
  <1>7. TxInv(u, w, r, b) /\ u.smState = s.smState
    BY <1>3, <1>4, <1>6, SameInv
  <1>8. QED
    BY <1>2, <1>5, <1>7

LEMMA FinalKeeps ==
    ASSUME NEW s, NEW m, NEW w, NEW r \in Int, NEW b, TxInv(s, w, r, b),
           s.smState \in {"ESTABLISHED", "FIN_WAIT_1", "FIN_WAIT_2"}
    PROVE  TxInv(Final(s, m), w, r, b)
  <1> DEFINE q == [s EXCEPT !.RemoteSEQ = @ + 1]
  <1>0. RESET # KEEP_ALIVE /\ {} # KEEP_ALIVE
    BY DEF RESET, KEEP_ALIVE
  <1>1. Socket(s)
    BY DEF TxInv, TxHeld, TxCore
  <1>2. Socket(q) /\ SameTx(s, q) /\ q.smState = s.smState
    BY <1>1 DEF Socket, SameTx, Closed
  <1> HIDE DEF q
  <1>3. ASSUME NEW state,
               \/ state \notin Sending \cup {"LISTEN"}
               \/ s.smState = "ESTABLISHED" /\ state = "CLOSE_WAIT"
        PROVE  TxInv(SendTCP([q EXCEPT !.smState = state], {"ACK"}, RESET), w, r, b)
    <2> DEFINE u == [q EXCEPT !.smState = state]
    <2>1. Socket(u) /\ SameTx(q, u) /\ u.smState = state
      BY <1>2 DEF Socket, SameTx, Closed
    <2> HIDE DEF u
    <2>2. SameTx(s, u)
      BY <1>2, <2>1 DEF SameTx
    <2>3. TxInv(u, w, r, b)
      BY <1>3, <2>1, <2>2, SameInv DEF Sending
    <2>4. TxInv(SendTCP(u, {"ACK"}, RESET), w, r, b)
      BY <1>0, <2>3, SendKeeps
    <2>5. QED
      BY <2>4 DEF u
  <1>4. TxInv(CloseSocket(SendTCP(q, {"ACK"}, {})), w, r, b)
    <2>1. TxInv(q, w, r, b)
      BY <1>2, SameInv
    <2>2. TxInv(SendTCP(q, {"ACK"}, {}), w, r, b)
      BY <1>0, <2>1, SendKeeps
    <2>3. QED
      BY <2>2, CloseKeeps DEF TxInv, TxHeld
  <1>5. CASE ~("FIN" \in m.flags /\ s.RemoteSEQ + 1 = m.seq + SegLen(m))
    BY <1>5 DEF Final
  <1>6. CASE "FIN" \in m.flags /\ s.RemoteSEQ + 1 = m.seq + SegLen(m)
    <2>1. CASE s.smState = "ESTABLISHED"
      BY <1>3, <1>6, <2>1 DEF Final, q, Sending
    <2>2. CASE s.smState = "FIN_WAIT_1"
      BY <1>3, <1>6, <2>2 DEF Final, q, Sending
    <2>3. CASE s.smState = "FIN_WAIT_2"
      BY <1>4, <1>6, <2>3 DEF Final, q
    <2>4. QED
      BY <2>1, <2>2, <2>3
  <1>7. QED
    BY <1>5, <1>6

LEMMA ContentKeeps ==
    ASSUME NEW s, NEW m, NEW w, NEW r \in Int, NEW b, TxInv(s, w, r, b),
           s.smState \in {"ESTABLISHED", "CLOSE_WAIT", "FIN_WAIT_1", "FIN_WAIT_2"}
    PROVE  TxInv(Content(s, m), w, r, b)
  <1> DEFINE q == CASE m.data = <<>> -> s
                    [] m.data # <<>> /\ Missing(s, m) <= 0 -> InOrder(s, m)
                    [] OTHER -> OutOfOrder(s, m)
  <1>1. Socket(s)
    BY DEF TxInv, TxHeld, TxCore
  <1>2. q = s \/ q = InOrder(s, m) \/ q = OutOfOrder(s, m)
    OBVIOUS
  <1> HIDE DEF q
  <1>3. TxInv(q, w, r, b) /\ q.smState = s.smState
    BY <1>1, <1>2, ContentTx, SameInv
  <1>4. TxInv(Answer(q, m), w, r, b) /\ Answer(q, m).smState = s.smState
    BY <1>3, AnswerKeeps
  <1>5. s.smState # "CLOSE_WAIT" => TxInv(Final(Answer(q, m), m), w, r, b)
    BY <1>4, FinalKeeps
  <1>6. QED
    BY <1>5 DEF Content, q

LEMMA StateAfterAckKeeps ==
    ASSUME NEW s, NEW m, NEW w, NEW r \in Int, NEW b, TxInv(s, w, r, b), Acks(m, r),
           s.smState \in {"ESTABLISHED", "CLOSE_WAIT", "FIN_WAIT_1", "FIN_WAIT_2", "CLOSING"}
    PROVE  TxInv(StateAfterAck(s, m), w, r, b)
  <1>1. Socket(s) /\ TxTypes(s) /\ Sent(s, r, b)
    BY DEF TxInv, TxHeld, TxCore
  <1>2. CASE s.smState = "FIN_WAIT_1" /\ s.MySEQ = m.ack
    <2> DEFINE q == [s EXCEPT !.bTimerEnabled = TRUE, !.smState = "FIN_WAIT_2"]
    <2>1. /\ Socket(q) /\ q.smState = "FIN_WAIT_2" /\ q.tx = s.tx /\ q.out = s.out
          /\ q.txHead = s.txHead /\ q.txTail = s.txTail /\ q.txUnackedTail = s.txUnackedTail
          /\ q.MySEQ = s.MySEQ /\ q.remoteWindow = s.remoteWindow /\ q.bSYNSent = s.bSYNSent
          /\ q.bTimerEnabled = TRUE /\ q.bTXFIN = s.bTXFIN /\ q.bFINSent = s.bFINSent
      BY <1>1 DEF Socket, Closed
    <2> HIDE DEF q
    <2>2. /\ Held(q) = Held(s) /\ Outstanding(q) = Outstanding(s) /\ Unsent(q) = Unsent(s)
          /\ Una(q) = Una(s) /\ \A p : Off(q, p) = Off(s, p)
      BY <2>1 DEF Held, Outstanding, Unsent, Una, Off
    <2>3. TxTypes(q)
      BY <1>1, <2>1 DEF TxTypes
    <2>4. TxOrder(q)
      BY <2>1, <2>2 DEF TxInv, TxHeld, TxCore, TxOrder
    <2>5. Exact(s, w, r) => Exact(q, w, r)
      BY <2>1, <2>2 DEF Exact
    <2>6. TxCore(q, w, r, b)
      BY <2>1, <2>2, <2>3, <2>4, <2>5 DEF TxInv, TxHeld, TxCore
    <2>7. TxInv(q, w, r, b)
      BY <1>1, <2>1, <2>6 DEF TxInv, TxHeld, TxState, Sent, Sending
    <2>8. TxInv(Content(q, m), w, r, b)
      BY <2>1, <2>7, ContentKeeps
    <2>9. QED
      BY <1>2, <2>8 DEF StateAfterAck, q
  <1>3. CASE s.smState = "FIN_WAIT_2" /\ "FIN" \notin m.flags
    <2> DEFINE q == [s EXCEPT !.MySEQ = m.ack]
    <2>1. /\ Socket(q) /\ q.tx = s.tx /\ q.out = s.out
          /\ q.txHead = s.txHead /\ q.txTail = s.txTail /\ q.txUnackedTail = s.txUnackedTail
          /\ q.MySEQ = m.ack /\ q.remoteWindow = s.remoteWindow /\ q.bSYNSent = s.bSYNSent
          /\ q.bTimerEnabled = s.bTimerEnabled /\ q.bTXFIN = s.bTXFIN /\ q.bFINSent = s.bFINSent
      BY <1>1 DEF Socket, Closed
    <2> HIDE DEF q
    <2>2. TxTypes(q) /\ Sent(q, r, b)
      BY <1>1, <2>1 DEF TxTypes, Acks, Sent
    <2>3. TxInv(CloseSocket(SendTCP(q, {"RST", "ACK"}, {})), w, r, b)
      BY <2>1, <2>2, ResetKeeps DEF KEEP_ALIVE
    <2>4. QED
      BY <1>3, <2>3 DEF StateAfterAck, q
  <1>4. CASE s.smState = "CLOSING"
    BY <1>1, <1>4, CloseKeeps DEF StateAfterAck
  <1>5. CASE /\ ~(s.smState = "FIN_WAIT_1" /\ s.MySEQ = m.ack)
             /\ ~(s.smState = "FIN_WAIT_2" /\ "FIN" \notin m.flags)
             /\ s.smState # "CLOSING"
    BY <1>5, ContentKeeps DEF StateAfterAck
  <1>6. QED
    BY <1>2, <1>3, <1>4, <1>5

LEMMA WrongAckKeeps ==
    ASSUME NEW s, NEW m, NEW w, NEW r \in Int, NEW b, TxInv(s, w, r, b), Acks(m, r),
           s.smState = "SYN_RECEIVED"
    PROVE  TxInv(WrongAck(s, m), w, r, b)
  <1> DEFINE q == [s EXCEPT !.MySEQ = m.ack]
             u == SendTCP(q, {"RST"}, RESET)
             t == [u EXCEPT !.MySEQ = s.MySEQ]
             d == DataLen(q, {"RST"})
  <1>1. Socket(s) /\ TxTypes(s) /\ TxOrder(s) /\ TxCore(s, w, r, b) /\ Sent(s, r, b)
        /\ TxState(s, w, r)
    BY DEF TxInv, TxHeld, TxCore
  <1>2. /\ Socket(q) /\ q.tx = s.tx /\ q.out = s.out /\ q.smState = s.smState
        /\ q.txHead = s.txHead /\ q.txTail = s.txTail /\ q.txUnackedTail = s.txUnackedTail
        /\ q.MySEQ = m.ack /\ q.remoteWindow = s.remoteWindow /\ q.bSYNSent = s.bSYNSent
        /\ q.bTimerEnabled = s.bTimerEnabled /\ q.bTXFIN = s.bTXFIN /\ q.bFINSent = s.bFINSent
    BY <1>1 DEF Socket, Closed
  <1> HIDE DEF q
  <1>3. TxTypes(q) /\ Sent(q, r, b)
    BY <1>1, <1>2 DEF TxTypes, Acks, Sent
  <1>4. Sent(u, r, b)
    BY <1>2, <1>3, ControlSent DEF Control, RESET, KEEP_ALIVE
  <1>5. d = 0 /\ ~SendsFin(q, {"RST"}) /\ ~Counts(q, {"RST"}) /\ ~FinDue(q, {"RST"})
    <2>1. d = 0
      BY <1>3, SendLengths DEF Control
    <2>2. ~SendsFin(q, {"RST"})
      BY DEF SendsFin, Control
    <2>3. ~FinDue(q, {"RST"})
      BY <1>1, <1>2 DEF FinDue, TxState, Sending
    <2>4. HeaderFlags(q, {"RST"}) \cap {"SYN", "FIN"} = {}
      BY <2>2 DEF HeaderFlags
    <2>5. QED
      BY <2>1, <2>2, <2>3, <2>4 DEF Counts
  <1>6. /\ Socket(u) /\ u.smState = s.smState /\ u.txHead = s.txHead /\ u.txTail = s.txTail
        /\ u.tx = s.tx /\ u.txUnackedTail = (s.txUnackedTail + d) % T
        /\ u.remoteWindow = s.remoteWindow /\ ~u.bTXFIN
        /\ u.bSYNSent = (s.bSYNSent \/ "SYN" \in {"RST"})
        /\ u.bFINSent = (s.bFINSent \/ FALSE)
        /\ u.bTimerEnabled = (s.bTimerEnabled \/ FALSE)
        /\ u.bTXFIN = FALSE
    BY <1>2, <1>5, SendEffect
  <1>7. u.txUnackedTail = s.txUnackedTail
    <2>1. s.txUnackedTail \in 0 .. T - 1 /\ T \in Nat \ {0}
      BY <1>1, RingFacts DEF TxTypes
    <2>2. (s.txUnackedTail + 0) % T = s.txUnackedTail
      BY <2>1
    <2>3. QED
      BY <1>5, <1>6, <2>2
  <1> HIDE DEF u, d
  <1>8. /\ Socket(t) /\ t.smState = s.smState /\ t.txHead = s.txHead /\ t.txTail = s.txTail
        /\ t.tx = s.tx /\ t.txUnackedTail = s.txUnackedTail /\ t.MySEQ = s.MySEQ
        /\ t.remoteWindow = s.remoteWindow /\ t.bTXFIN = u.bTXFIN
        /\ t.bSYNSent = u.bSYNSent /\ t.bFINSent = u.bFINSent
        /\ t.bTimerEnabled = u.bTimerEnabled /\ t.out = u.out
    BY <1>6, <1>7 DEF Socket, Closed
  <1>9. /\ t.bFINSent = s.bFINSent /\ t.bTXFIN = s.bTXFIN /\ t.bSYNSent = s.bSYNSent
        /\ t.bTimerEnabled = s.bTimerEnabled
    BY <1>1, <1>6, <1>8 DEF TxTypes, TxState, Sending
  <1> HIDE DEF t
  <1> DEFINE v == [t EXCEPT !.out = s.out]
  <1>10. /\ Socket(v) /\ SameTx(s, v) /\ v.smState = s.smState
    BY <1>8, <1>9 DEF Socket, SameTx, Closed
  <1>11. v.smState = t.smState /\ SameTx([t EXCEPT !.out = s.out], v)
         /\ t.txHead = v.txHead /\ t.txTail = v.txTail /\ t.txUnackedTail = v.txUnackedTail
         /\ t.tx = v.tx /\ t.MySEQ = v.MySEQ /\ t.remoteWindow = v.remoteWindow
         /\ t.bTXFIN = v.bTXFIN /\ t.bSYNSent = v.bSYNSent /\ t.bFINSent = v.bFINSent
         /\ t.bTimerEnabled = v.bTimerEnabled
    BY <1>8 DEF Socket, Closed, SameTx
  <1> HIDE DEF v
  <1>12. TxInv(v, w, r, b)
    BY <1>10, SameInv
  <1>13. /\ Held(t) = Held(v) /\ Outstanding(t) = Outstanding(v) /\ Unsent(t) = Unsent(v)
         /\ Una(t) = Una(v) /\ \A p : Off(t, p) = Off(v, p)
    BY <1>11 DEF Held, Outstanding, Unsent, Una, Off
  <1>14. TxTypes(t) /\ TxOrder(t) /\ (Exact(v, w, r) => Exact(t, w, r))
    BY <1>11, <1>12, <1>13 DEF TxInv, TxHeld, TxCore, TxTypes, TxOrder, Exact
  <1>15. TxCore(t, w, r, b)
    BY <1>8, <1>11, <1>12, <1>13, <1>14 DEF TxInv, TxHeld, TxCore
  <1>16. Sent(t, r, b)
    BY <1>4, <1>8 DEF Sent
  <1>17. TxState(t, w, r)
    BY <1>8, <1>11, <1>12, <1>13, <1>14 DEF TxInv, TxState, Fresh
  <1>18. QED
    BY <1>15, <1>16, <1>17 DEF TxInv, TxHeld, WrongAck, t, u, q

LEMMA AcknowledgeKeeps ==
    ASSUME NEW s, NEW m, NEW w, NEW r \in Int, NEW b, TxInv(s, w, r, b), s.bFINSent => b,
           Acks(m, r), s.smState \in States \ {"LISTEN"}
    PROVE  TxInv(Acknowledge(s, m), w, r, b)
  <1>1. Socket(s) /\ TxTypes(s) /\ TxOrder(s) /\ Sent(s, r, b)
    BY DEF TxInv, TxHeld, TxCore
  <1>2. CASE s.smState = "LAST_ACK"
    BY <1>1, <1>2, CloseKeeps DEF Acknowledge
  <1>3. CASE s.smState = "SYN_RECEIVED" /\ m.ack # s.MySEQ
    BY <1>3, WrongAckKeeps DEF Acknowledge
  <1>4. CASE s.smState \notin {"LAST_ACK", "SYN_RECEIVED"} /\ s.MySEQ + Unsent(s) < m.ack
    <2>1. {} # KEEP_ALIVE
      BY DEF KEEP_ALIVE
    <2>2. TxInv(SendTCP(s, {"ACK"}, {}), w, r, b)
      BY <2>1, SendKeeps
    <2>3. QED
      BY <1>4, <2>2 DEF Acknowledge
  <1>5. CASE /\ s.smState # "LAST_ACK"
             /\ ~(s.smState = "SYN_RECEIVED" /\ m.ack # s.MySEQ)
             /\ ~(/\ s.smState \notin {"LAST_ACK", "SYN_RECEIVED"}
                  /\ s.MySEQ + Unsent(s) < m.ack)
    <2> DEFINE e == IF s.smState = "SYN_RECEIVED" THEN [s EXCEPT !.smState = "ESTABLISHED"] ELSE s
    <2>1. Acknowledge(s, m) = StateAfterAck(TxAcknowledged(e, m), m)
      BY <1>5 DEF Acknowledge
    <2>2. /\ Socket(e) /\ SameTx(s, e)
          /\ e.smState \in {"ESTABLISHED", "CLOSE_WAIT", "FIN_WAIT_1", "FIN_WAIT_2", "CLOSING"}
          /\ e.smState = s.smState \/ (s.smState \in Sending /\ e.smState = "ESTABLISHED")
      BY <1>1, <1>5 DEF States, Open, Sending, Socket, SameTx, Closed
    <2> HIDE DEF e
    <2>3. TxInv(e, w, r, b)
      BY <2>2, SameInv DEF Sending
    <2>4. m.ack <= e.MySEQ + Unsent(e)
      <3>1. e.MySEQ = s.MySEQ /\ Unsent(e) = Unsent(s) /\ s.MySEQ \in Int /\ Unsent(s) \in Nat
        BY <1>1, <2>2, TxRange DEF SameTx, Unsent, TxTypes
      <3>2. CASE s.smState = "SYN_RECEIVED"
        BY <1>5, <3>1, <3>2 DEF Acks
      <3>3. CASE s.smState # "SYN_RECEIVED"
        BY <1>5, <3>1, <3>3 DEF Acks
      <3>4. QED
        BY <3>2, <3>3
    <2>5. e.bFINSent => b
      BY <2>2 DEF SameTx
    <2>6. TxInv(TxAcknowledged(e, m), w, r, b) /\ TxAcknowledged(e, m).smState = e.smState
      BY <2>2, <2>3, <2>4, <2>5, AcknowledgedKeeps DEF Acks
    <2>7. QED
      BY <2>1, <2>2, <2>6, StateAfterAckKeeps
  <1>6. QED
    BY <1>2, <1>3, <1>4, <1>5

LEMMA ListeningKeeps ==
    ASSUME NEW s, NEW m, NEW r \in Int, NEW b, TxInv(s, 0, r, b), s.bFINSent => b,
           Acks(m, r), 1 <= r, m.seq \in Int, s.smState = "LISTEN"
    PROVE  TxInv(Listening(s, m), 0, r, b)
  <1>1. Socket(s) /\ TxTypes(s) /\ TxOrder(s) /\ Sent(s, r, b) /\ Fresh(s)
    BY DEF TxInv, TxHeld, TxCore, TxState
  <1>2. CASE "RST" \in m.flags
    BY <1>1, <1>2, CloseKeeps DEF Listening
  <1>3. CASE "RST" \notin m.flags /\ "ACK" \in m.flags
    <2> DEFINE q == [s EXCEPT !.MySEQ = m.ack]
    <2>1. /\ Socket(q) /\ q.tx = s.tx /\ q.out = s.out
          /\ q.txHead = s.txHead /\ q.txTail = s.txTail /\ q.txUnackedTail = s.txUnackedTail
          /\ q.MySEQ = m.ack /\ q.remoteWindow = s.remoteWindow /\ q.bSYNSent = s.bSYNSent
          /\ q.bTimerEnabled = s.bTimerEnabled /\ q.bTXFIN = s.bTXFIN /\ q.bFINSent = s.bFINSent
      BY <1>1 DEF Socket, Closed
    <2> HIDE DEF q
    <2>2. TxTypes(q) /\ Sent(q, r, b)
      BY <1>1, <2>1 DEF TxTypes, Acks, Sent
    <2>3. TxInv(CloseSocket(SendTCP(q, {"RST"}, {})), 0, r, b)
      BY <2>1, <2>2, ResetKeeps DEF KEEP_ALIVE
    <2>4. QED
      BY <1>3, <2>3 DEF Listening, q
  <1>4. CASE "RST" \notin m.flags /\ "ACK" \notin m.flags /\ "SYN" \in m.flags
    <2> DEFINE q == [s EXCEPT !.RemoteSEQ = m.seq + 1]
               f == {"SYN", "ACK"}
               u == SendTCP(q, f, RESET)
               t == [u EXCEPT !.smState = "SYN_RECEIVED"]
    <2>1. Socket(q) /\ SameTx(s, q)
      BY <1>1 DEF Socket, SameTx, Closed
    <2> HIDE DEF q
    <2>2. TxHeld(q, 0, r, b)
      BY <2>1, SameHeld DEF TxInv
    <2>3. TxTypes(q) /\ TxOrder(q) /\ Sent(q, r, b) /\ Held(q) = 0 /\ q.MySEQ = 0
          /\ ~q.bTXFIN /\ ~q.bFINSent /\ ~q.bSYNSent
      BY <1>1, <2>1, <2>2 DEF TxHeld, TxCore, SameTx, Fresh, Held
    <2>4. Control(f) /\ RESET # KEEP_ALIVE /\ "SYN" \in f /\ "FIN" \notin f
      BY DEF Control, RESET, KEEP_ALIVE
    <2> HIDE DEF f
    <2>5. DataLen(q, f) = 0 /\ ~SendsFin(q, f) /\ ~FinDue(q, f) /\ Turns(q, f)
      BY <2>3, <2>4, SendLengths DEF FinDue, Turns
    <2>6. /\ Socket(u) /\ TxTypes(u) /\ TxOrder(u) /\ Held(u) = 0
          /\ Outstanding(u) = Outstanding(q) + DataLen(q, f)
          /\ Unsent(u) = Unsent(q) - DataLen(q, f)
          /\ u.MySEQ = q.MySEQ + DataLen(q, f) + (IF Turns(q, f) THEN 1 ELSE 0)
      BY <2>1, <2>3, SendRing, SendEffect
    <2>7. Outstanding(u) = 0 /\ Unsent(u) = 0
      BY <2>6, TxRange DEF TxOrder
    <2>8. u.MySEQ = 1
      <3>1. u.MySEQ = 0 + 0 + 1
        BY <2>3, <2>5, <2>6
      <3>2. QED
        BY <3>1
    <2>9. /\ u.bTXFIN = FinDue(q, f) /\ u.bSYNSent = (q.bSYNSent \/ "SYN" \in f)
          /\ u.bFINSent = (q.bFINSent \/ SendsFin(q, f))
      BY <2>1, SendEffect
    <2>10. ~u.bTXFIN /\ u.bSYNSent /\ ~u.bFINSent
      BY <2>3, <2>4, <2>5, <2>9
    <2>11. Sent(u, r, b)
      BY <2>1, <2>3, <2>4, ControlSent
    <2> HIDE DEF u
    <2>12. Socket(t) /\ SameTx(u, t) /\ t.smState = "SYN_RECEIVED"
      BY <2>6 DEF Socket, SameTx, Closed
    <2> HIDE DEF t
    <2>13. Una(u) = 1
      <3>1. Una(u) = 1 - 0
        BY <2>7, <2>8 DEF Una
      <3>2. QED
        BY <3>1
    <2>14. Exact(u, 0, r)
      <3>1. \A p \in 0 .. T - 1 : Off(u, p) \in Nat
        BY <2>6, OffRange
      <3>2. \A p \in 0 .. T - 1 : ~(Off(u, p) < 0)
        BY <3>1
      <3>3. Una(u) <= r /\ 0 = Una(u) - 1 + Held(u)
        BY <2>6, <2>13
      <3>4. QED
        BY <2>6, <3>2, <3>3 DEF Exact
    <2>15. TxHeld(u, 0, r, b)
      BY <2>6, <2>10, <2>11, <2>14 DEF TxHeld, TxCore
    <2>16. TxHeld(t, 0, r, b) /\ Exact(t, 0, r)
      BY <2>12, <2>14, <2>15, SameHeld
    <2>17. TxInv(t, 0, r, b)
      BY <2>10, <2>12, <2>16 DEF TxInv, TxState, SameTx
    <2>18. QED
      BY <1>4, <2>17 DEF Listening, t, u, q, f
  <1>5. CASE "RST" \notin m.flags /\ "ACK" \notin m.flags /\ "SYN" \notin m.flags
    BY <1>1, <1>5, CloseKeeps DEF Listening
  <1>6. QED
    BY <1>2, <1>3, <1>4, <1>5

LEMMA HandleKeeps ==
    ASSUME NEW s, NEW m, NEW w, NEW r \in Int, NEW b, TxInv(s, w, r, b), s.bFINSent => b,
           Acks(m, r), 1 <= r, m.seq \in Int, s.smState \in States,
           s.smState = "LISTEN" => w = 0
    PROVE  TxInv(HandleTCPSeg(s, m), w, r, b)
  <1>1. Sent(s, r, b) /\ RESET # KEEP_ALIVE
    BY DEF TxInv, TxHeld, RESET, KEEP_ALIVE
  <1>2. CASE s.smState = "LISTEN"
    BY <1>2, ListeningKeeps DEF HandleTCPSeg
  <1>3. CASE s.smState # "LISTEN" /\ ~Acceptable(s, m)
    BY <1>1, <1>3, SendKeeps DEF HandleTCPSeg
  <1>4. CASE s.smState # "LISTEN" /\ Acceptable(s, m) /\ m.flags \cap {"RST", "SYN"} # {}
    BY <1>1, <1>4, CloseKeeps DEF HandleTCPSeg
  <1>5. CASE s.smState # "LISTEN" /\ Acceptable(s, m) /\ m.flags \cap {"RST", "SYN"} = {}
    BY <1>5, AcknowledgeKeeps DEF HandleTCPSeg
  <1>6. QED
    BY <1>2, <1>3, <1>4, <1>5

-----------------------------------------------------------------------------
(* Ticks and calls, seen from the sending side *)

\* A FIN moves the connection into a state that promises nothing.
LEMMA FinKeeps ==
    ASSUME NEW s, NEW w, NEW r \in Int, NEW b, TxHeld(s, w, r, b), NEW how, how # KEEP_ALIVE
    PROVE  TxHeld(SendTCP(s, {"FIN", "ACK"}, how), w, r, b)
  BY SendHeld

LEMMA ClosingKeeps ==
    ASSUME NEW s, NEW t, NEW w, NEW r, NEW b, TxHeld(s, w, r, b), Socket(t), SameTx(s, t),
           t.smState \notin Sending \cup {"LISTEN"}
    PROVE  TxInv(t, w, r, b)
  BY SameHeld DEF TxInv, TxState, Sending

LEMMA DisconnectKeeps ==
    ASSUME NEW s, NEW w, NEW r \in Int, NEW b, TxInv(s, w, r, b)
    PROVE  TxInv(Disconnect(s), w, r, b)
  <1> DEFINE q == [s EXCEPT !.rxTail = s.rxHead]
             u == SendTCP(q, {"FIN", "ACK"}, RESET)
  <1>0. RESET # KEEP_ALIVE /\ {} # KEEP_ALIVE
    BY DEF RESET, KEEP_ALIVE
  <1>1. Socket(q) /\ SameTx(s, q) /\ q.smState = s.smState
    BY DEF TxInv, TxHeld, TxCore, Socket, SameTx, Closed
  <1> HIDE DEF q
  <1>2. TxInv(q, w, r, b)
    BY <1>1, SameInv
  <1>3. TxHeld(u, w, r, b) /\ Socket(u)
    BY <1>0, <1>1, <1>2, FinKeeps, SendEffect DEF TxInv
  <1> HIDE DEF u
  <1>4. ASSUME NEW state \in {"FIN_WAIT_1", "LAST_ACK"}
        PROVE  TxInv([u EXCEPT !.smState = state], w, r, b)
    <2> DEFINE t == [u EXCEPT !.smState = state]
    <2>1. Socket(t) /\ SameTx(u, t) /\ t.smState = state
      BY <1>3 DEF Socket, SameTx, Closed
    <2> HIDE DEF t
    <2>2. TxInv(t, w, r, b)
      BY <1>3, <2>1, ClosingKeeps DEF Sending
    <2>3. QED
      BY <2>2 DEF t
  <1>5. CASE s.smState \in {"SYN_RECEIVED", "ESTABLISHED"}
    BY <1>4, <1>5 DEF Disconnect, q, u
  <1>6. CASE s.smState = "CLOSE_WAIT"
    BY <1>4, <1>6 DEF Disconnect, q, u
  <1>7. CASE s.smState \notin {"SYN_RECEIVED", "ESTABLISHED", "CLOSE_WAIT"}
    <2>1. TxInv(CloseSocket(SendTCP(q, {"RST", "ACK"}, {})), w, r, b)
      BY <1>0, <1>1, <1>2, ResetKeeps DEF TxInv, TxHeld, TxCore
    <2>2. QED
      BY <1>7, <2>1 DEF Disconnect, q
  <1>8. QED
    BY <1>5, <1>6, <1>7

LEMMA FlushKeeps ==
    ASSUME NEW s, NEW w, NEW r \in Int, NEW b, TxInv(s, w, r, b)
    PROVE  /\ TxInv(TCPFlush(s), w, r, b) /\ TCPFlush(s).smState = s.smState
           /\ Held(TCPFlush(s)) = Held(s)
  <1>1. RESET # KEEP_ALIVE
    BY DEF RESET, KEEP_ALIVE
  <1>2. Socket(s) /\ TxTypes(s) /\ TxOrder(s)
    BY DEF TxInv, TxHeld, TxCore
  <1>3. TxInv(SendTCP(s, {"ACK"}, RESET), w, r, b)
    BY <1>1, SendKeeps
  <1>4. SendTCP(s, {"ACK"}, RESET).smState = s.smState /\ Held(SendTCP(s, {"ACK"}, RESET)) = Held(s)
    BY <1>2, SendEffect, SendRing
  <1>5. QED
    BY <1>3, <1>4 DEF TCPFlush

LEMMA ResendKeeps ==
    ASSUME NEW s, NEW w, NEW r \in Int, NEW b, TxInv(s, w, r, b), s.bFINSent => b,
           s.smState \in States \ {"LISTEN", "FIN_WAIT_2"}
    PROVE  TxInv(Resend(s, Flags[s.smState]), w, r, b)
  <1> DEFINE q == RollBack(s)
             u == [q EXCEPT !.retryCount = (@ + 1) % 256]
             f == Flags[s.smState]
             v == SendTCP(u, f, {})
  <1>1. Socket(s) /\ TxInv(q, w, r, b)
    BY RollBackKeeps DEF TxInv, TxHeld, TxCore
  <1>2. Socket(q) /\ q.smState = s.smState
    BY <1>1 DEF RollBack, Socket, Closed
  <1>3. PICK x : Resend(s, f) = [v EXCEPT !.resent = x]
    BY DEF Resend
  <1>4. {} # KEEP_ALIVE
    BY DEF KEEP_ALIVE
  <1> HIDE DEF q
  <1>5. Socket(u) /\ SameTx(q, u) /\ u.smState = q.smState
    BY <1>2 DEF Socket, SameTx, Closed
  <1> HIDE DEF u
  <1>6. TxInv(u, w, r, b)
    BY <1>1, <1>5, SameInv
  <1>7. Socket(v) /\ v.smState = s.smState
    BY <1>2, <1>5, SendEffect
  <1> DEFINE t == [v EXCEPT !.resent = x]
  <1>8. CASE s.smState \in {"FIN_WAIT_1", "LAST_ACK"}
    <2>1. f = {"FIN", "ACK"}
      BY <1>8 DEF Flags
    <2>2. TxHeld(v, w, r, b)
      BY <1>4, <1>6, <2>1, FinKeeps DEF TxInv
    <2> HIDE DEF v
    <2>3. Socket(t) /\ SameTx(v, t) /\ t.smState = s.smState
      BY <1>7 DEF Socket, SameTx, Closed
    <2> HIDE DEF t
    <2>4. TxInv(t, w, r, b)
      BY <1>8, <2>2, <2>3, ClosingKeeps DEF Sending
    <2>5. QED
      BY <1>3, <2>4 DEF t
  <1>9. CASE s.smState \notin {"FIN_WAIT_1", "LAST_ACK"}
    <2>1. f = {"ACK"} \/ (f = {"SYN", "ACK"} /\ u.bSYNSent)
      <3>1. s.smState = "SYN_RECEIVED" => u.bSYNSent
        BY <1>2, <1>5, <1>6 DEF TxInv, TxState
      <3>2. CASE s.smState = "SYN_RECEIVED"
        BY <3>1, <3>2 DEF Flags
      <3>3. CASE s.smState \in {"ESTABLISHED", "CLOSE_WAIT", "CLOSING"}
        BY <3>3 DEF Flags
      <3>4. QED
        BY <1>9, <3>2, <3>3 DEF States, Open
    <2>2. "FIN" \notin f /\ ("SYN" \in f => u.bSYNSent)
      BY <2>1
    <2> HIDE DEF f
    <2>3. TxInv(v, w, r, b)
      BY <1>4, <1>6, <2>2, SendKeeps
    <2> HIDE DEF v
    <2>4. Socket(t) /\ SameTx(v, t) /\ t.smState = v.smState
      BY <1>7 DEF Socket, SameTx, Closed
    <2> HIDE DEF t
    <2>5. TxInv(t, w, r, b)
      BY <2>3, <2>4, SameInv
    <2>6. QED
      BY <1>3, <2>5 DEF t, f
  <1>10. QED
    BY <1>8, <1>9

\* The head goes n slots on: room was left for them.
LEMMA TxHeadMoves ==
    ASSUME NEW q, NEW a, NEW u, NEW h, Ring(q, a, u, h),
           NEW n \in Nat, n < q - ((h - a) % q), NEW p \in 0 .. q - 1
    PROVE  LET v == (h + n) % q
           IN /\ v \in 0 .. q - 1
              /\ (v - a) % q = ((h - a) % q) + n
              /\ (v - u) % q = ((h - u) % q) + n
              /\ (p - h) % q = IF (p - a) % q >= (h - a) % q THEN ((p - a) % q) - ((h - a) % q)
                               ELSE ((p - a) % q) - ((h - a) % q) + q
  <1> DEFINE v == (h + n) % q
  <1>0. /\ q \in Nat \ {0} /\ a \in 0 .. q - 1 /\ u \in 0 .. q - 1 /\ h \in 0 .. q - 1
        /\ ((u - a) % q) + ((h - u) % q) = (h - a) % q
    BY DEF Ring
  <1>1. /\ (h - a) % q = (IF h >= a THEN h - a ELSE h - a + q)
        /\ (u - a) % q = (IF u >= a THEN u - a ELSE u - a + q)
        /\ (h - u) % q = (IF h >= u THEN h - u ELSE h - u + q)
        /\ (p - a) % q = (IF p >= a THEN p - a ELSE p - a + q)
        /\ (p - h) % q = (IF p >= h THEN p - h ELSE p - h + q)
    BY <1>0, Distance
  <1>2. n < q
    BY <1>0, <1>1
  <1>3. v = IF h + n < q THEN h + n ELSE h + n - q
    BY <1>0, <1>2, Forward
  <1> HIDE DEF v
  <1>4. v \in 0 .. q - 1
    BY <1>0, <1>2, <1>3
  <1>5. /\ (v - a) % q = (IF v >= a THEN v - a ELSE v - a + q)
        /\ (v - u) % q = (IF v >= u THEN v - u ELSE v - u + q)
    BY <1>0, <1>4, Distance
  <1>6. (v - a) % q = ((h - a) % q) + n
    BY <1>0, <1>1, <1>2, <1>3, <1>5
  <1>7. (v - u) % q = ((h - u) % q) + n
    BY <1>0, <1>1, <1>2, <1>3, <1>5
  <1>8. (p - h) % q = IF (p - a) % q >= (h - a) % q THEN ((p - a) % q) - ((h - a) % q)
                      ELSE ((p - a) % q) - ((h - a) % q) + q
    BY <1>0, <1>1
  <1>9. QED
    BY <1>4, <1>6, <1>7, <1>8 DEF v

\* The bytes that are put follow those that were put before.
LEMMA PutBytesKeeps ==
    ASSUME NEW s, NEW r \in Int, NEW b, TxInv(s, app.written, r, b), app.written \in Nat,
           s.smState \in {"ESTABLISHED", "CLOSE_WAIT"},
           NEW len \in Nat, len < T - Held(s)
    PROVE  /\ TxInv(PutBytes(s, len), app.written + len, r, b)
           /\ PutBytes(s, len).smState = s.smState
  <1> DEFINE t == PutBytes(s, len)
             w == app.written
             v == (s.txHead + len) % T
  <1>1. Socket(s) /\ TxTypes(s) /\ TxOrder(s) /\ Sent(s, r, b) /\ TxState(s, w, r)
    BY DEF TxInv, TxHeld, TxCore
  <1>2. /\ Outstanding(s) \in Nat /\ Unsent(s) \in Nat /\ Held(s) \in Nat /\ Una(s) \in Int
        /\ Outstanding(s) + Unsent(s) = Held(s) /\ T \in Nat \ {0} /\ w \in Nat
    BY <1>1, TxRange, RingFacts DEF TxOrder
  <1>3. Ring(T, s.txTail, s.txUnackedTail, s.txHead) /\ len < T - ((s.txHead - s.txTail) % T)
    BY <1>1, TxRing DEF Held
  <1>4. \A p \in 0 .. T - 1 :
           /\ v \in 0 .. T - 1
           /\ (v - s.txTail) % T = ((s.txHead - s.txTail) % T) + len
           /\ (v - s.txUnackedTail) % T = ((s.txHead - s.txUnackedTail) % T) + len
           /\ (p - s.txHead) % T =
                 IF (p - s.txTail) % T >= (s.txHead - s.txTail) % T
                 THEN ((p - s.txTail) % T) - ((s.txHead - s.txTail) % T)
                 ELSE ((p - s.txTail) % T) - ((s.txHead - s.txTail) % T) + T
    BY <1>3, TxHeadMoves
  <1>5. /\ Socket(t) /\ t.smState = s.smState /\ t.out = s.out
        /\ t.txHead = v /\ t.txTail = s.txTail /\ t.txUnackedTail = s.txUnackedTail
        /\ t.MySEQ = s.MySEQ /\ t.remoteWindow = s.remoteWindow /\ t.bSYNSent = s.bSYNSent
        /\ t.bTimerEnabled = s.bTimerEnabled /\ t.bTXFIN = s.bTXFIN /\ t.bFINSent = s.bFINSent
    BY <1>1 DEF PutBytes, Socket, Closed
  <1>6. t.tx = [p \in DOMAIN s.tx |->
                  IF (p - s.txHead) % T < len THEN w + ((p - s.txHead) % T) ELSE s.tx[p]]
    BY <1>1 DEF PutBytes, Socket, Closed
  <1>7. DOMAIN s.tx = 0 .. T - 1
    BY <1>1 DEF TxTypes
  <1> HIDE DEF t, v, w
  <1>8. 0 \in 0 .. T - 1
    BY <1>2
  <1>9. /\ v \in 0 .. T - 1 /\ Held(t) = Held(s) + len /\ Unsent(t) = Unsent(s) + len
        /\ Outstanding(t) = Outstanding(s) /\ Una(t) = Una(s) /\ \A p : Off(t, p) = Off(s, p)
    BY <1>4, <1>5, <1>8 DEF Held, Unsent, Outstanding, Una, Off
  <1>10. TxTypes(t)
    <2>1. DOMAIN t.tx = 0 .. T - 1
      BY <1>6, <1>7
    <2>2. QED
      BY <1>1, <1>5, <1>9, <2>1 DEF TxTypes
  <1>11. TxOrder(t)
    <2>1. Outstanding(t) + Unsent(t) = Held(t)
      BY <1>2, <1>9
    <2>2. QED
      BY <1>1, <1>5, <1>9, <2>1 DEF TxOrder
  <1>12. ~s.bTXFIN /\ ~s.bFINSent /\ Exact(s, w, r)
    BY <1>1 DEF TxState, Sending
  <1>13. Exact(t, w + len, r)
    <2>1. w = Una(s) - 1 + Held(s) /\ Una(s) <= r
      BY <1>12 DEF Exact
    <2>2. w + len = Una(t) - 1 + Held(t)
      BY <1>2, <1>9, <2>1
    <2>3. ASSUME NEW p \in 0 .. T - 1, Off(t, p) < Held(t)
          PROVE  t.tx[p] = Una(t) - 1 + Off(t, p)
      <3>1. Off(s, p) \in Nat /\ Off(s, p) < T
        BY <1>1, OffRange
      <3>2. (p - s.txHead) % T = IF Off(s, p) >= Held(s) THEN Off(s, p) - Held(s)
                                 ELSE Off(s, p) - Held(s) + T
        BY <1>4 DEF Off, Held
      <3>3. t.tx[p] = IF (p - s.txHead) % T < len THEN w + ((p - s.txHead) % T) ELSE s.tx[p]
        BY <1>6, <1>7
      <3>4. CASE Off(s, p) >= Held(s)
        <4>1. (p - s.txHead) % T = Off(s, p) - Held(s)
          BY <3>2, <3>4
        <4>2. Off(s, p) - Held(s) < len
          BY <1>2, <1>9, <2>3, <3>1
        <4>3. t.tx[p] = w + (Off(s, p) - Held(s))
          BY <3>3, <4>1, <4>2
        <4>4. QED
          BY <1>2, <1>9, <2>1, <3>1, <4>3
      <3>5. CASE ~(Off(s, p) >= Held(s))
        <4>1. (p - s.txHead) % T = Off(s, p) - Held(s) + T
          BY <3>2, <3>5
        <4>2. ~(Off(s, p) - Held(s) + T < len)
          BY <1>2, <3>1
        <4>3. t.tx[p] = s.tx[p]
          BY <3>3, <4>1, <4>2
        <4>4. Off(s, p) < Held(s)
          BY <1>2, <3>1, <3>5
        <4>5. QED
          BY <1>9, <1>12, <4>3, <4>4 DEF Exact
      <3>6. QED
        BY <3>4, <3>5
    <2>4. QED
      BY <1>9, <2>1, <2>2, <2>3 DEF Exact
  <1>14. TxCore(t, w + len, r, b)
    BY <1>5, <1>10, <1>11, <1>12, <1>13 DEF TxCore
  <1>15. Sent(t, r, b)
    BY <1>1, <1>5 DEF Sent
  <1>16. TxState(t, w + len, r)
    BY <1>1, <1>5, <1>12, <1>13 DEF TxState
  <1>17. QED
    BY <1>5, <1>14, <1>15, <1>16 DEF TxInv, TxHeld, t, w

LEMMA HalfFullKeeps ==
    ASSUME NEW s, NEW w, NEW r \in Int, NEW b, TxInv(s, w, r, b), NEW free
    PROVE  /\ TxInv(HalfFull(s, free), w, r, b) /\ HalfFull(s, free).smState = s.smState
           /\ Held(HalfFull(s, free)) = Held(s)
  <1> DEFINE q == TCPFlush(s)
             t == [q EXCEPT !.bHalfFullFlush = TRUE]
  <1>1. TxInv(q, w, r, b) /\ q.smState = s.smState /\ Held(q) = Held(s)
    BY FlushKeeps
  <1> HIDE DEF q
  <1>2. Socket(q)
    BY <1>1 DEF TxInv, TxHeld, TxCore
  <1>3. Socket(t) /\ SameTx(q, t) /\ t.smState = q.smState
    BY <1>2 DEF Socket, SameTx, Closed
  <1> HIDE DEF t
  <1>4. TxInv(t, w, r, b) /\ Held(t) = Held(q)
    <2>1. TxInv(t, w, r, b)
      BY <1>1, <1>3, SameInv
    <2>2. Held(t) = Held(q)
      BY <1>3 DEF SameTx, Held
    <2>3. QED
      BY <2>1, <2>2
  <1>5. HalfFull(s, free) \in {s, t}
    BY DEF HalfFull, t, q
  <1>6. QED
    BY <1>1, <1>3, <1>4, <1>5

LEMMA PutKeeps ==
    ASSUME NEW s, NEW r \in Int, NEW b, TxInv(s, app.written, r, b), app.written \in Nat,
           s.smState \in {"ESTABLISHED", "CLOSE_WAIT"}, NEW len \in Nat
    PROVE  TxInv(TCPPutArray(s, len), app.written + Least(PutReady(s), len), r, b)
  <1> DEFINE free == PutReady(s)
             n == Least(free, len)
             h == HalfFull(s, free)
             p == PutBytes(h, n)
             u == [p EXCEPT !.bAckDue = TRUE]
             w == app.written + n
  <1>1. free = T - 1 - Held(s)
    BY DEF PutReady, Held
  <1>2. Held(s) \in Nat /\ Held(s) < T /\ T \in Nat
    BY TxRange, RingFacts DEF TxInv, TxHeld, TxCore
  <1>3. free \in Nat /\ n \in Nat /\ n < T - Held(s)
    <2> HIDE DEF free
    <2>1. free \in Nat
      BY <1>1, <1>2
    <2>2. n \in Nat /\ n <= free
      BY <2>1 DEF Least
    <2>3. QED
      BY <1>1, <1>2, <2>1, <2>2
  <1>4. TCPPutArray(s, len) = CASE free = 0 -> TCPFlush(s)
                                [] free # 0 /\ free <= len -> TCPFlush(p)
                                [] OTHER -> u
    BY DEF TCPPutArray
  <1> HIDE DEF free, n
  <1>5. TxInv(h, app.written, r, b) /\ h.smState = s.smState /\ Held(h) = Held(s)
    BY HalfFullKeeps
  <1> HIDE DEF h
  <1>6. TxInv(p, w, r, b)
    BY <1>3, <1>5, PutBytesKeeps
  <1>7. Socket(p)
    BY <1>6 DEF TxInv, TxHeld, TxCore
  <1> HIDE DEF p
  <1>8. Socket(u) /\ SameTx(p, u) /\ u.smState = p.smState
    BY <1>7 DEF Socket, SameTx, Closed
  <1> HIDE DEF u
  <1>9. CASE free = 0
    <2>1. n = 0
      BY <1>9 DEF n, Least
    <2>2. w = app.written
      BY <2>1
    <2>3. QED
      BY <1>4, <1>9, <2>2, FlushKeeps DEF n, free
  <1>10. CASE free # 0 /\ free <= len
    BY <1>4, <1>6, <1>10, FlushKeeps DEF n, free
  <1>11. CASE free # 0 /\ ~(free <= len)
    <2>1. TxInv(u, w, r, b)
      BY <1>6, <1>8, SameInv
    <2>2. QED
      BY <1>4, <1>11, <2>1 DEF n, free
  <1>12. QED
    BY <1>9, <1>10, <1>11

-----------------------------------------------------------------------------
(* The peer *)

LEMMA OfferPeer ==
    ASSUME NEW p, Peer(p)
    PROVE  Peer(Offer(p)) /\ Offer(p).rcv = p.rcv
  <1> DEFINE a == [ack |-> p.rcv, wnd |-> p.edge - p.rcv]
  <1>1. /\ DOMAIN Offer(p) = {"rcv", "edge", "ads", "fin", "done"}
        /\ Offer(p).rcv = p.rcv /\ Offer(p).edge = p.edge /\ Offer(p).ads = p.ads \cup {a}
    BY DEF Offer, Peer
  <1>2. a.ack = p.rcv /\ a.wnd \in Nat /\ p.rcv \in Nat
    BY DEF Peer
  <1> HIDE DEF a
  <1>3. QED
    BY <1>1, <1>2 DEF Peer

\* A segment never takes back what the peer has received.
LEMMA HearPeer ==
    ASSUME NEW p, NEW m, Peer(p), m.seq \in Int, Len(m.data) \in Nat
    PROVE  Peer(Hear(p, m)) /\ p.rcv <= Hear(p, m).rcv
  <1> DEFINE end  == m.seq + Len(m.data)
             next == IF m.seq <= p.rcv /\ p.rcv < end THEN Least(end, p.edge) ELSE p.rcv
             fin  == "FIN" \in m.flags /\ next = end
             q == [p EXCEPT !.rcv = IF fin THEN next + 1 ELSE next,
                            !.edge = IF fin THEN @ + 1 ELSE @, !.done = fin]
  <1>1. p.rcv \in Nat \ {0} /\ p.edge \in Nat /\ p.rcv <= p.edge /\ end \in Int
    BY DEF Peer
  <1> HIDE DEF end
  <1>2. next \in Nat /\ p.rcv <= next /\ next <= p.edge
    BY <1>1 DEF Least
  <1>3. /\ DOMAIN q = {"rcv", "edge", "ads", "fin", "done"}
        /\ q.rcv = (IF fin THEN next + 1 ELSE next)
        /\ q.edge = (IF fin THEN p.edge + 1 ELSE p.edge) /\ q.ads = p.ads
    BY DEF Peer
  <1>4. \A a \in p.ads : a.ack \in Nat /\ a.ack <= p.rcv /\ a.wnd \in Nat
    BY DEF Peer
  <1>5. Hear(p, m) = IF "SYN" \in m.flags THEN Offer(p)
                     ELSE IF p.done \/ "RST" \in m.flags THEN p ELSE Offer(q)
    BY DEF Hear, end
  <1> HIDE DEF next, q, fin
  <1>6. q.rcv \in Nat \ {0} /\ q.edge \in Nat /\ q.rcv <= q.edge /\ p.rcv <= q.rcv
    <2>1. CASE fin
      BY <1>1, <1>2, <1>3, <2>1
    <2>2. CASE ~fin
      BY <1>1, <1>2, <1>3, <2>2
    <2>3. QED
      BY <2>1, <2>2
  <1>7. \A a \in q.ads : a.ack \in Nat /\ a.ack <= q.rcv /\ a.wnd \in Nat
    BY <1>1, <1>3, <1>4, <1>6
  <1>8. Peer(q)
    BY <1>3, <1>6, <1>7 DEF Peer
  <1>9. /\ Peer(Offer(p)) /\ Offer(p).rcv = p.rcv
        /\ Peer(Offer(q)) /\ Offer(q).rcv = q.rcv
    BY <1>8, OfferPeer
  <1>10. p.rcv <= p.rcv
    BY <1>1
  <1>11. QED
    BY <1>5, <1>6, <1>9, <1>10

\* Induction over a set of numbers.
LEMMA CountsUp ==
    ASSUME NEW S, 0 \in S, \A n \in Nat : n \in S => n + 1 \in S
    PROVE  Nat \subseteq S
  <1> DEFINE N == Nat \ S
             L == OpToRel(<, Nat)
  <1> SUFFICES ASSUME N # {} PROVE FALSE
    OBVIOUS
  <1>1. IsWellFoundedOn(L, Nat)
    BY NatLessThanWellFounded
  <1>2. \A x, y \in Nat : y < x => <<y, x>> \in L
    BY DEF OpToRel
  <1> HIDE DEF L
  <1>3. PICK x \in N : \A y \in N : ~(<<y, x>> \in L)
    <2>1. N \subseteq Nat
      OBVIOUS
    <2> HIDE DEF N
    <2>2. QED
      BY <1>1, <2>1, WFMin
  <1>4. x # 0 /\ x - 1 \in Nat /\ x - 1 < x
    BY <1>3
  <1>5. x - 1 \notin N
    BY <1>2, <1>3, <1>4
  <1>6. QED
    BY <1>3, <1>4, <1>5

\* The function that Heard builds step by step.
After(p, out, n, f) ==
    f = [k \in 0 .. n |->
           IF k = 0 THEN {p} ELSE f[k - 1] \cup {Hear(q, out[k]) : q \in f[k - 1]}]

LEMMA AfterExists == ASSUME NEW p, NEW out, NEW n \in Nat PROVE \E f : After(p, out, n, f)
  <1> DEFINE S == {k \in Nat : \E f : After(p, out, k, f)}
  <1>1. 0 \in S
    <2> DEFINE f == [k \in 0 .. 0 |-> {p}]
    <2>1. \A k \in 0 .. 0 :
             f[k] = IF k = 0 THEN {p} ELSE f[k - 1] \cup {Hear(q, out[k]) : q \in f[k - 1]}
      OBVIOUS
    <2>2. f = [k \in 0 .. 0 |-> f[k]]
      OBVIOUS
    <2> HIDE DEF f
    <2>3. After(p, out, 0, f)
      BY <2>1, <2>2 DEF After
    <2>4. QED
      BY <2>3
  <1>2. ASSUME NEW k \in Nat, k \in S PROVE k + 1 \in S
    <2>1. PICK f : After(p, out, k, f)
      BY <1>2
    <2> DEFINE next == f[k] \cup {Hear(q, out[k + 1]) : q \in f[k]}
               g == [j \in 0 .. k + 1 |-> IF j <= k THEN f[j] ELSE next]
    <2>2. ASSUME NEW j \in 0 .. k + 1
          PROVE  g[j] = IF j = 0 THEN {p} ELSE g[j - 1] \cup {Hear(q, out[j]) : q \in g[j - 1]}
      <3>1. CASE j = 0
        BY <2>1, <3>1 DEF After
      <3>2. CASE j \in 1 .. k
        <4>1. g[j] = f[j] /\ g[j - 1] = f[j - 1] /\ j # 0 /\ j \in 0 .. k
          BY <3>2
        <4> HIDE DEF g
        <4>2. f[j] = f[j - 1] \cup {Hear(q, out[j]) : q \in f[j - 1]}
          BY <2>1, <4>1 DEF After
        <4>3. QED
          BY <4>1, <4>2
      <3>3. CASE j = k + 1
        <4>1. g[j] = next /\ g[j - 1] = f[k] /\ j # 0
          BY <3>3
        <4> HIDE DEF g
        <4>2. QED
          BY <3>3, <4>1
      <3>4. QED
        BY <3>1, <3>2, <3>3
    <2>3. g = [j \in 0 .. k + 1 |-> g[j]]
      OBVIOUS
    <2> HIDE DEF g
    <2>4. After(p, out, k + 1, g)
      BY <2>2, <2>3 DEF After
    <2>5. QED
      BY <2>4
  <1> HIDE DEF S
  <1>3. Nat \subseteq S
    BY <1>1, <1>2, CountsUp
  <1>4. QED
    BY <1>3 DEF S

LEMMA HeardPeer ==
    ASSUME NEW p, Peer(p), NEW S, NEW out \in Seq(S),
           \A m \in S : m.seq \in Int /\ Len(m.data) \in Nat,
           NEW h \in Heard(p, out)
    PROVE  Peer(h) /\ p.rcv <= h.rcv
  <1> DEFINE N == Len(out)
             f == CHOOSE g : After(p, out, N, g)
  <1>1. N \in Nat /\ \A n \in 1 .. N : out[n] \in S
    OBVIOUS
  <1>2. Heard(p, out) = f[N]
    BY DEF Heard, After
  <1>3. After(p, out, N, f)
    BY <1>1, AfterExists
  <1> HIDE DEF f, N
  <1>4. /\ \A n \in 0 .. N : f[n] = IF n = 0 THEN {p}
                                    ELSE f[n - 1] \cup {Hear(q, out[n]) : q \in f[n - 1]}
    BY <1>3 DEF After
  <1> DEFINE Good == {n \in Nat : n <= N => \A q \in f[n] : Peer(q) /\ p.rcv <= q.rcv}
  <1>5. 0 \in Good
    <2>1. f[0] = {p}
      <3>1. 0 \in 0 .. N
        BY <1>1
      <3>2. QED
        BY <1>4, <3>1
    <2>2. p.rcv <= p.rcv
      BY DEF Peer
    <2>3. QED
      BY <2>1, <2>2
  <1>6. ASSUME NEW n \in Nat, n \in Good PROVE n + 1 \in Good
    <2> SUFFICES ASSUME n + 1 <= N, NEW q \in f[n + 1] PROVE Peer(q) /\ p.rcv <= q.rcv
      OBVIOUS
    <2>1. n + 1 \in 1 .. N /\ n + 1 \in 0 .. N /\ n + 1 # 0 /\ (n + 1) - 1 = n /\ n <= N
      BY <1>1
    <2>2. f[n + 1] = f[n] \cup {Hear(x, out[n + 1]) : x \in f[n]}
      BY <1>4, <2>1
    <2>3. \A x \in f[n] : Peer(x) /\ p.rcv <= x.rcv
      BY <1>6, <2>1
    <2>4. CASE q \in f[n]
      BY <2>3, <2>4
    <2>5. CASE q \notin f[n]
      <3>1. PICK x \in f[n] : q = Hear(x, out[n + 1])
        BY <2>2, <2>5
      <3>2. Peer(x) /\ p.rcv <= x.rcv
        BY <2>3
      <3>3. Peer(q) /\ x.rcv <= q.rcv
        BY <1>1, <2>1, <3>1, <3>2, HearPeer
      <3>4. p.rcv \in Nat /\ x.rcv \in Nat /\ q.rcv \in Nat
        BY <3>2, <3>3 DEF Peer
      <3>5. QED
        BY <3>2, <3>3, <3>4
    <2>6. QED
      BY <2>4, <2>5
  <1> HIDE DEF Good
  <1>7. N \in Good
    BY <1>1, <1>5, <1>6, CountsUp
  <1>8. QED
    BY <1>1, <1>2, <1>7 DEF Good

LEMMA ArrivingAcks ==
    ASSUME NEW m \in Arriving, Peer(peer)
    PROVE  Acks(m, peer.rcv)
  <1>1. peer.rcv \in Nat /\ \A a \in peer.ads : a.ack \in Nat /\ a.ack <= peer.rcv /\ a.wnd \in Nat
    BY DEF Peer
  <1>2. \/ m.ack = 0 /\ m.wnd = W
        \/ \E a \in peer.ads : m.ack = a.ack /\ m.wnd = a.wnd
    BY DEF Arriving
  <1>3. QED
    BY <1>1, <1>2, RingFacts DEF Acks

-----------------------------------------------------------------------------
(* The stream the application sends *)

SendInv ==
    /\ Peer(peer) /\ app.written \in Nat /\ FALSE \notin app.wrong
    /\ tcb.smState = "LISTEN" => app.over \/ app.written = 0
    /\ tcb.out = <<>>
    /\ TxCore(tcb, app.written, peer.rcv, tcb.bFINSent)
    /\ TxState(tcb, app.written, peer.rcv)

\* Together with what the other stream says of the state of the connection.
TcpInv == StreamInv /\ SendInv

LEMMA SendStart ==
    ASSUME TcpInv
    PROVE  /\ TxInv(tcb, app.written, peer.rcv, tcb.bFINSent)
           /\ Socket(tcb) /\ tcb.smState \in States /\ tcb.bFINSent \in BOOLEAN
           /\ app.written \in Nat /\ peer.rcv \in Nat \ {0}
  <1>1. Sent(tcb, peer.rcv, tcb.bFINSent)
    <2>1. tcb.out \in Seq({})
      BY DEF TcpInv, SendInv
    <2>2. QED
      BY <2>1 DEF Sent
  <1>2. TxInv(tcb, app.written, peer.rcv, tcb.bFINSent)
    BY <1>1 DEF TcpInv, SendInv, TxInv, TxHeld
  <1>3. QED
    BY <1>2 DEF TcpInv, SendInv, StreamInv, RxInv, TxInv, TxHeld, TxCore, TxTypes, Peer

\* A step of the socket, with put bytes more.
LEMMA StepSends ==
    ASSUME TcpInv, NEW t, NEW put \in Nat, Step(t, put),
           TxInv(t, app.written + put, peer.rcv, tcb.bFINSent),
           tcb.smState = "LISTEN" => put = 0
    PROVE  SendInv'
  <1> DEFINE b == tcb.bFINSent
             r == peer.rcv
             w == app.written + put
  <1>0. b \in BOOLEAN /\ r \in Nat \ {0} /\ app.written \in Nat
    BY SendStart
  <1>1. /\ tcb' = [t EXCEPT !.out = <<>>]
        /\ peer' \in IF gone THEN {peer} ELSE Heard(peer, t.out)
        /\ app'.written = w
        /\ app'.over = (app.over \/ (t.smState = "LISTEN" /\ tcb.smState # "LISTEN"))
        /\ app'.wrong = IF \E k \in DOMAIN t.out : Misplaced(peer, t.out[k])
                        THEN app.wrong \cup {b} ELSE app.wrong
    BY DEF Step, TcpInv, StreamInv, App
  <1>2. TxHeld(t, w, r, b) /\ TxState(t, w, r) /\ Socket(t) /\ TxTypes(t)
    BY DEF TxInv, TxHeld, TxCore
  <1> HIDE DEF b, r, w
  <1>3. PICK S : t.out \in Seq(S) /\ \A m \in S : Sound(m, r, b)
    BY <1>2 DEF TxHeld, Sent
  <1>4. Peer(peer') /\ r <= peer'.rcv
    <2>1. Peer(peer) /\ peer.rcv = r
      BY DEF TcpInv, SendInv, r
    <2>2. r <= r
      BY <1>0
    <2>3. \A m \in S : m.seq \in Int /\ Len(m.data) \in Nat
      BY <1>3 DEF Sound
    <2>4. ASSUME NEW h \in Heard(peer, t.out) PROVE Peer(h) /\ r <= h.rcv
      BY <1>3, <2>1, <2>3, HeardPeer
    <2>5. QED
      BY <1>1, <2>1, <2>2, <2>4
  <1>5. FALSE \notin app'.wrong
    <2>1. CASE b
      BY <1>0, <1>1, <2>1 DEF TcpInv, SendInv
    <2>2. CASE ~b
      <3>1. ASSUME NEW k \in DOMAIN t.out PROVE ~Misplaced(peer, t.out[k])
        <4> DEFINE m == t.out[k]
        <4>1. m \in S
          BY <1>3
        <4> HIDE DEF m
        <4>2. m.seq \in Int /\ DOMAIN m.data \subseteq Int /\ Placed(m, r)
          BY <1>3, <2>2, <4>1 DEF Sound
        <4>3. ASSUME NEW j \in DOMAIN m.data, m.seq + j - 1 >= r
              PROVE  m.data[j] = m.seq + j - 2
          <5>1. j \in Int /\ m.seq \in Int /\ r \in Int
            BY <1>0, <4>2
          <5>2. ~(m.seq + j - 1 < r)
            BY <4>3, <5>1
          <5>3. QED
            BY <4>2, <5>2 DEF Placed
        <4>4. QED
          BY <4>3 DEF Misplaced, m, r
      <3>2. QED
        BY <1>1, <3>1 DEF TcpInv, SendInv
    <2>3. QED
      BY <1>0, <2>1, <2>2
  <1>6. /\ Socket(tcb') /\ tcb'.smState = t.smState /\ tcb'.out = <<>> /\ tcb'.tx = t.tx
        /\ tcb'.txHead = t.txHead /\ tcb'.txTail = t.txTail
        /\ tcb'.txUnackedTail = t.txUnackedTail
        /\ tcb'.MySEQ = t.MySEQ /\ tcb'.remoteWindow = t.remoteWindow
        /\ tcb'.bSYNSent = t.bSYNSent /\ tcb'.bTimerEnabled = t.bTimerEnabled
        /\ tcb'.bTXFIN = t.bTXFIN /\ tcb'.bFINSent = t.bFINSent
    BY <1>1, <1>2 DEF Socket, Closed
  <1> DEFINE u == tcb'
             r2 == peer'.rcv
  <1>7. u = tcb' /\ r2 = peer'.rcv /\ r2 \in Nat /\ r <= r2
    BY <1>4 DEF Peer
  <1> HIDE DEF u, r2
  <1>8. /\ Held(u) = Held(t) /\ Outstanding(u) = Outstanding(t) /\ Unsent(u) = Unsent(t)
        /\ Una(u) = Una(t) /\ \A p : Off(u, p) = Off(t, p)
    BY <1>6, <1>7 DEF Held, Outstanding, Unsent, Una, Off
  <1>9. TxTypes(u) /\ TxOrder(u)
    BY <1>2, <1>6, <1>7, <1>8 DEF TxHeld, TxCore, TxTypes, TxOrder
  <1>10. Exact(t, w, r) => Exact(u, w, r2)
    <2> SUFFICES ASSUME Exact(t, w, r) PROVE Exact(u, w, r2)
      OBVIOUS
    <2>1. Una(t) \in Int /\ Una(t) <= r
      BY <1>2, TxRange DEF Exact
    <2>2. Una(u) <= r2
      BY <1>0, <1>7, <1>8, <2>1
    <2>3. QED
      BY <1>6, <1>7, <1>8, <2>2 DEF Exact
  <1>11. TxCore(u, w, r2, u.bFINSent)
    BY <1>2, <1>6, <1>7, <1>8, <1>9, <1>10 DEF TxHeld, TxCore
  <1>12. TxState(u, w, r2)
    BY <1>2, <1>6, <1>7, <1>8, <1>10 DEF TxState, Fresh
  <1>13. tcb'.smState = "LISTEN" => app'.over \/ app'.written = 0
    <2>1. CASE tcb.smState = "LISTEN"
      <3>1. w = app.written
        BY <1>0, <2>1 DEF w
      <3>2. app.over \/ app.written = 0
        BY <2>1 DEF TcpInv, SendInv
      <3>3. app'.over = (app.over \/ FALSE)
        BY <1>1, <2>1
      <3>4. QED
        BY <1>1, <3>1, <3>2, <3>3
    <2>2. CASE tcb.smState # "LISTEN"
      BY <1>1, <1>6, <2>2
    <2>3. QED
      BY <2>1, <2>2
  <1>14. app'.written \in Nat
    BY <1>0, <1>1 DEF w
  <1>15. QED
    BY <1>1, <1>4, <1>5, <1>6, <1>7, <1>11, <1>12, <1>13, <1>14 DEF SendInv

LEMMA ProcessSends == ASSUME TcpInv, TCPProcess PROVE SendInv'
  <1> DEFINE s == [tcb EXCEPT !.vUnackedKeepalives = 0]
             b == tcb.bFINSent
             r == peer.rcv
  <1>1. PICK m \in Arriving : Step(HandleTCPSeg(s, m), 0)
    BY DEF TCPProcess, Becomes
  <1>2. /\ TxInv(tcb, app.written, r, b) /\ Socket(tcb) /\ tcb.smState \in States
        /\ r \in Nat \ {0} /\ app.written \in Nat
    BY SendStart
  <1>3. Socket(s) /\ SameTx(tcb, s) /\ s.smState = tcb.smState
    BY <1>2 DEF Socket, SameTx, Closed
  <1>4. s.smState = "LISTEN" => app.written = 0
    BY <1>3 DEF TCPProcess, TcpInv, SendInv
  <1>5. Acks(m, r)
    BY ArrivingAcks DEF TcpInv, SendInv
  <1>6. m.seq \in Int
    <2>1. Carried(m, app.limit[2])
      BY StreamTypes, ArrivingCarried DEF TcpInv, StreamInv
    <2>2. QED
      BY <2>1 DEF Carried
  <1> HIDE DEF s
  <1>7. TxInv(s, app.written, r, b) /\ s.bFINSent = b
    BY <1>2, <1>3, SameInv DEF SameTx
  <1> HIDE DEF b, r
  <1>8. 1 <= r /\ r \in Int
    BY <1>2
  <1>9. TxInv(HandleTCPSeg(s, m), app.written, r, b)
    BY <1>2, <1>3, <1>4, <1>5, <1>6, <1>7, <1>8, HandleKeeps
  <1>10. app.written + 0 = app.written
    BY <1>2
  <1>11. QED
    BY <1>1, <1>9, <1>10, StepSends DEF b, r

\* A step that puts nothing.
LEMMA BecomesSends ==
    ASSUME TcpInv, NEW t, Step(t, 0), TxInv(t, app.written, peer.rcv, tcb.bFINSent)
    PROVE  SendInv'
  <1>1. app.written + 0 = app.written
    BY SendStart
  <1>2. QED
    BY <1>1, StepSends

LEMMA TimerSends == ASSUME TcpInv, TickTimer PROVE SendInv'
  <1> DEFINE w == app.written
             b == tcb.bFINSent
             r == peer.rcv
             again == tcb.retryCount < Retries[tcb.smState] /\ tcb.smState # "FIN_WAIT_2"
             last  == /\ tcb.retryCount >= Retries[tcb.smState]
                      /\ tcb.smState \in {"ESTABLISHED", "CLOSE_WAIT"}
             q == [tcb EXCEPT !.smState = "FIN_WAIT_1"]
             t == CASE again -> Resend(tcb, Flags[tcb.smState])
                    [] last -> SendTCP(q, {"FIN", "ACK"}, RESET)
                    [] OTHER -> GiveUp(tcb)
  <1>1. Step(t, 0)
    BY DEF TickTimer, Becomes
  <1>2. /\ TxInv(tcb, w, r, b) /\ Socket(tcb) /\ tcb.smState \in States
        /\ r \in Int /\ TxTypes(tcb) /\ Sent(tcb, r, b)
    BY SendStart DEF TxInv, TxHeld, TxCore
  <1>3. RESET # KEEP_ALIVE
    BY DEF RESET, KEEP_ALIVE
  <1>4. tcb.smState # "LISTEN"
    BY <1>2 DEF TickTimer, TxInv, TxState, Fresh
  <1>5. ASSUME again PROVE TxInv(Resend(tcb, Flags[tcb.smState]), w, r, b)
    BY <1>2, <1>4, <1>5, ResendKeeps
  <1>6. TxInv(SendTCP(q, {"FIN", "ACK"}, RESET), w, r, b)
    <2> DEFINE u == SendTCP(q, {"FIN", "ACK"}, RESET)
    <2>1. Socket(q) /\ SameTx(tcb, q) /\ q.smState = "FIN_WAIT_1"
      BY <1>2 DEF Socket, SameTx, Closed
    <2> HIDE DEF q
    <2>2. TxHeld(u, w, r, b)
      BY <1>2, <1>3, <2>1, SameHeld, FinKeeps DEF TxInv
    <2>3. u.smState = "FIN_WAIT_1"
      BY <2>1, SendEffect
    <2>4. QED
      BY <2>2, <2>3 DEF TxInv, TxState, Sending
  <1>7. TxInv(GiveUp(tcb), w, r, b)
    BY <1>2, <1>3, ResetKeeps DEF GiveUp
  <1>8. TxInv(t, w, r, b)
    <2> HIDE DEF again, last, w, r, b, q
    <2>1. \/ again /\ t = Resend(tcb, Flags[tcb.smState])
          \/ t = SendTCP(q, {"FIN", "ACK"}, RESET)
          \/ t = GiveUp(tcb)
      OBVIOUS
    <2>2. QED
      BY <1>5, <1>6, <1>7, <2>1
  <1> HIDE DEF t
  <1>9. QED
    BY <1>1, <1>8, BecomesSends

LEMMA TickSends == ASSUME TcpInv, TCPTick PROVE SendInv'
  <1> DEFINE w == app.written
             b == tcb.bFINSent
             r == peer.rcv
             how == IF tcb.bTXASAPWithoutTimerReset THEN {} ELSE RESET
  <1>1. /\ TxInv(tcb, w, r, b) /\ Socket(tcb) /\ r \in Int
        /\ TxTypes(tcb) /\ TxOrder(tcb) /\ tcb.MySEQ \in Int
    BY SendStart DEF TxInv, TxHeld, TxCore, TxTypes
  <1>2. how # KEEP_ALIVE
    BY DEF RESET, KEEP_ALIVE
  <1> HIDE DEF w, b, r, how
  <1>3. CASE TickTransmit
    <2>1. Step(SendTCP(tcb, {"ACK"}, how), 0)
      BY <1>3 DEF TickTransmit, Becomes, how
    <2>2. TxInv(SendTCP(tcb, {"ACK"}, how), w, r, b)
      BY <1>1, <1>2, SendKeeps
    <2>3. QED
      BY <2>1, <2>2, BecomesSends DEF w, r, b
  <1>4. CASE TickCloseWait
    <2> DEFINE q == [tcb EXCEPT !.smState = "LAST_ACK"]
               u == SendTCP(q, {"FIN", "ACK"}, how)
    <2>1. Step(u, 0)
      BY <1>4 DEF TickCloseWait, Becomes, how
    <2>2. Socket(q) /\ SameTx(tcb, q) /\ q.smState = "LAST_ACK"
      BY <1>1 DEF Socket, SameTx, Closed
    <2> HIDE DEF q
    <2>3. TxHeld(u, w, r, b)
      BY <1>1, <1>2, <2>2, SameHeld, FinKeeps DEF TxInv
    <2>4. u.smState = "LAST_ACK"
      BY <2>2, SendEffect
    <2> HIDE DEF u
    <2>5. TxInv(u, w, r, b)
      BY <2>3, <2>4 DEF TxInv, TxState, Sending
    <2>6. QED
      BY <2>1, <2>5, BecomesSends DEF w, r, b
  <1>5. CASE TickKeepAlive
    <2>1. CASE tcb.vUnackedKeepalives = MAX_UNACKED_KEEP_ALIVES
      <3>1. Step(Disconnect(Disconnect(tcb)), 0)
        BY <1>5, <2>1 DEF TickKeepAlive, Becomes
      <3>2. TxInv(Disconnect(Disconnect(tcb)), w, r, b)
        BY <1>1, DisconnectKeeps
      <3>3. QED
        BY <3>1, <3>2, BecomesSends DEF w, r, b
    <2>2. CASE tcb.vUnackedKeepalives # MAX_UNACKED_KEEP_ALIVES
      <3>1. Step(SendTCP(tcb, {"ACK"}, KEEP_ALIVE), 0)
        BY <1>5, <2>2 DEF TickKeepAlive, Becomes
      <3>2. ~tcb.bTXFIN /\ Exact(tcb, w, r)
        BY <1>1, <1>5 DEF TickKeepAlive, TxInv, TxState, Sending
      <3>3. Outstanding(tcb) = 0
        BY <1>1, <1>5 DEF TickKeepAlive, TxOrder
      <3>4. tcb.MySEQ <= r
        BY <1>1, <3>2, <3>3 DEF Exact, Una
      <3>5. TxInv(SendTCP(tcb, {"ACK"}, KEEP_ALIVE), w, r, b)
        BY <1>1, <3>2, <3>4, SendKeeps
      <3>6. QED
        BY <3>1, <3>5, BecomesSends DEF w, r, b
    <2>3. QED
      BY <2>1, <2>2
  <1>6. CASE TickTimer
    BY <1>6, TimerSends
  <1>7. QED
    BY <1>3, <1>4, <1>5, <1>6 DEF TCPTick

LEMMA PutSends ==
    ASSUME TcpInv, NEW len \in Nat, NEW flush, Put(len, flush)
    PROVE  SendInv'
  <1> DEFINE n == Least(PutReady(tcb), len)
             b == tcb.bFINSent
             r == peer.rcv
             q == TCPPutArray(tcb, len)
             t == IF flush THEN TCPFlush(q) ELSE q
  <1>1. Step(t, n) /\ tcb.smState # "LISTEN"
    BY DEF Put
  <1>2. TxInv(tcb, app.written, r, b) /\ r \in Int /\ app.written \in Nat
    BY SendStart
  <1>3. TxInv(q, app.written + n, r, b) /\ n \in Nat
    <2>1. CASE tcb.smState \in {"ESTABLISHED", "CLOSE_WAIT"}
      <3>1. TxInv(q, app.written + n, r, b)
        BY <1>2, <2>1, PutKeeps
      <3>2. PutReady(tcb) = T - 1 - Held(tcb)
        BY <2>1 DEF PutReady, Held
      <3>3. Held(tcb) \in Nat /\ Held(tcb) < T /\ T \in Nat
        BY <1>2, TxRange, RingFacts DEF TxInv, TxHeld, TxCore
      <3>4. PutReady(tcb) \in Nat
        BY <3>2, <3>3
      <3>5. QED
        BY <3>1, <3>4 DEF Least
    <2>2. CASE tcb.smState \notin {"ESTABLISHED", "CLOSE_WAIT"}
      <3>1. PutReady(tcb) = 0
        BY <2>2 DEF PutReady
      <3>2. q = TCPFlush(tcb) /\ n = 0
        BY <3>1 DEF TCPPutArray, Least
      <3>3. TxInv(TCPFlush(tcb), app.written, r, b)
        BY <1>2, FlushKeeps
      <3> HIDE DEF q, n
      <3>4. QED
        BY <1>2, <3>2, <3>3
    <2>3. QED
      BY <2>1, <2>2
  <1> HIDE DEF q, n
  <1>5. TxInv(t, app.written + n, r, b)
    BY <1>2, <1>3, FlushKeeps
  <1> HIDE DEF t
  <1>6. QED
    BY <1>1, <1>3, <1>5, StepSends

LEMMA GetSends ==
    ASSUME TcpInv, NEW len, TCPGetArray(len)
    PROVE  SendInv'
  <1> DEFINE w == app.written
             b == tcb.bFINSent
             r == peer.rcv
             t == tcb'
  <1>1. TxInv(tcb, w, r, b) /\ Socket(tcb)
    BY SendStart
  <1>2. Socket(t) /\ SameTx(tcb, t) /\ t.smState = tcb.smState
    BY <1>1 DEF TCPGetArray, Socket, SameTx, Closed
  <1>3. app'.written = app.written /\ app'.wrong = app.wrong /\ app'.over = app.over
        /\ peer' = peer
    BY DEF TCPGetArray, TcpInv, StreamInv, App
  <1> HIDE DEF t, w, r, b
  <1>4. TxInv(t, w, r, b) /\ t.bFINSent = b /\ t.out = tcb.out
    BY <1>1, <1>2, SameInv DEF SameTx, b
  <1>5. TxCore(t, w, r, b) /\ TxState(t, w, r)
    BY <1>4 DEF TxInv, TxHeld
  <1>6. QED
    BY <1>2, <1>3, <1>4, <1>5 DEF TcpInv, SendInv, t, w, r

\* Only the peer moves, and takes nothing back.
LEMMA PeerSends ==
    ASSUME TcpInv, PeerRead \/ PeerClose \/ PeerGone
    PROVE  SendInv'
  <1>1. Peer(peer)
    BY DEF TcpInv, SendInv
  <1>2. Peer(peer') /\ peer'.rcv = peer.rcv
    <2>1. CASE PeerRead
      <3> DEFINE q == [peer EXCEPT !.edge = @ + 1]
      <3>1. /\ DOMAIN q = {"rcv", "edge", "ads", "fin", "done"}
            /\ q.rcv = peer.rcv /\ q.edge = peer.edge + 1 /\ q.ads = peer.ads
        BY <1>1 DEF Peer
      <3>2. peer' = Offer(q)
        BY <2>1 DEF PeerRead
      <3> HIDE DEF q
      <3>3. q.edge \in Nat /\ q.rcv <= q.edge
        BY <1>1, <3>1 DEF Peer
      <3>4. Peer(q)
        BY <1>1, <3>1, <3>3 DEF Peer
      <3>5. QED
        BY <3>1, <3>2, <3>4, OfferPeer
    <2>2. CASE PeerClose
      <3>1. /\ DOMAIN peer' = {"rcv", "edge", "ads", "fin", "done"}
            /\ peer'.rcv = peer.rcv /\ peer'.edge = peer.edge /\ peer'.ads = peer.ads
        BY <1>1, <2>2 DEF PeerClose, Peer
      <3>2. QED
        BY <1>1, <3>1 DEF Peer
    <2>3. CASE PeerGone
      BY <1>1, <2>3 DEF PeerGone
    <2>4. QED
      BY <2>1, <2>2, <2>3
  <1>3. tcb' = tcb /\ app' = app
    BY DEF PeerRead, PeerClose, PeerGone
  <1>4. QED
    BY <1>2, <1>3 DEF TcpInv, SendInv

LEMMA SendInit == Init => SendInv
  <1> SUFFICES ASSUME Init PROVE SendInv
    OBVIOUS
  <1>1. tcb = Closed
    BY DEF Init
  <1>2. Peer(peer) /\ peer.rcv = 1
    <2>1. W \in Nat /\ 1 + W - 1 \in Nat /\ 1 <= 1 + W
      BY RingFacts
    <2>2. QED
      BY <2>1 DEF Init, Peer
  <1>3. app.written = 0 /\ app.wrong = {}
    BY DEF Init
  <1> DEFINE b == tcb.bFINSent
             s == CloseSocket(tcb)
  <1>4. tcb.out = <<>>
    BY <1>1 DEF Closed
  <1>5. Sent(tcb, 1, b)
    <2>1. tcb.out \in Seq({})
      BY <1>4
    <2>2. QED
      BY <2>1 DEF Sent
  <1>6. Socket(tcb) /\ SameTx(s, tcb) /\ tcb.smState = s.smState
    BY <1>1 DEF CloseSocket, Closed, Socket, SameTx
  <1> HIDE DEF b, s
  <1>7. TxInv(s, 0, 1, b)
    BY <1>5, CloseKeeps DEF s
  <1>8. TxInv(tcb, 0, 1, b)
    BY <1>6, <1>7, SameInv
  <1>9. TxCore(tcb, 0, 1, b) /\ TxState(tcb, 0, 1)
    BY <1>8 DEF TxInv, TxHeld
  <1>10. QED
    BY <1>2, <1>3, <1>4, <1>9 DEF SendInv, b

LEMMA SendStep == TcpInv /\ [Next]_vars => TcpInv'
  <1> SUFFICES ASSUME TcpInv, [Next]_vars PROVE SendInv'
    BY StreamStep DEF TcpInv
  <1>1. CASE TCPProcess
    BY <1>1, ProcessSends
  <1>2. CASE TCPTick
    BY <1>2, TickSends
  <1>3. CASE Application
    <2>1. ASSUME NEW len \in 1 .. 2, NEW flush, Put(len, flush) PROVE SendInv'
      BY <2>1, PutSends
    <2>2. ASSUME NEW len \in 1 .. 2, TCPGetArray(len) PROVE SendInv'
      BY <2>2, GetSends
    <2>3. ASSUME TCPDisconnect PROVE SendInv'
      <3>1. TxInv(Disconnect(tcb), app.written, peer.rcv, tcb.bFINSent)
        BY SendStart, DisconnectKeeps
      <3>2. QED
        BY <2>3, <3>1, BecomesSends DEF TCPDisconnect, Becomes
    <2>4. QED
      BY <1>3, <2>1, <2>2, <2>3 DEF Application
  <1>4. CASE PeerRead \/ PeerClose \/ PeerGone
    BY <1>4, PeerSends
  <1>5. CASE UNCHANGED vars
    BY <1>5 DEF vars, TcpInv, SendInv
  <1>6. QED
    BY <1>1, <1>2, <1>3, <1>4, <1>5 DEF Next

\* Until the FIN goes out, what the peer can accept of the segments the board
\* sends are the application's bytes at their places: after any loss, roll-back
\* (three duplicate ACKs, the timer), late acknowledgement, closed window or
\* keep-alive (SendTCP, HandleTCPSeg, TCPTick, TCPPutArray).
THEOREM SendsInPlace == Spec => []SendsStream
  <1>1. Init => TcpInv
    BY StreamInit, SendInit DEF TcpInv
  <1>2. TcpInv => SendsStream
    BY DEF TcpInv, SendInv, SendsStream
  <1>3. QED
    BY <1>1, <1>2, SendStep, PTL DEF Spec
=============================================================================
