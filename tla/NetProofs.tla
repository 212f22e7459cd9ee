------------------------------ MODULE NetProofs ------------------------------
(***************************************************************************)
(* What the network tasks promise, for every size of the packets and every *)
(* interleaving: what the bridge hands to the TCP client is in order       *)
(* (RxInOrder), what the client sends leaves on the serial line complete   *)
(* (TxExact), the three users of the name resolver each go on with the     *)
(* address of their own host (OwnAddress), and the DHCP client keeps to    *)
(* its lease (BoundOnLease) and renews its own address (RenewsOwnAddress)  *)
(* whatever is lost, late, answered twice or refused.                      *)
(***************************************************************************)
EXTENDS SerialBridge, NameResolver, DhcpClient, SequenceTheorems, TLAPS

-----------------------------------------------------------------------------
(* Sequences of bytes *)

\* The bytes of the client are numbered without a gap (ClientBytes).
LEMMA ClientBytesShape ==
    ASSUME NEW n \in Nat, NEW len \in Nat
    PROVE  /\ ClientBytes(n, len) \in Seq(Nat)
           /\ Len(ClientBytes(n, len)) = len
           /\ \A i \in 1 .. len : ClientBytes(n, len)[i] = n + i
  BY DEF ClientBytes

\* The next byte of the client continues what was sent.
LEMMA ClientBytesGrow ==
    ASSUME NEW len \in Nat
    PROVE  Append(ClientBytes(0, len), len + 1) = ClientBytes(0, len + 1)
  <1>1. /\ ClientBytes(0, len) \in Seq(Nat)
        /\ ClientBytes(0, len + 1) \in Seq(Nat)
        /\ Len(ClientBytes(0, len)) = len
        /\ Len(ClientBytes(0, len + 1)) = len + 1
    BY DEF ClientBytes
  <1>2. \A i \in 1 .. len : ClientBytes(0, len)[i] = i
    BY DEF ClientBytes
  <1>3. \A i \in 1 .. len + 1 : ClientBytes(0, len + 1)[i] = i
    BY DEF ClientBytes
  <1> DEFINE longer == Append(ClientBytes(0, len), len + 1)
  <1>4. /\ longer \in Seq(Nat) /\ Len(longer) = len + 1
        /\ \A i \in 1 .. len + 1 : longer[i] = i
    BY <1>1, <1>2
  <1>5. QED
    BY <1>1, <1>3, <1>4, SeqEqual

\* Strictly increasing, and s all before t.
Rising(s)    == \A i, j \in DOMAIN s : i < j => s[i] < s[j]
Before(s, t) == \A i \in DOMAIN s, j \in DOMAIN t : s[i] < t[j]
UpTo(s, n)   == \A i \in DOMAIN s : s[i] <= n

\* A byte later than all others keeps a packet in order (pack_prase_in).
LEMMA AppendRises ==
    ASSUME NEW s \in Seq(Nat), NEW n \in Nat, Rising(s), UpTo(s, n)
    PROVE  /\ Append(s, n + 1) \in Seq(Nat)
           /\ Len(Append(s, n + 1)) = Len(s) + 1
           /\ Rising(Append(s, n + 1))
           /\ UpTo(Append(s, n + 1), n + 1)
  BY DEF Rising, UpTo

\* The first bytes of a packet go behind what the client already has (put).
LEMMA PutRises ==
    ASSUME NEW s \in Seq(Nat), NEW t \in Seq(Nat), NEW w \in 0 .. Len(t), NEW n \in Nat,
           Rising(s), Rising(t), Before(s, t), UpTo(s, n), UpTo(t, n)
    PROVE  /\ s \o SubSeq(t, 1, w) \in Seq(Nat)
           /\ Rising(s \o SubSeq(t, 1, w))
           /\ UpTo(s \o SubSeq(t, 1, w), n)
  <1> DEFINE u == SubSeq(t, 1, w)
  <1>1. \A i \in 1 .. w : t[i] \in Nat
    OBVIOUS
  <1>2. u \in Seq(Nat) /\ Len(u) = w /\ \A i \in 1 .. w : u[i] = t[i]
    BY <1>1, SubSeqProperties
  <1> HIDE DEF u
  <1>3. /\ s \o u \in Seq(Nat)
        /\ Len(s \o u) = Len(s) + w
        /\ \A i \in 1 .. Len(s) + w : (s \o u)[i] = IF i <= Len(s) THEN s[i] ELSE u[i - Len(s)]
    BY <1>2, ConcatProperties
  <1>4. /\ \A i \in 1 .. Len(s) : (s \o u)[i] = s[i]
        /\ \A i \in Len(s) + 1 .. Len(s) + w : i - Len(s) \in 1 .. w /\ (s \o u)[i] = t[i - Len(s)]
    BY <1>2, <1>3
  <1>5. /\ DOMAIN s = 1 .. Len(s) /\ DOMAIN t = 1 .. Len(t) /\ DOMAIN (s \o u) = 1 .. Len(s) + w
        /\ Len(s) \in Nat /\ Len(t) \in Nat /\ w \in Nat /\ w <= Len(t)
    BY <1>3, LenProperties
  <1>6. Rising(s \o u)
    <2> SUFFICES ASSUME NEW i \in 1 .. Len(s) + w, NEW j \in 1 .. Len(s) + w, i < j
                 PROVE  (s \o u)[i] < (s \o u)[j]
      BY <1>5 DEF Rising
    <2>1. i \in Nat /\ j \in Nat
      BY <1>5
    <2>2. CASE j <= Len(s)
      <3>1. i \in DOMAIN s /\ j \in DOMAIN s
        BY <1>5, <2>1, <2>2
      <3>2. (s \o u)[i] = s[i] /\ (s \o u)[j] = s[j]
        BY <1>4, <1>5, <3>1
      <3>3. QED
        BY <3>1, <3>2 DEF Rising
    <2>3. CASE i <= Len(s) /\ j > Len(s)
      <3>1. i \in DOMAIN s /\ j - Len(s) \in DOMAIN t
        BY <1>5, <2>1, <2>3
      <3>2. (s \o u)[i] = s[i] /\ (s \o u)[j] = t[j - Len(s)]
        BY <1>4, <1>5, <2>1, <2>3, <3>1
      <3>3. QED
        BY <3>1, <3>2 DEF Before
    <2>4. CASE i > Len(s)
      <3>1. i - Len(s) \in DOMAIN t /\ j - Len(s) \in DOMAIN t /\ i - Len(s) < j - Len(s)
        BY <1>5, <2>1, <2>4
      <3>2. (s \o u)[i] = t[i - Len(s)] /\ (s \o u)[j] = t[j - Len(s)]
        BY <1>4, <1>5, <2>1, <2>4
      <3>3. QED
        BY <3>1, <3>2 DEF Rising
    <2>5. j <= Len(s) \/ (i <= Len(s) /\ j > Len(s)) \/ i > Len(s)
      BY <1>5, <2>1
    <2>6. QED
      BY <2>2, <2>3, <2>4, <2>5
  <1>7. UpTo(s \o u, n)
    <2> SUFFICES ASSUME NEW i \in 1 .. Len(s) + w PROVE (s \o u)[i] <= n
      BY <1>5 DEF UpTo
    <2>1. CASE i <= Len(s)
      <3>1. i \in DOMAIN s /\ (s \o u)[i] = s[i]
        BY <1>4, <1>5, <2>1
      <3>2. QED
        BY <3>1 DEF UpTo
    <2>2. CASE i > Len(s)
      <3>1. i - Len(s) \in DOMAIN t /\ (s \o u)[i] = t[i - Len(s)]
        BY <1>4, <1>5, <2>2
      <3>2. QED
        BY <3>1 DEF UpTo
    <2>3. QED
      BY <1>5, <2>1, <2>2
  <1>8. QED
    BY <1>3, <1>6, <1>7 DEF u

-----------------------------------------------------------------------------
(* From the serial line to the client *)

\* Between put and the first clear_index the packet still holds what the socket
\* has taken; at any other time all its bytes are later than the client's.
RxInv ==
    /\ rx_packet \in Seq(Nat) /\ to_tcp \in Seq(Nat) /\ line \in Nat
    /\ Len(rx_packet) <= PACK_MAX_RX_SIZE
    /\ Rising(rx_packet) /\ Rising(to_tcp)
    /\ UpTo(rx_packet, line) /\ UpTo(to_tcp, line)
    /\ pc # "clear_index" => Before(to_tcp, rx_packet)

\* Most of the main loop leaves the bytes alone.
LEMMA RxSame ==
    ASSUME RxInv, UNCHANGED <<rx_packet, to_tcp, line>>,
           pc' # "clear_index" => pc # "clear_index"
    PROVE  RxInv'
  BY DEF RxInv

LEMMA RxNext == RxInv /\ [Next]_vars => RxInv'
  <1> SUFFICES ASSUME RxInv, [Next]_vars PROVE RxInv'
    OBVIOUS
  <1> USE DEF rxVars, txVars, netVars, pcVars
  <1>1. CASE pack_prase_in
    <2>1. UpTo(rx_packet, line') /\ UpTo(to_tcp, line') /\ line' \in Nat
      BY <1>1 DEF pack_prase_in, RxInv, UpTo
    <2>2. CASE PacketOpen /\ HasRoom
      <3>1. /\ rx_packet' \in Seq(Nat) /\ Len(rx_packet') <= PACK_MAX_RX_SIZE
            /\ Rising(rx_packet') /\ UpTo(rx_packet', line')
        <4>1. rx_packet' = Append(rx_packet, line + 1) /\ line' = line + 1
          BY <1>1, <2>2 DEF pack_prase_in
        <4>2. /\ rx_packet' \in Seq(Nat) /\ Len(rx_packet') = Len(rx_packet) + 1
              /\ Rising(rx_packet') /\ UpTo(rx_packet', line')
          BY <4>1, AppendRises DEF RxInv
        <4>3. Len(rx_packet) \in Nat /\ Len(rx_packet) < PACK_MAX_RX_SIZE
          BY <2>2 DEF RxInv, HasRoom
        <4>4. QED
          BY <4>2, <4>3, BridgeAssumption
      <3>2. ASSUME Before(to_tcp, rx_packet) PROVE Before(to_tcp, rx_packet')
        <4>1. /\ \A i \in 1 .. Len(rx_packet) : rx_packet'[i] = rx_packet[i]
              /\ rx_packet'[Len(rx_packet) + 1] = line + 1
              /\ DOMAIN rx_packet' = 1 .. Len(rx_packet) + 1
              /\ DOMAIN rx_packet = 1 .. Len(rx_packet)
          <5>1. rx_packet' = Append(rx_packet, line + 1) /\ line + 1 \in Nat
            BY <1>1, <2>2 DEF pack_prase_in, RxInv
          <5>2. rx_packet \in Seq(Nat) /\ rx_packet' \in Seq(Nat)
            BY <3>1 DEF RxInv
          <5>3. QED
            BY <5>1, <5>2, AppendProperties, LenProperties
        <4>2. \A i \in DOMAIN to_tcp : to_tcp[i] \in Nat /\ to_tcp[i] < line + 1
          BY DEF RxInv, UpTo
        <4>3. QED
          <5> SUFFICES ASSUME NEW i \in DOMAIN to_tcp, NEW j \in 1 .. Len(rx_packet) + 1
                       PROVE  to_tcp[i] < rx_packet'[j]
            BY <1>1, <4>1 DEF Before, pack_prase_in
          <5>1. CASE j = Len(rx_packet) + 1
            BY <5>1, <4>1, <4>2
          <5>2. CASE j # Len(rx_packet) + 1
            <6>1. j \in 1 .. Len(rx_packet)
              BY <5>2 DEF RxInv
            <6>2. QED
              BY <3>2, <4>1, <6>1 DEF Before
          <5>3. QED
            BY <5>1, <5>2
      <3>3. QED
        BY <1>1, <2>1, <3>1, <3>2 DEF pack_prase_in, RxInv
    <2>3. CASE ~(PacketOpen /\ HasRoom)
      BY <1>1, <2>1, <2>3 DEF pack_prase_in, RxInv
    <2>4. QED
      BY <2>2, <2>3
  <1>2. CASE put
    <2>1. PICK room \in 0 .. PACK_MAX_RX_SIZE : wMaxPut' = Least(Len(rx_packet), room)
      BY <1>2 DEF put
    <2>2. wMaxPut' \in 0 .. Len(rx_packet)
      BY <2>1, BridgeAssumption DEF Least, RxInv
    <2>3. to_tcp' = to_tcp \o SubSeq(rx_packet, 1, wMaxPut') /\ Before(to_tcp, rx_packet)
      BY <1>2 DEF put, RxInv
    <2>4. to_tcp' \in Seq(Nat) /\ Rising(to_tcp') /\ UpTo(to_tcp', line)
      BY <2>2, <2>3, PutRises DEF RxInv
    <2>5. ASSUME pc' # "clear_index" PROVE Before(to_tcp', rx_packet)
      <3>1. wMaxPut' = 0
        BY <1>2, <2>2, <2>5 DEF put, RxInv
      <3>2. to_tcp' = to_tcp
        BY <2>3, <3>1, SubSeqEmpty, ConcatEmptySeq DEF RxInv
      <3>3. QED
        BY <2>3, <3>2
    <2>6. QED
      BY <1>2, <2>4, <2>5 DEF put, RxInv
  <1>3. CASE clear_index
    <2>1. rx_packet' = <<>> /\ UNCHANGED <<to_tcp, line>>
      BY <1>3 DEF clear_index, Emptied
    <2>2. QED
      BY <2>1, BridgeAssumption DEF RxInv, Rising, UpTo, Before
  <1>4. CASE ISR_send
    BY <1>4, RxSame DEF ISR_send
  <1>5. CASE RxTimeout \/ Connection
    BY <1>5, RxSame DEF RxTimeout, Connection
  <1>6. CASE task \/ clear_finished \/ get \/ post \/ start
    BY <1>6, RxSame DEF task, clear_finished, get, post, start, Goto
  <1>7. CASE tick \/ tick_load \/ tick_test \/ tick_finish
    BY <1>7, RxSame DEF tick, tick_load, tick_test, tick_finish, Goto
  <1>8. CASE UNCHANGED vars
    BY <1>8, RxSame DEF vars
  <1>9. QED
    BY <1>1, <1>2, <1>3, <1>4, <1>5, <1>6, <1>7, <1>8 DEF Next, MainLoop

\* Bytes of the serial line fit the packet and reach the client in order and
\* once, for every packet size and however the interrupt comes (pack_prase_in,
\* UART2TCPBridgeTask2).
THEOREM LineInOrder == Spec => []RxInOrder
  <1>1. Init => RxInv
    BY BridgeAssumption DEF Init, RxInv, Rising, UpTo, Before
  <1>2. RxInv => RxInOrder
    BY DEF RxInv, RxInOrder, Rising
  <1>3. QED
    BY <1>1, <1>2, RxNext, PTL DEF Spec

-----------------------------------------------------------------------------
(* From the client to the serial line *)

Labels == {"task", "put", "clear_index", "clear_index_again", "clear_finished",
           "clear_finished_again", "get", "post", "start", "tick", "tick_load",
           "tick_test", "tick_finish"}

\* The packet holds bytes that were taken and not yet all sent.
Sending == tx_finished \/ pc = "post"

\* How many bytes of the packet the interrupt has sent.
Position == IF pcurrent_tx THEN tx_index ELSE 0

\* The packet is the latest bytes that were taken from the client, and all but
\* what is left of it is sent.  The interrupt holds the packet only between post
\* and the end of the packet.
TxInv ==
    /\ from_tcp \in Nat /\ tx_packet \in Seq(Nat) /\ tx_index \in Nat
    /\ tx_finished \in BOOLEAN /\ pcurrent_tx \in BOOLEAN
    /\ sent \in Seq(Nat) /\ sent = ClientBytes(0, Len(sent))
    /\ pcurrent_tx => tx_finished
    /\ pc = "post" => ~tx_finished
    /\ Sending =>
          /\ Position <= Len(tx_packet)
          /\ Len(tx_packet) <= from_tcp
          /\ tx_packet = ClientBytes(from_tcp - Len(tx_packet), Len(tx_packet))
          /\ Len(sent) = from_tcp - Len(tx_packet) + Position
    /\ ~Sending => Len(sent) = from_tcp

LEMMA TxSame ==
    ASSUME TxInv, UNCHANGED <<txVars, from_tcp, sent>>, pc # "post", pc' # "post"
    PROVE  TxInv'
  BY DEF TxInv, Sending, Position, txVars

LEMMA TxNext == TxInv /\ [Next]_vars => TxInv'
  <1> SUFFICES ASSUME TxInv, [Next]_vars PROVE TxInv'
    OBVIOUS
  <1> USE DEF netVars, pcVars
  <1>1. CASE ISR_send
    <2>1. /\ tx_finished /\ Sending /\ pc # "post" /\ pc' = pc
          /\ UNCHANGED <<tx_packet, from_tcp>>
      BY <1>1 DEF ISR_send, TxInv, Sending
    <2>2. CASE Position < Len(tx_packet)
      <3>1. /\ sent' = Append(sent, tx_packet[Position + 1])
            /\ tx_index' = Position + 1 /\ pcurrent_tx' = TRUE /\ tx_finished' = TRUE
        BY <1>1, <2>1, <2>2 DEF ISR_send, Position
      <3>2. Position \in Nat /\ Len(tx_packet) \in Nat /\ Len(sent) \in Nat
        BY DEF TxInv, Position
      <3>3. tx_packet[Position + 1] = Len(sent) + 1
        <4>1. Position + 1 \in 1 .. Len(tx_packet)
          BY <2>2, <3>2
        <4>2. from_tcp - Len(tx_packet) \in Nat
          BY <2>1, <3>2 DEF TxInv
        <4>3. ClientBytes(from_tcp - Len(tx_packet), Len(tx_packet))[Position + 1]
                = (from_tcp - Len(tx_packet)) + (Position + 1)
          BY <3>2, <4>1, <4>2, ClientBytesShape
        <4>4. tx_packet[Position + 1] = (from_tcp - Len(tx_packet)) + (Position + 1)
          BY <2>1, <4>3 DEF TxInv
        <4>5. from_tcp \in Nat /\ Len(sent) = from_tcp - Len(tx_packet) + Position
          BY <2>1 DEF TxInv
        <4>6. QED
          BY <3>2, <4>4, <4>5
      <3>4. sent' = ClientBytes(0, Len(sent) + 1)
        BY <3>1, <3>2, <3>3, ClientBytesGrow DEF TxInv
      <3>5. sent' \in Seq(Nat) /\ Len(sent') = Len(sent) + 1
        BY <3>2, <3>4, ClientBytesShape
      <3>6. Position' = Position + 1 /\ Sending'
        BY <3>1 DEF Position, Sending
      <3>7. QED
        <4>1. Position' <= Len(tx_packet) /\ Position + 1 \in Nat
          BY <2>2, <3>2, <3>6
        <4>2. Len(sent') = from_tcp - Len(tx_packet) + Position'
          <5>1. from_tcp \in Nat /\ Len(sent) = from_tcp - Len(tx_packet) + Position
            BY <2>1 DEF TxInv
          <5>2. QED
            BY <3>2, <3>5, <3>6, <5>1
        <4>3. QED
          BY <2>1, <3>1, <3>4, <3>5, <3>6, <4>1, <4>2 DEF TxInv
    <2>3. CASE ~(Position < Len(tx_packet))
      <3>1. /\ tx_finished' = FALSE /\ pcurrent_tx' = FALSE /\ tx_index' = Position
            /\ sent' = sent
        BY <1>1, <2>1, <2>3 DEF ISR_send, Position
      <3>2. Len(sent) = from_tcp
        BY <2>1, <2>3 DEF TxInv, Position
      <3>3. ~Sending'
        BY <2>1, <3>1 DEF Sending
      <3>4. tx_index' \in Nat
        BY <3>1 DEF TxInv, Position
      <3>5. QED
        BY <2>1, <3>1, <3>2, <3>3, <3>4 DEF TxInv
    <2>4. QED
      BY <2>2, <2>3
  <1>2. CASE get
    <2>1. CASE UNCHANGED <<tx_packet, from_tcp>> /\ pc' = "tick"
      BY <1>2, <2>1, TxSame DEF get, txVars
    <2>2. CASE ~tx_finished /\ pc' = "post"
      <3>1. PICK len \in 1 .. PACK_MAX_RX_SIZE :
                tx_packet' = ClientBytes(from_tcp, len) /\ from_tcp' = from_tcp + len
        BY <1>2, <2>2 DEF get, SendFree, Goto
      <3>2. len \in Nat /\ from_tcp \in Nat /\ from_tcp' \in Nat
        BY <3>1, BridgeAssumption DEF TxInv
      <3>3. tx_packet' \in Seq(Nat) /\ Len(tx_packet') = len /\ from_tcp' - len = from_tcp
        BY <3>1, <3>2, ClientBytesShape
      <3>4. UNCHANGED <<tx_finished, pcurrent_tx, tx_index, sent>>
        BY <1>2 DEF get
      <3>5. Len(sent) = from_tcp /\ ~pcurrent_tx
        BY <1>2, <2>2 DEF get, TxInv, Sending
      <3>6. Position' = 0 /\ Sending'
        BY <2>2, <3>4, <3>5 DEF Position, Sending
      <3>7. QED
        BY <2>2, <3>1, <3>2, <3>3, <3>4, <3>5, <3>6 DEF TxInv
    <2>3. QED
      BY <1>2, <2>1, <2>2 DEF get, Goto, SendFree
  <1>3. CASE post
    <2>1. /\ tx_finished' = TRUE /\ pc' = "start" /\ pc = "post"
          /\ UNCHANGED <<tx_packet, pcurrent_tx, tx_index, sent, from_tcp>>
      BY <1>3 DEF post, Goto
    <2>2. QED
      BY <2>1 DEF TxInv, Sending, Position
  <1>4. CASE start
    <2>1. /\ pc' = "tick" /\ pc = "start"
          /\ UNCHANGED <<tx_packet, tx_finished, pcurrent_tx, tx_index, sent, from_tcp>>
      BY <1>4 DEF start, Goto
    <2>2. QED
      BY <2>1 DEF TxInv, Sending, Position
  <1>5. CASE pack_prase_in \/ RxTimeout \/ Connection \/ UNCHANGED vars
    <2>1. UNCHANGED <<txVars, from_tcp, sent, pc>>
      BY <1>5 DEF pack_prase_in, RxTimeout, Connection, vars
    <2>2. QED
      BY <2>1 DEF TxInv, Sending, Position, txVars
  <1>6. CASE task \/ put \/ clear_index \/ clear_finished
    BY <1>6, TxSame DEF task, put, clear_index, clear_finished, Goto, AfterFullFifo
  <1>7. CASE tick \/ tick_load \/ tick_test \/ tick_finish
    BY <1>7, TxSame DEF tick, tick_load, tick_test, tick_finish, Goto
  <1>8. QED
    BY <1>1, <1>2, <1>3, <1>4, <1>5, <1>6, <1>7 DEF Next, MainLoop

\* Bytes of the client leave on the serial line all, in order and once, for every
\* packet size (UART2TCPBridgeTask2, pack_prase_out): the main loop never writes
\* the packet the interrupt is sending.
THEOREM ClientComplete == Spec => []TxExact
  <1>1. Init => TxInv
    <2>1. ClientBytes(0, 0) = <<>>
      BY DEF ClientBytes
    <2>2. <<>> \in Seq(Nat) /\ Len(<<>>) = 0
      OBVIOUS
    <2>3. QED
      <3> SUFFICES ASSUME Init PROVE TxInv
        OBVIOUS
      <3>1. /\ from_tcp = 0 /\ tx_packet = <<>> /\ tx_index = 0 /\ ~tx_finished
            /\ tx_finished \in BOOLEAN /\ pcurrent_tx \in BOOLEAN
            /\ ~pcurrent_tx /\ sent = <<>> /\ pc = "task"
        BY DEF Init
      <3>2. sent = ClientBytes(0, Len(sent)) /\ Len(sent) = from_tcp
        BY <2>1, <2>2, <3>1
      <3>3. QED
        BY <2>2, <3>1, <3>2 DEF TxInv, Sending
  <1>2. TxInv => TxExact
    BY DEF TxInv, TxExact, Sending, Position
  <1>3. QED
    BY <1>1, <1>2, TxNext, PTL DEF Spec

-----------------------------------------------------------------------------
(* The users of the name resolver *)

\* Which task waits for the module.
SntpWaits == SNTPState = "NAME_RESOLVE"
DdnsWaits == smState = "DNS_RESOLVE"
SmtpWaits == TransportState = "NAME_RESOLVE"

\* The module works for u: it looks up u's name, or it has u's address.
WorksFor(u) ==
    IF smDNS = "DONE" THEN AddressValid /\ ResolvedIP = u
    ELSE ~AddressValid /\ DNSHostName = u

\* The module is in use exactly while one task waits, it works for that task,
\* and what a task went on with is the address of its own host.
NameInv ==
    /\ DNSInUse \in BOOLEAN /\ AddressValid \in BOOLEAN
    /\ DNSInUse <=> SntpWaits \/ DdnsWaits \/ SmtpWaits
    /\ ~(SntpWaits /\ DdnsWaits) /\ ~(SntpWaits /\ SmtpWaits) /\ ~(DdnsWaits /\ SmtpWaits)
    /\ SntpWaits => WorksFor("sntp")
    /\ DdnsWaits => WorksFor("ddns")
    /\ SmtpWaits => WorksFor("smtp")
    /\ TransportState # "HOME" => SMTPInUse
    /\ SNTPState \in {"ARP_RESOLVE", "UDP_RECV"} => Server = "sntp"
    /\ smState = "GATEWAY_SEND_ARP" => remote = "ddns"
    /\ TransportState \in {"OBTAIN_SOCKET", "SOCKET_OBTAINED"} => SMTPServer = "smtp"

LEMMA NameInvImplies == NameInv => OwnAddress
  BY DEF NameInv, OwnAddress, Users, Waiting, SntpWaits, DdnsWaits, SmtpWaits

\* A look-up that goes on stays the look-up of the same name (DNSIsResolved).
LEMMA ResolvingKeeps ==
    ASSUME NEW u, WorksFor(u), Resolving
    PROVE  WorksFor(u)' /\ UNCHANGED <<DNSInUse, AddressValid>>
  BY DEF WorksFor, Resolving, TryAgain, SendQuery, Plus, ArpStarts, ArpWaits, Queries, Results

\* One that ends well hands out the address of the user's own name.
LEMMA ResolvedIsOwn ==
    ASSUME NEW u, NEW ip, NEW ok, WorksFor(u), Resolved(ip, ok), AddressValid \in BOOLEAN
    PROVE  /\ ok => ip = u
           /\ DNSInUse' = FALSE /\ AddressValid' \in BOOLEAN
  <1>1. DNSInUse' = FALSE
    BY DEF Resolved, DNSEndUsage
  <1>2. ok = AddressValid'
    BY DEF Resolved
  <1>3. CASE smDNS \in Results /\ AddressValid' = TRUE /\ ResolvedIP' = DNSHostName /\ ip = ResolvedIP'
    BY <1>1, <1>3 DEF WorksFor, Results
  <1>4. CASE smDNS # "DONE" /\ AddressValid' = AddressValid
    BY <1>1, <1>2, <1>4 DEF WorksFor
  <1>5. CASE smDNS = "DONE" /\ ip = ResolvedIP /\ AddressValid' = AddressValid
    BY <1>1, <1>5 DEF WorksFor
  <1>6. QED
    BY <1>3, <1>4, <1>5 DEF Resolved, Results

\* Only a free module is taken, and it then works for whoever took it.
LEMMA ResolveStarts ==
    ASSUME NEW u, DNSBeginUsage, DNSResolve(u)
    PROVE  ~DNSInUse /\ DNSInUse' = TRUE /\ AddressValid' \in BOOLEAN /\ WorksFor(u)'
  BY DEF WorksFor, DNSBeginUsage, DNSResolve

\* Whoever stops waiting gives the module back.
LEMMA AbandonFrees ==
    Abandon => DNSInUse' = FALSE /\ AddressValid' = AddressValid
  BY DEF Abandon, DNSEndUsage

\* Every step of the module and of its three users keeps the invariant.
LEMMA NameStep == NameInv /\ [NameNext]_nameVars => NameInv'
  <1> SUFFICES ASSUME NameInv, [NameNext]_nameVars PROVE NameInv'
    OBVIOUS
  <1> USE DEF NameInv, SntpWaits, DdnsWaits, SmtpWaits, dns, sntp, skt, smtp
  <1>1. CASE DnsTimePasses
    BY <1>1 DEF DnsTimePasses, WorksFor
  <1>2. CASE SntpTimePasses
    BY <1>2 DEF SntpTimePasses, WorksFor
  <1>3. CASE SktTimePasses
    BY <1>3 DEF SktTimePasses, WorksFor
  <1>4. CASE SmtpTimePasses
    BY <1>4 DEF SmtpTimePasses, WorksFor
  <1>5. CASE SNTP_HOME
    BY <1>5, ResolveStarts DEF SNTP_HOME, SntpGoes
  <1>6. CASE SNTP_NAME_RESOLVE
    <2>1. CASE Resolving /\ UNCHANGED <<sntp, skt, smtp>>
      BY <1>6, <2>1, ResolvingKeeps DEF SNTP_NAME_RESOLVE
    <2>2. CASE Abandon /\ SntpGoes("SHORT_WAIT")
      BY <1>6, <2>2, AbandonFrees DEF SNTP_NAME_RESOLVE, SntpGoes
    <2>3. ASSUME NEW ip \in Known, NEW ok \in BOOLEAN, Resolved(ip, ok), Server' = ip,
                 SntpGoes(IF ok THEN "ARP_RESOLVE" ELSE "SHORT_WAIT")
          PROVE  NameInv'
      BY <1>6, <2>3, ResolvedIsOwn DEF SNTP_NAME_RESOLVE, SntpGoes
    <2>4. QED
      BY <1>6, <2>1, <2>2, <2>3 DEF SNTP_NAME_RESOLVE
  <1>7. CASE SNTP_EXCHANGE
    BY <1>7 DEF SNTP_EXCHANGE, SntpGoes, WorksFor
  <1>8. CASE TCPOpen
    BY <1>8 DEF TCPOpen, WorksFor
  <1>9. CASE TCPTick
    <2>1. CASE DNSBeginUsage /\ DNSResolve("ddns") /\ smState' = "DNS_RESOLVE"
      BY <1>9, <2>1, ResolveStarts DEF TCPTick
    <2>2. CASE smState = "DNS_RESOLVE" /\ Resolving /\ UNCHANGED skt
      BY <1>9, <2>2, ResolvingKeeps DEF TCPTick
    <2>3. ASSUME NEW ip \in Known, NEW ok \in BOOLEAN, smState = "DNS_RESOLVE", Resolved(ip, ok),
                 remote' = IF ok THEN ip ELSE remote,
                 smState' = IF ok THEN "GATEWAY_SEND_ARP" ELSE "GET_DNS_MODULE"
          PROVE  NameInv'
      BY <1>9, <2>3, ResolvedIsOwn DEF TCPTick
    <2>4. QED
      BY <1>9, <2>1, <2>2, <2>3 DEF TCPTick
  <1>10. CASE TCPDisconnect
    <2>1. CASE smState = "DNS_RESOLVE"
      BY <1>10, <2>1, AbandonFrees DEF TCPDisconnect
    <2>2. CASE smState # "DNS_RESOLVE"
      <3>1. UNCHANGED <<dns, sntp, smtp, remote>> /\ smState' = "CLOSED"
        BY <1>10, <2>2 DEF TCPDisconnect
      <3>2. QED
        BY <2>2, <3>1 DEF WorksFor
    <2>3. QED
      BY <2>1, <2>2
  <1>11. CASE SMTPBeginUsage
    BY <1>11 DEF SMTPBeginUsage, WorksFor
  <1>12. CASE SMTPSendMail
    BY <1>12 DEF SMTPSendMail, WorksFor
  <1>13. CASE SMTP_BEGIN
    <2>1. CASE DNSBeginUsage /\ DNSResolve("smtp") /\ SmtpGoes("NAME_RESOLVE")
      BY <1>13, <2>1, ResolveStarts DEF SMTP_BEGIN, SmtpGoes
    <2>2. CASE ~DNSInUse /\ Abandon /\ SmtpGoes("HOME")
      BY <1>13, <2>2, AbandonFrees DEF SMTP_BEGIN, SmtpGoes
    <2>3. QED
      BY <1>13, <2>1, <2>2 DEF SMTP_BEGIN
  <1>14. CASE SMTP_NAME_RESOLVE
    <2>1. CASE Resolving /\ UNCHANGED <<sntp, skt, smtp>>
      BY <1>14, <2>1, ResolvingKeeps DEF SMTP_NAME_RESOLVE
    <2>2. CASE Abandon /\ SmtpGoes("HOME")
      BY <1>14, <2>2, AbandonFrees DEF SMTP_NAME_RESOLVE, SmtpGoes
    <2>3. ASSUME NEW ip \in Known, NEW ok \in BOOLEAN, Resolved(ip, ok), SMTPServer' = ip,
                 \/ ok /\ \E state \in {"OBTAIN_SOCKET", "SOCKET_OBTAINED"} : SmtpGoes(state)
                 \/ ~ok /\ SmtpGoes("HOME")
          PROVE  NameInv'
      <3>1. WorksFor("smtp")
        BY <1>14 DEF SMTP_NAME_RESOLVE
      <3>2. /\ ok => ip = "smtp"
            /\ DNSInUse' = FALSE /\ AddressValid' \in BOOLEAN
        BY <2>3, <3>1, ResolvedIsOwn
      <3>3. UNCHANGED <<sntp, skt, SMTPInUse>> /\ TransportState' # "NAME_RESOLVE"
        BY <2>3 DEF SmtpGoes
      <3>4. ~ok => TransportState' = "HOME"
        BY <2>3 DEF SmtpGoes
      <3>5. SMTPInUse
        BY <1>14 DEF SMTP_NAME_RESOLVE
      <3>6. ~SntpWaits /\ ~DdnsWaits
        BY <1>14 DEF SMTP_NAME_RESOLVE
      <3>7. QED
        BY <2>3, <3>2, <3>3, <3>4, <3>5, <3>6
    <2>4. QED
      BY <1>14, <2>1, <2>2, <2>3 DEF SMTP_NAME_RESOLVE
  <1>15. CASE SMTP_TRANSPORT
    BY <1>15 DEF SMTP_TRANSPORT, SmtpGoes, WorksFor
  <1>16. CASE SMTPEndUsage
    BY <1>16, AbandonFrees DEF SMTPEndUsage, WorksFor
  <1>17. CASE UNCHANGED nameVars
    BY <1>17 DEF nameVars, WorksFor
  <1>18. QED
    BY <1>1, <1>2, <1>3, <1>4, <1>5, <1>6, <1>7, <1>8, <1>9, <1>10, <1>11, <1>12, <1>13, <1>14,
       <1>15, <1>16, <1>17 DEF NameNext, SNTPClient, SMTPTask

\* One task at a time waits for the module, and a task goes on only with the
\* address of its own host, however the tasks take turns, give up and time out
\* (DNSBeginUsage, DNSResolve, DNSIsResolved, DNSEndUsage).
THEOREM AddressIsOwn == NameSpec => []OwnAddress
  <1>1. NameInit => NameInv
    BY DEF NameInit, NameInv, SntpWaits, DdnsWaits, SmtpWaits
  <1>2. QED
    BY <1>1, NameStep, NameInvImplies, PTL DEF NameSpec


-----------------------------------------------------------------------------
(* The DHCP client *)

\* Of a lease, the seconds until the renewal, and those then left for certain: the
\* acknowledgement may have come late and waited a second for the turn that read it.
Used  == Lease - Lease \div Shave
Slack == Lease \div Shave - MaxLate - 1

Renewing == SendRenews \cup GetRenewAcks
Asking   == {"GET_OFFER", "GET_REQUEST_ACK"} \cup GetRenewAcks
DhcpStates == {"GET_SOCKET", "SEND_DISCOVERY", "GET_OFFER", "SEND_REQUEST", "GET_REQUEST_ACK",
               "BOUND"} \cup Renewing

\* The messages on their way, or waiting for the task.
Coming == flight \cup rx

IsReply(m) ==
    /\ DOMAIN m = {"type", "server", "mine", "age", "addr"}
    /\ m.type \in {"OFFER", "ACK", "NAK"} /\ m.mine
    /\ m.server \in Servers /\ m.age \in 0 .. MaxLate
    /\ m.type # "NAK" => m.addr = m.server
IsOther(m) == ~m.mine /\ m.type = "OFFER" /\ m.addr = Foreign

\* An acknowledgement, a refusal.
Ack(m) == m.mine /\ m.type = "ACK"
Nak(m) == m.mine /\ m.type = "NAK"
\* No server but s has acknowledged or refused.
OnlyOf(s) == \A m \in Coming : Ack(m) \/ Nak(m) => m.server = s
\* No server has offered.
NoOffer == \A m \in Coming : m.mine => m.type # "OFFER"

\* A packet that waits may wait a second for the turn that reads it.
Unread == IF turned THEN 0 ELSE 1

DhcpTypes ==
    /\ smDHCPState \in DhcpStates
    /\ linked \in BOOLEAN /\ turned \in BOOLEAN /\ bIsBound \in BOOLEAN
    /\ bOfferReceived \in BOOLEAN /\ overheard \in BOOLEAN
    /\ elapsed \in 0 .. 2 /\ DHCPLeaseTime \in Nat /\ left \in Int
    /\ \A m \in flight : IsReply(m)
    /\ \A m \in rx : IsReply(m) \/ IsOther(m)
    /\ \A m, n \in rx : m = n
    /\ \A q \in asked : q.type \in {"DISCOVER", "REQUEST", "RENEW"}
    /\ ~linked => flight = {} /\ asked = {}

\* What is on its way is as old as the wait for it, and an acknowledgement of the
\* holder's server says how much of the lease is left.
Ages ==
    /\ asked # {} => elapsed = 0
    /\ smDHCPState \in Asking => \A m \in flight : m.age >= elapsed
    /\ smDHCPState = "BOUND" => \A m \in flight : m.age >= Used - DHCPLeaseTime + elapsed
    /\ \A m \in flight : Ack(m) /\ m.server = holder => left >= Lease - m.age
    /\ \A m \in rx : Ack(m) /\ m.server = holder => left >= Lease - m.age - Unread

\* The client requests what one server offered.
Offered ==
    /\ smDHCPState = "GET_OFFER" => ~bOfferReceived
    /\ smDHCPState \in {"SEND_REQUEST", "GET_REQUEST_ACK"} =>
          /\ bOfferReceived /\ DHCPServerID \in Servers
          /\ tempIPAddress = DHCPServerID /\ DHCPLeaseTime = Used

\* Late acknowledgements and refusals: only of the server that is asked now may more
\* be on its way than the one that counts.
Late ==
    /\ \A n, k \in Coming : Nak(n) /\ Nak(k) => n.server = k.server
    /\ \A m \in Coming : Ack(m) /\ m.server # holder =>
          smDHCPState \in {"GET_REQUEST_ACK", "BOUND"} /\ holder = DHCPServerID
    /\ \A m, n \in Coming : Ack(m) /\ Nak(n) /\ m.server # n.server =>
          smDHCPState \in {"GET_REQUEST_ACK", "BOUND"} /\ m.server = DHCPServerID

\* What the servers can still answer, and who has answered it so far.
Questions ==
    \A q \in asked :
      /\ q.type = "REQUEST" =>
            \/ smDHCPState \in {"GET_REQUEST_ACK", "BOUND"} /\ q.server = DHCPServerID
            \/ smDHCPState = "SEND_DISCOVERY" /\ ~bIsBound /\ OnlyOf(q.server)
      /\ q.type = "RENEW" =>
            /\ smDHCPState \in Renewing \cup {"BOUND", "SEND_DISCOVERY"}
            /\ q.addr \in {holder, Foreign} /\ NoOffer /\ OnlyOf(holder)
      /\ q.type = "DISCOVER" => smDHCPState \in {"GET_OFFER", "SEND_REQUEST"}
      /\ smDHCPState = "GET_REQUEST_ACK" => q.type = "REQUEST"
      /\ smDHCPState \in Renewing => q.type = "RENEW"

\* A bound client, and its three renewals.
InLease ==
    /\ smDHCPState \in Renewing \cup {"BOUND"} =>
          bIsBound /\ tempIPAddress \in {MyIPAddr, Foreign}
                   /\ (tempIPAddress = MyIPAddr \/ overheard)
    /\ bIsBound =>
          /\ smDHCPState \in Renewing \cup {"BOUND", "SEND_DISCOVERY"}
          /\ MyIPAddr = DHCPServerID /\ holder = MyIPAddr /\ MyIPAddr \in Servers
    /\ smDHCPState \in Renewing => NoOffer /\ OnlyOf(MyIPAddr)
    /\ smDHCPState \in GetRenewAcks => ~bOfferReceived

\* What is left of the lease in each state that a bound client goes through.
Lasts ==
    /\ smDHCPState = "BOUND" =>
          /\ left >= Slack + DHCPLeaseTime - elapsed
          /\ DHCPLeaseTime \in 1 .. Used /\ elapsed <= 1 /\ (turned => elapsed = 0)
          /\ rx = {} /\ ~DHCPSocket
          /\ asked # {} => DHCPLeaseTime = Used
    /\ smDHCPState = "SEND_RENEW"     => left >= Slack /\ ~turned
    /\ smDHCPState = "GET_RENEW_ACK"  => left >= Slack - elapsed
    /\ smDHCPState = "SEND_RENEW2"    => left >= Slack - 2 - Unread
    /\ smDHCPState = "GET_RENEW_ACK2" => left >= Slack - 3 - elapsed
    /\ smDHCPState = "SEND_RENEW3"    => left >= Slack - 5 - Unread
    /\ smDHCPState = "GET_RENEW_ACK3" => left >= Slack - 6 - elapsed
    /\ smDHCPState = "SEND_DISCOVERY" /\ bIsBound => left >= Slack - 8 - Unread
    /\ smDHCPState \in GetRenewAcks /\ turned => elapsed < 2

DhcpInv == DhcpTypes /\ Ages /\ Offered /\ Late /\ Questions /\ InLease /\ Lasts

\* A lease is used for longer than a message is late.
LEMMA LeaseNumbers ==
    /\ Used \in Nat /\ Used > MaxLate /\ MaxLate \in {0, 1} /\ Lease \in Nat
    /\ Slack \in Int /\ Slack = Lease - Used - MaxLate - 1 /\ Slack - 9 = -Overrun
  BY DhcpAssumption DEF Used, Slack, Overrun, DHCP_TIMEOUT

\* The order of the renewals.
LEMMA AfterFacts ==
    /\ After["SEND_RENEW"] = "GET_RENEW_ACK" /\ After["GET_RENEW_ACK"] = "SEND_RENEW2"
    /\ After["SEND_RENEW2"] = "GET_RENEW_ACK2" /\ After["GET_RENEW_ACK2"] = "SEND_RENEW3"
    /\ After["SEND_RENEW3"] = "GET_RENEW_ACK3" /\ After["GET_RENEW_ACK3"] = "SEND_DISCOVERY"
  BY DEF After

\* The messages that can arrive.
LEMMA ReplyFacts ==
    /\ \A m \in Replies : IsReply(m)
    /\ \A m \in Others : IsOther(m)
  BY DEF Replies, Reply, Others, IsReply, IsOther

\* A call of the task: the packet that waited is gone, and the world stands still.
Called(tx) ==
    /\ rx' = {} /\ turned' = (turned \/ (tx /\ rx = {}))
    /\ UNCHANGED world

\* The types after a call.
LEMMA CallTypes ==
    ASSUME DhcpTypes, NEW tx \in BOOLEAN, Called(tx), smDHCPState' \in DhcpStates,
           bIsBound' \in BOOLEAN, bOfferReceived' \in BOOLEAN, overheard' \in BOOLEAN,
           elapsed' \in 0 .. 2, DHCPLeaseTime' \in Nat,
           \A q \in asked' : q.type \in {"DISCOVER", "REQUEST", "RENEW"},
           ~linked => asked' = {}
    PROVE  DhcpTypes'
  BY DEF DhcpTypes, Called, world

\* A new search, with a link or without (SendDiscovery).
LEMMA SearchKeeps ==
    ASSUME DhcpInv, NEW tx \in BOOLEAN, SendDiscovery(tx), Called(tx),
           \/ smDHCPState \in {"GET_SOCKET", "SEND_DISCOVERY"} /\ UNCHANGED MyIPAddr /\ linked
           \/ ~linked
    PROVE  DhcpInv'
  <1> USE DEF Called, world
  <1>1. DhcpTypes'
    <2>1. smDHCPState' \in DhcpStates /\ DHCPLeaseTime' \in Nat /\ elapsed' \in 0 .. 2
      BY DEF DhcpInv, DhcpTypes, SendDiscovery, DhcpStates, DEFAULT_LEASE
    <2>7. bIsBound' \in BOOLEAN /\ bOfferReceived' \in BOOLEAN
      BY DEF DhcpInv, DhcpTypes, SendDiscovery
    <2>3. \A q \in asked' : q.type \in {"DISCOVER", "REQUEST", "RENEW"}
      BY DEF DhcpInv, DhcpTypes, SendDiscovery, Send, NoSend, Discover
    <2>4. ~linked' => flight' = {} /\ asked' = {}
      BY DEF DhcpInv, DhcpTypes, SendDiscovery, Send, NoSend
    <2>5. overheard' = overheard
      BY DEF SendDiscovery
    <2>6. QED
      BY <2>1, <2>3, <2>4, <2>5, <2>7 DEF DhcpInv, DhcpTypes
  <1>2. Ages'
    BY DEF DhcpInv, Ages, DhcpTypes, SendDiscovery, NoSend, Asking, GetRenewAcks, IsReply
  <1>3. Offered'
    BY DEF DhcpInv, SendDiscovery, Offered
  <1>4. Late'
    BY DEF DhcpInv, Late, DhcpTypes, Coming
  <1>5. Questions'
    BY DEF DhcpInv, DhcpTypes, SendDiscovery, Questions, Send, NoSend, Discover, OnlyOf, NoOffer,
       Coming, Renewing, SendRenews, GetRenewAcks
  <1>6. InLease'
    BY DEF DhcpInv, InLease, SendDiscovery, Renewing, SendRenews, GetRenewAcks
  <1>7. Lasts'
    BY DEF DhcpInv, InLease, Lasts, SendDiscovery, Unread, GetRenewAcks, Renewing, SendRenews
  <1>8. QED
    BY <1>1, <1>2, <1>3, <1>4, <1>5, <1>6, <1>7 DEF DhcpInv

\* When the client has waited long enough, nothing is on its way any more.
LEMMA NothingLeft ==
    ASSUME DhcpInv, rx = {},
           \/ smDHCPState \in Asking /\ elapsed = 2
           \/ smDHCPState = "BOUND" /\ elapsed > 0 /\ DHCPLeaseTime < 2
    PROVE  Coming = {} /\ asked = {}
  <1>1. asked = {}
    BY DEF DhcpInv, Ages
  <1>2. \A m \in flight : m.age \in 0 .. MaxLate
    BY DEF DhcpInv, DhcpTypes, IsReply
  <1>3. CASE smDHCPState \in Asking /\ elapsed = 2
    <2>1. \A m \in flight : m.age >= 2
      BY <1>3 DEF DhcpInv, Ages
    <2>2. QED
      BY <1>1, <1>2, <2>1, LeaseNumbers DEF Coming
  <1>4. CASE smDHCPState = "BOUND" /\ elapsed > 0 /\ DHCPLeaseTime < 2
    <2>1. \A m \in flight : m.age >= Used - DHCPLeaseTime + elapsed
      BY <1>4 DEF DhcpInv, Ages
    <2>2. elapsed = 1 /\ DHCPLeaseTime = 1
      BY <1>4 DEF DhcpInv, DhcpTypes, Lasts
    <2>3. QED
      BY <1>1, <1>2, <2>1, <2>2, LeaseNumbers DEF Coming
  <1>5. QED
    BY <1>3, <1>4

\* A renewal is sent, or the chip cannot take it yet (Renew).
LEMMA RenewShape ==
    ASSUME NEW tx \in BOOLEAN, NEW s \in SendRenews, linked, Renew(tx, s)
    PROVE  \/ /\ tx /\ elapsed' = 0 /\ bOfferReceived' = FALSE
              /\ smDHCPState' \in GetRenewAcks /\ smDHCPState' = After[s]
              /\ \A q \in asked' : q.type = "RENEW" /\ q.addr = tempIPAddress
           \/ /\ ~tx /\ UNCHANGED <<asked, elapsed, bOfferReceived>> /\ smDHCPState' = s
  BY AfterFacts DEF Renew, Send, NoSend, SendRenews, GetRenewAcks

\* The second and third renewal.
LEMMA RenewKeeps ==
    ASSUME DhcpInv, NEW tx \in BOOLEAN, SEND_RENEW(tx), Called(tx)
    PROVE  DhcpInv'
  <1> USE DEF Called, world
  <1>1. /\ smDHCPState \in SendRenews /\ linked
        /\ UNCHANGED <<DHCPSocket, bIsBound, DHCPServerID, DHCPLeaseTime, tempIPAddress, MyIPAddr,
                       overheard>>
    BY DEF SEND_RENEW
  <1>2. \/ /\ tx /\ elapsed' = 0 /\ bOfferReceived' = FALSE
           /\ smDHCPState' \in GetRenewAcks
           /\ \A q \in asked' : q.type = "RENEW" /\ q.addr = tempIPAddress
        \/ /\ ~tx /\ UNCHANGED <<asked, elapsed, bOfferReceived>> /\ smDHCPState' = smDHCPState
    BY <1>1, RenewShape DEF SEND_RENEW
  <1>3. tx => smDHCPState' = After[smDHCPState]
    BY <1>1, RenewShape DEF SEND_RENEW
  <1>4. /\ holder = MyIPAddr /\ tempIPAddress \in {MyIPAddr, Foreign}
        /\ NoOffer /\ OnlyOf(holder) /\ NoOffer' /\ OnlyOf(holder)'
        /\ smDHCPState \in Renewing /\ smDHCPState' \in Renewing
    BY <1>1, <1>2 DEF DhcpInv, InLease, Renewing, NoOffer, OnlyOf, Coming
  <1>11. DhcpTypes'
    <2>1. smDHCPState' \in DhcpStates /\ elapsed' \in 0 .. 2
      BY <1>2 DEF DhcpInv, DhcpTypes, DhcpStates, Renewing
    <2>2. \A q \in asked' : q.type \in {"DISCOVER", "REQUEST", "RENEW"}
      BY <1>2 DEF DhcpInv, DhcpTypes
    <2>3. bOfferReceived' \in BOOLEAN
      BY <1>2 DEF DhcpInv, DhcpTypes
    <2>4. DhcpTypes
      BY DEF DhcpInv
    <2>5. /\ DHCPLeaseTime' \in Nat /\ bIsBound' \in BOOLEAN /\ overheard' \in BOOLEAN
      BY <1>1, <2>4 DEF DhcpTypes
    <2>6. QED
      BY <1>1, <2>1, <2>2, <2>3, <2>4, <2>5, CallTypes
  <1>12. Ages'
    BY <1>1, <1>2 DEF DhcpInv, DhcpTypes, Ages, GetRenewAcks, IsReply
  <1>13. Offered'
    BY <1>1, <1>2 DEF Offered, SendRenews, GetRenewAcks
  <1>14. Late'
    BY <1>1 DEF DhcpInv, Late, Coming, SendRenews
  <1>15. Questions'
    BY <1>2, <1>4 DEF DhcpInv, Questions, GetRenewAcks
  <1>16. InLease'
    BY <1>1, <1>2 DEF DhcpInv, InLease, OnlyOf, NoOffer, Coming, Renewing
  <1>17. Lasts'
    BY <1>1, <1>2, <1>3, AfterFacts, LeaseNumbers DEF DhcpInv, DhcpTypes, Lasts, Unread,
       SendRenews
  <1>18. QED
    BY <1>11, <1>12, <1>13, <1>14, <1>15, <1>16, <1>17 DEF DhcpInv

\* Nothing came.
LEMMA TimeoutKeeps ==
    ASSUME DhcpInv, NEW tx \in BOOLEAN, Timeout, Called(tx)
    PROVE  DhcpInv'
  <1> USE DEF Called, world
  <1>1. /\ linked /\ rx = {} /\ smDHCPState \in Asking
        /\ UNCHANGED <<asked, DHCPSocket, bIsBound, bOfferReceived, DHCPServerID, DHCPLeaseTime,
                       tempIPAddress, MyIPAddr, elapsed, overheard>>
    BY DEF Timeout, NoSend, Asking
  <1>2. elapsed = 2 \/ smDHCPState' = smDHCPState
    BY DEF Timeout, DHCP_TIMEOUT, DhcpInv, DhcpTypes
  <1>3. Coming' \subseteq Coming /\ (smDHCPState' = smDHCPState \/ (Coming = {} /\ asked = {} /\ elapsed = 2))
    BY <1>1, <1>2, NothingLeft DEF Coming
  <1>4. smDHCPState' = IF elapsed < 2 THEN smDHCPState
                       ELSE IF smDHCPState \in GetRenewAcks THEN After[smDHCPState]
                       ELSE "SEND_DISCOVERY"
    BY DEF Timeout, DHCP_TIMEOUT
  <1>11. DhcpTypes'
    BY <1>1, <1>4, AfterFacts DEF DhcpInv, DhcpTypes, DhcpStates, Renewing, SendRenews,
       GetRenewAcks
  <1>12. Ages'
    BY <1>1, <1>4, AfterFacts DEF DhcpInv, Ages, GetRenewAcks
  <1>13. Offered'
    BY <1>1, <1>4, AfterFacts DEF DhcpInv, Offered, GetRenewAcks
  <1>14. Late'
    BY <1>1, <1>3 DEF DhcpInv, Late
  <1>15. Questions'
    BY <1>1, <1>3 DEF DhcpInv, Questions, OnlyOf, NoOffer
  <1>16. InLease'
    BY <1>1, <1>3, <1>4, AfterFacts DEF DhcpInv, InLease, OnlyOf, NoOffer, Renewing, SendRenews,
       GetRenewAcks
  <1>17. Lasts'
    <2>1. turned \in BOOLEAN /\ left \in Int /\ elapsed \in 0 .. 2 /\ left' = left
      BY DEF DhcpInv, DhcpTypes
    <2>3. CASE elapsed < 2
      <3>1. smDHCPState' = smDHCPState /\ smDHCPState \in Asking
        BY <1>1, <1>4, <2>3
      <3>2. QED
        BY <1>1, <2>3, <3>1 DEF DhcpInv, Lasts, Asking, GetRenewAcks
    <2>4. CASE elapsed = 2 /\ smDHCPState \in GetRenewAcks
      <3>1. /\ smDHCPState = "GET_RENEW_ACK"  => left >= Slack - 2
            /\ smDHCPState = "GET_RENEW_ACK2" => left >= Slack - 5
            /\ smDHCPState = "GET_RENEW_ACK3" => left >= Slack - 8
        BY <2>4, LeaseNumbers DEF DhcpInv, Lasts
      <3>2. \/ smDHCPState = "GET_RENEW_ACK" /\ smDHCPState' = "SEND_RENEW2"
            \/ smDHCPState = "GET_RENEW_ACK2" /\ smDHCPState' = "SEND_RENEW3"
            \/ smDHCPState = "GET_RENEW_ACK3" /\ smDHCPState' = "SEND_DISCOVERY"
        BY <1>4, <2>4, AfterFacts DEF GetRenewAcks
      <3>3. QED
        <4>1. Slack \in Int
          BY LeaseNumbers
        <4>2. CASE smDHCPState = "GET_RENEW_ACK" /\ smDHCPState' = "SEND_RENEW2"
          BY <2>1, <3>1, <4>1, <4>2 DEF Lasts, GetRenewAcks, Unread
        <4>3. CASE smDHCPState = "GET_RENEW_ACK2" /\ smDHCPState' = "SEND_RENEW3"
          BY <2>1, <3>1, <4>1, <4>3 DEF Lasts, GetRenewAcks, Unread
        <4>4. CASE smDHCPState = "GET_RENEW_ACK3" /\ smDHCPState' = "SEND_DISCOVERY"
          BY <2>1, <3>1, <4>1, <4>4 DEF Lasts, GetRenewAcks, Unread
        <4>5. QED
          BY <3>2, <4>2, <4>3, <4>4
    <2>5. CASE elapsed = 2 /\ smDHCPState \notin GetRenewAcks
      <3>1. smDHCPState' = "SEND_DISCOVERY" /\ smDHCPState \in {"GET_OFFER", "GET_REQUEST_ACK"}
        BY <1>1, <1>4, <2>5 DEF Asking
      <3>2. ~bIsBound'
        BY <1>1, <3>1 DEF DhcpInv, InLease, Renewing, SendRenews, GetRenewAcks
      <3>3. QED
        BY <3>1, <3>2 DEF Lasts, GetRenewAcks
    <2>6. QED
      BY <2>1, <2>3, <2>4, <2>5
  <1>18. QED
    BY <1>11, <1>12, <1>13, <1>14, <1>15, <1>16, <1>17 DEF DhcpInv

\* A second of the lease is used.
LEMMA BoundStays ==
    ASSUME DhcpInv, NEW tx \in BOOLEAN, BOUND(tx), Called(tx), elapsed < 1 \/ DHCPLeaseTime >= 2
    PROVE  DhcpInv'
  <1> USE DEF Called, world
  <1>1. /\ linked /\ smDHCPState = "BOUND" /\ smDHCPState' = "BOUND"
        /\ elapsed' = IF elapsed < 1 THEN elapsed ELSE elapsed - 1
        /\ DHCPLeaseTime' = IF elapsed < 1 THEN DHCPLeaseTime ELSE DHCPLeaseTime - 1
        /\ UNCHANGED <<asked, DHCPSocket, bOfferReceived, bIsBound, DHCPServerID, tempIPAddress,
                       MyIPAddr, overheard>>
    BY DEF BOUND, NoSend
  <1>11. DhcpTypes'
    BY <1>1 DEF DhcpInv, DhcpTypes
  <1>12. Ages'
    BY <1>1, LeaseNumbers DEF DhcpInv, DhcpTypes, Ages, IsReply
  <1>13. Offered'
    BY <1>1 DEF Offered
  <1>14. Late'
    BY <1>1 DEF DhcpInv, Late, Coming
  <1>15. Questions'
    BY <1>1 DEF DhcpInv, Questions, OnlyOf, NoOffer, Coming
  <1>16. InLease'
    BY <1>1 DEF DhcpInv, InLease, Renewing, SendRenews, GetRenewAcks
  <1>17. Lasts'
    BY <1>1, LeaseNumbers DEF DhcpInv, DhcpTypes, Ages, Lasts
  <1>18. QED
    BY <1>11, <1>12, <1>13, <1>14, <1>15, <1>16, <1>17 DEF DhcpInv

\* The used part of the lease is over.
LEMMA BoundLeaves ==
    ASSUME DhcpInv, NEW tx \in BOOLEAN, BOUND(tx), Called(tx), ~(elapsed < 1 \/ DHCPLeaseTime >= 2)
    PROVE  DhcpInv'
  <1> USE DEF Called, world
  <1>1. /\ linked /\ smDHCPState = "BOUND"
        /\ UNCHANGED <<DHCPLeaseTime, bIsBound, DHCPServerID, tempIPAddress, MyIPAddr, overheard>>
        /\ "SEND_RENEW" \in SendRenews
    BY DEF BOUND, SendRenews
  <1>2. \/ /\ tx /\ elapsed' = 0 /\ bOfferReceived' = FALSE
           /\ smDHCPState' = "GET_RENEW_ACK"
           /\ \A q \in asked' : q.type = "RENEW" /\ q.addr = tempIPAddress
        \/ /\ ~tx /\ UNCHANGED <<asked, elapsed, bOfferReceived>> /\ smDHCPState' = "SEND_RENEW"
    BY <1>1, RenewShape, AfterFacts DEF BOUND
  <1>3. rx = {} /\ elapsed = 1 /\ DHCPLeaseTime = 1 /\ ~turned /\ left >= Slack
    BY <1>1, LeaseNumbers DEF DhcpInv, DhcpTypes, Lasts
  <1>4. flight' = {} /\ Coming' = {} /\ asked = {}
    <2>1. Coming = {} /\ asked = {}
      BY <1>1, <1>3, NothingLeft
    <2>2. QED
      BY <2>1 DEF Coming
  <1>5. holder = MyIPAddr /\ tempIPAddress \in {MyIPAddr, Foreign}
    BY <1>1 DEF DhcpInv, InLease
  <1>11. DhcpTypes'
    <2>1. smDHCPState' \in DhcpStates /\ elapsed' \in 0 .. 2
      <3>1. smDHCPState' \in {"GET_RENEW_ACK", "SEND_RENEW"} /\ elapsed' \in {0, 1}
        BY <1>2, <1>3
      <3>2. QED
        BY <3>1 DEF DhcpStates, Renewing, SendRenews, GetRenewAcks
    <2>2. \A q \in asked' : q.type \in {"DISCOVER", "REQUEST", "RENEW"}
      BY <1>2 DEF DhcpInv, DhcpTypes
    <2>3. bOfferReceived' \in BOOLEAN
      BY <1>2 DEF DhcpInv, DhcpTypes
    <2>4. DhcpTypes
      BY DEF DhcpInv
    <2>5. /\ DHCPLeaseTime' \in Nat /\ bIsBound' \in BOOLEAN /\ overheard' \in BOOLEAN
      BY <1>1, <2>4 DEF DhcpTypes
    <2>6. QED
      BY <1>1, <2>1, <2>2, <2>3, <2>4, <2>5, CallTypes
  <1>12. Ages'
    BY <1>2, <1>4 DEF Ages
  <1>13. Offered'
    BY <1>2 DEF Offered
  <1>14. Late'
    BY <1>4 DEF Late
  <1>15. Questions'
    BY <1>2, <1>4, <1>5 DEF Questions, OnlyOf, NoOffer, Renewing, GetRenewAcks
  <1>16. InLease'
    BY <1>1, <1>2, <1>4 DEF DhcpInv, InLease, OnlyOf, NoOffer, Renewing, GetRenewAcks
  <1>17. Lasts'
    BY <1>2, <1>3, LeaseNumbers DEF Lasts
  <1>18. QED
    BY <1>11, <1>12, <1>13, <1>14, <1>15, <1>16, <1>17 DEF DhcpInv

\* The request that waited for the chip.
LEMMA RequestKeeps ==
    ASSUME DhcpInv, NEW tx \in BOOLEAN, SEND_REQUEST(tx), Called(tx)
    PROVE  DhcpInv'
  <1> USE DEF Called, world
  <1>1. DhcpTypes'
    BY DEF DhcpInv, DhcpTypes, DhcpStates, SEND_REQUEST, Request, Send, NoSend
  <1>2. Ages'
    BY DEF DhcpInv, DhcpTypes, Ages, IsReply, SEND_REQUEST, Request, NoSend
  <1>3. Offered'
    BY DEF DhcpInv, Offered, SEND_REQUEST, Request
  <1>4. Late'
    BY DEF DhcpInv, Late, Coming, SEND_REQUEST
  <1>5. Questions'
    BY DEF DhcpInv, Questions, Renewing, SendRenews, GetRenewAcks, SEND_REQUEST, Request, Send,
       NoSend
  <1>6. InLease'
    BY DEF DhcpInv, InLease, Renewing, SendRenews, GetRenewAcks, SEND_REQUEST, Request
  <1>7. Lasts'
    BY DEF Lasts, GetRenewAcks, SEND_REQUEST, Request
  <1>8. QED
    BY <1>1, <1>2, <1>3, <1>4, <1>5, <1>6, <1>7 DEF DhcpInv

\* The network.
LEMMA CalmKeeps ==
    ASSUME DhcpInv, Calm
    PROVE  DhcpInv'
  <1>1. DhcpTypes'
    BY DEF DhcpInv, DhcpTypes, Calm, client
  <1>2. Ages'
    BY DEF DhcpInv, Ages, Unread, Calm, client
  <1>3. Offered'
    BY DEF DhcpInv, Offered, Calm, client
  <1>4. Late'
    BY DEF DhcpInv, Late, Coming, Calm, client
  <1>5. Questions'
    BY DEF DhcpInv, Questions, OnlyOf, NoOffer, Coming, Calm, client
  <1>6. InLease'
    BY DEF DhcpInv, InLease, OnlyOf, NoOffer, Coming, Calm, client
  <1>7. Lasts'
    BY DEF DhcpInv, Lasts, Unread, Calm, client
  <1>8. QED
    BY <1>1, <1>2, <1>3, <1>4, <1>5, <1>6, <1>7 DEF DhcpInv

LEMMA LoseKeeps ==
    ASSUME DhcpInv, NEW m, Lose(m)
    PROVE  DhcpInv'
  <1>1. DhcpTypes'
    BY DEF DhcpInv, DhcpTypes, Lose, client
  <1>2. Ages'
    BY DEF DhcpInv, Ages, Unread, Lose, client
  <1>3. Offered'
    BY DEF DhcpInv, Offered, Lose, client
  <1>4. Late'
    BY DEF DhcpInv, Late, Coming, Lose, client
  <1>5. Questions'
    BY DEF DhcpInv, Questions, OnlyOf, NoOffer, Coming, Lose, client
  <1>6. InLease'
    BY DEF DhcpInv, InLease, OnlyOf, NoOffer, Coming, Lose, client
  <1>7. Lasts'
    BY DEF DhcpInv, Lasts, Unread, Lose, client
  <1>8. QED
    BY <1>1, <1>2, <1>3, <1>4, <1>5, <1>6, <1>7 DEF DhcpInv

LEMMA LinkKeeps ==
    ASSUME DhcpInv, Link
    PROVE  DhcpInv'
  <1>1. DhcpTypes'
    BY DEF DhcpInv, DhcpTypes, Link, client
  <1>2. Ages'
    BY DEF DhcpInv, Ages, Unread, Link
  <1>3. Offered'
    BY DEF DhcpInv, Offered, Link, client
  <1>4. Late'
    BY DEF DhcpInv, Late, Coming, Link, client
  <1>5. Questions'
    BY DEF Questions, Link
  <1>6. InLease'
    BY DEF DhcpInv, InLease, OnlyOf, NoOffer, Coming, Link, client
  <1>7. Lasts'
    BY DEF DhcpInv, Lasts, Unread, Link, client
  <1>8. QED
    BY <1>1, <1>2, <1>3, <1>4, <1>5, <1>6, <1>7 DEF DhcpInv

LEMMA StutterKeeps ==
    ASSUME DhcpInv, UNCHANGED dhcpVars
    PROVE  DhcpInv'
  <1>1. DhcpTypes'
    BY DEF DhcpInv, DhcpTypes, dhcpVars, client, world
  <1>2. Ages'
    BY DEF DhcpInv, Ages, Unread, dhcpVars, client, world
  <1>3. Offered'
    BY DEF DhcpInv, Offered, dhcpVars, client
  <1>4. Late'
    BY DEF DhcpInv, Late, Coming, dhcpVars, client, world
  <1>5. Questions'
    BY DEF DhcpInv, Questions, OnlyOf, NoOffer, Coming, dhcpVars, client, world
  <1>6. InLease'
    BY DEF DhcpInv, InLease, OnlyOf, NoOffer, Coming, dhcpVars, client, world
  <1>7. Lasts'
    BY DEF DhcpInv, Lasts, Unread, dhcpVars, client, world
  <1>8. QED
    BY <1>1, <1>2, <1>3, <1>4, <1>5, <1>6, <1>7 DEF DhcpInv

\* More is on its way only of other clients.
LEMMA NothingNew ==
    ASSUME \A m \in Coming' : m \in Coming \/ IsOther(m)
    PROVE  /\ \A t : OnlyOf(t) => (\A m \in Coming' : Ack(m) \/ Nak(m) => m.server = t)
           /\ NoOffer => NoOffer'
           /\ \A m \in Coming' : Ack(m) \/ Nak(m) => m \in Coming
  BY DEF OnlyOf, NoOffer, IsOther, Ack, Nak

\* A message reaches the client's socket.
LEMMA ReceiveKeeps ==
    ASSUME DhcpInv, NEW m, Receive(m)
    PROVE  DhcpInv'
  <1>1. /\ linked /\ DHCPSocket /\ rx = {} /\ rx' = {m} /\ flight' \subseteq flight
        /\ UNCHANGED <<smDHCPState, DHCPSocket, bIsBound, bOfferReceived, DHCPServerID,
                       DHCPLeaseTime, tempIPAddress, MyIPAddr, linked, calm, left, holder, elapsed,
                       turned, asked, overheard>>
    BY DEF Receive, client
  <1>2. (m \in flight /\ IsReply(m)) \/ IsOther(m)
    BY ReplyFacts DEF Receive, DhcpInv, DhcpTypes
  <1>3. \A x \in Coming' : x \in Coming \/ IsOther(x)
    BY <1>1, <1>2 DEF Coming
  <1>11. DhcpTypes'
    BY <1>1, <1>2 DEF DhcpInv, DhcpTypes
  <1>12. Ages'
    <2>1. Ages /\ left \in Int /\ Lease \in Int
      BY LeaseNumbers DEF DhcpInv, DhcpTypes
    <2>2. \A x \in flight' : Ack(x) /\ x.server = holder => left >= Lease - x.age
      BY <1>1, <2>1 DEF Ages
    <2>3. ASSUME Ack(m), m.server = holder PROVE left >= Lease - m.age - Unread
      <3>1. m \in flight /\ m.age \in 0 .. MaxLate
        BY <1>2, <2>3 DEF IsReply, IsOther, Ack
      <3>2. left >= Lease - m.age
        BY <2>1, <2>3, <3>1 DEF Ages
      <3>3. m.age \in Int /\ Unread \in {0, 1}
        BY <3>1, LeaseNumbers DEF Unread
      <3>4. QED
        BY <2>1, <3>2, <3>3
    <2>4. Unread' = Unread
      BY <1>1 DEF Unread
    <2>5. \A x \in rx' : Ack(x) /\ x.server = holder' => left' >= Lease - x.age - Unread'
      BY <1>1, <2>3, <2>4
    <2>6. /\ smDHCPState' \in Asking => \A x \in flight' : x.age >= elapsed'
          /\ smDHCPState' = "BOUND" => \A x \in flight' : x.age >= Used - DHCPLeaseTime' + elapsed'
          /\ asked' # {} => elapsed' = 0
      BY <1>1, <2>1 DEF Ages
    <2>7. QED
      BY <1>1, <2>2, <2>5, <2>6 DEF Ages
  <1>13. Offered'
    BY <1>1 DEF DhcpInv, Offered
  <1>14. Late'
    BY <1>1, <1>3, NothingNew DEF DhcpInv, Late
  <1>15. Questions'
    BY <1>1, <1>3, NothingNew DEF DhcpInv, Questions, OnlyOf
  <1>16. InLease'
    BY <1>1, <1>3, NothingNew DEF DhcpInv, InLease, OnlyOf
  <1>17. Lasts'
    BY <1>1 DEF DhcpInv, Lasts, Unread
  <1>18. QED
    BY <1>11, <1>12, <1>13, <1>14, <1>15, <1>16, <1>17 DEF DhcpInv

\* y, a second later.
Older(x, y) ==
    /\ x.age = y.age + 1
    /\ x.type = y.type /\ x.mine = y.mine /\ x.server = y.server

\* Everything on its way is a second older.
LEMMA FlightAges ==
    ASSUME DhcpTypes, Second
    PROVE  \A x \in flight' : IsReply(x) /\ \E y \in flight : Older(x, y)
  <1> SUFFICES ASSUME NEW x \in flight' PROVE IsReply(x) /\ \E y \in flight : Older(x, y)
    OBVIOUS
  <1>1. PICK y \in flight : y.age < MaxLate /\ x = [y EXCEPT !.age = @ + 1]
    BY DEF Second
  <1>2. IsReply(y)
    BY DEF DhcpTypes
  <1>3. y.age \in 0 .. MaxLate /\ MaxLate \in Int
    BY <1>2, LeaseNumbers DEF IsReply
  <1>4. /\ DOMAIN x = DOMAIN y
        /\ x.type = y.type /\ x.mine = y.mine /\ x.server = y.server /\ x.addr = y.addr
        /\ x.age = y.age + 1
    BY <1>1, <1>2 DEF IsReply
  <1>5. x.age \in 0 .. MaxLate
    BY <1>1, <1>3, <1>4
  <1>6. IsReply(x)
    BY <1>2, <1>4, <1>5 DEF IsReply
  <1>7. QED
    BY <1>4, <1>6 DEF Older

\* A second passes.
LEMMA SecondKeeps ==
    ASSUME DhcpInv, Second
    PROVE  DhcpInv'
  <1>1. /\ turned /\ turned' = FALSE /\ asked' = {} /\ left' \in Int /\ left' >= left - 1
        /\ elapsed' = IF elapsed < 2 THEN elapsed + 1 ELSE elapsed
        /\ UNCHANGED <<smDHCPState, DHCPSocket, bIsBound, bOfferReceived, DHCPServerID,
                       DHCPLeaseTime, tempIPAddress, MyIPAddr, linked, calm, rx, holder, overheard>>
    BY DEF Second, client, DHCP_TIMEOUT, DhcpInv, DhcpTypes
  <1>2. \A x \in flight' : IsReply(x) /\ \E y \in flight : Older(x, y)
    BY FlightAges DEF DhcpInv
  <1>3. \A x \in Coming' : \E y \in Coming :
           (Ack(x) <=> Ack(y)) /\ (Nak(x) <=> Nak(y)) /\ x.server = y.server
           /\ x.mine = y.mine /\ x.type = y.type
    BY <1>1, <1>2 DEF Coming, Older, Ack, Nak
  <1>4. DhcpTypes /\ Ages
    BY DEF DhcpInv
  <1>11. DhcpTypes'
    <2>2. elapsed' \in 0 .. 2
      BY <1>1, <1>4 DEF DhcpTypes
    <2>3. QED
      BY <1>1, <1>2, <1>4, <2>2 DEF DhcpTypes
  <1>12. Ages'
    <2>1. /\ left \in Int /\ Lease \in Int /\ elapsed \in Int /\ elapsed' <= elapsed + 1
          /\ elapsed' \in Int /\ DHCPLeaseTime \in Int /\ Used \in Int
          /\ \A y \in flight : y.age \in Int
      BY <1>1, <1>4, LeaseNumbers DEF DhcpTypes, IsReply
    <2>2. ASSUME NEW x \in flight', Ack(x), x.server = holder PROVE left' >= Lease - x.age
      <3>1. PICK y \in flight : Older(x, y)
        BY <1>2
      <3>2. Ack(y) /\ y.server = holder /\ x.age = y.age + 1
        BY <2>2, <3>1 DEF Older, Ack
      <3>3. left >= Lease - y.age
        BY <1>4, <3>2 DEF Ages
      <3>4. QED
        BY <1>1, <2>1, <3>2, <3>3
    <2>3. ASSUME NEW x \in rx', Ack(x), x.server = holder PROVE left' >= Lease - x.age - Unread'
      <3>1. left >= Lease - x.age - Unread
        BY <1>1, <1>4, <2>3 DEF Ages
      <3>2. Unread = 0 /\ Unread' = 1
        BY <1>1 DEF Unread
      <3>3. x.age \in Int
        BY <1>1, <1>4, <2>3 DEF DhcpTypes, IsReply, IsOther, Ack
      <3>4. QED
        BY <1>1, <2>1, <3>1, <3>2, <3>3
    <2>4. ASSUME smDHCPState \in Asking, NEW x \in flight' PROVE x.age >= elapsed'
      <3>1. PICK y \in flight : x.age = y.age + 1
        BY <1>2 DEF Older
      <3>2. y.age >= elapsed
        BY <1>4, <2>4 DEF Ages
      <3>3. QED
        BY <2>1, <3>1, <3>2
    <2>5. ASSUME smDHCPState = "BOUND", NEW x \in flight' PROVE x.age >= Used - DHCPLeaseTime + elapsed'
      <3>1. PICK y \in flight : x.age = y.age + 1
        BY <1>2 DEF Older
      <3>2. y.age >= Used - DHCPLeaseTime + elapsed
        BY <1>4, <2>5 DEF Ages
      <3>3. QED
        BY <2>1, <3>1, <3>2
    <2>6. QED
      BY <1>1, <2>2, <2>3, <2>4, <2>5 DEF Ages
  <1>13. Offered'
    BY <1>1 DEF DhcpInv, Offered
  <1>14. Late'
    BY <1>1, <1>3 DEF DhcpInv, Late
  <1>15. Questions'
    BY <1>1 DEF Questions
  <1>16. InLease'
    BY <1>1, <1>3 DEF DhcpInv, InLease, OnlyOf, NoOffer
  <1>17. Lasts'
    BY <1>1, LeaseNumbers DEF DhcpInv, DhcpTypes, Lasts, Unread, GetRenewAcks
  <1>18. QED
    BY <1>11, <1>12, <1>13, <1>14, <1>15, <1>16, <1>17 DEF DhcpInv

\* Less is on its way.
LEMMA FewerComing ==
    ASSUME Coming' \subseteq Coming
    PROVE  /\ \A s : OnlyOf(s) => (\A m \in Coming' : Ack(m) \/ Nak(m) => m.server = s)
           /\ NoOffer => NoOffer'
  BY DEF OnlyOf, NoOffer

\* What waiting for an offer ends with.
LEMMA OfferShape ==
    ASSUME DhcpInv, NEW tx \in BOOLEAN, GET_OFFER(tx)
    PROVE  /\ linked /\ smDHCPState = "GET_OFFER" /\ ~bOfferReceived
           /\ UNCHANGED <<DHCPSocket, bIsBound, MyIPAddr>>
           /\ overheard' \in BOOLEAN /\ ~bIsBound
           /\ \/ /\ UNCHANGED <<smDHCPState, elapsed, asked, bOfferReceived, DHCPServerID>>
                 /\ DHCPLeaseTime' \in Nat
              \/ /\ DHCPServerID' \in Servers /\ tempIPAddress' = DHCPServerID'
                 /\ DHCPLeaseTime' = Used /\ bOfferReceived' = TRUE
                 /\ \/ /\ UNCHANGED <<elapsed, asked>> /\ smDHCPState' = "SEND_REQUEST"
                    \/ /\ elapsed' = 0 /\ smDHCPState' = "GET_REQUEST_ACK"
                       /\ \A q \in asked' : q.type = "REQUEST" /\ q.server = DHCPServerID'
  <1>1. PICK m \in rx : /\ DHCPReceive(m)
                        /\ IF DHCPType(m) = "OFFER" THEN Request(tx)
                           ELSE NoSend /\ UNCHANGED <<smDHCPState, elapsed>>
    BY DEF GET_OFFER
  <1>2. /\ linked /\ smDHCPState = "GET_OFFER" /\ UNCHANGED <<DHCPSocket, bIsBound, MyIPAddr>>
    BY DEF GET_OFFER
  <1>3. ~bOfferReceived /\ ~bIsBound
    BY <1>2 DEF DhcpInv, Offered, InLease, Renewing, SendRenews, GetRenewAcks
  <1>4. IsReply(m) \/ IsOther(m)
    BY DEF DhcpInv, DhcpTypes
  <1>5. overheard' \in BOOLEAN
    BY <1>1 DEF DHCPReceive
  <1>6. Used \in Nat /\ DHCPLeaseTime \in Nat
    BY LeaseNumbers DEF DhcpInv, DhcpTypes
  <1>7. CASE DHCPType(m) = "OFFER"
    <2>1. m.mine /\ m.type = "OFFER" /\ IsReply(m)
      BY <1>4, <1>7 DEF DHCPType, IsOther
    <2>2. /\ DHCPServerID' = m.server /\ m.server \in Servers /\ tempIPAddress' = m.server
          /\ DHCPLeaseTime' = Used /\ bOfferReceived' = TRUE
      BY <1>1, <1>3, <1>7, <2>1 DEF DHCPReceive, IsReply, Used
    <2>3. Request(tx)
      BY <1>1, <1>7
    <2>4. \/ /\ UNCHANGED <<elapsed, asked>> /\ smDHCPState' = "SEND_REQUEST"
          \/ /\ elapsed' = 0 /\ smDHCPState' = "GET_REQUEST_ACK"
             /\ \A q \in asked' : q.type = "REQUEST" /\ q.server = DHCPServerID'
      BY <2>3 DEF Request, Send, NoSend
    <2>5. QED
      BY <1>2, <1>3, <1>5, <2>2, <2>4
  <1>8. CASE DHCPType(m) # "OFFER"
    <2>1. DHCPServerID' = DHCPServerID /\ bOfferReceived' = bOfferReceived
      BY <1>1, <1>8 DEF DHCPReceive, DhcpInv, DhcpTypes
    <2>2. DHCPLeaseTime' \in Nat
      BY <1>1, <1>6 DEF DHCPReceive, Used
    <2>3. QED
      BY <1>1, <1>2, <1>3, <1>5, <1>8, <2>1, <2>2 DEF NoSend
  <1>9. QED
    BY <1>7, <1>8

\* An offer, or a message that is none.
LEMMA OfferKeeps ==
    ASSUME DhcpInv, NEW tx \in BOOLEAN, GET_OFFER(tx), Called(tx)
    PROVE  DhcpInv'
  <1> USE DEF Called, world
  <1>1. /\ linked /\ smDHCPState = "GET_OFFER" /\ ~bOfferReceived
        /\ UNCHANGED <<DHCPSocket, bIsBound, MyIPAddr>>
        /\ overheard' \in BOOLEAN /\ ~bIsBound
        /\ \/ /\ UNCHANGED <<smDHCPState, elapsed, asked, bOfferReceived, DHCPServerID>>
              /\ DHCPLeaseTime' \in Nat
           \/ /\ DHCPServerID' \in Servers /\ tempIPAddress' = DHCPServerID'
              /\ DHCPLeaseTime' = Used /\ bOfferReceived' = TRUE
              /\ \/ /\ UNCHANGED <<elapsed, asked>> /\ smDHCPState' = "SEND_REQUEST"
                 \/ /\ elapsed' = 0 /\ smDHCPState' = "GET_REQUEST_ACK"
                    /\ \A q \in asked' : q.type = "REQUEST" /\ q.server = DHCPServerID'
    BY OfferShape
  <1>2. /\ smDHCPState' \in {"GET_OFFER", "SEND_REQUEST", "GET_REQUEST_ACK"}
        /\ \A q \in asked : q.type = "DISCOVER"
    BY <1>1 DEF DhcpInv, DhcpTypes, Questions, Renewing, SendRenews, GetRenewAcks
  <1>3. Coming' = flight /\ Coming' \subseteq Coming
    BY DEF Coming
  <1>11. DhcpTypes'
    <2>1. DhcpTypes
      BY DEF DhcpInv
    <2>2. smDHCPState' \in DhcpStates
      BY <1>2 DEF DhcpStates
    <2>3. elapsed' \in 0 .. 2
      BY <1>1, <2>1 DEF DhcpTypes
    <2>7. bIsBound' \in BOOLEAN /\ bOfferReceived' \in BOOLEAN
      BY <1>1, <2>1, Zenon DEF DhcpTypes
    <2>4. DHCPLeaseTime' \in Nat
      BY <1>1, LeaseNumbers
    <2>5. \A q \in asked' : q.type \in {"DISCOVER", "REQUEST", "RENEW"}
      BY <1>1, <2>1 DEF DhcpTypes
    <2>6. QED
      BY <1>1, <2>1, <2>2, <2>3, <2>4, <2>5, <2>7, CallTypes
  <1>12. Ages'
    BY <1>1 DEF DhcpInv, DhcpTypes, Ages, Asking, IsReply
  <1>13. Offered'
    BY <1>1, <1>2 DEF Offered
  <1>14. Late'
    BY <1>1, <1>3 DEF DhcpInv, Late
  <1>15. Questions'
    BY <1>1, <1>2 DEF Questions, Renewing, SendRenews, GetRenewAcks
  <1>16. InLease'
    BY <1>1 DEF InLease, Renewing, SendRenews, GetRenewAcks
  <1>17. Lasts'
    BY <1>2 DEF Lasts, GetRenewAcks
  <1>18. QED
    BY <1>11, <1>12, <1>13, <1>14, <1>15, <1>16, <1>17 DEF DhcpInv

\* What waiting for the acknowledgement of the request ends with.
LEMMA RequestAckShape ==
    ASSUME DhcpInv, GET_REQUEST_ACK
    PROVE  /\ linked /\ smDHCPState = "GET_REQUEST_ACK" /\ ~bIsBound
           /\ bOfferReceived /\ DHCPServerID \in Servers
           /\ tempIPAddress = DHCPServerID /\ DHCPLeaseTime = Used
           /\ UNCHANGED <<asked, tempIPAddress, DHCPLeaseTime, DHCPServerID, bOfferReceived, overheard>>
           /\ \/ /\ \E m \in rx : Ack(m) /\ m.server = DHCPServerID
                 /\ DHCPSocket' = FALSE /\ elapsed' = 0 /\ smDHCPState' = "BOUND"
                 /\ bIsBound' = TRUE /\ MyIPAddr' = DHCPServerID
              \/ /\ \E m \in rx : Nak(m) /\ m.server = DHCPServerID
                 /\ smDHCPState' = "SEND_DISCOVERY"
                 /\ UNCHANGED <<DHCPSocket, elapsed, bIsBound, MyIPAddr>>
              \/ UNCHANGED <<smDHCPState, DHCPSocket, elapsed, bIsBound, MyIPAddr>>
  <1>1. PICK m \in rx :
        /\ DHCPReceive(m)
        /\ \/ /\ DHCPType(m) = "ACK"
              /\ DHCPSocket' = FALSE /\ elapsed' = 0 /\ smDHCPState' = "BOUND"
              /\ bIsBound' = TRUE
              /\ MyIPAddr' = tempIPAddress'
           \/ /\ DHCPType(m) = "NAK"
              /\ smDHCPState' = "SEND_DISCOVERY"
              /\ UNCHANGED <<DHCPSocket, elapsed, bIsBound, MyIPAddr>>
           \/ /\ DHCPType(m) \in {"OFFER", "UNKNOWN"}
              /\ UNCHANGED <<smDHCPState, DHCPSocket, elapsed, bIsBound, MyIPAddr>>
    BY DEF GET_REQUEST_ACK
  <1>2. linked /\ smDHCPState = "GET_REQUEST_ACK" /\ asked' = asked
    BY DEF GET_REQUEST_ACK, NoSend
  <1>3. /\ bOfferReceived = TRUE /\ DHCPServerID \in Servers /\ ~bIsBound
        /\ tempIPAddress = DHCPServerID /\ DHCPLeaseTime = Used
    BY <1>2 DEF DhcpInv, Offered, InLease, Renewing, SendRenews
  <1>4. DHCPType(m) # "OFFER"
    BY <1>3 DEF DHCPType
  <1>5. /\ DHCPType(m) = "ACK" => Ack(m) /\ m.server = DHCPServerID
        /\ DHCPType(m) = "NAK" => Nak(m) /\ m.server = DHCPServerID
    BY DEF DHCPType, Ack, Nak
  <1>6. UNCHANGED <<tempIPAddress, DHCPLeaseTime, DHCPServerID, bOfferReceived>>
    BY <1>1, <1>3, <1>4 DEF DHCPReceive
  <1>7. overheard' = overheard
    BY <1>1, <1>3, <1>4 DEF DHCPReceive, DhcpInv, DhcpTypes
  <1>8. QED
    BY <1>1, <1>2, <1>3, <1>5, <1>6, <1>7

\* The request is acknowledged or refused.
LEMMA RequestAckKeeps ==
    ASSUME DhcpInv, NEW tx \in BOOLEAN, GET_REQUEST_ACK, Called(tx)
    PROVE  DhcpInv'
  <1> USE DEF Called, world
  <1>1. /\ linked /\ smDHCPState = "GET_REQUEST_ACK" /\ ~bIsBound
        /\ bOfferReceived /\ DHCPServerID \in Servers
        /\ tempIPAddress = DHCPServerID /\ DHCPLeaseTime = Used
        /\ UNCHANGED <<asked, tempIPAddress, DHCPLeaseTime, DHCPServerID, bOfferReceived, overheard>>
    BY RequestAckShape
  <1>2. \/ /\ \E m \in rx : Ack(m) /\ m.server = DHCPServerID
           /\ DHCPSocket' = FALSE /\ elapsed' = 0 /\ smDHCPState' = "BOUND"
           /\ bIsBound' = TRUE /\ MyIPAddr' = DHCPServerID
        \/ /\ \E m \in rx : Nak(m) /\ m.server = DHCPServerID
           /\ smDHCPState' = "SEND_DISCOVERY"
           /\ UNCHANGED <<DHCPSocket, elapsed, bIsBound, MyIPAddr>>
        \/ UNCHANGED <<smDHCPState, DHCPSocket, elapsed, bIsBound, MyIPAddr>>
    BY RequestAckShape
  <1>3. Coming' = flight /\ Coming' \subseteq Coming /\ rx \subseteq Coming
    BY DEF Coming
  <1>4. \A q \in asked : q.type = "REQUEST" /\ q.server = DHCPServerID
    BY <1>1 DEF DhcpInv, Questions
  <1>5. smDHCPState' = "BOUND" =>
           /\ \E m \in rx : Ack(m) /\ m.server = DHCPServerID
           /\ bIsBound' = TRUE /\ MyIPAddr' = DHCPServerID /\ elapsed' = 0 /\ DHCPSocket' = FALSE
           /\ holder = DHCPServerID
    BY <1>1, <1>2, <1>3 DEF DhcpInv, Late
  <1>6. smDHCPState' = "BOUND" => left >= Slack + Used
    <2>1. SUFFICES ASSUME smDHCPState' = "BOUND" PROVE left >= Slack + Used
      OBVIOUS
    <2>2. PICK m \in rx : Ack(m) /\ m.server = DHCPServerID
      BY <1>5, <2>1
    <2>3. left >= Lease - m.age - Unread
      BY <1>5, <2>1, <2>2 DEF DhcpInv, Ages
    <2>4. m.age \in 0 .. MaxLate
      BY <2>2 DEF DhcpInv, DhcpTypes, IsReply, IsOther, Ack
    <2>5. Unread \in {0, 1} /\ left \in Int
      BY DEF Unread, DhcpInv, DhcpTypes
    <2>6. QED
      BY <2>3, <2>4, <2>5, LeaseNumbers
  <1>7. smDHCPState' = "SEND_DISCOVERY" =>
           /\ ~bIsBound' /\ elapsed' = elapsed
           /\ \A n \in Coming : Nak(n) => n.server = DHCPServerID
           /\ \A n \in Coming : Ack(n) => n.server = DHCPServerID /\ n.server = holder
    BY <1>1, <1>2, <1>3 DEF DhcpInv, Late
  <1>8. \/ smDHCPState' \in {"BOUND", "SEND_DISCOVERY"}
        \/ UNCHANGED <<smDHCPState, elapsed, bIsBound, MyIPAddr>>
    BY <1>2
  <1>11. DhcpTypes'
    <2>1. DhcpTypes
      BY DEF DhcpInv
    <2>2. smDHCPState' \in DhcpStates
      BY <1>1, <1>8 DEF DhcpStates
    <2>3. elapsed' \in 0 .. 2
      BY <1>2, <2>1 DEF DhcpTypes
    <2>7. bIsBound' \in BOOLEAN
      BY <1>2, <2>1, Zenon DEF DhcpTypes
    <2>4. DHCPLeaseTime' \in Nat /\ bOfferReceived' \in BOOLEAN /\ overheard' \in BOOLEAN
      BY <1>1, <2>1 DEF DhcpTypes
    <2>5. \A q \in asked' : q.type \in {"DISCOVER", "REQUEST", "RENEW"}
      BY <1>1, <1>4
    <2>6. QED
      BY <1>1, <2>1, <2>2, <2>3, <2>4, <2>5, <2>7, CallTypes
  <1>12. Ages'
    <2>1. Ages /\ \A m \in flight : m.age \in 0 .. MaxLate
      BY DEF DhcpInv, DhcpTypes, IsReply
    <2>2. asked' # {} => elapsed' = 0
      BY <1>1, <1>2, <2>1 DEF Ages
    <2>3. smDHCPState' = "BOUND" => \A m \in flight' : m.age >= Used - DHCPLeaseTime' + elapsed'
      BY <1>1, <1>5, <2>1, LeaseNumbers
    <2>4. smDHCPState' \in Asking => \A m \in flight' : m.age >= elapsed'
      BY <1>8, <2>1 DEF Ages, Asking, GetRenewAcks
    <2>5. QED
      BY <2>1, <2>2, <2>3, <2>4 DEF Ages
  <1>13. Offered'
    BY <1>1, <1>8 DEF Offered
  <1>14. Late'
    <2>1. CASE smDHCPState' = "SEND_DISCOVERY"
      BY <1>3, <1>7, <2>1 DEF Late
    <2>2. CASE smDHCPState' # "SEND_DISCOVERY"
      BY <1>1, <1>3, <1>8, <2>2 DEF DhcpInv, Late
    <2>3. QED
      BY <2>1, <2>2
  <1>15. Questions'
    <2>1. CASE smDHCPState' = "SEND_DISCOVERY"
      BY <1>1, <1>3, <1>4, <1>7, <2>1 DEF Questions, OnlyOf, Renewing, SendRenews, GetRenewAcks
    <2>2. CASE smDHCPState' # "SEND_DISCOVERY"
      BY <1>1, <1>4, <1>8, <2>2 DEF Questions, Renewing, SendRenews, GetRenewAcks
    <2>3. QED
      BY <2>1, <2>2
  <1>16. InLease'
    BY <1>1, <1>5, <1>7, <1>8 DEF InLease, Renewing, SendRenews, GetRenewAcks
  <1>17. Lasts'
    BY <1>1, <1>5, <1>6, <1>7, <1>8, LeaseNumbers DEF Lasts, GetRenewAcks
  <1>18. QED
    BY <1>11, <1>12, <1>13, <1>14, <1>15, <1>16, <1>17 DEF DhcpInv

\* What waiting for the acknowledgement of a renewal ends with.
LEMMA RenewAckShape ==
    ASSUME DhcpInv, GET_RENEW_ACK
    PROVE  /\ linked /\ smDHCPState \in GetRenewAcks /\ bIsBound
           /\ holder = MyIPAddr /\ DHCPServerID = MyIPAddr
           /\ UNCHANGED <<asked, DHCPServerID, bOfferReceived, bIsBound, MyIPAddr>>
           /\ DHCPLeaseTime' \in Nat
           /\ \/ /\ \E m \in rx : Ack(m) /\ m.server = holder
                 /\ DHCPSocket' = FALSE /\ elapsed' = 0 /\ smDHCPState' = "BOUND"
                 /\ tempIPAddress' = MyIPAddr /\ DHCPLeaseTime' = Used /\ overheard' = overheard
              \/ /\ smDHCPState' = "SEND_DISCOVERY"
                 /\ UNCHANGED <<DHCPSocket, elapsed, overheard>>
              \/ /\ UNCHANGED <<smDHCPState, DHCPSocket, elapsed>>
                 /\ tempIPAddress' = Foreign /\ overheard' = TRUE
  <1>1. PICK m \in rx :
        /\ DHCPReceive(m)
        /\ \/ /\ DHCPType(m) = "ACK"
              /\ DHCPSocket' = FALSE /\ elapsed' = 0 /\ smDHCPState' = "BOUND"
           \/ /\ DHCPType(m) = "NAK"
              /\ smDHCPState' = "SEND_DISCOVERY"
              /\ UNCHANGED <<DHCPSocket, elapsed>>
           \/ /\ DHCPType(m) \in {"OFFER", "UNKNOWN"}
              /\ UNCHANGED <<smDHCPState, DHCPSocket, elapsed>>
    BY DEF GET_RENEW_ACK
  <1>2. /\ linked /\ smDHCPState \in GetRenewAcks /\ asked' = asked
        /\ UNCHANGED <<bIsBound, MyIPAddr>>
    BY DEF GET_RENEW_ACK, NoSend
  <1>3. /\ bIsBound /\ holder = MyIPAddr /\ DHCPServerID = MyIPAddr /\ bOfferReceived = FALSE
        /\ NoOffer /\ OnlyOf(MyIPAddr)
    BY <1>2 DEF DhcpInv, InLease, Renewing
  <1>4. m \in Coming /\ (IsReply(m) \/ IsOther(m))
    BY DEF DhcpInv, DhcpTypes, Coming
  <1>5. overheard \in BOOLEAN /\ DHCPLeaseTime \in Nat
    BY DEF DhcpInv, DhcpTypes
  <1>6. CASE IsOther(m)
    <2>1. DHCPType(m) = "UNKNOWN" /\ ~m.mine /\ m.addr = Foreign
      BY <1>6 DEF IsOther, DHCPType
    <2>2. /\ tempIPAddress' = Foreign /\ DHCPLeaseTime' = DHCPLeaseTime
          /\ DHCPServerID' = DHCPServerID /\ overheard' = TRUE
      BY <1>1, <1>3, <2>1 DEF DHCPReceive
    <2>3. bOfferReceived' = bOfferReceived
      BY <1>1, <1>3, <2>1 DEF DHCPReceive
    <2>4. QED
      BY <1>1, <1>2, <1>3, <1>5, <2>1, <2>2, <2>3
  <1>7. CASE IsReply(m)
    <2>1. /\ m.mine = TRUE /\ m.type \in {"ACK", "NAK"} /\ m.server = MyIPAddr
          /\ m.type = "ACK" => m.addr = MyIPAddr
      BY <1>3, <1>4, <1>7 DEF IsReply, NoOffer, OnlyOf, Ack, Nak
    <2>2. DHCPType(m) = m.type
      BY <1>3, <2>1 DEF DHCPType
    <2>3. DHCPServerID' = DHCPServerID /\ DHCPLeaseTime' = IF m.type = "NAK" THEN DHCPLeaseTime ELSE Used
      BY <1>1, <1>3, <2>1 DEF DHCPReceive, Used
    <2>4. bOfferReceived' = bOfferReceived /\ overheard' = overheard
      BY <1>1, <1>3, <1>5, <2>1, <2>2 DEF DHCPReceive
    <2>5. m.type = "ACK" => tempIPAddress' = MyIPAddr
      BY <1>1, <1>3, <2>1 DEF DHCPReceive
    <2>6. DHCPLeaseTime' \in Nat
      BY <1>5, <2>3, LeaseNumbers
    <2>7. m.type = "ACK" => Ack(m) /\ m.server = holder
      BY <1>3, <2>1 DEF Ack
    <2>8. QED
      BY <1>1, <1>2, <1>3, <2>1, <2>2, <2>3, <2>4, <2>5, <2>6, <2>7
  <1>8. QED
    BY <1>4, <1>6, <1>7

\* A renewal is acknowledged or refused, or another client's message replaces the
\* address that the next renewal asks for.
LEMMA RenewAckKeeps ==
    ASSUME DhcpInv, NEW tx \in BOOLEAN, GET_RENEW_ACK, Called(tx)
    PROVE  DhcpInv'
  <1> USE DEF Called, world
  <1>1. /\ linked /\ smDHCPState \in GetRenewAcks /\ bIsBound
        /\ holder = MyIPAddr /\ DHCPServerID = MyIPAddr
        /\ UNCHANGED <<asked, DHCPServerID, bOfferReceived, bIsBound, MyIPAddr>>
        /\ DHCPLeaseTime' \in Nat
    BY RenewAckShape
  <1>2. \/ /\ \E m \in rx : Ack(m) /\ m.server = holder
           /\ DHCPSocket' = FALSE /\ elapsed' = 0 /\ smDHCPState' = "BOUND"
           /\ tempIPAddress' = MyIPAddr /\ DHCPLeaseTime' = Used /\ overheard' = overheard
        \/ /\ smDHCPState' = "SEND_DISCOVERY"
           /\ UNCHANGED <<DHCPSocket, elapsed, overheard>>
        \/ /\ UNCHANGED <<smDHCPState, DHCPSocket, elapsed>>
           /\ tempIPAddress' = Foreign /\ overheard' = TRUE
    BY RenewAckShape
  <1>3. Coming' = flight /\ Coming' \subseteq Coming /\ rx \subseteq Coming
    BY DEF Coming
  <1>4. /\ NoOffer /\ OnlyOf(holder) /\ NoOffer' /\ OnlyOf(holder)'
        /\ \A q \in asked : q.type = "RENEW" /\ q.addr \in {holder, Foreign}
        /\ smDHCPState \in Renewing /\ ~bOfferReceived /\ MyIPAddr \in Servers
    BY <1>1, <1>3 DEF DhcpInv, Questions, InLease, Renewing, NoOffer, OnlyOf
  <1>5. smDHCPState' \in {"BOUND", "SEND_DISCOVERY"} \cup GetRenewAcks
    BY <1>1, <1>2
  <1>6. smDHCPState' = "BOUND" =>
           /\ \E m \in rx : Ack(m) /\ m.server = holder
           /\ DHCPSocket' = FALSE /\ elapsed' = 0 /\ tempIPAddress' = MyIPAddr /\ DHCPLeaseTime' = Used
    BY <1>1, <1>2 DEF GetRenewAcks
  <1>7. smDHCPState' = "BOUND" => left >= Slack + Used
    <2>1. SUFFICES ASSUME smDHCPState' = "BOUND" PROVE left >= Slack + Used
      OBVIOUS
    <2>2. PICK m \in rx : Ack(m) /\ m.server = holder
      BY <1>6, <2>1
    <2>3. left >= Lease - m.age - Unread
      BY <2>2 DEF DhcpInv, Ages
    <2>4. m.age \in 0 .. MaxLate
      BY <2>2 DEF DhcpInv, DhcpTypes, IsReply, IsOther, Ack
    <2>5. Unread \in {0, 1} /\ left \in Int
      BY DEF Unread, DhcpInv, DhcpTypes
    <2>6. QED
      BY <2>3, <2>4, <2>5, LeaseNumbers
  <1>8. smDHCPState' \in GetRenewAcks =>
           /\ UNCHANGED <<smDHCPState, DHCPSocket, elapsed>>
           /\ tempIPAddress' = Foreign /\ overheard' = TRUE
    BY <1>2 DEF GetRenewAcks
  <1>11. DhcpTypes'
    <2>1. DhcpTypes
      BY DEF DhcpInv
    <2>2. smDHCPState' \in DhcpStates
      BY <1>5 DEF DhcpStates, Renewing
    <2>3. elapsed' \in 0 .. 2
      BY <1>2, <2>1 DEF DhcpTypes
    <2>4. bIsBound' \in BOOLEAN /\ bOfferReceived' \in BOOLEAN
      BY <1>1, <2>1 DEF DhcpTypes
    <2>5. overheard' \in BOOLEAN
      BY <1>2, <2>1, Zenon DEF DhcpTypes
    <2>6. \A q \in asked' : q.type \in {"DISCOVER", "REQUEST", "RENEW"}
      BY <1>1, <1>4
    <2>7. QED
      BY <1>1, <2>1, <2>2, <2>3, <2>4, <2>5, <2>6, CallTypes
  <1>12. Ages'
    <2>1. Ages /\ \A m \in flight : m.age \in 0 .. MaxLate
      BY DEF DhcpInv, DhcpTypes, IsReply
    <2>2. asked' # {} => elapsed' = 0
      BY <1>1, <1>2, <2>1 DEF Ages
    <2>3. smDHCPState' = "BOUND" => \A m \in flight' : m.age >= Used - DHCPLeaseTime' + elapsed'
      BY <1>6, <2>1, LeaseNumbers
    <2>4. smDHCPState' \in Asking => \A m \in flight' : m.age >= elapsed'
      BY <1>5, <1>8, <2>1 DEF Ages, Asking
    <2>5. QED
      BY <2>1, <2>2, <2>3, <2>4 DEF Ages
  <1>13. Offered'
    BY <1>5 DEF Offered, GetRenewAcks
  <1>14. Late'
    BY <1>4 DEF Late, OnlyOf
  <1>15. Questions'
    BY <1>1, <1>4, <1>5 DEF Questions, Renewing, GetRenewAcks
  <1>16. InLease'
    BY <1>1, <1>4, <1>5, <1>6, <1>8 DEF InLease, Renewing, SendRenews
  <1>17. Lasts'
    <2>1. CASE smDHCPState' = "BOUND"
      BY <1>6, <1>7, <2>1, LeaseNumbers DEF Lasts
    <2>2. CASE smDHCPState' = "SEND_DISCOVERY"
      <3>1. left >= Slack - 8
        <4>1. left \in Int /\ elapsed \in 0 .. 2 /\ Slack \in Int
          BY LeaseNumbers DEF DhcpInv, DhcpTypes
        <4>2. left >= Slack - 6 - elapsed
          BY <1>1, <4>1 DEF DhcpInv, Lasts, GetRenewAcks
        <4>3. QED
          BY <4>1, <4>2
      <3>2. left \in Int /\ Slack \in Int /\ left' = left
        BY LeaseNumbers DEF DhcpInv, DhcpTypes
      <3>3. left' >= Slack - 8 - (IF turned' THEN 0 ELSE 1)
        BY <3>1, <3>2
      <3>4. QED
        BY <2>2, <3>3 DEF Lasts, GetRenewAcks, Unread
    <2>3. CASE smDHCPState' \in GetRenewAcks
      <3>1. UNCHANGED <<smDHCPState, elapsed, left>> /\ rx # {}
        BY <1>8, <2>3 DEF GET_RENEW_ACK
      <3>3. QED
        BY <1>1, <3>1 DEF DhcpInv, Lasts, GetRenewAcks
    <2>4. QED
      BY <1>5, <2>1, <2>2, <2>3
  <1>18. QED
    BY <1>11, <1>12, <1>13, <1>14, <1>15, <1>16, <1>17 DEF DhcpInv

\* At most one broadcast can be answered.
OneAsked == \A p, q \in asked : p = q

\* Send replaces the broadcast before.
LEMMA AskedOnce ==
    ASSUME OneAsked, [DhcpNext]_dhcpVars
    PROVE  OneAsked'
  <1>1. ASSUME NEW tx \in BOOLEAN, StackTask(tx) PROVE OneAsked'
    BY <1>1 DEF OneAsked, StackTask, SEND_DISCOVERY, SendDiscovery, Unlinked, GET_OFFER,
       SEND_REQUEST, GET_REQUEST_ACK, BOUND, SEND_RENEW, Renew, GET_RENEW_ACK, Timeout, Request,
       Send, NoSend
  <1>2. ASSUME NEW m, Receive(m) PROVE OneAsked'
    BY <1>2 DEF OneAsked, Receive
  <1>3. ASSUME AnswerAny PROVE OneAsked'
    BY <1>3 DEF OneAsked, AnswerAny, Answer
  <1>4. ASSUME NEW m, Lose(m) PROVE OneAsked'
    BY <1>4 DEF OneAsked, Lose
  <1>5. ASSUME Link \/ Calm \/ Second PROVE OneAsked'
    BY <1>5 DEF OneAsked, Link, Calm, Second
  <1>6. ASSUME UNCHANGED dhcpVars PROVE OneAsked'
    BY <1>6 DEF OneAsked, dhcpVars
  <1>7. QED
    BY <1>1, <1>2, <1>3, <1>4, <1>5, <1>6 DEF DhcpNext

\* Who may acknowledge or refuse now: the server that was asked, and no other.
LEMMA AnswerShape ==
    ASSUME DhcpInv, OneAsked, NEW s \in Servers, NEW q, NEW type \in {"OFFER", "ACK", "NAK"},
           Answer(s, q, type)
    PROVE  /\ q \in asked /\ elapsed = 0 /\ linked
           /\ \E r : /\ IsReply(r) /\ r.type = type /\ r.server = s /\ r.age = 0
                     /\ flight' = flight \cup {r}
           /\ IF type = "ACK" THEN left' = Lease /\ holder' = s ELSE UNCHANGED <<left, holder>>
           /\ \A p \in asked' : p = q
           /\ \/ type = "OFFER" /\ q.type = "DISCOVER" /\ smDHCPState \in {"GET_OFFER", "SEND_REQUEST"}
              \/ /\ type = "ACK" /\ q.type = "REQUEST" /\ q.server = s
                 /\ \/ smDHCPState \in {"GET_REQUEST_ACK", "BOUND"} /\ DHCPServerID = s
                    \/ smDHCPState = "SEND_DISCOVERY" /\ ~bIsBound /\ OnlyOf(s)
              \/ /\ type \in {"ACK", "NAK"} /\ q.type = "RENEW" /\ holder = s /\ q.addr = s
                 /\ smDHCPState \in Renewing \cup {"BOUND", "SEND_DISCOVERY"}
                 /\ NoOffer /\ OnlyOf(s)
  <1>1. q \in asked /\ Reacts(s, q, type)
    BY DEF Answer
  <1>2. elapsed = 0 /\ linked /\ q.type \in {"DISCOVER", "REQUEST", "RENEW"}
    BY <1>1 DEF DhcpInv, DhcpTypes, Ages
  <1>3. IsReply(Reply(type, s, 0)) /\ Reply(type, s, 0).age = 0
        /\ Reply(type, s, 0).type = type /\ Reply(type, s, 0).server = s
    BY LeaseNumbers DEF Reply, IsReply
  <1>4. flight' = flight \cup {Reply(type, s, 0)}
    BY DEF Answer
  <1>5. /\ IF type = "ACK" THEN left' = Lease /\ holder' = s ELSE UNCHANGED <<left, holder>>
        /\ \A p \in asked' : p = q
    BY <1>1 DEF Answer, OneAsked
  <1>6. \/ type = "OFFER" /\ q.type = "DISCOVER" /\ smDHCPState \in {"GET_OFFER", "SEND_REQUEST"}
        \/ /\ type = "ACK" /\ q.type = "REQUEST" /\ q.server = s
           /\ \/ smDHCPState \in {"GET_REQUEST_ACK", "BOUND"} /\ DHCPServerID = s
              \/ smDHCPState = "SEND_DISCOVERY" /\ ~bIsBound /\ OnlyOf(s)
        \/ /\ type \in {"ACK", "NAK"} /\ q.type = "RENEW" /\ holder = s /\ q.addr = s
           /\ smDHCPState \in Renewing \cup {"BOUND", "SEND_DISCOVERY"}
           /\ NoOffer /\ OnlyOf(s)
    <2>1. CASE q.type = "DISCOVER"
      BY <1>1, <2>1 DEF Reacts, DhcpInv, Questions
    <2>2. CASE q.type = "REQUEST"
      BY <1>1, <2>2 DEF Reacts, DhcpInv, Questions
    <2>3. CASE q.type = "RENEW"
      <3>1. type \in {"ACK", "NAK"} /\ holder = s /\ q.addr = s
        BY <1>1, <2>3 DEF Reacts
      <3>2. QED
        BY <1>1, <2>3, <3>1 DEF DhcpInv, Questions
    <2>4. QED
      BY <1>2, <2>1, <2>2, <2>3
  <1>7. QED
    BY <1>1, <1>2, <1>3, <1>4, <1>5, <1>6

\* A server answers.
LEMMA AnswerKeeps ==
    ASSUME DhcpInv, OneAsked, NEW s \in Servers, NEW q, NEW type \in {"OFFER", "ACK", "NAK"},
           Answer(s, q, type)
    PROVE  DhcpInv'
  <1>1. /\ UNCHANGED <<smDHCPState, DHCPSocket, bIsBound, bOfferReceived, DHCPServerID,
                       DHCPLeaseTime, tempIPAddress, MyIPAddr, linked, calm, elapsed, turned, rx,
                       overheard>>
        /\ asked' \subseteq asked
    BY DEF Answer, client
  <1>2. /\ q \in asked /\ elapsed = 0 /\ linked
        /\ IF type = "ACK" THEN left' = Lease /\ holder' = s ELSE UNCHANGED <<left, holder>>
        /\ \A p \in asked' : p = q
    BY AnswerShape
  <1>3. PICK r : /\ IsReply(r) /\ r.type = type /\ r.server = s /\ r.age = 0
                 /\ flight' = flight \cup {r}
    BY AnswerShape
  <1>4. \/ type = "OFFER" /\ q.type = "DISCOVER" /\ smDHCPState \in {"GET_OFFER", "SEND_REQUEST"}
        \/ /\ type = "ACK" /\ q.type = "REQUEST" /\ q.server = s
           /\ \/ smDHCPState \in {"GET_REQUEST_ACK", "BOUND"} /\ DHCPServerID = s
              \/ smDHCPState = "SEND_DISCOVERY" /\ ~bIsBound /\ OnlyOf(s)
        \/ /\ type \in {"ACK", "NAK"} /\ q.type = "RENEW" /\ holder = s /\ q.addr = s
           /\ smDHCPState \in Renewing \cup {"BOUND", "SEND_DISCOVERY"}
           /\ NoOffer /\ OnlyOf(s)
    BY AnswerShape
  <1>5. /\ Coming' = Coming \cup {r} /\ r.mine
        /\ Ack(r) <=> type = "ACK"
        /\ Nak(r) <=> type = "NAK"
    BY <1>1, <1>3 DEF Coming, Ack, Nak, IsReply
  <1>6. OnlyOf(s) => \A m \in Coming' : Ack(m) \/ Nak(m) => m.server = s
    BY <1>3, <1>5 DEF OnlyOf
  <1>7. type # "OFFER" /\ NoOffer => NoOffer'
    BY <1>3, <1>5 DEF NoOffer
    <1>11. DhcpTypes'
    <2>1. left' \in Int
      BY <1>2, LeaseNumbers DEF DhcpInv, DhcpTypes
    <2>2. QED
      BY <1>1, <1>2, <1>3, <2>1 DEF DhcpInv, DhcpTypes
  <1>12. Ages'
    <2>1. /\ Ages /\ \A m \in flight : m.age \in 0 .. MaxLate
          /\ \A m \in rx : Ack(m) => m.age \in 0 .. MaxLate
      BY DEF DhcpInv, DhcpTypes, IsReply, IsOther, Ack
    <2>2. smDHCPState' \in Asking => \A m \in flight' : m.age >= elapsed'
      BY <1>1, <1>2, <1>3, <2>1
    <2>3. smDHCPState' = "BOUND" => \A m \in flight' : m.age >= Used - DHCPLeaseTime' + elapsed'
      <3>1. smDHCPState = "BOUND" => DHCPLeaseTime = Used
        BY <1>2 DEF DhcpInv, Lasts
      <3>2. QED
        BY <1>1, <1>2, <1>3, <2>1, <3>1, LeaseNumbers
    <2>4. \A m \in flight' : Ack(m) /\ m.server = holder' => left' >= Lease - m.age
      <3>1. CASE type = "ACK"
        BY <1>2, <1>3, <2>1, <3>1, LeaseNumbers
      <3>2. CASE type # "ACK"
        BY <1>2, <1>3, <1>5, <2>1, <3>2 DEF Ages
      <3>3. QED
        BY <3>1, <3>2
    <2>5. \A m \in rx' : Ack(m) /\ m.server = holder' => left' >= Lease - m.age - Unread'
      <3>1. Unread' = Unread /\ Unread \in {0, 1}
        BY <1>1 DEF Unread
      <3>2. CASE type = "ACK"
        BY <1>1, <1>2, <2>1, <3>1, <3>2, LeaseNumbers
      <3>3. CASE type # "ACK"
        BY <1>1, <1>2, <2>1, <3>1, <3>3 DEF Ages
      <3>4. QED
        BY <3>2, <3>3
    <2>6. QED
      BY <1>1, <1>2, <2>2, <2>3, <2>4, <2>5 DEF Ages
  <1>13. Offered'
    BY <1>1 DEF DhcpInv, Offered
  <1>14. Late'
    <2>1. CASE type = "OFFER"
      BY <1>1, <1>2, <1>5, <2>1 DEF DhcpInv, Late
    <2>2. CASE type = "ACK" /\ smDHCPState \in {"GET_REQUEST_ACK", "BOUND"} /\ DHCPServerID = s
      BY <1>1, <1>2, <1>3, <1>5, <2>2 DEF DhcpInv, Late
    <2>3. CASE type # "OFFER" /\ OnlyOf(s) /\ (type = "ACK" \/ holder = s)
      BY <1>2, <1>6, <2>3 DEF Late
    <2>4. QED
      BY <1>4, <2>1, <2>2, <2>3
  <1>15. Questions'
    BY <1>1, <1>2, <1>4, <1>6, <1>7 DEF Questions, OnlyOf, Renewing, SendRenews, GetRenewAcks
  <1>16. InLease'
    <2>1. bIsBound => holder = MyIPAddr /\ DHCPServerID = MyIPAddr /\ holder' = holder
      BY <1>2, <1>4 DEF DhcpInv, InLease
    <2>2. smDHCPState \in Renewing => NoOffer' /\ OnlyOf(MyIPAddr)'
      <3>1. SUFFICES ASSUME smDHCPState \in Renewing PROVE NoOffer' /\ OnlyOf(MyIPAddr)'
        OBVIOUS
      <3>2. bIsBound /\ q.type = "RENEW" /\ s = MyIPAddr /\ type # "OFFER"
        BY <1>2, <1>4, <3>1 DEF DhcpInv, InLease, Questions
      <3>3. NoOffer /\ OnlyOf(s)
        BY <3>1, <3>2 DEF DhcpInv, InLease
      <3>4. QED
        BY <1>1, <1>6, <1>7, <3>2, <3>3 DEF OnlyOf
    <2>3. QED
      BY <1>1, <2>1, <2>2 DEF DhcpInv, InLease
  <1>17. Lasts'
    <2>1. CASE left' = left
      BY <1>1, <2>1 DEF DhcpInv, Lasts, Unread
    <2>2. CASE left' = Lease
      <3>1. /\ Slack \in Int /\ Lease \in Int /\ Used \in Int /\ Lease >= Slack /\ Lease >= Slack + Used
            /\ elapsed = 0
        BY <1>2, LeaseNumbers
      <3>2. Lasts /\ (smDHCPState = "BOUND" => DHCPLeaseTime \in 1 .. Used)
        BY DEF DhcpInv, Lasts
      <3>4. QED
        BY <1>1, <2>2, <3>1, <3>2 DEF Lasts, Unread
    <2>3. QED
      BY <1>2, <2>1, <2>2
  <1>18. QED
    BY <1>11, <1>12, <1>13, <1>14, <1>15, <1>16, <1>17 DEF DhcpInv

\* The invariant holds in every state.
LEMMA DhcpStarts == DhcpInit => DhcpInv /\ OneAsked
  <1> SUFFICES ASSUME DhcpInit PROVE DhcpInv /\ OneAsked
    OBVIOUS
  <1>1. DhcpTypes
    <2>1. /\ smDHCPState \in DhcpStates /\ elapsed \in 0 .. 2 /\ DHCPLeaseTime \in Nat
          /\ left \in Int
      BY DEF DhcpInit, DhcpStates
    <2>3. QED
      BY <2>1 DEF DhcpInit, DhcpTypes
  <1>2. Ages /\ Offered /\ Late /\ Questions /\ OneAsked
    BY DEF DhcpInit, Ages, Offered, Late, Coming, Questions, OneAsked
  <1>3. InLease /\ Lasts
    BY DEF DhcpInit, InLease, Lasts, Renewing, SendRenews, GetRenewAcks
  <1>4. QED
    BY <1>1, <1>2, <1>3 DEF DhcpInv

LEMMA TaskKeeps ==
    ASSUME DhcpInv, NEW tx \in BOOLEAN, StackTask(tx)
    PROVE  DhcpInv'
  <1>1. Called(tx)
    BY DEF StackTask, Called
  <1>2. CASE SEND_DISCOVERY(tx)
    <2>1. /\ SendDiscovery(tx) /\ linked /\ MyIPAddr' = MyIPAddr
          /\ smDHCPState \in {"GET_SOCKET", "SEND_DISCOVERY"}
      BY <1>2 DEF SEND_DISCOVERY
    <2>2. QED
      BY <1>1, <2>1, SearchKeeps
  <1>3. CASE Unlinked(tx)
    <2>1. SendDiscovery(tx) /\ ~linked
      BY <1>3 DEF Unlinked
    <2>2. QED
      BY <1>1, <2>1, SearchKeeps
  <1>4. CASE GET_OFFER(tx)
    BY <1>1, <1>4, OfferKeeps
  <1>5. CASE SEND_REQUEST(tx)
    BY <1>1, <1>5, RequestKeeps
  <1>6. CASE GET_REQUEST_ACK
    BY <1>1, <1>6, RequestAckKeeps
  <1>7. CASE BOUND(tx)
    BY <1>1, <1>7, BoundStays, BoundLeaves
  <1>8. CASE SEND_RENEW(tx)
    BY <1>1, <1>8, RenewKeeps
  <1>9. CASE GET_RENEW_ACK
    BY <1>1, <1>9, RenewAckKeeps
  <1>10. CASE Timeout
    BY <1>1, <1>10, TimeoutKeeps
  <1>11. QED
    BY <1>2, <1>3, <1>4, <1>5, <1>6, <1>7, <1>8, <1>9, <1>10 DEF StackTask

LEMMA DhcpKeeps ==
    ASSUME DhcpInv, OneAsked, [DhcpNext]_dhcpVars
    PROVE  DhcpInv'
  <1>1. ASSUME NEW tx \in BOOLEAN, StackTask(tx) PROVE DhcpInv'
    BY <1>1, TaskKeeps
  <1>2. ASSUME NEW m, Receive(m) PROVE DhcpInv'
    BY <1>2, ReceiveKeeps
  <1>3. ASSUME AnswerAny PROVE DhcpInv'
    BY <1>3, AnswerKeeps DEF AnswerAny
  <1>4. ASSUME NEW m, Lose(m) PROVE DhcpInv'
    BY <1>4, LoseKeeps
  <1>5. QED
    BY <1>1, <1>2, <1>3, <1>4, LinkKeeps, CalmKeeps, SecondKeeps, StutterKeeps DEF DhcpNext

LEMMA DhcpAlways == DhcpSpec => [](DhcpInv /\ OneAsked)
  <1>1. DhcpInv /\ OneAsked /\ [DhcpNext]_dhcpVars => (DhcpInv /\ OneAsked)'
    BY DhcpKeeps, AskedOnce
  <1>2. QED
    BY <1>1, DhcpStarts, PTL DEF DhcpSpec

\* A client that is bound is in one of the states that Lasts bounds.
LEMMA LeaseLeft ==
    ASSUME DhcpInv, bIsBound
    PROVE  left >= Slack - 9
  <1>1. /\ left \in Int /\ elapsed \in 0 .. 2 /\ Slack \in Int /\ Unread \in {0, 1}
        /\ Lasts /\ DHCPLeaseTime \in Nat
    BY LeaseNumbers DEF DhcpInv, DhcpTypes, Unread
  <1>2. smDHCPState \in {"BOUND", "SEND_DISCOVERY"} \cup SendRenews \cup GetRenewAcks
    BY DEF DhcpInv, InLease, Renewing
  <1>3. CASE smDHCPState \in {"BOUND", "SEND_DISCOVERY"}
    BY <1>1, <1>3 DEF Lasts
  <1>4. CASE smDHCPState \in SendRenews
    BY <1>1, <1>4 DEF Lasts, SendRenews
  <1>5. CASE smDHCPState \in GetRenewAcks
    BY <1>1, <1>5 DEF Lasts, GetRenewAcks
  <1>6. QED
    BY <1>2, <1>3, <1>4, <1>5

\* A bound client uses the address that the server it remembers has granted, and
\* overruns the lease by no more than its three renewals (DHCPTask, _DHCPReceive):
\* whatever was lost, late, answered twice or refused.
THEOREM LeaseIsKept == DhcpSpec => []BoundOnLease
  <1>1. DhcpInv => BoundOnLease
    BY LeaseLeft, LeaseNumbers DEF DhcpInv, InLease, BoundOnLease
  <1>2. QED
    BY <1>1, DhcpAlways, PTL

\* A renewal is sent by BOUND and SEND_RENEW only.
LEMMA RenewalAsks ==
    ASSUME DhcpInv, [DhcpNext]_dhcpVars, NEW q \in asked' \ asked, q.type = "RENEW"
    PROVE  q.addr = MyIPAddr \/ overheard
  <1>1. PICK tx \in BOOLEAN : StackTask(tx)
    BY DEF DhcpNext, Receive, AnswerAny, Answer, Lose, Link, Calm, Second, dhcpVars
  <1>2. CASE BOUND(tx) \/ SEND_RENEW(tx)
    <2>1. smDHCPState \in Renewing \cup {"BOUND"}
      BY <1>2 DEF BOUND, SEND_RENEW, Renewing
    <2>2. tempIPAddress = MyIPAddr \/ overheard
      BY <2>1 DEF DhcpInv, InLease
    <2>3. q.addr = tempIPAddress
      BY <1>2 DEF BOUND, SEND_RENEW, Renew, Send, NoSend
    <2>4. QED
      BY <2>2, <2>3
  <1>3. CASE ~(BOUND(tx) \/ SEND_RENEW(tx))
    BY <1>1, <1>3 DEF StackTask, SEND_DISCOVERY, SendDiscovery, Unlinked, GET_OFFER, SEND_REQUEST,
       GET_REQUEST_ACK, GET_RENEW_ACK, Timeout, Request, Send, NoSend, Discover
  <1>4. QED
    BY <1>2, <1>3

\* A renewal asks for the address in use, unless a reply to another client was read
\* since the offer (_DHCPReceive stores the address before it looks whose it is).
THEOREM RenewalIsOwn == DhcpSpec => RenewsOwnAddress
  <1>1. DhcpInv /\ [DhcpNext]_dhcpVars =>
          [\A q \in asked' \ asked : q.type = "RENEW" => q.addr = MyIPAddr \/ overheard]_dhcpVars
    BY RenewalAsks
  <1>2. QED
    BY <1>1, DhcpAlways, PTL DEF DhcpSpec, RenewsOwnAddress
=============================================================================
