---------------------------- MODULE SerialBridge ----------------------------
(***************************************************************************)
(* The bridge between UART 2 and a TCP connection: the interrupt           *)
(* UART2TCPBridgeISR2 and, in the main loop, UART2TCPBridgeTask2 and       *)
(* pack_rx_timetick, which share one receive and one send packet without a *)
(* lock.  The interrupt may come between any two statements of the main    *)
(* loop; the main loop never runs inside it.  Bytes are numbered in the    *)
(* order they come from the serial line, and in the order they come from   *)
(* the TCP client.  A packet is the sequence of the bytes below its index. *)
(***************************************************************************)
EXTENDS Naturals, Sequences

CONSTANTS
    PACK_MAX_RX_SIZE,     \* 120
    MaxLine,              \* bound: bytes that come from the serial line
    MaxClient             \* bound: bytes that come from the TCP client

ASSUME BridgeAssumption ==
    /\ PACK_MAX_RX_SIZE \in Nat \ {0}
    /\ MaxLine \in Nat
    /\ MaxClient \in Nat

VARIABLES
    rx_packet,      \* rx_packs[0].buffer up to its index
    rx_finished,
    pcurrent_rx,    \* TRUE when the pointer is not NULL
    prx,            \* pack_rx_timetick's copy of it
    rx_expired,     \* no byte came for rx_timeout_max
    line,           \* bytes that came from the serial line
    to_tcp,         \* bytes put into the socket
    tx_packet, tx_finished,
    pcurrent_tx, tx_index, TX2IE,
    from_tcp,       \* bytes taken out of the socket
    sent,           \* bytes sent on the serial line
    connected,
    pc,             \* the main loop's next statement
    wMaxPut

rxVars  == <<rx_packet, rx_finished, pcurrent_rx, rx_expired, line>>
txVars  == <<tx_packet, tx_finished, pcurrent_tx, tx_index, TX2IE>>
netVars == <<to_tcp, from_tcp, sent, connected>>
pcVars  == <<pc, prx, wMaxPut>>
vars == <<rxVars, txVars, netVars, pcVars>>

Least(a, b) == IF a < b THEN a ELSE b

\* The bytes after the first n of the client, len of them.
ClientBytes(n, len) == [i \in 1 .. len |-> n + i]

-----------------------------------------------------------------------------
(* The interrupt *)

\* Where pcurrent_rx points after the byte: to the only packet, unless it is
\* finished, which leaves the pointer NULL and drops the byte.
PacketOpen == ~rx_finished

HasRoom == Len(rx_packet) < PACK_MAX_RX_SIZE

pack_prase_in ==
    /\ line < MaxLine
    /\ line' = line + 1
    /\ pcurrent_rx' = PacketOpen
    /\ rx_expired' = (rx_expired /\ ~PacketOpen)
    /\ IF PacketOpen /\ HasRoom
       THEN /\ rx_packet' = Append(rx_packet, line + 1)
            /\ rx_finished' = (Len(rx_packet') >= PACK_MAX_RX_SIZE)
       ELSE UNCHANGED <<rx_packet, rx_finished>>
    /\ UNCHANGED <<txVars, netVars, pcVars>>

\* The transmitter asks for a byte.
ISR_send ==
    /\ TX2IE
    /\ pcurrent_tx \/ tx_finished
    /\ LET i == IF pcurrent_tx THEN tx_index ELSE 0
       IN  IF i < Len(tx_packet)
           THEN /\ sent' = Append(sent, tx_packet[i + 1])
                /\ tx_index' = i + 1
                /\ pcurrent_tx' = TRUE
                /\ UNCHANGED <<tx_finished, TX2IE>>
           ELSE /\ tx_finished' = FALSE
                /\ pcurrent_tx' = FALSE
                /\ TX2IE' = FALSE
                /\ tx_index' = i
                /\ UNCHANGED sent
    /\ UNCHANGED <<rxVars, tx_packet, to_tcp, from_tcp, connected, pcVars>>

RxTimeout ==
    /\ ~rx_expired
    /\ rx_expired' = TRUE
    /\ UNCHANGED <<rx_packet, rx_finished, pcurrent_rx, line, txVars, netVars, pcVars>>

-----------------------------------------------------------------------------
(* UART2TCPBridgeTask2, one action per access to what is shared *)

Goto(label) == pc' = label /\ UNCHANGED <<prx, wMaxPut>>

task ==
    /\ pc = "task"
    /\ Goto(CASE ~connected -> "tick" [] rx_finished -> "put" [] OTHER -> "get")
    /\ UNCHANGED <<rxVars, txVars, netVars>>

\* The socket takes as much of the packet as its FIFO has room for.
\* A slip: the packet is kept until the socket has room.
WaitsForRoom  == "get"
AfterFullFifo == "clear_index_again"
put ==
    /\ pc = "put"
    /\ \E room \in 0 .. PACK_MAX_RX_SIZE :
        /\ wMaxPut' = Least(Len(rx_packet), room)
        /\ to_tcp' = to_tcp \o SubSeq(rx_packet, 1, wMaxPut')
        /\ pc' = IF wMaxPut' > 0 THEN "clear_index" ELSE AfterFullFifo
    /\ UNCHANGED <<rxVars, txVars, from_tcp, sent, connected, prx>>

\* prx->index = 0, twice, and each time prx->finished = 0 after it.
NotEmptied  == rx_packet
Emptied     == <<>>

clear_index ==
    /\ \/ pc = "clear_index" /\ Goto("clear_finished")
       \/ pc = "clear_index_again" /\ Goto("clear_finished_again")
    /\ rx_packet' = Emptied
    /\ UNCHANGED <<rx_finished, pcurrent_rx, rx_expired, line, txVars, netVars>>

clear_finished ==
    /\ \/ pc = "clear_finished" /\ Goto("clear_index_again")
       \/ pc = "clear_finished_again" /\ Goto("get")
    /\ rx_finished' = FALSE
    /\ UNCHANGED <<rx_packet, pcurrent_rx, rx_expired, line, txVars, netVars>>

\* Bytes of the client are taken only when the send packet is free.
SendFreeAtOnce == ~pcurrent_tx
SendFree       == ~tx_finished
get ==
    /\ pc = "get"
    /\ \/ /\ SendFree
          /\ \E len \in 1 .. PACK_MAX_RX_SIZE :
              /\ from_tcp + len <= MaxClient
              /\ tx_packet' = ClientBytes(from_tcp, len)
              /\ from_tcp' = from_tcp + len
          /\ Goto("post")
       \/ Goto("tick") /\ UNCHANGED <<tx_packet, from_tcp>>
    /\ UNCHANGED <<rxVars, tx_finished, pcurrent_tx, tx_index, TX2IE, to_tcp, sent,
                   connected>>

post ==
    /\ pc = "post"
    /\ tx_finished' = TRUE
    /\ Goto("start")
    /\ UNCHANGED <<rxVars, tx_packet, pcurrent_tx, tx_index, TX2IE, netVars>>

start ==
    /\ pc = "start"
    /\ TX2IE' = TRUE
    /\ Goto("tick")
    /\ UNCHANGED <<rxVars, tx_packet, tx_finished, pcurrent_tx, tx_index, netVars>>

-----------------------------------------------------------------------------
(* pack_rx_timetick, which reads rx_ctl.pcurrent_rx twice *)

tick ==
    /\ pc = "tick"
    /\ Goto(IF pcurrent_rx THEN "tick_load" ELSE "task")
    /\ UNCHANGED <<rxVars, txVars, netVars>>

tick_load ==
    /\ pc = "tick_load"
    /\ prx' = pcurrent_rx
    /\ pc' = "tick_test"
    /\ UNCHANGED <<rxVars, txVars, netVars, wMaxPut>>

\* The interrupt may rewrite rx_time and the tick count while they are read,
\* so a fresh packet may look expired.  Through a NULL pointer the test reads
\* whatever lies at address 0.
tick_test ==
    /\ pc = "tick_test"
    /\ IF prx THEN IF rx_finished \/ rx_packet = <<>> THEN Goto("task")
                   ELSE Goto("tick_finish") \/ (~rx_expired /\ Goto("task"))
              ELSE Goto("task") \/ Goto("tick_finish")
    /\ UNCHANGED <<rxVars, txVars, netVars>>

tick_finish ==
    /\ pc = "tick_finish"
    /\ rx_finished' = (prx \/ rx_finished)
    /\ Goto("task")
    /\ UNCHANGED <<rx_packet, pcurrent_rx, rx_expired, line, txVars, netVars>>

-----------------------------------------------------------------------------

\* The client comes or goes; the bridge's packets stay as they are.
Connection ==
    /\ connected' = ~connected
    /\ UNCHANGED <<rxVars, txVars, to_tcp, from_tcp, sent, pcVars>>

Init ==
    /\ rx_packet = <<>>      /\ rx_finished = FALSE   /\ pcurrent_rx = FALSE
    /\ prx = FALSE           /\ rx_expired = TRUE     /\ line = 0
    /\ to_tcp = <<>>         /\ from_tcp = 0          /\ sent = <<>>
    /\ tx_packet = <<>>      /\ tx_finished = FALSE   /\ pcurrent_tx = FALSE
    /\ tx_index = 0          /\ TX2IE = FALSE         /\ connected = FALSE
    /\ pc = "task"           /\ wMaxPut = 0

MainLoop ==
    \/ task  \/ put   \/ clear_index  \/ clear_finished  \/ get  \/ post  \/ start
    \/ tick  \/ tick_load  \/ tick_test  \/ tick_finish

Next == MainLoop \/ pack_prase_in \/ ISR_send \/ RxTimeout \/ Connection

Spec == Init /\ [][Next]_vars

\* The main loop never blocks, the transmitter keeps asking for bytes, and a
\* silent line lets the time-out pass.
FairSpec == Spec /\ WF_vars(MainLoop) /\ WF_vars(ISR_send) /\ WF_vars(RxTimeout)

-----------------------------------------------------------------------------
(* Properties *)

\* Bytes of the serial line fit the packet's buffer and reach the client in
\* order and once, however the main loop empties the packet under the interrupt
\* (pack_prase_in, UART2TCPBridgeTask2): some may be lost, when the packet or the
\* socket is full, or the byte came between the two times it is emptied.
RxInOrder ==
    /\ Len(rx_packet) <= PACK_MAX_RX_SIZE
    /\ \A i, j \in DOMAIN to_tcp : i < j => to_tcp[i] < to_tcp[j]

\* Bytes of the client leave on the serial line all, in order and once: the
\* main loop never writes the packet the interrupt is sending.
TxExact == sent = ClientBytes(0, Len(sent)) /\ Len(sent) <= from_tcp

\* A finished packet is handed on or given up while a client is connected, even
\* if the socket never has room, and again and again all is sent that was taken
\* from the client (UART2TCPBridgeTask2): neither packet blocks its direction for good.
Served ==
    /\ rx_finished ~> ~rx_finished \/ ~connected
    /\ []<>(Len(sent) = from_tcp)

\* pack_rx_timetick tests the pointer against NULL before it uses it: what it
\* then uses is not NULL.
TickPointerValid == pc = "tick_test" => prx

=============================================================================
