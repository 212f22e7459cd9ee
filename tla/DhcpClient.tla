----------------------------- MODULE DhcpClient -----------------------------
(***************************************************************************)
(* The DHCP client (DHCP.c), run by StackTask once per turn of the main    *)
(* loop.  Every message carries the same transaction identifier, so what   *)
(* separates the replies is the state of the client, the server identifier *)
(* and the hardware address in the reply.  Each server keeps one address   *)
(* for this board and the model names the address by its server.           *)
(*                                                                         *)
(* Time is counted in seconds.  The servers and the network are external:  *)
(* a message may be lost, answered twice or delayed, and a reply to        *)
(* another client is broadcast and heard here too.                         *)
(***************************************************************************)
EXTENDS Integers, FiniteSets

CONSTANTS
    Servers,        \* the DHCP servers, and the address each keeps for the board
    Foreign,        \* the address a server gives to another client
    DefaultIPAddr,  \* AppConfig.DefaultIPAddr, of a board without a lease
    Lease,          \* the lease time the servers grant
    Shave,          \* 32 in the code: the share of a lease that is not used
    MaxLate,        \* bound: a reply is at most this old when it arrives
    MaxFlight       \* bound: replies on their way at a time

DHCP_TIMEOUT == 2
DEFAULT_LEASE == 60

\* No other client is given a server's address for this board; a reply is late by
\* less than the client waits for it and than it uses a lease before renewing it.
ASSUME DhcpAssumption ==
    /\ Foreign \notin Servers
    /\ Lease \in Nat /\ Shave \in Nat \ {0}
    /\ MaxLate \in Nat /\ MaxLate < DHCP_TIMEOUT /\ MaxLate < Lease - Lease \div Shave

VARIABLES
    linked,          \* MACIsLinked()
    calm,            \* from now on the link stays, no message is lost or late and
                     \* nothing is heard of other clients
    smDHCPState,
    DHCPSocket,      \* whether the client holds a UDP socket
    bIsBound, bOfferReceived,
    DHCPServerID, DHCPLeaseTime, tempIPAddress,
    MyIPAddr,        \* AppConfig.MyIPAddr
    elapsed,         \* TickGet() - eventTime, up to DHCP_TIMEOUT
    turned,          \* this second had a turn with the chip ready and no packet waiting
    rx,              \* the UDP packet that waits for the client, a set of at most one
    asked,           \* the broadcast the servers can answer, a set of at most one
    flight,          \* the replies on their way
    left,            \* the seconds left of the latest lease, as its server counts
    holder,          \* the server that granted it
    overheard        \* history: a reply to another client was read since the offer

client == <<smDHCPState, DHCPSocket, bIsBound, bOfferReceived, DHCPServerID, DHCPLeaseTime,
            tempIPAddress, MyIPAddr>>
world == <<linked, calm, flight, left, holder>>
dhcpVars == <<client, world, elapsed, turned, rx, asked, overheard>>

GetRenewAcks == {"GET_RENEW_ACK", "GET_RENEW_ACK2", "GET_RENEW_ACK3"}
SendRenews   == {"SEND_RENEW", "SEND_RENEW2", "SEND_RENEW3"}

\* smDHCPState++ in the renewal, and what follows its last state.
After == [SEND_RENEW |-> "GET_RENEW_ACK", GET_RENEW_ACK |-> "SEND_RENEW2",
          SEND_RENEW2 |-> "GET_RENEW_ACK2", GET_RENEW_ACK2 |-> "SEND_RENEW3",
          SEND_RENEW3 |-> "GET_RENEW_ACK3", GET_RENEW_ACK3 |-> "SEND_DISCOVERY"]

Reply(type, s, age) == [type |-> type, server |-> s, mine |-> TRUE, age |-> age,
                        addr |-> IF type = "NAK" THEN DefaultIPAddr ELSE s]
Replies == {Reply(type, s, age) : type \in {"OFFER", "ACK", "NAK"}, s \in Servers, age \in 0 .. MaxLate}
\* Nothing after the hardware address of another client's reply is read.
Others == {[type |-> "OFFER", server |-> DefaultIPAddr, mine |-> FALSE, age |-> 0, addr |-> Foreign]}

Discover == [type |-> "DISCOVER", server |-> DefaultIPAddr, addr |-> DefaultIPAddr]

DhcpInit ==
    /\ linked = TRUE /\ calm = FALSE
    /\ smDHCPState = "GET_SOCKET" /\ DHCPSocket = FALSE
    /\ bIsBound = FALSE /\ bOfferReceived = FALSE
    /\ DHCPServerID = DefaultIPAddr /\ tempIPAddress = DefaultIPAddr /\ DHCPLeaseTime = 0
    /\ MyIPAddr = DefaultIPAddr
    /\ elapsed = 0 /\ turned = FALSE
    /\ rx = {} /\ asked = {} /\ flight = {} /\ left = 0 /\ holder = DefaultIPAddr
    /\ overheard = FALSE

(***************************************************************************)
(* _DHCPReceive.  The address, and for this board the lease time, are      *)
(* stored before the type and the server of the reply are looked at.       *)
(***************************************************************************)
DHCPType(m) ==
    IF ~m.mine \/ (m.type = "OFFER" /\ bOfferReceived)
       \/ (m.type # "OFFER" /\ m.server # DHCPServerID)
    THEN "UNKNOWN" ELSE m.type

DHCPReceive(m) ==
    /\ tempIPAddress' = IF bOfferReceived THEN tempIPAddress ELSE m.addr
    /\ DHCPLeaseTime' = IF bOfferReceived \/ ~m.mine \/ m.type = "NAK" THEN DHCPLeaseTime
                        ELSE Lease - Lease \div Shave
    /\ DHCPServerID' = IF DHCPType(m) = "OFFER" THEN m.server ELSE DHCPServerID
    /\ bOfferReceived' = (bOfferReceived \/ DHCPType(m) = "OFFER")
    /\ overheard' = IF DHCPType(m) = "OFFER" THEN FALSE
                    ELSE overheard \/ (~m.mine /\ ~bOfferReceived)

\* UDPFlush of a broadcast: without a link nobody hears it.
Send(m) == asked' = IF linked THEN {m} ELSE {}
NoSend == asked' = asked

(***************************************************************************)
(* The states of DHCPTask.  `tx` is UDPIsPutReady: the chip can take a     *)
(* packet.  UDPOpen does not fail: there are 15 sockets and fewer users.   *)
(***************************************************************************)
\* A new search that leaves the client bound.
SendDiscoveryStillBound(tx) ==
    /\ DHCPSocket' = TRUE
    /\ bIsBound' = (bIsBound /\ linked)
    /\ IF tx
       THEN /\ Send(Discover)
            /\ bOfferReceived' = FALSE
            /\ DHCPLeaseTime' = DEFAULT_LEASE
            /\ elapsed' = 0
            /\ smDHCPState' = "GET_OFFER"
       ELSE /\ NoSend
            /\ smDHCPState' = "SEND_DISCOVERY"
            /\ UNCHANGED <<bOfferReceived, DHCPLeaseTime, elapsed>>
    /\ UNCHANGED <<DHCPServerID, tempIPAddress, overheard>>

SendDiscovery(tx) ==
    /\ DHCPSocket' = TRUE
    /\ bIsBound' = (bIsBound /\ linked /\ ~tx)       \* DHCPReset clears it without a link
    /\ IF tx
       THEN /\ Send(Discover)
            /\ bOfferReceived' = FALSE
            /\ DHCPLeaseTime' = DEFAULT_LEASE
            /\ elapsed' = 0
            /\ smDHCPState' = "GET_OFFER"
       ELSE /\ NoSend
            /\ smDHCPState' = "SEND_DISCOVERY"
            /\ UNCHANGED <<bOfferReceived, DHCPLeaseTime, elapsed>>
    /\ UNCHANGED <<DHCPServerID, tempIPAddress, overheard>>

SEND_DISCOVERY(tx) ==
    /\ linked /\ smDHCPState \in {"GET_SOCKET", "SEND_DISCOVERY"}
    /\ SendDiscovery(tx)
    /\ UNCHANGED MyIPAddr

\* Without a link only the address goes back to the default.
UnlinkedNoReset(tx) ==
    /\ ~linked /\ rx = {} /\ NoSend
    /\ MyIPAddr' = DefaultIPAddr
    /\ UNCHANGED <<smDHCPState, DHCPSocket, bIsBound, bOfferReceived, DHCPServerID,
                   DHCPLeaseTime, tempIPAddress, elapsed, overheard>>

\* StackTask without a link: the default address and DHCPReset, then DHCPTask.
Unlinked(tx) ==
    /\ ~linked
    /\ SendDiscovery(tx)
    /\ MyIPAddr' = DefaultIPAddr

\* The request carries what the offer left, when the offer came in this call too.
Request(tx) ==
    IF tx
    THEN /\ Send([type |-> "REQUEST", server |-> DHCPServerID', addr |-> tempIPAddress'])
         /\ elapsed' = 0
         /\ smDHCPState' = "GET_REQUEST_ACK"
    ELSE /\ NoSend
         /\ smDHCPState' = "SEND_REQUEST"
         /\ UNCHANGED elapsed

SEND_REQUEST(tx) ==
    /\ linked /\ smDHCPState = "SEND_REQUEST"
    /\ UNCHANGED <<DHCPServerID, tempIPAddress, DHCPLeaseTime, bOfferReceived, overheard,
                   DHCPSocket, bIsBound, MyIPAddr>>
    /\ Request(tx)

GET_OFFER(tx) ==
    /\ linked /\ smDHCPState = "GET_OFFER"
    /\ \E m \in rx :
        /\ DHCPReceive(m)
        /\ IF DHCPType(m) = "OFFER" THEN Request(tx)
           ELSE NoSend /\ UNCHANGED <<smDHCPState, elapsed>>
    /\ UNCHANGED <<DHCPSocket, bIsBound, MyIPAddr>>

GET_REQUEST_ACK ==
    /\ linked /\ smDHCPState = "GET_REQUEST_ACK"
    /\ \E m \in rx :
        /\ DHCPReceive(m)
        /\ \/ /\ DHCPType(m) = "ACK"
              /\ DHCPSocket' = FALSE /\ elapsed' = 0 /\ smDHCPState' = "BOUND"
              /\ bIsBound' = TRUE
              /\ MyIPAddr' = tempIPAddress'
           \/ /\ DHCPType(m) = "NAK"
              /\ smDHCPState' = "SEND_DISCOVERY"
              /\ UNCHANGED <<DHCPSocket, elapsed, bIsBound, MyIPAddr>>
           \/ /\ DHCPType(m) \in {"OFFER", "UNKNOWN"}
              /\ UNCHANGED <<smDHCPState, DHCPSocket, elapsed, bIsBound, MyIPAddr>>
    /\ NoSend

\* Waits for the answer to its request for ever.
TimeoutNoRetry ==
    /\ linked /\ rx = {}
    /\ smDHCPState \in {"GET_OFFER", "GET_REQUEST_ACK"} \cup GetRenewAcks
    /\ smDHCPState' = IF elapsed < DHCP_TIMEOUT \/ smDHCPState = "GET_REQUEST_ACK"
                      THEN smDHCPState
                      ELSE IF smDHCPState \in GetRenewAcks THEN After[smDHCPState]
                      ELSE "SEND_DISCOVERY"
    /\ NoSend
    /\ UNCHANGED <<DHCPSocket, bIsBound, bOfferReceived, DHCPServerID, DHCPLeaseTime,
                   tempIPAddress, MyIPAddr, elapsed, overheard>>

\* Nothing came: after DHCP_TIMEOUT the search starts again.
Timeout ==
    /\ linked /\ rx = {}
    /\ smDHCPState \in {"GET_OFFER", "GET_REQUEST_ACK"} \cup GetRenewAcks
    /\ smDHCPState' = IF elapsed < DHCP_TIMEOUT THEN smDHCPState
                      ELSE IF smDHCPState \in GetRenewAcks THEN After[smDHCPState]
                      ELSE "SEND_DISCOVERY"
    /\ NoSend
    /\ UNCHANGED <<DHCPSocket, bIsBound, bOfferReceived, DHCPServerID, DHCPLeaseTime,
                   tempIPAddress, MyIPAddr, elapsed, overheard>>

Renew(tx, state) ==
    IF tx
    THEN /\ Send([type |-> "RENEW", server |-> DefaultIPAddr, addr |-> tempIPAddress])
         /\ bOfferReceived' = FALSE
         /\ elapsed' = 0
         /\ smDHCPState' = After[state]
    ELSE /\ NoSend
         /\ smDHCPState' = state
         /\ UNCHANGED <<bOfferReceived, elapsed>>

BOUND(tx) ==
    /\ linked /\ smDHCPState = "BOUND"
    /\ IF elapsed < 1 \/ DHCPLeaseTime >= 2
       THEN /\ elapsed' = IF elapsed < 1 THEN elapsed ELSE elapsed - 1
            /\ DHCPLeaseTime' = IF elapsed < 1 THEN DHCPLeaseTime ELSE DHCPLeaseTime - 1
            /\ NoSend
            /\ UNCHANGED <<smDHCPState, DHCPSocket, bOfferReceived>>
       ELSE /\ DHCPSocket' = TRUE
            /\ Renew(tx, "SEND_RENEW")
            /\ UNCHANGED DHCPLeaseTime
    /\ UNCHANGED <<bIsBound, DHCPServerID, tempIPAddress, MyIPAddr, overheard>>

SEND_RENEW(tx) ==
    /\ linked /\ smDHCPState \in SendRenews
    /\ Renew(tx, smDHCPState)
    /\ UNCHANGED <<DHCPSocket, bIsBound, DHCPServerID, DHCPLeaseTime, tempIPAddress, MyIPAddr,
                   overheard>>

GET_RENEW_ACK ==
    /\ linked /\ smDHCPState \in GetRenewAcks
    /\ \E m \in rx :
        /\ DHCPReceive(m)
        /\ \/ /\ DHCPType(m) = "ACK"
              /\ DHCPSocket' = FALSE /\ elapsed' = 0 /\ smDHCPState' = "BOUND"
           \/ /\ DHCPType(m) = "NAK"
              /\ smDHCPState' = "SEND_DISCOVERY"
              /\ UNCHANGED <<DHCPSocket, elapsed>>
           \/ /\ DHCPType(m) \in {"OFFER", "UNKNOWN"}
              /\ UNCHANGED <<smDHCPState, DHCPSocket, elapsed>>
    /\ NoSend
    /\ UNCHANGED <<bIsBound, MyIPAddr>>

\* One call of StackTask: a packet nobody read is discarded after DHCPTask.
StackTask(tx) ==
    /\ \/ SEND_DISCOVERY(tx) \/ Unlinked(tx)
       \/ GET_OFFER(tx) \/ SEND_REQUEST(tx) \/ GET_REQUEST_ACK
       \/ BOUND(tx) \/ SEND_RENEW(tx) \/ GET_RENEW_ACK
       \/ Timeout
    /\ rx' = {}
    /\ turned' = (turned \/ (tx /\ rx = {}))
    /\ UNCHANGED world

\* UDPProcess and FindMatchingSocket: a reply reaches the client if it has a socket.
Receive(m) ==
    /\ linked /\ DHCPSocket /\ rx = {}
    /\ m \in flight \cup (IF calm THEN {} ELSE Others)
    /\ rx' = {m}
    /\ flight' = flight \ {m}
    /\ UNCHANGED <<client, linked, calm, left, holder, elapsed, turned, asked, overheard>>

(***************************************************************************)
(* The servers: an offer for a discovery; an acknowledgement for a request *)
(* that names the server, and for a renewal of a lease that still runs; a  *)
(* refusal for the renewal of one that ended.                              *)
(***************************************************************************)
Reacts(s, q, type) ==
    CASE q.type = "DISCOVER" -> type = "OFFER"
      [] q.type = "REQUEST"  -> type = "ACK" /\ q.server = s /\ q.addr = s
      [] q.type = "RENEW"    -> /\ q.addr = s /\ holder = s
                                /\ type = IF left > 0 THEN "ACK" ELSE "NAK"

Answer(s, q, type) ==
    /\ q \in asked /\ Reacts(s, q, type)
    /\ Cardinality(flight) < MaxFlight
    /\ flight' = flight \cup {Reply(type, s, 0)}
    /\ IF type = "ACK" THEN left' = Lease /\ holder' = s ELSE UNCHANGED <<left, holder>>
    /\ asked' = IF calm THEN {} ELSE asked           \* else it may be answered again
    /\ UNCHANGED <<client, linked, calm, elapsed, turned, rx, overheard>>

AnswerAny == \E s \in Servers : \E q \in asked : \E type \in {"OFFER", "ACK", "NAK"} : Answer(s, q, type)

Lose(m) ==
    /\ m \in flight /\ ~calm
    /\ flight' = flight \ {m}
    /\ UNCHANGED <<client, linked, calm, left, holder, elapsed, turned, rx, asked, overheard>>

\* What was on its way when the link went is lost.
Link ==
    /\ ~calm
    /\ linked' = ~linked
    /\ asked' = {} /\ flight' = {}
    /\ UNCHANGED <<client, calm, left, holder, elapsed, turned, rx, overheard>>

Calm ==
    /\ linked
    /\ calm' = TRUE
    /\ UNCHANGED <<client, linked, flight, left, holder, elapsed, turned, rx, asked, overheard>>

\* The longest a lease can be overrun: three renewals and a late acknowledgement.
Overrun == 3 * (DHCP_TIMEOUT + 1) + MaxLate + 1 - Lease \div Shave

\* The main loop turns at least once a second, and not always with a packet waiting.
Second ==
    /\ turned
    /\ calm => rx = {} /\ flight = {} /\ ~\E s \in Servers : \E q \in asked :
                                              \E type \in {"OFFER", "ACK", "NAK"} : Reacts(s, q, type)
    /\ turned' = FALSE
    /\ elapsed' = IF elapsed < DHCP_TIMEOUT THEN elapsed + 1 ELSE elapsed
    /\ left' = IF left < -Overrun THEN left ELSE left - 1
    /\ flight' = {[m EXCEPT !.age = @ + 1] : m \in {n \in flight : n.age < MaxLate}}
    /\ asked' = {}
    /\ UNCHANGED <<client, linked, calm, rx, holder, overheard>>

DhcpNext ==
    \/ \E tx \in BOOLEAN : StackTask(tx)
    \/ \E m \in Replies \cup Others : Receive(m)
    \/ AnswerAny
    \/ \E m \in flight : Lose(m)
    \/ Link \/ Calm \/ Second

\* The main loop turns and time passes; once calm, messages are answered and arrive.
DhcpFairness ==
    /\ WF_dhcpVars(StackTask(TRUE))
    /\ WF_dhcpVars(Second)
    /\ WF_dhcpVars(AnswerAny)
    /\ WF_dhcpVars(\E m \in Replies : Receive(m))

DhcpSpec == DhcpInit /\ [][DhcpNext]_dhcpVars /\ DhcpFairness

(***************************************************************************)
(* Properties                                                              *)
(***************************************************************************)

\* A bound client uses the address that the server it remembers has granted, and
\* overruns the lease by no more than its three renewals (DHCPTask, _DHCPReceive).
BoundOnLease == bIsBound => /\ MyIPAddr = DHCPServerID
                            /\ holder = MyIPAddr
                            /\ left >= -Overrun

\* A renewal asks for the address in use, unless a reply to another client was
\* read since the offer (_DHCPReceive stores the address before it looks whose it is).
RenewsOwnAddress ==
    [][\A q \in asked' \ asked : q.type = "RENEW" => q.addr = MyIPAddr \/ overheard]_dhcpVars

\* Once the network is calm, the client is bound again and again (DHCPTask): no
\* state waits for a message that will not come.
Rebinds == calm ~> bIsBound
=============================================================================
