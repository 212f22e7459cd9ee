---------------------------- MODULE NameResolver ----------------------------
(***************************************************************************)
(* The DNS client (DNS.c) and the three tasks that take turns with it: the *)
(* SNTP client, the mail client and the TCP socket of the dynamic DNS      *)
(* client, which TCPTick resolves for it.  One flag, DNSInUse, keeps them  *)
(* apart; everything else of the module is shared.  A host name is named   *)
(* by the task that asks for it, and its address by the same name.         *)
(*                                                                         *)
(* Two replies of the network are choices of the step that looks for them: *)
(* whether ARP's one-entry cache holds the next hop, and whether a         *)
(* datagram of the DNS server with the last transaction identifier waits.  *)
(***************************************************************************)
EXTENDS Integers, FiniteSets

VARIABLES
    smDNS, DNSInUse, AddressValid,
    DNSHostName,      \* whose host name the module looks up
    ResolvedIP,       \* ResolvedInfo.IPAddr
    dnsSocket,        \* the module holds a UDP socket
    dnsLate,          \* TickGet() - StartTime > DNS_TIMEOUT
    SNTPState, Server, sntpLate,
    smState, remote,  \* the client socket and MyTCB.remote
    sktWait,          \* its eventTime lies ahead
    TransportState, SMTPServer, SMTPInUse, ReadyToStart, smtpLate

dns  == <<smDNS, DNSInUse, AddressValid, DNSHostName, ResolvedIP, dnsSocket, dnsLate>>
sntp == <<SNTPState, Server, sntpLate>>
skt  == <<smState, remote, sktWait>>
smtp == <<TransportState, SMTPServer, SMTPInUse, ReadyToStart, smtpLate>>
nameVars == <<dns, sntp, skt, smtp>>

Users == {"sntp", "ddns", "smtp"}

\* smDNS++ from the states that count it up.
Plus == [ARP_START_RESOLVE |-> "ARP_RESOLVE", ARP_RESOLVE |-> "ARP_START_RESOLVE2",
         ARP_START_RESOLVE2 |-> "ARP_RESOLVE2", ARP_RESOLVE2 |-> "ARP_START_RESOLVE3",
         ARP_START_RESOLVE3 |-> "ARP_RESOLVE3", ARP_RESOLVE3 |-> "ARP_FAIL",
         QUERY |-> "GET_RESULT", GET_RESULT |-> "QUERY2",
         QUERY2 |-> "GET_RESULT2", GET_RESULT2 |-> "QUERY3",
         QUERY3 |-> "GET_RESULT3", GET_RESULT3 |-> "QUERY_FAIL"]
ArpStarts == {"ARP_START_RESOLVE", "ARP_START_RESOLVE2", "ARP_START_RESOLVE3"}
ArpWaits  == {"ARP_RESOLVE", "ARP_RESOLVE2", "ARP_RESOLVE3"}
Queries   == {"QUERY", "QUERY2", "QUERY3"}
Results   == {"GET_RESULT", "GET_RESULT2", "GET_RESULT3"}

NameInit ==
    /\ smDNS = "DONE" /\ DNSInUse = FALSE /\ AddressValid = FALSE
    /\ DNSHostName = "none" /\ ResolvedIP = "none" /\ dnsSocket = FALSE /\ dnsLate = FALSE
    /\ SNTPState = "HOME" /\ Server = "none" /\ sntpLate = FALSE
    /\ smState = "CLOSED" /\ remote = "none" /\ sktWait = FALSE
    /\ TransportState = "HOME" /\ SMTPServer = "none" /\ SMTPInUse = FALSE
    /\ ReadyToStart = FALSE /\ smtpLate = FALSE

-----------------------------------------------------------------------------
(* The module *)

DNSBeginUsage == ~DNSInUse /\ DNSInUse' = TRUE

\* A name that is an address in text is resolved at once.
DNSResolve(u) ==
    /\ \/ ResolvedIP' = u /\ AddressValid' = TRUE /\ smDNS' = "DONE" /\ UNCHANGED DNSHostName
       \/ /\ DNSHostName' = u /\ smDNS' = "ARP_START_RESOLVE" /\ AddressValid' = FALSE
          /\ UNCHANGED ResolvedIP
    /\ UNCHANGED <<dnsSocket, dnsLate>>

DNSEndUsage ==
    /\ smDNS' = "DONE" /\ DNSInUse' = FALSE /\ dnsSocket' = FALSE
    /\ UNCHANGED <<DNSHostName, dnsLate>>

\* Another attempt, or the failure after the third.
TryAgain ==
    /\ dnsLate
    /\ smDNS' = Plus[smDNS]
    /\ UNCHANGED <<ResolvedIP, dnsSocket, dnsLate>>

\* DNS_OPEN_SOCKET and the query after it; UDPOpen finds a socket.
SendQuery(state) ==
    /\ dnsSocket' = TRUE
    /\ \/ smDNS' = Plus[state] /\ dnsLate' = FALSE
       \/ smDNS' = state /\ UNCHANGED dnsLate               \* the chip is not ready

\* DNSIsResolved returns FALSE.
Resolving ==
    /\ \/ /\ smDNS \in ArpStarts
          /\ smDNS' = Plus[smDNS] /\ dnsLate' = FALSE
          /\ UNCHANGED <<ResolvedIP, dnsSocket>>
       \/ smDNS \in ArpWaits \cup Results /\ TryAgain
       \/ smDNS \in ArpWaits /\ ResolvedIP' = "server" /\ SendQuery("QUERY")
       \/ smDNS \in Queries /\ SendQuery(smDNS) /\ UNCHANGED ResolvedIP
    /\ UNCHANGED <<DNSInUse, AddressValid, DNSHostName>>

\* DNSIsResolved returns TRUE with ip and DNSEndUsage, called at once, returns ok.
Resolved(ip, ok) ==
    /\ \/ /\ smDNS \in Results
          /\ \/ AddressValid' = TRUE /\ ResolvedIP' = DNSHostName
             \/ UNCHANGED <<AddressValid, ResolvedIP>>      \* a reply without an address
          /\ ip = ResolvedIP'
       \/ smDNS = "DONE" /\ ip = ResolvedIP /\ UNCHANGED <<AddressValid, ResolvedIP>>
       \/ /\ smDNS \in {"ARP_FAIL", "QUERY_FAIL"} /\ ip = "none"
          /\ UNCHANGED <<AddressValid, ResolvedIP>>
    /\ ok = AddressValid'
    /\ DNSEndUsage

\* The user stops waiting.
Abandon == DNSEndUsage /\ UNCHANGED <<AddressValid, ResolvedIP>>

Known == Users \cup {"none", "server"}

DnsTimePasses ==
    /\ ~dnsLate /\ smDNS \in ArpWaits \cup Results
    /\ dnsLate' = TRUE
    /\ UNCHANGED <<smDNS, DNSInUse, AddressValid, DNSHostName, ResolvedIP, dnsSocket, sntp, skt, smtp>>

-----------------------------------------------------------------------------
(* SNTPClient *)

SntpGoes(state) == SNTPState' = state /\ sntpLate' = FALSE /\ UNCHANGED <<skt, smtp>>

SNTP_HOME ==
    /\ SNTPState = "HOME"
    /\ DNSBeginUsage /\ DNSResolve("sntp")
    /\ SntpGoes("NAME_RESOLVE") /\ UNCHANGED Server

\* Gives up without giving the module back.
SNTP_NAME_RESOLVE_Kept ==
    /\ SNTPState = "NAME_RESOLVE"
    /\ \/ Resolving /\ ~sntpLate /\ UNCHANGED <<sntp, skt, smtp>>
       \/ sntpLate /\ UNCHANGED dns /\ SntpGoes("SHORT_WAIT") /\ UNCHANGED Server
       \/ \E ip \in Known, ok \in BOOLEAN :
            /\ Resolved(ip, ok)
            /\ Server' = ip
            /\ SntpGoes(IF ok THEN "ARP_RESOLVE" ELSE "SHORT_WAIT")

\* With an address the client goes on to ask ARP for it in the same call.
SNTP_NAME_RESOLVE ==
    /\ SNTPState = "NAME_RESOLVE"
    /\ \/ Resolving /\ ~sntpLate /\ UNCHANGED <<sntp, skt, smtp>>
       \/ sntpLate /\ Abandon /\ SntpGoes("SHORT_WAIT") /\ UNCHANGED Server
       \/ \E ip \in Known, ok \in BOOLEAN :
            /\ Resolved(ip, ok)
            /\ Server' = ip
            /\ SntpGoes(IF ok THEN "ARP_RESOLVE" ELSE "SHORT_WAIT")

\* ARP for the server or the gateway, asked three times, and one request; each
\* ends with its answer or with its time.
SNTP_EXCHANGE ==
    /\ \/ SNTPState = "ARP_RESOLVE" /\ \E state \in {"UDP_RECV", "SHORT_WAIT"} : SntpGoes(state)
       \/ SNTPState = "UDP_RECV" /\ \E state \in {"WAIT", "SHORT_WAIT"} : SntpGoes(state)
       \/ SNTPState \in {"SHORT_WAIT", "WAIT"} /\ SntpGoes("HOME")
    /\ UNCHANGED <<dns, Server>>

SNTPClient == SNTP_HOME \/ SNTP_NAME_RESOLVE \/ SNTP_EXCHANGE

SntpTimePasses ==
    /\ SNTPState = "NAME_RESOLVE" /\ ~sntpLate
    /\ sntpLate' = TRUE
    /\ UNCHANGED <<dns, SNTPState, Server, skt, smtp>>

-----------------------------------------------------------------------------
(* The TCP socket of the dynamic DNS client *)

TCPOpen ==
    /\ smState = "CLOSED"
    /\ smState' = "GET_DNS_MODULE" /\ sktWait' = FALSE
    /\ UNCHANGED <<dns, sntp, smtp, remote>>

TCPTick ==
    /\ ~sktWait
    /\ \/ /\ smState = "GET_DNS_MODULE"
          /\ DNSBeginUsage /\ DNSResolve("ddns")
          /\ smState' = "DNS_RESOLVE"
          /\ UNCHANGED <<remote, sktWait>>
       \/ /\ smState = "DNS_RESOLVE"
          /\ Resolving
          /\ UNCHANGED skt
       \/ /\ smState = "DNS_RESOLVE"
          /\ \E ip \in Known, ok \in BOOLEAN :
               /\ Resolved(ip, ok)
               /\ remote' = IF ok THEN ip ELSE remote
               /\ smState' = IF ok THEN "GATEWAY_SEND_ARP" ELSE "GET_DNS_MODULE"
               /\ sktWait' = ~ok
    /\ UNCHANGED <<sntp, smtp>>

SktTimePasses ==
    /\ sktWait /\ sktWait' = FALSE
    /\ UNCHANGED <<dns, sntp, smtp, smState, remote>>

\* Gives the module back whoever has it.
TCPDisconnectAnyway ==
    /\ smState # "CLOSED"
    /\ smState' = "CLOSED"
    /\ Abandon
    /\ UNCHANGED <<sntp, smtp, remote, sktWait>>

\* DDNSTask gives up or is done; a connection in being is another module's matter.
TCPDisconnect ==
    /\ smState # "CLOSED"
    /\ smState' = "CLOSED"
    /\ IF smState = "DNS_RESOLVE" THEN Abandon ELSE UNCHANGED dns
    /\ UNCHANGED <<sntp, smtp, remote, sktWait>>

-----------------------------------------------------------------------------
(* The mail client *)

SMTPBeginUsage ==
    /\ ~SMTPInUse
    /\ SMTPInUse' = TRUE /\ TransportState' = "BEGIN" /\ ReadyToStart' = FALSE
    /\ UNCHANGED <<dns, sntp, skt, SMTPServer, smtpLate>>

SMTPSendMail ==
    /\ SMTPInUse /\ TransportState = "BEGIN" /\ ~ReadyToStart
    /\ ReadyToStart' = TRUE
    /\ UNCHANGED <<dns, sntp, skt, TransportState, SMTPServer, SMTPInUse, smtpLate>>

SmtpGoes(state) ==
    /\ TransportState' = state /\ smtpLate' = FALSE
    /\ UNCHANGED <<sntp, skt, SMTPInUse, ReadyToStart>>

\* Without a server's name and a recipient's it gives the module back at once.
SMTP_BEGIN ==
    /\ TransportState = "BEGIN" /\ ReadyToStart
    /\ \/ DNSBeginUsage /\ DNSResolve("smtp") /\ SmtpGoes("NAME_RESOLVE")
       \/ ~DNSInUse /\ Abandon /\ SmtpGoes("HOME")
    /\ UNCHANGED SMTPServer

SMTP_NAME_RESOLVE ==
    /\ TransportState = "NAME_RESOLVE"
    /\ \/ Resolving /\ ~smtpLate /\ UNCHANGED <<sntp, skt, smtp>>
       \/ smtpLate /\ Abandon /\ SmtpGoes("HOME") /\ UNCHANGED SMTPServer
       \/ \E ip \in Known, ok \in BOOLEAN :
            /\ Resolved(ip, ok)
            /\ SMTPServer' = ip
            /\ \/ ok /\ \E state \in {"OBTAIN_SOCKET", "SOCKET_OBTAINED"} : SmtpGoes(state)
               \/ ~ok /\ SmtpGoes("HOME")

\* The rest of the transport: a socket, when there is one, the dialogue and its end.
SMTP_TRANSPORT ==
    /\ \/ TransportState = "OBTAIN_SOCKET" /\ SmtpGoes("SOCKET_OBTAINED")
       \/ TransportState = "SOCKET_OBTAINED" /\ SmtpGoes("CLOSE")
       \/ TransportState = "CLOSE" /\ SmtpGoes("HOME")
    /\ UNCHANGED <<dns, SMTPServer>>

SMTPTask == SMTP_BEGIN \/ SMTP_NAME_RESOLVE \/ SMTP_TRANSPORT

SMTPEndUsage ==
    /\ SMTPInUse
    /\ IF TransportState = "NAME_RESOLVE" THEN Abandon ELSE UNCHANGED dns
    /\ SMTPInUse' = FALSE /\ TransportState' = "HOME" /\ smtpLate' = FALSE
    /\ UNCHANGED <<sntp, skt, SMTPServer, ReadyToStart>>

SmtpTimePasses ==
    /\ TransportState = "NAME_RESOLVE" /\ ~smtpLate
    /\ smtpLate' = TRUE
    /\ UNCHANGED <<dns, sntp, skt, TransportState, SMTPServer, SMTPInUse, ReadyToStart>>

-----------------------------------------------------------------------------

NameNext ==
    \/ DnsTimePasses \/ SntpTimePasses \/ SktTimePasses \/ SmtpTimePasses
    \/ SNTPClient
    \/ TCPOpen \/ TCPTick \/ TCPDisconnect
    \/ SMTPBeginUsage \/ SMTPSendMail \/ SMTPTask \/ SMTPEndUsage

\* The main loop calls the tasks for ever and time passes.
NameFairness ==
    /\ WF_nameVars(DnsTimePasses) /\ WF_nameVars(SntpTimePasses) /\ WF_nameVars(SmtpTimePasses)
    /\ WF_nameVars(SNTP_NAME_RESOLVE) /\ WF_nameVars(TCPTick) /\ WF_nameVars(SMTP_NAME_RESOLVE)

NameSpec == NameInit /\ [][NameNext]_nameVars /\ NameFairness

(***************************************************************************)
(* Properties                                                              *)
(***************************************************************************)

Waiting(u) == CASE u = "sntp" -> SNTPState = "NAME_RESOLVE"
                [] u = "ddns" -> smState = "DNS_RESOLVE"
                [] u = "smtp" -> TransportState = "NAME_RESOLVE"

\* The module is in use exactly while one task waits for it, and a task goes on
\* only with the address of its own host (DNSBeginUsage, DNSEndUsage).
OwnAddress ==
    /\ DNSInUse <=> \E u \in Users : Waiting(u)
    /\ \A u, v \in Users : Waiting(u) /\ Waiting(v) => u = v
    /\ SNTPState \in {"ARP_RESOLVE", "UDP_RECV"} => Server = "sntp"
    /\ smState = "GATEWAY_SEND_ARP" => remote = "ddns"
    /\ TransportState \in {"OBTAIN_SOCKET", "SOCKET_OBTAINED"} => SMTPServer = "smtp"

\* Whoever takes the module gives it back, whatever the network does.
ModuleFreed == []<>~DNSInUse
=============================================================================
