------------------------------- MODULE DynDns -------------------------------
(***************************************************************************)
(* The dynamic DNS client (DDNSTask, DynDNS.c): it asks one server for the *)
(* board's public address and, when that has changed, tells another.  The  *)
(* state is a number because the code counts it up and falls through from  *)
(* one case into the next.                                                 *)
(*                                                                         *)
(* There is one client socket (TCP_PURPOSE_DEFAULT), and the mail client   *)
(* opens the same one.  A socket that the stack has closed can be opened   *)
(* again although its user still has the handle.  What a task does with an *)
(* invalid handle happens to the copy of whatever socket the stack used    *)
(* last: what it reads there is arbitrary here, and what it does to that   *)
(* socket's connection is left out.                                        *)
(***************************************************************************)
EXTENDS Naturals

CONSTANTS Addresses,       \* the public addresses the board may have
          None             \* an empty or unreadable answer

VARIABLES
    smDDNS,
    MySocket,              \* TRUE when it is not INVALID_SOCKET
    socket,                \* the state of the client socket; OPENING until it is
                           \* established, CLOSING from the FIN it sends to its end
    mail,                  \* the mail client has a handle of it
    configured,            \* DDNSClient names a host, a user and a password
    due,                   \* dwUpdateAt has come
    late,                  \* the time since Timer is over the state's limit
    found,                 \* ipParsed, or None when vBuffer is empty
    lastKnownIP, bForceUpdate,
    lastStatus,            \* "ok" is GOOD or NOCHG, "fatal" ABUSE .. NUMHOST,
                           \* "system" DNSERR or 911
    tried                  \* history: the address of the latest attempt to update

ddnsVars == <<smDDNS, MySocket, socket, mail, configured, due, late, found, lastKnownIP,
              bForceUpdate, lastStatus, tried>>

SM_IDLE == 0
SM_BEGIN_CHECKIP == 1
SM_CHECKIP_SKT_OBTAINED == 2
SM_CHECKIP_FIND_DELIMITER == 3
SM_CHECKIP_FIND_ADDRESS == 4
SM_CHECKIP_DISCONNECT == 5
SM_IP_UPDATE_HOME == 6
SM_IP_UPDATE_SKT_OBTAINED == 7
SM_IP_UPDATE_REQ_A == 8
SM_IP_UPDATE_REQ_F == 13
SM_IPUPDATE_FIND_RESPONSE == 14
SM_IPUPDATE_PARSE_RESPONSE == 15
SM_IPUDATE_DISCONNECT == 16
SM_DONE == 17
SM_SOFT_ERROR == 18
SM_SYSTEM_ERROR == 19
NoCase == 20               \* no case of the switch

DdnsInit ==
    /\ smDDNS = SM_IDLE /\ MySocket = FALSE /\ socket = "CLOSED" /\ mail = FALSE
    /\ configured = FALSE /\ due = FALSE /\ late = FALSE
    /\ found = None /\ lastKnownIP = None /\ tried = None
    /\ bForceUpdate = TRUE /\ lastStatus = "UNKNOWN"

-----------------------------------------------------------------------------
(* The socket, as TCPOpen, TCPIsConnected and TCPDisconnect see it *)

Connects(conn) == MySocket => conn = (socket = "ESTABLISHED")
Readable == MySocket => socket \in {"ESTABLISHED", "CLOSE_WAIT", "CLOSING"}

Disconnected ==
    IF socket \in {"ESTABLISHED", "CLOSE_WAIT"} THEN "CLOSING" ELSE "CLOSED"

Disconnect ==
    /\ socket' = IF MySocket THEN Disconnected ELSE socket
    /\ MySocket' = FALSE

\* Without a free socket the task tries again in its next call.
Open(sm) ==
    /\ MySocket' = (socket = "CLOSED")
    /\ IF socket = "CLOSED"
       THEN socket' = "OPENING" /\ smDDNS' = sm + 1 /\ late' = FALSE
       ELSE smDDNS' = sm /\ UNCHANGED <<socket, late>>

UnchangedSocket == UNCHANGED <<MySocket, socket>>
Rest == UNCHANGED <<mail, configured>>

-----------------------------------------------------------------------------
(* The public address *)

\* SM_IDLE falls through when the time has come.
SM_BEGIN ==
    /\ smDDNS = SM_BEGIN_CHECKIP \/ (smDDNS = SM_IDLE /\ due)
    /\ \/ /\ lastStatus \in {"fatal", "system"}
          /\ smDDNS' = SM_DONE
          /\ UnchangedSocket /\ UNCHANGED <<lastStatus, found, late>>
       \/ /\ lastStatus \notin {"fatal", "system"} /\ ~configured
          /\ smDDNS' = SM_SOFT_ERROR /\ lastStatus' = "INVALID"
          /\ UnchangedSocket /\ UNCHANGED <<found, late>>
       \/ /\ lastStatus \notin {"fatal", "system"} /\ configured
          /\ found' = None
          /\ Open(SM_BEGIN_CHECKIP)
          /\ UNCHANGED lastStatus
    /\ Rest /\ UNCHANGED <<due, lastKnownIP, bForceUpdate, tried>>

\* Once connected the request is sent; it fits into the empty buffer.
SM_CHECKIP_SKT ==
    /\ smDDNS = SM_CHECKIP_SKT_OBTAINED
    /\ IF socket = "ESTABLISHED"
       THEN smDDNS' = SM_CHECKIP_FIND_DELIMITER /\ late' = FALSE /\ UnchangedSocket /\ UNCHANGED lastStatus
       ELSE /\ late
            /\ Disconnect
            /\ lastStatus' = "CHECKIP_ERROR" /\ smDDNS' = SM_SOFT_ERROR /\ UNCHANGED late
    /\ Rest /\ UNCHANGED <<due, found, lastKnownIP, bForceUpdate, tried>>

\* The case SM_CHECKIP_DISCONNECT, with the state and the answer it begins with.
CheckIpDisconnect(sm, ip) ==
    /\ Disconnect
    /\ found' = ip
    /\ CASE ip = None ->
              /\ lastStatus' = "CHECKIP_ERROR" /\ smDDNS' = SM_SOFT_ERROR
              /\ UNCHANGED <<lastKnownIP, bForceUpdate>>
         [] ip # None /\ ip = lastKnownIP /\ ~bForceUpdate ->
              /\ lastStatus' = "UNCHANGED" /\ smDDNS' = SM_DONE
              /\ UNCHANGED <<lastKnownIP, bForceUpdate>>
         [] OTHER ->
              /\ lastKnownIP' = ip /\ bForceUpdate' = FALSE
              /\ smDDNS' = sm + 1
              /\ UNCHANGED lastStatus

Stay(sm) == smDDNS' = sm /\ UnchangedSocket /\ UNCHANGED <<found, lastKnownIP, bForceUpdate, lastStatus>>

\* The case SM_CHECKIP_FIND_ADDRESS; conn and over are what the call reads.
FindAddress(sm, conn, over) ==
    LET next == IF ~conn \/ over THEN SM_CHECKIP_DISCONNECT ELSE sm
    IN /\ late' = over
       /\ \/ Stay(next)
          \/ Readable /\ \E ip \in Addresses \cup {None} : CheckIpDisconnect(next, ip)

\* The case SM_CHECKIP_FIND_DELIMITER counts the state up from wherever it is.
FindDelimiter(conn) ==
    LET next == IF ~conn \/ late THEN SM_CHECKIP_DISCONNECT ELSE SM_CHECKIP_FIND_DELIMITER
    IN \/ Stay(next) /\ UNCHANGED late
       \/ Readable /\ FindAddress(next + 1, conn, FALSE)

SM_CHECKIP_FIND ==
    /\ \E conn \in BOOLEAN :
        /\ Connects(conn)
        /\ \/ smDDNS = SM_CHECKIP_FIND_DELIMITER /\ FindDelimiter(conn)
           \/ smDDNS = SM_CHECKIP_FIND_ADDRESS /\ FindAddress(SM_CHECKIP_FIND_ADDRESS, conn, late)
           \/ /\ smDDNS = SM_CHECKIP_DISCONNECT
              /\ CheckIpDisconnect(SM_CHECKIP_DISCONNECT, found) /\ UNCHANGED late
    /\ Rest /\ UNCHANGED <<due, tried>>

-----------------------------------------------------------------------------
(* The update *)

SM_UPDATE_HOME ==
    /\ smDDNS = SM_IP_UPDATE_HOME
    /\ Open(SM_IP_UPDATE_HOME)
    /\ tried' = IF MySocket' THEN lastKnownIP ELSE tried
    /\ Rest /\ UNCHANGED <<due, found, lastKnownIP, bForceUpdate, lastStatus>>

\* A connection that does not come is opened again at once.
SM_UPDATE_SKT ==
    /\ smDDNS = SM_IP_UPDATE_SKT_OBTAINED /\ late
    /\ ~(MySocket /\ socket = "ESTABLISHED")
    /\ Disconnect
    /\ lastStatus' = "UPDATE_ERROR" /\ smDDNS' = SM_IP_UPDATE_HOME
    /\ Rest /\ UNCHANGED <<due, late, found, lastKnownIP, bForceUpdate, tried>>

\* As many parts of the request as there is room for, A to E in one call.
Parts(sm) == IF sm = SM_IP_UPDATE_REQ_F THEN {SM_IPUPDATE_FIND_RESPONSE}
             ELSE sm + 1 .. SM_IP_UPDATE_REQ_F

\* The connected state of SM_IP_UPDATE_SKT_OBTAINED falls through to part A.
SM_UPDATE_REQ ==
    /\ smDDNS \in SM_IP_UPDATE_SKT_OBTAINED .. SM_IP_UPDATE_REQ_F
    /\ \E conn \in BOOLEAN :
        /\ Connects(conn)
        /\ IF smDDNS # SM_IP_UPDATE_SKT_OBTAINED /\ (~conn \/ late)
           THEN /\ lastStatus' = "UPDATE_ERROR" /\ smDDNS' = SM_IPUDATE_DISCONNECT
                /\ UNCHANGED late
           ELSE /\ conn
                /\ smDDNS' \in Parts(smDDNS)
                /\ late' = (late /\ smDDNS \notin {SM_IP_UPDATE_SKT_OBTAINED, SM_IP_UPDATE_REQ_F})
                /\ UNCHANGED lastStatus
    /\ UnchangedSocket /\ Rest /\ UNCHANGED <<due, found, lastKnownIP, bForceUpdate, tried>>

Codes == {"ok", "fatal", "system"}

\* lastStatus is counted up one entry past the end of the table of answers.
Answers == Codes \cup {"UPDATE_ERROR", "UNCHANGED"}

\* The case SM_IPUDATE_DISCONNECT: it counts up what it has chosen.
UpdateDisconnect ==
    /\ Disconnect
    /\ smDDNS' = 1 + CASE lastStatus' \in {"ok", "fatal", "UNCHANGED"} -> SM_DONE
                       [] lastStatus' = "system" -> SM_SYSTEM_ERROR
                       [] OTHER -> SM_SOFT_ERROR

ParseResponse(conn) ==
    IF conn /\ ~late
    THEN smDDNS' = SM_IPUPDATE_PARSE_RESPONSE /\ UnchangedSocket /\ UNCHANGED lastStatus
    ELSE lastStatus' \in Answers /\ UpdateDisconnect

\* Waits for an answer without looking at the time.
FindResponseForever(conn) == Readable /\ ParseResponse(conn)

FindResponse(conn) ==
    IF late
    THEN lastStatus' = "UPDATE_ERROR" /\ smDDNS' = SM_IPUDATE_DISCONNECT /\ UnchangedSocket
    ELSE Readable /\ ParseResponse(conn)

SM_UPDATE_RESPONSE ==
    /\ \E conn \in BOOLEAN :
        /\ Connects(conn)
        /\ \/ smDDNS = SM_IPUPDATE_FIND_RESPONSE /\ FindResponse(conn)
           \/ smDDNS = SM_IPUPDATE_PARSE_RESPONSE /\ ParseResponse(conn)
           \/ smDDNS = SM_IPUDATE_DISCONNECT /\ UNCHANGED lastStatus /\ UpdateDisconnect
    /\ Rest /\ UNCHANGED <<due, late, found, lastKnownIP, bForceUpdate, tried>>

\* The three waits differ in their length only.
SM_WAIT ==
    /\ smDDNS \in {SM_DONE, SM_SOFT_ERROR, SM_SYSTEM_ERROR}
    /\ due' = FALSE /\ smDDNS' = SM_IDLE
    /\ UnchangedSocket /\ Rest
    /\ UNCHANGED <<late, found, lastKnownIP, bForceUpdate, lastStatus, tried>>

DDNSTask ==
    \/ SM_BEGIN \/ SM_CHECKIP_SKT \/ SM_CHECKIP_FIND
    \/ SM_UPDATE_HOME \/ SM_UPDATE_SKT \/ SM_UPDATE_REQ \/ SM_UPDATE_RESPONSE
    \/ SM_WAIT

-----------------------------------------------------------------------------
(* What goes on around the task *)

\* The configuration page takes the names away, reads new ones and forces an update.
HTTPPostDDNSConfig ==
    /\ \/ /\ configured' \in BOOLEAN
          /\ UNCHANGED <<due, bForceUpdate, lastStatus>>
       \/ /\ due' = TRUE /\ bForceUpdate' = TRUE /\ lastStatus' = "UNKNOWN"
          /\ UNCHANGED configured
    /\ UnchangedSocket /\ UNCHANGED <<smDDNS, mail, late, found, lastKnownIP, tried>>

TimePasses ==
    /\ \/ ~due /\ smDDNS = SM_IDLE /\ due' = TRUE /\ UNCHANGED late
       \/ ~late /\ smDDNS \in SM_CHECKIP_SKT_OBTAINED .. SM_IPUPDATE_PARSE_RESPONSE
          /\ late' = TRUE /\ UNCHANGED due
    /\ UnchangedSocket /\ Rest
    /\ UNCHANGED <<smDDNS, found, lastKnownIP, bForceUpdate, lastStatus, tried>>

\* The mail client opens the socket by address and gives up its handle.
Mail ==
    /\ \/ ~mail /\ socket = "CLOSED" /\ mail' = TRUE /\ socket' = "OPENING"
       \/ mail /\ mail' = FALSE /\ socket' = Disconnected
    /\ UNCHANGED <<smDDNS, MySocket, configured, due, late, found, lastKnownIP, bForceUpdate,
                   lastStatus, tried>>

\* The peer answers, closes or resets; a dead connection is kept for its user;
\* a FIN is sent for a user that is slow, and the end is acknowledged or given up.
Network ==
    /\ \/ socket = "OPENING" /\ socket' = "ESTABLISHED"
       \/ socket = "ESTABLISHED" /\ socket' \in {"CLOSE_WAIT", "CLOSING", "RESERVED"}
       \/ socket = "CLOSE_WAIT" /\ socket' = "CLOSING"
       \/ socket \in {"ESTABLISHED", "CLOSE_WAIT", "CLOSING"} /\ socket' = "CLOSED"
    /\ UNCHANGED <<smDDNS, MySocket, mail, configured, due, late, found, lastKnownIP,
                   bForceUpdate, lastStatus, tried>>

DdnsNext == DDNSTask \/ HTTPPostDDNSConfig \/ TimePasses \/ Mail \/ Network

\* The main loop calls the task for ever and time passes.
DdnsFairness == WF_ddnsVars(DDNSTask) /\ WF_ddnsVars(TimePasses)

DdnsSpec == DdnsInit /\ [][DdnsNext]_ddnsVars /\ DdnsFairness

(***************************************************************************)
(* Properties                                                              *)
(***************************************************************************)

\* Whatever the servers, the mail client and the configuration page do, every
\* exchange ends (DDNSTask): the client is idle again, or about to open a
\* connection, or in the state past its last one, which it never leaves.
ExchangesEnd ==
    []<>(smDDNS \in {SM_IDLE, SM_BEGIN_CHECKIP, SM_IP_UPDATE_HOME, NoCase})

\* The client is content with an unchanged address only when it has tried to
\* tell the service this address ("If the IP address has changed, it issues an
\* update command", DDNSTask).
Propagates == smDDNS = SM_DONE /\ lastStatus = "UNCHANGED" => tried = lastKnownIP
=============================================================================
