-------------------------------- MODULE MCNet --------------------------------
(***************************************************************************)
(* For TLC, three parts of the board that share no variable: the bridge of *)
(* UART 2, the name resolver with its users and the dynamic DNS client.    *)
(* Each behaviour moves one of them, so that one run explores each in full.*)
(***************************************************************************)
EXTENDS SerialBridge, NameResolver, DynDns

VARIABLE part      \* which of the three moves

netPartVars == <<part, vars, nameVars, ddnsVars>>

Bridge == part = "bridge"
Names  == part = "names"
Ddns   == part = "ddns"

NetInit ==
    /\ part \in {"bridge", "names", "ddns"}
    /\ Init /\ NameInit /\ DdnsInit

BridgeAlone == UNCHANGED <<part, nameVars, ddnsVars>>
NamesAlone  == UNCHANGED <<part, vars, ddnsVars>>
DdnsAlone   == UNCHANGED <<part, vars, nameVars>>

BridgePart == Bridge /\ Next /\ BridgeAlone
NamesPart  == Names /\ NameNext /\ NamesAlone
DdnsPart   == Ddns /\ DdnsNext /\ DdnsAlone

NetNext == BridgePart \/ NamesPart \/ DdnsPart

\* The fairness of the parts, as their modules state it: only one part moves, so
\* one condition of each takes its turn with one of the others.
NetFairness ==
    /\ WF_netPartVars(\/ Bridge /\ MainLoop /\ BridgeAlone
                      \/ Names /\ DnsTimePasses /\ NamesAlone
                      \/ Ddns /\ DDNSTask /\ DdnsAlone)
    /\ WF_netPartVars(\/ Bridge /\ ISR_send /\ BridgeAlone
                      \/ Names /\ SntpTimePasses /\ NamesAlone
                      \/ Ddns /\ TimePasses /\ DdnsAlone)
    /\ WF_netPartVars(\/ Bridge /\ RxTimeout /\ BridgeAlone
                      \/ Names /\ SmtpTimePasses /\ NamesAlone)
    /\ WF_netPartVars(Names /\ SNTP_NAME_RESOLVE /\ NamesAlone)
    /\ WF_netPartVars(Names /\ TCPTick /\ NamesAlone)
    /\ WF_netPartVars(Names /\ SMTP_NAME_RESOLVE /\ NamesAlone)

NetSpec == NetInit /\ [][NetNext]_netPartVars /\ NetFairness

\* Every exchange of the dynamic DNS client ends (DDNSTask).
DdnsExchangesEnd == Ddns => ExchangesEnd
=============================================================================
