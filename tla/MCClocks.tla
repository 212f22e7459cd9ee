------------------------------ MODULE MCClocks ------------------------------
(***************************************************************************)
(* What counts time, for TLC, in three parts: a 100 ms timer of the PLC on *)
(* a tick counter that wraps, with the clock chip at a stand; a 1 s timer  *)
(* on a chip that a host and the program set; and the DHCP client and its  *)
(* lease.  Each behaviour moves one of them.  The .cfg gives the constants *)
(* of the first and of the third; those of the second are below, and both  *)
(* timers are in both.  The properties are those of the parts' modules: a  *)
(* timer that is never started and a client that rests keep them.          *)
(***************************************************************************)
EXTENDS PlcTimer, DhcpClient

CONSTANTS t100ms, t1s      \* the two timers

VARIABLE part   \* which of the three moves

S == INSTANCE PlcTimer WITH
        TickSpan <- 4, TICK_100MS <- 1, TICK_SECOND <- 2, RtcSpan <- 3, RtcStart <- 2,
        Presets <- {2}, RtcSets <- {0}, MaxLag <- 3, MaxUnseen <- 2,
        MaxSetAge <- 1, MaxAge <- 7

clocksVars == <<part, vars, dhcpVars>>

Tenths  == part = "100 ms"
Seconds == part = "1 s"
Leases  == part = "lease"

\* What rests while a part moves.
TenthsAlone  == UNCHANGED <<part, dhcpVars>> /\ enable_bits'[t1s] = 0
SecondsAlone == UNCHANGED <<part, dhcpVars>> /\ enable_bits'[t100ms] = 0
LeaseAlone   == UNCHANGED <<part, vars>>

ClocksInit ==
    /\ part \in {"100 ms", "1 s", "lease"}
    /\ IF Seconds THEN S!Init ELSE Init
    /\ DhcpInit

TenthsPart  == Tenths /\ Next /\ TenthsAlone
SecondsPart == Seconds /\ S!Next /\ SecondsAlone
LeasesPart  == Leases /\ DhcpNext /\ LeaseAlone

ClocksNext == TenthsPart \/ SecondsPart \/ LeasesPart

\* The fairness of the parts, as their modules state it: only one part moves, so
\* one condition of each takes its turn with one of the others.
ClocksFairness ==
    /\ WF_clocksVars(\/ Tenths /\ MainLoop /\ TenthsAlone
                     \/ Seconds /\ S!MainLoop /\ SecondsAlone
                     \/ Leases /\ StackTask(TRUE) /\ LeaseAlone)
    /\ WF_clocksVars(\/ Tenths /\ TickUpdate /\ TenthsAlone
                     \/ Seconds /\ S!TickUpdate /\ SecondsAlone
                     \/ Leases /\ Second /\ LeaseAlone)
    /\ WF_clocksVars(\/ Seconds /\ S!RtcSecond /\ SecondsAlone
                     \/ Leases /\ AnswerAny /\ LeaseAlone)
    /\ WF_clocksVars(Leases /\ (\E m \in Replies : Receive(m)) /\ LeaseAlone)

ClocksSpec == ClocksInit /\ [][ClocksNext]_clocksVars /\ ClocksFairness

\* The timer that the moving part starts.
Watched == IF Seconds THEN t1s ELSE t100ms

\* A timer that runs expires, or the program stops it; a 1 s timer once nobody
\* sets the clock chip any more (timing_cell_prcess).
Expire ==
    enable_bits[Watched] = 1 /\ (Seconds => ~S!Settable)
        ~> enable_bits[Watched] = 0 \/ event_bits[Watched] = 1
=============================================================================
