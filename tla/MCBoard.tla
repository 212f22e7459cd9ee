------------------------------- MODULE MCBoard -------------------------------
(***************************************************************************)
(* The small parts of the board for TLC: the stored configuration, the     *)
(* tick counter, the reset key, the run LED and the comparison loops.      *)
(* They share no variable, so each behaviour moves one of them, and one    *)
(* run explores each in full.  The properties are those of the parts'      *)
(* modules: a part that rests keeps them.                                  *)
(***************************************************************************)
EXTENDS ConfigStore, TickCounter, ResetKey, LedFlash, PlcCompareRef

VARIABLE part

Parts == {"config", "tick", "key", "led", "compare"}
boardVars == <<part, vars, compareVars, tickVars, keyVars, ledVars>>

Start == [i \in 1 .. Size |-> 0]

BoardInit ==
    /\ part \in Parts
    /\ Init /\ TickInit /\ KeyInit /\ LedInit
    /\ IF part = "compare" THEN CompareInit ELSE reg = Start /\ kl = Start /\ kr = Start

ConfigAlone == part = "config" /\ UNCHANGED <<part, compareVars, tickVars, keyVars, ledVars>>
TickAlone == part = "tick" /\ UNCHANGED <<part, vars, compareVars, keyVars, ledVars>>
KeyAlone  == part = "key" /\ UNCHANGED <<part, vars, compareVars, tickVars, ledVars>>
LedAlone  == part = "led" /\ UNCHANGED <<part, vars, compareVars, tickVars, keyVars>>

ConfigPart == part = "config" /\ Next /\ ConfigAlone
TickPart == part = "tick" /\ TickNext /\ TickAlone
KeyPart  == part = "key" /\ KeyNext /\ KeyAlone
LedPart  == part = "led" /\ LedNext /\ LedAlone
ComparePart ==
    part = "compare" /\ CompareNext /\ UNCHANGED <<part, vars, tickVars, keyVars, ledVars>>

BoardNext == ConfigPart \/ TickPart \/ KeyPart \/ LedPart \/ ComparePart

\* The fairness of the parts, as their modules state it.
BoardFairness ==
    /\ WF_boardVars(Driver /\ ConfigAlone)
    /\ WF_boardVars(ChipReady /\ ConfigAlone)
    /\ WF_boardVars(Tick /\ TickAlone)
    /\ SF_boardVars(TickUpdate /\ TickAlone)
    /\ SF_boardVars(TickGet("main") /\ TickAlone)
    /\ WF_boardVars(TickGet("high") /\ TickAlone)
    /\ WF_boardVars(ClockTicks /\ KeyAlone)
    /\ WF_boardVars(ResetTask /\ KeyAlone)
    /\ WF_boardVars(TimePasses /\ LedAlone)
    /\ WF_boardVars(TaskLedFlash /\ LedAlone)

BoardSpec == BoardInit /\ [][BoardNext]_boardVars /\ BoardFairness

\* However often power fails, once it stays on the board comes up: the boot of
\* the other parts' behaviours is not awaited (InitAppConfig).
ComesUpEach == part = "config" => ComesUp
=============================================================================
