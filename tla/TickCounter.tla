----------------------------- MODULE TickCounter -----------------------------
(***************************************************************************)
(* The tick counter (Tick.c): a hardware timer, the low-priority interrupt *)
(* that counts its overflows, and TickGet, which the main loop calls and   *)
(* so does the high-priority receive interrupt of the serial bridge        *)
(* (pack_prase_in).  Both readers share the static array vTickReading.     *)
(*                                                                         *)
(* Each of TMR0L, TMR0H takes the values 0 .. Half - 1.  A read of TMR0L   *)
(* copies the high byte into the register TMR0H.                           *)
(***************************************************************************)
EXTENDS Integers, FiniteSets

CONSTANTS
    Half,         \* values of a timer byte, 256
    MaxNow        \* how long the hardware is watched

ASSUME TickAssumption == Half \in Nat \ {0} /\ MaxNow \in Nat

Span == Half * Half                      \* ticks of one turn of the timer

Readers == {"main", "high"}              \* the main loop, the receive interrupt

VARIABLES
    TMR0,             \* the running timer
    TMR0H,            \* the latched high byte
    TMR0IF, TMR0IE,   \* overflow flag; is the low-priority interrupt enabled
    dwInternalTicks,
    vTickReading,     \* [low, high, ticks]
    low_isr,          \* LowISR has counted the overflow and not cleared the flag
    reading,          \* reader -> its statement in TickGet
    now,              \* history: ticks since TickInit
    began,            \* history: now, when the main loop's TickGet began
    result,           \* history: the last value TickGet returned to it, or -1
    disturbed         \* history: the receive interrupt came during that call

tickVars == <<TMR0, TMR0H, TMR0IF, TMR0IE, dwInternalTicks, vTickReading, low_isr, reading,
          now, began, result, disturbed>>

hardware == <<TMR0, TMR0IF, dwInternalTicks, low_isr, now>>

Statements == {"idle", "enable", "disable", "low", "high", "ticks", "again", "return"}

\* A reader of higher priority holds up everything below.
Runs(r) == reading[r] # "idle" /\ (r = "main" => reading["high"] = "idle" /\ ~low_isr)

\* The timer moves on.  The assumption of the whole module is in its guard: the
\* interrupt is served before the timer overflows once more, 1.6 seconds later.
\* A second overflow while the first is pending would be lost.
Tick ==
    /\ now < MaxNow
    /\ TMR0 = Span - 1 => ~TMR0IF
    /\ TMR0' = (TMR0 + 1) % Span
    /\ TMR0IF' = (TMR0IF \/ TMR0 = Span - 1)
    /\ now' = now + 1
    /\ UNCHANGED <<TMR0H, TMR0IE, dwInternalTicks, vTickReading, low_isr, reading, began, result,
                   disturbed>>

\* A slip: the interrupt counts an overflow and leaves its flag up.
TickUpdateKeepsFlag ==
    /\ reading["high"] = "idle" /\ TMR0IF /\ TMR0IE
    /\ dwInternalTicks' = dwInternalTicks + 1
    /\ UNCHANGED <<TMR0IF, low_isr, TMR0, TMR0H, TMR0IE, vTickReading, reading, now, began, result,
                   disturbed>>

\* LowISR, in two steps because HighISR may come between.
TickUpdate ==
    /\ reading["high"] = "idle"
    /\ \/ /\ ~low_isr /\ TMR0IF /\ TMR0IE
          /\ dwInternalTicks' = dwInternalTicks + 1
          /\ low_isr' = TRUE
          /\ UNCHANGED TMR0IF
       \/ /\ low_isr
          /\ TMR0IF' = FALSE
          /\ low_isr' = FALSE
          /\ UNCHANGED dwInternalTicks
    /\ UNCHANGED <<TMR0, TMR0H, TMR0IE, vTickReading, reading, now, began, result, disturbed>>

-----------------------------------------------------------------------------
(* GetTickCopy, a statement at a time, and the return of TickGet *)

Proceed(r, statement) == reading' = [reading EXCEPT ![r] = statement]

Call(r) ==
    /\ reading[r] = "idle"
    /\ r = "main" => reading["high"] = "idle" /\ ~low_isr
    /\ Proceed(r, "enable")
    /\ began'     = IF r = "main" THEN now ELSE began
    /\ disturbed' = (r = "high")
    /\ result'    = IF r = "main" THEN -1 ELSE result
    /\ UNCHANGED <<hardware, TMR0H, TMR0IE, vTickReading>>

SetIE(r) ==
    /\ Runs(r)
    /\ \/ reading[r] = "enable"  /\ TMR0IE' = TRUE  /\ Proceed(r, "disable")
       \/ reading[r] = "disable" /\ TMR0IE' = FALSE /\ Proceed(r, "low")
    /\ UNCHANGED <<hardware, TMR0H, vTickReading, began, result, disturbed>>

ReadTMR0L(r) ==
    /\ Runs(r) /\ reading[r] = "low"
    /\ vTickReading' = [vTickReading EXCEPT !.low = TMR0 % Half]
    /\ TMR0H' = TMR0 \div Half
    /\ Proceed(r, "high")
    /\ UNCHANGED <<hardware, TMR0IE, began, result, disturbed>>

ReadTMR0H(r) ==
    /\ Runs(r) /\ reading[r] = "high"
    /\ vTickReading' = [vTickReading EXCEPT !.high = TMR0H]
    /\ Proceed(r, "ticks")
    /\ UNCHANGED <<hardware, TMR0H, TMR0IE, began, result, disturbed>>

ReadTicks(r) ==
    /\ Runs(r) /\ reading[r] = "ticks"
    /\ vTickReading' = [vTickReading EXCEPT !.ticks = dwInternalTicks]
    /\ Proceed(r, "again")
    /\ UNCHANGED <<hardware, TMR0H, TMR0IE, began, result, disturbed>>

\* A slip: the loop is left although the timer overflowed meanwhile.
NoRepeat(r) ==
    /\ Runs(r) /\ reading[r] = "again"
    /\ TMR0IE' = TRUE /\ Proceed(r, "return")
    /\ UNCHANGED <<hardware, TMR0H, vTickReading, began, result, disturbed>>
\* A slip: the interrupt stays disabled.
NoEnable(r) ==
    /\ Runs(r) /\ reading[r] = "again"
    /\ Proceed(r, IF TMR0IF THEN "low" ELSE "return")
    /\ UNCHANGED <<hardware, TMR0IE, TMR0H, vTickReading, began, result, disturbed>>

\* while(INTCONbits.TMR0IF), and the interrupt is enabled behind the loop.
Repeat(r) ==
    /\ Runs(r) /\ reading[r] = "again"
    /\ \/ TMR0IF  /\ Proceed(r, "enable") /\ UNCHANGED TMR0IE
       \/ ~TMR0IF /\ Proceed(r, "return") /\ TMR0IE' = TRUE
    /\ UNCHANGED <<hardware, TMR0H, vTickReading, began, result, disturbed>>

ReadValue == vTickReading.low + Half * vTickReading.high + Span * vTickReading.ticks

Return(r) ==
    /\ Runs(r) /\ reading[r] = "return"
    /\ Proceed(r, "idle")
    /\ result' = IF r = "main" THEN ReadValue ELSE result
    /\ UNCHANGED <<hardware, TMR0H, TMR0IE, vTickReading, began, disturbed>>

GetTickCopy(r) ==
    SetIE(r) \/ ReadTMR0L(r) \/ ReadTMR0H(r) \/ ReadTicks(r) \/ Repeat(r)

TickGet(r) == GetTickCopy(r) \/ Return(r)

\* TickInit.
TickInit ==
    /\ TMR0 = 0 /\ TMR0H = 0 /\ TMR0IF = FALSE /\ TMR0IE = TRUE
    /\ dwInternalTicks = 0
    /\ vTickReading = [low |-> 0, high |-> 0, ticks |-> 0]
    /\ low_isr = FALSE
    /\ reading = [r \in Readers |-> "idle"]
    /\ now = 0 /\ began = 0 /\ result = -1 /\ disturbed = FALSE

TickNext == Tick \/ TickUpdate \/ (\E r \in Readers : Call(r) \/ TickGet(r))

TickSpec == TickInit /\ [][TickNext]_tickVars

\* Time passes and the processor runs what is due.  Bytes come at the pace of
\* the serial line, so the receive interrupt leaves room for the main loop and,
\* while it is enabled, for the low-priority interrupt.  Nobody has to call.
TickFairness ==
    /\ WF_tickVars(Tick) /\ SF_tickVars(TickUpdate)
    /\ SF_tickVars(TickGet("main")) /\ WF_tickVars(TickGet("high"))

TickFairSpec == TickSpec /\ TickFairness

-----------------------------------------------------------------------------
\* No overflow is lost or counted twice, whoever has the interrupt disabled
\* and for how long.
TicksConserved ==
    now = TMR0 + Span * (dwInternalTicks + (IF TMR0IF /\ ~low_isr THEN 1 ELSE 0))

\* What TickGet returns to the main loop is a time within the call, unless the
\* receive interrupt came during the call: an overflow between the reads of
\* the three parts never shows.
ReadingExact == result # -1 /\ ~disturbed => began <= result /\ result <= now

\* The receive interrupt waits for a flag that only an interrupt of lower
\* priority clears.
Spins == reading["high"] # "idle" /\ TMR0IF

\* A call of TickGet returns, or the receive interrupt waits for the overflow
\* flag.
ReadEnds == \A r \in Readers : reading[r] # "idle" ~> reading[r] = "idle" \/ Spins

\* "An interrupt-safe ... read" (Tick.c): a call returns, whoever makes it.
ReadReturns == \A r \in Readers : reading[r] # "idle" ~> reading[r] = "idle"

\* "... and synchronized": it returns a time within the call.
ReadSynchronized == result # -1 => began <= result /\ result <= now
=============================================================================
