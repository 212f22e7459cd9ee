----------------------------- MODULE BoardProofs -----------------------------
(***************************************************************************)
(* The small parts of the board: the tick counter counts every overflow    *)
(* once (TicksConserved) and is read in one piece (ReadingExact), for      *)
(* every width of the timer; the reset key works only when it is held      *)
(* (ResetMeansHeld), for every time to hold it and every lateness of the   *)
(* main loop; the run LED flashes as often as it was asked to              *)
(* (FlashCounted), for all counts the interrupt may ask for; the loops     *)
(* that compare registers compare numbers (ComparesNumbers), for operands  *)
(* of any length.                                                          *)
(***************************************************************************)
EXTENDS TickCounter, ResetKey, LedFlash, PlcCompareRef, WellFoundedInduction, TLAPS

-----------------------------------------------------------------------------
(* The tick counter counts every overflow *)

Owed == IF TMR0IF /\ ~low_isr THEN 1 ELSE 0

\* The interrupt is in LowISR only while the flag is up, and one overflow at
\* most is owed to the count.
TickInv ==
    /\ now \in Nat /\ TMR0 \in 0 .. Span - 1 /\ dwInternalTicks \in Nat
    /\ TMR0IF \in BOOLEAN /\ low_isr \in BOOLEAN
    /\ low_isr => TMR0IF
    /\ TicksConserved

LEMMA SpanNat == Span \in Nat \ {0}
  BY TickAssumption DEF Span

\* One overflow more is one turn of the timer more.
LEMMA OneTurn ==
    ASSUME NEW s \in Nat, NEW n \in Nat
    PROVE  s * (n + 1) = s * n + s
  OBVIOUS

\* The timer, one tick on, either counts up or overflows.
LEMMA TimerStep ==
    ASSUME NEW s \in Nat \ {0}, NEW i \in 0 .. s - 1
    PROVE  (i + 1) % s = IF i = s - 1 THEN 0 ELSE i + 1
  OBVIOUS

LEMMA TickStep ==
    ASSUME TickInv, Tick
    PROVE  TickInv'
  <1> DEFINE s == Span
  <1>1. s \in Nat \ {0}
    BY SpanNat
  <1>2. /\ TMR0' = (TMR0 + 1) % s /\ TMR0IF' = (TMR0IF \/ TMR0 = s - 1)
        /\ now' = now + 1 /\ UNCHANGED <<dwInternalTicks, low_isr>>
        /\ TMR0 = s - 1 => ~TMR0IF
    BY DEF Tick
  <1>3. now = TMR0 + s * (dwInternalTicks + Owed)
    BY DEF TickInv, TicksConserved, Owed
  <1>4. TMR0 \in 0 .. s - 1 /\ dwInternalTicks \in Nat
    BY DEF TickInv
  <1> HIDE DEF s
  <1>5. TMR0' = IF TMR0 = s - 1 THEN 0 ELSE TMR0 + 1
    BY <1>1, <1>2, <1>4, TimerStep
  <1>6. now' = TMR0' + s * (dwInternalTicks + Owed')
    <2>1. CASE TMR0 = s - 1
      <3>1. Owed = 0 /\ Owed' = 1
        BY <1>2, <2>1 DEF Owed, TickInv
      <3>2. s * (dwInternalTicks + 1) = s * dwInternalTicks + s
        BY <1>1, <1>4, OneTurn
      <3>3. s * dwInternalTicks \in Nat
        BY <1>1, <1>4
      <3>4. now = TMR0 + s * dwInternalTicks
        BY <1>3, <1>4, <3>1
      <3>5. now' = 0 + s * (dwInternalTicks + 1)
        BY <1>1, <1>2, <2>1, <3>2, <3>3, <3>4
      <3>6. QED
        BY <1>5, <2>1, <3>1, <3>5
    <2>2. CASE TMR0 # s - 1
      <3>1. Owed' = Owed
        BY <1>2, <2>2 DEF Owed, TickInv
      <3>2. s * (dwInternalTicks + Owed) \in Nat
        BY <1>1, <1>4 DEF Owed
      <3>3. QED
        BY <1>2, <1>3, <1>4, <1>5, <2>2, <3>1, <3>2
    <2>3. QED
      BY <2>1, <2>2
  <1>7. /\ TMR0' \in 0 .. s - 1 /\ now' \in Nat /\ TMR0IF' \in BOOLEAN
        /\ low_isr' => TMR0IF'
    BY <1>1, <1>2, <1>4, <1>5 DEF TickInv
  <1>8. QED
    BY <1>2, <1>6, <1>7 DEF TickInv, TicksConserved, Owed, s

LEMMA TickUpdateStep ==
    ASSUME TickInv, TickUpdate
    PROVE  TickInv'
  <1>1. /\ UNCHANGED <<TMR0, now>>
        /\ \/ /\ ~low_isr /\ TMR0IF /\ dwInternalTicks' = dwInternalTicks + 1
              /\ low_isr' = TRUE /\ TMR0IF' = TMR0IF
           \/ low_isr /\ TMR0IF' = FALSE /\ low_isr' = FALSE /\ UNCHANGED dwInternalTicks
    BY DEF TickUpdate
  <1>2. dwInternalTicks + Owed = dwInternalTicks' + Owed'
    <2>1. CASE ~low_isr /\ TMR0IF
      <3>1. Owed = 1 /\ Owed' = 0 /\ dwInternalTicks' = dwInternalTicks + 1
        BY <1>1, <2>1 DEF Owed, TickInv
      <3>2. QED
        BY <3>1 DEF TickInv
    <2>2. CASE low_isr
      <3>1. Owed = 0 /\ Owed' = 0 /\ dwInternalTicks' = dwInternalTicks
        BY <1>1, <2>2 DEF Owed, TickInv
      <3>2. QED
        BY <3>1 DEF TickInv
    <2>3. QED
      BY <1>1, <2>1, <2>2
  <1>3. now' = TMR0' + Span * (dwInternalTicks' + Owed')
    BY <1>1, <1>2 DEF TickInv, TicksConserved, Owed
  <1>4. /\ TMR0IF' \in BOOLEAN /\ low_isr' \in BOOLEAN /\ dwInternalTicks' \in Nat
        /\ low_isr' => TMR0IF'
    <2>1. CASE /\ TMR0IF /\ dwInternalTicks' = dwInternalTicks + 1
               /\ low_isr' = TRUE /\ TMR0IF' = TMR0IF
      BY <2>1 DEF TickInv
    <2>2. CASE TMR0IF' = FALSE /\ low_isr' = FALSE /\ UNCHANGED dwInternalTicks
      BY <2>2 DEF TickInv
    <2>3. QED
      BY <1>1, <2>1, <2>2
  <1>5. now' \in Nat /\ TMR0' \in 0 .. Span - 1
    BY <1>1 DEF TickInv
  <1>6. QED
    BY <1>3, <1>4, <1>5 DEF TickInv, TicksConserved, Owed

\* A reader of the counter touches neither the timer nor the count.
LEMMA ReaderStep ==
    ASSUME NEW r \in Readers, Call(r) \/ TickGet(r)
    PROVE  UNCHANGED hardware
  BY DEF Call, TickGet, GetTickCopy, SetIE, ReadTMR0L, ReadTMR0H, ReadTicks, Repeat, Return

LEMMA CountStep ==
    ASSUME TickInv, [TickNext]_tickVars
    PROVE  TickInv'
  <1>1. CASE Tick
    BY <1>1, TickStep
  <1>2. CASE TickUpdate
    BY <1>2, TickUpdateStep
  <1>3. CASE UNCHANGED hardware
    BY <1>3 DEF hardware, TickInv, TicksConserved
  <1>4. (\E r \in Readers : Call(r) \/ TickGet(r)) \/ UNCHANGED tickVars => UNCHANGED hardware
    BY ReaderStep DEF tickVars, hardware
  <1>5. QED
    BY <1>1, <1>2, <1>3, <1>4 DEF TickNext

LEMMA TickInitial == TickInit => TickInv
  <1> SUFFICES ASSUME TickInit PROVE TickInv
    OBVIOUS
  <1>1. Span \in Nat \ {0}
    BY SpanNat
  <1>2. Span * 0 = 0
    BY <1>1
  <1>3. /\ TMR0 = 0 /\ now = 0 /\ dwInternalTicks = 0
        /\ TMR0IF = FALSE /\ low_isr = FALSE /\ Owed = 0
    BY DEF TickInit, Owed
  <1>4. TicksConserved
    BY <1>2, <1>3 DEF TicksConserved
  <1>5. now \in Nat /\ TMR0 \in 0 .. Span - 1 /\ dwInternalTicks \in Nat
    BY <1>1, <1>3
  <1>6. TMR0IF \in BOOLEAN /\ low_isr \in BOOLEAN /\ (low_isr => TMR0IF)
    BY <1>3
  <1>7. QED
    BY <1>4, <1>5, <1>6 DEF TickInv

\* Overflows are counted once each, for every width of the timer (LowISR,
\* GetTickCopy): the time since TickInit is the timer, the count, and at most
\* one overflow whose interrupt is still to come.
THEOREM TimeKept == TickSpec => []TicksConserved
  <1>1. TickInv => TicksConserved
    BY DEF TickInv
  <1>2. QED
    BY <1>1, TickInitial, CountStep, PTL DEF TickSpec

-----------------------------------------------------------------------------
(* It is read in one piece *)

Within(n) == began <= n /\ n <= now

\* The three parts that a reading has and is still to get, as a time.
Parts(low, high, ticks) == low + Half * high + Span * ticks

\* Where the main loop is in TickGet, when nobody came during the call: from the first
\* read on nothing is counted, and while the timer has not overflowed either
\* the parts are those of the moment of that first read.
MainReads ==
    LET at == reading["main"]
    IN /\ at \in {"low", "high", "ticks", "again"} => ~TMR0IE /\ ~low_isr
       /\ (at = "high" /\ ~TMR0IF) =>
              Within(Parts(vTickReading.low, TMR0H, dwInternalTicks))
       /\ (at = "ticks" /\ ~TMR0IF) =>
              Within(Parts(vTickReading.low, vTickReading.high, dwInternalTicks))
       /\ (at = "again" /\ ~TMR0IF) => Within(ReadValue)
       /\ at = "return" => Within(ReadValue)
       /\ (at = "idle" /\ result # -1) => Within(result)

ReadInv ==
    /\ reading \in [Readers -> Statements]
    /\ TMR0IE \in BOOLEAN /\ disturbed \in BOOLEAN
    /\ began \in Nat /\ began <= now /\ result \in Int
    /\ vTickReading \in [low : Nat, high : Nat, ticks : Nat] /\ TMR0H \in Nat
    /\ reading["main"] # "idle" => result = -1
    /\ ~disturbed => reading["high"] = "idle" /\ MainReads

\* The two bytes of the timer.
LEMMA Bytes ==
    ASSUME NEW h \in Nat \ {0}, NEW t \in Nat
    PROVE  (t % h) + h * (t \div h) = t /\ t % h \in Nat /\ t \div h \in Nat
  OBVIOUS

\* The parts have a value whatever they are.
LEMMA PartsInt ==
    ASSUME NEW l \in Nat, NEW h \in Nat, NEW t \in Nat
    PROVE  Parts(l, h, t) \in Int
  BY SpanNat, TickAssumption DEF Parts

\* The parts of a reading that is under way, where there are any.
LEMMA ReadingTypes ==
    ASSUME TickInv, ReadInv
    PROVE  /\ now \in Nat /\ dwInternalTicks \in Nat /\ TMR0 \in Nat /\ TMR0H \in Nat
           /\ vTickReading.low \in Nat /\ vTickReading.high \in Nat
           /\ vTickReading.ticks \in Nat
           /\ ReadValue = Parts(vTickReading.low, vTickReading.high, vTickReading.ticks)
  <1>1. TMR0 \in Nat
    BY SpanNat DEF TickInv
  <1>2. QED
    BY <1>1 DEF TickInv, ReadInv, ReadValue, Parts

\* The hardware and the low-priority interrupt.
LEMMA TimerReadStep ==
    ASSUME TickInv, TickInv', ReadInv, Tick \/ TickUpdate
    PROVE  ReadInv'
  <1>1. /\ UNCHANGED <<reading, TMR0IE, began, vTickReading, TMR0H, result, disturbed>>
        /\ now' >= now
    BY DEF Tick, TickUpdate, TickInv
  <1>2. now \in Nat /\ now' \in Nat /\ began \in Nat /\ began <= now
    BY DEF TickInv, ReadInv
  <1>3. \A n \in Int : Within(n) => began <= n /\ n <= now'
    BY <1>1, <1>2 DEF Within
  <1>4. ASSUME ~disturbed PROVE MainReads'
    <2>1. MainReads
      BY <1>4 DEF ReadInv
    <2>2. CASE reading["main"] \in {"low", "high", "ticks", "again"}
      <3>1. ~TMR0IE /\ ~low_isr /\ Tick
        BY <2>1, <2>2 DEF MainReads, TickUpdate
      <3>2. /\ low_isr' = low_isr /\ dwInternalTicks' = dwInternalTicks
            /\ TMR0IF => TMR0IF'
        BY <3>1 DEF Tick
      <3>3. /\ Parts(vTickReading.low, TMR0H, dwInternalTicks) \in Int
            /\ Parts(vTickReading.low, vTickReading.high, dwInternalTicks) \in Int
            /\ ReadValue \in Int
        BY ReadingTypes, PartsInt
      <3>4. UNCHANGED ReadValue
        BY <1>1 DEF ReadValue
      <3>5. QED
        BY <1>1, <1>3, <2>1, <2>2, <3>1, <3>2, <3>3, <3>4 DEF MainReads, Within, Parts
    <2>3. CASE reading["main"] \notin {"low", "high", "ticks", "again"}
      <3>1. ReadValue \in Int /\ result \in Int /\ UNCHANGED ReadValue
        BY <1>1, ReadingTypes, PartsInt DEF ReadInv, ReadValue
      <3>2. QED
        BY <1>1, <1>3, <2>1, <2>3, <3>1 DEF MainReads, Within
    <2>4. QED
      BY <2>2, <2>3
  <1>5. QED
    BY <1>1, <1>2, <1>4 DEF ReadInv

\* A reader that goes from one statement to another.
LEMMA Proceeds ==
    ASSUME ReadInv, NEW r \in Readers, NEW next \in Statements,
           Proceed(r, next)
    PROVE  /\ reading' \in [Readers -> Statements] /\ reading'[r] = next
           /\ \A q \in Readers \ {r} : reading'[q] = reading[q]
  BY DEF Proceed, ReadInv

\* Each read fills its part of vTickReading.
LEMMA ReadTypesKept ==
    ASSUME TickInv, ReadInv, NEW r \in Readers, ReadTMR0L(r) \/ ReadTMR0H(r) \/ ReadTicks(r)
    PROVE  vTickReading' \in [low : Nat, high : Nat, ticks : Nat] /\ TMR0H' \in Nat
  <1>1. TMR0 \in Nat /\ TMR0H \in Nat /\ dwInternalTicks \in Nat
        /\ vTickReading \in [low : Nat, high : Nat, ticks : Nat]
    BY ReadingTypes DEF ReadInv
  <1>2. TMR0 % Half \in Nat /\ TMR0 \div Half \in Nat
    BY <1>1, Bytes, TickAssumption
  <1>3. QED
    BY <1>1, <1>2 DEF ReadTMR0L, ReadTMR0H, ReadTicks

\* The call of the receive interrupt leaves its trace.
LEMMA HighReadStep ==
    ASSUME TickInv, ReadInv, Call("high") \/ TickGet("high")
    PROVE  ReadInv'
  <1>1. now \in Nat /\ UNCHANGED <<now, began, result>>
    BY DEF TickInv, Call, TickGet, GetTickCopy, SetIE, ReadTMR0L, ReadTMR0H, ReadTicks, Repeat,
           Return, hardware
  <1>2. disturbed'
    <2>1. ASSUME ~disturbed PROVE reading["high"] = "idle"
      BY <2>1 DEF ReadInv
    <2>2. CASE Call("high")
      BY <2>2 DEF Call
    <2>3. CASE TickGet("high")
      <3>1. disturbed
        BY <2>1, <2>3 DEF TickGet, GetTickCopy, SetIE, ReadTMR0L, ReadTMR0H, ReadTicks, Repeat,
                          Return, Runs
      <3>2. QED
        BY <2>3, <3>1 DEF TickGet, GetTickCopy, SetIE, ReadTMR0L, ReadTMR0H, ReadTicks, Repeat,
                          Return
    <2>4. QED
      BY <2>2, <2>3
  <1>3. \E next \in Statements : Proceed("high", next)
    BY DEF Call, TickGet, GetTickCopy, SetIE, ReadTMR0L, ReadTMR0H, ReadTicks, Repeat, Return,
           Statements
  <1>4. reading' \in [Readers -> Statements] /\ reading'["main"] = reading["main"]
    BY <1>3, Proceeds DEF Readers
  <1>5. TMR0IE' \in BOOLEAN
    BY DEF Call, TickGet, GetTickCopy, SetIE, ReadTMR0L, ReadTMR0H, ReadTicks, Repeat, Return,
           ReadInv
  <1>6. vTickReading' \in [low : Nat, high : Nat, ticks : Nat] /\ TMR0H' \in Nat
    BY ReadTypesKept DEF Call, TickGet, GetTickCopy, SetIE, Repeat, Return, ReadInv, Readers
  <1>7. disturbed' \in BOOLEAN
    BY DEF Call, TickGet, GetTickCopy, SetIE, ReadTMR0L, ReadTMR0H, ReadTicks, Repeat, Return,
           ReadInv
  <1>8. QED
    BY <1>1, <1>2, <1>4, <1>5, <1>6, <1>7 DEF ReadInv

\* The statements of the main loop's call, one after another.
LEMMA MainReadStep ==
    ASSUME TickInv, ReadInv, Call("main") \/ TickGet("main")
    PROVE  ReadInv'
  <1>1. now \in Nat /\ UNCHANGED <<now, dwInternalTicks, low_isr, TMR0IF>>
    BY DEF TickInv, Call, TickGet, GetTickCopy, SetIE, ReadTMR0L, ReadTMR0H, ReadTicks, Repeat,
           Return, hardware
  <1>2. "main" \in Readers /\ "high" \in Readers /\ "high" # "main"
    BY DEF Readers
  <1>3. ASSUME NEW next \in Statements, Proceed("main", next)
        PROVE  /\ reading' \in [Readers -> Statements] /\ reading'["main"] = next
               /\ reading'["high"] = reading["high"]
    BY <1>2, <1>3, Proceeds
  <1>4. CASE Call("main")
    <2>1. /\ Proceed("main", "enable") /\ began' = now /\ result' = -1 /\ ~disturbed'
          /\ reading["high"] = "idle" /\ UNCHANGED <<vTickReading, TMR0H, TMR0IE>>
      BY <1>4 DEF Call
    <2>2. /\ reading' \in [Readers -> Statements] /\ reading'["main"] = "enable"
          /\ reading'["high"] = "idle"
      BY <1>3, <2>1 DEF Statements
    <2>3. MainReads'
      BY <2>2 DEF MainReads
    <2>4. disturbed' \in BOOLEAN
      BY <1>4 DEF Call
    <2>5. QED
      BY <1>1, <2>1, <2>2, <2>3, <2>4 DEF ReadInv
  <1>5. CASE TickGet("main")
    <2>0. Runs("main") /\ UNCHANGED <<began, disturbed>> /\ result = -1 /\ ~low_isr
      BY <1>5 DEF TickGet, GetTickCopy, SetIE, ReadTMR0L, ReadTMR0H, ReadTicks, Repeat, Return,
                  Runs, ReadInv
    <2>1. reading["high"] = "idle"
      BY <2>0 DEF Runs
    <2> DEFINE Types == /\ reading' \in [Readers -> Statements] /\ TMR0IE' \in BOOLEAN
                        /\ result' \in Int
                        /\ vTickReading' \in [low : Nat, high : Nat, ticks : Nat]
                        /\ TMR0H' \in Nat /\ reading'["high"] = "idle"
                        /\ reading'["main"] # "idle" => result' = -1
    <2>2. ASSUME Types, ~disturbed => MainReads' PROVE ReadInv'
      BY <1>1, <2>0, <2>2 DEF ReadInv
    <2>3. CASE SetIE("main")
      <3>1. PICK next \in {"disable", "low"} :
                /\ Proceed("main", next) /\ TMR0IE' \in BOOLEAN
                /\ next = "low" => ~TMR0IE'
        BY <2>3 DEF SetIE
      <3>2. Types /\ reading'["main"] = next
        BY <1>3, <2>0, <2>1, <2>3, <3>1 DEF SetIE, ReadInv, Statements
      <3>3. MainReads'
        BY <1>1, <2>0, <3>1, <3>2 DEF MainReads
      <3>4. QED
        BY <2>2, <3>2, <3>3
    <2>4. CASE ReadTMR0L("main")
      <3>1. /\ Proceed("main", "high") /\ reading["main"] = "low"
            /\ vTickReading' = [vTickReading EXCEPT !.low = TMR0 % Half]
            /\ TMR0H' = TMR0 \div Half /\ UNCHANGED <<TMR0IE, result>>
        BY <2>4 DEF ReadTMR0L
      <3>2. Types /\ reading'["main"] = "high"
        BY <1>2, <1>3, <2>0, <2>1, <2>4, <3>1, ReadTypesKept DEF ReadInv, Statements
      <3>3. vTickReading'.low = TMR0 % Half
        BY <3>1 DEF ReadInv
      <3>4. ASSUME ~disturbed, ~TMR0IF
            PROVE  Parts(TMR0 % Half, TMR0 \div Half, dwInternalTicks) = now
        <4>1. (TMR0 % Half) + Half * (TMR0 \div Half) = TMR0
          BY Bytes, TickAssumption, ReadingTypes
        <4>2. now = TMR0 + Span * (dwInternalTicks + 0)
          BY <3>4 DEF TickInv, TicksConserved
        <4>3. dwInternalTicks + 0 = dwInternalTicks
          BY DEF TickInv
        <4>4. QED
          BY <4>1, <4>2, <4>3 DEF Parts
      <3>5. ASSUME ~disturbed PROVE MainReads'
        <4>1. ~TMR0IE' /\ ~low_isr'
          BY <1>1, <2>0, <3>1, <3>5 DEF ReadInv, MainReads
        <4>2. ~TMR0IF' => Within(Parts(vTickReading.low, TMR0H, dwInternalTicks))'
          BY <1>1, <2>0, <3>1, <3>3, <3>4, <3>5 DEF Within, Parts, ReadInv
        <4>3. QED
          BY <3>2, <4>1, <4>2 DEF MainReads
      <3>6. QED
        BY <2>2, <3>2, <3>5
    <2>5. CASE ReadTMR0H("main")
      <3>1. /\ Proceed("main", "ticks") /\ reading["main"] = "high"
            /\ vTickReading' = [vTickReading EXCEPT !.high = TMR0H]
            /\ UNCHANGED <<TMR0H, TMR0IE, result>>
        BY <2>5 DEF ReadTMR0H
      <3>2. Types /\ reading'["main"] = "ticks"
        BY <1>2, <1>3, <2>0, <2>1, <2>5, <3>1, ReadTypesKept DEF ReadInv, Statements
      <3>3. vTickReading'.low = vTickReading.low /\ vTickReading'.high = TMR0H
        BY <3>1 DEF ReadInv
      <3>4. ASSUME ~disturbed PROVE MainReads'
        <4>1. MainReads
          BY <3>4 DEF ReadInv
        <4>2. QED
          BY <1>1, <2>0, <3>1, <3>2, <3>3, <4>1 DEF MainReads, Within, Parts
      <3>5. QED
        BY <2>2, <3>2, <3>4
    <2>6. CASE ReadTicks("main")
      <3>1. /\ Proceed("main", "again") /\ reading["main"] = "ticks"
            /\ vTickReading' = [vTickReading EXCEPT !.ticks = dwInternalTicks]
            /\ UNCHANGED <<TMR0H, TMR0IE, result>>
        BY <2>6 DEF ReadTicks
      <3>2. Types /\ reading'["main"] = "again"
        BY <1>2, <1>3, <2>0, <2>1, <2>6, <3>1, ReadTypesKept DEF ReadInv, Statements
      <3>3. ReadValue' = Parts(vTickReading.low, vTickReading.high, dwInternalTicks)
        BY <3>1 DEF ReadInv, ReadValue, Parts
      <3>4. ASSUME ~disturbed PROVE MainReads'
        <4>1. MainReads
          BY <3>4 DEF ReadInv
        <4>2. QED
          BY <1>1, <2>0, <3>1, <3>2, <3>3, <4>1 DEF MainReads, Within
      <3>5. QED
        BY <2>2, <3>2, <3>4
    <2>7. CASE Repeat("main")
      <3>1. /\ reading["main"] = "again" /\ UNCHANGED <<TMR0H, vTickReading, result>>
            /\ TMR0IE' \in BOOLEAN
            /\ \/ Proceed("main", "enable")
               \/ ~TMR0IF /\ Proceed("main", "return")
        BY <2>7 DEF Repeat, ReadInv
      <3>2. PICK next \in {"enable", "return"} :
                Proceed("main", next) /\ (next = "return" => ~TMR0IF)
        BY <3>1
      <3>3. Types /\ reading'["main"] = next
        BY <1>3, <2>0, <2>1, <3>1, <3>2 DEF ReadInv, Statements
      <3>4. UNCHANGED ReadValue
        BY <3>1 DEF ReadValue
      <3>5. ASSUME ~disturbed PROVE MainReads'
        <4>1. MainReads
          BY <3>5 DEF ReadInv
        <4>2. QED
          BY <1>1, <2>0, <3>1, <3>2, <3>3, <3>4, <4>1 DEF MainReads, Within
      <3>6. QED
        BY <2>2, <3>3, <3>5
    <2>8. CASE Return("main")
      <3>1. /\ Proceed("main", "idle") /\ reading["main"] = "return" /\ result' = ReadValue
            /\ UNCHANGED <<TMR0H, TMR0IE, vTickReading>>
        BY <2>8 DEF Return
      <3>2. ReadValue \in Int
        BY ReadingTypes, PartsInt
      <3>3. Types /\ reading'["main"] = "idle"
        BY <1>3, <2>1, <3>1, <3>2 DEF ReadInv, Statements
      <3>4. ASSUME ~disturbed PROVE MainReads'
        <4>1. MainReads
          BY <3>4 DEF ReadInv
        <4>2. QED
          BY <1>1, <2>0, <3>1, <3>3, <4>1 DEF MainReads, Within
      <3>5. QED
        BY <2>2, <3>3, <3>4
    <2>9. QED
      BY <1>5, <2>3, <2>4, <2>5, <2>6, <2>7, <2>8 DEF TickGet, GetTickCopy
  <1>6. QED
    BY <1>4, <1>5

LEMMA ReadNext ==
    ASSUME TickInv, TickInv', ReadInv, [TickNext]_tickVars
    PROVE  ReadInv'
  <1>1. CASE Tick \/ TickUpdate
    BY <1>1, TimerReadStep
  <1>2. CASE \E r \in Readers : Call(r) \/ TickGet(r)
    BY <1>2, MainReadStep, HighReadStep DEF Readers
  <1>3. CASE UNCHANGED tickVars
    BY <1>3 DEF tickVars, ReadInv, MainReads, Within, ReadValue, Parts
  <1>4. QED
    BY <1>1, <1>2, <1>3 DEF TickNext

LEMMA ReadInitial == TickInit => ReadInv
  <1> SUFFICES ASSUME TickInit PROVE ReadInv
    OBVIOUS
  <1>1. /\ reading \in [Readers -> Statements]
        /\ reading["main"] = "idle" /\ reading["high"] = "idle"
    BY DEF TickInit, Readers, Statements
  <1>2. /\ now = 0 /\ began = 0 /\ result = -1 /\ TMR0IE = TRUE /\ disturbed = FALSE
        /\ TMR0H = 0 /\ vTickReading = [low |-> 0, high |-> 0, ticks |-> 0]
    BY DEF TickInit
  <1>3. MainReads
    BY <1>1, <1>2 DEF MainReads
  <1>4. vTickReading \in [low : Nat, high : Nat, ticks : Nat]
    BY <1>2
  <1>5. began \in Nat /\ began <= now /\ result \in Int /\ TMR0H \in Nat
    BY <1>2
  <1>6. TMR0IE \in BOOLEAN /\ disturbed \in BOOLEAN
    BY <1>2
  <1>7. QED
    BY <1>1, <1>3, <1>4, <1>5, <1>6 DEF ReadInv

LEMMA ReadImplies == ReadInv => ReadingExact
  BY DEF ReadInv, MainReads, Within, ReadingExact

\* What TickGet returns to the main loop is a time within the call, however the
\* timer overflows between its reads, for every width of the timer (GetTickCopy,
\* TickGet).
THEOREM ReadsExact == TickSpec => []ReadingExact
  <1>1. TickInv /\ TickInv' /\ ReadInv /\ [TickNext]_tickVars => ReadInv'
    BY ReadNext
  <1>2. TickSpec => []TickInv
    BY TickInitial, CountStep, PTL DEF TickSpec
  <1>3. QED
    BY <1>1, <1>2, ReadInitial, ReadImplies, PTL DEF TickSpec

-----------------------------------------------------------------------------
(* The reset key works only when it is held *)

\* The time a state of the task waits for, the time it had waited at the task's
\* last call, and the histories behind it.
KeyInv ==
    /\ clock \in 0 .. TickSpan - 1 /\ StartTime \in 0 .. TickSpan - 1
    /\ turn \in 0 .. MaxTurn
    /\ up \in Nat /\ lows \in Nat \cup {-1}
    /\ KeySM \in {"HOME", "WAIT", "IDLE", "RESET_KEY_PUSH_DELAY"}
    /\ KeySM \in {"WAIT", "RESET_KEY_PUSH_DELAY"} => Elapsed - turn < HOLD
    /\ KeySM = "WAIT" => up >= Elapsed
    /\ KeySM = "IDLE" => up >= HOLD
    /\ KeySM = "RESET_KEY_PUSH_DELAY" => lows >= Elapsed /\ up >= HOLD + Elapsed

\* The unsigned difference of two readings of the counter.
LEMMA Difference ==
    ASSUME NEW s \in Nat, NEW a \in 0 .. s - 1, NEW b \in 0 .. s - 1
    PROVE  /\ (a - b + s) % s \in 0 .. s - 1
           /\ (a - a + s) % s = 0
  OBVIOUS

\* A tick later it is one more, if the counter has not come round.
LEMMA DifferenceStep ==
    ASSUME NEW s \in Nat, NEW a \in 0 .. s - 1, NEW b \in 0 .. s - 1, (a - b + s) % s < s - 1
    PROVE  (((a + 1) % s) - b + s) % s = ((a - b + s) % s) + 1
  <1>1. (a + 1) % s = IF a = s - 1 THEN 0 ELSE a + 1
    OBVIOUS
  <1>2. (a - b + s) % s = IF a < b THEN a - b + s ELSE a - b
    OBVIOUS
  <1>3. QED
    BY <1>1, <1>2

LEMMA KeyTickStep ==
    ASSUME KeyInv, ClockTicks
    PROVE  KeyInv'
  <1> DEFINE e == Elapsed
  <1>0. HOLD \in Nat \ {0} /\ MaxTurn \in Nat /\ TickSpan \in Nat /\ HOLD + MaxTurn <= TickSpan
    BY KeyAssumption
  <1>1. /\ clock \in 0 .. TickSpan - 1 /\ StartTime \in 0 .. TickSpan - 1
        /\ turn \in 0 .. MaxTurn /\ turn < MaxTurn /\ turn' = turn + 1
        /\ clock' = (clock + 1) % TickSpan /\ up' = Later(up)
        /\ lows' = IF lows = -1 THEN -1 ELSE Later(lows)
        /\ UNCHANGED <<KeySM, StartTime>>
        /\ up \in Nat /\ lows \in Nat \cup {-1}
    BY DEF KeyInv, ClockTicks
  <1>2. e \in 0 .. TickSpan - 1
    BY <1>0, <1>1, Difference DEF Elapsed
  <1>3. ASSUME e - turn < HOLD PROVE Elapsed' = e + 1 /\ e + 1 < HOLD + MaxTurn
    <2>1. e < TickSpan - 1 /\ e + 1 < HOLD + MaxTurn
      BY <1>0, <1>1, <1>2, <1>3
    <2>2. QED
      BY <1>0, <1>1, <2>1, DifferenceStep DEF Elapsed
  <1>4. clock' \in 0 .. TickSpan - 1 /\ turn' \in 0 .. MaxTurn
    BY <1>0, <1>1
  <1>5. /\ up' \in Nat /\ up' >= up /\ (up < 2 * HOLD + MaxTurn => up' = up + 1)
        /\ lows' \in Nat \cup {-1}
        /\ lows # -1 => lows' >= lows /\ (lows < 2 * HOLD + MaxTurn => lows' = lows + 1)
    BY <1>0, <1>1 DEF Later, AtLeast
  <1>6. /\ KeySM \in {"HOME", "WAIT", "IDLE", "RESET_KEY_PUSH_DELAY"}
        /\ KeySM \in {"WAIT", "RESET_KEY_PUSH_DELAY"} => e - turn < HOLD
        /\ KeySM = "WAIT" => up >= e
        /\ KeySM = "IDLE" => up >= HOLD
        /\ KeySM = "RESET_KEY_PUSH_DELAY" => lows >= e /\ up >= HOLD + e
    BY DEF KeyInv
  <1> HIDE DEF e
  <1>7. CASE KeySM \in {"HOME", "IDLE"}
    BY <1>0, <1>1, <1>4, <1>5, <1>6, <1>7 DEF KeyInv
  <1>8. CASE KeySM \in {"WAIT", "RESET_KEY_PUSH_DELAY"}
    <2>1. Elapsed' = e + 1 /\ e + 1 < HOLD + MaxTurn /\ Elapsed' - turn' < HOLD
      BY <1>1, <1>2, <1>3, <1>6, <1>8
    <2>2. KeySM = "WAIT" => up' >= e + 1
      BY <1>0, <1>1, <1>2, <1>5, <1>6, <2>1
    <2>3. KeySM = "RESET_KEY_PUSH_DELAY" => lows' >= e + 1 /\ up' >= HOLD + (e + 1)
      BY <1>0, <1>1, <1>2, <1>5, <1>6, <2>1
    <2>4. /\ Elapsed' - turn' < HOLD /\ Elapsed' = e + 1
          /\ KeySM' = "WAIT" => up' >= Elapsed'
          /\ KeySM' = "RESET_KEY_PUSH_DELAY" => lows' >= Elapsed' /\ up' >= HOLD + Elapsed'
      BY <1>1, <2>1, <2>2, <2>3
    <2>5. QED
      BY <1>1, <1>4, <1>5, <1>8, <2>4 DEF KeyInv
  <1>9. QED
    BY <1>6, <1>7, <1>8

\* A call of the task, and the key.
LEMMA KeyTaskStep ==
    ASSUME KeyInv, ResetTask \/ Key \/ UNCHANGED keyVars
    PROVE  KeyInv'
  <1>0. HOLD \in Nat \ {0} /\ MaxTurn \in Nat /\ TickSpan \in Nat /\ HOLD + MaxTurn <= TickSpan
    BY KeyAssumption
  <1>1. /\ clock \in 0 .. TickSpan - 1 /\ StartTime \in 0 .. TickSpan - 1
        /\ turn \in 0 .. MaxTurn /\ up \in Nat /\ lows \in Nat \cup {-1}
        /\ KeySM \in {"WAIT", "RESET_KEY_PUSH_DELAY"} => Elapsed - turn < HOLD
        /\ KeySM = "WAIT" => up >= Elapsed
        /\ KeySM = "IDLE" => up >= HOLD
        /\ KeySM = "RESET_KEY_PUSH_DELAY" => lows >= Elapsed /\ up >= HOLD + Elapsed
    BY DEF KeyInv
  <1>2. Elapsed \in Nat
    BY <1>0, <1>1, Difference DEF Elapsed
  <1>3. StartTime' = clock /\ clock' = clock => Elapsed' = 0
    BY <1>0, <1>1, Difference DEF Elapsed
  <1>4. UNCHANGED <<StartTime, clock>> => Elapsed' = Elapsed
    BY DEF Elapsed
  <1>5. Sampled => /\ turn' = 0 /\ lows' \in Nat \cup {-1}
                   /\ IP_CONFIG_IO # 1 /\ lows # -1 => lows' = lows
                   /\ IP_CONFIG_IO # 1 => lows' >= 0
    BY <1>1 DEF Sampled
  <1>6. CASE HOME
    <2>1. Elapsed' = 0 /\ KeySM' = "WAIT" /\ turn' = 0 /\ up' = up /\ clock' = clock
          /\ StartTime' = clock /\ lows' \in Nat \cup {-1}
      BY <1>3, <1>5, <1>6 DEF HOME
    <2>2. QED
      BY <1>0, <1>1, <2>1 DEF KeyInv
  <1>7. CASE WAIT
    <2>1. Elapsed' = Elapsed /\ turn' = 0 /\ up' = up /\ clock' = clock /\ KeySM = "WAIT"
          /\ StartTime' = StartTime /\ lows' \in Nat \cup {-1}
          /\ KeySM' = IF Elapsed < HOLD THEN "WAIT" ELSE "IDLE"
      BY <1>4, <1>5, <1>7 DEF WAIT
    <2>2. QED
      BY <1>0, <1>1, <1>2, <2>1 DEF KeyInv
  <1>8. CASE IDLE
    <2>1. /\ turn' = 0 /\ up' = up /\ clock' = clock /\ KeySM = "IDLE"
          /\ lows' \in Nat \cup {-1}
          /\ \/ /\ IP_CONFIG_IO = 0 /\ Elapsed' = 0 /\ StartTime' = clock /\ lows' >= 0
                /\ KeySM' = "RESET_KEY_PUSH_DELAY"
             \/ UNCHANGED <<StartTime, KeySM>>
      BY <1>3, <1>5, <1>8 DEF IDLE
    <2>2. QED
      BY <1>0, <1>1, <2>1 DEF KeyInv
  <1>9. CASE PushDelay
    <2>1. /\ Elapsed' = Elapsed /\ turn' = 0 /\ up' = up /\ clock' = clock
          /\ StartTime' = StartTime /\ lows' \in Nat \cup {-1}
          /\ KeySM = "RESET_KEY_PUSH_DELAY" /\ Elapsed < HOLD
          /\ KeySM' = IF IP_CONFIG_IO = 1 THEN "IDLE" ELSE KeySM
      BY <1>4, <1>5, <1>9 DEF PushDelay
    <2>2. IP_CONFIG_IO # 1 => lows' = lows
      BY <1>1, <1>2, <1>5, <1>9, <2>1 DEF PushDelay
    <2>3. CASE IP_CONFIG_IO = 1
      BY <1>0, <1>1, <1>2, <2>1, <2>3 DEF KeyInv
    <2>4. CASE IP_CONFIG_IO # 1
      BY <1>0, <1>1, <1>2, <2>1, <2>2, <2>4 DEF KeyInv
    <2>5. QED
      BY <2>3, <2>4
  <1>10. CASE PushReset
    BY <1>0, <1>10 DEF PushReset, KeyInv
  <1>11. CASE Key \/ UNCHANGED keyVars
    <2>1. UNCHANGED <<clock, StartTime, KeySM, turn, lows, up>>
      BY <1>11 DEF Key, keyVars
    <2>2. QED
      BY <2>1 DEF KeyInv, Elapsed
  <1>12. QED
    BY <1>6, <1>7, <1>8, <1>9, <1>10, <1>11 DEF ResetTask

LEMMA KeyInvStep == KeyInv /\ [KeyNext]_keyVars => KeyInv'
  BY KeyTickStep, KeyTaskStep DEF KeyNext

LEMMA KeyInitial == KeyInit => KeyInv
  BY KeyAssumption DEF KeyInit, KeyInv

\* What the task does when it restarts the board.
LEMMA ResetsLate ==
    ASSUME KeyInv, [KeyNext]_keyVars, resets' # resets
    PROVE  lows >= HOLD /\ up >= 2 * HOLD
  <1>1. KeySM = "RESET_KEY_PUSH_DELAY" /\ Elapsed >= HOLD
    BY DEF KeyNext, keyVars, ClockTicks, Key, ResetTask, HOME, WAIT, IDLE, PushDelay, PushReset
  <1>2. lows >= Elapsed /\ up >= HOLD + Elapsed /\ up \in Nat /\ lows \in Nat \cup {-1}
    BY <1>1 DEF KeyInv
  <1>3. Elapsed \in Nat /\ HOLD \in Nat
    BY KeyAssumption, Difference DEF KeyInv, Elapsed
  <1>4. QED
    BY <1>1, <1>2, <1>3

\* The configuration is lost only when every call of the task saw the key held
\* for HOLD ticks, and not in the first ticks after a restart, however late the
\* calls come and wherever the counter wraps (ResetTask).
THEOREM ResetOnlyWhenHeld == KeySpec => ResetMeansHeld
  <1>1. KeyInv /\ [KeyNext]_keyVars =>
            [resets' # resets => lows >= HOLD /\ up >= 2 * HOLD]_keyVars
    BY ResetsLate
  <1>2. QED
    BY <1>1, KeyInitial, KeyInvStep, PTL DEF KeySpec, ResetMeansHeld

-----------------------------------------------------------------------------
(* The run LED *)

TaskStatements == {"switch", "load", "store", "test", "finish", "restart"}

\* Between two calls of the task a flash that is still to be made keeps the task
\* flashing; inside the counting branch one flash more is made than is counted.
Counts ==
    /\ flashed \in Nat /\ led_flash_times \in Nat
    /\ statement \in {"load", "store"} =>
           /\ led_flash_times > 0
           /\ flashed + led_flash_times = asked + 1
    /\ statement \notin {"load", "store"} => flashed + led_flash_times = asked
    /\ statement = "store" => loaded = led_flash_times
    /\ statement = "finish" => led_flash_times = 0
    /\ statement \in {"load", "store", "test", "finish"} => led_work_mode = "flash"
    /\ statement \in {"switch", "restart"} =>
           (led_work_mode = "flash" <=> led_flash_times > 0)

LedInv ==
    /\ statement \in TaskStatements
    /\ led_work_mode \in {"onoff", "flash"}
    /\ asked \in Nat
    /\ (asked # 0 /\ ~raced) => Counts

\* The other states of the task leave what is counted alone.
LEMMA LedSame ==
    ASSUME LedInv, UNCHANGED <<settings, statement, loaded, requestHistory>>
    PROVE  LedInv'
  BY DEF LedInv, Counts, settings, requestHistory

LEMMA FlashStep ==
    ASSUME LedInv, [LedNext]_ledVars
    PROVE  LedInv'
  <1>1. CASE Request
    <2>1. PICK times \in FlashTimes : set_led_flash_int(times)
      BY <1>1 DEF Request
    <2>2. /\ led_work_mode' = "flash" /\ led_flash_times' = times /\ asked' = times
          /\ flashed' = 0 /\ raced' = (statement # "switch") /\ statement' = statement
          /\ times \in Nat /\ times > 0
      BY <2>1, LedAssumption DEF set_led_flash_int
    <2>3. ~raced' => statement = "switch"
      BY <2>2
    <2>4. QED
      BY <2>2, <2>3 DEF LedInv, Counts, TaskStatements
  <1>2. CASE TimePasses \/ LED_HOME \/ LED_WAIT_NORMAL \/ LED_ON_OFF \/ LED_FLASH_START
             \/ LED_FLASH_WAIT_ON \/ UNCHANGED ledVars
    <2>1. UNCHANGED <<settings, statement, loaded, requestHistory>>
      BY <1>2 DEF TimePasses, LED_HOME, LED_WAIT_NORMAL, LED_ON_OFF, LED_FLASH_START,
                  LED_FLASH_WAIT_ON, AtSwitch, ledVars
    <2>2. QED
      BY <2>1, LedSame
  <1>3. CASE LED_FLASH_WAIT_OFF
    <2>1. CASE UNCHANGED <<settings, statement, loaded, requestHistory>>
      BY <2>1, LedSame
    <2>2. CASE led_work_mode = "flash" /\ statement' # statement
      BY <1>3, <2>2 DEF LED_FLASH_WAIT_OFF, AtSwitch, LedInv, Counts, TaskStatements, settings
    <2>3. QED
      BY <1>3, <2>1, <2>2 DEF LED_FLASH_WAIT_OFF, AtSwitch
  <1>4. CASE Load
    BY <1>4 DEF Load, LedInv, Counts, TaskStatements, settings, requestHistory
  <1>5. CASE Store
    BY <1>5 DEF Store, LedInv, Counts, TaskStatements, requestHistory
  <1>6. CASE Test
    BY <1>6 DEF Test, LedInv, Counts, TaskStatements, settings, requestHistory
  <1>7. CASE Finish
    BY <1>7 DEF Finish, LedInv, Counts, TaskStatements, requestHistory
  <1>8. CASE Restart
    BY <1>8 DEF Restart, LedInv, Counts, TaskStatements, settings, requestHistory
  <1>9. QED
    BY <1>1, <1>2, <1>3, <1>4, <1>5, <1>6, <1>7, <1>8 DEF LedNext, TaskLedFlash

\* A request that does not come in the middle of the counting is carried out in
\* full, for every count (TaskLedFlash, set_led_flash_int).
THEOREM FlashesExact == LedSpec => []FlashCounted
  <1>1. LedInit => LedInv
    BY DEF LedInit, LedInv, TaskStatements
  <1>2. LedInv /\ [LedNext]_ledVars => LedInv'
    BY FlashStep
  <1>3. LedInv => FlashCounted
    BY DEF LedInv, Counts, FlashCounted, TaskStatements
  <1>4. QED
    BY <1>1, <1>2, <1>3, PTL DEF LedSpec

-----------------------------------------------------------------------------
(* The comparison loops compare numbers *)

\* Induction over a set of numbers.
LEMMA CountsUp ==
    ASSUME NEW S, 0 \in S, \A n \in Nat : n \in S => n + 1 \in S
    PROVE  Nat \subseteq S
  <1> DEFINE N == Nat \ S
             L == OpToRel(<, Nat)
  <1> SUFFICES ASSUME N # {} PROVE FALSE
    OBVIOUS
  <1>1. IsWellFoundedOn(L, Nat)
    BY NatLessThanWellFounded
  <1>2. \A x, y \in Nat : y < x => <<y, x>> \in L
    BY DEF OpToRel
  <1> HIDE DEF L
  <1>3. PICK x \in N : \A y \in N : ~(<<y, x>> \in L)
    <2>1. N \subseteq Nat
      OBVIOUS
    <2> HIDE DEF N
    <2>2. QED
      BY <1>1, <2>1, WFMin
  <1>4. x # 0 /\ x - 1 \in Nat /\ x - 1 < x
    BY <1>3
  <1>5. x - 1 \notin N
    BY <1>2, <1>3, <1>4
  <1>6. QED
    BY <1>3, <1>4, <1>5

\* f[n] is the number that the n most significant bytes make.
Tops(s, k, f) ==
    f = [n \in 0 .. k |-> IF n = 0 THEN 0 ELSE f[n - 1] * ByteSpan + s[Size + 1 - n]]

LEMMA TopsExist ==
    ASSUME NEW s, NEW k \in Nat
    PROVE  \E f : Tops(s, k, f)
  <1> DEFINE S == {m \in Nat : \E f : Tops(s, m, f)}
  <1>1. 0 \in S
    <2>1. Tops(s, 0, [n \in 0 .. 0 |-> 0])
      BY DEF Tops
    <2>2. QED
      BY <2>1
  <1>2. ASSUME NEW m \in Nat, m \in S PROVE m + 1 \in S
    <2>1. PICK f : Tops(s, m, f)
      BY <1>2
    <2>2. f = [n \in 0 .. m |-> IF n = 0 THEN 0 ELSE f[n - 1] * ByteSpan + s[Size + 1 - n]]
      BY <2>1 DEF Tops
    <2> DEFINE g == [n \in 0 .. m + 1 |-> IF n <= m THEN f[n]
                                          ELSE f[m] * ByteSpan + s[Size + 1 - n]]
    <2>3. ASSUME NEW n \in 0 .. m + 1
          PROVE  g[n] = IF n = 0 THEN 0 ELSE g[n - 1] * ByteSpan + s[Size + 1 - n]
      <3>1. CASE n = 0
        BY <3>1, <2>2
      <3>2. CASE n \in 1 .. m
        <4>1. n - 1 \in 0 .. m /\ n \in 0 .. m /\ n # 0
          BY <3>2
        <4>2. g[n] = f[n] /\ g[n - 1] = f[n - 1]
          BY <4>1
        <4> HIDE DEF g
        <4>3. QED
          BY <4>1, <4>2, <2>2
      <3>3. CASE n = m + 1
        <4>1. g[n] = f[m] * ByteSpan + s[Size + 1 - n] /\ g[n - 1] = f[m] /\ n # 0
          BY <3>3
        <4> HIDE DEF g
        <4>2. QED
          BY <4>1
      <3>4. QED
        BY <3>1, <3>2, <3>3
    <2>4. g = [n \in 0 .. m + 1 |-> g[n]]
      OBVIOUS
    <2> HIDE DEF g
    <2>5. Tops(s, m + 1, g)
      BY <2>3, <2>4 DEF Tops
    <2>6. QED
      BY <2>5
  <1>3. QED
    BY <1>1, <1>2, CountsUp

\* ByteValue is the last of them.
LEMMA ValueOfTops ==
    ASSUME NEW s \in Operands
    PROVE  \E f : Tops(s, Size, f) /\ ByteValue(s) = f[Size]
  <1> DEFINE g == CHOOSE f : Tops(s, Size, f)
  <1>1. Tops(s, Size, g)
    BY TopsExist, CompareAssumption
  <1>2. ByteValue(s) = g[Size]
    BY DEF ByteValue, Tops
  <1>3. QED
    BY <1>1, <1>2

LEMMA TopsStep ==
    ASSUME NEW s \in Operands, NEW f, Tops(s, Size, f)
    PROVE  /\ f[0] = 0
           /\ \A n \in 0 .. Size - 1 : f[n + 1] = f[n] * ByteSpan + s[Size - n]
  <1>1. Size \in Nat
    BY CompareAssumption
  <1>2. f[0] = 0
    BY <1>1 DEF Tops
  <1>3. ASSUME NEW n \in 0 .. Size - 1
        PROVE  f[n + 1] = f[n] * ByteSpan + s[Size - n]
    <2>1. n + 1 \in 0 .. Size /\ n + 1 # 0 /\ (n + 1) - 1 = n /\ Size + 1 - (n + 1) = Size - n
      BY <1>1
    <2>2. QED
      BY <2>1 DEF Tops
  <1>4. QED
    BY <1>2, <1>3

\* A digit below the base does not make up for a smaller number above it.
LEMMA DigitBelow ==
    ASSUME NEW k \in Nat \ {0}, NEW x \in Nat, NEW y \in Nat, x < y,
           NEW a \in 0 .. k - 1, NEW b \in 0 .. k - 1
    PROVE  x * k + a < y * k + b
  <1>1. PICK d \in Nat : y = x + 1 + d
    <2>1. y - x - 1 \in Nat /\ y = x + 1 + (y - x - 1)
      OBVIOUS
    <2>2. QED
      BY <2>1
  <1>2. y * k = x * k + k + d * k
    BY <1>1
  <1>3. d * k \in Nat /\ x * k \in Nat
    OBVIOUS
  <1>4. QED
    BY <1>2, <1>3

\* The n most significant bytes agree and so do the numbers; or they break at
\* one of these bytes and it decides.
Decided(a, b, f, g, n) ==
    /\ f[n] \in Nat /\ g[n] \in Nat
    /\ \/ /\ \A j \in Size + 1 - n .. Size : a[j] = b[j]
          /\ f[n] = g[n]
       \/ \E i \in Size + 1 - n .. Size :
             /\ BreaksAt(a, b, i)
             /\ \/ a[i] < b[i] /\ f[n] < g[n]
                \/ a[i] > b[i] /\ f[n] > g[n]

LEMMA NextByte ==
    ASSUME NEW a \in Operands, NEW b \in Operands, NEW f, NEW g,
           Tops(a, Size, f), Tops(b, Size, g), NEW n \in 0 .. Size - 1, Decided(a, b, f, g, n)
    PROVE  Decided(a, b, f, g, n + 1)
  <1> DEFINE p == Size - n
  <1>1. Size \in Nat /\ ByteSpan \in Nat \ {0}
    BY CompareAssumption
  <1>2. p \in 1 .. Size /\ Size + 1 - (n + 1) = p /\ Size + 1 - n = p + 1
    BY <1>1
  <1>3. f[n + 1] = f[n] * ByteSpan + a[p] /\ g[n + 1] = g[n] * ByteSpan + b[p]
    BY TopsStep
  <1> HIDE DEF p
  <1>4. a[p] \in 0 .. ByteSpan - 1 /\ b[p] \in 0 .. ByteSpan - 1
    BY <1>2 DEF Operands, Byte
  <1>5. f[n] \in Nat /\ g[n] \in Nat
    BY DEF Decided
  <1>6. f[n] * ByteSpan \in Nat /\ g[n] * ByteSpan \in Nat
    BY <1>1, <1>5
  <1>7. f[n + 1] \in Nat /\ g[n + 1] \in Nat
    BY <1>1, <1>3, <1>4, <1>6
  <1>8. CASE /\ \A j \in p + 1 .. Size : a[j] = b[j]
             /\ f[n] = g[n]
    <2>1. CASE a[p] = b[p]
      <3>1. \A j \in p .. Size : a[j] = b[j]
        BY <1>1, <1>2, <1>8, <2>1
      <3>2. f[n + 1] = g[n + 1]
        BY <1>3, <1>8, <2>1
      <3>3. QED
        BY <1>2, <1>7, <3>1, <3>2 DEF Decided
    <2>2. CASE a[p] # b[p]
      <3>1. BreaksAt(a, b, p)
        <4>1. DOMAIN b = 1 .. Size
          BY DEF Operands
        <4>2. QED
          BY <1>1, <1>2, <1>8, <2>2, <4>1 DEF BreaksAt
      <3>2. \/ a[p] < b[p] /\ f[n + 1] < g[n + 1]
            \/ a[p] > b[p] /\ f[n + 1] > g[n + 1]
        BY <1>1, <1>3, <1>4, <1>6, <1>8, <2>2
      <3>3. p \in p .. Size
        BY <1>1, <1>2
      <3>4. QED
        BY <1>2, <1>7, <3>1, <3>2, <3>3 DEF Decided
    <2>3. QED
      BY <2>1, <2>2
  <1>9. ASSUME NEW i \in p + 1 .. Size, BreaksAt(a, b, i),
               \/ a[i] < b[i] /\ f[n] < g[n]
               \/ a[i] > b[i] /\ f[n] > g[n]
        PROVE  Decided(a, b, f, g, n + 1)
    <2>1. i \in p .. Size
      BY <1>1, <1>2, <1>9
    <2>2. ASSUME f[n] < g[n] PROVE f[n + 1] < g[n + 1]
      BY <1>1, <1>3, <1>4, <1>5, <2>2, DigitBelow
    <2>3. ASSUME f[n] > g[n] PROVE f[n + 1] > g[n + 1]
      <3>1. g[n] < f[n]
        BY <1>5, <2>3
      <3>2. g[n + 1] < f[n + 1]
        BY <1>1, <1>3, <1>4, <1>5, <3>1, DigitBelow
      <3>3. QED
        BY <1>7, <3>2
    <2>4. QED
      BY <1>2, <1>7, <1>9, <2>1, <2>2, <2>3 DEF Decided
  <1>10. QED
    BY <1>2, <1>8, <1>9 DEF Decided

\* The loops compare two operands as numbers.
LEMMA LoopsCompare ==
    ASSUME NEW a \in Operands, NEW b \in Operands
    PROVE  /\ ByteValue(a) \in Nat /\ ByteValue(b) \in Nat
           /\ BacmpLess(a, b)  <=> ByteValue(a) < ByteValue(b)
           /\ BacmpEqual(a, b) <=> ByteValue(a) = ByteValue(b)
           /\ BacmpAbove(a, b) <=> ByteValue(a) > ByteValue(b)
  <1>1. PICK f : Tops(a, Size, f) /\ ByteValue(a) = f[Size]
    BY ValueOfTops
  <1>2. PICK g : Tops(b, Size, g) /\ ByteValue(b) = g[Size]
    BY ValueOfTops
  <1>3. Size \in Nat /\ DOMAIN b = 1 .. Size /\ Size + 1 - Size = 1
    BY CompareAssumption DEF Operands
  <1> DEFINE S == {n \in Nat : n <= Size => Decided(a, b, f, g, n)}
  <1>4. 0 \in S
    <2>1. f[0] = 0 /\ g[0] = 0
      BY <1>1, <1>2, TopsStep
    <2>2. \A j \in Size + 1 - 0 .. Size : a[j] = b[j]
      BY <1>3
    <2>3. Decided(a, b, f, g, 0)
      BY <2>1, <2>2 DEF Decided
    <2>4. QED
      BY <2>3
  <1>5. ASSUME NEW n \in Nat, n \in S PROVE n + 1 \in S
    <2>1. CASE n + 1 <= Size
      <3>1. n \in 0 .. Size - 1 /\ n <= Size
        BY <1>3, <2>1
      <3>2. Decided(a, b, f, g, n + 1)
        BY <1>1, <1>2, <1>5, <3>1, NextByte
      <3>3. QED
        BY <3>2
    <2>2. QED
      BY <2>1
  <1>6. Decided(a, b, f, g, Size)
    <2>1. Size \in S
      <3> HIDE DEF S
      <3>1. QED
        BY <1>3, <1>4, <1>5, CountsUp
    <2>2. QED
      BY <2>1, <1>3
  <1>7. ByteValue(a) \in Nat /\ ByteValue(b) \in Nat
    BY <1>1, <1>2, <1>6 DEF Decided
  <1>8. \A i \in 1 .. Size : a[i] \in Nat /\ b[i] \in Nat
    BY CompareAssumption DEF Operands, Byte
  <1>9. CASE (\A j \in 1 .. Size : a[j] = b[j]) /\ ByteValue(a) = ByteValue(b)
    <2>1. ~BacmpLess(a, b) /\ ~BacmpAbove(a, b) /\ BacmpEqual(a, b)
      BY <1>3, <1>9 DEF BacmpLess, BacmpAbove, BacmpEqual, BreaksAt
    <2>2. QED
      BY <1>7, <1>9, <2>1
  <1>10. ASSUME NEW i \in 1 .. Size, BreaksAt(a, b, i),
                \/ a[i] < b[i] /\ ByteValue(a) < ByteValue(b)
                \/ a[i] > b[i] /\ ByteValue(a) > ByteValue(b)
         PROVE  /\ BacmpLess(a, b)  <=> ByteValue(a) < ByteValue(b)
                /\ BacmpEqual(a, b) <=> ByteValue(a) = ByteValue(b)
                /\ BacmpAbove(a, b) <=> ByteValue(a) > ByteValue(b)
    <2>1. \A j \in 1 .. Size : BreaksAt(a, b, j) => j = i
      BY <1>3, <1>10 DEF BreaksAt
    <2>2. BacmpLess(a, b) <=> a[i] < b[i]
      BY <1>3, <1>10, <2>1 DEF BacmpLess
    <2>3. BacmpAbove(a, b) <=> a[i] > b[i]
      BY <1>3, <1>10, <2>1 DEF BacmpAbove
    <2>4. ~BacmpEqual(a, b)
      BY <1>3, <1>10 DEF BacmpEqual, BreaksAt
    <2>5. QED
      BY <1>7, <1>8, <1>10, <2>2, <2>3, <2>4
  <1>11. \/ (\A j \in 1 .. Size : a[j] = b[j]) /\ ByteValue(a) = ByteValue(b)
         \/ \E i \in 1 .. Size :
               /\ BreaksAt(a, b, i)
               /\ \/ a[i] < b[i] /\ ByteValue(a) < ByteValue(b)
                  \/ a[i] > b[i] /\ ByteValue(a) > ByteValue(b)
    BY <1>1, <1>2, <1>3, <1>6 DEF Decided
  <1>12. QED
    BY <1>7, <1>9, <1>10, <1>11

\* The operands stay sequences of bytes.
OperandsKept == reg \in Operands /\ kl \in Operands /\ kr \in Operands

\* The loops of handle_plc_bacmp and handle_plc_bazcp compare numbers
\* (ComparesNumbers), for operands of any number of bytes and bytes of any width.
THEOREM LoopsCompareNumbers == CompareSpec => []ComparesNumbers
  <1>1. CompareInit => OperandsKept
    BY DEF CompareInit, OperandsKept
  <1>2. OperandsKept /\ [CompareNext]_compareVars => OperandsKept'
    BY DEF OperandsKept, CompareNext, RegisterChanges, compareVars, Operands
  <1>3. OperandsKept => ComparesNumbers
    <2> SUFFICES ASSUME OperandsKept PROVE ComparesNumbers
      OBVIOUS
    <2>1. reg \in Operands /\ kl \in Operands /\ kr \in Operands
      BY DEF OperandsKept
    <2>2. /\ ByteValue(reg) \in Nat /\ ByteValue(kl) \in Nat /\ ByteValue(kr) \in Nat
          /\ BacmpLess(reg, kl)  <=> ByteValue(reg) < ByteValue(kl)
          /\ BacmpEqual(reg, kl) <=> ByteValue(reg) = ByteValue(kl)
          /\ BacmpAbove(reg, kl) <=> ByteValue(reg) > ByteValue(kl)
          /\ BacmpAbove(reg, kr) <=> ByteValue(reg) > ByteValue(kr)
      BY <2>1, LoopsCompare
    <2>3. QED
      BY <2>2 DEF ComparesNumbers, BazcpZone
  <1>4. QED
    BY <1>1, <1>2, <1>3, PTL DEF CompareSpec

=============================================================================
