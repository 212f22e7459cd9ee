----------------------------- MODULE ClockProofs -----------------------------
(***************************************************************************)
(* The timers of the PLC keep time: a 100 ms timer loses and invents none  *)
(* (TimeConserved) and is not early (NeverEarly), a 1 s timer invents no   *)
(* second (SecondsNotInvented); for every period of the pulses, every      *)
(* width of the tick counter, every lateness of the main loop below a turn *)
(* of it, and whoever sets the clock chip.                                 *)
(***************************************************************************)
EXTENDS PlcTimer, TLAPS

-----------------------------------------------------------------------------
(* Unsigned subtraction *)

TickVal == 0 .. TickSpan - 1

\* A tick count that is not ahead of itself by a whole turn: one tick more is
\* one tick more elapsed (unsigned subtraction).
LEMMA ElapsedStep ==
    ASSUME NEW s \in Nat, NEW a \in 0 .. s - 1, NEW b \in 0 .. s - 1, (a - b + s) % s < s - 1
    PROVE  (((a + 1) % s) - b + s) % s = ((a - b + s) % s) + 1
  <1>1. (a + 1) % s = IF a = s - 1 THEN 0 ELSE a + 1
    OBVIOUS
  <1>2. (a - b + s) % s = IF a < b THEN a - b + s ELSE a - b
    OBVIOUS
  <1>3. QED
    BY <1>1, <1>2

\* It is a tick count.
LEMMA ElapsedRange ==
    ASSUME NEW s \in Nat, NEW a \in 0 .. s - 1, NEW b \in 0 .. s - 1
    PROVE  (a - b + s) % s \in 0 .. s - 1
  OBVIOUS

\* A period that has gone is subtracted (NextLast), wherever the counter wraps.
LEMMA ElapsedCredit ==
    ASSUME NEW s \in Nat, NEW a \in 0 .. s - 1, NEW b \in 0 .. s - 1, NEW p \in Nat,
           (a - b + s) % s >= p
    PROVE  /\ (b + p) % s \in 0 .. s - 1
           /\ (a - ((b + p) % s) + s) % s = ((a - b + s) % s) - p
  <1>1. (a - b + s) % s = IF a < b THEN a - b + s ELSE a - b
    OBVIOUS
  <1>2. p < s
    BY <1>1
  <1>3. (b + p) % s = IF b + p >= s THEN b + p - s ELSE b + p
    BY <1>2
  <1> DEFINE c == (b + p) % s
  <1>4. c \in 0 .. s - 1
    BY <1>2, <1>3
  <1> HIDE DEF c
  <1>5. (a - c + s) % s = IF a < c THEN a - c + s ELSE a - c
    BY <1>4
  <1>6. QED
    BY <1>1, <1>2, <1>3, <1>4, <1>5 DEF c

-----------------------------------------------------------------------------
(* One cell *)

Bit01 == {0, 1}

\* A pass over a cell leaves a bit and a count (timing_cell_prcess).
LEMMA CellStep ==
    ASSUME NEW en \in Bit01, NEW ev \in Bit01, NEW cnt \in Nat, NEW credit \in Nat
    PROVE  /\ CellCounter(en, cnt, ev, credit) \in Nat
           /\ CellEvent(en, cnt, ev, credit) \in Bit01
  BY DEF CellCounter, CellEvent, Counting, Bit01

\* One pulse more is one period more.
LEMMA OnePulse ==
    ASSUME NEW p \in Nat, NEW x \in Int
    PROVE  p * (x + 1) = p * x + p /\ p * x \in Int
  OBVIOUS

\* More pulses take no less time.
LEMMA Monotone ==
    ASSUME NEW p \in Nat, NEW x \in Int, NEW y \in Int, x <= y
    PROVE  p * x <= p * y /\ p * x \in Int /\ p * y \in Int
  <1>1. p * (y - x) \in Nat
    OBVIOUS
  <1>2. p * (y - x) = p * y - p * x
    OBVIOUS
  <1>3. QED
    BY <1>1, <1>2

-----------------------------------------------------------------------------
(* The types of the clocks and of the cells *)

ClockTypes ==
    /\ clock \in TickVal /\ last_tick \in TickVal /\ last_tick1s \in TickVal
    /\ time100ms_come_flag \in Nat /\ time1s_come_flag \in Nat /\ unseen \in Nat

CellTypes ==
    /\ enable_bits \in [Timer -> Bit01] /\ event_bits \in [Timer -> Bit01]
    /\ counter \in [Timer -> Nat] /\ preset \in [Timer -> Nat]
    /\ head \in [Timer -> Nat] /\ age \in [Timer -> Nat]

\* Every change of the chip's seconds that a poll or a pulse is still to find is
\* a change that the model has counted as unseen.
PulsesDue == Pulse(rtc # rtc_reg) + Pulse(rtc_reg # rtc_sec_tick) <= unseen

Types == ClockTypes /\ CellTypes /\ PulsesDue

\* The tick counter has values, and starts with one.
LEMMA SpanPositive == TickSpan \in Nat \ {0} /\ 0 \in TickVal
  BY TimerAssumption DEF TickVal

\* An older timer has an age.
LEMMA OlderTypes ==
    ASSUME NEW S, age \in [Timer -> Nat]
    PROVE  Older(S) \in [Timer -> Nat]
  BY DEF Older

LEMMA ClockTypesNext == ClockTypes /\ PulsesDue /\ [Next]_vars => (ClockTypes /\ PulsesDue)'
  <1> SUFFICES ASSUME ClockTypes, PulsesDue, [Next]_vars PROVE (ClockTypes /\ PulsesDue)'
    OBVIOUS
  <1> USE DEF ClockTypes
  <1>1. CASE TickUpdate
    <2>1. clock' \in TickVal
      BY <1>1, TimerAssumption DEF TickUpdate, TickVal
    <2>2. QED
      BY <1>1, <2>1 DEF TickUpdate, tickVars, rtcVars, imgVars, PulsesDue
  <1>2. ASSUME NEW s, RtcMoves(s), rtc_reg' \in {rtc_reg, s}
        PROVE  (ClockTypes /\ PulsesDue)'
    <2>1. /\ UNCHANGED <<clock, last_tick, last_tick1s, time100ms_come_flag, time1s_come_flag, rtc_sec_tick>>
          /\ unseen' = unseen + 1 /\ rtc' = s
      BY <1>2 DEF RtcMoves, tickVars
    <2>2. PulsesDue'
      BY <1>2, <2>1 DEF PulsesDue, Pulse
    <2>3. QED
      BY <2>1, <2>2
  <1>3. CASE RtcSecond \/ CmdSetNewRtcValue \/ plc_set_word_2_rtc
    BY <1>2, <1>3 DEF RtcSecond, CmdSetNewRtcValue, plc_set_word_2_rtc
  <1>4. CASE plc_timing_tick_process
    <2>1. last_tick' \in TickVal /\ last_tick1s' \in TickVal /\ clock' \in TickVal
      <3>1. (last_tick + TICK_100MS) % TickSpan \in TickVal
        BY SpanPositive, TimerAssumption DEF TickVal
      <3>2. (last_tick1s + TICK_SECOND) % TickSpan \in TickVal
        BY SpanPositive, TimerAssumption DEF TickVal
      <3>3. QED
        BY <1>4, <3>1, <3>2 DEF plc_timing_tick_process, NextLast
    <2>2. time100ms_come_flag' \in Nat /\ time1s_come_flag' \in Nat
      BY <1>4 DEF plc_timing_tick_process, Pulse
    <2>3. unseen' \in Nat /\ PulsesDue'
      <3>1. CASE Lag1s >= TICK_SECOND
        BY <1>4, <3>1 DEF plc_timing_tick_process, PulsesDue, Pulse
      <3>2. CASE ~(Lag1s >= TICK_SECOND)
        BY <1>4, <3>2 DEF plc_timing_tick_process, PulsesDue, Pulse, SecondComes
      <3>3. QED
        BY <3>1, <3>2
    <2>4. QED
      BY <2>1, <2>2, <2>3
  <1>5. CASE handle_plc_out_t_on \/ handle_plc_out_t_off \/ UNCHANGED vars
    BY <1>5 DEF handle_plc_out_t_on, handle_plc_out_t_off, vars, tickVars, rtcVars, imgVars, PulsesDue
  <1>6. CASE timing_cell_prcess
    BY <1>6 DEF timing_cell_prcess, rtcVars, imgVars, PulsesDue
  <1>7. CASE PlcInit
    BY <1>7, SpanPositive DEF PlcInit, DS1302_Init, PulsesDue, Pulse
  <1>8. QED
    BY <1>1, <1>3, <1>4, <1>5, <1>6, <1>7 DEF Next, MainLoop, Program, Clocks

LEMMA CellTypesNext == Types /\ [Next]_vars => CellTypes'
  <1> SUFFICES ASSUME Types, [Next]_vars PROVE CellTypes'
    OBVIOUS
  <1> USE DEF Types, CellTypes
  <1>1. CASE TickUpdate
    BY <1>1, OlderTypes DEF TickUpdate, cellVars, histVars
  <1>2. ASSUME NEW s, RtcMoves(s)
        PROVE  CellTypes'
    BY <1>2, OlderTypes DEF RtcMoves, cellVars, histVars
  <1>3. CASE RtcSecond \/ CmdSetNewRtcValue \/ plc_set_word_2_rtc
    BY <1>2, <1>3 DEF RtcSecond, CmdSetNewRtcValue, plc_set_word_2_rtc
  <1>4. CASE handle_plc_out_t_on
    <2>1. PICK t \in Timer, kval \in Presets :
            /\ counter' = [counter EXCEPT ![t] = kval]
            /\ enable_bits' = [enable_bits EXCEPT ![t] = 1]
            /\ event_bits' = [event_bits EXCEPT ![t] = 0]
            /\ preset' = [preset EXCEPT ![t] = kval]
            /\ head' = [head EXCEPT ![t] = IF t \in TIMING100MS THEN HeadTicks ELSE HeadSeconds]
            /\ age' = [age EXCEPT ![t] = 0]
      BY <1>4 DEF handle_plc_out_t_on
    <2>2. HeadTicks \in Nat
      <3>1. Lag \in Nat
        BY SpanPositive, ElapsedRange DEF Lag, Elapsed, TickVal, ClockTypes
      <3>2. TICK_100MS * time100ms_come_flag \in Nat
        BY TimerAssumption DEF ClockTypes
      <3>3. QED
        BY <3>1, <3>2 DEF HeadTicks
    <2>3. HeadSeconds \in Nat /\ kval \in Nat
      BY TimerAssumption DEF HeadSeconds, ClockTypes
    <2>4. QED
      BY <2>1, <2>2, <2>3 DEF Bit01
  <1>5. CASE handle_plc_out_t_off
    BY <1>5 DEF handle_plc_out_t_off, histVars, Bit01
  <1>6. CASE timing_cell_prcess
    <2>1. \A t \in Timer : Credit(t) \in Nat
      BY DEF Credit, ClockTypes
    <2>2. \A t \in Timer :
            /\ CellCounter(enable_bits[t], counter[t], event_bits[t], Credit(t)) \in Nat
            /\ CellEvent(enable_bits[t], counter[t], event_bits[t], Credit(t)) \in Bit01
      BY <2>1, CellStep
    <2>3. QED
      BY <1>6, <2>2 DEF timing_cell_prcess, histVars
  <1>7. CASE PlcInit
    BY <1>7 DEF PlcInit, Bit01
  <1>8. CASE plc_timing_tick_process \/ UNCHANGED vars
    BY <1>8 DEF plc_timing_tick_process, vars, cellVars, histVars
  <1>9. QED
    BY <1>1, <1>3, <1>4, <1>5, <1>6, <1>7, <1>8 DEF Next, MainLoop, Program, Clocks

LEMMA TypesInvariant == Spec => []Types
  <1>1. Init => Types
    BY SpanPositive DEF Init, Types, ClockTypes, CellTypes, PulsesDue, Pulse, Bit01
  <1>2. Types /\ [Next]_vars => Types'
    BY ClockTypesNext, CellTypesNext DEF Types
  <1>3. QED
    BY <1>1, <1>2, PTL DEF Spec

-----------------------------------------------------------------------------
(* Tenths of a second *)

\* TimeConserved and NeverEarly of one timer.
Conserves(t) ==
    Running(t) => head[t] + age[t] =
                      TICK_100MS * (preset[t] - counter[t] + time100ms_come_flag) + Lag

NotEarly(t) == event_bits[t] = 1 => head[t] + age[t] >= TICK_100MS * preset[t]

TenthsInv == \A t \in TIMING100MS : Conserves(t) /\ NotEarly(t)

\* A tick is a tick of lag, because the counter has not come round.
LEMMA LagStep ==
    ASSUME ClockTypes, TickUpdate
    PROVE  Lag' = Lag + 1
  <1>1. Lag < TickSpan - 1
    <2>1. Lag \in Nat
      BY SpanPositive, ElapsedRange DEF Lag, Elapsed, TickVal, ClockTypes
    <2>2. QED
      BY <2>1, TimerAssumption DEF TickUpdate
  <1>2. clock' = (clock + 1) % TickSpan /\ last_tick' = last_tick
    BY DEF TickUpdate, tickVars
  <1>3. QED
    BY <1>1, <1>2, TimerAssumption, ElapsedStep DEF Lag, Elapsed, ClockTypes, TickVal

\* What the lag loses the flag gets.
LEMMA LagCredit ==
    ASSUME ClockTypes, plc_timing_tick_process
    PROVE  \/ /\ Lag' = Lag - TICK_100MS
              /\ time100ms_come_flag' = time100ms_come_flag + 1
           \/ Lag' = Lag /\ time100ms_come_flag' = time100ms_come_flag
  <1>1. clock' = clock
    BY DEF plc_timing_tick_process
  <1>2. CASE Lag >= TICK_100MS
    <2>1. last_tick' = (last_tick + TICK_100MS) % TickSpan
      BY <1>2 DEF plc_timing_tick_process, NextLast
    <2>2. Lag' = Lag - TICK_100MS
      BY <1>1, <1>2, <2>1, TimerAssumption, ElapsedCredit DEF Lag, Elapsed, ClockTypes, TickVal
    <2>3. QED
      BY <1>2, <2>2 DEF plc_timing_tick_process, Pulse
  <1>3. CASE ~(Lag >= TICK_100MS)
    BY <1>1, <1>3 DEF plc_timing_tick_process, Pulse, Lag, ClockTypes
  <1>4. QED
    BY <1>2, <1>3

\* The main loop is never ahead.
LEMMA LagNat ==
    ASSUME ClockTypes
    PROVE  Lag \in Nat /\ Lag1s \in Nat
  BY SpanPositive, ElapsedRange DEF Lag, Lag1s, Elapsed, TickVal, ClockTypes

\* What a step of the clock or the program does not touch.
LEMMA TenthsSame ==
    ASSUME NEW t, Conserves(t), NotEarly(t),
           UNCHANGED <<enable_bits, event_bits, counter, preset, head, age, Lag,
                       time100ms_come_flag>>
    PROVE  Conserves(t)' /\ NotEarly(t)'
  BY DEF Conserves, NotEarly, Running

LEMMA TenthsNext == Types /\ TenthsInv /\ [Next]_vars => TenthsInv'
  <1> SUFFICES ASSUME Types, [Next]_vars, NEW t \in TIMING100MS, Conserves(t), NotEarly(t)
               PROVE  Conserves(t)' /\ NotEarly(t)'
    BY DEF TenthsInv
  <1>t. /\ t \in Timer /\ t \notin TIMING1S
        /\ TICK_100MS \in Nat
        /\ enable_bits[t] \in Bit01 /\ event_bits[t] \in Bit01
        /\ counter[t] \in Nat /\ preset[t] \in Nat /\ head[t] \in Nat /\ age[t] \in Nat
        /\ time100ms_come_flag \in Nat /\ Lag \in Nat
    BY TimerAssumption, LagNat DEF Timer, Types, CellTypes, ClockTypes
  <1>1. CASE TickUpdate
    <2>1. /\ Lag' = Lag + 1 /\ age' = Older(TIMING100MS)
          /\ UNCHANGED <<enable_bits, event_bits, counter, preset, head, time100ms_come_flag>>
      BY <1>1, LagStep DEF TickUpdate, tickVars, cellVars, histVars, Types
    <2>2. age'[t] = IF Running(t) THEN age[t] + 1 ELSE age[t]
      BY <1>t, <2>1 DEF Older
    <2>3. NotEarly(t)'
      <3>1. age'[t] >= age[t]
        BY <1>t, <2>2
      <3> DEFINE due == TICK_100MS * preset[t]
      <3>2. due \in Nat /\ age'[t] \in Nat /\ due' = due
        BY <1>t, <2>1, <2>2
      <3>3. event_bits[t] = 1 => head[t] + age[t] >= due
        BY DEF NotEarly
      <3>4. head'[t] = head[t] /\ event_bits'[t] = event_bits[t]
        BY <2>1
      <3> HIDE DEF due
      <3>5. event_bits'[t] = 1 => head'[t] + age'[t] >= due'
        BY <1>t, <3>1, <3>2, <3>3, <3>4
      <3>6. QED
        BY <3>5 DEF NotEarly, due
    <2>4. Conserves(t)'
      <3> DEFINE credited == TICK_100MS * (preset[t] - counter[t] + time100ms_come_flag)
      <3>1. credited \in Int /\ credited' = credited
        BY <1>t, <2>1
      <3>2. Running(t) => head[t] + age[t] = credited + Lag
        BY DEF Conserves
      <3>3. Running(t)' = Running(t) /\ head'[t] = head[t]
        BY <2>1 DEF Running
      <3> HIDE DEF credited
      <3>4. Running(t)' => head'[t] + age'[t] = credited' + Lag'
        BY <1>t, <2>1, <2>2, <3>1, <3>2, <3>3
      <3>5. QED
        BY <3>4 DEF Conserves, credited
    <2>5. QED
      BY <2>3, <2>4
  <1>2. ASSUME NEW s, RtcMoves(s)
        PROVE  Conserves(t)' /\ NotEarly(t)'
    <2>1. /\ UNCHANGED <<enable_bits, event_bits, counter, preset, head, time100ms_come_flag>>
          /\ clock' = clock /\ last_tick' = last_tick /\ age' = Older(TIMING1S)
      BY <1>2 DEF RtcMoves, tickVars, cellVars, histVars
    <2>2. age'[t] = age[t] /\ Lag' = Lag
      BY <1>t, <2>1 DEF Older, Lag
    <2>3. QED
      BY <2>1, <2>2 DEF Conserves, NotEarly, Running
  <1>3. CASE RtcSecond \/ CmdSetNewRtcValue \/ plc_set_word_2_rtc
    BY <1>2, <1>3 DEF RtcSecond, CmdSetNewRtcValue, plc_set_word_2_rtc
  <1>4. CASE plc_timing_tick_process
    <2>1. UNCHANGED <<enable_bits, event_bits, counter, preset, head, age>>
      BY <1>4 DEF plc_timing_tick_process, cellVars, histVars
    <2>2. NotEarly(t)'
      BY <2>1 DEF NotEarly
    <2>3. CASE Lag' = Lag /\ time100ms_come_flag' = time100ms_come_flag
      BY <2>1, <2>2, <2>3 DEF Conserves, Running
    <2>4. CASE Lag' = Lag - TICK_100MS /\ time100ms_come_flag' = time100ms_come_flag + 1
      <3> DEFINE x == preset[t] - counter[t] + time100ms_come_flag
      <3>1. x \in Int /\ x' = x + 1
        BY <1>t, <2>1, <2>4
      <3>2. TICK_100MS * x' = TICK_100MS * x + TICK_100MS /\ TICK_100MS * x \in Int
        BY <1>t, <3>1, OnePulse
      <3>3. Running(t)' = Running(t) /\ head'[t] + age'[t] = head[t] + age[t]
        BY <2>1 DEF Running
      <3>4. Running(t) => head[t] + age[t] = TICK_100MS * x + Lag
        BY DEF Conserves
      <3> HIDE DEF x
      <3>5. Running(t)' => head'[t] + age'[t] = TICK_100MS * x' + Lag'
        BY <1>t, <2>4, <3>2, <3>3, <3>4
      <3>6. Conserves(t)'
        BY <3>5 DEF Conserves, x
      <3>7. QED
        BY <2>2, <3>6
    <2>5. QED
      BY <1>4, <2>3, <2>4, LagCredit DEF Types
  <1>5. CASE handle_plc_out_t_on
    <2>1. PICK u \in Timer, kval \in Presets :
            /\ enable_bits[u] = 0
            /\ counter' = [counter EXCEPT ![u] = kval]
            /\ enable_bits' = [enable_bits EXCEPT ![u] = 1]
            /\ event_bits' = [event_bits EXCEPT ![u] = 0]
            /\ preset' = [preset EXCEPT ![u] = kval]
            /\ head' = [head EXCEPT ![u] = IF u \in TIMING100MS THEN HeadTicks ELSE HeadSeconds]
            /\ age' = [age EXCEPT ![u] = 0]
      BY <1>5 DEF handle_plc_out_t_on
    <2>2. clock' = clock /\ last_tick' = last_tick /\ time100ms_come_flag' = time100ms_come_flag
          /\ Lag' = Lag
      BY <1>5 DEF handle_plc_out_t_on, tickVars, Lag
    <2>3. CASE u = t
      <3>1. /\ counter'[t] = kval /\ preset'[t] = kval /\ kval \in Nat
            /\ event_bits'[t] = 0 /\ age'[t] = 0 /\ head'[t] = HeadTicks
        BY <1>t, <2>1, <2>3, TimerAssumption DEF Types, CellTypes
      <3>2. TICK_100MS * (kval - kval + time100ms_come_flag) = TICK_100MS * time100ms_come_flag
        BY <1>t, <3>1
      <3>3. TICK_100MS * time100ms_come_flag \in Nat
        BY <1>t
      <3>4. head'[t] + age'[t] =
                TICK_100MS * (preset'[t] - counter'[t] + time100ms_come_flag') + Lag'
        BY <1>t, <2>2, <3>1, <3>2, <3>3 DEF HeadTicks
      <3>5. QED
        BY <3>1, <3>4 DEF Conserves, NotEarly
    <2>4. CASE u # t
      <3>1. /\ counter'[t] = counter[t] /\ preset'[t] = preset[t]
            /\ enable_bits'[t] = enable_bits[t] /\ event_bits'[t] = event_bits[t]
            /\ age'[t] = age[t] /\ head'[t] = head[t]
        BY <1>t, <2>1, <2>4 DEF Types, CellTypes
      <3>2. QED
        BY <2>2, <3>1 DEF Conserves, NotEarly, Running
    <2>5. QED
      BY <2>3, <2>4
  <1>6. CASE handle_plc_out_t_off
    <2>1. /\ UNCHANGED <<clock, last_tick, time100ms_come_flag, counter, event_bits, preset, head, age>>
          /\ \E u \in Timer : enable_bits' = [enable_bits EXCEPT ![u] = 0]
      BY <1>6 DEF handle_plc_out_t_off, tickVars, histVars
    <2>2. enable_bits'[t] \in {0, enable_bits[t]} /\ Lag' = Lag
      BY <1>t, <2>1 DEF Types, CellTypes, Lag
    <2>3. QED
      BY <2>1, <2>2 DEF Conserves, NotEarly, Running
  <1>7. CASE timing_cell_prcess
    <2>1. /\ UNCHANGED <<clock, last_tick, enable_bits, preset, head, age>>
          /\ time100ms_come_flag' = 0 /\ Lag' = Lag
      BY <1>7 DEF timing_cell_prcess, histVars, Lag
    <2>2. /\ counter'[t] = CellCounter(enable_bits[t], counter[t], event_bits[t], time100ms_come_flag)
          /\ event_bits'[t] = CellEvent(enable_bits[t], counter[t], event_bits[t], time100ms_come_flag)
      BY <1>7, <1>t DEF timing_cell_prcess, Credit
    <2>3. /\ (enable_bits[t] = 1 /\ event_bits'[t] = 0) =>
                 event_bits[t] = 0 /\ counter'[t] = counter[t] - time100ms_come_flag
          /\ (event_bits'[t] = 1 /\ event_bits[t] = 0) =>
                 enable_bits[t] = 1 /\ counter[t] <= time100ms_come_flag
      <3> DEFINE cnt == CellCounter(enable_bits[t], counter[t], event_bits[t], time100ms_come_flag)
                 ev == CellEvent(enable_bits[t], counter[t], event_bits[t], time100ms_come_flag)
      <3>1. /\ (enable_bits[t] = 1 /\ ev = 0) =>
                   event_bits[t] = 0 /\ cnt = counter[t] - time100ms_come_flag
            /\ (ev = 1 /\ event_bits[t] = 0) =>
                   enable_bits[t] = 1 /\ counter[t] <= time100ms_come_flag
        BY <1>t DEF CellCounter, CellEvent, Counting, Bit01
      <3>2. counter'[t] = cnt /\ event_bits'[t] = ev
        BY <2>2
      <3> HIDE DEF cnt, ev
      <3>3. QED
        BY <3>1, <3>2
    <2>4. Conserves(t)'
      <3> SUFFICES ASSUME Running(t)'
                   PROVE  head'[t] + age'[t] =
                            TICK_100MS * (preset'[t] - counter'[t] + time100ms_come_flag') + Lag'
        BY DEF Conserves
      <3>1. Running(t) /\ counter'[t] = counter[t] - time100ms_come_flag
        BY <2>1, <2>3 DEF Running
      <3>2. preset'[t] - counter'[t] + time100ms_come_flag' =
                preset[t] - counter[t] + time100ms_come_flag
        BY <1>t, <2>1, <3>1
      <3>3. QED
        BY <2>1, <3>1, <3>2 DEF Conserves
    <2>5. NotEarly(t)'
      <3>1. CASE event_bits[t] = 1
        BY <2>1, <3>1 DEF NotEarly
      <3>2. CASE event_bits[t] = 0 /\ event_bits'[t] = 1
        <4>1. Running(t) /\ counter[t] <= time100ms_come_flag
          BY <2>3, <3>2 DEF Running
        <4> DEFINE x == preset[t] - counter[t] + time100ms_come_flag
        <4>2. x \in Int /\ preset[t] <= x
          BY <1>t, <4>1
        <4>3. head[t] + age[t] = TICK_100MS * x + Lag
          BY <4>1 DEF Conserves
        <4> HIDE DEF x
        <4>4. TICK_100MS * preset[t] <= TICK_100MS * x
              /\ TICK_100MS * x \in Int /\ TICK_100MS * preset[t] \in Int
          BY <1>t, <4>2, Monotone
        <4>5. QED
          BY <1>t, <2>1, <4>3, <4>4 DEF NotEarly
      <3>3. QED
        BY <1>t, <3>1, <3>2 DEF NotEarly, Bit01
    <2>6. QED
      BY <2>4, <2>5
  <1>8. CASE PlcInit
    <2>1. enable_bits'[t] = 0 /\ event_bits'[t] = 0
      BY <1>8, <1>t DEF PlcInit
    <2>2. QED
      BY <2>1 DEF Conserves, NotEarly, Running
  <1>9. CASE UNCHANGED vars
    BY <1>9, TenthsSame DEF vars, tickVars, cellVars, histVars, Lag
  <1>10. QED
    BY <1>1, <1>3, <1>4, <1>5, <1>6, <1>7, <1>8, <1>9 DEF Next, MainLoop, Program, Clocks

LEMMA TenthsInvariant == Spec => []TenthsInv
  <1>1. Init => TenthsInv
    BY DEF Init, TenthsInv, Conserves, NotEarly, Running, Timer
  <1>2. QED
    BY <1>1, TenthsNext, TypesInvariant, PTL DEF Spec

\* While a 100 ms timer runs no time is lost and none invented, for every period
\* and width of the tick counter and every lateness of the main loop
\* (plc_timing_tick_process, timing_cell_prcess).
THEOREM TimeIsConserved == Spec => []TimeConserved
  <1>1. TenthsInv => TimeConserved
    BY DEF TenthsInv, Conserves, TimeConserved
  <1>2. QED
    BY <1>1, TenthsInvariant, PTL

\* A 100 ms timer is never early by more than its head start (handle_plc_out_t,
\* timing_cell_prcess).
THEOREM TimersNeverEarly == Spec => []NeverEarly
  <1>1. TenthsInv => NeverEarly
    BY DEF TenthsInv, NotEarly, NeverEarly
  <1>2. QED
    BY <1>1, TenthsInvariant, PTL

-----------------------------------------------------------------------------
(* Seconds *)

\* SecondsNotInvented of one timer.
Bounded(t) ==
    Running(t) => preset[t] - counter[t] + time1s_come_flag + unseen <= head[t] + age[t]

Ripe(t) == event_bits[t] = 1 => preset[t] <= head[t] + age[t]

SecondsInv == \A t \in TIMING1S : Bounded(t) /\ Ripe(t)

\* A pulse is a change of the seconds that had not been seen: what a turn adds to
\* the flag it takes from the unseen changes.
LEMMA PulseIsSeen ==
    ASSUME ClockTypes, PulsesDue, plc_timing_tick_process
    PROVE  time1s_come_flag' + unseen' <= time1s_come_flag + unseen
  <1>1. CASE Lag1s >= TICK_SECOND
    <2>1. rtc_reg' = rtc /\ unseen' = 0
          /\ time1s_come_flag' = time1s_come_flag + Pulse(rtc # rtc_sec_tick)
      BY <1>1 DEF plc_timing_tick_process, SecondComes
    <2>2. Pulse(rtc # rtc_sec_tick) <= unseen /\ Pulse(rtc # rtc_sec_tick) \in Nat
      BY DEF PulsesDue, Pulse, ClockTypes
    <2>3. QED
      BY <2>1, <2>2 DEF ClockTypes
  <1>2. CASE ~(Lag1s >= TICK_SECOND)
    <2>1. /\ time1s_come_flag' = time1s_come_flag + Pulse(SecondComes(rtc_reg'))
          /\ unseen' = unseen - Pulse(SecondComes(rtc_reg'))
      BY <1>2 DEF plc_timing_tick_process
    <2>2. Pulse(SecondComes(rtc_reg')) \in Nat
      BY DEF Pulse
    <2>3. QED
      BY <2>1, <2>2 DEF ClockTypes
  <1>3. QED
    BY <1>1, <1>2

LEMMA SecondsNext == Types /\ Types' /\ SecondsInv /\ [Next]_vars => SecondsInv'
  <1> SUFFICES ASSUME Types, Types', [Next]_vars, NEW t \in TIMING1S, Bounded(t), Ripe(t)
               PROVE  Bounded(t)' /\ Ripe(t)'
    BY DEF SecondsInv
  <1>t. /\ t \in Timer /\ t \notin TIMING100MS
        /\ enable_bits[t] \in Bit01 /\ event_bits[t] \in Bit01
        /\ counter[t] \in Nat /\ preset[t] \in Nat /\ head[t] \in Nat /\ age[t] \in Nat
        /\ time1s_come_flag \in Nat /\ unseen \in Nat
    BY TimerAssumption DEF Timer, Types, CellTypes, ClockTypes
  <1>n. time1s_come_flag' \in Nat /\ unseen' \in Nat
    BY DEF Types, ClockTypes
  <1>1. CASE TickUpdate
    <2>1. /\ age' = Older(TIMING100MS)
          /\ UNCHANGED <<enable_bits, event_bits, counter, preset, head, time1s_come_flag, unseen>>
      BY <1>1 DEF TickUpdate, tickVars, rtcVars, cellVars, histVars
    <2>2. age'[t] = age[t]
      BY <1>t, <2>1 DEF Older
    <2>3. QED
      BY <2>1, <2>2 DEF Bounded, Ripe, Running
  <1>2. ASSUME NEW s, RtcMoves(s)
        PROVE  Bounded(t)' /\ Ripe(t)'
    <2>1. /\ UNCHANGED <<enable_bits, event_bits, counter, preset, head, time1s_come_flag>>
          /\ unseen' = unseen + 1 /\ age' = Older(TIMING1S)
      BY <1>2 DEF RtcMoves, tickVars, cellVars, histVars
    <2>2. age'[t] = IF Running(t) THEN age[t] + 1 ELSE age[t]
      BY <1>t, <2>1 DEF Older
    <2>3. QED
      BY <1>t, <2>1, <2>2 DEF Bounded, Ripe, Running
  <1>3. CASE RtcSecond \/ CmdSetNewRtcValue \/ plc_set_word_2_rtc
    BY <1>2, <1>3 DEF RtcSecond, CmdSetNewRtcValue, plc_set_word_2_rtc
  <1>4. CASE plc_timing_tick_process
    <2>1. UNCHANGED <<enable_bits, event_bits, counter, preset, head, age>>
      BY <1>4 DEF plc_timing_tick_process, cellVars, histVars
    <2>2. time1s_come_flag' + unseen' <= time1s_come_flag + unseen
      BY <1>4, PulseIsSeen DEF Types
    <2>3. QED
      BY <1>t, <1>n, <2>1, <2>2 DEF Bounded, Ripe, Running
  <1>5. CASE handle_plc_out_t_on
    <2>1. PICK u \in Timer, kval \in Presets :
            /\ counter' = [counter EXCEPT ![u] = kval]
            /\ enable_bits' = [enable_bits EXCEPT ![u] = 1]
            /\ event_bits' = [event_bits EXCEPT ![u] = 0]
            /\ preset' = [preset EXCEPT ![u] = kval]
            /\ head' = [head EXCEPT ![u] = IF u \in TIMING100MS THEN HeadTicks ELSE HeadSeconds]
            /\ age' = [age EXCEPT ![u] = 0]
      BY <1>5 DEF handle_plc_out_t_on
    <2>2. time1s_come_flag' = time1s_come_flag /\ unseen' = unseen
      BY <1>5 DEF handle_plc_out_t_on, tickVars, rtcVars
    <2>3. CASE u = t
      <3>1. /\ counter'[t] = kval /\ preset'[t] = kval /\ kval \in Nat
            /\ event_bits'[t] = 0 /\ age'[t] = 0 /\ head'[t] = unseen + time1s_come_flag
        BY <1>t, <2>1, <2>3, TimerAssumption DEF Types, CellTypes, HeadSeconds
      <3>2. QED
        BY <1>t, <2>2, <3>1 DEF Bounded, Ripe
    <2>4. CASE u # t
      <3>1. /\ counter'[t] = counter[t] /\ preset'[t] = preset[t]
            /\ enable_bits'[t] = enable_bits[t] /\ event_bits'[t] = event_bits[t]
            /\ age'[t] = age[t] /\ head'[t] = head[t]
        BY <1>t, <2>1, <2>4 DEF Types, CellTypes
      <3>2. QED
        BY <2>2, <3>1 DEF Bounded, Ripe, Running
    <2>5. QED
      BY <2>3, <2>4
  <1>6. CASE handle_plc_out_t_off
    <2>1. /\ UNCHANGED <<time1s_come_flag, unseen, counter, event_bits, preset, head, age>>
          /\ \E u \in Timer : enable_bits' = [enable_bits EXCEPT ![u] = 0]
      BY <1>6 DEF handle_plc_out_t_off, tickVars, rtcVars, histVars
    <2>2. enable_bits'[t] \in {0, enable_bits[t]}
      BY <1>t, <2>1 DEF Types, CellTypes
    <2>3. QED
      BY <2>1, <2>2 DEF Bounded, Ripe, Running
  <1>7. CASE timing_cell_prcess
    <2>1. /\ UNCHANGED <<unseen, enable_bits, preset, head, age>>
          /\ time1s_come_flag' = 0
      BY <1>7 DEF timing_cell_prcess, histVars, rtcVars
    <2>2. /\ counter'[t] = CellCounter(enable_bits[t], counter[t], event_bits[t], time1s_come_flag)
          /\ event_bits'[t] = CellEvent(enable_bits[t], counter[t], event_bits[t], time1s_come_flag)
      BY <1>7, <1>t DEF timing_cell_prcess, Credit
    <2>3. /\ (enable_bits[t] = 1 /\ event_bits'[t] = 0) =>
                 event_bits[t] = 0 /\ counter'[t] = counter[t] - time1s_come_flag
          /\ (event_bits'[t] = 1 /\ event_bits[t] = 0) =>
                 enable_bits[t] = 1 /\ counter[t] <= time1s_come_flag
      BY <1>t, <2>2 DEF CellCounter, CellEvent, Counting, Bit01
    <2>4. Bounded(t)'
      BY <1>t, <2>1, <2>3 DEF Bounded, Running
    <2>5. Ripe(t)'
      BY <1>t, <2>1, <2>3 DEF Bounded, Ripe, Running, Bit01
    <2>6. QED
      BY <2>4, <2>5
  <1>8. CASE PlcInit
    <2>1. enable_bits'[t] = 0 /\ event_bits'[t] = 0
      BY <1>8, <1>t DEF PlcInit
    <2>2. QED
      BY <2>1 DEF Bounded, Ripe, Running
  <1>9. CASE UNCHANGED vars
    BY <1>9 DEF vars, tickVars, rtcVars, cellVars, histVars, Bounded, Ripe, Running
  <1>10. QED
    BY <1>1, <1>3, <1>4, <1>5, <1>6, <1>7, <1>8, <1>9 DEF Next, MainLoop, Program, Clocks

\* Every pulse a 1 s timer is credited with is a different change of the chip's
\* seconds, whoever sets the chip and however rarely it is polled
\* (plc_timing_tick_process).
THEOREM NoSecondInvented == Spec => []SecondsNotInvented
  <1>1. Init => SecondsInv
    BY DEF Init, SecondsInv, Bounded, Ripe, Running, Timer
  <1>2. SecondsInv => SecondsNotInvented
    BY DEF SecondsInv, Bounded, Ripe, SecondsNotInvented
  <1>3. QED
    BY <1>1, <1>2, SecondsNext, TypesInvariant, PTL DEF Spec
=============================================================================
