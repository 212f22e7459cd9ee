------------------------------ MODULE PlcTimer ------------------------------
(***************************************************************************)
(* The clocks behind the PLC's timers: the tick counter of Tick.c, from    *)
(* which plc_timing_tick_process derives the 100 ms pulses, the DS1302,    *)
(* whose seconds it polls for the 1 s pulses, and the timer cells that     *)
(* timing_cell_prcess credits with them.  The interrupt, the clock chip    *)
(* and the main loop interleave; the main loop may be late by any amount   *)
(* below MaxLag.  What the user program does with OUTT is arbitrary.       *)
(***************************************************************************)
EXTENDS Integers, TimingCell

CONSTANTS
    TIMING100MS, TIMING1S,   \* the timers
    TickSpan,                \* 2^32: the values of a TICK
    TICK_100MS,              \* TICK_SECOND / 10
    TICK_SECOND,
    RtcSpan,                 \* 60: the values of the seconds register
    RtcStart,                \* 8: the seconds that DS1302_Init writes
    Presets,                 \* the presets OUTT may give
    RtcSets,                 \* the seconds a host or a program may set, if any
    MaxLag,                  \* bound: how far the main loop falls behind
    MaxUnseen,               \* bound: RTC seconds between two polls
    MaxSetAge,               \* bound: seconds after whose passing nobody sets the chip
    MaxAge                   \* bound: ticks or seconds a timer is watched

Timer == TIMING100MS \cup TIMING1S

ASSUME TimerAssumption ==
    /\ TIMING100MS \cap TIMING1S = {}
    /\ TICK_100MS \in Nat \ {0}
    /\ TICK_SECOND \in Nat /\ TICK_SECOND > TICK_100MS
    /\ TickSpan \in Nat
    /\ MaxLag \in Nat /\ TICK_SECOND < MaxLag /\ MaxLag < TickSpan
    /\ RtcSpan \in Nat \ {0}
    /\ RtcStart \in 0 .. RtcSpan - 1
    /\ Presets \subseteq Nat
    /\ RtcSets \subseteq 0 .. RtcSpan - 1
    /\ MaxUnseen \in Nat
    /\ MaxSetAge \in Nat
    /\ MaxAge \in Nat

VARIABLES
    clock,                  \* TickGet()
    last_tick, last_tick1s,
    rtc,                    \* the seconds of the DS1302
    rtc_reg,                \* rtc_reg[0], the image of them
    rtc_sec_tick,
    time100ms_come_flag, time1s_come_flag,
    enable_bits, counter, event_bits,
    phase,                  \* "loop", "scan", "timing"
    unseen,                 \* history: changes of rtc since the last scan
    preset,                 \* history: the preset of the running timer
    head,                   \* history: what had already gone when it started
    age                     \* history: ticks or seconds since it started

tickVars == <<last_tick, last_tick1s, time100ms_come_flag, time1s_come_flag>>
rtcVars  == <<rtc, unseen>>
imgVars  == <<rtc_reg, rtc_sec_tick>>
cellVars == <<enable_bits, counter, event_bits>>
histVars == <<preset, head>>
vars == <<clock, tickVars, rtcVars, imgVars, cellVars, phase, histVars, age>>

\* Unsigned subtraction of two tick counts.
Elapsed(curr, last) == (curr - last + TickSpan) % TickSpan

Lag   == Elapsed(clock, last_tick)
Lag1s == Elapsed(clock, last_tick1s)

Running(t) == enable_bits[t] = 1 /\ event_bits[t] = 0

\* Age of the running timers of S after one more of their units.
Older(S) == [t \in Timer |-> IF t \in S /\ Running(t) THEN age[t] + 1 ELSE age[t]]

-----------------------------------------------------------------------------
(* The two clocks *)

\* The timer interrupt.
TickUpdate ==
    /\ Lag < MaxLag /\ Lag1s < MaxLag
    /\ \A t \in TIMING100MS : age[t] < MaxAge
    /\ clock' = (clock + 1) % TickSpan
    /\ age' = Older(TIMING100MS)
    /\ UNCHANGED <<tickVars, rtcVars, imgVars, cellVars, phase, histVars>>

RtcMoves(sec) ==
    /\ unseen < MaxUnseen
    /\ \A t \in TIMING1S : age[t] < MaxAge
    /\ rtc' = sec
    /\ unseen' = unseen + 1
    /\ age' = Older(TIMING1S)
    /\ UNCHANGED <<clock, tickVars, cellVars, phase, histVars, rtc_sec_tick>>

\* The DS1302 counts by itself.
RtcSecond == RtcMoves((rtc + 1) % RtcSpan) /\ UNCHANGED rtc_reg

Settable == \A t \in TIMING1S : age[t] < MaxSetAge

\* A network command sets the chip.
CmdSetNewRtcValue ==
    phase = "loop" /\ Settable /\ (\E s \in RtcSets : RtcMoves(s)) /\ UNCHANGED rtc_reg

\* WMOV to a clock register writes the whole image to the chip: to the
\* seconds, or to another register with the seconds as they were polled.
plc_set_word_2_rtc ==
    /\ phase = "scan" /\ RtcSets # {} /\ Settable
    /\ \E s \in RtcSets \cup {rtc_reg} : RtcMoves(s) /\ rtc_reg' = s

-----------------------------------------------------------------------------
(* The main loop *)

\* Forgets what is left over of the period instead of carrying it on.
NextLastNow(curr, last, period) == curr
NextLast(curr, last, period)      == (last + period) % TickSpan

\* A pulse for every turn in which the seconds are not zero.
SecondComesNonzero(reg) == reg # 0
SecondComes(reg)        == reg # rtc_sec_tick

Pulse(come) == IF come THEN 1 ELSE 0

\* One pulse at most of each kind; the RTC is polled once a second.
plc_timing_tick_process ==
    /\ phase = "loop"
    /\ time100ms_come_flag' = time100ms_come_flag + Pulse(Lag >= TICK_100MS)
    /\ last_tick' = IF Lag >= TICK_100MS
                    THEN NextLast(clock, last_tick, TICK_100MS) ELSE last_tick
    /\ last_tick1s' = IF Lag1s >= TICK_SECOND
                      THEN NextLast(clock, last_tick1s, TICK_SECOND) ELSE last_tick1s
    /\ rtc_reg' = IF Lag1s >= TICK_SECOND THEN rtc ELSE rtc_reg
    /\ time1s_come_flag' = time1s_come_flag + Pulse(SecondComes(rtc_reg'))
    /\ rtc_sec_tick' = rtc_reg'
    /\ unseen' = IF Lag1s >= TICK_SECOND THEN 0 ELSE unseen - Pulse(SecondComes(rtc_reg'))
    /\ phase' = "scan"
    /\ UNCHANGED <<clock, rtc, cellVars, histVars, age>>

\* The head start of a timer: pulses that are due to time before its start.
HeadTicks   == Lag + TICK_100MS * time100ms_come_flag
HeadSeconds == unseen + time1s_come_flag

handle_plc_out_t_on ==
    /\ phase = "scan"
    /\ \E t \in Timer, kval \in Presets :
        /\ enable_bits[t] = 0                   \* otherwise nothing changes
        /\ counter' = [counter EXCEPT ![t] = kval]
        /\ enable_bits' = [enable_bits EXCEPT ![t] = 1]
        /\ event_bits' = [event_bits EXCEPT ![t] = 0]
        /\ preset' = [preset EXCEPT ![t] = kval]
        /\ head' = [head EXCEPT ![t] = IF t \in TIMING100MS THEN HeadTicks ELSE HeadSeconds]
        /\ age' = [age EXCEPT ![t] = 0]
    /\ UNCHANGED <<clock, tickVars, rtcVars, imgVars, phase>>

handle_plc_out_t_off ==
    /\ phase = "scan"
    /\ \E t \in Timer : enable_bits' = [enable_bits EXCEPT ![t] = 0]
    /\ UNCHANGED <<clock, tickVars, rtcVars, imgVars, counter, event_bits, phase,
                   histVars, age>>

Credit(t) == IF t \in TIMING100MS THEN time100ms_come_flag ELSE time1s_come_flag

timing_cell_prcess ==
    /\ phase = "scan"
    /\ counter' = [t \in Timer |->
                      CellCounter(enable_bits[t], counter[t], event_bits[t], Credit(t))]
    /\ event_bits' = [t \in Timer |->
                      CellEvent(enable_bits[t], counter[t], event_bits[t], Credit(t))]
    /\ time100ms_come_flag' = 0
    /\ time1s_come_flag' = 0
    /\ phase' = "loop"
    /\ UNCHANGED <<clock, last_tick, last_tick1s, rtcVars, imgVars, enable_bits,
                   histVars, age>>

\* The board sets the seconds of the chip when it starts.
DS1302_Init == rtc' = RtcStart

\* A reset: the tick counter and the seconds of the chip start again.  The image
\* of the seconds is fresh but rtc_sec_tick is zero, which may cost one pulse.
PlcInit ==
    /\ DS1302_Init
    /\ clock' = 0
    /\ last_tick' = 0
    /\ last_tick1s' = 0
    /\ rtc_reg' = RtcStart
    /\ rtc_sec_tick' = 0
    /\ time100ms_come_flag' = 0
    /\ time1s_come_flag' = 0
    /\ enable_bits' = [t \in Timer |-> 0]
    /\ counter' = [t \in Timer |-> 0]
    /\ event_bits' = [t \in Timer |-> 0]
    /\ phase' = "loop"
    /\ unseen' = 1
    /\ preset' = [t \in Timer |-> 0]
    /\ head' = [t \in Timer |-> 0]
    /\ age' = [t \in Timer |-> 0]

Init ==
    /\ clock = 0
    /\ last_tick = 0
    /\ last_tick1s = 0
    /\ rtc = RtcStart
    /\ rtc_reg = RtcStart
    /\ rtc_sec_tick = 0
    /\ time100ms_come_flag = 0
    /\ time1s_come_flag = 0
    /\ enable_bits = [t \in Timer |-> 0]
    /\ counter = [t \in Timer |-> 0]
    /\ event_bits = [t \in Timer |-> 0]
    /\ phase = "loop"
    /\ unseen = 1
    /\ preset = [t \in Timer |-> 0]
    /\ head = [t \in Timer |-> 0]
    /\ age = [t \in Timer |-> 0]

MainLoop == plc_timing_tick_process \/ timing_cell_prcess
Program  == handle_plc_out_t_on \/ handle_plc_out_t_off \/ plc_set_word_2_rtc
Clocks   == TickUpdate \/ RtcSecond

Next == MainLoop \/ Program \/ Clocks \/ CmdSetNewRtcValue \/ PlcInit

Spec == Init /\ [][Next]_vars

\* The main loop never blocks and both clocks run.
FairSpec == Spec /\ WF_vars(MainLoop) /\ WF_vars(TickUpdate) /\ WF_vars(RtcSecond)

-----------------------------------------------------------------------------
(* Properties *)

\* While a 100 ms timer runs no time is lost and none invented, however late
\* the main loop is and however the tick counter wraps: the ticks since its
\* start, and the head start it was given, are what it has counted down, what
\* waits in the flag, and how far plc_timing_tick_process lags.
TimeConserved ==
    \A t \in TIMING100MS : Running(t) =>
        head[t] + age[t] =
            TICK_100MS * (preset[t] - counter[t] + time100ms_come_flag) + Lag

\* A 100 ms timer is never early by more than its head start.
NeverEarly ==
    \A t \in TIMING100MS : event_bits[t] = 1 =>
        head[t] + age[t] >= TICK_100MS * preset[t]

\* A 1 s timer may miss seconds of the chip but invents none: every pulse it
\* is credited with is a different change of the chip's seconds.
SecondsNotInvented ==
    \A t \in TIMING1S :
        /\ Running(t) => preset[t] - counter[t] + time1s_come_flag + unseen
                             <= head[t] + age[t]
        /\ event_bits[t] = 1 => preset[t] <= head[t] + age[t]

\* A timer that was started expires, or the program stops it, unless somebody
\* sets the clock chip again and again.
TimersExpire ==
    (<>[][~(CmdSetNewRtcValue \/ plc_set_word_2_rtc)]_vars) =>
        \A t \in Timer : enable_bits[t] = 1 ~> enable_bits[t] = 0 \/ event_bits[t] = 1

=============================================================================
