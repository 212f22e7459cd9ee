------------------------------ MODULE ResetKey ------------------------------
(***************************************************************************)
(* The reset key (ResetTask in debug.c): held for HOLD ticks, it restores  *)
(* the default configuration and restarts the board.  The task is called   *)
(* once per turn of the main loop and sees the key only then; the tick     *)
(* counter wraps.                                                          *)
(***************************************************************************)
EXTENDS Integers

CONSTANTS
    TickSpan,     \* the tick counter wraps at this value
    HOLD,         \* TICK_SECOND*5
    MaxTurn       \* the longest turn of the main loop, in ticks

\* The counter does not come round within the time that the key is held and a
\* turn of the main loop.
ASSUME KeyAssumption ==
    /\ HOLD \in Nat \ {0} /\ MaxTurn \in Nat /\ TickSpan \in Nat
    /\ HOLD + MaxTurn <= TickSpan

VARIABLES
    clock,        \* TickGet()
    IP_CONFIG_IO, \* the key's input: 0 while it is held
    KeySM, StartTime,
    resets,       \* parity of the number of restarts by the key
    turn,         \* ticks since the task's last call
    lows,         \* history: ticks since the first of the latest calls that all
                  \* saw the key held, as far as they reach
    up            \* history: ticks since the restart, as far as they reach

keyVars == <<clock, IP_CONFIG_IO, KeySM, StartTime, resets, turn, lows, up>>

AtLeast == 2 * HOLD + MaxTurn     \* where the histories stop counting
Later(n) == IF n < AtLeast THEN n + 1 ELSE n

Elapsed == (clock - StartTime + TickSpan) % TickSpan     \* TickGet() - StartTime, unsigned

ClockTicks ==
    /\ turn < MaxTurn
    /\ clock' = (clock + 1) % TickSpan
    /\ turn' = turn + 1
    /\ lows' = IF lows = -1 THEN -1 ELSE Later(lows)
    /\ up' = Later(up)
    /\ UNCHANGED <<IP_CONFIG_IO, KeySM, StartTime, resets>>

Key ==
    /\ IP_CONFIG_IO' = 1 - IP_CONFIG_IO
    /\ UNCHANGED <<clock, KeySM, StartTime, resets, turn, lows, up>>

\* What the task would know if it remembered every call.
Sampled ==
    /\ turn' = 0
    /\ lows' = IF IP_CONFIG_IO = 1 THEN -1 ELSE IF lows = -1 THEN 0 ELSE lows

HOME ==
    /\ KeySM = "HOME"
    /\ StartTime' = clock
    /\ KeySM' = "WAIT"
    /\ Sampled
    /\ UNCHANGED <<clock, IP_CONFIG_IO, resets, up>>

WAIT ==
    /\ KeySM = "WAIT"
    /\ KeySM' = IF Elapsed < HOLD THEN "WAIT" ELSE "IDLE"
    /\ Sampled
    /\ UNCHANGED <<clock, IP_CONFIG_IO, StartTime, resets, up>>

IDLE ==
    /\ KeySM = "IDLE"
    /\ \/ IP_CONFIG_IO = 0 /\ StartTime' = clock /\ KeySM' = "RESET_KEY_PUSH_DELAY"
       \/ IP_CONFIG_IO = 1 /\ UNCHANGED <<StartTime, KeySM>>
    /\ Sampled
    /\ UNCHANGED <<clock, IP_CONFIG_IO, resets, up>>

\* A slip: a key that is released does not start the time again.
PushDelayForgets ==
    /\ KeySM = "RESET_KEY_PUSH_DELAY" /\ Elapsed < HOLD
    /\ Sampled
    /\ UNCHANGED <<clock, IP_CONFIG_IO, KeySM, StartTime, resets, up>>

\* A slip: every call starts the time again.
PushDelayRestarts ==
    /\ KeySM = "RESET_KEY_PUSH_DELAY" /\ Elapsed < HOLD
    /\ StartTime' = clock
    /\ KeySM' = IF IP_CONFIG_IO = 1 THEN "IDLE" ELSE KeySM
    /\ Sampled
    /\ UNCHANGED <<clock, IP_CONFIG_IO, resets, up>>

PushDelay ==
    /\ KeySM = "RESET_KEY_PUSH_DELAY" /\ Elapsed < HOLD
    /\ KeySM' = IF IP_CONFIG_IO = 1 THEN "IDLE" ELSE KeySM
    /\ Sampled
    /\ UNCHANGED <<clock, IP_CONFIG_IO, StartTime, resets, up>>

\* ResetToDefaultConfig(); Reset().  The key is not read again.
PushReset ==
    /\ KeySM = "RESET_KEY_PUSH_DELAY" /\ Elapsed >= HOLD
    /\ clock' = 0 /\ StartTime' = 0 /\ KeySM' = "HOME"
    /\ resets' = 1 - resets
    /\ turn' = 0 /\ lows' = -1 /\ up' = 0
    /\ UNCHANGED IP_CONFIG_IO

ResetTask == HOME \/ WAIT \/ IDLE \/ PushDelay \/ PushReset

KeyInit ==
    /\ clock = 0 /\ IP_CONFIG_IO = 1
    /\ KeySM = "HOME" /\ StartTime = 0
    /\ resets = 0
    /\ turn = 0 /\ lows = -1 /\ up = 0

KeyNext == ClockTicks \/ Key \/ ResetTask

KeySpec == KeyInit /\ [][KeyNext]_keyVars

\* Time passes and the main loop goes round.
KeyFairSpec == KeySpec /\ WF_keyVars(ClockTicks) /\ WF_keyVars(ResetTask)

\* The configuration is lost only when, for HOLD ticks, every call of the task
\* but the last saw the key held, and not in the first HOLD ticks after a
\* restart; however late the calls come and wherever the counter wraps.
ResetMeansHeld == [][resets' # resets => lows >= HOLD /\ up >= 2 * HOLD]_keyVars

\* A key that is held for good resets the board again and again.
HeldResets == (<>[](IP_CONFIG_IO = 0)) => []<><<PushReset>>_keyVars
=============================================================================
