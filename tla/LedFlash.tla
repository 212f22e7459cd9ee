------------------------------ MODULE LedFlash ------------------------------
(***************************************************************************)
(* The run LED (debug.c).  TaskLedFlash, in the main loop, flashes it;     *)
(* the receive interrupt asks for a counted flash when it has no packet    *)
(* left for a byte (pack_prase_in calls set_led_flash_int), and shares     *)
(* led_work_mode and led_flash_times with the task without a lock.         *)
(***************************************************************************)
EXTENDS Integers

CONSTANTS FlashTimes     \* the counts the interrupt asks for: 4 and 6

ASSUME LedAssumption == FlashTimes \subseteq Nat \ {0}

VARIABLES
    led_work_mode,       \* "onoff", "flash"
    led_flash_times,     \* 0 flashes without end
    lit,                 \* RUN_LED_IO = 0; led_state is FALSE throughout
    LedSm,
    elapsed,             \* the time LedSm waits for is over
    statement,           \* where TaskLedFlash is in its counting branch
    loaded,              \* led_flash_times as the decrement loaded it
    asked,               \* history: the count of the last request, 0 before it
    flashed,             \* history: how often the LED went dark since, at
                         \* most one more than asked
    raced                \* history: that request came between two statements
                         \* of the counting branch

settings == <<led_work_mode, led_flash_times>>
requestHistory == <<asked, flashed, raced>>
ledVars == <<settings, lit, LedSm, elapsed, statement, loaded, requestHistory>>

set_led_flash_int(times) ==
    /\ led_work_mode' = "flash"
    /\ led_flash_times' = times
    /\ asked' = times /\ flashed' = 0
    /\ raced' = (statement # "switch")
    /\ UNCHANGED <<lit, LedSm, elapsed, statement, loaded>>

TimePasses ==
    /\ ~elapsed /\ elapsed' = TRUE
    /\ UNCHANGED <<settings, lit, LedSm, statement, loaded, requestHistory>>

-----------------------------------------------------------------------------
(* TaskLedFlash: the switch is one step, but for the branch that counts *)

Goto(state) == LedSm' = state
AtSwitch(state) == statement = "switch" /\ LedSm = state
Waits == elapsed' = FALSE     \* flash_start_time = TickGet()

LED_HOME ==
    /\ AtSwitch("HOME") /\ Waits /\ Goto("WAIT_NORMAL")
    /\ UNCHANGED <<settings, lit, statement, loaded, requestHistory>>

LED_WAIT_NORMAL ==
    /\ AtSwitch("WAIT_NORMAL") /\ elapsed /\ Goto("ON_OFF")
    /\ UNCHANGED <<settings, lit, elapsed, statement, loaded, requestHistory>>

LED_ON_OFF ==
    /\ AtSwitch("ON_OFF")
    /\ IF led_work_mode = "flash" THEN Goto("FLASH_START") ELSE UNCHANGED LedSm
    /\ lit' = FALSE
    /\ UNCHANGED <<settings, elapsed, statement, loaded, requestHistory>>

LED_FLASH_START ==
    /\ AtSwitch("FLASH_START") /\ Waits /\ Goto("WAIT_OFF")
    /\ lit' = TRUE
    /\ UNCHANGED <<settings, statement, loaded, requestHistory>>

\* Lit: dark when the time is over, and one flash is counted.
LED_FLASH_WAIT_OFF ==
    /\ AtSwitch("WAIT_OFF")
    /\ \/ /\ led_work_mode # "flash" /\ Goto("ON_OFF")
          /\ UNCHANGED <<settings, lit, elapsed, statement, loaded, requestHistory>>
       \/ /\ led_work_mode = "flash" /\ elapsed
          /\ lit' = FALSE
          /\ flashed' = IF flashed > asked \/ asked = 0 THEN flashed ELSE flashed + 1
          /\ statement' = IF led_flash_times = 0 THEN "restart" ELSE "load"
          /\ UNCHANGED <<settings, LedSm, elapsed, loaded, asked, raced>>

\* led_flash_times--, then the test, then the end of a counted flash.
Load ==
    /\ statement = "load"
    /\ loaded' = led_flash_times /\ statement' = "store"
    /\ UNCHANGED <<settings, lit, LedSm, elapsed, requestHistory>>

\* A slip: the flash is not counted.
StoreUncounted ==
    /\ statement = "store"
    /\ statement' = "test"
    /\ UNCHANGED <<settings, lit, LedSm, elapsed, loaded, requestHistory>>

Store ==
    /\ statement = "store"
    /\ led_flash_times' = loaded - 1 /\ statement' = "test"
    /\ UNCHANGED <<led_work_mode, lit, LedSm, elapsed, loaded, requestHistory>>

Test ==
    /\ statement = "test"
    /\ statement' = IF led_flash_times = 0 THEN "finish" ELSE "restart"
    /\ UNCHANGED <<settings, lit, LedSm, elapsed, loaded, requestHistory>>

Finish ==
    /\ statement = "finish"
    /\ led_work_mode' = "onoff" /\ statement' = "restart"
    /\ UNCHANGED <<led_flash_times, lit, LedSm, elapsed, loaded, requestHistory>>

Restart ==
    /\ statement = "restart"
    /\ Waits /\ Goto("WAIT_ON") /\ statement' = "switch"
    /\ UNCHANGED <<settings, lit, loaded, requestHistory>>

LED_FLASH_WAIT_ON ==
    /\ AtSwitch("WAIT_ON")
    /\ \/ /\ led_work_mode # "flash" /\ Goto("ON_OFF")
          /\ UNCHANGED <<lit, elapsed>>
       \/ /\ led_work_mode = "flash" /\ elapsed
          /\ lit' = TRUE /\ Waits /\ Goto("WAIT_OFF")
    /\ UNCHANGED <<settings, statement, loaded, requestHistory>>

TaskLedFlash ==
    \/ LED_HOME \/ LED_WAIT_NORMAL \/ LED_ON_OFF \/ LED_FLASH_START
    \/ LED_FLASH_WAIT_OFF \/ Load \/ Store \/ Test \/ Finish \/ Restart
    \/ LED_FLASH_WAIT_ON

\* main has called set_led_flash(20, 1500, 0).
LedInit ==
    /\ led_work_mode = "flash" /\ led_flash_times = 0
    /\ lit = FALSE /\ LedSm = "HOME" /\ elapsed = FALSE
    /\ statement = "switch" /\ loaded = 0
    /\ asked = 0 /\ flashed = 0 /\ raced = FALSE

Request == \E times \in FlashTimes : set_led_flash_int(times)

LedNext == Request \/ TimePasses \/ TaskLedFlash

LedSpec == LedInit /\ [][LedNext]_ledVars

LedFairSpec == LedSpec /\ WF_ledVars(TimePasses) /\ WF_ledVars(TaskLedFlash)

-----------------------------------------------------------------------------
\* A request that does not come in the middle of the counting is neither
\* lengthened nor cut short: the flashes made and the flashes left are those
\* that were asked for, and none are left when the task stops flashing.
FlashCounted ==
    (asked # 0 /\ ~raced) =>
        /\ statement \in {"switch", "test", "finish", "restart"} =>
               flashed + led_flash_times = asked
        /\ led_work_mode = "onoff" => flashed = asked
=============================================================================
