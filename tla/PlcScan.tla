------------------------------ MODULE PlcScan -------------------------------
(***************************************************************************)
(* The scan cycle of the PLC: PlcInit, plc_timing_tick_process,            *)
(* PlcProcess with one action per instruction, and what the rest of the    *)
(* main loop (the network commands) does to the PLC's memory between two   *)
(* scans.  Power may fail before any step; the DS1302's RAM and the        *)
(* program EEPROM survive it.                                              *)
(*                                                                         *)
(* The relay arrays of the code (inputs_new, output_new, auxi_relays,      *)
(* hold_register_map, speicial_relays and the event bits of timers and     *)
(* counters) are one function "bits" on bit addresses, the arrays ending   *)
(* in _last one function "bits_last".  A program is a function from cells  *)
(* to instructions: the byte length of an instruction is abstracted to one *)
(* cell, so plc_command_index counts instructions.                         *)
(***************************************************************************)
EXTENDS Naturals, Sequences, PlcCompare, TimingCell

CONSTANTS
    WordSpan,          \* 2^16: the values of an unsigned int of the PIC18
    IO_INPUT,          \* the bit addresses of each array (plc_prase.h)
    IO_OUTPUT,
    AUXI_RELAY,
    AUXI_HOLDRELAY,
    SPECIAL_RELAY,
    SPECIAL_RELAY_BASE, \* the first of the special relays
    TIMING100MS,
    TIMING1S,
    COUNTER,
    HoldBytes,         \* bytes of hold_register_map
    HoldByte,          \* the byte each holding relay lies in
    BIT_STACK_LEVEL,   \* 32
    SpSpan,            \* 2^8: the values of the unsigned char bit_stack_sp
    RomSize,           \* the cells that fit before the last 32 bytes of the store
    Programs,          \* the programs the EEPROM may hold at power-on
    Downloads,         \* pairs of a cell and the instruction a host may put there
    RegFiles,          \* the contents the byte registers may take
    HostRanges,        \* the ranges of bit addresses host commands write
    HostRamImages      \* what a host may write to the DS1302's RAM directly

Bit    == {0, 1}
Addr   == 0 .. WordSpan - 1
Timer  == TIMING100MS \cup TIMING1S
Settable == IO_OUTPUT \cup AUXI_RELAY \cup AUXI_HOLDRELAY \cup SPECIAL_RELAY
Relay  == IO_INPUT \cup Settable \cup Timer \cup COUNTER

OpCodes == { "NONE", "LD", "LDKH", "LDI", "OUT", "AND", "ANI", "OR", "ORI",
             "LDP", "LDF", "ANDP", "ANDF", "ORP", "ORF", "MPS", "MRD", "MPP",
             "SET", "RST", "INV", "OUTT", "OUTC", "ZRST",
             "BCMP", "BCMPE", "BCMPL", "BCMPB", "BACMPL", "BACMPE", "BACMPB",
             "BZCP", "BZCPS", "BAZCP", "BMOV", "NETRB", "LDKL", "SEI",
             "JMP", "JMPS", "END", "UNKNOWN" }

\* a: the first bit or register address; b: the second address; k: a preset,
\* a step, a count or the end of a range; ks, kr: the bytes compared with.
Instr == [op : OpCodes, a : Addr, b : Addr, k : Addr,
          ks : Seq(Nat), kr : Seq(Nat)]

ASSUME ScanAssumption ==
    /\ WordSpan \in Nat \ {0}
    /\ Relay \subseteq Addr
    /\ IO_INPUT \cap (Settable \cup Timer \cup COUNTER) = {}
    /\ IO_OUTPUT \cap (AUXI_RELAY \cup AUXI_HOLDRELAY \cup SPECIAL_RELAY) = {}
    /\ AUXI_HOLDRELAY \cap (AUXI_RELAY \cup SPECIAL_RELAY) = {}
    /\ Settable \cap (Timer \cup COUNTER) = {}
    /\ Timer \cap COUNTER = {}
    /\ SPECIAL_RELAY_BASE \in SPECIAL_RELAY
    /\ TIMING100MS \cap TIMING1S = {}
    /\ HoldBytes \in Nat
    /\ HoldByte \in [AUXI_HOLDRELAY -> 0 .. HoldBytes - 1]
    /\ BIT_STACK_LEVEL \in Nat \ {0}
    /\ SpSpan \in Nat \ {0}
    /\ BIT_STACK_LEVEL < SpSpan
    /\ RomSize \in 1 .. WordSpan
    /\ Programs \subseteq [0 .. RomSize - 1 -> Instr]
    /\ Programs # {}
    /\ Downloads \subseteq (0 .. RomSize - 1) \X Instr
    /\ RegFiles # {}
    /\ \A r \in RegFiles : \A a \in DOMAIN r : r[a] \in Nat
    /\ HostRanges \subseteq SUBSET Addr
    /\ HostRamImages \subseteq [AUXI_HOLDRELAY -> Bit]

VARIABLES
    bits,                  \* the relays as the program sees them now
    bits_last,             \* the relays as they were when the last scan ended
    counter,               \* the counts of timers and counters
    enable_bits,           \* the timers that run
    last_trig_bits,        \* the level each counter was last driven with
    time100ms_come_flag,   \* pulses the timers have not been credited with
    time1s_come_flag,
    hold_durty,
    rtc_ram,               \* the DS1302's battery-backed copy of the holding relays
    io_out,                \* what the relay drivers show
    bit_acc, bit_stack, bit_stack_sp,
    plc_command_index,
    plc_cpu_stop,
    phase,                 \* where the main loop is
    loop_i,                \* the loop variable of BMOV, ZRST or RtcRamWrite
    rom,                   \* the program in EEPROM
    regs,                  \* the byte registers the comparisons read
    ended,                 \* history: the relays as the program of the last scan left them
    touched,               \* history: relays written since the last scan by others
    ram_foreign            \* history: a host wrote the DS1302's RAM directly

relayVars == <<bits, counter, hold_durty>>
cellVars  == <<enable_bits, last_trig_bits>>
flagVars  == <<time100ms_come_flag, time1s_come_flag>>
latchVars == <<bits_last, io_out, rtc_ram>>
accVars   == <<bit_acc, bit_stack, bit_stack_sp>>
ctlVars   == <<plc_command_index, plc_cpu_stop, phase, loop_i>>
envVars   == <<rom, regs>>
histVars  == <<ended, touched, ram_foreign>>
vars == <<relayVars, cellVars, flagVars, latchVars, accVars, ctlVars, envVars,
          histVars>>

Phases == {"off", "idle", "ticked", "run", "bmov", "zrst", "finish", "save", "timing"}

-----------------------------------------------------------------------------
(* Bit access *)

get_bitval(a)      == IF a \in Relay THEN bits[a] ELSE 0
get_last_bitval(a) == IF a \in Relay THEN bits_last[a] ELSE 0

Not(v)    == 1 - v
And(u, v) == IF u = 1 THEN v ELSE 0
Or(u, v)  == IF u = 1 THEN 1 ELSE v
Truth(p)  == IF p THEN 1 ELSE 0

\* Inputs and timer events ignore a write; a counter can only be cleared.
Accepts(a, v) == a \in Settable \/ (a \in COUNTER /\ v = 0)

\* Marks the image dirty only when a holding relay is set, not when one is reset.
DirtiesIfSet(f) == \E h \in DOMAIN f \cap AUXI_HOLDRELAY : f[h] = 1
Dirties(f) == DOMAIN f \cap AUXI_HOLDRELAY # {}

\* Clears a counter's event and leaves its count.
CountKept(f) == counter
CountAfter(f) ==
    [c \in Timer \cup COUNTER |->
        IF c \in COUNTER \cap DOMAIN f /\ f[c] = 0 THEN 0 ELSE counter[c]]

\* set_bitval for every address in the domain of f.
set_bitvals(f) ==
    /\ bits' = [a \in Relay |->
                   IF a \in DOMAIN f /\ Accepts(a, f[a]) THEN f[a] ELSE bits[a]]
    /\ counter' = CountAfter(f)
    /\ hold_durty' = IF Dirties(f) THEN 1 ELSE hold_durty

set_bitval(a, v) == set_bitvals([x \in {a} |-> v])


-----------------------------------------------------------------------------
(* Fetch and control *)

\* read_next_plc_code: an index too close to the end of the store restarts
\* the program at its first instruction.
At  == IF plc_command_index < RomSize THEN plc_command_index ELSE 0
Ins == rom[At]

Executing(ops) == phase = "run" /\ Ins.op \in ops

Offset(a, i) == (a + i) % WordSpan

\* The handler adds the instruction's length; "goto next_plc_command".
Advance ==
    /\ plc_command_index' = Offset(At, 1)
    /\ phase' = "run"
    /\ UNCHANGED <<plc_cpu_stop, loop_i>>

\* handle_plc_command_error, then "goto plc_command_finished".
StopAt(index) ==
    /\ plc_command_index' = index
    /\ plc_cpu_stop' = 1
    /\ phase' = "finish"
    /\ UNCHANGED loop_i

-----------------------------------------------------------------------------
(* Instructions *)

Rising(a)  == Truth(get_last_bitval(a) = 0 /\ get_bitval(a) = 1)
Falling(a) == Truth(get_last_bitval(a) = 1 /\ get_bitval(a) = 0)

\* The value an instruction that only computes leaves in bit_acc.
Logic(ins) ==
    LET v == get_bitval(ins.a)
    IN  CASE ins.op = "LD"   -> v
          [] ins.op = "LDI"  -> Not(v)
          [] ins.op = "LDKH" -> 1
          [] ins.op = "LDKL" -> 0
          [] ins.op = "AND"  -> And(bit_acc, v)
          [] ins.op = "ANI"  -> And(bit_acc, Not(v))
          [] ins.op = "OR"   -> Or(bit_acc, v)
          [] ins.op = "ORI"  -> Or(bit_acc, Not(v))
          [] ins.op = "INV"  -> Not(bit_acc)
          [] OTHER           -> bit_acc          \* NONE, NETRB

LogicOps == {"LD", "LDI", "LDKH", "LDKL", "AND", "ANI", "OR", "ORI", "INV",
             "NONE", "NETRB"}

handle_plc_logic ==
    /\ Executing(LogicOps)
    /\ bit_acc' = Logic(Ins)
    /\ Advance
    /\ UNCHANGED <<relayVars, cellVars, flagVars, latchVars, bit_stack,
                   bit_stack_sp, envVars, histVars>>

Edge(ins) ==
    CASE ins.op = "LDP"  -> Rising(ins.a)
      [] ins.op = "LDF"  -> Falling(ins.a)
      [] ins.op = "ANDP" -> And(bit_acc, Rising(ins.a))
      [] ins.op = "ANDF" -> And(bit_acc, Falling(ins.a))
      [] ins.op = "ORP"  -> Or(bit_acc, Rising(ins.a))
      [] ins.op = "ORF"  -> Or(bit_acc, Falling(ins.a))

handle_plc_edge ==
    /\ Executing({"LDP", "LDF", "ANDP", "ANDF", "ORP", "ORF"})
    /\ bit_acc' = Edge(Ins)
    /\ Advance
    /\ UNCHANGED <<relayVars, cellVars, flagVars, latchVars, bit_stack,
                   bit_stack_sp, envVars, histVars>>

\* The bit stack.  There is no underflow check: the pointer is an unsigned
\* char that wraps, and a read past the array finds whatever lies there.
StackRead(sp) == IF sp < BIT_STACK_LEVEL THEN {bit_stack[sp]} ELSE Bit
SpBelowInt(sp) == (sp + WordSpan - 1) % WordSpan     \* as an unsigned int
SpBelow(sp)    == (sp + SpSpan - 1) % SpSpan

handle_plc_mps ==
    /\ Executing({"MPS"})
    /\ IF bit_stack_sp >= BIT_STACK_LEVEL
       THEN StopAt(At) /\ UNCHANGED <<bit_stack, bit_stack_sp>>
       ELSE /\ bit_stack' = [bit_stack EXCEPT ![bit_stack_sp] = bit_acc]
            /\ bit_stack_sp' = bit_stack_sp + 1
            /\ Advance
    /\ UNCHANGED <<relayVars, cellVars, flagVars, latchVars, bit_acc, envVars,
                   histVars>>

handle_plc_mrd_mpp ==
    /\ Executing({"MRD", "MPP"})
    /\ bit_acc' \in StackRead(SpBelow(bit_stack_sp))
    /\ bit_stack_sp' = IF Ins.op = "MPP" THEN SpBelow(bit_stack_sp) ELSE bit_stack_sp
    /\ Advance
    /\ UNCHANGED <<relayVars, cellVars, flagVars, latchVars, bit_stack, envVars,
                   histVars>>

\* OUT writes always; SET, RST and SEI only when bit_acc is 1.
handle_plc_out ==
    /\ Executing({"OUT", "SET", "RST", "SEI"})
    /\ IF Ins.op # "OUT" /\ bit_acc = 0
       THEN UNCHANGED relayVars
       ELSE set_bitval(Ins.a, CASE Ins.op = "OUT" -> bit_acc
                                [] Ins.op = "SET" -> 1
                                [] Ins.op = "RST" -> 0
                                [] Ins.op = "SEI" -> Not(get_bitval(Ins.a)))
    /\ Advance
    /\ UNCHANGED <<cellVars, flagVars, latchVars, accVars, envVars, histVars>>

\* timing_cell_start: a timer that already runs is left alone.
timing_cell_start(t, kval) ==
    IF enable_bits[t] = 1
    THEN UNCHANGED <<bits, counter, enable_bits>>
    ELSE /\ counter' = [counter EXCEPT ![t] = kval]
         /\ enable_bits' = [enable_bits EXCEPT ![t] = 1]
         /\ bits' = [bits EXCEPT ![t] = 0]

\* timing_cell_stop: the event bit stays until timing_cell_prcess.
timing_cell_stop(t) ==
    /\ enable_bits' = [enable_bits EXCEPT ![t] = 0]
    /\ UNCHANGED <<bits, counter>>

handle_plc_out_t ==
    /\ Executing({"OUTT"})
    /\ IF Ins.a \in Timer
       THEN /\ IF bit_acc = 1 THEN timing_cell_start(Ins.a, Ins.k)
                              ELSE timing_cell_stop(Ins.a)
            /\ Advance
       ELSE /\ StopAt(Offset(At, 1))
            /\ UNCHANGED <<bits, counter, enable_bits>>
    /\ UNCHANGED <<hold_durty, last_trig_bits, flagVars, latchVars, accVars,
                   envVars, histVars>>

\* OUTC counts a rising edge of bit_acc while the count is below the preset.
Counts(c, kval) == bit_acc = 1 /\ last_trig_bits[c] = 0 /\ counter[c] < kval

handle_plc_out_c ==
    /\ Executing({"OUTC"})
    /\ IF Ins.a \in COUNTER
       THEN /\ counter' = IF Counts(Ins.a, Ins.k)
                          THEN [counter EXCEPT ![Ins.a] = @ + 1] ELSE counter
            /\ bits' = IF Counts(Ins.a, Ins.k) /\ counter[Ins.a] + 1 = Ins.k
                       THEN [bits EXCEPT ![Ins.a] = 1] ELSE bits
            /\ last_trig_bits' = [last_trig_bits EXCEPT ![Ins.a] = bit_acc]
            /\ Advance
       ELSE /\ StopAt(At)
            /\ UNCHANGED <<bits, counter, last_trig_bits>>
    /\ UNCHANGED <<hold_durty, enable_bits, flagVars, latchVars, accVars,
                   envVars, histVars>>


\* The register operand of a comparison of n bytes.
get_byte_val(a)  == IF a \in DOMAIN regs THEN regs[a] ELSE 0
Operand(base, n) == [i \in 1 .. n |-> get_byte_val(Offset(base, i - 1))]

\* One of three consecutive relays gets the one, the others a zero.
OneHot(out, zone) ==
    [x \in {Offset(out, i) : i \in Zone} |-> Truth(x = Offset(out, zone))]

\* The comparisons with three results.
CompareZone(ins) ==
    CASE ins.op = "BCMP"  -> BcmpZone(get_byte_val(ins.a), ins.ks[1])
      [] ins.op = "BZCP"  -> BzcpZone(get_byte_val(ins.a), ins.ks[1], ins.kr[1])
      [] ins.op = "BAZCP" -> BazcpZone(Operand(ins.a, Len(ins.ks)), ins.ks, ins.kr)

handle_plc_compare_zone ==
    /\ Executing({"BCMP", "BZCP", "BAZCP"})
    /\ set_bitvals(OneHot(Ins.b, CompareZone(Ins)))
    /\ Advance
    /\ UNCHANGED <<cellVars, flagVars, latchVars, accVars, envVars, histVars>>

\* The comparisons with one result, which goes to the relay and to bit_acc.
CompareHolds(ins) ==
    LET rv == Operand(ins.a, Len(ins.ks))
    IN  CASE ins.op \in {"BCMPL", "BACMPL"} -> BacmpLess(rv, ins.ks)
          [] ins.op \in {"BCMPB", "BACMPB"} -> BacmpAbove(rv, ins.ks)
          [] ins.op \in {"BCMPE", "BACMPE"} -> BacmpEqual(rv, ins.ks)
          [] ins.op = "BZCPS" -> BzcpZone(rv[1], ins.ks[1], ins.kr[1]) = 1

handle_plc_compare ==
    /\ Executing({"BCMPL", "BCMPB", "BCMPE", "BACMPL", "BACMPB", "BACMPE", "BZCPS"})
    /\ set_bitval(Ins.b, Truth(CompareHolds(Ins)))
    /\ bit_acc' = Truth(CompareHolds(Ins))
    /\ Advance
    /\ UNCHANGED <<cellVars, flagVars, latchVars, bit_stack, bit_stack_sp,
                   envVars, histVars>>

\* A jump skips Ins.k cells; the addition wraps, so a large step goes back.
JumpLengthNoSelf(ins) == IF ins.op = "JMP" \/ bit_acc = 1 THEN ins.k ELSE 1
JumpLength(ins) == IF ins.op = "JMP" \/ bit_acc = 1 THEN ins.k + 1 ELSE 1

handle_plc_jmp ==
    /\ Executing({"JMP", "JMPS"})
    /\ plc_command_index' = Offset(At, JumpLength(Ins))
    /\ UNCHANGED <<relayVars, cellVars, flagVars, latchVars, accVars,
                   plc_cpu_stop, phase, loop_i, envVars, histVars>>

\* BMOV and ZRST loop over relays, one relay a step.
EnterLoop ==
    /\ phase = "run"
    /\ \/ Ins.op = "BMOV" /\ phase' = "bmov" /\ loop_i' = 0
       \/ Ins.op = "ZRST" /\ phase' = "zrst" /\ loop_i' = Ins.a
    /\ plc_command_index' = At
    /\ UNCHANGED <<relayVars, cellVars, flagVars, latchVars, accVars,
                   plc_cpu_stop, envVars, histVars>>

LeaveLoop ==
    /\ plc_command_index' = Offset(At, 1)
    /\ phase' = "run"
    /\ loop_i' = 0
    /\ UNCHANGED <<relayVars, plc_cpu_stop>>

LoopBody(a, v) ==
    /\ set_bitval(a, v)
    /\ loop_i' = Offset(loop_i, 1)
    /\ UNCHANGED <<plc_command_index, plc_cpu_stop, phase>>

handle_plc_bmov ==
    /\ phase = "bmov"
    /\ IF loop_i < Ins.k
       THEN LoopBody(Offset(Ins.a, loop_i), get_bitval(Offset(Ins.b, loop_i)))
       ELSE LeaveLoop
    /\ UNCHANGED <<cellVars, flagVars, latchVars, accVars, envVars, histVars>>

\* The range is closed: with the largest address as its end the loop
\* condition can never become false.
ZrstContinues(ins) == loop_i <= ins.k

handle_plc_zrst ==
    /\ phase = "zrst"
    /\ IF ZrstContinues(Ins) THEN LoopBody(loop_i, 0) ELSE LeaveLoop
    /\ UNCHANGED <<cellVars, flagVars, latchVars, accVars, envVars, histVars>>

\* END finishes the scan; an opcode the switch does not know stops it.
handle_plc_end ==
    /\ Executing({"END"})
    /\ plc_command_index' = 0
    /\ phase' = "finish"
    /\ UNCHANGED <<relayVars, cellVars, flagVars, latchVars, accVars,
                   plc_cpu_stop, loop_i, envVars, histVars>>

handle_plc_unknown ==
    /\ Executing({"UNKNOWN"})
    /\ StopAt(At)
    /\ UNCHANGED <<relayVars, cellVars, flagVars, latchVars, accVars, envVars,
                   histVars>>

Execute ==
    \/ handle_plc_logic        \/ handle_plc_edge     \/ handle_plc_mps
    \/ handle_plc_mrd_mpp      \/ handle_plc_out      \/ handle_plc_out_t
    \/ handle_plc_out_c        \/ handle_plc_compare_zone
    \/ handle_plc_compare      \/ handle_plc_jmp      \/ EnterLoop
    \/ handle_plc_bmov         \/ handle_plc_zrst     \/ handle_plc_end
    \/ handle_plc_unknown

-----------------------------------------------------------------------------
(* The scan around the program *)

\* One call per turn of the main loop, just before PlcProcess.  Whether a
\* pulse is due is decided by the clock (see PlcTimer).
plc_timing_tick_process ==
    /\ phase = "idle"
    /\ time100ms_come_flag' \in {time100ms_come_flag, time100ms_come_flag + 1}
    /\ time1s_come_flag' \in {time1s_come_flag, time1s_come_flag + 1}
    /\ regs' \in RegFiles
    /\ phase' = "ticked"
    /\ UNCHANGED <<relayVars, cellVars, latchVars, accVars, plc_command_index,
                   plc_cpu_stop, loop_i, rom, histVars>>

\* The head of PlcProcess: the inputs are latched for the whole scan.
PlcProcess_begin ==
    /\ phase = "ticked"
    /\ \E pins \in [IO_INPUT -> Bit] :
           bits' = [a \in Relay |-> IF a \in IO_INPUT THEN pins[a] ELSE bits[a]]
    /\ plc_command_index' = 0
    /\ plc_cpu_stop' = 0
    /\ phase' = "run"
    /\ touched' = {}
    /\ UNCHANGED <<counter, hold_durty, cellVars, flagVars, latchVars, accVars,
                   loop_i, envVars, ended, ram_foreign>>

\* bits_last after a memcpy of the relays of S.
Latched(S) == [a \in Relay |-> IF a \in S THEN bits[a] ELSE bits_last[a]]

ScanRelaysNoAuxi == IO_INPUT \cup IO_OUTPUT \cup SPECIAL_RELAY
ScanRelays       == IO_INPUT \cup IO_OUTPUT \cup AUXI_RELAY \cup SPECIAL_RELAY

RelayImageStale == [y \in IO_OUTPUT |-> bits_last[y]]
RelayImage      == [y \in IO_OUTPUT |-> bits[y]]

\* plc_command_finished: the relays are driven, the images latched, and the
\* dirty flag decides whether the holding relays are written back.
PlcProcess_finish ==
    /\ phase = "finish"
    /\ io_out' = RelayImage
    /\ bits_last' = Latched(ScanRelays)
    /\ hold_durty' = 0
    /\ phase' = IF hold_durty = 1 THEN "save" ELSE "timing"
    /\ loop_i' = 0
    /\ ended' = bits
    /\ UNCHANGED <<bits, counter, cellVars, flagVars, rtc_ram, accVars,
                   plc_command_index, plc_cpu_stop, envVars, touched, ram_foreign>>

\* RtcRamWrite, one byte a step, then the memcpy to hold_register_map_last.
SavesAllButLast == loop_i + 1 < HoldBytes
Saves           == loop_i < HoldBytes

RtcRamWrite ==
    /\ phase = "save"
    /\ Saves
    /\ rtc_ram' = [h \in AUXI_HOLDRELAY |->
                      IF HoldByte[h] = loop_i THEN bits[h] ELSE rtc_ram[h]]
    /\ loop_i' = loop_i + 1
    /\ UNCHANGED <<relayVars, cellVars, flagVars, bits_last, io_out, accVars,
                   plc_command_index, plc_cpu_stop, phase, envVars, histVars>>

RtcRamWrite_end ==
    /\ phase = "save"
    /\ ~Saves
    /\ bits_last' = Latched(AUXI_HOLDRELAY)
    /\ phase' = "timing"
    /\ loop_i' = 0
    /\ ram_foreign' = FALSE
    /\ UNCHANGED <<relayVars, cellVars, flagVars, io_out, rtc_ram, accVars,
                   plc_command_index, plc_cpu_stop, envVars, ended, touched>>

Credit(t) == IF t \in TIMING100MS THEN time100ms_come_flag ELSE time1s_come_flag

TimerEvents ==
    [a \in Relay |-> IF a \in Timer
                     THEN CellEvent(enable_bits[a], counter[a], bits[a], Credit(a))
                     ELSE bits[a]]
TimerCounts ==
    [c \in Timer \cup COUNTER |->
        IF c \in Timer
        THEN CellCounter(enable_bits[c], counter[c], bits[c], Credit(c))
        ELSE counter[c]]

\* The event images after timing_cell_prcess instead of before it.
EventsLatchedAfter ==
    [a \in Relay |-> IF a \in Timer \cup COUNTER THEN TimerEvents[a] ELSE bits_last[a]]
EventsLatched == Latched(Timer \cup COUNTER)

\* The event images are taken before timing_cell_prcess moves the events.
timing_cell_prcess ==
    /\ phase = "timing"
    /\ bits_last' = EventsLatched
    /\ bits' = TimerEvents
    /\ counter' = TimerCounts
    /\ time100ms_come_flag' = 0
    /\ time1s_come_flag' = 0
    /\ phase' = "idle"
    /\ UNCHANGED <<hold_durty, cellVars, io_out, rtc_ram, accVars,
                   plc_command_index, plc_cpu_stop, loop_i, envVars, histVars>>

-----------------------------------------------------------------------------
(* The rest of the main loop: commands that reach the PLC's memory *)

HostSets(f) ==
    /\ phase = "idle"
    /\ set_bitvals(f)
    /\ touched' = touched \cup DOMAIN f
    /\ UNCHANGED <<cellVars, flagVars, latchVars, accVars, ctlVars, envVars,
                   ended, ram_foreign>>

\* SCMD DIGW, and with one relay Modbus ForceSingleCoil.
digital_write == \E A \in HostRanges : \E f \in [A -> Bit] : HostSets(f)

\* CMD_REV_IO_*: toggles auxiliary relays.
io_out_convert_bits ==
    \E A \in HostRanges :
        /\ A \subseteq AUXI_RELAY
        /\ HostSets([a \in A |-> Not(bits[a])])

\* One packet of a program download: it replaces one cell.
CmdPlcWrite ==
    /\ phase = "idle"
    /\ \E d \in Downloads : rom' = [rom EXCEPT ![d[1]] = d[2]]
    /\ UNCHANGED <<relayVars, cellVars, flagVars, latchVars, accVars, ctlVars,
                   regs, histVars>>

\* Register 3 of CmdWriteRegister: n bytes go to the DS1302's RAM and the
\* image hold_register_map is not told.
CmdWriteRegister ==
    /\ phase = "idle"
    /\ \E image \in HostRamImages, n \in 1 .. HoldBytes :
           rtc_ram' = [h \in AUXI_HOLDRELAY |->
                          IF HoldByte[h] < n THEN image[h] ELSE rtc_ram[h]]
    /\ ram_foreign' = TRUE
    /\ UNCHANGED <<relayVars, cellVars, flagVars, bits_last, io_out, accVars,
                   ctlVars, envVars, ended, touched>>

\* Power fails and comes back, or a task calls Reset(): the C start-up code,
\* InitializeBoard and PlcInit.  The first special relay is set, and its image is
\* not: it tells the first scan of the power-on.
PowerOnRelays(pins) ==
    [a \in Relay |-> CASE a \in IO_INPUT       -> pins[a]
                       [] a \in AUXI_HOLDRELAY -> rtc_ram[a]
                       [] OTHER                -> 0]

PlcInit ==
    /\ \E pins \in [IO_INPUT -> Bit] :
         /\ bits' = [PowerOnRelays(pins) EXCEPT ![SPECIAL_RELAY_BASE] = 1]
         /\ bits_last' = PowerOnRelays(pins)
         /\ ended' = PowerOnRelays(pins)
    /\ counter' = [c \in Timer \cup COUNTER |-> 0]
    /\ hold_durty' = 0
    /\ enable_bits' = [t \in Timer |-> 0]
    /\ last_trig_bits' = [c \in COUNTER |-> 0]
    /\ time100ms_come_flag' = 0
    /\ time1s_come_flag' = 0
    /\ io_out' = [y \in IO_OUTPUT |-> 0]
    /\ bit_acc' = 0
    /\ bit_stack' = [i \in 0 .. BIT_STACK_LEVEL - 1 |-> 0]
    /\ bit_stack_sp' = 0
    /\ plc_command_index' = 0
    /\ plc_cpu_stop' = 0
    /\ phase' = "idle"
    /\ loop_i' = 0
    /\ regs' \in RegFiles
    /\ touched' = {SPECIAL_RELAY_BASE}
    /\ ram_foreign' = FALSE
    /\ UNCHANGED <<rtc_ram, rom>>

\* Before power is first applied; the contents of the two stores are given.
Init ==
    /\ bits = [a \in Relay |-> 0]
    /\ bits_last = [a \in Relay |-> 0]
    /\ counter = [c \in Timer \cup COUNTER |-> 0]
    /\ enable_bits = [t \in Timer |-> 0]
    /\ last_trig_bits = [c \in COUNTER |-> 0]
    /\ time100ms_come_flag = 0
    /\ time1s_come_flag = 0
    /\ hold_durty = 0
    /\ rtc_ram \in [AUXI_HOLDRELAY -> Bit]
    /\ io_out = [y \in IO_OUTPUT |-> 0]
    /\ bit_acc = 0
    /\ bit_stack = [i \in 0 .. BIT_STACK_LEVEL - 1 |-> 0]
    /\ bit_stack_sp = 0
    /\ plc_command_index = 0
    /\ plc_cpu_stop = 0
    /\ phase = "off"
    /\ loop_i = 0
    /\ rom \in Programs
    /\ regs \in RegFiles
    /\ ended = [a \in Relay |-> 0]
    /\ touched = {}
    /\ ram_foreign = TRUE

MainLoop ==
    \/ plc_timing_tick_process  \/ PlcProcess_begin  \/ Execute
    \/ PlcProcess_finish        \/ RtcRamWrite       \/ RtcRamWrite_end
    \/ timing_cell_prcess

Host == digital_write \/ io_out_convert_bits \/ CmdPlcWrite \/ CmdWriteRegister

Next == MainLoop \/ Host \/ PlcInit

Spec == Init /\ [][Next]_vars

\* The main loop of MainDemo.c never blocks and calls PlcProcess every turn.
FairSpec == Spec /\ WF_vars(MainLoop)

-----------------------------------------------------------------------------
(* Properties *)

\* Every variable stays in its range.  For bit_stack_sp and loop_i this means
\* that the arithmetic of the code really wraps at the width of its types.
TypeOK ==
    /\ bits \in [Relay -> Bit]
    /\ bits_last \in [Relay -> Bit]
    /\ counter \in [Timer \cup COUNTER -> Nat]
    /\ enable_bits \in [Timer -> Bit]
    /\ last_trig_bits \in [COUNTER -> Bit]
    /\ time100ms_come_flag \in Nat
    /\ time1s_come_flag \in Nat
    /\ hold_durty \in Bit
    /\ rtc_ram \in [AUXI_HOLDRELAY -> Bit]
    /\ io_out \in [IO_OUTPUT -> Bit]
    /\ bit_acc \in Bit
    /\ bit_stack \in [0 .. BIT_STACK_LEVEL - 1 -> Bit]
    /\ bit_stack_sp \in 0 .. SpSpan - 1
    /\ plc_command_index \in Addr
    /\ plc_cpu_stop \in Bit
    /\ phase \in Phases
    /\ loop_i \in Addr \cup 0 .. HoldBytes
    /\ rom \in [0 .. RomSize - 1 -> Instr]
    /\ regs \in RegFiles
    /\ ended \in [Relay -> Bit]
    /\ touched \subseteq Addr
    /\ ram_foreign \in BOOLEAN

\* Between two scans a relay differs from its image only when something other
\* than the program wrote it since: an edge instruction of the next scan then
\* never fires for a change the program itself made in an earlier scan, and
\* never misses one.  PlcProcess must copy every relay array before it returns.
EdgeLatches ==
    phase = "idle" =>
        \A a \in IO_INPUT \cup Settable : bits[a] # bits_last[a] => a \in touched

\* No change of a holding relay is forgotten: while the dirty flag is down
\* the holding relays are those last written to the DS1302 or read from it.
HoldDirtyCovers ==
    hold_durty = 0 /\ phase # "save" =>
        \A h \in AUXI_HOLDRELAY : bits[h] = bits_last[h]

\* What the battery-backed RAM holds is exactly what the PLC believes it
\* holds, and while RtcRamWrite is on its way the bytes already sent are new
\* and the others old: power may fail at any byte and each byte is whole.
\* (A host that wrote that RAM behind the PLC's back is excepted.)
RamHoldsLast ==
    ~ram_foreign =>
        \A h \in AUXI_HOLDRELAY :
            rtc_ram[h] = IF phase = "save" /\ HoldByte[h] < loop_i
                         THEN bits[h] ELSE bits_last[h]

\* The relay drivers show the outputs of the last scan that ended, never one
\* that is still being computed and never what a host wrote since.
RelaysShowLastScan == \A y \in IO_OUTPUT : io_out[y] = bits_last[y]

\* A timer that is not enabled when a scan begins has no time left over and
\* no event, whatever the scan before did with it: it can only start afresh.
StoppedTimerClear ==
    phase \in {"idle", "ticked"} =>
        \A t \in Timer : enable_bits[t] = 0 => counter[t] = 0 /\ bits[t] = 0

\* A timer whose event the program sees has counted down to zero.
TimerEventMeansExpired == \A t \in Timer : bits[t] = 1 => counter[t] = 0

\* The instructions the programs and the downloads bring along, and the
\* presets they ever give the counter c.
KnownInstr == (UNION {{p[n] : n \in DOMAIN p} : p \in Programs}) \cup {d[2] : d \in Downloads}
PresetsOf(c) == {ins.k : ins \in {i \in KnownInstr : i.op = "OUTC" /\ i.a = c}}

\* A counter's event and its count agree: the event is up only when a preset
\* has been reached and the count not cleared since, and it is up once the
\* largest preset has been reached, which the count never passes.
CounterEventExact ==
    \A c \in COUNTER :
        /\ bits[c] = 1 => \E k \in PresetsOf(c) : 0 < k /\ k <= counter[c]
        /\ counter[c] > 0 => \E k \in PresetsOf(c) : counter[c] <= k
        /\ counter[c] > 0 /\ (\A k \in PresetsOf(c) : k <= counter[c]) => bits[c] = 1

\* While a program runs, an edge instruction tells how a relay differs from what
\* the program of the scan before left (and at power-on from the images PlcInit
\* sets up).  So the change of an input, a host's write or the expiry of a timer
\* between two scans is an edge in the very next scan and in no later one, and a
\* change by the program itself only in the scan that makes it.
EdgesSinceLastScan ==
    phase \in {"run", "bmov", "zrst"} =>
        \A a \in Relay : /\ Rising(a)  = 1 <=> ended[a] = 0 /\ bits[a] = 1
                         /\ Falling(a) = 1 <=> ended[a] = 1 /\ bits[a] = 0

\* The holding relays keep the promise of DurableRelays: the copy changes
\* only by a commit that sends the whole image, in order, with no write to the
\* image in between, and every write to the image owes a commit.
Durable == INSTANCE DurableRelays WITH
    Relays <- AUXI_HOLDRELAY, Bytes <- HoldBytes, ByteOf <- HoldByte, Value <- Bit,
    image <- [h \in AUXI_HOLDRELAY |-> bits[h]], copy <- rtc_ram,
    owed <- hold_durty = 1, committing <- phase = "save",
    sent <- IF phase = "save" THEN loop_i ELSE 0, up <- phase # "off"

KeepsHoldingRelays == Durable!Spec

\* Every scan of a program that has an end comes to it (END, or the stop after
\* an error), and the main loop goes on.  The run has only such programs: nothing
\* in PlcProcess ends another.
ScanEnds == phase = "run" ~> phase = "idle"

\* A holding relay that was written reaches the DS1302, unless power fails
\* first and the old value is read back.
DirtyIsSaved == hold_durty = 1 ~> \A h \in AUXI_HOLDRELAY : rtc_ram[h] = bits[h]

=============================================================================
