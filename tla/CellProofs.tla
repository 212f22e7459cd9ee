----------------------------- MODULE CellProofs -----------------------------
(***************************************************************************)
(* The timers and counters of PlcScan: what their events, counts and       *)
(* enable bits say of each other, for every program and every host         *)
(* (TimerEventMeansExpired, StoppedTimerClear, CounterEventExact).         *)
(***************************************************************************)
EXTENDS PlcScanProofs

\* Timers and counters are no relays a program or a host can set freely.
LEMMA CellsApart ==
    /\ Timer \cap COUNTER = {}
    /\ Timer \cap Settable = {}
    /\ COUNTER \cap Settable = {}
    /\ Timer \cap IO_INPUT = {}
    /\ COUNTER \cap IO_INPUT = {}
    /\ (Timer \cup COUNTER) \cap (AUXI_HOLDRELAY \cup SPECIAL_RELAY) = {}
    /\ Timer \subseteq Relay
    /\ COUNTER \subseteq Relay
  BY ScanAssumption, RelayFacts

\* The actions that change neither a timer nor a counter.
CellsKept == UNCHANGED <<counter, enable_bits>>
             /\ \A c \in Timer \cup COUNTER : bits'[c] = bits[c]

\* A write as cells see it: a timer is left alone, and a counter is cleared
\* with its event or left alone too.
CellsWritten ==
    /\ UNCHANGED enable_bits
    /\ \A t \in Timer : bits'[t] = bits[t] /\ counter'[t] = counter[t]
    /\ \A c \in COUNTER : \/ bits'[c] = bits[c] /\ counter'[c] = counter[c]
                          \/ bits'[c] = 0 /\ counter'[c] = 0

LEMMA WriteCells ==
    ASSUME TypeOK, NEW f, \A a \in DOMAIN f : f[a] \in Bit, set_bitvals(f),
           UNCHANGED enable_bits
    PROVE  CellsWritten
  <1>1. \A t \in Timer : bits'[t] = bits[t] /\ counter'[t] = counter[t]
    BY CellsApart DEF set_bitvals, Accepts, CountAfter
  <1>2. \A c \in COUNTER : \/ bits'[c] = bits[c] /\ counter'[c] = counter[c]
                           \/ bits'[c] = 0 /\ counter'[c] = 0
    <2> TAKE c \in COUNTER
    <2>1. CASE c \in DOMAIN f /\ f[c] = 0
      BY <2>1, CellsApart DEF set_bitvals, Accepts, CountAfter
    <2>2. CASE ~(c \in DOMAIN f /\ f[c] = 0)
      BY <2>2, CellsApart DEF set_bitvals, Accepts, CountAfter
    <2>3. QED
      BY <2>1, <2>2
  <1>3. QED
    BY <1>1, <1>2 DEF CellsWritten

LEMMA WriteOneCell ==
    ASSUME TypeOK, NEW a, NEW v \in Bit, set_bitval(a, v), UNCHANGED enable_bits
    PROVE  CellsWritten
  <1> DEFINE f == [x \in {a} |-> v]
  <1>1. set_bitvals(f)
    BY DEF set_bitval
  <1>2. \A x \in DOMAIN f : f[x] \in Bit
    OBVIOUS
  <1> HIDE DEF f
  <1>3. QED
    BY <1>1, <1>2, WriteCells

LEMMA KeptIsWritten == ASSUME CellsKept PROVE CellsWritten
  BY DEF CellsKept, CellsWritten

-----------------------------------------------------------------------------
(* The shape of a step, as the cells see it *)

\* Only OUTT, OUTC, the timers' own step and a restart do more than write.
CellStep ==
    \/ CellsWritten
    \/ handle_plc_out_t
    \/ handle_plc_out_c
    \/ timing_cell_prcess
    \/ PlcInit

LEMMA ExecuteCells ==
    ASSUME TypeOK, Execute
    PROVE  CellsWritten \/ handle_plc_out_t \/ handle_plc_out_c
  <1>1. CASE \/ handle_plc_logic \/ handle_plc_edge \/ handle_plc_mps
             \/ handle_plc_mrd_mpp \/ handle_plc_jmp \/ EnterLoop
             \/ handle_plc_end \/ handle_plc_unknown
    BY <1>1, KeptIsWritten DEF handle_plc_logic, handle_plc_edge, handle_plc_mps,
       handle_plc_mrd_mpp, handle_plc_jmp, EnterLoop, handle_plc_end,
       handle_plc_unknown, relayVars, cellVars, CellsKept
  <1>2. CASE handle_plc_out
    <2>1. UNCHANGED enable_bits
      BY <1>2 DEF handle_plc_out, cellVars
    <2>2. CASE Ins.op # "OUT" /\ bit_acc = 0
      BY <1>2, <2>1, <2>2, KeptIsWritten DEF handle_plc_out, relayVars, CellsKept
    <2>3. CASE ~(Ins.op # "OUT" /\ bit_acc = 0)
      <3> DEFINE v == CASE Ins.op = "OUT" -> bit_acc
                        [] Ins.op = "SET" -> 1
                        [] Ins.op = "RST" -> 0
                        [] Ins.op = "SEI" -> Not(get_bitval(Ins.a))
      <3>1. set_bitval(Ins.a, v)
        BY <1>2, <2>3 DEF handle_plc_out
      <3>2. Ins.op \in {"OUT", "SET", "RST", "SEI"}
        BY <1>2 DEF handle_plc_out, Executing
      <3>3. bit_acc \in Bit /\ Not(get_bitval(Ins.a)) \in Bit /\ 0 \in Bit /\ 1 \in Bit
        BY ReadType, BitOperations DEF TypeOK, Bit
      <3>4. v \in Bit
        BY <3>2, <3>3
      <3> HIDE DEF v
      <3>5. QED
        BY <2>1, <3>1, <3>4, WriteOneCell
    <2>4. QED
      BY <2>2, <2>3
  <1>3. CASE handle_plc_compare_zone
    <2> DEFINE f == OneHot(Ins.b, CompareZone(Ins))
    <2>1. set_bitvals(f) /\ UNCHANGED enable_bits
      BY <1>3 DEF handle_plc_compare_zone, cellVars
    <2>2. \A a \in DOMAIN f : f[a] \in Bit
      BY DEF OneHot, Truth, Bit
    <2> HIDE DEF f
    <2>3. QED
      BY <2>1, <2>2, WriteCells
  <1>4. CASE handle_plc_compare
    <2> DEFINE v == Truth(CompareHolds(Ins))
    <2>1. set_bitval(Ins.b, v) /\ UNCHANGED enable_bits
      BY <1>4 DEF handle_plc_compare, cellVars
    <2>2. v \in Bit
      BY DEF Truth, Bit
    <2> HIDE DEF v
    <2>3. QED
      BY <2>1, <2>2, WriteOneCell
  <1>5. ASSUME NEW a, NEW v \in Bit, LoopBody(a, v) \/ LeaveLoop, UNCHANGED cellVars
        PROVE  CellsWritten
    <2>1. CASE LoopBody(a, v)
      BY <1>5, <2>1, WriteOneCell DEF LoopBody, cellVars
    <2>2. CASE LeaveLoop
      BY <1>5, <2>2, KeptIsWritten DEF LeaveLoop, relayVars, cellVars, CellsKept
    <2>3. QED
      BY <1>5, <2>1, <2>2
  <1>6. CASE handle_plc_bmov
    <2> DEFINE a == Offset(Ins.a, loop_i)
               v == get_bitval(Offset(Ins.b, loop_i))
    <2>1. (LoopBody(a, v) \/ LeaveLoop) /\ UNCHANGED cellVars
      BY <1>6 DEF handle_plc_bmov
    <2>2. v \in Bit
      BY ReadType
    <2> HIDE DEF a, v
    <2>3. QED
      BY <1>5, <2>1, <2>2
  <1>7. CASE handle_plc_zrst
    <2>1. (LoopBody(loop_i, 0) \/ LeaveLoop) /\ UNCHANGED cellVars
      BY <1>7 DEF handle_plc_zrst
    <2>2. 0 \in Bit
      BY DEF Bit
    <2>3. QED
      BY <1>5, <2>1, <2>2
  <1>8. QED
    BY <1>1, <1>2, <1>3, <1>4, <1>6, <1>7 DEF Execute

LEMMA ScanCells ==
    ASSUME \/ plc_timing_tick_process \/ PlcProcess_begin \/ PlcProcess_finish
           \/ RtcRamWrite \/ RtcRamWrite_end
    PROVE  CellsWritten
  <1>1. CASE PlcProcess_begin
    <2>1. \A c \in Timer \cup COUNTER : bits'[c] = bits[c]
      BY <1>1, CellsApart DEF PlcProcess_begin
    <2>2. QED
      BY <1>1, <2>1, KeptIsWritten DEF PlcProcess_begin, cellVars, CellsKept
  <1>2. CASE \/ plc_timing_tick_process \/ PlcProcess_finish \/ RtcRamWrite
             \/ RtcRamWrite_end
    BY <1>2, KeptIsWritten DEF plc_timing_tick_process, PlcProcess_finish, RtcRamWrite,
       RtcRamWrite_end, relayVars, cellVars, CellsKept
  <1>3. QED
    BY <1>1, <1>2

LEMMA HostCells == ASSUME TypeOK, Host PROVE CellsWritten
  <1>1. ASSUME NEW f, \A a \in DOMAIN f : f[a] \in Bit, HostSets(f) PROVE CellsWritten
    BY <1>1, WriteCells DEF HostSets, cellVars
  <1>2. CASE digital_write
    BY <1>1, <1>2 DEF digital_write
  <1>3. CASE io_out_convert_bits
    <2>1. PICK A \in HostRanges :
              A \subseteq AUXI_RELAY /\ HostSets([a \in A |-> Not(bits[a])])
      BY <1>3 DEF io_out_convert_bits
    <2>2. \A a \in A : Not(bits[a]) \in Bit
      BY <2>1, RelayFacts, BitOperations DEF TypeOK
    <2>3. QED
      BY <1>1, <2>1, <2>2
  <1>4. CASE CmdPlcWrite \/ CmdWriteRegister
    BY <1>4, KeptIsWritten DEF CmdPlcWrite, CmdWriteRegister, relayVars, cellVars,
       CellsKept
  <1>5. QED
    BY <1>2, <1>3, <1>4 DEF Host

LEMMA StepCells == ASSUME TypeOK, [Next]_vars PROVE CellStep
  <1>1. CASE UNCHANGED vars
    BY <1>1, KeptIsWritten DEF vars, relayVars, cellVars, CellsKept, CellStep
  <1>2. QED
    BY <1>1, ExecuteCells, ScanCells, HostCells DEF Next, MainLoop, CellStep

-----------------------------------------------------------------------------
(* Timers *)

\* What OUTT does: it starts a timer that does not run, stops one, or nothing.
LEMMA OutTCells ==
    ASSUME TypeOK, handle_plc_out_t
    PROVE  /\ \A t \in Timer : bits'[t] = 1 => bits[t] = 1 /\ counter'[t] = counter[t]
           /\ \A c \in COUNTER : bits'[c] = bits[c] /\ counter'[c] = counter[c]
           /\ phase' \in {"run", "finish"}
  <1>1. phase' \in {"run", "finish"}
    BY DEF handle_plc_out_t, Advance, StopAt
  <1>2. CASE Ins.a \in Timer /\ bit_acc = 1
    <2>1. timing_cell_start(Ins.a, Ins.k)
      BY <1>2 DEF handle_plc_out_t
    <2>2. CASE enable_bits[Ins.a] = 1
      BY <1>1, <2>1, <2>2 DEF timing_cell_start
    <2>3. CASE enable_bits[Ins.a] # 1
      <3>1. /\ counter' = [counter EXCEPT ![Ins.a] = Ins.k]
            /\ bits' = [bits EXCEPT ![Ins.a] = 0]
        BY <2>1, <2>3 DEF timing_cell_start
      <3>2. Ins.a \in Relay /\ Ins.a \notin COUNTER
        BY <1>2, CellsApart
      <3>3. \A t \in Timer : bits'[t] = 1 => t # Ins.a
        BY <3>1, <3>2 DEF TypeOK
      <3>4. QED
        BY <1>1, <3>1, <3>2, <3>3, CellsApart DEF TypeOK
    <2>4. QED
      BY <2>2, <2>3
  <1>3. CASE ~(Ins.a \in Timer /\ bit_acc = 1)
    BY <1>1, <1>3 DEF handle_plc_out_t, timing_cell_stop
  <1>4. QED
    BY <1>2, <1>3

\* OUTC leaves timers alone.
LEMMA OutCTimers ==
    ASSUME TypeOK, handle_plc_out_c
    PROVE  /\ \A t \in Timer : bits'[t] = bits[t] /\ counter'[t] = counter[t]
           /\ phase' \in {"run", "finish"}
  <1>1. phase' \in {"run", "finish"}
    BY DEF handle_plc_out_c, Advance, StopAt
  <1>2. CASE Ins.a \in COUNTER
    <2>1. \A t \in Timer : t # Ins.a
      BY <1>2, CellsApart
    <2>2. QED
      BY <1>1, <1>2, <2>1, CellsApart DEF handle_plc_out_c, TypeOK
  <1>3. CASE Ins.a \notin COUNTER
    BY <1>1, <1>3 DEF handle_plc_out_c
  <1>4. QED
    BY <1>2, <1>3

\* A restart clears every cell.
LEMMA RestartCells ==
    ASSUME PlcInit
    PROVE  \A c \in Timer \cup COUNTER : bits'[c] = 0 /\ counter'[c] = 0
  <1>1. PICK pins : bits' = [PowerOnRelays(pins) EXCEPT ![SPECIAL_RELAY_BASE] = 1]
    BY DEF PlcInit
  <1>2. \A c \in Timer \cup COUNTER : c # SPECIAL_RELAY_BASE
    BY ScanAssumption DEF Settable
  <1>3. \A c \in Timer \cup COUNTER :
           PowerOnRelays(pins)[c] = 0 /\ c \in DOMAIN PowerOnRelays(pins)
    BY CellsApart DEF PowerOnRelays
  <1>4. \A c \in Timer \cup COUNTER : bits'[c] = 0
    BY <1>1, <1>2, <1>3
  <1>5. QED
    BY <1>4 DEF PlcInit

\* The timers' own step.
LEMMA TimingCells ==
    ASSUME TypeOK, timing_cell_prcess
    PROVE  /\ \A t \in Timer :
                  /\ bits'[t] = CellEvent(enable_bits[t], counter[t], bits[t], Credit(t))
                  /\ counter'[t] = CellCounter(enable_bits[t], counter[t], bits[t], Credit(t))
           /\ \A c \in COUNTER : bits'[c] = bits[c] /\ counter'[c] = counter[c]
           /\ enable_bits' = enable_bits
           /\ phase' = "idle"
  BY CellsApart DEF timing_cell_prcess, TimerEvents, TimerCounts, cellVars

LEMMA ExpiredNext ==
    TypeOK /\ TimerEventMeansExpired /\ [Next]_vars => TimerEventMeansExpired'
  <1> SUFFICES ASSUME TypeOK, TimerEventMeansExpired, [Next]_vars
               PROVE  TimerEventMeansExpired'
    OBVIOUS
  <1> USE DEF TimerEventMeansExpired
  <1>1. CASE CellsWritten
    BY <1>1 DEF CellsWritten
  <1>2. CASE handle_plc_out_t
    BY <1>2, OutTCells
  <1>3. CASE handle_plc_out_c
    BY <1>3, OutCTimers
  <1>4. CASE timing_cell_prcess
    <2> SUFFICES ASSUME NEW t \in Timer, bits'[t] = 1 PROVE counter'[t] = 0
      OBVIOUS
    <2>1. CellEvent(enable_bits[t], counter[t], bits[t], Credit(t)) = 1
      BY <1>4, TimingCells
    <2>2. enable_bits[t] \in {0, 1} /\ counter[t] \in Nat /\ Credit(t) \in Nat
      BY DEF TypeOK, Bit, Credit
    <2>3. CellCounter(enable_bits[t], counter[t], bits[t], Credit(t)) = 0
      BY <2>1, <2>2 DEF CellEvent, CellCounter, Counting
    <2>4. QED
      BY <1>4, <2>3, TimingCells
  <1>5. CASE PlcInit
    BY <1>5, RestartCells
  <1>6. QED
    BY <1>1, <1>2, <1>3, <1>4, <1>5, StepCells DEF CellStep

\* A program never sees the event of a timer that has time left.
THEOREM EventsMeanExpiry == Spec => []TimerEventMeansExpired
  <1>1. Init => TimerEventMeansExpired
    BY DEF Init, TimerEventMeansExpired
  <1>2. QED
    BY <1>1, ExpiredNext, TypeCorrect, PTL DEF Spec

\* Between two scans only a write or a restart reaches a timer.
LEMMA StoppedNext == TypeOK /\ StoppedTimerClear /\ [Next]_vars => StoppedTimerClear'
  <1> SUFFICES ASSUME TypeOK, StoppedTimerClear, [Next]_vars PROVE StoppedTimerClear'
    OBVIOUS
  <1> USE DEF StoppedTimerClear
  <1>1. CASE timing_cell_prcess
    <2>1. \A t \in Timer : enable_bits[t] = 0 =>
              /\ CellEvent(enable_bits[t], counter[t], bits[t], Credit(t)) = 0
              /\ CellCounter(enable_bits[t], counter[t], bits[t], Credit(t)) = 0
      BY DEF CellEvent, CellCounter, Counting
    <2>2. QED
      BY <1>1, <2>1, TimingCells
  <1>2. CASE PlcInit
    BY <1>2, RestartCells
  <1>3. CASE Host \/ plc_timing_tick_process
    <2>1. CellsWritten
      BY <1>3, HostCells, ScanCells
    <2>2. phase \in {"idle", "ticked"}
      BY <1>3 DEF Host, digital_write, io_out_convert_bits, HostSets, CmdPlcWrite,
         CmdWriteRegister, plc_timing_tick_process
    <2>3. QED
      BY <2>1, <2>2 DEF CellsWritten
  <1>4. CASE Execute
    <2>1. phase' \notin {"idle", "ticked"}
      BY <1>4 DEF Execute, handle_plc_logic, handle_plc_edge, handle_plc_mps,
         handle_plc_mrd_mpp, handle_plc_out, handle_plc_out_t, handle_plc_out_c,
         handle_plc_compare_zone, handle_plc_compare, handle_plc_jmp, EnterLoop,
         handle_plc_bmov, handle_plc_zrst, handle_plc_end, handle_plc_unknown,
         Executing, Advance, StopAt, LoopBody, LeaveLoop
    <2>2. QED
      BY <2>1
  <1>5. CASE \/ PlcProcess_begin \/ PlcProcess_finish \/ RtcRamWrite
             \/ RtcRamWrite_end
    <2>1. phase' \notin {"idle", "ticked"}
      BY <1>5 DEF PlcProcess_begin, PlcProcess_finish, RtcRamWrite, RtcRamWrite_end
    <2>2. QED
      BY <2>1
  <1>6. CASE UNCHANGED vars
    BY <1>6 DEF vars, relayVars, cellVars, ctlVars
  <1>7. QED
    BY <1>1, <1>2, <1>3, <1>4, <1>5, <1>6 DEF Next, MainLoop

\* Whatever a scan did with a timer, one that is off when the next scan begins
\* has neither a count nor an event.
THEOREM StoppedTimersClear == Spec => []StoppedTimerClear
  <1>1. Init => StoppedTimerClear
    BY DEF Init, StoppedTimerClear
  <1>2. QED
    BY <1>1, StoppedNext, TypeCorrect, PTL DEF Spec

-----------------------------------------------------------------------------
(* Counters *)

\* The memory never holds an instruction that no program or download brought
\* along, so that a preset OUTC reads is one of PresetsOf.
RomKnown == \A n \in 0 .. RomSize - 1 : rom[n] \in KnownInstr

CounterInv == TypeOK /\ RomKnown /\ CounterEventExact

LEMMA RomNext == TypeOK /\ RomKnown /\ [Next]_vars => RomKnown'
  <1> SUFFICES ASSUME TypeOK, RomKnown, [Next]_vars PROVE RomKnown'
    OBVIOUS
  <1>1. CASE CmdPlcWrite
    <2>1. PICK d \in Downloads : rom' = [rom EXCEPT ![d[1]] = d[2]]
      BY <1>1 DEF CmdPlcWrite
    <2>2. d[2] \in KnownInstr
      BY DEF KnownInstr
    <2>3. QED
      BY <2>1, <2>2 DEF RomKnown, TypeOK
  <1>2. ASSUME UNCHANGED rom PROVE RomKnown'
    BY <1>2 DEF RomKnown
  <1>3. CASE Execute
    <2>1. UNCHANGED rom
      BY <1>3 DEF Execute, handle_plc_logic, handle_plc_edge, handle_plc_mps,
         handle_plc_mrd_mpp, handle_plc_out, handle_plc_out_t, handle_plc_out_c,
         handle_plc_compare_zone, handle_plc_compare, handle_plc_jmp, EnterLoop,
         handle_plc_bmov, handle_plc_zrst, handle_plc_end, handle_plc_unknown, envVars
    <2>2. QED
      BY <1>2, <2>1
  <1>4. CASE \/ plc_timing_tick_process \/ PlcProcess_begin \/ PlcProcess_finish
             \/ RtcRamWrite \/ RtcRamWrite_end \/ timing_cell_prcess
             \/ digital_write \/ io_out_convert_bits \/ CmdWriteRegister \/ PlcInit
             \/ UNCHANGED vars
    <2>1. UNCHANGED rom
      BY <1>4 DEF plc_timing_tick_process, PlcProcess_begin, PlcProcess_finish,
         RtcRamWrite, RtcRamWrite_end, timing_cell_prcess, digital_write,
         io_out_convert_bits, HostSets, CmdWriteRegister, PlcInit, vars, envVars
    <2>2. QED
      BY <1>2, <2>1
  <1>5. QED
    BY <1>1, <1>3, <1>4 DEF Next, MainLoop, Host

\* Presets are numbers.
LEMMA KnownPresets == \A c : PresetsOf(c) \subseteq Nat
  <1>1. KnownInstr \subseteq Instr
    BY ScanAssumption DEF KnownInstr
  <1>2. \A c : PresetsOf(c) \subseteq {i.k : i \in KnownInstr}
    BY DEF PresetsOf, KnownInstr
  <1>3. \A i \in KnownInstr : i.k \in Nat
    BY <1>1, InstrFields, AddrNat
  <1>4. QED
    BY <1>2, <1>3

\* The preset of the OUTC being executed is known for its counter.
LEMMA PresetKnown ==
    ASSUME TypeOK, RomKnown, handle_plc_out_c
    PROVE  Ins.k \in PresetsOf(Ins.a)
  <1>1. Ins \in KnownInstr /\ Ins.op = "OUTC"
    BY FetchType DEF RomKnown, Ins, handle_plc_out_c, Executing
  <1>2. QED
    BY <1>1 DEF PresetsOf, KnownInstr

\* Counting: the count goes up by one and the event comes with the preset.
LEMMA CountKeeps ==
    ASSUME CounterInv, handle_plc_out_c
    PROVE  CounterEventExact'
  <1> SUFFICES ASSUME NEW c \in COUNTER
               PROVE  /\ bits'[c] = 1 => \E k \in PresetsOf(c) : 0 < k /\ k <= counter'[c]
                      /\ counter'[c] > 0 => \E k \in PresetsOf(c) : counter'[c] <= k
                      /\ counter'[c] > 0 /\ (\A k \in PresetsOf(c) : k <= counter'[c])
                            => bits'[c] = 1
    BY DEF CounterEventExact, PresetsOf
  <1>1. /\ bits[c] = 1 => \E k \in PresetsOf(c) : 0 < k /\ k <= counter[c]
        /\ counter[c] > 0 => \E k \in PresetsOf(c) : counter[c] <= k
        /\ counter[c] > 0 /\ (\A k \in PresetsOf(c) : k <= counter[c]) => bits[c] = 1
    BY DEF CounterInv, CounterEventExact
  <1>2. TypeOK /\ counter[c] \in Nat /\ Ins.k \in Nat /\ c \in Relay
    BY FetchType, InstrFields, AddrNat, CellsApart DEF CounterInv, TypeOK
  <1>3. CASE Ins.a = c /\ Counts(c, Ins.k)
    <2>1. Ins.k \in PresetsOf(c)
      BY <1>3, PresetKnown DEF CounterInv
    <2>2. counter'[c] = counter[c] + 1 /\ counter[c] < Ins.k
      BY <1>2, <1>3 DEF handle_plc_out_c, Counts, TypeOK
    <2>3. CASE counter[c] + 1 = Ins.k
      <3>1. bits'[c] = 1
        BY <1>2, <1>3, <2>3 DEF handle_plc_out_c, TypeOK
      <3>2. QED
        BY <1>2, <2>1, <2>2, <2>3, <3>1
    <2>4. CASE counter[c] + 1 # Ins.k
      <3>1. bits'[c] = bits[c]
        BY <1>2, <1>3, <2>4 DEF handle_plc_out_c
      <3>2. counter'[c] < Ins.k
        BY <1>2, <2>2, <2>4
      <3>3. ASSUME bits[c] = 1 PROVE \E k \in PresetsOf(c) : 0 < k /\ k <= counter'[c]
        <4>1. PICK k \in PresetsOf(c) : 0 < k /\ k <= counter[c]
          BY <1>1, <3>3
        <4>2. k \in Nat
          BY KnownPresets
        <4>3. QED
          BY <1>2, <2>2, <4>1, <4>2
      <3>4. ~(\A k \in PresetsOf(c) : k <= counter'[c])
        BY <1>2, <2>1, <2>2, <3>2
      <3>5. QED
        BY <1>2, <2>1, <2>2, <3>1, <3>2, <3>3, <3>4
    <2>5. QED
      BY <2>3, <2>4
  <1>4. CASE ~(Ins.a = c /\ Counts(c, Ins.k))
    <2>1. counter'[c] = counter[c] /\ bits'[c] = bits[c]
      <3>1. CASE Ins.a = c
        BY <1>4, <3>1 DEF handle_plc_out_c
      <3>2. CASE Ins.a # c
        BY <1>2, <3>2 DEF handle_plc_out_c, TypeOK
      <3>3. QED
        BY <3>1, <3>2
    <2>2. QED
      BY <1>1, <2>1
  <1>5. QED
    BY <1>3, <1>4

LEMMA CounterNext == CounterInv /\ [Next]_vars => CounterInv'
  <1> SUFFICES ASSUME CounterInv, [Next]_vars PROVE CounterInv'
    OBVIOUS
  <1>1. TypeOK' /\ RomKnown' /\ TypeOK
    BY TypeNext, RomNext DEF CounterInv
  <1>2. ASSUME \A c \in COUNTER : \/ bits'[c] = bits[c] /\ counter'[c] = counter[c]
                                  \/ bits'[c] = 0 /\ counter'[c] = 0
        PROVE  CounterEventExact'
    <2> SUFFICES ASSUME NEW c \in COUNTER
                 PROVE  /\ bits'[c] = 1 => \E k \in PresetsOf(c) : 0 < k /\ k <= counter'[c]
                        /\ counter'[c] > 0 => \E k \in PresetsOf(c) : counter'[c] <= k
                        /\ counter'[c] > 0 /\ (\A k \in PresetsOf(c) : k <= counter'[c])
                              => bits'[c] = 1
      BY DEF CounterEventExact, PresetsOf
    <2>1. CASE bits'[c] = bits[c] /\ counter'[c] = counter[c]
      BY <2>1 DEF CounterInv, CounterEventExact
    <2>2. CASE bits'[c] = 0 /\ counter'[c] = 0
      BY <2>2
    <2>3. QED
      BY <1>2, <2>1, <2>2
  <1>3. CounterEventExact'
    <2>1. CASE handle_plc_out_c
      BY <2>1, CountKeeps
    <2>2. CASE CellsWritten
      BY <1>2, <2>2 DEF CellsWritten
    <2>3. CASE handle_plc_out_t
      BY <1>1, <1>2, <2>3, OutTCells
    <2>4. CASE timing_cell_prcess
      BY <1>1, <1>2, <2>4, TimingCells
    <2>5. CASE PlcInit
      BY <1>2, <2>5, RestartCells
    <2>6. QED
      BY <1>1, <2>1, <2>2, <2>3, <2>4, <2>5, StepCells DEF CellStep
  <1>4. QED
    BY <1>1, <1>3 DEF CounterInv

\* A counter's event and its count agree, whatever programs count with it.
THEOREM CountersExact == Spec => []CounterEventExact
  <1>1. Init => CounterInv
    <2> SUFFICES ASSUME Init PROVE CounterInv
      OBVIOUS
    <2>1. RomKnown
      <3>1. rom \in Programs /\ Programs \subseteq [0 .. RomSize - 1 -> Instr]
        BY ScanAssumption DEF Init
      <3>2. \A n \in 0 .. RomSize - 1 : rom[n] \in {rom[m] : m \in DOMAIN rom}
        BY <3>1
      <3>3. QED
        BY <3>1, <3>2 DEF RomKnown, KnownInstr
    <2>2. CounterEventExact
      BY CellsApart DEF Init, CounterEventExact
    <2>3. QED
      BY <2>1, <2>2, InitType DEF CounterInv
  <1>2. CounterInv => CounterEventExact
    BY DEF CounterInv
  <1>3. QED
    BY <1>1, <1>2, CounterNext, PTL DEF Spec

=============================================================================
