--------------------------- MODULE PlcScanProofs ----------------------------
(***************************************************************************)
(* Theorems about PlcScan for every instruction memory, every set of       *)
(* relays and every program: the type invariant, the invariants that tie   *)
(* the relays, their images, the relay drivers and the battery-backed copy *)
(* together, and the implementation of DurableRelays.                      *)
(***************************************************************************)
EXTENDS PlcScan, TLAPS

(* Addresses and the fetch *)

\* Address arithmetic wraps into the address space.
LEMMA OffsetInAddr == \A x, y \in Nat : Offset(x, y) \in Addr
  BY ScanAssumption DEF Offset, Addr

\* Addresses are numbers, so they may be added and compared.
LEMMA AddrNat == Addr \subseteq Nat
  BY ScanAssumption DEF Addr

\* The relays are those a program can set, the inputs, the timers and counters.
LEMMA RelayFacts ==
    /\ Relay \subseteq Addr
    /\ Timer \subseteq Relay
    /\ COUNTER \subseteq Relay
    /\ IO_INPUT \subseteq Relay
    /\ Settable \subseteq Relay
    /\ IO_OUTPUT \subseteq Settable
    /\ AUXI_HOLDRELAY \subseteq Settable
    /\ SPECIAL_RELAY \subseteq Settable
    /\ AUXI_RELAY \subseteq Settable
  BY ScanAssumption DEF Relay, Settable

\* The fetch finds an instruction, whatever plc_command_index is.
LEMMA FetchType ==
    ASSUME TypeOK
    PROVE  /\ At \in 0 .. RomSize - 1
           /\ At \in Nat
           /\ Ins \in Instr
  <1>1. plc_command_index \in Nat
    BY AddrNat DEF TypeOK
  <1>2. At \in 0 .. RomSize - 1
    BY <1>1, ScanAssumption DEF At
  <1>3. At \in Nat
    BY <1>2
  <1>4. Ins \in Instr
    BY <1>2 DEF Ins, TypeOK
  <1>5. QED
    BY <1>2, <1>3, <1>4

\* The fields of an instruction.
LEMMA InstrFields ==
    ASSUME NEW i \in Instr
    PROVE  /\ i.a \in Addr
           /\ i.b \in Addr
           /\ i.k \in Addr
  BY DEF Instr

-----------------------------------------------------------------------------
(* What the building blocks of the actions preserve *)

\* The values the bit operations compute are bits.
LEMMA BitOperations ==
    /\ \A v \in Bit : Not(v) \in Bit
    /\ \A u, v \in Bit : And(u, v) \in Bit /\ Or(u, v) \in Bit
    /\ \A p : Truth(p) \in Bit
  BY DEF Not, And, Or, Truth, Bit

\* Reading a relay or its image gives a bit, also outside the arrays.
LEMMA ReadType ==
    ASSUME TypeOK
    PROVE  \A a : get_bitval(a) \in Bit /\ get_last_bitval(a) \in Bit
  BY DEF TypeOK, get_bitval, get_last_bitval, Bit

\* set_bitval leaves bits and counts, whatever the addresses.
LEMMA WriteType ==
    ASSUME TypeOK, NEW f, \A a \in DOMAIN f : f[a] \in Bit, set_bitvals(f)
    PROVE  /\ bits' \in [Relay -> Bit]
           /\ counter' \in [Timer \cup COUNTER -> Nat]
           /\ hold_durty' \in Bit
  <1>1. bits' \in [Relay -> Bit]
    BY DEF TypeOK, set_bitvals
  <1>2. counter' \in [Timer \cup COUNTER -> Nat]
    BY DEF TypeOK, set_bitvals, CountAfter
  <1>3. hold_durty' \in Bit
    BY DEF TypeOK, set_bitvals, Bit
  <1>4. QED
    BY <1>1, <1>2, <1>3

\* The same for one relay.
LEMMA WriteOneType ==
    ASSUME TypeOK, NEW a, NEW v \in Bit, set_bitval(a, v)
    PROVE  /\ bits' \in [Relay -> Bit]
           /\ counter' \in [Timer \cup COUNTER -> Nat]
           /\ hold_durty' \in Bit
  <1> DEFINE f == [x \in {a} |-> v]
  <1>1. \A x \in DOMAIN f : f[x] \in Bit
    OBVIOUS
  <1>2. set_bitvals(f)
    BY DEF set_bitval
  <1> HIDE DEF f
  <1>3. QED
    BY <1>1, <1>2, WriteType

\* Going on to the next instruction, or stopping at an address.
LEMMA AdvanceType ==
    ASSUME TypeOK, Advance
    PROVE  /\ plc_command_index' \in Addr
           /\ plc_cpu_stop' \in Bit
           /\ phase' \in Phases
           /\ loop_i' \in Addr \cup 0 .. HoldBytes
  <1>1. Offset(At, 1) \in Addr
    BY FetchType, OffsetInAddr
  <1>2. QED
    BY <1>1 DEF Advance, TypeOK, Phases

LEMMA StopType ==
    ASSUME TypeOK, NEW index \in Addr, StopAt(index)
    PROVE  /\ plc_command_index' \in Addr
           /\ plc_cpu_stop' \in Bit
           /\ phase' \in Phases
           /\ loop_i' \in Addr \cup 0 .. HoldBytes
  BY DEF StopAt, TypeOK, Phases, Bit

\* Every cell is an address.
LEMMA AtInAddr == ASSUME TypeOK PROVE At \in Addr /\ Offset(At, 1) \in Addr
  <1>1. At \in 0 .. RomSize - 1
    BY FetchType
  <1>2. At \in Addr
    BY <1>1, ScanAssumption DEF Addr
  <1>3. Offset(At, 1) \in Addr
    BY FetchType, OffsetInAddr
  <1>4. QED
    BY <1>2, <1>3

-----------------------------------------------------------------------------
(* Type correctness *)

\* Before power-on every variable is in its range.
LEMMA InitType == Init => TypeOK
  <1> SUFFICES ASSUME Init PROVE TypeOK
    OBVIOUS
  <1>1. /\ bit_stack_sp \in 0 .. SpSpan - 1
        /\ plc_command_index \in Addr
        /\ loop_i \in Addr \cup 0 .. HoldBytes
    BY ScanAssumption DEF Init, Addr
  <1>2. rom \in [0 .. RomSize - 1 -> Instr] /\ regs \in RegFiles
    BY ScanAssumption DEF Init
  <1>3. QED
    BY <1>1, <1>2 DEF Init, TypeOK, Bit, Phases

\* The instructions that only compute.
LEMMA LogicType == ASSUME TypeOK, handle_plc_logic PROVE TypeOK'
  <1>1. Logic(Ins) \in Bit
    <2>1. get_bitval(Ins.a) \in Bit /\ bit_acc \in Bit
      BY ReadType DEF TypeOK
    <2>2. QED
      BY <2>1, BitOperations, ZenonT(60) DEF Logic, Not, And, Or, Bit
  <1>2. Advance
    BY DEF handle_plc_logic
  <1>3. QED
    BY <1>1, <1>2, AdvanceType DEF handle_plc_logic, TypeOK, relayVars, cellVars,
       flagVars, latchVars, envVars, histVars

LEMMA EdgeType == ASSUME TypeOK, handle_plc_edge PROVE TypeOK'
  <1>1. Edge(Ins) \in Bit
    <2>1. Rising(Ins.a) \in Bit /\ Falling(Ins.a) \in Bit /\ bit_acc \in Bit
      BY DEF Rising, Falling, Truth, Bit, TypeOK
    <2>2. Ins.op \in {"LDP", "LDF", "ANDP", "ANDF", "ORP", "ORF"}
      BY DEF handle_plc_edge, Executing
    <2>3. QED
      BY <2>1, <2>2, BitOperations DEF Edge
  <1>2. Advance
    BY DEF handle_plc_edge
  <1>3. QED
    BY <1>1, <1>2, AdvanceType DEF handle_plc_edge, TypeOK, relayVars, cellVars,
       flagVars, latchVars, envVars, histVars

\* The bit stack: a push stays inside the array, and a pop wraps at the width
\* of the pointer.
LEMMA PushType == ASSUME TypeOK, handle_plc_mps PROVE TypeOK'
  <1>1. CASE bit_stack_sp >= BIT_STACK_LEVEL
    <2>1. StopAt(At) /\ UNCHANGED <<bit_stack, bit_stack_sp>>
      BY <1>1 DEF handle_plc_mps
    <2>2. QED
      BY <2>1, AtInAddr, StopType DEF handle_plc_mps, TypeOK, relayVars, cellVars,
         flagVars, latchVars, envVars, histVars
  <1>2. CASE ~(bit_stack_sp >= BIT_STACK_LEVEL)
    <2>1. /\ bit_stack' = [bit_stack EXCEPT ![bit_stack_sp] = bit_acc]
          /\ bit_stack_sp' = bit_stack_sp + 1
          /\ Advance
      BY <1>2 DEF handle_plc_mps
    <2>2. bit_stack_sp' \in 0 .. SpSpan - 1
      BY <1>2, <2>1, ScanAssumption DEF TypeOK
    <2>3. QED
      BY <2>1, <2>2, AdvanceType DEF handle_plc_mps, TypeOK, relayVars, cellVars,
         flagVars, latchVars, envVars, histVars
  <1>3. QED
    BY <1>1, <1>2

LEMMA PopType == ASSUME TypeOK, handle_plc_mrd_mpp PROVE TypeOK'
  <1>1. SpBelow(bit_stack_sp) \in 0 .. SpSpan - 1
    BY ScanAssumption DEF SpBelow, TypeOK
  <1>2. StackRead(SpBelow(bit_stack_sp)) \subseteq Bit
    <2>1. CASE SpBelow(bit_stack_sp) < BIT_STACK_LEVEL
      <3>1. SpBelow(bit_stack_sp) \in 0 .. BIT_STACK_LEVEL - 1
        BY <1>1, <2>1, ScanAssumption
      <3>2. QED
        BY <2>1, <3>1 DEF StackRead, TypeOK
    <2>2. QED
      BY <2>1 DEF StackRead
  <1>3. Advance /\ bit_acc' \in Bit /\ bit_stack_sp' \in 0 .. SpSpan - 1
    BY <1>1, <1>2 DEF handle_plc_mrd_mpp, TypeOK
  <1>4. QED
    BY <1>3, AdvanceType DEF handle_plc_mrd_mpp, TypeOK, relayVars, cellVars,
       flagVars, latchVars, envVars, histVars

\* OUT, SET, RST and SEI.
LEMMA OutType == ASSUME TypeOK, handle_plc_out PROVE TypeOK'
  <1>1. Advance
    BY DEF handle_plc_out
  <1>2. /\ bits' \in [Relay -> Bit]
        /\ counter' \in [Timer \cup COUNTER -> Nat]
        /\ hold_durty' \in Bit
    <2>1. CASE Ins.op # "OUT" /\ bit_acc = 0
      BY <2>1 DEF handle_plc_out, relayVars, TypeOK
    <2>2. CASE ~(Ins.op # "OUT" /\ bit_acc = 0)
      <3> DEFINE v == CASE Ins.op = "OUT" -> bit_acc
                        [] Ins.op = "SET" -> 1
                        [] Ins.op = "RST" -> 0
                        [] Ins.op = "SEI" -> Not(get_bitval(Ins.a))
      <3>1. set_bitval(Ins.a, v)
        BY <2>2 DEF handle_plc_out
      <3>2. v \in Bit
        <4>1. Ins.op \in {"OUT", "SET", "RST", "SEI"}
          BY DEF handle_plc_out, Executing
        <4>2. bit_acc \in Bit /\ Not(get_bitval(Ins.a)) \in Bit /\ 0 \in Bit /\ 1 \in Bit
          BY ReadType, BitOperations DEF TypeOK, Bit
        <4>3. QED
          BY <4>1, <4>2
      <3> HIDE DEF v
      <3>3. QED
        BY <3>1, <3>2, WriteOneType
    <2>3. QED
      BY <2>1, <2>2
  <1>3. QED
    BY <1>1, <1>2, AdvanceType DEF handle_plc_out, TypeOK, cellVars, flagVars,
       latchVars, accVars, envVars, histVars

\* Starting and stopping a timer, and the stop of a scan that names none.
LEMMA OutTType == ASSUME TypeOK, handle_plc_out_t PROVE TypeOK'
  <1>1. Ins.k \in Nat
    BY FetchType, InstrFields, AddrNat
  <1>2. /\ bits' \in [Relay -> Bit]
        /\ counter' \in [Timer \cup COUNTER -> Nat]
        /\ enable_bits' \in [Timer -> Bit]
    <2>1. CASE Ins.a \in Timer /\ bit_acc = 1
      <3>1. timing_cell_start(Ins.a, Ins.k)
        BY <2>1 DEF handle_plc_out_t
      <3>2. QED
        BY <1>1, <3>1 DEF timing_cell_start, TypeOK, Bit
    <2>2. CASE Ins.a \in Timer /\ bit_acc # 1
      <3>1. timing_cell_stop(Ins.a)
        BY <2>2 DEF handle_plc_out_t
      <3>2. QED
        BY <3>1 DEF timing_cell_stop, TypeOK, Bit
    <2>3. CASE Ins.a \notin Timer
      BY <2>3 DEF handle_plc_out_t, TypeOK
    <2>4. QED
      BY <2>1, <2>2, <2>3
  <1>3. Advance \/ StopAt(Offset(At, 1))
    BY DEF handle_plc_out_t
  <1>4. /\ plc_command_index' \in Addr
        /\ plc_cpu_stop' \in Bit
        /\ phase' \in Phases
        /\ loop_i' \in Addr \cup 0 .. HoldBytes
    BY <1>3, AdvanceType, StopType, AtInAddr
  <1>5. QED
    BY <1>2, <1>4 DEF handle_plc_out_t, TypeOK, flagVars, latchVars, accVars,
       envVars, histVars

\* Counting, and the stop of a scan that names no counter.
LEMMA OutCType == ASSUME TypeOK, handle_plc_out_c PROVE TypeOK'
  <1>1. /\ bits' \in [Relay -> Bit]
        /\ counter' \in [Timer \cup COUNTER -> Nat]
        /\ last_trig_bits' \in [COUNTER -> Bit]
    <2>1. CASE Ins.a \in COUNTER
      <3>1. counter[Ins.a] \in Nat
        BY <2>1 DEF TypeOK
      <3>2. counter' \in [Timer \cup COUNTER -> Nat]
        <4>1. counter[Ins.a] + 1 \in Nat
          BY <3>1
        <4>2. \/ counter' = counter
              \/ counter' = [counter EXCEPT ![Ins.a] = counter[Ins.a] + 1]
          BY <2>1 DEF handle_plc_out_c
        <4>3. QED
          BY <2>1, <4>1, <4>2 DEF TypeOK
      <3>3. bits' \in [Relay -> Bit]
        BY <2>1 DEF handle_plc_out_c, TypeOK, Bit
      <3>4. last_trig_bits' \in [COUNTER -> Bit]
        BY <2>1 DEF handle_plc_out_c, TypeOK
      <3>5. QED
        BY <3>2, <3>3, <3>4
    <2>2. CASE Ins.a \notin COUNTER
      BY <2>2 DEF handle_plc_out_c, TypeOK
    <2>3. QED
      BY <2>1, <2>2
  <1>2. Advance \/ StopAt(At)
    BY DEF handle_plc_out_c
  <1>3. /\ plc_command_index' \in Addr
        /\ plc_cpu_stop' \in Bit
        /\ phase' \in Phases
        /\ loop_i' \in Addr \cup 0 .. HoldBytes
    BY <1>2, AdvanceType, StopType, AtInAddr
  <1>4. QED
    BY <1>1, <1>3 DEF handle_plc_out_c, TypeOK, flagVars, latchVars, accVars,
       envVars, histVars

\* The comparisons.
LEMMA CompareZoneType == ASSUME TypeOK, handle_plc_compare_zone PROVE TypeOK'
  <1> DEFINE f == OneHot(Ins.b, CompareZone(Ins))
  <1>1. set_bitvals(f) /\ Advance
    BY DEF handle_plc_compare_zone
  <1>2. \A a \in DOMAIN f : f[a] \in Bit
    BY DEF OneHot, Truth, Bit
  <1> HIDE DEF f
  <1>3. QED
    BY <1>1, <1>2, WriteType, AdvanceType DEF handle_plc_compare_zone, TypeOK,
       cellVars, flagVars, latchVars, accVars, envVars, histVars

LEMMA CompareType == ASSUME TypeOK, handle_plc_compare PROVE TypeOK'
  <1> DEFINE v == Truth(CompareHolds(Ins))
  <1>1. set_bitval(Ins.b, v) /\ Advance /\ bit_acc' = v
    BY DEF handle_plc_compare
  <1>2. v \in Bit
    BY DEF Truth, Bit
  <1> HIDE DEF v
  <1>3. QED
    BY <1>1, <1>2, WriteOneType, AdvanceType DEF handle_plc_compare, TypeOK,
       cellVars, flagVars, latchVars, envVars, histVars

\* Jumps and the loops over relays.
LEMMA JumpType == ASSUME TypeOK, handle_plc_jmp PROVE TypeOK'
  <1>1. JumpLength(Ins) \in Nat
    <2>1. Ins.k \in Nat
      BY FetchType, InstrFields, AddrNat
    <2>2. Ins.k + 1 \in Nat
      BY <2>1
    <2>3. QED
      BY <2>2 DEF JumpLength
  <1>2. plc_command_index' \in Addr
    BY <1>1, FetchType, OffsetInAddr DEF handle_plc_jmp
  <1>3. QED
    BY <1>2 DEF handle_plc_jmp, TypeOK, relayVars, cellVars, flagVars, latchVars,
       accVars, envVars, histVars

LEMMA EnterLoopType == ASSUME TypeOK, EnterLoop PROVE TypeOK'
  <1>1. At \in Addr /\ Ins.a \in Addr /\ 0 \in Addr
    BY AtInAddr, FetchType, InstrFields, ScanAssumption DEF Addr
  <1>2. QED
    BY <1>1 DEF EnterLoop, TypeOK, Phases, relayVars, cellVars, flagVars, latchVars,
       accVars, envVars, histVars

\* One turn of a loop over relays, and its end.
LEMMA LoopBodyType ==
    ASSUME TypeOK, NEW a, NEW v \in Bit, LoopBody(a, v) \/ LeaveLoop
    PROVE  /\ bits' \in [Relay -> Bit]
           /\ counter' \in [Timer \cup COUNTER -> Nat]
           /\ hold_durty' \in Bit
           /\ plc_command_index' \in Addr
           /\ plc_cpu_stop' \in Bit
           /\ phase' \in Phases
           /\ loop_i' \in Addr \cup 0 .. HoldBytes
  <1>1. CASE LoopBody(a, v)
    <2>1. loop_i \in Nat
      BY AddrNat, ScanAssumption DEF TypeOK
    <2>2. loop_i' \in Addr
      BY <1>1, <2>1, OffsetInAddr DEF LoopBody
    <2>3. set_bitval(a, v)
      BY <1>1 DEF LoopBody
    <2>4. /\ bits' \in [Relay -> Bit]
          /\ counter' \in [Timer \cup COUNTER -> Nat]
          /\ hold_durty' \in Bit
      BY <2>3, WriteOneType
    <2>5. QED
      BY <1>1, <2>2, <2>4 DEF LoopBody, TypeOK
  <1>2. CASE LeaveLoop
    <2>1. Offset(At, 1) \in Addr /\ 0 \in Addr
      BY AtInAddr, ScanAssumption DEF Addr
    <2>2. QED
      BY <1>2, <2>1 DEF LeaveLoop, TypeOK, Phases, relayVars
  <1>3. QED
    BY <1>1, <1>2

LEMMA BmovType == ASSUME TypeOK, handle_plc_bmov PROVE TypeOK'
  <1> DEFINE a == Offset(Ins.a, loop_i)
             v == get_bitval(Offset(Ins.b, loop_i))
  <1>1. LoopBody(a, v) \/ LeaveLoop
    BY DEF handle_plc_bmov
  <1>2. v \in Bit
    BY ReadType
  <1> HIDE DEF a, v
  <1>3. QED
    BY <1>1, <1>2, LoopBodyType DEF handle_plc_bmov, TypeOK, cellVars, flagVars,
       latchVars, accVars, envVars, histVars

LEMMA ZrstType == ASSUME TypeOK, handle_plc_zrst PROVE TypeOK'
  <1>1. LoopBody(loop_i, 0) \/ LeaveLoop
    BY DEF handle_plc_zrst
  <1>2. 0 \in Bit
    BY DEF Bit
  <1>3. QED
    BY <1>1, <1>2, LoopBodyType DEF handle_plc_zrst, TypeOK, cellVars, flagVars,
       latchVars, accVars, envVars, histVars

\* The two ways a scan ends in the program.
LEMMA EndType == ASSUME TypeOK, handle_plc_end \/ handle_plc_unknown PROVE TypeOK'
  <1>1. CASE handle_plc_end
    <2>1. 0 \in Addr
      BY ScanAssumption DEF Addr
    <2>2. QED
      BY <1>1, <2>1 DEF handle_plc_end, TypeOK, Phases, relayVars, cellVars,
         flagVars, latchVars, accVars, envVars, histVars
  <1>2. CASE handle_plc_unknown
    <2>1. StopAt(At)
      BY <1>2 DEF handle_plc_unknown
    <2>2. QED
      BY <1>2, <2>1, AtInAddr, StopType DEF handle_plc_unknown, TypeOK, relayVars,
         cellVars, flagVars, latchVars, accVars, envVars, histVars
  <1>3. QED
    BY <1>1, <1>2

\* Every instruction.
LEMMA ExecuteType == ASSUME TypeOK, Execute PROVE TypeOK'
  BY LogicType, EdgeType, PushType, PopType, OutType, OutTType, OutCType,
     CompareZoneType, CompareType, JumpType, EnterLoopType, BmovType, ZrstType,
     EndType DEF Execute

-----------------------------------------------------------------------------

\* The scan around the program.
LEMMA ScanType ==
    ASSUME TypeOK, plc_timing_tick_process \/ PlcProcess_begin \/ PlcProcess_finish
    PROVE  TypeOK'
  <1>1. CASE plc_timing_tick_process
    <2>1. time100ms_come_flag' \in Nat /\ time1s_come_flag' \in Nat
      BY <1>1 DEF plc_timing_tick_process, TypeOK
    <2>2. QED
      BY <1>1, <2>1 DEF plc_timing_tick_process, TypeOK, Phases, relayVars, cellVars,
         latchVars, accVars, histVars
  <1>2. CASE PlcProcess_begin
    <2>1. bits' \in [Relay -> Bit]
      BY <1>2 DEF PlcProcess_begin, TypeOK
    <2>2. 0 \in Addr
      BY ScanAssumption DEF Addr
    <2>3. QED
      BY <1>2, <2>1, <2>2 DEF PlcProcess_begin, TypeOK, Phases, Bit, cellVars,
         flagVars, latchVars, accVars, envVars
  <1>3. CASE PlcProcess_finish
    <2>1. bits_last' \in [Relay -> Bit]
      BY <1>3 DEF PlcProcess_finish, Latched, TypeOK
    <2>2. io_out' \in [IO_OUTPUT -> Bit]
      BY <1>3, RelayFacts DEF PlcProcess_finish, RelayImage, TypeOK
    <2>3. 0 \in Addr
      BY ScanAssumption DEF Addr
    <2>4. QED
      BY <1>3, <2>1, <2>2, <2>3 DEF PlcProcess_finish, TypeOK, Phases, Bit, cellVars,
         flagVars, accVars, envVars, histVars
  <1>4. QED
    BY <1>1, <1>2, <1>3

\* Saving the holding relays: the loop variable stays within the bytes.
LEMMA SaveType == ASSUME TypeOK, RtcRamWrite \/ RtcRamWrite_end PROVE TypeOK'
  <1>1. CASE RtcRamWrite
    <2>1. loop_i' \in Addr \cup 0 .. HoldBytes
      BY <1>1, ScanAssumption, AddrNat DEF RtcRamWrite, Saves, TypeOK
    <2>2. rtc_ram' \in [AUXI_HOLDRELAY -> Bit]
      BY <1>1, RelayFacts DEF RtcRamWrite, TypeOK
    <2>3. QED
      BY <1>1, <2>1, <2>2 DEF RtcRamWrite, TypeOK, relayVars, cellVars, flagVars,
         accVars, envVars, histVars
  <1>2. CASE RtcRamWrite_end
    <2>1. bits_last' \in [Relay -> Bit]
      BY <1>2 DEF RtcRamWrite_end, Latched, TypeOK
    <2>2. 0 \in Addr
      BY ScanAssumption DEF Addr
    <2>3. QED
      BY <1>2, <2>1, <2>2 DEF RtcRamWrite_end, TypeOK, Phases, relayVars, cellVars,
         flagVars, accVars, envVars
  <1>3. QED
    BY <1>1, <1>2

\* A timer cell keeps a count and an event.
LEMMA CellType ==
    \A en, cnt, ev, credit :
        /\ cnt \in Nat /\ credit \in Nat => CellCounter(en, cnt, ev, credit) \in Nat
        /\ ev \in Bit => CellEvent(en, cnt, ev, credit) \in Bit
  <1> TAKE en, cnt, ev, credit
  <1>1. ASSUME cnt \in Nat, credit \in Nat PROVE CellCounter(en, cnt, ev, credit) \in Nat
    BY <1>1 DEF CellCounter
  <1>2. ASSUME ev \in Bit PROVE CellEvent(en, cnt, ev, credit) \in Bit
    BY <1>2 DEF CellEvent, Bit
  <1>3. QED
    BY <1>1, <1>2

LEMMA TimingType == ASSUME TypeOK, timing_cell_prcess PROVE TypeOK'
  <1>1. \A t \in Timer : Credit(t) \in Nat
    BY DEF Credit, TypeOK
  <1>2. bits' \in [Relay -> Bit]
    <2>1. \A a \in Relay : TimerEvents[a] \in Bit
      BY CellType DEF TimerEvents, TypeOK
    <2>2. QED
      BY <2>1 DEF timing_cell_prcess, TimerEvents
  <1>3. counter' \in [Timer \cup COUNTER -> Nat]
    <2>1. \A c \in Timer \cup COUNTER : TimerCounts[c] \in Nat
      BY <1>1, CellType DEF TimerCounts, TypeOK
    <2>2. QED
      BY <2>1 DEF timing_cell_prcess, TimerCounts
  <1>4. bits_last' \in [Relay -> Bit]
    BY DEF timing_cell_prcess, EventsLatched, Latched, TypeOK
  <1>5. QED
    BY <1>2, <1>3, <1>4 DEF timing_cell_prcess, TypeOK, Phases, cellVars, accVars,
       envVars, histVars

\* A host writes relays, the program or the battery-backed RAM.
LEMMA HostSetsType ==
    ASSUME TypeOK, NEW f, \A a \in DOMAIN f : f[a] \in Bit, DOMAIN f \subseteq Addr,
           HostSets(f)
    PROVE  TypeOK'
  <1>1. set_bitvals(f)
    BY DEF HostSets
  <1>2. QED
    BY <1>1, WriteType DEF HostSets, TypeOK, cellVars, flagVars, latchVars, accVars,
       ctlVars, envVars

LEMMA HostType == ASSUME TypeOK, Host PROVE TypeOK'
  <1>1. CASE digital_write
    <2>1. PICK A \in HostRanges : \E f \in [A -> Bit] : HostSets(f)
      BY <1>1 DEF digital_write
    <2>2. PICK f \in [A -> Bit] : HostSets(f)
      BY <2>1
    <2>3. A \subseteq Addr
      BY ScanAssumption
    <2>4. QED
      BY <2>2, <2>3, HostSetsType
  <1>2. CASE io_out_convert_bits
    <2>1. PICK A \in HostRanges :
              A \subseteq AUXI_RELAY /\ HostSets([a \in A |-> Not(bits[a])])
      BY <1>2 DEF io_out_convert_bits
    <2>2. \A a \in A : Not(bits[a]) \in Bit
      BY <2>1, RelayFacts, BitOperations DEF TypeOK
    <2>3. A \subseteq Addr
      BY ScanAssumption
    <2>4. QED
      BY <2>1, <2>2, <2>3, HostSetsType
  <1>3. CASE CmdPlcWrite
    <2>1. rom' \in [0 .. RomSize - 1 -> Instr]
      BY <1>3, ScanAssumption DEF CmdPlcWrite, TypeOK
    <2>2. QED
      BY <1>3, <2>1 DEF CmdPlcWrite, TypeOK, relayVars, cellVars, flagVars, latchVars,
         accVars, ctlVars, histVars
  <1>4. CASE CmdWriteRegister
    <2>1. rtc_ram' \in [AUXI_HOLDRELAY -> Bit]
      BY <1>4, ScanAssumption DEF CmdWriteRegister, TypeOK
    <2>2. QED
      BY <1>4, <2>1 DEF CmdWriteRegister, TypeOK, relayVars, cellVars, flagVars,
         accVars, ctlVars, envVars
  <1>5. QED
    BY <1>1, <1>2, <1>3, <1>4 DEF Host

\* Power-on.
LEMMA PowerOnType == ASSUME TypeOK, PlcInit PROVE TypeOK'
  <1>1. PICK pins \in [IO_INPUT -> Bit] :
            /\ bits' = [PowerOnRelays(pins) EXCEPT ![SPECIAL_RELAY_BASE] = 1]
            /\ bits_last' = PowerOnRelays(pins)
            /\ ended' = PowerOnRelays(pins)
    BY DEF PlcInit
  <1>2. PowerOnRelays(pins) \in [Relay -> Bit]
    BY DEF PowerOnRelays, TypeOK, Bit
  <1>3. bits' \in [Relay -> Bit] /\ bits_last' \in [Relay -> Bit] /\ ended' \in [Relay -> Bit]
    BY <1>1, <1>2 DEF Bit
  <1>4. 0 \in Addr /\ 0 \in 0 .. SpSpan - 1 /\ 0 \in Bit
    BY ScanAssumption DEF Addr, Bit
  <1>5. touched' \subseteq Addr
    BY ScanAssumption, RelayFacts DEF PlcInit
  <1>6. QED
    BY <1>3, <1>4, <1>5 DEF PlcInit, TypeOK, Phases

LEMMA StutterType == ASSUME TypeOK, UNCHANGED vars PROVE TypeOK'
  BY DEF TypeOK, vars, relayVars, cellVars, flagVars, latchVars, accVars, ctlVars,
     envVars, histVars

LEMMA TypeNext == TypeOK /\ [Next]_vars => TypeOK'
  <1> SUFFICES ASSUME TypeOK, [Next]_vars PROVE TypeOK'
    OBVIOUS
  <1>1. CASE Execute
    BY <1>1, ExecuteType
  <1>2. CASE plc_timing_tick_process \/ PlcProcess_begin \/ PlcProcess_finish
    BY <1>2, ScanType
  <1>3. CASE RtcRamWrite \/ RtcRamWrite_end
    BY <1>3, SaveType
  <1>4. CASE timing_cell_prcess
    BY <1>4, TimingType
  <1>5. CASE Host
    BY <1>5, HostType
  <1>6. CASE PlcInit
    BY <1>6, PowerOnType
  <1>7. CASE UNCHANGED vars
    BY <1>7, StutterType
  <1>8. QED
    BY <1>1, <1>2, <1>3, <1>4, <1>5, <1>6, <1>7 DEF Next, MainLoop

\* Every variable keeps the range its C type gives it, whatever the program,
\* the host and the power supply do.
THEOREM TypeCorrect == Spec => []TypeOK
  BY InitType, TypeNext, PTL DEF Spec

=============================================================================
