--------------------------- MODULE HoldingProofs ----------------------------
(***************************************************************************)
(* What outlives a scan of PlcScan.  The holding relays survive a power    *)
(* failure: their images and the battery-backed copy stay consistent       *)
(* (HoldDirtyCovers, RamHoldsLast), and PlcScan implements DurableRelays.  *)
(* The images of the last scan are right: the relay drivers show it        *)
(* (RelaysShowLastScan), and edge instructions see every change exactly    *)
(* once (EdgeLatches, EdgesSinceLastScan).                                 *)
(*                                                                         *)
(* The first half follows from the shape of a step as the holding relays   *)
(* see it: a write that owes a save, the beginning of a save, one byte of  *)
(* it, its end, a host's overwrite, a restart, or nothing.                 *)
(***************************************************************************)
EXTENDS PlcScanProofs

HoldBits == [h \in AUXI_HOLDRELAY |-> bits[h]]
HoldLast == [h \in AUXI_HOLDRELAY |-> bits_last[h]]

\* The program, or a host, may have written holding relays.
MayWrite ==
    /\ phase \notin {"off", "save"}
    /\ phase' \notin {"off", "save"}
    /\ UNCHANGED <<rtc_ram, ram_foreign, HoldLast>>
    /\ hold_durty' = 1 \/ UNCHANGED <<hold_durty, HoldBits>>

BeginSave ==
    /\ phase = "finish" /\ phase' = "save"
    /\ hold_durty = 1 /\ hold_durty' = 0
    /\ loop_i' = 0
    /\ UNCHANGED <<rtc_ram, ram_foreign, HoldLast, HoldBits>>

HoldingStep ==
    \/ MayWrite \/ BeginSave \/ RtcRamWrite \/ RtcRamWrite_end
    \/ CmdWriteRegister \/ PlcInit \/ UNCHANGED vars

-----------------------------------------------------------------------------
(* The shape of a step *)

\* A write that reaches a holding relay raises the dirty flag.
LEMMA WriteDirties ==
    ASSUME NEW f, set_bitvals(f)
    PROVE  hold_durty' = 1 \/ UNCHANGED <<hold_durty, HoldBits>>
  <1>1. CASE Dirties(f)
    BY <1>1 DEF set_bitvals
  <1>2. CASE ~Dirties(f)
    <2>1. \A h \in AUXI_HOLDRELAY : h \notin DOMAIN f
      BY <1>2 DEF Dirties
    <2>2. \A h \in AUXI_HOLDRELAY : bits'[h] = bits[h]
      BY <2>1, RelayFacts DEF set_bitvals
    <2>3. UNCHANGED HoldBits
      BY <2>2 DEF HoldBits
    <2>4. QED
      BY <1>2, <2>3 DEF set_bitvals
  <1>3. QED
    BY <1>1, <1>2

\* The same for one relay, and for a turn of a loop over relays.
LEMMA WriteOneDirties ==
    ASSUME NEW a, NEW v, set_bitval(a, v)
    PROVE  hold_durty' = 1 \/ UNCHANGED <<hold_durty, HoldBits>>
  <1> DEFINE f == [x \in {a} |-> v]
  <1>1. set_bitvals(f)
    BY DEF set_bitval
  <1> HIDE DEF f
  <1>2. QED
    BY <1>1, WriteDirties

\* Timers, counters and inputs are no holding relays.
LEMMA HoldApart ==
    /\ AUXI_HOLDRELAY \cap Timer = {}
    /\ AUXI_HOLDRELAY \cap COUNTER = {}
    /\ AUXI_HOLDRELAY \cap IO_INPUT = {}
    /\ AUXI_HOLDRELAY \cap SPECIAL_RELAY = {}
    /\ AUXI_HOLDRELAY \cap ScanRelays = {}
    /\ AUXI_HOLDRELAY \subseteq Relay
  <1>1. AUXI_HOLDRELAY \cap (AUXI_RELAY \cup SPECIAL_RELAY) = {}
        /\ IO_OUTPUT \cap AUXI_HOLDRELAY = {}
    BY ScanAssumption
  <1>2. Settable \cap (Timer \cup COUNTER) = {} /\ IO_INPUT \cap Settable = {}
    BY ScanAssumption
  <1>3. QED
    BY <1>1, <1>2, RelayFacts DEF ScanRelays

\* No instruction touches the copy, the images or the history, and one that
\* changes a holding relay owes a save.
LEMMA ExecuteShape == ASSUME TypeOK, Execute PROVE MayWrite
  <1>1. /\ phase \notin {"off", "save"}
        /\ phase' \notin {"off", "save"}
        /\ UNCHANGED <<rtc_ram, bits_last, ram_foreign>>
    BY DEF Execute, handle_plc_logic, handle_plc_edge, handle_plc_mps,
       handle_plc_mrd_mpp, handle_plc_out, handle_plc_out_t, handle_plc_out_c,
       handle_plc_compare_zone, handle_plc_compare, handle_plc_jmp, EnterLoop,
       handle_plc_bmov, handle_plc_zrst, handle_plc_end, handle_plc_unknown,
       Executing, Advance, StopAt, LoopBody, LeaveLoop, latchVars, histVars
  <1>2. hold_durty' = 1 \/ UNCHANGED <<hold_durty, HoldBits>>
    <2>1. CASE \/ handle_plc_logic \/ handle_plc_edge \/ handle_plc_mps
               \/ handle_plc_mrd_mpp \/ handle_plc_jmp \/ EnterLoop
               \/ handle_plc_end \/ handle_plc_unknown
      BY <2>1 DEF handle_plc_logic, handle_plc_edge, handle_plc_mps,
         handle_plc_mrd_mpp, handle_plc_jmp, EnterLoop, handle_plc_end,
         handle_plc_unknown, relayVars, HoldBits
    <2>2. CASE handle_plc_out
      BY <2>2, WriteOneDirties DEF handle_plc_out, relayVars, HoldBits
    <2>3. CASE handle_plc_out_t
      <3>1. \A h \in AUXI_HOLDRELAY : bits'[h] = bits[h]
        BY <2>3, HoldApart DEF handle_plc_out_t, timing_cell_start, timing_cell_stop,
           TypeOK
      <3>2. QED
        BY <2>3, <3>1 DEF handle_plc_out_t, HoldBits
    <2>4. CASE handle_plc_out_c
      <3>1. \A h \in AUXI_HOLDRELAY : bits'[h] = bits[h]
        BY <2>4, HoldApart DEF handle_plc_out_c, TypeOK
      <3>2. QED
        BY <2>4, <3>1 DEF handle_plc_out_c, HoldBits
    <2>5. CASE handle_plc_compare_zone
      BY <2>5, WriteDirties DEF handle_plc_compare_zone
    <2>6. CASE handle_plc_compare
      BY <2>6, WriteOneDirties DEF handle_plc_compare
    <2>7. CASE handle_plc_bmov \/ handle_plc_zrst
      BY <2>7, WriteOneDirties DEF handle_plc_bmov, handle_plc_zrst, LoopBody,
         LeaveLoop, relayVars, HoldBits
    <2>8. QED
      BY <2>1, <2>2, <2>3, <2>4, <2>5, <2>6, <2>7 DEF Execute
  <1>3. QED
    BY <1>1, <1>2 DEF MayWrite, HoldLast

\* The scan around the program.
LEMMA ScanShape ==
    ASSUME TypeOK,
           \/ plc_timing_tick_process \/ PlcProcess_begin \/ PlcProcess_finish
           \/ timing_cell_prcess
    PROVE  MayWrite \/ BeginSave
  <1>1. CASE plc_timing_tick_process
    BY <1>1 DEF plc_timing_tick_process, MayWrite, HoldBits, HoldLast, relayVars,
       latchVars, histVars
  <1>2. CASE PlcProcess_begin
    <2>1. \A h \in AUXI_HOLDRELAY : bits'[h] = bits[h]
      BY <1>2, HoldApart DEF PlcProcess_begin
    <2>2. QED
      BY <1>2, <2>1 DEF PlcProcess_begin, MayWrite, HoldBits, HoldLast, latchVars
  <1>3. CASE PlcProcess_finish
    <2>1. \A h \in AUXI_HOLDRELAY : bits_last'[h] = bits_last[h]
      BY <1>3, HoldApart DEF PlcProcess_finish, Latched
    <2>2. hold_durty \in {0, 1}
      BY DEF TypeOK, Bit
    <2>3. QED
      BY <1>3, <2>1, <2>2 DEF PlcProcess_finish, MayWrite, BeginSave, HoldBits,
         HoldLast, histVars
  <1>4. CASE timing_cell_prcess
    <2>1. \A h \in AUXI_HOLDRELAY : bits'[h] = bits[h] /\ bits_last'[h] = bits_last[h]
      BY <1>4, HoldApart DEF timing_cell_prcess, TimerEvents, EventsLatched, Latched
    <2>2. QED
      BY <1>4, <2>1 DEF timing_cell_prcess, MayWrite, HoldBits, HoldLast, histVars
  <1>5. QED
    BY <1>1, <1>2, <1>3, <1>4

\* The host's commands.
LEMMA HostShape == ASSUME TypeOK, Host PROVE MayWrite \/ CmdWriteRegister
  <1>1. ASSUME NEW f, HostSets(f) PROVE MayWrite
    <2>1. set_bitvals(f)
      BY <1>1 DEF HostSets
    <2>2. hold_durty' = 1 \/ UNCHANGED <<hold_durty, HoldBits>>
      BY <2>1, WriteDirties
    <2>3. QED
      BY <1>1, <2>2 DEF HostSets, MayWrite, HoldLast, latchVars, ctlVars
  <1>2. CASE digital_write
    BY <1>1, <1>2 DEF digital_write
  <1>3. CASE io_out_convert_bits
    BY <1>1, <1>3 DEF io_out_convert_bits
  <1>4. CASE CmdPlcWrite
    BY <1>4 DEF CmdPlcWrite, MayWrite, HoldBits, HoldLast, relayVars, latchVars,
       ctlVars, histVars
  <1>5. QED
    BY <1>2, <1>3, <1>4 DEF Host

LEMMA StepShape == ASSUME TypeOK, [Next]_vars PROVE HoldingStep
  BY ExecuteShape, ScanShape, HostShape DEF Next, MainLoop, HoldingStep

-----------------------------------------------------------------------------
(* The inductive invariant *)

\* While a save is on its way the bytes already sent are those in memory, and
\* nothing else is owed.  RamHoldsLast says nothing of a copy a host wrote, but
\* the save that follows repairs it byte by byte, so this part does not except
\* it; without it the end of that save could not be shown to restore
\* RamHoldsLast.
SaveExact ==
    phase = "save" =>
        /\ loop_i <= HoldBytes
        /\ hold_durty = 0
        /\ \A h \in AUXI_HOLDRELAY : HoldByte[h] < loop_i => rtc_ram[h] = bits[h]

\* Nothing has happened before power-on.
OffClean == phase = "off" => ram_foreign

HoldingInv ==
    /\ TypeOK
    /\ SaveExact
    /\ OffClean
    /\ HoldDirtyCovers
    /\ RamHoldsLast

LEMMA HoldingInit == Init => HoldingInv
  <1> SUFFICES ASSUME Init PROVE HoldingInv
    OBVIOUS
  <1>1. TypeOK
    BY InitType
  <1>2. phase = "off" /\ ram_foreign = TRUE
    BY DEF Init
  <1>3. \A h \in AUXI_HOLDRELAY : bits[h] = bits_last[h]
    BY HoldApart DEF Init
  <1>4. QED
    BY <1>1, <1>2, <1>3 DEF HoldingInv, SaveExact, OffClean, HoldDirtyCovers,
       RamHoldsLast

\* The numbers the next lemmas count with.
LEMMA SaveNumbers ==
    ASSUME TypeOK
    PROVE  /\ loop_i \in Nat
           /\ HoldBytes \in Nat
           /\ \A h \in AUXI_HOLDRELAY : HoldByte[h] \in Nat /\ HoldByte[h] < HoldBytes
  <1>1. HoldBytes \in Nat /\ HoldByte \in [AUXI_HOLDRELAY -> 0 .. HoldBytes - 1]
    BY ScanAssumption
  <1>2. loop_i \in Nat
    BY <1>1, AddrNat DEF TypeOK
  <1>3. \A h \in AUXI_HOLDRELAY : HoldByte[h] \in 0 .. HoldBytes - 1
    BY <1>1
  <1>4. QED
    BY <1>1, <1>2, <1>3

\* One byte of a save.
LEMMA SendKeeps == ASSUME HoldingInv, RtcRamWrite PROVE HoldingInv'
  <1> USE DEF HoldingInv
  <1>1. TypeOK'
    BY SaveType
  <1>2. /\ phase = "save" /\ phase' = "save"
        /\ loop_i < HoldBytes
        /\ loop_i' = loop_i + 1
        /\ hold_durty' = hold_durty /\ bits' = bits /\ bits_last' = bits_last
        /\ ram_foreign' = ram_foreign
        /\ \A h \in AUXI_HOLDRELAY :
               rtc_ram'[h] = IF HoldByte[h] = loop_i THEN bits[h] ELSE rtc_ram[h]
    BY DEF RtcRamWrite, Saves, relayVars, histVars
  <1>3. \A h \in AUXI_HOLDRELAY : HoldByte[h] < loop_i' =>
            HoldByte[h] = loop_i \/ HoldByte[h] < loop_i
    BY <1>2, SaveNumbers
  <1>4. SaveExact'
    BY <1>2, <1>3, SaveNumbers DEF SaveExact
  <1>5. RamHoldsLast'
    <2>1. SUFFICES ASSUME ~ram_foreign, NEW h \in AUXI_HOLDRELAY
                   PROVE  rtc_ram'[h] = IF HoldByte[h] < loop_i' THEN bits[h] ELSE bits_last[h]
      BY <1>2 DEF RamHoldsLast
    <2>2. CASE HoldByte[h] < loop_i'
      BY <1>2, <1>4, <2>2 DEF SaveExact
    <2>3. CASE ~(HoldByte[h] < loop_i')
      <3>1. ~(HoldByte[h] < loop_i) /\ HoldByte[h] # loop_i
        BY <1>2, <2>3, SaveNumbers
      <3>2. QED
        BY <1>2, <2>1, <2>3, <3>1 DEF RamHoldsLast
    <2>4. QED
      BY <2>2, <2>3
  <1>6. QED
    BY <1>1, <1>2, <1>4, <1>5 DEF OffClean, HoldDirtyCovers

\* The end of a save: the last byte was sent, so the copy is the image.
LEMMA EndKeeps == ASSUME HoldingInv, RtcRamWrite_end PROVE HoldingInv'
  <1> USE DEF HoldingInv
  <1>1. TypeOK'
    BY SaveType
  <1>2. /\ phase = "save" /\ phase' = "timing"
        /\ ~(loop_i < HoldBytes)
        /\ bits' = bits /\ rtc_ram' = rtc_ram
        /\ \A h \in AUXI_HOLDRELAY : bits_last'[h] = bits[h]
    BY HoldApart DEF RtcRamWrite_end, Saves, Latched, relayVars
  <1>3. \A h \in AUXI_HOLDRELAY : rtc_ram[h] = bits[h]
    BY <1>2, SaveNumbers DEF SaveExact
  <1>4. QED
    BY <1>1, <1>2, <1>3 DEF SaveExact, OffClean, HoldDirtyCovers, RamHoldsLast

\* A restart reads the image back from the copy.
LEMMA RestartShape ==
    ASSUME TypeOK, PlcInit
    PROVE  /\ phase' = "idle" /\ hold_durty' = 0 /\ loop_i' = 0
           /\ rtc_ram' = rtc_ram
           /\ \A h \in AUXI_HOLDRELAY : bits'[h] = rtc_ram[h] /\ bits_last'[h] = rtc_ram[h]
  <1>1. PICK pins \in [IO_INPUT -> Bit] :
            /\ bits' = [PowerOnRelays(pins) EXCEPT ![SPECIAL_RELAY_BASE] = 1]
            /\ bits_last' = PowerOnRelays(pins)
    BY DEF PlcInit
  <1>2. \A h \in AUXI_HOLDRELAY : PowerOnRelays(pins)[h] = rtc_ram[h]
    BY HoldApart DEF PowerOnRelays
  <1>3. SPECIAL_RELAY_BASE \notin AUXI_HOLDRELAY
    BY ScanAssumption, HoldApart
  <1>4. \A h \in AUXI_HOLDRELAY : bits'[h] = rtc_ram[h]
    BY <1>1, <1>2, <1>3, HoldApart DEF PowerOnRelays
  <1>5. QED
    BY <1>1, <1>2, <1>4 DEF PlcInit

LEMMA RestartKeeps == ASSUME HoldingInv, PlcInit PROVE HoldingInv'
  BY RestartShape, PowerOnType DEF HoldingInv, SaveExact, OffClean, HoldDirtyCovers,
     RamHoldsLast

\* A write, the beginning of a save and a host's overwrite.
LEMMA HoldImages ==
    /\ UNCHANGED HoldBits => \A h \in AUXI_HOLDRELAY : bits'[h] = bits[h]
    /\ UNCHANGED HoldLast => \A h \in AUXI_HOLDRELAY : bits_last'[h] = bits_last[h]
  <1>1. /\ \A h \in AUXI_HOLDRELAY : HoldBits[h] = bits[h] /\ HoldLast[h] = bits_last[h]
        /\ \A h \in AUXI_HOLDRELAY : HoldBits'[h] = bits'[h] /\ HoldLast'[h] = bits_last'[h]
    BY DEF HoldBits, HoldLast
  <1>2. QED
    BY <1>1

LEMMA WriteKeeps == ASSUME HoldingInv, TypeOK', MayWrite PROVE HoldingInv'
  <1> USE DEF HoldingInv
  <1>1. /\ phase \notin {"off", "save"} /\ phase' \notin {"off", "save"}
        /\ rtc_ram' = rtc_ram /\ ram_foreign' = ram_foreign
        /\ \A h \in AUXI_HOLDRELAY : bits_last'[h] = bits_last[h]
    BY HoldImages DEF MayWrite
  <1>2. hold_durty' # 1 => /\ hold_durty' = hold_durty
                           /\ \A h \in AUXI_HOLDRELAY : bits'[h] = bits[h]
    BY HoldImages DEF MayWrite
  <1>3. QED
    BY <1>1, <1>2 DEF SaveExact, OffClean, HoldDirtyCovers, RamHoldsLast

LEMMA BeginKeeps == ASSUME HoldingInv, TypeOK', BeginSave PROVE HoldingInv'
  <1> USE DEF HoldingInv
  <1>1. /\ phase = "finish" /\ phase' = "save" /\ hold_durty' = 0 /\ loop_i' = 0
        /\ rtc_ram' = rtc_ram /\ ram_foreign' = ram_foreign
        /\ \A h \in AUXI_HOLDRELAY : bits_last'[h] = bits_last[h]
    BY HoldImages DEF BeginSave
  <1>2. 0 <= HoldBytes /\ \A h \in AUXI_HOLDRELAY : ~(HoldByte[h] < 0)
    BY SaveNumbers
  <1>3. QED
    BY <1>1, <1>2 DEF SaveExact, OffClean, HoldDirtyCovers, RamHoldsLast

LEMMA OverwriteKeeps == ASSUME HoldingInv, TypeOK', CmdWriteRegister PROVE HoldingInv'
  BY DEF HoldingInv, CmdWriteRegister, SaveExact, OffClean, HoldDirtyCovers,
     RamHoldsLast, relayVars, ctlVars

LEMMA HoldingNext == HoldingInv /\ [Next]_vars => HoldingInv'
  <1> SUFFICES ASSUME HoldingInv, [Next]_vars PROVE HoldingInv'
    OBVIOUS
  <1>1. TypeOK /\ TypeOK'
    BY TypeNext DEF HoldingInv
  <1>2. HoldingStep
    BY <1>1, StepShape
  <1>3. CASE UNCHANGED vars
    BY <1>1, <1>3 DEF HoldingInv, SaveExact, OffClean, HoldDirtyCovers, RamHoldsLast,
       vars, relayVars, latchVars, ctlVars, histVars
  <1>4. QED
    BY <1>1, <1>2, <1>3, SendKeeps, EndKeeps, RestartKeeps, WriteKeeps, BeginKeeps,
       OverwriteKeeps DEF HoldingStep

LEMMA HoldingInvariant == Spec => []HoldingInv
  BY HoldingInit, HoldingNext, PTL DEF Spec

\* No change of a holding relay is forgotten, whatever writes it.
THEOREM DirtyCovers == Spec => []HoldDirtyCovers
  <1>1. HoldingInv => HoldDirtyCovers
    BY DEF HoldingInv
  <1>2. QED
    BY <1>1, HoldingInvariant, PTL

\* The copy holds what the PLC believes it holds, at any byte of a save.
THEOREM CopyExact == Spec => []RamHoldsLast
  <1>1. HoldingInv => RamHoldsLast
    BY DEF HoldingInv
  <1>2. QED
    BY <1>1, HoldingInvariant, PTL

-----------------------------------------------------------------------------
(* The holding relays keep the promise of DurableRelays *)

LEMMA DurableInit == Init => Durable!Init
  <1> SUFFICES ASSUME Init PROVE Durable!Init
    OBVIOUS
  <1>1. [h \in AUXI_HOLDRELAY |-> bits[h]] \in [AUXI_HOLDRELAY -> Bit]
    BY HoldApart DEF Init, Bit
  <1>2. QED
    BY <1>1 DEF Init, Durable!Init

LEMMA DurableNext ==
    HoldingInv /\ HoldingInv' /\ [Next]_vars => [Durable!Next]_Durable!vars
  <1> SUFFICES ASSUME HoldingInv, HoldingInv', [Next]_vars
               PROVE  [Durable!Next]_Durable!vars
    OBVIOUS
  <1>1. /\ TypeOK /\ TypeOK'
        /\ HoldingStep
    BY StepShape DEF HoldingInv
  <1>2. [h \in AUXI_HOLDRELAY |-> bits[h]]' \in [AUXI_HOLDRELAY -> Bit]
    BY <1>1, HoldApart DEF TypeOK
  <1>3. CASE MayWrite
    <2>1. CASE hold_durty' = 1
      BY <1>2, <1>3, <2>1 DEF MayWrite, Durable!Next, Durable!Modify
    <2>2. CASE UNCHANGED <<hold_durty, HoldBits>>
      BY <1>3, <2>2 DEF MayWrite, HoldBits, Durable!vars
    <2>3. QED
      BY <1>3, <2>1, <2>2 DEF MayWrite
  <1>4. CASE BeginSave
    BY <1>4 DEF BeginSave, HoldBits, Durable!Next, Durable!Begin
  <1>5. CASE RtcRamWrite
    <2>1. [h \in AUXI_HOLDRELAY |-> IF HoldByte[h] = loop_i THEN bits[h] ELSE rtc_ram[h]]
          = [h \in AUXI_HOLDRELAY |->
                IF HoldByte[h] = loop_i THEN [g \in AUXI_HOLDRELAY |-> bits[g]][h]
                                        ELSE rtc_ram[h]]
      OBVIOUS
    <2>2. Durable!SendByte
      BY <1>5, <2>1 DEF RtcRamWrite, Saves, relayVars, Durable!SendByte
    <2>3. QED
      BY <2>2 DEF Durable!Next
  <1>6. CASE RtcRamWrite_end
    <2>1. loop_i = HoldBytes
      BY <1>1, <1>6, SaveNumbers DEF RtcRamWrite_end, Saves, HoldingInv, SaveExact
    <2>2. Durable!End
      BY <1>6, <2>1 DEF RtcRamWrite_end, relayVars, Durable!End
    <2>3. QED
      BY <2>2 DEF Durable!Next
  <1>7. CASE CmdWriteRegister
    <2>1. rtc_ram' \in [AUXI_HOLDRELAY -> Bit]
      BY <1>1 DEF TypeOK
    <2>2. Durable!Overwrite
      BY <1>7, <2>1 DEF CmdWriteRegister, relayVars, ctlVars, Durable!Overwrite
    <2>3. QED
      BY <2>2 DEF Durable!Next
  <1>8. CASE PlcInit
    <2>1. [h \in AUXI_HOLDRELAY |-> bits[h]]' = rtc_ram
      BY <1>1, <1>8, RestartShape DEF TypeOK
    <2>2. Durable!Restart
      BY <1>1, <1>8, <2>1, RestartShape DEF Durable!Restart
    <2>3. QED
      BY <2>2 DEF Durable!Next
  <1>9. CASE UNCHANGED vars
    BY <1>9 DEF vars, relayVars, latchVars, ctlVars, Durable!vars
  <1>10. QED
    BY <1>1, <1>3, <1>4, <1>5, <1>6, <1>7, <1>8, <1>9 DEF HoldingStep

\* PlcScan implements DurableRelays: the copy changes only by a whole save of
\* the image in order, unless a host overwrites it, and every write owes a save.
THEOREM HoldingRelaysDurable == Spec => KeepsHoldingRelays
  BY DurableInit, DurableNext, HoldingInvariant, PTL DEF Spec, KeepsHoldingRelays,
     Durable!Spec

-----------------------------------------------------------------------------
(* The relay drivers *)

\* Outputs are only latched together with the drivers.
LEMMA OutputsApart ==
    /\ IO_OUTPUT \subseteq Relay
    /\ IO_OUTPUT \subseteq ScanRelays
    /\ IO_OUTPUT \cap (AUXI_HOLDRELAY \cup SPECIAL_RELAY) = {}
    /\ IO_OUTPUT \cap (Timer \cup COUNTER) = {}
    /\ IO_OUTPUT \cap IO_INPUT = {}
  BY ScanAssumption, RelayFacts DEF ScanRelays

\* No instruction and no host command writes an image or a driver.
LEMMA ImagesKept ==
    ASSUME Execute \/ Host \/ plc_timing_tick_process \/ PlcProcess_begin \/ RtcRamWrite
    PROVE  UNCHANGED <<bits_last, io_out>>
  BY DEF Execute, handle_plc_logic, handle_plc_edge, handle_plc_mps,
     handle_plc_mrd_mpp, handle_plc_out, handle_plc_out_t, handle_plc_out_c,
     handle_plc_compare_zone, handle_plc_compare, handle_plc_jmp, EnterLoop,
     handle_plc_bmov, handle_plc_zrst, handle_plc_end, handle_plc_unknown,
     Host, HostSets, digital_write, io_out_convert_bits, CmdPlcWrite,
     CmdWriteRegister, plc_timing_tick_process, PlcProcess_begin, RtcRamWrite,
     latchVars

LEMMA RelaysNext == RelaysShowLastScan /\ [Next]_vars => RelaysShowLastScan'
  <1> SUFFICES ASSUME RelaysShowLastScan, [Next]_vars PROVE RelaysShowLastScan'
    OBVIOUS
  <1> USE DEF RelaysShowLastScan
  <1>1. CASE Execute \/ Host \/ plc_timing_tick_process \/ PlcProcess_begin \/ RtcRamWrite
    BY <1>1, ImagesKept
  <1>2. CASE PlcProcess_finish
    BY <1>2, OutputsApart DEF PlcProcess_finish, RelayImage, Latched
  <1>3. CASE RtcRamWrite_end
    BY <1>3, OutputsApart DEF RtcRamWrite_end, Latched
  <1>4. CASE timing_cell_prcess
    BY <1>4, OutputsApart DEF timing_cell_prcess, EventsLatched, Latched
  <1>5. CASE PlcInit
    <2>1. PICK pins \in [IO_INPUT -> Bit] : bits_last' = PowerOnRelays(pins)
      BY <1>5 DEF PlcInit
    <2>2. \A y \in IO_OUTPUT : bits_last'[y] = 0
      BY <2>1, OutputsApart DEF PowerOnRelays
    <2>3. QED
      BY <1>5, <2>2 DEF PlcInit
  <1>6. CASE UNCHANGED vars
    BY <1>6 DEF vars, latchVars
  <1>7. QED
    BY <1>1, <1>2, <1>3, <1>4, <1>5, <1>6 DEF Next, MainLoop

\* The drivers show the last scan that ended, whatever hosts write meanwhile.
THEOREM DriversExact == Spec => []RelaysShowLastScan
  <1>1. Init => RelaysShowLastScan
    BY OutputsApart DEF Init, RelaysShowLastScan
  <1>2. QED
    BY <1>1, RelaysNext, PTL DEF Spec

-----------------------------------------------------------------------------
(* The images that edge instructions compare with *)

Imaged(S) == \A a \in S : bits[a] = bits_last[a]

\* From the end of the program to the end of the scan the images are exact;
\* between two scans only a host's write can make them differ.
EdgeInv ==
    /\ phase \in {"save", "timing"} => Imaged(ScanRelays)
    /\ phase \in {"save", "timing"} => hold_durty = 0
    /\ EdgeLatches

\* Relays that are neither timers nor counters nor holding relays.
LEMMA ScanApart ==
    /\ ScanRelays \subseteq Relay
    /\ ScanRelays \cap AUXI_HOLDRELAY = {}
    /\ (ScanRelays \cup AUXI_HOLDRELAY) \cap (Timer \cup COUNTER) = {}
    /\ IO_INPUT \cup Settable = ScanRelays \cup AUXI_HOLDRELAY
  <1>1. ScanRelays \subseteq Relay
    BY RelayFacts DEF ScanRelays
  <1>2. ScanRelays \cap AUXI_HOLDRELAY = {}
    BY HoldApart
  <1>3. (IO_INPUT \cup Settable) \cap (Timer \cup COUNTER) = {}
    BY ScanAssumption
  <1>4. IO_INPUT \cup Settable = ScanRelays \cup AUXI_HOLDRELAY
    BY DEF ScanRelays, Settable
  <1>5. QED
    BY <1>1, <1>2, <1>3, <1>4

\* A host's write is remembered.
LEMMA HostTouches ==
    ASSUME HoldingInv, EdgeInv, NEW f, HostSets(f)
    PROVE  EdgeInv'
  <1>1. /\ phase = "idle" /\ phase' = "idle"
        /\ bits_last' = bits_last
        /\ touched' = touched \cup DOMAIN f
        /\ \A a \in Relay : a \notin DOMAIN f => bits'[a] = bits[a]
    BY DEF HostSets, set_bitvals, ctlVars, latchVars
  <1>2. IO_INPUT \cup Settable \subseteq Relay
    BY RelayFacts
  <1>3. QED
    BY <1>1, <1>2 DEF EdgeInv, EdgeLatches

LEMMA EdgeNext == HoldingInv /\ EdgeInv /\ [Next]_vars => EdgeInv'
  <1> SUFFICES ASSUME HoldingInv, EdgeInv, [Next]_vars PROVE EdgeInv'
    OBVIOUS
  <1>1. CASE Execute
    <2>1. phase' \notin {"save", "timing", "idle"}
      BY <1>1 DEF Execute, handle_plc_logic, handle_plc_edge, handle_plc_mps,
         handle_plc_mrd_mpp, handle_plc_out, handle_plc_out_t, handle_plc_out_c,
         handle_plc_compare_zone, handle_plc_compare, handle_plc_jmp, EnterLoop,
         handle_plc_bmov, handle_plc_zrst, handle_plc_end, handle_plc_unknown,
         Executing, Advance, StopAt, LoopBody, LeaveLoop
    <2>2. QED
      BY <2>1 DEF EdgeInv, EdgeLatches
  <1>2. CASE plc_timing_tick_process
    BY <1>2 DEF plc_timing_tick_process, EdgeInv, EdgeLatches
  <1>3. CASE PlcProcess_begin
    BY <1>3 DEF PlcProcess_begin, EdgeInv, EdgeLatches
  <1>4. CASE PlcProcess_finish
    <2>1. \A a \in ScanRelays : bits'[a] = bits_last'[a]
      BY <1>4, ScanApart DEF PlcProcess_finish, Latched
    <2>2. QED
      BY <1>4, <2>1 DEF PlcProcess_finish, EdgeInv, EdgeLatches, Imaged
  <1>5. CASE RtcRamWrite
    BY <1>5 DEF RtcRamWrite, EdgeInv, EdgeLatches, Imaged, relayVars
  <1>6. CASE RtcRamWrite_end
    <2>1. \A a \in ScanRelays : bits'[a] = bits_last'[a]
      BY <1>6, ScanApart DEF RtcRamWrite_end, Latched, EdgeInv, Imaged, relayVars
    <2>2. QED
      BY <1>6, <2>1 DEF RtcRamWrite_end, EdgeInv, EdgeLatches, Imaged, relayVars
  <1>7. CASE timing_cell_prcess
    <2>1. \A a \in AUXI_HOLDRELAY : bits[a] = bits_last[a]
      BY <1>7 DEF timing_cell_prcess, EdgeInv, HoldingInv, HoldDirtyCovers
    <2>2. \A a \in ScanRelays \cup AUXI_HOLDRELAY : bits[a] = bits_last[a]
      BY <1>7, <2>1 DEF timing_cell_prcess, EdgeInv, Imaged
    <2>3. \A a \in ScanRelays \cup AUXI_HOLDRELAY :
              bits'[a] = bits[a] /\ bits_last'[a] = bits_last[a]
      BY <1>7, ScanApart, HoldApart DEF timing_cell_prcess, TimerEvents,
         EventsLatched, Latched
    <2>4. QED
      BY <1>7, <2>2, <2>3, ScanApart DEF timing_cell_prcess, EdgeInv, EdgeLatches
  <1>8. CASE digital_write \/ io_out_convert_bits
    BY <1>8, HostTouches DEF digital_write, io_out_convert_bits
  <1>9. CASE CmdPlcWrite \/ CmdWriteRegister
    BY <1>9 DEF CmdPlcWrite, CmdWriteRegister, EdgeInv, EdgeLatches, Imaged,
       relayVars, latchVars, ctlVars, histVars
  <1>10. CASE PlcInit
    <2>1. PICK pins \in [IO_INPUT -> Bit] :
              /\ bits' = [PowerOnRelays(pins) EXCEPT ![SPECIAL_RELAY_BASE] = 1]
              /\ bits_last' = PowerOnRelays(pins)
      BY <1>10 DEF PlcInit
    <2>2. \A a \in Relay : a # SPECIAL_RELAY_BASE => bits_last'[a] = bits'[a]
      BY <2>1 DEF PowerOnRelays
    <2>3. phase' = "idle" /\ touched' = {SPECIAL_RELAY_BASE}
      BY <1>10 DEF PlcInit
    <2>4. QED
      BY <2>2, <2>3, ScanApart, HoldApart DEF EdgeInv, EdgeLatches
  <1>11. CASE UNCHANGED vars
    BY <1>11 DEF vars, relayVars, latchVars, ctlVars, histVars, EdgeInv, EdgeLatches,
       Imaged
  <1>12. QED
    BY <1>1, <1>2, <1>3, <1>4, <1>5, <1>6, <1>7, <1>8, <1>9, <1>10, <1>11
       DEF Next, MainLoop, Host

\* When a scan begins, a relay differs from its image only if a host wrote it
\* since, or it is the first special relay after a reset.
THEOREM EdgesExact == Spec => []EdgeLatches
  <1>1. Init => EdgeInv
    BY DEF Init, EdgeInv, EdgeLatches
  <1>2. EdgeInv => EdgeLatches
    BY DEF EdgeInv
  <1>3. QED
    BY <1>1, <1>2, EdgeNext, HoldingInvariant, PTL DEF Spec
-----------------------------------------------------------------------------
(* The edges a program sees *)

\* The images that are copied behind the others at the end of a scan.
Later ==
    CASE phase = "save"   -> AUXI_HOLDRELAY \cup Timer \cup COUNTER
      [] phase = "timing" -> Timer \cup COUNTER
      [] OTHER            -> {}

\* The images are what the program of the last scan left, and while the scan
\* still ends the relays whose images are to follow have not moved since.
LastScanInv ==
    /\ \A a \in Relay : a \notin Later => bits_last[a] = ended[a]
    /\ phase \in {"save", "timing"} => bits = ended

\* Most steps neither end a scan nor touch an image.
LEMMA LastScanKept ==
    ASSUME LastScanInv, UNCHANGED <<bits_last, ended>>,
           \/ UNCHANGED <<bits, phase>>
           \/ phase \notin {"save", "timing"} /\ phase' \notin {"save", "timing"}
    PROVE  LastScanInv'
  BY DEF LastScanInv, Later

\* The steps before the end of a scan, and those between two scans.
LEMMA LastScanElsewhere ==
    ASSUME LastScanInv,
           Execute \/ Host \/ plc_timing_tick_process \/ PlcProcess_begin
    PROVE  LastScanInv'
  <1>1. UNCHANGED bits_last
    BY ImagesKept
  <1>2. /\ UNCHANGED ended
        /\ phase \notin {"save", "timing"} /\ phase' \notin {"save", "timing"}
    BY DEF Execute, handle_plc_logic, handle_plc_edge, handle_plc_mps,
       handle_plc_mrd_mpp, handle_plc_out, handle_plc_out_t, handle_plc_out_c,
       handle_plc_compare_zone, handle_plc_compare, handle_plc_jmp, EnterLoop,
       handle_plc_bmov, handle_plc_zrst, handle_plc_end, handle_plc_unknown,
       Executing, Advance, StopAt, LoopBody, LeaveLoop, Host, HostSets, digital_write,
       io_out_convert_bits, CmdPlcWrite, CmdWriteRegister, plc_timing_tick_process,
       PlcProcess_begin, ctlVars, histVars
  <1>3. QED
    BY <1>1, <1>2, LastScanKept

\* The program has ended: its relays are what the images are compared with from
\* now on, and a scan without a save finds the holding relays unchanged.
LEMMA LastScanEnds == ASSUME HoldingInv, PlcProcess_finish PROVE LastScanInv'
  <1>1. /\ phase = "finish" /\ phase' \in {"save", "timing"}
        /\ bits' = bits /\ ended' = bits
        /\ \A a \in Relay : bits_last'[a] = IF a \in ScanRelays THEN bits[a] ELSE bits_last[a]
    BY DEF PlcProcess_finish, Latched
  <1>2. phase' = "timing" => \A h \in AUXI_HOLDRELAY : bits[h] = bits_last[h]
    <2>1. phase' = "timing" => hold_durty = 0
      BY DEF PlcProcess_finish, HoldingInv, TypeOK, Bit
    <2>2. QED
      BY <1>1, <2>1 DEF HoldingInv, HoldDirtyCovers
  <1>3. Relay = ScanRelays \cup AUXI_HOLDRELAY \cup Timer \cup COUNTER
    BY ScanApart DEF Relay
  <1>4. \A a \in Relay : a \notin Later' => bits_last'[a] = bits[a]
    <2>1. CASE phase' = "save"
      BY <1>1, <1>3, <2>1 DEF Later
    <2>2. CASE phase' = "timing"
      BY <1>1, <1>2, <1>3, <2>2 DEF Later
    <2>3. QED
      BY <1>1, <2>1, <2>2
  <1>5. QED
    BY <1>1, <1>4 DEF LastScanInv

LEMMA LastScanNext == HoldingInv /\ LastScanInv /\ [Next]_vars => LastScanInv'
  <1> SUFFICES ASSUME HoldingInv, LastScanInv, [Next]_vars PROVE LastScanInv'
    OBVIOUS
  <1>1. CASE Execute \/ Host \/ plc_timing_tick_process \/ PlcProcess_begin
    BY <1>1, LastScanElsewhere
  <1>2. CASE PlcProcess_finish
    BY <1>2, LastScanEnds
  <1>3. CASE RtcRamWrite
    <2>1. UNCHANGED <<bits, bits_last, ended, phase>>
      BY <1>3 DEF RtcRamWrite, relayVars, histVars
    <2>2. QED
      BY <2>1, LastScanKept
  <1>4. CASE RtcRamWrite_end
    <2>1. /\ phase = "save" /\ phase' = "timing"
          /\ bits' = bits /\ ended' = ended
          /\ \A a \in Relay : bits_last'[a] = IF a \in AUXI_HOLDRELAY THEN bits[a]
                                               ELSE bits_last[a]
      BY <1>4 DEF RtcRamWrite_end, Latched, relayVars
    <2>2. bits = ended
      BY <2>1 DEF LastScanInv
    <2>3. QED
      BY <2>1, <2>2 DEF LastScanInv, Later
  <1>5. CASE timing_cell_prcess
    <2>1. /\ phase = "timing" /\ phase' = "idle" /\ ended' = ended
          /\ \A a \in Relay : bits_last'[a] = IF a \in Timer \cup COUNTER THEN bits[a]
                                               ELSE bits_last[a]
      BY <1>5 DEF timing_cell_prcess, EventsLatched, Latched, histVars
    <2>2. bits = ended
      BY <2>1 DEF LastScanInv
    <2>3. Later = Timer \cup COUNTER /\ Later' = {}
      BY <2>1 DEF Later
    <2>4. QED
      BY <2>1, <2>2, <2>3 DEF LastScanInv
  <1>6. CASE PlcInit
    <2>1. bits_last' = ended' /\ phase' = "idle"
      BY <1>6 DEF PlcInit
    <2>2. QED
      BY <2>1 DEF LastScanInv, Later
  <1>7. CASE UNCHANGED vars
    BY <1>7, LastScanKept DEF vars, relayVars, latchVars, ctlVars, histVars
  <1>8. QED
    BY <1>1, <1>2, <1>3, <1>4, <1>5, <1>6, <1>7 DEF Next, MainLoop

\* An edge instruction compares with what the program of the last scan left: what
\* an input, a host or a timer changes between two scans is an edge in the next
\* one and only there (plc_command_finished, timing_cell_prcess, PlcInit).
THEOREM EdgesOnce == Spec => []EdgesSinceLastScan
  <1>1. Init => LastScanInv
    BY DEF Init, LastScanInv, Later
  <1>2. TypeOK /\ LastScanInv => EdgesSinceLastScan
    <2> SUFFICES ASSUME TypeOK, LastScanInv, phase \in {"run", "bmov", "zrst"},
                        NEW a \in Relay
                 PROVE  /\ Rising(a)  = 1 <=> ended[a] = 0 /\ bits[a] = 1
                        /\ Falling(a) = 1 <=> ended[a] = 1 /\ bits[a] = 0
      BY DEF EdgesSinceLastScan
    <2>1. bits_last[a] = ended[a]
      BY DEF LastScanInv, Later
    <2>2. QED
      BY <2>1 DEF Rising, Falling, Truth, get_bitval, get_last_bitval
  <1>3. QED
    BY <1>1, <1>2, LastScanNext, HoldingInvariant, TypeCorrect, PTL DEF Spec

=============================================================================
