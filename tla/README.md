# A verification project for the network relay controller

The firmware under `src/TCPIP Demo App` turns a PIC18F97J60 board into a small
programmable logic controller (PLC) with relays, isolated inputs, a real-time clock and
an Ethernet port. A user program in EEPROM is interpreted once per turn of the main loop;
hosts read and write the controller's memory over TCP, UDP and Modbus; a serial port is
bridged to a TCP connection. The modules here model the controller's own logic and those
parts of the vendor's TCP/IP stack (`src/Microchip/TCPIP Stack`) on which it depends most:
the tick counter, the EEPROM driver, a TCP server socket, DHCP, name resolution and
dynamic DNS.

## 1. Inventory

| Component | Source | State | Operations | Modelled |
|---|---|---|---|---|
| Scan cycle and interpreter | `plc_prase.c` | relay arrays and their `_last` images, registers, `bit_acc`, bit stack, `plc_command_index`, `plc_cpu_stop` | `PlcInit`, `PlcProcess`, one handler per instruction | `PlcScan`, all but `MOV` |
| Multi-byte comparisons | `plc_prase.c` | none | `handle_plc_bcmp`, `bacmp`, `bzcp`, `bazcp` | `PlcCompare`, `PlcCompareRef` |
| Timers and time bases | `plc_prase.c`, `Tick.c` | `tim100ms_arrys`, `tim1s_arrys`, come-flags, `last_tick`, `last_tick1s`, `rtc_reg` | `plc_timing_tick_process`, `plc_rtc_tick_process`, `timing_cell_*` | `PlcTimer`, `TimingCell` |
| Holding relays | `plc_prase.c`, `DS1302.c` | `hold_register_map`, its image, `hold_durty`, the DS1302's 31 bytes of battery-backed RAM | `RtcRamRead` at power-on, `RtcRamWrite` after a dirty scan | `PlcScan`, `DurableRelays` |
| Board interface | `hal_io_interface.c` | output latches | `phy_io_out_set_bits`, `io_out_*`, input reading, program store | effects on PLC memory only |
| Command set | `tcp_cmd_prase_handle.c` | the controller's memory, the EEPROM | `CmdRxPrase` and a handler per command | the state-changing commands, as host actions |
| TCP command sockets | `tcp_cmd_task.c` | three sockets, a 64-byte buffer | `GetTcpRxHandle` | no, see section 7 |
| Modbus TCP | `modbus_imp.c` | one socket, a 32-byte buffer | `ModbusTcpRxHandle`, coil and register functions | `ForceSingleCoil`, as a host write |
| UART to TCP bridge | `UART2TCPBridge.c`, `serial_comm_packeter.c` | one receive and one send packet, `pcurrent_rx`, `pcurrent_tx`, `TX2IE` | `UART2TCPBridgeISR2`, `UART2TCPBridgeTask2`, `pack_rx_timetick` | `SerialBridge` |
| Tick counter | `Tick.c` | the hardware timer, `dwInternalTicks`, `vTickReading` | `TickUpdate`, `TickGet` from two levels of interrupt | `TickCounter` |
| Boot and configuration | `MainDemo.c`, `SPIEEPROM.c`, `CustomHTTPApp.c`, `debug.c` | `AppConfig`, its record in the EEPROM, the driver's page buffer | `InitAppConfig`, `SaveAppConfig`, discovery, the configuration form, `io_out_hold` | `ConfigStore` |
| Reset key | `debug.c` | `KeySM`, `StartTime` | `ResetTask` | `ResetKey` |
| Run LED | `debug.c` | `led_work_mode`, `led_flash_times`, `LedSm` | `TaskLedFlash`, `set_led_flash_int` | `LedFlash` |
| TCP server socket | `TCP.c` | `TCB_STUB`, `TCB`, two ring buffers | `HandleTCPSeg`, `SendTCP`, `TCPTick`, the application's calls | `TcpSocket` |
| DHCP client | `DHCP.c`, `StackTsk.c` | `smDHCPState`, lease, offered address | `DHCPTask`, `_DHCPReceive`, `StackTask` without a link | `DhcpClient` |
| Name resolution and users | `DNS.c`, `SNTP.c`, `SMTP.c`, `TCP.c` | `smDNS`, `Flags`, `ResolvedInfo` | `DNSBeginUsage`, `DNSResolve`, `DNSIsResolved`, `DNSEndUsage` and who calls them | `NameResolver` |
| Dynamic DNS client | `DynDNS.c` | `smDDNS`, socket, known address | `DDNSTask` | `DynDns` |
| UART 1 bridge | `UART1TCPBridge.c` | - | - | no: compiled out |
| Temperature sensor | `DS18B20.c` | - | bit-level one-wire I/O | no |
| Web pages | `CustomHTTPApp.c`, `MPFSImg2.c`, ... | - | - | the configuration form and the reboot page only |
| Rest of the TCP/IP stack | `src/Microchip` | - | - | no, see section 7 |

### How the parts interact

`main` (`MainDemo.c` 328-432) calls every task in turn and no task blocks. Within one turn
the stack and the command tasks run first: they write relays, registers, the program and
the clock directly. Then `plc_timing_tick_process` and `PlcProcess` run a whole scan. Only
interrupts come in between: the timer's overflow (low priority, `TickUpdate`) and UART 2
(high priority, `UART2TCPBridgeISR2`, which calls `TickGet` and `set_led_flash_int`). A
host command is therefore atomic with respect to a scan, but a scan sees the memory as any
sequence of commands left it, and what the interrupts share with the main loop (the
bridge's packets, the tick counter, the LED's settings) is shared statement by statement.
Power may fail anywhere: the DS1302's RAM and the EEPROM survive.

The tasks of the stack share resources by hand. One DNS module serves SNTP, mail and
client sockets behind one flag; mail and dynamic DNS share one TCP client socket; DHCP
changes the address that discovery and the configuration form also write; all of them are
called once per turn and keep a state number between two calls.

### What is hard, and what makes each part correct

- *Order inside `PlcProcess`.* Inputs are latched at its head, outputs and images at its
  end, events of timers are imaged before the timers move. If a copy is missing or comes
  too late, an edge instruction repeats or misses an edge: `EdgeLatches`,
  `EdgesSinceLastScan`,
  `RelaysShowLastScan`.
- *Power failure.* The DS1302's RAM is written byte by byte: `RamHoldsLast`,
  `HoldDirtyCovers`, `DirtyIsSaved`, and the abstract promise `DurableRelays`. The
  configuration is written page by page, by five writers: `SavedStays`, `SaveInOrder`,
  `BootsWithSaved`, `ComesUpEach`; and the disproved `ValidMeansWhole`.
- *Long sequences of legal instructions.* Starting, stopping, expiring and host writes to
  one timer or counter in any order: `StoppedTimerClear`, `TimerEventMeansExpired`,
  `CounterEventExact`.
- *Clocks.* A late main loop, a counter that wraps, seconds that are polled and may be set
  meanwhile: `TimeConserved`, `NeverEarly`, `SecondsNotInvented`, `Expire`; a key that is
  looked at only now and then: `ResetMeansHeld`, `HeldResets`.
- *Interrupt against main loop.* Packets without a lock: `RxInOrder`, `TxExact`, `Served`
  and the disproved `TickPointerValid`; a counter read in three pieces: `TicksConserved`,
  `ReadingExact`, `ReadEnds` and the disproved `ReadReturns`; the LED: `FlashCounted`.
- *An unreliable network.* Segments lost, doubled, reordered, overlapping; a peer that
  goes away: `ReadsStream`, `SendsStream`, `AcksWhatItHolds`, `Freed` and the disproved
  `ResendsStream` and `GivesUpLast`. Offers and acknowledgements lost, late or for
  others: `BoundOnLease`, `RenewsOwnAddress`, `Rebinds`.
- *State machines that share one resource.* `OwnAddress`, `ModuleFreed`,
  `DdnsExchangesEnd` and the disproved `Propagates`.
- *Limits.* The bit stack's pointer is an unsigned char without an underflow check,
  addresses wrap at 2^16: `TypeOK`. Comparisons of several bytes: `ComparesNumbers`.
- *Termination.* A scan ends only if the user's program does: `ScanEnds` is about programs
  that have an end, and nothing covers the others.

`PROJECT.json` lists the hazards at their lines, including those no property covers yet.
Some more were met and are not listed there, because they are variants of a listed one or
because the code promises nothing about them: a processor that stopped on an error starts
again in the next scan (`plc_prase.c` 1592); a program is downloaded packet by packet
while it runs between the packets (`tcp_cmd_prase_handle.c` 598); the exchange identifier of
discovery never differs from 0 while a telegram can arrive, so a repeated apply telegram
is obeyed again (`debug.c` 466); a dynamic DNS update that failed is not retried until the
address changes again (`DynDNS.c` 417), and an answer found in the same call as the
time-out can open a second connection over the handle of the first (`DynDNS.c` 346).

## 2. Modules

| Module | Contents |
|---|---|
| `PlcScan` | The scan cycle: power-on, time pulses, input latch, an action per kind of instruction, output latch, save, timers; host commands between scans; power failure at any step. |
| `MCPlcScan` | Small relay layouts and user programs for TLC. |
| `DurableRelays` | Abstract: an image in memory and a copy that survives. `PlcScan` implements it. |
| `TimingCell` | One timer cell, as operators. Used by `PlcScan` and `PlcTimer`. |
| `PlcCompare`, `PlcCompareRef` | The comparison loops as operators; the same on numbers, as the reference. |
| `PlcTimer` | The two clocks, the pulses derived from them, and timer cells under an arbitrary program. |
| `SerialBridge` | The UART interrupt against the bridge's main-loop task. |
| `TickCounter` | The hardware timer, the overflow interrupt and `GetTickCopy` at two priorities. |
| `ConfigStore` | `AppConfig`, its EEPROM record, the page driver and every writer; power failure in any write cycle. |
| `ResetKey`, `LedFlash` | The two state machines of `debug.c`. |
| `MCBoard` | TLC: `ConfigStore`, `TickCounter`, `ResetKey`, `LedFlash` and `PlcCompareRef` as parts of one run. |
| `TcpSocket`, `MCTcp` | One server socket, its peer and the network; its data for TLC. |
| `DhcpClient` | `DHCPTask`, its servers and the network. |
| `MCClocks` | TLC: `PlcTimer` twice (100 ms and 1 s timers) and `DhcpClient` as parts of one run. |
| `NameResolver` | `DNS.c` and the three tasks that take turns with it. |
| `DynDns` | `DDNSTask`, its client socket and the mail client that shares it. |
| `MCNet` | TLC: `SerialBridge`, `NameResolver` and `DynDns` as parts of one run. |
| `PlcScanProofs` | Proofs about `PlcScan`: types. |
| `HoldingProofs` | Holding relays and the refinement of `DurableRelays`; images, drivers and the edges a program sees. |
| `CellProofs` | Timers and counters. |
| `ClockProofs` | Proofs about `PlcTimer`. |
| `NetProofs` | Proofs about `SerialBridge`, `NameResolver` and `DhcpClient`. |
| `ConfigProofs` | Proofs about `ConfigStore`. |
| `BoardProofs` | Proofs about `TickCounter`, `ResetKey`, `LedFlash`, `PlcCompareRef`. |
| `TcpProofs` | Proofs about `TcpSocket`. |

`MCBoard`, `MCClocks` and `MCNet` each put parts together that share no variable. A
variable `part` chooses at the start which one moves; the others stay at their initial
state. The state space is the sum and not the product of the parts, each is explored in
full, and because one part moves for ever, a fairness condition of one part can share a
`WF` with a condition of another: the disjuncts for the parts that do not move are never
enabled. Interleaving these parts would add nothing, because they share no state.

### How the state and the actions correspond to the code

**PlcScan.** `bits` is `inputs_new`, `output_new`, `auxi_relays`, `hold_register_map`,
`speicial_relays` and the event bits of timers and counters, as one function on bit
addresses; `bits_last` is the arrays ending in `_last` (and the event images of the
cells). `counter`, `enable_bits`, `last_trig_bits`, the come-flags, `hold_durty`,
`bit_acc`, `bit_stack`, `bit_stack_sp`, `plc_command_index` and `plc_cpu_stop` are the
variables of the same name. `rtc_ram` is the DS1302's RAM, `io_out` the relay drivers,
`rom` the program, `regs` the byte registers that comparisons read. `phase` and `loop_i`
say where the main loop is; they make every step after which power may fail an action of
its own: each byte of `RtcRamWrite`, each relay of `BMOV` and `ZRST`, each instruction.
`touched`, `ram_foreign` and `ended` (the relays as the last program left them) are history
variables.

| Action | Code |
|---|---|
| `plc_timing_tick_process` | the function; whether a pulse is due is left open here and modelled in `PlcTimer` |
| `PlcProcess_begin` | the head of `PlcProcess`: input latch, index and stop flag cleared |
| `handle_plc_*`, `EnterLoop` | one turn of the interpreter's `switch`; opcodes that share a handler or a form share an action |
| `PlcProcess_finish` | `plc_command_finished`: relay drivers, images, dirty flag |
| `RtcRamWrite`, `RtcRamWrite_end` | one byte of the save; the copy of the image after it |
| `timing_cell_prcess` | event images, then both loops over timer cells |
| `digital_write`, `io_out_convert_bits`, `CmdPlcWrite`, `CmdWriteRegister` | host commands, between scans |
| `PlcInit` | reset or power-on: C start-up, `RtcRamRead`, `PlcInit` |

An instruction is one cell whatever its length in bytes, so a jump into the middle of an
instruction is not modelled. A read past the bit stack yields any bit. The byte registers
change arbitrarily between scans. The holding bits of timer cells are left out, because
`handle_plc_out_t`, their only user, passes 0. Nothing of the wire protocol of the DS1302
or of the program's EEPROM is modelled: a byte is written or not.

**PlcTimer.** Variables have the code's names; `clock` is `TickGet()`, `rtc` the seconds
in the chip and `rtc_reg` their image. `PlcInit` includes `DS1302_Init`, which `main` calls
before it and which sets the seconds anew (`RtcStart`, 8 on the board). `unseen`, `preset`, `head` and `age` are history:
seconds the firmware has not polled, the preset of a running timer, the time that was
already due when it started, and the true time since. `timing_cell_prcess` is one step
with no clock tick inside, which is sound because it reads only the flags.

**SerialBridge.** `pc` names the next statement of the main loop that touches something
shared; the interrupt actions are enabled at every `pc`. A packet's buffer and index are
the sequence of its bytes. Bytes are numbered in order of arrival, so loss, duplication
and reordering are visible. The socket has room for any number of bytes, and the client
comes and goes. A read through the NULL pointer gives either answer; the write through it,
which goes to address 0, is not modelled.

**TickCounter.** `TMR0` is the 16-bit timer, `TMR0H` the register that a read of the low
byte latches; each byte takes `Half` values. `SetIE`, `ReadTMR0L`, `ReadTMR0H`,
`ReadTicks`, `Repeat` and `Return` are the statements of `GetTickCopy` and `TickGet`, for
each of the two callers, and `reading` says at which one a caller is; `vTickReading` is the one static buffer both use. `TickUpdate` is
`LowISR`, in two steps because the receive interrupt may come between the count and the
clearing of the flag. The timer does not overflow while an overflow is waiting: that would
take 1.6 seconds with the interrupt disabled, and the code would lose the second one. The
guard of `Tick` is this assumption; `TicksConserved` and `ReadingExact` rest on it.

**ConfigStore.** `eeprom` is the chip, `cycle` the write cycle it is busy with,
`EEPROMAddress` and `EEPROMBuffer` the driver's variables, `to_write` and `and_then` the
rest of the caller of `XEEWrite`. Three fields of `AppConfig` stand for the record: the
first, one whose value changes what the others mean (DHCP enabled), and the last, whose address is also
`io_out_hold`'s. With the validity byte they cover more than one page. `PowerFail` leaves any part of
a write cycle done. The form of the web page works on `app`, the shadow copy. `base`, `attempt`,
`whole` and `intact` are history: what a save began from and wants to reach.

| Action | Code |
|---|---|
| `InitAppConfig` | the function: a valid record is loaded, else the defaults are saved |
| `XEEWrite`, `XEEEndWrite`, `DoWrite`, `WriteDone` | `SPIEEPROM.c`, one byte or one page at a time |
| `DiscoverTask`, `DiscoverySaveConfig` | `DiscoverTask` and the apply telegram, which saves and resets |
| `DHCPBound` | the lease goes into `AppConfig` only |
| `PostStart`, `PostValue`, `PostFailure`, `PostSuccess` | `HTTPPostConfig` |
| `HTTPPrint_reboot` | the page that restarts the board |
| `set_io_out_power_down_hold` | the host command |
| `ResetToDefaultConfig` | the reset key: the validity byte is cleared, then `Reset()` |

**ResetKey.** `ClockTicks` is the tick counter, `Key` the finger. One action per state of `ResetTask` and one for each of its branches that
resets. `turn` bounds how long a turn of the main loop takes; `lows` and `up` are history.
**LedFlash.** `TaskLedFlash` is one step per call, but for the branch that counts a flash:
`Load`, `Store`, `Test`, `Finish`, `Restart` are its statements, and the receive interrupt
may call `set_led_flash_int` between any two of them.

**TcpSocket.** `tcb` is `TCB_STUB` and `TCB` together, as a record with the code's field
names. `SendTCP`, `CloseSocket`, `Disconnect`, `RollBack` and the parts of `HandleTCPSeg`
are functions from one `tcb` to the next; the actions apply them. A segment sent goes into
`out`; `Heard` is the set of states the peer may be in after hearing any part of it. Ring positions count from the start of their
buffers. The parts of `SendTCP` have names: whether a segment goes out and with which flags
(`Control`, `FinDue`, `Pending`, `HeaderFlags`), how much of the ring it takes
(`EffectiveWindow`, `Fitting`, `DataLen`), what it leaves behind (`Counts`, `Probes`,
`Stalled`, `Turns`, `Repeats`) and the `Segment` itself. `TCPProcess` handles every segment that a correct peer could ever have sent so
far (`Arriving`): any slice of its stream with any acknowledgement and window it has ever
advertised, SYN, FIN and RST. `TickTransmit`, `TickCloseWait`, `TickKeepAlive` and
`TickTimer` are what `TCPTick` does; a timer that runs may expire at any tick, and three
timers that only make `TCPTick` acknowledge are one flag. `retryInterval` is not modelled. One tick
is left out with it: when `retryCount` has been rolled back so often that
`retryInterval` is 0 (`TCP.c` 2760), a tick that has just sent finds its timer expired
again. `Put`, `TCPGetArray` and
`TCPDisconnect` are the application; a `Put` on a socket that is not connected takes no
byte and flushes what waits. Left out: the connection states of client sockets,
the queue of SYNs, `TCPAdjustFIFOSize`, `TCPDiscard`, SSL.

**DhcpClient.** One action per state of `DHCPTask`, with `tx` for `UDPIsPutReady`; a state
that falls through into the next is in one action with it (`Request`, `Renew`).
`DHCPReceive` is `_DHCPReceive`: it stores the address and, for this board, the lease time before it
looks at the server. Every message carries the same transaction identifier, because `DHCP.c` 809 gives
it a constant; the model has no variable for it. `Receive`, `Answer`, `Lose`, `Link`
and `Second` are the network, the servers and time.

**NameResolver.** `smDNS` with the code's states; `Resolving`, `Resolved`, `Abandon` are
what a call of `DNSIsResolved` or `DNSEndUsage` may do. Of `SNTPClient`, `SMTPTask` and the
client socket in `TCPTick` the states that take, use and give back the module are modelled
one by one, and the exchanges that follow are one step each.

**DynDns.** `smDDNS` is a number, because the code counts it up and falls through; the
cases are `CheckIpDisconnect`, `FindAddress`, `FindDelimiter`, `UpdateDisconnect`, ... and
are composed as the fall-through composes them. `Network` and `Mail` move the one client
socket under the task's feet. What the task reads through an invalid handle is arbitrary.

## 3. Runs

| Run | Question | Bounds |
|---|---|---|
| `scan_relays` | Do images, drivers and the battery-backed copy stay consistent, and is `DurableRelays` implemented? | one or two relays of each kind, two special ones, seven programs covering the relay instructions, one without `END`, a download, host writes, host RAM writes |
| `scan_cells` | Do counts and events agree, do variables keep their widths, does a scan end and a dirty relay reach the chip? | one timer of each kind and one counter, presets up to 2, programs with wrong operands, pushes and pops that are not balanced, a download that lowers a preset, host writes |
| `clocks` | Are the time bases exact, does a timer expire, does the DHCP client keep to its lease and come back? | both parts have a 100 ms and a 1 s timer. First part: tick counter of 8 values, period 2, lateness up to 4, presets 0 and 3; second part: clock of 3 seconds, settable to 0 until a timer is 1 second old, up to 2 changes between polls, preset 2, tick counter of 4, period 1; DHCP: two servers, a lease of 3 seconds, a third of it unused, a reply up to 1 second late, one on its way |
| `board` | Configuration, tick counter, reset key, LED, comparisons | pages of 3 bytes, two addresses, two MAC bytes; timer bytes of 2 values, 9 ticks; tick span 8, hold 3, turns up to 4; 2 and 3 flashes; all operands of two bytes with three values |
| `net` | Bridge, name resolution, dynamic DNS | packet of 2 bytes, 4 bytes from the line, 3 from the client; three users of the resolver; two public addresses |
| `tcp` | Are both streams exact, and is the socket free again? | rings of 2 and 3 bytes, window 2, segments of 1 byte, streams of 1+1, 2+0, 0+4 bytes, 2 retries |
| `bridge_null` | refuted: the NULL test of `pack_rx_timetick` protects its use | as the bridge in `net`, 5 bytes |
| `tick_hang` | refuted: `TickGet` returns, whoever calls it | as in `board` |
| `config_torn` | refuted: the validity byte means a whole record | as in `board` |
| `tcp_fin` | refuted: retransmissions use the right sequence number | as `tcp`, segments of 4 bytes |
| `tcp_giveup` | refuted: a connection is not given up without a retransmission | as `tcp` |
| `ddns_unsent` | refuted: a changed address is propagated | as in `net` |

### Why these bounds are enough

The relay arrays differ only in who may write them and when they are copied, so one relay
per array (two holding relays, in two bytes, so that a save has a middle) gives every
combination of writer and copy. `WordSpan` is 16 so that addresses past the last relay
exist and address arithmetic wraps; `RomSize` 7 holds every program and lets the fetch run
over the end. `BIT_STACK_LEVEL` 2 with `SpSpan` 4 keeps what matters of 32 and 256: a
pointer that can leave the stack on both sides and wraps to a value above it. Presets of 2
distinguish "first", "last" and "past the preset".

A tick counter of 8 with period 2 wraps in the middle of a period and at its ends;
`MaxLag` lets two periods pile up. A timer of two bytes of two values overflows twice in 9
ticks, once in each part of a reading. A page of 3 bytes puts a page boundary inside the record of
4, as the 64-byte page does to the real one. A key span of 8 with a hold of 3 wraps inside the hold.
Comparisons: two bytes of three values reach every order of the high and the low byte. A
bridge packet of two bytes can be empty, open and full, and four bytes from the line
overrun it in every phase of the task. The TCP rings wrap within the streams, the receive
stream is longer than the ring and a hole can open, be joined and overlap; one-byte
segments make a window take several. `Shave` equal to `Lease` leaves one
second of a lease unused, so the client renews with as little as possible in hand; `MaxLate` 1
lets a reply outlive its request.

`MaxLag`, `MaxUnseen`, `MaxAge`, `MaxSetAge`, `MaxLine`, `MaxClient`, `MaxNow`, `MaxTurn`,
`MaxLate`, `MaxFlight` and the lengths in `Streams` bound the environment only, never the code's actions.
`MaxAge` stops the seconds chip from being watched for ever; it is larger than any age a timer
needs to expire with the pulses that may be missed. The runs `scan_relays`, `scan_cells` and
`bridge_null` check deadlock as well. The others do not, because there the world may stop
at a bound: no more ticks after `MaxNow`, a peer that is gone, a client in the state
without a case.

### Fairness

The steps of the main loop are weakly fair in every module: `main` is an endless loop
whose tasks never block. That includes the steps of the user's program, which the
processor simply executes; a program that loops for ever is the reason `ScanEnds` is stated
for programs that end. Hardware clocks and time-outs are weakly fair, being time. Beyond
that:

- `SerialBridge`: the transmitter interrupt is weakly fair, because the UART raises it
  whenever its register is empty and it is enabled.
- `TickCounter`: `TickUpdate` and the main loop's `TickGet` are strongly fair. The receive
  interrupt can hold them up again and again, but a byte takes 10 bit times on the line,
  thousands of instructions, so they are not held up whenever they would run.
- `ConfigStore`: the chip ends its write cycles and the driver goes on; power failures may
  recur for ever, and `ComesUpEach` is about what follows the last.
- `TcpSocket`: only `TCPTick`, and only once the peer is gone. Nothing is assumed of
  peer, network or application.
- `DhcpClient`: servers answer and messages arrive, but only `calm`, from some time on or
  never; what the client does before is arbitrary.
- `NameResolver`: the tasks that wait for the module are called again, and time passes; no
  answer is ever due. `DynDns`: the task is called and time passes; connections, servers
  and the mail client owe nothing.

Nothing is assumed of hosts, clients, the serial line, the program's use of timers or the
power supply. In the scan, liveness holds although power may fail again and again, because
each property is satisfied by the restart itself (`DirtyIsSaved` by reading the old value
back). `Expire` speaks of a 1 s timer from when nobody sets the clock chip any more.

## 4. What the refuted runs show

- `bridge_null`. `pack_rx_timetick` tests `rx_ctl.pcurrent_rx`, then loads it again. A
  byte that arrives in between, while the only packet is finished, makes `pack_prase_in`
  store NULL, and the main loop reads and may write through it.
- `tick_hang`. `GetTickCopy` waits until the overflow flag is clear and lets the
  low-priority interrupt clear it. `pack_prase_in` calls `TickGet` in the high-priority
  one: a byte that arrives just after an overflow stops the board.
- `config_torn`. `SaveAppConfig` writes the byte that says "valid" first. After a power
  failure between two pages the board boots with half a record, or, when new, with
  the chip's blank bytes.
- `tcp_fin`. When everything is sent again, `MySEQ` is rolled back by the data only, and
  the FIN's number is taken off only from a segment that carries the FIN. If the data just fills the
  window, the FIN is left for the next segment and the data goes out one number too high.
- `tcp_giveup`. An acknowledgement that `TCPGetArray` asks for, while data is on its way,
  takes one from `retryCount`, a `BYTE` that is 0. At 255 the connection is closed at the
  first time-out.
- `ddns_unsent`. When the public address is read while the server is still connected, the
  state is counted up to `SM_CHECKIP_DISCONNECT` instead of past it. The second time
  through, the address is known, and no update is sent.

Other places where code and comments differ, seen while modelling and not checked by a run
of their own:

- `plc_cpu_stop` is set by an instruction error ("then reset, or stop running") and read
  nowhere; the faulty program runs again in the next turn. `MPP` on an empty stack takes
  the stack pointer to 255. `timing_cell_stop` leaves the event up until the end of the scan, its comment says
  it cancels it. `BAZCP` answers "below" for an operand equal to the lower bound where
  `BZCP` answers "within" (`ComparesNumbers` states the half-open interval). `MOV` reads at twice the register index and writes
  at the index. A program without `END` never leaves `PlcProcess`.
- A host write to register 3 changes the chip's RAM but not the image of the holding
  relays, which the next save writes back.
- `io_out_hold` has the address of the record's last byte, the last byte of the MAC
  address: the configuration properties except that byte once a host has written it.
- `TickGet` in the receive interrupt overwrites the reading of the main loop and enables
  the timer interrupt in the middle of it; `ReadingExact` excepts calls it disturbed.
- A TCP socket whose peer vanished with its window closed, or in `FIN_WAIT_2` after an
  early FIN has stopped the timer, never comes back; `Freed` names both as `Silent`.
- A reply of a DHCP server to another client, read between an offer and the renewal,
  replaces the address that the next renewal asks for; `RenewsOwnAddress` excepts it. When the
  third renewal fails the client searches again, but the board keeps its old address until a new
  lease comes; hence the overrun in `BoundOnLease`, which speaks of a client that calls itself bound.
- `DDNSTask` counts the state up after it has chosen it: a successful update is followed
  by the wait after an error, and a server error leads to a state without a case, where
  the client stays. `DdnsExchangesEnd` counts that as an end.
- The parse loop of `DDNSTask` looks one entry past its table of answers. A client socket closed by a reset can
  be opened by the mail client while the dynamic DNS client still has the handle.

## 5. What is proved

TLAPS checks the following for every value of the constants that satisfies the named
assumptions, not only for the small ones of the runs.

| Theorem | Module | States | Assumption |
|---|---|---|---|
| `TypeCorrect` | `PlcScanProofs` | `Spec => []TypeOK` | `ScanAssumption` |
| `DirtyCovers` | `HoldingProofs` | `Spec => []HoldDirtyCovers` | `ScanAssumption` |
| `CopyExact` | `HoldingProofs` | `Spec => []RamHoldsLast` | `ScanAssumption` |
| `HoldingRelaysDurable` | `HoldingProofs` | `Spec => KeepsHoldingRelays`, the implementation of `DurableRelays` | `ScanAssumption` |
| `DriversExact` | `HoldingProofs` | `Spec => []RelaysShowLastScan` | `ScanAssumption` |
| `EdgesExact` | `HoldingProofs` | `Spec => []EdgeLatches` | `ScanAssumption` |
| `EdgesOnce` | `HoldingProofs` | `Spec => []EdgesSinceLastScan` | `ScanAssumption` |
| `EventsMeanExpiry` | `CellProofs` | `Spec => []TimerEventMeansExpired` | `ScanAssumption` |
| `StoppedTimersClear` | `CellProofs` | `Spec => []StoppedTimerClear` | `ScanAssumption` |
| `CountersExact` | `CellProofs` | `Spec => []CounterEventExact` | `ScanAssumption` |
| `TimeIsConserved` | `ClockProofs` | `Spec => []TimeConserved` | `TimerAssumption` |
| `TimersNeverEarly` | `ClockProofs` | `Spec => []NeverEarly` | `TimerAssumption` |
| `NoSecondInvented` | `ClockProofs` | `Spec => []SecondsNotInvented` | `TimerAssumption` |
| `LineInOrder` | `NetProofs` | `Spec => []RxInOrder` | `BridgeAssumption` |
| `ClientComplete` | `NetProofs` | `Spec => []TxExact` | `BridgeAssumption` |
| `AddressIsOwn` | `NetProofs` | `NameSpec => []OwnAddress` | none |
| `LeaseIsKept` | `NetProofs` | `DhcpSpec => []BoundOnLease` | `DhcpAssumption` |
| `RenewalIsOwn` | `NetProofs` | `DhcpSpec => RenewsOwnAddress` | `DhcpAssumption` |
| `ConfigurationStays` | `ConfigProofs` | `Spec => []SavedStays` | `ConfigAssumption` |
| `SavesInOrder` | `ConfigProofs` | `Spec => []SaveInOrder` | `ConfigAssumption` |
| `BootsWithTheSaved` | `ConfigProofs` | `Spec => BootsWithSaved` | `ConfigAssumption` |
| `TimeKept` | `BoardProofs` | `TickSpec => []TicksConserved` | `TickAssumption` |
| `ReadsExact` | `BoardProofs` | `TickSpec => []ReadingExact` | `TickAssumption` |
| `ResetOnlyWhenHeld` | `BoardProofs` | `KeySpec => ResetMeansHeld` | `KeyAssumption` |
| `FlashesExact` | `BoardProofs` | `LedSpec => []FlashCounted` | `LedAssumption` |
| `LoopsCompareNumbers` | `BoardProofs` | `CompareSpec => []ComparesNumbers` | `CompareAssumption` |
| `ReadsInOrder` | `TcpProofs` | `Spec => []ReadsStream` | `SocketAssumption` |
| `AcksWhatIsHeld` | `TcpProofs` | `Spec => []AcksWhatItHolds` | `SocketAssumption` |
| `SendsInPlace` | `TcpProofs` | `Spec => []SendsStream` | `SocketAssumption` |

The assumptions are named in the modules that declare the constants, and TLC checks them
for the constants of every run.

- `ScanAssumption`: the relay arrays are disjoint, the relay that is set at start is a
  special one, each holding relay lies in one of the saved bytes, the bit stack is smaller than its pointer's range,
  and programs consist of instructions.
- `TimerAssumption`: a pulse has a period, the seconds set at start are seconds, and the main loop is not late by a whole turn of
  the tick counter, which takes 29 hours with the board's timer.
- `BridgeAssumption`, `ConfigAssumption`, `SocketAssumption`: packets, pages, rings,
  windows and segments are not empty; the default address is an address.
- `DhcpAssumption`: no other client is given an address that a server keeps for this board,
  and a reply is late by less than the client waits for it (two seconds) and by less than it
  uses a lease. The code relies on both: it has one transaction identifier for all its
  messages, so nothing but its age separates an old reply from a new one of the same server.
- `TickAssumption`, `CompareAssumption`: a byte has at least one value. `LedAssumption`:
  counts are not 0. `KeyAssumption`: the tick counter does not come round within the hold
  and a turn of the main loop.

### The arguments

**Scan.** `TypeOK` is inductive as it stands; its proof has one lemma per action, on top
of lemmas for the building blocks (`WriteType` for `set_bitval`, `AdvanceType`,
`LoopBodyType`, ...). For the rest the actions are first reduced to the few ways in which
they touch the state in question: `StepShape` says that a step is, for the holding relays,
a write that owes a save, the beginning, one byte or the end of a save, a host's
overwrite, or a restart; `StepCells` says the same for timers and counters.

- `HoldingInv` strengthens `HoldDirtyCovers` and `RamHoldsLast` with `SaveExact`: during a
  save the loop variable stays within the bytes, the flag is down, and the bytes already
  sent are those in memory *even if a host had overwritten the RAM before*. Without that
  the end of a save, which is when `RamHoldsLast` holds again, could not be shown to
  restore it; without the bound on the loop variable the end of the save would not be
  known to come after the last byte, which is what `DurableRelays` demands.
- `EdgeInv` strengthens `EdgeLatches` with what holds while the scan ends: after
  `PlcProcess_finish` all scanned relays equal their images, and the holding relays do
  because the flag is down (`HoldDirtyCovers`).
- `LastScanInv` strengthens `EdgesSinceLastScan` with what holds from one program's end to
  the next one's: every image is `ended`, but that the events' images still have to
  follow until `timing_cell_prcess`, and the holding relays' until the save is over.
- `CounterInv` adds `RomKnown`, that the program memory only holds instructions that a
  program or a download brought along; that is how a count is known not to exceed every
  preset.

**Timers and their clocks.** What had gone when a timer started plus what has gone since
is, to the tick, the periods it has counted, those the flag has collected, and the part of
a period that `last_tick` lags behind (`Conserves`). The step of the argument is the unsigned
subtraction of `plc_timing_tick_process`: as long as the counter has not come round, a
tick more is a tick more of lag (`ElapsedStep`), and a period credited is a period less
(`ElapsedCredit`), wherever the counter wraps. For the 1 s timers `PulsesDue` says that a
change of the seconds which a poll or a pulse is still to find has been counted as
unseen; so a pulse moves one from `unseen` to the flag and invents none
(`PulseIsSeen`), whoever sets the chip meanwhile.

**Bridge.** `RxInv`: all bytes in the packet are later than those the client has, except
between `put` and the first `clear_index`, when the packet still holds what the socket has just
taken. That exception is the whole difficulty: a byte that arrives there is appended and
then dropped with the rest, which loses it but breaks no order. `TxInv`: the packet is
the latest bytes taken from the client and all but the unsent rest of it is on the line;
the interrupt holds the packet only while `tx_finished` is up, and the main loop writes it
only while that is down.

**Name resolution.** `NameInv`: the module is in use exactly while one of the three tasks
is in the state that waits for it, no two are, and it works for that task: before `DONE` it
looks up that task's name and has no address, at `DONE` the address is that name's. The
flag alone does not give this; it also needs that every task gives the module back in the
step in which it leaves the waiting state, whichever way.

**DHCP.** `DhcpInv` ties three things together that no single state of the client shows.
`Ages`: a reply on its way is at least as old as the client's wait for it, so when a wait ends by
time-out nothing is left of it (`NothingLeft`), and an acknowledgement says by its age what is left
of the lease. `Late` and `Questions`: whose acknowledgements and refusals can still
arrive; two servers' only while a request is open or has just been granted, and then the newer is
the one the client remembers, which is why a late acknowledgement or refusal of the server
before cannot bind or unbind it. `Lasts`: how much of the lease is left in each of the six states of the
renewal; the chain from one state to the next gives the overrun. The invariant also
holds while the client is told to renew another client's address, the exception of
`RenewsOwnAddress`. That at most one broadcast can be answered (`OneAsked`) is needed for
the servers' answers only.

**Configuration.** `SavedStays` alone is not inductive: nothing in it says what a save
that ends has written. `Saving` says it of a save under way: whatever is below the
driver's address is in the chip or in its write cycle, the rest is in the buffer and in
the caller's hands in order, and a buffer that is not empty begins at a page boundary.
The boundary is what makes `InPage` harmless: a write that crossed the end of a page would
go on at its beginning (`InPageAligned`, `NextPage`). `WritingOther` says that every other write
is of one byte that is no longer counted as intact. For `SaveInOrder`, `OrderInv` adds the
page the chip is busy with and that nothing behind the driver's address has changed
(`Untouched`); it uses `ConfigInv` for the next page to begin only when the last one is
done. `BootsWithSaved` then needs `ConfigInv` only at the step that boots.

**Tick counter.** `TickInv` adds to `TicksConserved` that the interrupt runs only while the
flag is up, so that at most one overflow is owed. `ReadInv` follows the main loop's
`TickGet` through its statements: from the first read on the interrupt is disabled, so the
count stands still, and while the overflow flag is down the bytes read are those of the
moment of that first read; if the flag is up at the end, the loop repeats. All this only
while the receive interrupt has not come.

**Reset key.** `KeyInv` relates the time a state of the task waits for, which is a
difference of counter readings, to the histories of what was seen: `lows` reaches back at
least to `StartTime` in the delay state. The difference grows with the clock because
it was below `HOLD` at the last call and a turn is at most `MaxTurn`.

**LED.** `Counts` follows a flash through the statements of the counting branch: between
`load` and `store` one more flash is made than counted.

**Comparisons.** `Decided`, by induction over the bytes from the top: the numbers that
the top bytes make are equal if these agree, and else in the order of the byte at which
the loop breaks; a byte below never makes up for a difference above (`DigitBelow`).

**TCP, the stream read.** `RxInv` says where every slot of the ring stands: from the tail
to the head the bytes that are ready, which follow those the application has read; behind
the head the hole and the stretch stored behind it, each byte at its place in the peer's
stream. The hard step is a segment that is partly old, partly in the hole and partly over the
stretch (`StretchGrows`, `Covered`): whatever the code's case distinction keeps was
stored, though it may forget bytes it had. `AcksWhatItHolds` is a consequence: `RemoteSEQ`
is the place of the next byte.

**TCP, the stream sent.** `SendInv`: the ring holds the application's bytes from the
first unacknowledged one (`Una`) on, what is on its way and what is unsent share the ring
(`TxOrder`), nothing is on its way without the timer, and `Una` is not ahead of what the peer has
received. The last is what makes an acknowledgement advance the tail by no more than is
outstanding, and is why the invariant speaks of the peer too (`Peer`). A step may send several
segments and roll back in between, so the invariant is carried through the functions that
make up a step, with what was sent so far (`Sent`) and whether a FIN had been sent when the
step began; after a FIN the numbers may be off by one, which is the refuted
`ResendsStream`.

Two proofs need induction over data, for which the library's theorems cannot be used: they
are stated for an operator. `CountsUp` proves it for a set instead, from the least
element of what is left out; `HeardPeer` and `LoopsCompare` use it, and the recursive
functions are unfolded by the same means (`AfterExists`, `TopsExist`).

### Only model-checked

All liveness (`ScanEnds`, `DirtyIsSaved`, `Expire`, `Rebinds`, `Freed`, `ReadEnds`,
`HeldResets`, `ComesUpEach`, `Served`, `ModuleFreed`, `DdnsExchangesEnd`), which rests on
fairness and on what is enabled, beyond the prover's reach. Every safety property
of a passing run is also a theorem.

## 6. Plan

The scan cycle came first because it carries the product's purpose and its battery-backed
state; then timers, comparisons, durability and the bridge; then what the main loop
depends on (tick counter, configuration, key, LED) and the parts of the stack with a state
machine of their own. What could follow:

1. *TCP client sockets.* Name resolution, ARP, SYN and the delayed retries, then the
   refinement of the socket that `NameResolver` and `DynDns` leave abstract.
2. *Composition.* `PlcTimer` as a refinement of the pulses `PlcScan` leaves open.

## 7. Not modelled

- *`MOV` and word registers.* `get_word_val` doubles the register index and
  `set_word_val` does not (`plc_prase.c` 696): the instruction is wrong in a way one test
  shows, and no property of it is left to check.
- *TCP beyond one server socket.* Client connection states, the queue of SYNs that wait
  for a socket, `TCPAdjustFIFOSize`, `TCPDiscard` and SSL. A wrong sequence number or a socket that is not
  freed shows in the part that is modelled.
- *TCP command sockets* (`tcp_cmd_task.c`). A command longer than the 64-byte buffer is
  never read and blocks its socket; a reply that does not fit is dropped. Nothing is
  promised that could be violated: the sockets keep no state between two commands. The effects of
  the commands are actions of `PlcScan`, `PlcTimer` and `ConfigStore`.
- *The Modbus stream.* The same with 32 bytes; a partial request is discarded. Its coil
  writes are the host writes of `PlcScan`.
- *UART 1 bridge.* Not compiled in.
- *Web pages* other than the configuration form and the reboot page; the page file system
  and its images (`MPFSImg.c`, `MPFSImg2.c` are data); `HTTP2.c`, whose buffers and parser
  are text handling.
- *Temperature sensor, display, `DebugTask`.* Bit-level timing, or commented out
  (`MainDemo.c` 381). The wire protocols of the DS1302 and the EEPROM are below the level
  of the models: a byte is written or not.
- *The rest of `src/Microchip`.* Ethernet and Wi-Fi drivers, SNMP, SSL and its arithmetic,
  FTP, UDP tests and Berkeley sockets are switched off or hardware access; Telnet, NetBIOS names and the
  announcement are vendor examples that share no state with the controller but their sockets.
