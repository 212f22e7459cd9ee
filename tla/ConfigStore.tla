----------------------------- MODULE ConfigStore -----------------------------
(***************************************************************************)
(* The stored configuration: AppConfig in RAM, its record in the EEPROM,   *)
(* the driver's page buffer (SPIEEPROM.c) and everyone who writes the      *)
(* record: InitAppConfig at boot, a discovery telegram, the configuration  *)
(* form of the web pages, the reset key; and the flag io_out_hold, which a *)
(* host command writes.  Power may fail between any two bytes and in the   *)
(* middle of a write cycle of the chip.                                    *)
(*                                                                         *)
(* A field of AppConfig is one byte here.  The validity byte is at address *)
(* 0 and the record follows it; My_APP_Info_Struct places io_out_hold      *)
(* right behind an APP_CONFIG at offset 0, which is the address of the     *)
(* record's last byte.                                                     *)
(***************************************************************************)
EXTENDS Integers, Sequences, FiniteSets

CONSTANTS
    Addresses,           \* the values of an IP address, 0 among them
    MY_DEFAULT_IP, MY_DEFAULT_MAC,
    Macs,                \* the values of the last byte of a MAC address
    EEPROM_BUFFER_SIZE   \* bytes of the driver's buffer and of a page

ASSUME ConfigAssumption ==
    /\ Addresses \subseteq Nat /\ {0, MY_DEFAULT_IP} \subseteq Addresses
    /\ Macs \subseteq Nat /\ MY_DEFAULT_MAC \in Macs
    /\ EEPROM_BUFFER_SIZE \in Nat \ {0}

VARIABLES
    eeprom,              \* what the chip holds
    cycle,               \* address -> byte: the write cycle the chip is busy with
    EEPROMAddress, EEPROMBuffer,
    to_write,            \* the bytes the caller has still to pass to XEEWrite
    and_then,            \* what the caller does after XEEEndWrite
    AppConfig,
    TaskSM,              \* of DiscoverTask
    app,                 \* the shadow copy of a form being posted
    pc,                  \* "boot", "writing", "running"
    base, attempt,       \* history: the EEPROM before a save, its record
    whole,               \* history: that save ran to its end, or a boot took its result
    intact               \* history: the addresses nobody else wrote since

driver  == <<EEPROMAddress, EEPROMBuffer, to_write, and_then>>
history == <<base, attempt, whole, intact>>
vars == <<eeprom, cycle, driver, AppConfig, TaskSM, app, pc, history>>

\* The fields of APP_CONFIG that the properties tell apart, in its order.
IP    == 1
FLAGS == 2
MAC   == 3
Field == IP .. MAC

VALID == 96              \* 0x60
io_out_hold == MAC       \* the address of the flag
Address == 0 .. MAC
NoForm == <<>>
Blank == [a \in Address |-> 255]

Defaults == <<MY_DEFAULT_IP, 0, MY_DEFAULT_MAC>>
\* A slip: reading starts at the validity byte.
RecordFromZero == [f \in Field |-> eeprom[f - 1]]
Record == [f \in Field |-> eeprom[f]]

-----------------------------------------------------------------------------
(* The EEPROM and its driver *)

Idle == cycle = <<>>     \* ~XEEIsBusy()

Programmed(done) == [a \in Address |-> IF a \in done THEN cycle[a] ELSE eeprom[a]]

\* The chip ends its write cycle.
ChipReady ==
    /\ ~Idle
    /\ eeprom' = Programmed(DOMAIN cycle)
    /\ cycle' = <<>>
    /\ UNCHANGED <<driver, AppConfig, TaskSM, app, pc, history>>

\* Where the chip puts the k-th byte of a write from address a: past the end
\* of the page it goes on at the beginning.
InPage(a, k) ==
    LET page == a \div EEPROM_BUFFER_SIZE
    IN (page * EEPROM_BUFFER_SIZE) + ((a + k) % EEPROM_BUFFER_SIZE)

\* A slip: the next page goes to the address of this one.
DoWriteStays(buffer) ==
    /\ cycle' = [a \in {InPage(EEPROMAddress, k - 1) : k \in DOMAIN buffer} |->
                    buffer[CHOOSE k \in DOMAIN buffer : InPage(EEPROMAddress, k - 1) = a]]
    /\ EEPROMBuffer' = <<>>
    /\ UNCHANGED EEPROMAddress

\* Sends the buffer and starts the write cycle, for which the caller waits.
DoWrite(buffer) ==
    /\ cycle' = [a \in {InPage(EEPROMAddress, k - 1) : k \in DOMAIN buffer} |->
                    buffer[CHOOSE k \in DOMAIN buffer : InPage(EEPROMAddress, k - 1) = a]]
    /\ EEPROMAddress' = EEPROMAddress + Len(buffer)
    /\ EEPROMBuffer' = <<>>

XEEWrite ==
    /\ pc = "writing" /\ Idle /\ to_write # <<>>
    /\ to_write' = Tail(to_write)
    /\ LET buffer == Append(EEPROMBuffer, Head(to_write))
       IN \/ Len(buffer) = EEPROM_BUFFER_SIZE /\ DoWrite(buffer)
          \/ /\ Len(buffer) < EEPROM_BUFFER_SIZE
             /\ EEPROMBuffer' = buffer
             /\ UNCHANGED <<cycle, EEPROMAddress>>
    /\ UNCHANGED <<eeprom, and_then, AppConfig, TaskSM, app, pc, history>>

\* A slip: a page that is not full is not sent.
XEEEndWriteFull == FALSE

XEEEndWrite ==
    /\ pc = "writing" /\ Idle /\ to_write = <<>> /\ EEPROMBuffer # <<>>
    /\ DoWrite(EEPROMBuffer)
    /\ UNCHANGED <<eeprom, to_write, and_then, AppConfig, TaskSM, app, pc, history>>

\* XEEBeginWrite(address) by a caller that goes on to pass these bytes.
XEEBeginWrite(address, bytes, next) ==
    /\ EEPROMAddress' = address
    /\ EEPROMBuffer' = <<>>
    /\ to_write' = bytes
    /\ and_then' = next
    /\ pc' = "writing"

Remembered(config) ==
    /\ base' = eeprom /\ attempt' = config
    /\ whole' = FALSE /\ intact' = Address

\* A slip: the save starts behind the beginning of a page.
SaveBehind(config, next) ==
    XEEBeginWrite(1, <<VALID>> \o config, next) /\ Remembered(config)

SaveAppConfig(config, next) ==
    XEEBeginWrite(0, <<VALID>> \o config, next) /\ Remembered(config)

-----------------------------------------------------------------------------
(* Reset, power failure and boot *)

CStartup ==
    /\ EEPROMAddress' = 0 /\ EEPROMBuffer' = <<>> /\ to_write' = <<>> /\ and_then' = "boot"
    /\ AppConfig' = Defaults
    /\ TaskSM' = "request"
    /\ app' = NoForm
    /\ pc' = "boot"

\* Any part of a write cycle may have been programmed.
PowerFail ==
    /\ \E done \in SUBSET DOMAIN cycle : eeprom' = Programmed(done)
    /\ cycle' = <<>>
    /\ CStartup
    /\ UNCHANGED history

\* The caller goes on, or calls Reset().
WriteDone ==
    /\ pc = "writing" /\ Idle /\ to_write = <<>> /\ EEPROMBuffer = <<>>
    /\ whole' = (whole \/ intact = Address)
    /\ base' = IF whole' THEN Blank ELSE base
    /\ \/ and_then = "boot" /\ CStartup
       \/ /\ and_then = "running" /\ pc' = "running"
          /\ UNCHANGED <<driver, AppConfig, TaskSM, app>>
    /\ UNCHANGED <<eeprom, cycle, attempt, intact>>

InitAppConfig ==
    /\ pc = "boot"
    /\ \/ /\ eeprom[0] = VALID
          /\ AppConfig' = Record
          /\ pc' = "running"
          /\ base' = Blank /\ attempt' = Record /\ whole' = TRUE /\ intact' = Address
          /\ UNCHANGED driver
       \/ /\ eeprom[0] # VALID
          /\ AppConfig' = Defaults
          /\ SaveAppConfig(Defaults, "running")
    /\ UNCHANGED <<eeprom, cycle, TaskSM, app>>

-----------------------------------------------------------------------------
(* The main loop *)

Running == pc = "running"

\* DiscoverTask listens once it has waited for five seconds and has found a
\* socket, and again whenever it had room to announce the board.
DiscoverTask ==
    /\ Running
    /\ TaskSM' = IF TaskSM = "request" THEN "listen" ELSE "request"
    /\ UNCHANGED <<eeprom, cycle, driver, AppConfig, app, pc, history>>

\* An apply telegram.  Its exchange identifier must be xid, which is 0 from
\* boot until the reset that ends this.
DiscoverySaveConfig(ip, mac) ==
    /\ Running /\ TaskSM = "listen"
    /\ AppConfig' = <<ip, IF ip = 0 THEN 1 ELSE 0, mac>>
    /\ SaveAppConfig(AppConfig', "boot")
    /\ UNCHANGED <<eeprom, cycle, TaskSM, app>>

\* The DHCP client binds a lease: in RAM only.
DHCPBound(ip) ==
    /\ Running /\ AppConfig[FLAGS] = 1
    /\ AppConfig' = [AppConfig EXCEPT ![IP] = ip]
    /\ UNCHANGED <<eeprom, cycle, driver, TaskSM, app, pc, history>>

\* HTTPPostConfig: a shadow copy, then one value of the form at a time.
PostStart ==
    /\ Running /\ app = NoForm
    /\ app' = [AppConfig EXCEPT ![FLAGS] = 0]
    /\ UNCHANGED <<eeprom, cycle, driver, AppConfig, TaskSM, pc, history>>

PostValue(f, v) ==
    /\ Running /\ app # NoForm
    /\ app' = [app EXCEPT ![f] = v]
    /\ UNCHANGED <<eeprom, cycle, driver, AppConfig, TaskSM, pc, history>>

\* A value that cannot be parsed, or a browser that goes away.
PostFailure ==
    /\ Running /\ app # NoForm
    /\ app' = NoForm
    /\ UNCHANGED <<eeprom, cycle, driver, AppConfig, TaskSM, pc, history>>

\* The form goes to the EEPROM, not to AppConfig: the browser is sent to a
\* page that reboots the board.
PostSuccess ==
    /\ Running /\ app # NoForm
    /\ SaveAppConfig(app, "running")
    /\ app' = NoForm
    /\ UNCHANGED <<eeprom, cycle, AppConfig, TaskSM>>

HTTPPrint_reboot ==
    /\ Running
    /\ CStartup
    /\ UNCHANGED <<eeprom, cycle, history>>

\* A host command sets or clears the flag that holds outputs over power-off.
set_io_out_power_down_hold(hold_on) ==
    /\ Running
    /\ XEEBeginWrite(io_out_hold, <<hold_on>>, "running")
    /\ intact' = intact \ {io_out_hold}
    /\ UNCHANGED <<eeprom, cycle, AppConfig, TaskSM, app, base, attempt, whole>>

\* From ResetTask: the record is invalidated, then Reset().  The program that
\* plc_code_test_init stores as well lies behind the record.
ResetToDefaultConfig ==
    /\ Running
    /\ XEEBeginWrite(0, <<0>>, "boot")
    /\ intact' = intact \ {0}
    /\ UNCHANGED <<eeprom, cycle, AppConfig, TaskSM, app, base, attempt, whole>>

\* A chip from the factory.
Init ==
    /\ eeprom = Blank
    /\ cycle = <<>>
    /\ EEPROMAddress = 0 /\ EEPROMBuffer = <<>> /\ to_write = <<>> /\ and_then = "boot"
    /\ AppConfig = Defaults
    /\ TaskSM = "request"
    /\ app = NoForm
    /\ pc = "boot"
    /\ base = eeprom /\ attempt = Defaults /\ whole = FALSE /\ intact = Address

Driver == XEEWrite \/ XEEEndWrite \/ WriteDone \/ InitAppConfig

Host ==
    \/ \E ip \in Addresses, mac \in Macs : DiscoverySaveConfig(ip, mac)
    \/ \E ip \in Addresses : DHCPBound(ip)
    \/ PostStart
    \/ \E v \in Addresses : PostValue(IP, v)
    \/ \E v \in {0, 1} : PostValue(FLAGS, v)
    \/ PostFailure
    \/ PostSuccess
    \/ HTTPPrint_reboot
    \/ \E v \in {0, 1} : set_io_out_power_down_hold(v)
    \/ ResetToDefaultConfig

Next == Driver \/ ChipReady \/ DiscoverTask \/ Host \/ PowerFail

Spec == Init /\ [][Next]_vars

\* Neither the firmware nor the chip stops in the middle of a save.
FairSpec == Spec /\ WF_vars(Driver) /\ WF_vars(ChipReady)

-----------------------------------------------------------------------------
\* What the last save means to store, byte by byte.
Saved(a) == IF a = 0 THEN VALID ELSE attempt[a]

\* A configuration that was saved to its end, or accepted at boot, stays in the EEPROM, byte
\* for byte, but for the bytes that others have written since: the validity
\* byte (reset key) and the last byte (io_out_hold).  No failure of power, no
\* other write and no page boundary takes it away.
SavedStays == whole => \A a \in intact : eeprom[a] = Saved(a)

\* Power may fail in the middle of a save.  What is left is the new record up
\* to some page, the old contents behind it, and any mixture within the one
\* page the chip was busy with.
SaveInOrder ==
    ~whole => \E n \in 0 .. MAC \div EEPROM_BUFFER_SIZE : \A a \in intact :
        LET page == a \div EEPROM_BUFFER_SIZE
        IN /\ page < n => eeprom[a] = Saved(a)
           /\ page > n => eeprom[a] = base[a]
           /\ eeprom[a] \in {Saved(a), base[a]}

\* The board comes up with the configuration that was last saved to its end,
\* whoever saved it, but for the byte that io_out_hold shares.
BootsWithSaved ==
    [][pc = "boot" /\ pc' = "running" /\ whole =>
           \A f \in Field \cap intact : AppConfig'[f] = attempt[f]]_vars

\* However often power fails, once it stays on the board comes up and every
\* save ends.
ComesUp == (<>[][~PowerFail]_vars) => []<>Running

\* The validity byte says that a record is whole: the record of the last save,
\* or the one before it.
ValidMeansWhole ==
    (pc = "boot" /\ eeprom[0] = VALID) =>
        \/ \A f \in Field \cap intact : eeprom[f] = attempt[f]
        \/ \A f \in Field \cap intact : eeprom[f] = base[f]
=============================================================================
