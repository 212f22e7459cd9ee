---------------------------- MODULE ConfigProofs -----------------------------
(***************************************************************************)
(* A configuration that was saved stays (SavedStays), a save reaches the   *)
(* chip in order (SaveInOrder) and the board boots with what was saved     *)
(* (BootsWithSaved), for every size of the EEPROM's page and every set of  *)
(* addresses, wherever power fails.                                        *)
(***************************************************************************)
EXTENDS ConfigStore, SequenceTheorems, TLAPS

-----------------------------------------------------------------------------
(* Division by the size of a page *)

LEMMA DivMod ==
    ASSUME NEW a \in Nat, NEW s \in Nat \ {0}
    PROVE  (a \div s) * s + (a % s) = a
  OBVIOUS

LEMMA DivModType ==
    ASSUME NEW a \in Nat, NEW s \in Nat \ {0}
    PROVE  a \div s \in Nat /\ a % s \in 0 .. s - 1
  OBVIOUS

LEMMA ModInPage ==
    ASSUME NEW a \in Nat, NEW s \in Nat \ {0}, NEW k \in 0 .. s - 1, a % s = 0
    PROVE  (a + k) % s = k
  OBVIOUS

\* The page behind a page begins at a page boundary.
LEMMA NextPage ==
    ASSUME NEW a \in Nat, NEW s \in Nat \ {0}, a % s = 0
    PROVE  (a + s) % s = 0
  <1>1. PICK q \in Nat : q * s = a
    <2>1. (a \div s) * s + 0 = a /\ a \div s \in Nat
      BY DivMod, DivModType
    <2>2. (a \div s) * s \in Nat
      BY <2>1
    <2>3. QED
      BY <2>1, <2>2
  <1>2. PICK p \in Nat : p * s + ((a + s) % s) = a + s
    <2>1. a + s \in Nat
      OBVIOUS
    <2>2. QED
      BY <2>1, DivMod, DivModType
  <1> DEFINE r == (a + s) % s
  <1>3. r \in 0 .. s - 1
    <2>1. a + s \in Nat
      OBVIOUS
    <2>2. QED
      BY <2>1, DivModType
  <1>4. p * s + r = a + s
    BY <1>2
  <1> HIDE DEF r
  <1>5. (q + 1) * s = q * s + s
    OBVIOUS
  <1>6. (q + 1) * s = p * s + r
    BY <1>1, <1>4, <1>5
  <1>7. p = q + 1
    <2>1. CASE p < q + 1
      <3>1. PICK d \in Nat : q + 1 = p + 1 + d
        <4>1. q - p \in Nat /\ q + 1 = p + 1 + (q - p)
          BY <2>1
        <4>2. QED
          BY <4>1
      <3>2. (p + 1 + d) * s = p * s + s + d * s /\ d * s \in Nat /\ p * s \in Nat
        OBVIOUS
      <3>3. p * s + r = p * s + s + d * s
        BY <1>6, <3>1, <3>2
      <3>4. QED
        BY <1>3, <3>2, <3>3
    <2>2. CASE p > q + 1
      <3>1. PICK d \in Nat : p = q + 1 + 1 + d
        <4>1. p - q - 2 \in Nat /\ p = q + 1 + 1 + (p - q - 2)
          BY <2>2
        <4>2. QED
          BY <4>1
      <3>2. (q + 1 + 1 + d) * s = (q + 1) * s + s + d * s /\ d * s \in Nat /\ (q + 1) * s \in Nat
        OBVIOUS
      <3>3. (q + 1) * s = (q + 1) * s + s + d * s + r
        BY <1>6, <3>1, <3>2
      <3>4. QED
        BY <1>3, <3>2, <3>3
    <2>3. QED
      BY <2>1, <2>2
  <1>8. r = 0
    <2>1. p * s + r = p * s
      BY <1>6, <1>7
    <2>2. p * s \in Nat
      OBVIOUS
    <2>3. QED
      BY <1>3, <2>1, <2>2
  <1>9. QED
    BY <1>8 DEF r

\* An address behind another is not on an earlier page.
LEMMA DivMonotone ==
    ASSUME NEW a \in Nat, NEW b \in Nat, NEW s \in Nat \ {0}, a <= b
    PROVE  a \div s <= b \div s
  OBVIOUS

LEMMA PageOf ==
    ASSUME NEW a \in Nat, NEW s \in Nat \ {0}, NEW k \in 0 .. s - 1, a % s = 0
    PROVE  (a + k) \div s = a \div s
  OBVIOUS

\* One byte goes where it is sent, and a part of a page from its beginning on.
LEMMA InPageOne ==
    ASSUME NEW a \in Nat
    PROVE  InPage(a, 0) = a
  <1>1. (a \div EEPROM_BUFFER_SIZE) * EEPROM_BUFFER_SIZE + (a % EEPROM_BUFFER_SIZE) = a
    BY DivMod, ConfigAssumption
  <1>2. a + 0 = a
    OBVIOUS
  <1>3. QED
    BY <1>1, <1>2 DEF InPage

LEMMA InPageAligned ==
    ASSUME NEW a \in Nat, a % EEPROM_BUFFER_SIZE = 0, NEW k \in 0 .. EEPROM_BUFFER_SIZE - 1
    PROVE  InPage(a, k) = a + k
  <1>1. (a \div EEPROM_BUFFER_SIZE) * EEPROM_BUFFER_SIZE + 0 = a
    BY DivMod, ConfigAssumption
  <1>2. a \div EEPROM_BUFFER_SIZE \in Nat
    BY DivModType, ConfigAssumption
  <1>3. (a \div EEPROM_BUFFER_SIZE) * EEPROM_BUFFER_SIZE = a
    <2>1. (a \div EEPROM_BUFFER_SIZE) * EEPROM_BUFFER_SIZE \in Nat
      BY <1>2, ConfigAssumption
    <2>2. QED
      BY <1>1, <2>1
  <1>4. (a + k) % EEPROM_BUFFER_SIZE = k
    BY ModInPage, ConfigAssumption
  <1>5. QED
    BY <1>3, <1>4 DEF InPage

-----------------------------------------------------------------------------
(* The invariant *)

Config == [Field -> Nat]

ConfigType ==
    /\ eeprom \in [Address -> Nat]
    /\ \A a \in DOMAIN cycle : cycle[a] \in Nat
    /\ EEPROMAddress \in Nat
    /\ EEPROMBuffer \in Seq(Nat) /\ to_write \in Seq(Nat)
    /\ AppConfig \in Config /\ attempt \in Config
    /\ app # NoForm => app \in Config
    /\ whole \in BOOLEAN /\ intact \subseteq Address
    /\ pc \in {"boot", "writing", "running"}
    /\ pc # "writing" => Idle

\* A save: what is sent is in the chip or in its write cycle, and what is not
\* sent is in the buffer and in the hands of the caller, in order; the buffer begins
\* at a page boundary until the last of it is sent.
Saving ==
    /\ Len(EEPROMBuffer) < EEPROM_BUFFER_SIZE
    /\ EEPROMAddress + Len(EEPROMBuffer) + Len(to_write) = MAC + 1
    /\ to_write # <<>> \/ EEPROMBuffer # <<>> => EEPROMAddress % EEPROM_BUFFER_SIZE = 0
    /\ \A k \in 1 .. Len(EEPROMBuffer) : EEPROMBuffer[k] = Saved(EEPROMAddress + k - 1)
    /\ \A k \in 1 .. Len(to_write) :
           to_write[k] = Saved(EEPROMAddress + Len(EEPROMBuffer) + k - 1)
    /\ \A a \in Address : a < EEPROMAddress =>
           Programmed(DOMAIN cycle)[a] = Saved(a)

\* Any other write is of one byte, and not of an intact one.
WritingOther ==
    /\ Len(EEPROMBuffer) + Len(to_write) <= 1
    /\ Len(EEPROMBuffer) + Len(to_write) = 1 => EEPROMAddress \notin intact
    /\ DOMAIN cycle \cap intact = {}

ConfigInv ==
    /\ ConfigType
    /\ (pc = "writing" /\ ~whole /\ intact = Address) => Saving
    /\ (pc = "writing" /\ intact # Address) => WritingOther
    /\ (pc = "writing" /\ whole) => intact # Address
    /\ SavedStays

\* A configuration is a sequence of three bytes.
LEMMA Tuple ==
    ASSUME NEW a \in Nat, NEW b \in Nat, NEW c \in Nat
    PROVE  <<a, b, c>> \in Config
  <1>1. Field = 1 .. 3
    BY DEF Field, IP, MAC
  <1>2. /\ DOMAIN <<a, b, c>> = 1 .. 3 /\ <<a, b, c>>[1] = a /\ <<a, b, c>>[2] = b
        /\ <<a, b, c>>[3] = c
    OBVIOUS
  <1>3. \A i \in 1 .. 3 : <<a, b, c>>[i] \in Nat
    <2>1. \A i \in 1 .. 3 : i = 1 \/ i = 2 \/ i = 3
      OBVIOUS
    <2>2. QED
      BY <1>2, <2>1
  <1>4. <<a, b, c>> = [i \in 1 .. 3 |-> <<a, b, c>>[i]]
    BY <1>2
  <1>5. QED
    BY <1>1, <1>3, <1>4 DEF Config

LEMMA ConfigIsSeq ==
    ASSUME NEW config \in Config
    PROVE  config \in Seq(Nat) /\ Len(config) = 3
  <1>1. config \in [1 .. 3 -> Nat]
    BY DEF Config, Field, IP, MAC
  <1>2. config = [i \in 1 .. 3 |-> config[i]] /\ \A i \in 1 .. 3 : config[i] \in Nat
    BY <1>1
  <1>3. QED
    BY <1>2

\* One byte in front of a record.
LEMMA OneBefore ==
    ASSUME NEW head \in Seq(Nat), Len(head) = 1, NEW config \in Seq(Nat), Len(config) = 3
    PROVE  /\ head \o config \in Seq(Nat) /\ Len(head \o config) = 4
           /\ (head \o config)[1] = head[1]
           /\ \A f \in 1 .. 3 : (head \o config)[f + 1] = config[f]
  <1>1. head \o config \in Seq(Nat) /\ Len(head \o config) = Len(head) + Len(config)
    BY ConcatProperties
  <1>2. \A i \in 1 .. Len(head) + Len(config) : (head \o config)[i] =
            IF i <= Len(head) THEN head[i] ELSE config[i - Len(head)]
    BY ConcatProperties
  <1>3. (head \o config)[1] = head[1]
    BY <1>2
  <1>4. ASSUME NEW f \in 1 .. 3 PROVE (head \o config)[f + 1] = config[f]
    <2>1. f + 1 \in 1 .. Len(head) + Len(config) /\ ~(f + 1 <= Len(head)) /\ (f + 1) - Len(head) = f
      OBVIOUS
    <2>2. QED
      BY <1>2, <2>1
  <1>5. QED
    BY <1>1, <1>3, <1>4

LEMMA Fields ==
    /\ Address = 0 .. 3 /\ Field = 1 .. 3 /\ MAC = 3 /\ FLAGS = 2 /\ IP = 1 /\ VALID = 96
    /\ EEPROM_BUFFER_SIZE \in Nat \ {0}
    /\ Defaults \in Config /\ Addresses \subseteq Nat /\ Macs \subseteq Nat
  <1>1. /\ Address = 0 .. 3 /\ Field = 1 .. 3 /\ MAC = 3 /\ FLAGS = 2 /\ IP = 1 /\ VALID = 96
    BY DEF Address, Field, MAC, FLAGS, IP, VALID
  <1>2. /\ EEPROM_BUFFER_SIZE \in Nat \ {0} /\ Addresses \subseteq Nat /\ Macs \subseteq Nat
        /\ MY_DEFAULT_IP \in Nat /\ MY_DEFAULT_MAC \in Nat
    BY ConfigAssumption
  <1>3. Defaults \in Config
    BY <1>1, <1>2, Tuple DEF Defaults
  <1>4. QED
    BY <1>1, <1>2, <1>3

\* A step that leaves the chip, its driver and the history alone.
LEMMA MemorySame ==
    ASSUME ConfigInv, UNCHANGED <<eeprom, cycle, driver, history, pc>>,
           AppConfig' \in Config, app' # NoForm => app' \in Config
    PROVE  ConfigInv'
  <1>1. ConfigType'
    BY DEF ConfigInv, ConfigType, driver, history, Idle
  <1>2. UNCHANGED <<eeprom, cycle, EEPROMAddress, EEPROMBuffer, to_write, attempt, whole,
                    intact, pc>>
    BY DEF driver, history
  <1>3. (Saving' <=> Saving) /\ (WritingOther' <=> WritingOther) /\ (SavedStays' <=> SavedStays)
    BY <1>2 DEF Saving, WritingOther, SavedStays, Saved, Programmed
  <1>4. QED
    BY <1>1, <1>2, <1>3 DEF ConfigInv

\* A restart while the chip is idle, or loses any part of its write cycle.
LEMMA RestartKeeps ==
    ASSUME ConfigInv, CStartup, UNCHANGED history, cycle' = <<>>,
           NEW done \in SUBSET DOMAIN cycle, eeprom' = Programmed(done)
    PROVE  ConfigInv'
  <1> USE Fields
  <1>1. ConfigType'
    <2>1. eeprom' \in [Address -> Nat]
      BY DEF Programmed, ConfigInv, ConfigType
    <2>2. DOMAIN cycle' = {} /\ Idle'
      BY DEF Idle
    <2>3. QED
      BY <2>1, <2>2 DEF CStartup, ConfigInv, ConfigType, history
  <1>2. SavedStays'
    <2> SUFFICES ASSUME whole, NEW a \in intact PROVE eeprom'[a] = Saved(a)
      BY DEF SavedStays, Saved, history
    <2>1. a \notin DOMAIN cycle
      BY DEF ConfigInv, ConfigType, Idle, WritingOther
    <2>2. eeprom'[a] = eeprom[a]
      BY <2>1 DEF Programmed, ConfigInv, ConfigType
    <2>3. QED
      BY <2>2 DEF ConfigInv, SavedStays
  <1>3. QED
    BY <1>1, <1>2 DEF ConfigInv, CStartup

\* The beginning of a save.
LEMMA SaveBegins ==
    ASSUME ConfigInv, NEW config \in Config, NEW next, SaveAppConfig(config, next),
           UNCHANGED <<eeprom, cycle>>, Idle,
           AppConfig' \in Config, app' # NoForm => app' \in Config
    PROVE  ConfigInv'
  <1> USE Fields
  <1>1. /\ EEPROMAddress' = 0 /\ EEPROMBuffer' = <<>> /\ to_write' = <<VALID>> \o config
        /\ pc' = "writing" /\ attempt' = config /\ whole' = FALSE /\ intact' = Address
    BY DEF SaveAppConfig, XEEBeginWrite, Remembered
  <1>2. /\ to_write' \in Seq(Nat) /\ Len(to_write') = 4
        /\ to_write'[1] = 96 /\ \A f \in 1 .. 3 : to_write'[f + 1] = config[f]
    <2>1. config \in Seq(Nat) /\ Len(config) = 3
      BY ConfigIsSeq
    <2>2. <<VALID>> \in Seq(Nat) /\ Len(<<VALID>>) = 1 /\ <<VALID>>[1] = 96
      OBVIOUS
    <2> DEFINE head == <<VALID>>
    <2> HIDE DEF head
    <2>3. /\ head \o config \in Seq(Nat) /\ Len(head \o config) = 4
          /\ (head \o config)[1] = 96
          /\ \A f \in 1 .. 3 : (head \o config)[f + 1] = config[f]
      <3>1. head \in Seq(Nat) /\ Len(head) = 1 /\ head[1] = 96
        BY <2>2 DEF head
      <3>2. QED
        BY <2>1, <3>1, OneBefore
    <2>4. to_write' = head \o config
      BY <1>1 DEF head
    <2>5. QED
      BY <2>3, <2>4
  <1>3. ConfigType'
    <2>1. /\ eeprom' \in [Address -> Nat] /\ \A a \in DOMAIN cycle' : cycle'[a] \in Nat
      BY DEF ConfigInv, ConfigType
    <2>2. EEPROMBuffer' \in Seq(Nat) /\ EEPROMAddress' \in Nat
      BY <1>1
    <2>3. QED
      BY <1>1, <1>2, <2>1, <2>2 DEF ConfigType
  <1>4. \A k \in 1 .. 4 : to_write'[k] = Saved(k - 1)'
    <2> SUFFICES ASSUME NEW k \in 1 .. 4 PROVE to_write'[k] = Saved(k - 1)'
      OBVIOUS
    <2>1. CASE k = 1
      BY <1>1, <1>2, <2>1 DEF Saved
    <2>2. CASE k # 1
      <3>1. k - 1 \in 1 .. 3 /\ k = (k - 1) + 1 /\ k - 1 # 0
        BY <2>2
      <3>2. QED
        BY <1>1, <1>2, <3>1 DEF Saved
    <2>3. QED
      BY <2>1, <2>2
  <1>5. Saving'
    <2>1. Len(EEPROMBuffer') = 0 /\ 0 % EEPROM_BUFFER_SIZE = 0
      BY <1>1
    <2>2. \A k \in 1 .. 4 : EEPROMAddress' + Len(EEPROMBuffer') + k - 1 = k - 1
      BY <1>1, <2>1
    <2>3. \A a \in Address : ~(a < EEPROMAddress')
      BY <1>1
    <2>4. EEPROMAddress' + Len(EEPROMBuffer') + Len(to_write') = MAC + 1
      BY <1>1, <1>2, <2>1
    <2>5. \A k \in 1 .. Len(to_write') :
             to_write'[k] = Saved(EEPROMAddress + Len(EEPROMBuffer) + k - 1)'
      <3> SUFFICES ASSUME NEW k \in 1 .. 4
                   PROVE  to_write'[k] = Saved(EEPROMAddress + Len(EEPROMBuffer) + k - 1)'
        BY <1>2
      <3>1. to_write'[k] = Saved(k - 1)'
        BY <1>4
      <3>2. EEPROMAddress' + Len(EEPROMBuffer') + k - 1 = k - 1
        BY <2>2
      <3>3. QED
        BY <3>1, <3>2 DEF Saved
    <2>6. EEPROMAddress' % EEPROM_BUFFER_SIZE = 0 /\ Len(EEPROMBuffer') < EEPROM_BUFFER_SIZE
      BY <1>1, <2>1
    <2>7. \A k \in 1 .. Len(EEPROMBuffer') : FALSE
      BY <2>1
    <2>8. QED
      BY <2>3, <2>4, <2>5, <2>6, <2>7 DEF Saving
  <1>6. QED
    BY <1>1, <1>3, <1>5 DEF ConfigInv, SavedStays

\* The beginning of a write of one byte that is no longer intact.
LEMMA OtherBegins ==
    ASSUME ConfigInv, Running, NEW address \in Address, NEW byte \in Nat, NEW next,
           XEEBeginWrite(address, <<byte>>, next), intact' = intact \ {address},
           UNCHANGED <<eeprom, cycle, AppConfig, app, attempt, whole>>
    PROVE  ConfigInv'
  <1> USE Fields
  <1>1. /\ EEPROMAddress' = address /\ EEPROMBuffer' = <<>> /\ to_write' = <<byte>>
        /\ pc' = "writing" /\ Idle
    BY DEF XEEBeginWrite, ConfigInv, ConfigType, Running
  <1>2. ConfigType'
    BY <1>1 DEF ConfigInv, ConfigType
  <1>3. intact' # Address /\ address \notin intact'
    OBVIOUS
  <1>4. WritingOther'
    <2>1. Len(EEPROMBuffer') = 0 /\ Len(to_write') = 1 /\ DOMAIN cycle' = {}
      BY <1>1 DEF Idle
    <2>2. QED
      BY <1>1, <1>3, <2>1 DEF WritingOther
  <1>5. SavedStays'
    BY DEF SavedStays, ConfigInv, Saved
  <1>6. QED
    BY <1>1, <1>2, <1>3, <1>4, <1>5 DEF ConfigInv

-----------------------------------------------------------------------------
(* The driver *)

\* The address of the k-th byte of the buffer.
LEMMA BufferPlace ==
    ASSUME EEPROMAddress \in Nat, NEW buffer \in Seq(Nat), NEW k \in 1 .. Len(buffer),
           Len(buffer) = 1 \/ (/\ EEPROMAddress % EEPROM_BUFFER_SIZE = 0
                               /\ Len(buffer) <= EEPROM_BUFFER_SIZE)
    PROVE  InPage(EEPROMAddress, k - 1) = EEPROMAddress + k - 1
  <1> USE Fields
  <1>1. CASE Len(buffer) = 1
    <2>1. k = 1 /\ k - 1 = 0
      BY <1>1
    <2>2. InPage(EEPROMAddress, 0) = EEPROMAddress
      BY InPageOne
    <2>3. QED
      BY <2>1, <2>2
  <1>2. CASE EEPROMAddress % EEPROM_BUFFER_SIZE = 0 /\ Len(buffer) <= EEPROM_BUFFER_SIZE
    <2>1. k - 1 \in 0 .. EEPROM_BUFFER_SIZE - 1
      BY <1>2
    <2>2. QED
      BY <1>2, <2>1, InPageAligned
  <1>3. QED
    BY <1>1, <1>2

\* A write cycle writes the bytes of the buffer from the address on.
LEMMA DoWriteExact ==
    ASSUME EEPROMAddress \in Nat, NEW buffer \in Seq(Nat), DoWrite(buffer),
           Len(buffer) = 1 \/ (/\ EEPROMAddress % EEPROM_BUFFER_SIZE = 0
                               /\ Len(buffer) <= EEPROM_BUFFER_SIZE)
    PROVE  /\ DOMAIN cycle' = {EEPROMAddress + k - 1 : k \in 1 .. Len(buffer)}
           /\ \A k \in 1 .. Len(buffer) : cycle'[EEPROMAddress + k - 1] = buffer[k]
           /\ \A a \in DOMAIN cycle' : cycle'[a] \in Nat
  <1> DEFINE place(k) == InPage(EEPROMAddress, k - 1)
  <1>1. DOMAIN buffer = 1 .. Len(buffer)
    OBVIOUS
  <1>2. \A k \in 1 .. Len(buffer) : place(k) = EEPROMAddress + k - 1
    BY BufferPlace
  <1>3. cycle' = [a \in {place(k) : k \in 1 .. Len(buffer)} |->
                     buffer[CHOOSE k \in 1 .. Len(buffer) : place(k) = a]]
    BY <1>1 DEF DoWrite
  <1> HIDE DEF place
  <1>4. DOMAIN cycle' = {EEPROMAddress + k - 1 : k \in 1 .. Len(buffer)}
    BY <1>2, <1>3
  <1>5. ASSUME NEW k \in 1 .. Len(buffer)
        PROVE  cycle'[EEPROMAddress + k - 1] = buffer[k]
    <2> DEFINE a == EEPROMAddress + k - 1
               j == CHOOSE i \in 1 .. Len(buffer) : place(i) = a
    <2>1. place(k) = a
      BY <1>2
    <2>2. j \in 1 .. Len(buffer) /\ place(j) = a
      BY <2>1
    <2>3. EEPROMAddress + j - 1 = EEPROMAddress + k - 1
      BY <1>2, <2>2
    <2>4. j = k
      BY <2>2, <2>3
    <2>5. cycle'[a] = buffer[j]
      BY <1>3, <2>1
    <2>6. QED
      BY <2>4, <2>5
  <1>6. \A k \in 1 .. Len(buffer) : buffer[k] \in Nat
    OBVIOUS
  <1>7. QED
    BY <1>4, <1>5, <1>6

LEMMA ChipReadyKeeps == ConfigInv /\ ChipReady => ConfigInv'
  <1> SUFFICES ASSUME ConfigInv, ChipReady PROVE ConfigInv'
    OBVIOUS
  <1> USE Fields
  <1>1. /\ eeprom' = Programmed(DOMAIN cycle) /\ cycle' = <<>> /\ DOMAIN cycle' = {}
        /\ UNCHANGED <<EEPROMAddress, EEPROMBuffer, to_write, AppConfig, app, pc,
                       attempt, whole, intact>>
    BY DEF ChipReady, driver, history
  <1>2. ConfigType'
    <2>1. eeprom' \in [Address -> Nat]
      BY <1>1 DEF Programmed, ConfigInv, ConfigType
    <2>2. QED
      BY <1>1, <2>1 DEF ConfigInv, ConfigType, Idle
  <1>3. \A a \in Address : Programmed(DOMAIN cycle)'[a] = Programmed(DOMAIN cycle)[a]
    BY <1>1, <1>2 DEF Programmed, ConfigType
  <1>4. Saving => Saving'
    BY <1>1, <1>3 DEF Saving, Saved
  <1>5. WritingOther => WritingOther'
    BY <1>1 DEF WritingOther
  <1>6. SavedStays'
    <2> SUFFICES ASSUME whole, NEW a \in intact PROVE eeprom'[a] = Saved(a)
      BY <1>1 DEF SavedStays, Saved
    <2>1. pc = "writing"
      BY DEF ChipReady, ConfigInv, ConfigType
    <2>2. a \notin DOMAIN cycle /\ a \in Address
      BY <2>1 DEF ConfigInv, ConfigType, WritingOther
    <2>3. QED
      BY <1>1, <2>2 DEF Programmed, ConfigInv, SavedStays
  <1>7. QED
    BY <1>1, <1>2, <1>4, <1>5, <1>6 DEF ConfigInv

\* A page of a save goes out: the bytes before it are in the chip.
LEMMA SavingSends ==
    ASSUME ConfigType, ConfigType', Idle, NEW buffer \in Seq(Nat), DoWrite(buffer),
           buffer # <<>>, EEPROMAddress % EEPROM_BUFFER_SIZE = 0,
           Len(buffer) <= EEPROM_BUFFER_SIZE, UNCHANGED <<eeprom, attempt>>,
           \A k \in 1 .. Len(buffer) : buffer[k] = Saved(EEPROMAddress + k - 1),
           \A a \in Address : a < EEPROMAddress => Programmed(DOMAIN cycle)[a] = Saved(a),
           NEW a \in Address, a < EEPROMAddress'
    PROVE  Programmed(DOMAIN cycle)'[a] = Saved(a)'
  <1> USE Fields
  <1>1. EEPROMAddress \in Nat /\ EEPROMAddress' = EEPROMAddress + Len(buffer) /\ a \in Nat
    BY DEF DoWrite, ConfigType
  <1>2. /\ DOMAIN cycle' = {EEPROMAddress + k - 1 : k \in 1 .. Len(buffer)}
        /\ \A k \in 1 .. Len(buffer) : cycle'[EEPROMAddress + k - 1] = buffer[k]
    BY <1>1, DoWriteExact
  <1>3. Programmed(DOMAIN cycle)'[a] = IF a \in DOMAIN cycle' THEN cycle'[a] ELSE eeprom[a]
    BY DEF Programmed
  <1>4. CASE a < EEPROMAddress
    <2>1. a \notin DOMAIN cycle'
      BY <1>1, <1>2, <1>4
    <2>2. Programmed(DOMAIN cycle)[a] = eeprom[a]
      BY DEF Programmed, Idle
    <2>3. QED
      BY <1>3, <1>4, <2>1, <2>2 DEF Saved
  <1>5. CASE a >= EEPROMAddress
    <2>1. PICK k \in 1 .. Len(buffer) : a = EEPROMAddress + k - 1
      <3>1. Len(buffer) \in Nat
        OBVIOUS
      <3>2. a - EEPROMAddress + 1 \in 1 .. Len(buffer)
            /\ a = EEPROMAddress + (a - EEPROMAddress + 1) - 1
        BY <1>1, <1>5, <3>1
      <3>3. QED
        BY <3>2
    <2>2. a \in DOMAIN cycle' /\ cycle'[a] = buffer[k] /\ buffer[k] = Saved(a)
      BY <1>2, <2>1
    <2>3. QED
      BY <1>3, <2>2 DEF Saved
  <1>6. QED
    BY <1>1, <1>4, <1>5

\* What the driver holds may be sent: it begins a page, or is one byte.
Sendable(buffer) ==
    \/ Len(buffer) = 1
    \/ EEPROMAddress % EEPROM_BUFFER_SIZE = 0 /\ Len(buffer) <= EEPROM_BUFFER_SIZE

\* One of the two descriptions holds of every write.
LEMMA SavingOrOther ==
    ASSUME ConfigInv, pc = "writing"
    PROVE  \/ intact = Address /\ ~whole /\ Saving
           \/ intact # Address /\ WritingOther
  BY DEF ConfigInv

\* The caller passes its next byte.
LEMMA NextByte ==
    ASSUME ConfigType, to_write # <<>>
    PROVE  LET buffer == Append(EEPROMBuffer, Head(to_write))
           IN /\ buffer \in Seq(Nat) /\ Len(buffer) = Len(EEPROMBuffer) + 1
              /\ \A k \in 1 .. Len(EEPROMBuffer) : buffer[k] = EEPROMBuffer[k]
              /\ buffer[Len(EEPROMBuffer) + 1] = to_write[1]
              /\ Tail(to_write) \in Seq(Nat) /\ Len(Tail(to_write)) = Len(to_write) - 1
              /\ \A k \in 1 .. Len(to_write) - 1 : Tail(to_write)[k] = to_write[k + 1]
              /\ Len(EEPROMBuffer) \in Nat /\ Len(to_write) \in Nat \ {0}
  <1>1. /\ Head(to_write) \in Nat /\ Tail(to_write) \in Seq(Nat)
        /\ Len(Tail(to_write)) = Len(to_write) - 1
        /\ \A k \in 1 .. Len(Tail(to_write)) : Tail(to_write)[k] = to_write[k + 1]
    BY HeadTailProperties DEF ConfigType
  <1>2. Head(to_write) = to_write[1] /\ Len(to_write) \in Nat \ {0}
    BY EmptySeq DEF ConfigType
  <1>3. QED
    BY <1>1, <1>2 DEF ConfigType

\* In a save it is the byte that belongs behind what the buffer holds.
LEMMA BufferSaved ==
    ASSUME ConfigType, Saving, to_write # <<>>
    PROVE  LET buffer == Append(EEPROMBuffer, Head(to_write))
           IN \A k \in 1 .. Len(buffer) : buffer[k] = Saved(EEPROMAddress + k - 1)
  <1> DEFINE n == EEPROMAddress
             buffer == Append(EEPROMBuffer, Head(to_write))
             gone == Len(EEPROMBuffer)
             rest == Len(to_write)
  <1>1. /\ Len(buffer) = gone + 1
        /\ \A k \in 1 .. gone : buffer[k] = EEPROMBuffer[k]
        /\ buffer[gone + 1] = to_write[1]
        /\ gone \in Nat /\ rest \in Nat \ {0} /\ n \in Nat
    BY NextByte DEF ConfigType
  <1>2. /\ \A k \in 1 .. gone : EEPROMBuffer[k] = Saved(n + k - 1)
        /\ \A k \in 1 .. rest : to_write[k] = Saved(n + gone + k - 1)
    BY DEF Saving
  <1> HIDE DEF n, buffer, gone, rest
  <1> SUFFICES ASSUME NEW k \in 1 .. gone + 1 PROVE buffer[k] = Saved(n + k - 1)
    BY <1>1 DEF buffer, n
  <1>3. CASE k \in 1 .. gone
    BY <1>1, <1>2, <1>3
  <1>4. CASE k = gone + 1
    <2>1. 1 \in 1 .. rest /\ n + gone + 1 - 1 = n + k - 1
      BY <1>1, <1>4
    <2>2. QED
      BY <1>1, <1>2, <1>4, <2>1
  <1>5. QED
    BY <1>1, <1>3, <1>4

LEMMA XEEWriteSaving ==
    ASSUME ConfigType, ConfigType', Saving, XEEWrite
    PROVE  Saving'
  <1> USE Fields
  <1> DEFINE n == EEPROMAddress
             buffer == Append(EEPROMBuffer, Head(to_write))
             gone == Len(EEPROMBuffer)
             rest == Len(to_write)
  <1>1. /\ buffer \in Seq(Nat) /\ Len(buffer) = gone + 1
        /\ \A k \in 1 .. gone : buffer[k] = EEPROMBuffer[k]
        /\ buffer[gone + 1] = to_write[1]
        /\ Tail(to_write) \in Seq(Nat) /\ Len(Tail(to_write)) = rest - 1
        /\ \A k \in 1 .. rest - 1 : Tail(to_write)[k] = to_write[k + 1]
        /\ gone \in Nat /\ rest \in Nat \ {0}
    BY NextByte DEF XEEWrite
  <1>2. /\ to_write' = Tail(to_write) /\ Idle /\ n \in Nat
        /\ UNCHANGED <<eeprom, attempt>>
        /\ \/ Len(buffer) = EEPROM_BUFFER_SIZE /\ DoWrite(buffer)
           \/ /\ Len(buffer) < EEPROM_BUFFER_SIZE
              /\ EEPROMBuffer' = buffer /\ UNCHANGED <<cycle, EEPROMAddress>>
    BY DEF XEEWrite, ConfigType, history
  <1>3. /\ n % EEPROM_BUFFER_SIZE = 0 /\ n + gone + rest = 4 /\ gone < EEPROM_BUFFER_SIZE
        /\ \A k \in 1 .. gone : EEPROMBuffer[k] = Saved(n + k - 1)
        /\ \A k \in 1 .. rest : to_write[k] = Saved(n + gone + k - 1)
        /\ \A a \in Address : a < n => Programmed(DOMAIN cycle)[a] = Saved(a)
    BY DEF Saving, XEEWrite
  <1> HIDE DEF n, buffer, gone, rest
  <1>0. n \in Nat /\ gone \in Nat /\ rest \in Nat /\ rest > 0
    BY <1>1, <1>2
  <1>4. \A k \in 1 .. gone + 1 : buffer[k] = Saved(n + k - 1)
    BY <1>1, BufferSaved DEF XEEWrite, buffer, n
  <1>5. \A k \in 1 .. rest - 1 : to_write'[k] = Saved(n + (gone + 1) + k - 1)
    <2> SUFFICES ASSUME NEW k \in 1 .. rest - 1
                 PROVE  to_write'[k] = Saved(n + (gone + 1) + k - 1)
      OBVIOUS
    <2>1. /\ k + 1 \in 1 .. rest
          /\ n + gone + (k + 1) - 1 = n + (gone + 1) + k - 1
      BY <1>0
    <2>2. QED
      BY <1>1, <1>2, <1>3, <2>1
  <1>6. UNCHANGED attempt /\ Len(to_write') = rest - 1
    BY <1>1, <1>2
  <1>7. CASE Len(buffer) = EEPROM_BUFFER_SIZE /\ DoWrite(buffer)
    <2>1. EEPROMAddress' = n + (gone + 1) /\ EEPROMBuffer' = <<>>
      BY <1>1, <1>7 DEF DoWrite, n
    <2>2. EEPROMAddress' % EEPROM_BUFFER_SIZE = 0
      <3>1. EEPROMAddress' = n + EEPROM_BUFFER_SIZE
        BY <1>1, <1>7, <2>1
      <3>2. n % EEPROM_BUFFER_SIZE = 0
        BY <1>3
      <3>3. QED
        BY <1>0, <3>1, <3>2, NextPage
    <2>3. \A a \in Address : a < EEPROMAddress' =>
              Programmed(DOMAIN cycle)'[a] = Saved(a)'
      <3> SUFFICES ASSUME NEW a \in Address, a < EEPROMAddress'
                   PROVE  Programmed(DOMAIN cycle)'[a] = Saved(a)'
        OBVIOUS
      <3>1. /\ EEPROMAddress % EEPROM_BUFFER_SIZE = 0
            /\ \A b \in Address : b < EEPROMAddress => Programmed(DOMAIN cycle)[b] = Saved(b)
        BY <1>3 DEF n
      <3>2. \A k \in 1 .. Len(buffer) : buffer[k] = Saved(EEPROMAddress + k - 1)
        BY <1>1, <1>4 DEF n
      <3>3. buffer \in Seq(Nat) /\ buffer # <<>> /\ Len(buffer) <= EEPROM_BUFFER_SIZE
        <4>1. Len(buffer) # 0 /\ Len(buffer) \in Nat
          BY <1>0, <1>1
        <4>2. QED
          BY <1>1, <1>7, <4>1, EmptySeq
      <3>4. UNCHANGED <<eeprom, attempt>> /\ Idle /\ DoWrite(buffer)
        BY <1>2, <1>7
      <3>5. QED
        BY <3>1, <3>2, <3>3, <3>4, SavingSends
    <2>4. Len(EEPROMBuffer') = 0
      BY <2>1
    <2>5. EEPROMAddress' + 0 + (rest - 1) = 4
      BY <1>1, <1>2, <1>3, <2>1
    <2>6. \A k \in 1 .. rest - 1 :
              to_write'[k] = Saved(EEPROMAddress + Len(EEPROMBuffer) + k - 1)'
      <3> SUFFICES ASSUME NEW k \in 1 .. rest - 1
                   PROVE  to_write'[k] = Saved(EEPROMAddress + Len(EEPROMBuffer) + k - 1)'
        OBVIOUS
      <3>1. EEPROMAddress' + Len(EEPROMBuffer') + k - 1 = n + (gone + 1) + k - 1
        BY <1>1, <1>2, <2>1, <2>4
      <3>2. to_write'[k] = Saved(n + (gone + 1) + k - 1)
        BY <1>5
      <3>3. QED
        BY <1>6, <3>1, <3>2 DEF Saved
    <2>7. /\ Len(EEPROMBuffer') < EEPROM_BUFFER_SIZE
          /\ EEPROMAddress' + Len(EEPROMBuffer') + Len(to_write') = MAC + 1
          /\ \A k \in 1 .. Len(EEPROMBuffer') : FALSE
      BY <1>6, <2>4, <2>5
    <2>8. QED
      BY <1>6, <2>2, <2>3, <2>6, <2>7 DEF Saving
  <1>8. CASE /\ Len(buffer) < EEPROM_BUFFER_SIZE
             /\ EEPROMBuffer' = buffer /\ UNCHANGED <<cycle, EEPROMAddress>>
    <2>1. EEPROMAddress' = n /\ Len(EEPROMBuffer') = gone + 1
      BY <1>1, <1>8 DEF n
    <2>2. \A a \in Address : a < EEPROMAddress' =>
              Programmed(DOMAIN cycle)'[a] = Saved(a)'
      BY <1>2, <1>3, <1>8 DEF Programmed, Saved, n
    <2>3. \A k \in 1 .. gone + 1 : EEPROMBuffer'[k] = Saved(EEPROMAddress + k - 1)'
      BY <1>4, <1>6, <1>8, <2>1 DEF Saved, n
    <2>4. \A k \in 1 .. rest - 1 :
              to_write'[k] = Saved(EEPROMAddress + Len(EEPROMBuffer) + k - 1)'
      BY <1>5, <1>6, <2>1 DEF Saved
    <2>5. EEPROMAddress' + Len(EEPROMBuffer') + Len(to_write') = MAC + 1
      BY <1>1, <1>2, <1>3, <1>6, <2>1
    <2>6. /\ Len(EEPROMBuffer') < EEPROM_BUFFER_SIZE
          /\ EEPROMAddress' % EEPROM_BUFFER_SIZE = 0
      BY <1>3, <1>8, <2>1
    <2>7. QED
      BY <1>6, <2>1, <2>2, <2>3, <2>4, <2>5, <2>6 DEF Saving
  <1>9. QED
    BY <1>2, <1>7, <1>8

\* What is left of a write of another byte after it was passed or sent.
LEMMA XEEWriteOther ==
    ASSUME ConfigType, WritingOther, XEEWrite
    PROVE  WritingOther'
  <1> USE Fields
  <1> DEFINE buffer == Append(EEPROMBuffer, Head(to_write))
  <1>1. /\ buffer \in Seq(Nat) /\ Len(buffer) = Len(EEPROMBuffer) + 1
        /\ Len(Tail(to_write)) = Len(to_write) - 1
        /\ Len(EEPROMBuffer) \in Nat /\ Len(to_write) \in Nat \ {0}
    BY NextByte DEF XEEWrite
  <1>2. /\ to_write' = Tail(to_write) /\ EEPROMAddress \in Nat /\ UNCHANGED intact
        /\ \/ Len(buffer) = EEPROM_BUFFER_SIZE /\ DoWrite(buffer)
           \/ /\ Len(buffer) < EEPROM_BUFFER_SIZE
              /\ EEPROMBuffer' = buffer /\ UNCHANGED <<cycle, EEPROMAddress>>
    BY DEF XEEWrite, ConfigType, history
  <1>3. Len(buffer) = 1 /\ Len(to_write') = 0 /\ EEPROMAddress \notin intact
    BY <1>1, <1>2 DEF WritingOther
  <1> HIDE DEF buffer
  <1>4. CASE Len(buffer) = EEPROM_BUFFER_SIZE /\ DoWrite(buffer)
    <2>1. DOMAIN cycle' = {EEPROMAddress + k - 1 : k \in 1 .. Len(buffer)}
      BY <1>1, <1>2, <1>3, <1>4, DoWriteExact
    <2>2. \A a \in DOMAIN cycle' : a = EEPROMAddress
      BY <1>2, <1>3, <2>1
    <2>3. Len(EEPROMBuffer') = 0
      BY <1>4 DEF DoWrite
    <2>4. DOMAIN cycle' \cap intact = {}
      BY <1>3, <2>2
    <2>5. DOMAIN cycle' \cap intact' = {} /\ Len(EEPROMBuffer') + Len(to_write') = 0
      BY <1>2, <1>3, <2>3, <2>4
    <2>6. QED
      BY <2>5 DEF WritingOther
  <1>5. CASE EEPROMBuffer' = buffer /\ UNCHANGED <<cycle, EEPROMAddress>>
    <2>0. Len(EEPROMBuffer') = 1 /\ EEPROMAddress' = EEPROMAddress /\ intact' = intact
      BY <1>2, <1>3, <1>5
    <2>1. Len(EEPROMBuffer') + Len(to_write') = 1 /\ EEPROMAddress' \notin intact'
      BY <1>3, <2>0
    <2>2. DOMAIN cycle' \cap intact' = {}
      BY <1>2, <1>5 DEF WritingOther
    <2>3. QED
      BY <2>1, <2>2 DEF WritingOther
  <1>6. QED
    BY <1>2, <1>4, <1>5

LEMMA XEEWriteKeeps == ConfigInv /\ XEEWrite => ConfigInv'
  <1> SUFFICES ASSUME ConfigInv, XEEWrite PROVE ConfigInv'
    OBVIOUS
  <1> USE Fields
  <1> DEFINE buffer == Append(EEPROMBuffer, Head(to_write))
  <1>1. /\ buffer \in Seq(Nat) /\ Len(buffer) = Len(EEPROMBuffer) + 1
        /\ Tail(to_write) \in Seq(Nat) /\ Len(Tail(to_write)) = Len(to_write) - 1
        /\ Len(EEPROMBuffer) \in Nat /\ Len(to_write) \in Nat \ {0}
    BY NextByte DEF XEEWrite, ConfigInv
  <1>2. /\ to_write' = Tail(to_write) /\ pc = "writing" /\ EEPROMAddress \in Nat
        /\ UNCHANGED <<eeprom, AppConfig, app, pc, attempt, whole, intact>>
        /\ \/ Len(buffer) = EEPROM_BUFFER_SIZE /\ DoWrite(buffer)
           \/ EEPROMBuffer' = buffer /\ UNCHANGED <<cycle, EEPROMAddress>>
    BY DEF XEEWrite, ConfigInv, ConfigType, history
  <1>3. Len(buffer) = EEPROM_BUFFER_SIZE => Sendable(buffer)
    BY <1>1, <1>2, SavingOrOther DEF Sendable, Saving, WritingOther, XEEWrite
  <1> HIDE DEF buffer
  <1>4. ConfigType'
    <2>1. CASE Len(buffer) = EEPROM_BUFFER_SIZE /\ DoWrite(buffer)
      <3>1. \A a \in DOMAIN cycle' : cycle'[a] \in Nat
        BY <1>1, <1>2, <1>3, <2>1, DoWriteExact DEF Sendable
      <3>2. EEPROMAddress' \in Nat /\ EEPROMBuffer' \in Seq(Nat)
        BY <1>1, <1>2, <2>1 DEF DoWrite
      <3>3. QED
        BY <1>1, <1>2, <3>1, <3>2 DEF ConfigInv, ConfigType
    <2>2. CASE EEPROMBuffer' = buffer /\ UNCHANGED <<cycle, EEPROMAddress>>
      BY <1>1, <1>2, <2>2 DEF ConfigInv, ConfigType
    <2>3. QED
      BY <1>2, <2>1, <2>2
  <1>5. Saving => Saving'
    BY <1>4, XEEWriteSaving DEF ConfigInv
  <1>6. WritingOther => WritingOther'
    BY XEEWriteOther DEF ConfigInv
  <1>7. SavedStays'
    BY <1>2 DEF SavedStays, Saved, ConfigInv
  <1>8. QED
    BY <1>2, <1>4, <1>5, <1>6, <1>7 DEF ConfigInv

LEMMA XEEEndWriteKeeps == ConfigInv /\ XEEEndWrite => ConfigInv'
  <1> SUFFICES ASSUME ConfigInv, XEEEndWrite PROVE ConfigInv'
    OBVIOUS
  <1> USE Fields
  <1>1. /\ pc = "writing" /\ Idle /\ to_write = <<>> /\ EEPROMBuffer # <<>>
        /\ DoWrite(EEPROMBuffer) /\ EEPROMAddress \in Nat
        /\ EEPROMBuffer \in Seq(Nat) /\ EEPROMBuffer' = <<>>
        /\ EEPROMAddress' = EEPROMAddress + Len(EEPROMBuffer)
        /\ UNCHANGED <<eeprom, to_write, AppConfig, app, pc, attempt, whole, intact>>
    BY DEF XEEEndWrite, ConfigInv, ConfigType, DoWrite, history
  <1>2. Len(EEPROMBuffer) \in Nat \ {0} /\ Len(to_write) = 0 /\ Len(EEPROMBuffer') = 0
        /\ Len(to_write') = 0
    BY <1>1, EmptySeq
  <1> DEFINE held == Len(EEPROMBuffer)
             rest == Len(to_write)
  <1>3a. ASSUME WritingOther PROVE held = 1 /\ EEPROMAddress \notin intact
    <2>1. held + rest <= 1 /\ (held + rest = 1 => EEPROMAddress \notin intact)
      BY <1>3a DEF WritingOther
    <2>2. held \in Nat \ {0} /\ rest = 0
      BY <1>2
    <2> HIDE DEF held, rest
    <2>3. QED
      BY <2>1, <2>2
  <1>3b. ASSUME Saving
        PROVE  EEPROMAddress % EEPROM_BUFFER_SIZE = 0 /\ held <= EEPROM_BUFFER_SIZE
    BY <1>1, <1>2, <1>3b DEF Saving
  <1>3. Sendable(EEPROMBuffer)
    BY <1>1, <1>3a, <1>3b, SavingOrOther DEF Sendable
  <1>4. /\ DOMAIN cycle' = {EEPROMAddress + k - 1 : k \in 1 .. Len(EEPROMBuffer)}
        /\ \A a \in DOMAIN cycle' : cycle'[a] \in Nat
    BY <1>1, <1>3, DoWriteExact DEF Sendable
  <1>5. ConfigType'
    <2>1. EEPROMBuffer' \in Seq(Nat) /\ EEPROMAddress' \in Nat
      BY <1>1, <1>2
    <2>2. QED
      BY <1>1, <1>4, <2>1 DEF ConfigInv, ConfigType
  <1>6. ASSUME Saving PROVE Saving'
    <2>1. /\ EEPROMAddress % EEPROM_BUFFER_SIZE = 0
          /\ EEPROMAddress + Len(EEPROMBuffer) = 4 /\ Len(EEPROMBuffer) <= EEPROM_BUFFER_SIZE
          /\ \A k \in 1 .. Len(EEPROMBuffer) : EEPROMBuffer[k] = Saved(EEPROMAddress + k - 1)
          /\ \A a \in Address : a < EEPROMAddress => Programmed(DOMAIN cycle)[a] = Saved(a)
      BY <1>1, <1>2, <1>6 DEF Saving
    <2>2. \A a \in Address : a < EEPROMAddress' => Programmed(DOMAIN cycle)'[a] = Saved(a)'
      <3> SUFFICES ASSUME NEW a \in Address, a < EEPROMAddress'
                   PROVE  Programmed(DOMAIN cycle)'[a] = Saved(a)'
        OBVIOUS
      <3>1. QED
        BY <1>1, <1>5, <2>1, SavingSends DEF ConfigInv
    <2>3. /\ Len(EEPROMBuffer') < EEPROM_BUFFER_SIZE
          /\ EEPROMAddress' + Len(EEPROMBuffer') + Len(to_write') = MAC + 1
          /\ to_write' = <<>> /\ EEPROMBuffer' = <<>>
      BY <1>1, <1>2, <2>1
    <2>4. /\ \A k \in 1 .. Len(EEPROMBuffer') : FALSE
          /\ \A k \in 1 .. Len(to_write') : FALSE
      BY <1>2
    <2>5. QED
      BY <2>2, <2>3, <2>4 DEF Saving
  <1>7. ASSUME WritingOther PROVE WritingOther'
    <2>1. Len(EEPROMBuffer) = 1 /\ EEPROMAddress \notin intact
      BY <1>7, <1>3a
    <2>2. \A a \in DOMAIN cycle' : a = EEPROMAddress
      BY <1>1, <1>4, <2>1
    <2>3. DOMAIN cycle' \cap intact' = {}
      BY <1>1, <2>1, <2>2
    <2>4. Len(EEPROMBuffer') + Len(to_write') = 0
      BY <1>2
    <2>5. QED
      BY <2>3, <2>4 DEF WritingOther
  <1>8. SavedStays'
    BY <1>1 DEF SavedStays, Saved, ConfigInv
  <1>9. QED
    BY <1>1, <1>5, <1>6, <1>7, <1>8 DEF ConfigInv

\* A save that is over is in the chip.
LEMMA WriteDoneKeeps == ConfigInv /\ WriteDone => ConfigInv'
  <1> SUFFICES ASSUME ConfigInv, WriteDone PROVE ConfigInv'
    OBVIOUS
  <1> USE Fields
  <1>1. /\ pc = "writing" /\ Idle /\ to_write = <<>> /\ EEPROMBuffer = <<>>
        /\ whole' = (whole \/ intact = Address)
        /\ pc' \in {"boot", "running"}
        /\ UNCHANGED <<eeprom, cycle, attempt, intact>>
    BY DEF WriteDone, CStartup
  <1>2. ConfigType'
    <2>1. CASE CStartup
      BY <1>1, <2>1 DEF ConfigInv, ConfigType, CStartup, Idle
    <2>2. CASE UNCHANGED <<driver, AppConfig, app>>
      BY <1>1, <2>2 DEF ConfigInv, ConfigType, driver, Idle
    <2>3. QED
      BY <2>1, <2>2 DEF WriteDone
  <1>3. SavedStays'
    <2> SUFFICES ASSUME whole', NEW a \in intact PROVE eeprom[a] = Saved(a)
      BY <1>1 DEF SavedStays, Saved
    <2>1. CASE whole
      BY <2>1 DEF ConfigInv, SavedStays
    <2>2. CASE ~whole
      <3>1. intact = Address /\ Saving
        BY <1>1, <2>2, SavingOrOther
      <3>2. EEPROMAddress = 4
        BY <1>1, <3>1 DEF Saving, ConfigInv, ConfigType
      <3>3. a \in Address /\ a < EEPROMAddress
        BY <3>1, <3>2
      <3>4. Programmed(DOMAIN cycle)[a] = Saved(a)
        BY <3>1, <3>3 DEF Saving
      <3>5. Programmed(DOMAIN cycle)[a] = eeprom[a]
        BY <1>1, <3>3 DEF Programmed, Idle
      <3>6. QED
        BY <3>4, <3>5
    <2>3. QED
      BY <2>1, <2>2
  <1>4. QED
    BY <1>1, <1>2, <1>3 DEF ConfigInv

-----------------------------------------------------------------------------
(* Boot, and everything else *)

LEMMA InitAppConfigKeeps == ConfigInv /\ InitAppConfig => ConfigInv'
  <1> SUFFICES ASSUME ConfigInv, InitAppConfig PROVE ConfigInv'
    OBVIOUS
  <1> USE Fields
  <1>1. pc = "boot" /\ Idle /\ UNCHANGED <<eeprom, cycle, app>>
    BY DEF InitAppConfig, ConfigInv, ConfigType
  <1>2. CASE /\ eeprom[0] = VALID /\ AppConfig' = Record /\ pc' = "running"
             /\ attempt' = Record /\ whole' = TRUE /\ intact' = Address /\ UNCHANGED driver
    <2>1. Record \in Config /\ \A f \in Field : Record[f] = eeprom[f]
      BY DEF Record, Config, ConfigInv, ConfigType
    <2>2. ConfigType'
      BY <1>1, <1>2, <2>1 DEF ConfigInv, ConfigType, driver, Idle
    <2>3. SavedStays'
      <3> SUFFICES ASSUME NEW a \in Address PROVE eeprom[a] = Saved(a)'
        BY <1>1, <1>2 DEF SavedStays
      <3>1. CASE a = 0
        BY <1>2, <3>1 DEF Saved
      <3>2. CASE a # 0
        <4>1. a \in Field
          BY <3>2
        <4>2. QED
          BY <1>2, <2>1, <3>2, <4>1 DEF Saved
      <3>3. QED
        BY <3>1, <3>2
    <2>4. QED
      BY <1>2, <2>2, <2>3 DEF ConfigInv
  <1>3. CASE AppConfig' = Defaults /\ SaveAppConfig(Defaults, "running")
    BY <1>1, <1>3, SaveBegins DEF ConfigInv, ConfigType
  <1>4. QED
    BY <1>2, <1>3 DEF InitAppConfig

LEMMA RestartsKeep == ConfigInv /\ (PowerFail \/ HTTPPrint_reboot) => ConfigInv'
  <1> SUFFICES ASSUME ConfigInv, PowerFail \/ HTTPPrint_reboot PROVE ConfigInv'
    OBVIOUS
  <1>1. CASE PowerFail
    BY <1>1, RestartKeeps DEF PowerFail
  <1>2. CASE HTTPPrint_reboot
    <2>1. Idle /\ CStartup /\ UNCHANGED <<eeprom, cycle, history>>
      BY <1>2 DEF HTTPPrint_reboot, ConfigInv, ConfigType, Running
    <2>2. {} \in SUBSET DOMAIN cycle /\ eeprom' = Programmed({}) /\ cycle' = <<>>
      BY <2>1 DEF Programmed, Idle, ConfigInv, ConfigType
    <2>3. QED
      BY <2>1, <2>2, RestartKeeps
  <1>3. QED
    BY <1>1, <1>2

LEMMA HostKeeps == ConfigInv /\ Host => ConfigInv'
  <1> SUFFICES ASSUME ConfigInv, Host PROVE ConfigInv'
    OBVIOUS
  <1> USE Fields
  <1>0. AppConfig \in Config /\ (app # NoForm => app \in Config) /\ (Running => Idle)
    BY DEF ConfigInv, ConfigType, Running
  <1>1. ASSUME NEW ip \in Addresses, NEW mac \in Macs, DiscoverySaveConfig(ip, mac)
        PROVE  ConfigInv'
    <2>1. AppConfig' \in Config
      BY <1>1, Tuple DEF DiscoverySaveConfig
    <2>2. QED
      BY <1>0, <1>1, <2>1, SaveBegins DEF DiscoverySaveConfig
  <1>2. ASSUME NEW ip \in Addresses, DHCPBound(ip) PROVE ConfigInv'
    <2>1. AppConfig' \in Config
      BY <1>0, <1>2 DEF DHCPBound, Config
    <2>2. QED
      BY <1>0, <1>2, <2>1, MemorySame DEF DHCPBound
  <1>3. CASE PostStart
    <2>1. app' \in Config
      BY <1>0, <1>3 DEF PostStart, Config
    <2>2. QED
      BY <1>0, <1>3, <2>1, MemorySame DEF PostStart
  <1>4. ASSUME NEW f \in {IP, FLAGS}, NEW v \in Nat, PostValue(f, v) PROVE ConfigInv'
    <2>1. app' \in Config
      BY <1>0, <1>4 DEF PostValue, Config
    <2>2. QED
      BY <1>0, <1>4, <2>1, MemorySame DEF PostValue
  <1>5. CASE PostFailure
    BY <1>0, <1>5, MemorySame DEF PostFailure
  <1>6. CASE PostSuccess
    BY <1>0, <1>6, SaveBegins DEF PostSuccess
  <1>7. ASSUME NEW v \in {0, 1}, set_io_out_power_down_hold(v) PROVE ConfigInv'
    <2>1. io_out_hold \in Address /\ v \in Nat
      BY DEF io_out_hold
    <2>2. QED
      BY <1>7, <2>1, OtherBegins DEF set_io_out_power_down_hold
  <1>8. CASE ResetToDefaultConfig
    <2>1. 0 \in Address /\ 0 \in Nat
      OBVIOUS
    <2>2. QED
      BY <1>8, <2>1, OtherBegins DEF ResetToDefaultConfig
  <1>9. CASE HTTPPrint_reboot
    BY <1>9, RestartsKeep
  <1>10. /\ \A v \in Addresses : v \in Nat
         /\ \A v \in {0, 1} : v \in Nat
    OBVIOUS
  <1>11. QED
    BY <1>1, <1>2, <1>3, <1>4, <1>5, <1>6, <1>7, <1>8, <1>9, <1>10 DEF Host

LEMMA ConfigNext == ConfigInv /\ [Next]_vars => ConfigInv'
  <1> SUFFICES ASSUME ConfigInv, [Next]_vars PROVE ConfigInv'
    OBVIOUS
  <1>1. AppConfig \in Config /\ (app # NoForm => app \in Config)
    BY DEF ConfigInv, ConfigType
  <1>2. CASE Driver
    BY <1>2, XEEWriteKeeps, XEEEndWriteKeeps, WriteDoneKeeps, InitAppConfigKeeps DEF Driver
  <1>3. CASE ChipReady
    BY <1>3, ChipReadyKeeps
  <1>4. CASE DiscoverTask
    BY <1>1, <1>4, MemorySame DEF DiscoverTask
  <1>5. CASE Host
    BY <1>5, HostKeeps
  <1>6. CASE PowerFail
    BY <1>6, RestartsKeep
  <1>7. CASE UNCHANGED vars
    BY <1>1, <1>7, MemorySame DEF vars
  <1>8. QED
    BY <1>2, <1>3, <1>4, <1>5, <1>6, <1>7 DEF Next

LEMMA ConfigInitial == Init => ConfigInv
  <1> SUFFICES ASSUME Init PROVE ConfigInv
    OBVIOUS
  <1> USE Fields
  <1>1. Blank \in [Address -> Nat] /\ DOMAIN <<>> = {} /\ <<>> \in Seq(Nat)
    BY DEF Blank
  <1>2. ConfigType
    BY <1>1 DEF Init, ConfigType, Idle, NoForm
  <1>3. QED
    BY <1>2 DEF Init, ConfigInv, SavedStays

\* A configuration saved to its end, or accepted at boot, stays byte for byte
\* but for the bytes others write, for every size of the page and wherever power
\* fails (SaveAppConfig, XEEWrite, InitAppConfig).
THEOREM ConfigurationStays == Spec => []SavedStays
  <1>1. ConfigInv => SavedStays
    BY DEF ConfigInv
  <1>2. QED
    BY <1>1, ConfigInitial, ConfigNext, PTL DEF Spec

-----------------------------------------------------------------------------
(* The order in which a save reaches the chip *)

Page(a) == a \div EEPROM_BUFFER_SIZE
Pages   == 0 .. Page(MAC)

\* Up to page n the new record, behind it what was there before.
OrderedTo(n) == \A a \in intact :
    /\ Page(a) < n => eeprom[a] = Saved(a)
    /\ Page(a) > n => eeprom[a] = base[a]
    /\ eeprom[a] \in {Saved(a), base[a]}

\* The chip is busy with bytes of the new record, and on page n only.
BusyOn(n) == \A a \in DOMAIN cycle \cap intact : Page(a) = n /\ cycle[a] = Saved(a)

\* What the driver has not sent yet is as it was before the save.
Untouched ==
    /\ \A a \in Address : a >= EEPROMAddress => eeprom[a] = base[a]
    /\ \A a \in DOMAIN cycle : a < EEPROMAddress

OrderInv ==
    /\ ~whole => \E n \in Pages : OrderedTo(n) /\ BusyOn(n)
    /\ (pc = "writing" /\ ~whole /\ intact = Address) => Untouched

PageStart(a) == a % EEPROM_BUFFER_SIZE = 0

LEMMA PageMonotone ==
    \A a, b \in Nat : Page(a) \in Nat /\ (a <= b => Page(a) <= Page(b))
  BY ConfigAssumption, DivMonotone, DivModType DEF Page

LEMMA PageFromStart ==
    \A a \in Nat, k \in 0 .. EEPROM_BUFFER_SIZE - 1 : PageStart(a) => Page(a + k) = Page(a)
  BY ConfigAssumption, PageOf DEF Page, PageStart

LEMMA PageFacts ==
    /\ \A a \in Address : Page(a) \in Pages
    /\ 0 \in Pages
    /\ Pages \subseteq Nat
  <1> USE Fields
  <1>1. \A a \in Address : Page(a) \in Nat /\ Page(a) <= Page(MAC)
    BY PageMonotone
  <1>2. QED
    BY <1>1 DEF Pages

\* A step that neither programs the chip nor sends anything to it.
LEMMA OrderSame ==
    ASSUME OrderInv, UNCHANGED <<eeprom, cycle, attempt, base>>,
           whole => whole', intact' \subseteq intact,
           (pc = "writing" /\ ~whole /\ intact = Address)' =>
               pc = "writing" /\ intact = Address /\ EEPROMAddress' = EEPROMAddress
    PROVE  OrderInv'
  <1>1. ASSUME ~whole' PROVE (\E n \in Pages : OrderedTo(n) /\ BusyOn(n))'
    <2>1. PICK n \in Pages : OrderedTo(n) /\ BusyOn(n)
      BY <1>1 DEF OrderInv
    <2>2. OrderedTo(n)' /\ BusyOn(n)'
      BY <2>1 DEF OrderedTo, BusyOn, Saved
    <2>3. QED
      BY <2>2 DEF Pages
  <1>2. ASSUME pc' = "writing", ~whole', intact' = Address PROVE Untouched'
    BY <1>2 DEF OrderInv, Untouched
  <1>3. QED
    BY <1>1, <1>2 DEF OrderInv

\* Any part of a write cycle may have been programmed.
LEMMA OrderProgrammed ==
    ASSUME ConfigInv, OrderInv, NEW done \in SUBSET DOMAIN cycle, eeprom' = Programmed(done),
           cycle' = <<>>, UNCHANGED <<attempt, base, whole, intact>>, ~whole
    PROVE  (\E n \in Pages : OrderedTo(n) /\ BusyOn(n))'
  <1>1. PICK n \in Pages : OrderedTo(n) /\ BusyOn(n)
    BY DEF OrderInv
  <1>2. intact \subseteq Address /\ DOMAIN cycle' = {}
    BY DEF ConfigInv, ConfigType
  <1>3. \A a \in intact : eeprom'[a] = IF a \in done THEN cycle[a] ELSE eeprom[a]
    BY <1>2 DEF Programmed
  <1>4. \A a \in intact \cap done : Page(a) = n /\ eeprom'[a] = Saved(a)
    BY <1>1, <1>3 DEF BusyOn
  <1>5. n \in Int
    BY PageFacts
  <1>6. OrderedTo(n)'
    <2> SUFFICES ASSUME NEW a \in intact
                 PROVE  /\ Page(a) < n => eeprom'[a] = Saved(a)
                        /\ Page(a) > n => eeprom'[a] = base[a]
                        /\ eeprom'[a] \in {Saved(a), base[a]}
      BY DEF OrderedTo, Saved
    <2>1. CASE a \in done
      BY <1>4, <1>5, <2>1
    <2>2. CASE a \notin done
      BY <1>1, <1>3, <2>2 DEF OrderedTo
    <2>3. QED
      BY <2>1, <2>2
  <1>7. BusyOn(n)'
    BY <1>2 DEF BusyOn
  <1>8. QED
    BY <1>6, <1>7 DEF Pages

\* A page of a save goes out.
LEMMA OrderSends ==
    ASSUME ConfigInv, OrderInv, Saving, pc = "writing", ~whole, intact = Address, Idle,
           NEW buffer \in Seq(Nat), DoWrite(buffer), buffer # <<>>,
           PageStart(EEPROMAddress), Len(buffer) <= EEPROM_BUFFER_SIZE,
           EEPROMAddress + Len(buffer) <= MAC + 1,
           \A k \in 1 .. Len(buffer) : buffer[k] = Saved(EEPROMAddress + k - 1),
           UNCHANGED <<eeprom, attempt, base, whole, intact>>
    PROVE  OrderInv'
  <1> USE Fields
  <1>1. EEPROMAddress \in Nat /\ Len(buffer) \in Nat \ {0}
        /\ EEPROMAddress' = EEPROMAddress + Len(buffer)
    BY EmptySeq DEF ConfigInv, ConfigType, DoWrite
  <1>2. /\ DOMAIN cycle' = {EEPROMAddress + k - 1 : k \in 1 .. Len(buffer)}
        /\ \A k \in 1 .. Len(buffer) : cycle'[EEPROMAddress + k - 1] = buffer[k]
    BY <1>1, DoWriteExact DEF PageStart
  <1>3. \A a \in Address : /\ a < EEPROMAddress => eeprom[a] = Saved(a)
                           /\ a >= EEPROMAddress => eeprom[a] = base[a]
    BY DEF Saving, Programmed, Idle, OrderInv, Untouched
  <1>4. EEPROMAddress \in Address
    BY <1>1
  <1>5. PICK n \in Pages : n = Page(EEPROMAddress) /\ n \in Nat
    BY <1>4, PageFacts
  <1>6. \A a \in Address : Page(a) \in Nat /\ (Page(a) < n => a < EEPROMAddress)
                           /\ (Page(a) > n => a >= EEPROMAddress)
    <2> SUFFICES ASSUME NEW a \in Address
                 PROVE  Page(a) \in Nat /\ (Page(a) < n => a < EEPROMAddress)
                        /\ (Page(a) > n => a >= EEPROMAddress)
      OBVIOUS
    <2>0. a \in Nat /\ EEPROM_BUFFER_SIZE \in Nat \ {0} /\ EEPROMAddress \in Nat
      BY <1>1, ConfigAssumption
    <2>1. Page(a) \in Nat
      BY <2>0, PageMonotone
    <2>2. a >= EEPROMAddress => Page(a) >= n
      BY <1>5, <2>0, PageMonotone
    <2>3. a < EEPROMAddress => Page(a) <= n
      BY <1>5, <2>0, PageMonotone
    <2>4. QED
      BY <1>5, <2>0, <2>1, <2>2, <2>3
  <1>7. OrderedTo(n)'
    <2>0. intact' = Address /\ UNCHANGED <<eeprom, attempt, base>>
      OBVIOUS
    <2>1. ASSUME NEW a \in Address
          PROVE  /\ Page(a) < n => eeprom[a] = Saved(a)
                 /\ Page(a) > n => eeprom[a] = base[a]
                 /\ eeprom[a] \in {Saved(a), base[a]}
      <3>1. /\ Page(a) < n => a < EEPROMAddress
            /\ Page(a) > n => a >= EEPROMAddress
        BY <1>6
      <3>2. a < EEPROMAddress \/ a >= EEPROMAddress
        BY <1>1
      <3>3. QED
        BY <1>3, <3>1, <3>2
    <2>2. \A a \in Address : Saved(a)' = Saved(a)
      BY <2>0 DEF Saved
    <2>3. QED
      BY <2>0, <2>1, <2>2 DEF OrderedTo
  <1>8. \A a \in DOMAIN cycle' : Page(a) = n /\ cycle'[a] = Saved(a) /\ a < EEPROMAddress'
    <2> SUFFICES ASSUME NEW k \in 1 .. Len(buffer), NEW a \in Nat, a = EEPROMAddress + k - 1
                 PROVE  Page(a) = n /\ cycle'[a] = Saved(a) /\ a < EEPROMAddress'
      BY <1>1, <1>2
    <2>1. cycle'[a] = Saved(a) /\ a < EEPROMAddress'
      BY <1>1, <1>2
    <2>2. k - 1 \in 0 .. EEPROM_BUFFER_SIZE - 1 /\ a = EEPROMAddress + (k - 1)
      BY <1>1, ConfigAssumption
    <2>3. Page(a) = n
      BY <1>1, <1>5, <2>2, PageFromStart
    <2>4. QED
      BY <2>1, <2>3
  <1>9. BusyOn(n)'
    <2>1. \A a \in DOMAIN cycle' : Saved(a)' = Saved(a)
      BY DEF Saved
    <2>2. QED
      BY <1>8, <2>1 DEF BusyOn
  <1>10. Untouched'
    BY <1>1, <1>3, <1>8 DEF Untouched
  <1>11. QED
    BY <1>5, <1>7, <1>9, <1>10 DEF OrderInv

\* A byte goes out that the last save no longer owns.
LEMMA OrderOther ==
    ASSUME OrderInv, UNCHANGED <<eeprom, attempt, base, whole, intact>>, intact # Address,
           DOMAIN cycle' \cap intact' = {}
    PROVE  OrderInv'
  <1>1. ASSUME ~whole' PROVE (\E n \in Pages : OrderedTo(n) /\ BusyOn(n))'
    <2>1. PICK n \in Pages : OrderedTo(n)
      BY <1>1 DEF OrderInv
    <2>2. OrderedTo(n)' /\ BusyOn(n)'
      BY <2>1 DEF OrderedTo, BusyOn, Saved
    <2>3. QED
      BY <2>2 DEF Pages
  <1>2. QED
    BY <1>1 DEF OrderInv

LEMMA OrderBegins ==
    ASSUME NEW config, NEW next, SaveAppConfig(config, next), Idle, UNCHANGED <<eeprom, cycle>>
    PROVE  OrderInv'
  <1>1. /\ base' = eeprom' /\ intact' = Address /\ DOMAIN cycle' = {}
    BY DEF SaveAppConfig, Remembered, Idle
  <1>2. \A a \in Address : ~(Page(a) < 0)
    <2>1. \A a \in Address : Page(a) \in Nat
      BY PageMonotone, Fields
    <2>2. QED
      BY <2>1
  <1>3. OrderedTo(0)' /\ BusyOn(0)'
    BY <1>1, <1>2 DEF OrderedTo, BusyOn
  <1>4. Untouched'
    BY <1>1 DEF Untouched
  <1>5. QED
    BY <1>3, <1>4, PageFacts DEF OrderInv, Pages

LEMMA OrderXEEWrite ==
    ConfigInv /\ ConfigInv' /\ OrderInv /\ (XEEWrite \/ XEEEndWrite) => OrderInv'
  <1> SUFFICES ASSUME ConfigInv, ConfigInv', OrderInv, XEEWrite \/ XEEEndWrite PROVE OrderInv'
    OBVIOUS
  <1>1. /\ pc = "writing" /\ pc' = "writing" /\ Idle
        /\ UNCHANGED <<eeprom, attempt, base, whole, intact>>
    BY DEF XEEWrite, XEEEndWrite, history
  <1>2. CASE intact # Address
    <2>1. WritingOther'
      BY <1>1, <1>2 DEF ConfigInv
    <2>2. QED
      BY <1>1, <1>2, <2>1, OrderOther DEF WritingOther
  <1>3. CASE intact = Address
    <2>1. Saving /\ ~whole
      BY <1>1, <1>3, SavingOrOther
    <2>2. CASE XEEWrite
      <3> DEFINE buffer == Append(EEPROMBuffer, Head(to_write))
      <3>1. /\ buffer \in Seq(Nat) /\ Len(buffer) = Len(EEPROMBuffer) + 1
            /\ \A k \in 1 .. Len(buffer) : buffer[k] = Saved(EEPROMAddress + k - 1)
            /\ Len(EEPROMBuffer) \in Nat /\ Len(to_write) \in Nat \ {0}
        BY <2>1, <2>2, NextByte, BufferSaved DEF XEEWrite, ConfigInv
      <3>2. CASE Len(buffer) = EEPROM_BUFFER_SIZE /\ DoWrite(buffer)
        <4>1. EEPROMAddress % EEPROM_BUFFER_SIZE = 0 /\ EEPROMAddress \in Nat
              /\ EEPROMAddress + Len(EEPROMBuffer) + Len(to_write) = MAC + 1
          BY <2>1, <2>2 DEF Saving, XEEWrite, ConfigInv, ConfigType
        <4>2. buffer # <<>> /\ Len(buffer) <= EEPROM_BUFFER_SIZE
          BY <3>1, <3>2, Fields, EmptySeq
        <4> HIDE DEF buffer
        <4>3. EEPROMAddress + Len(buffer) <= MAC + 1
          BY <3>1, <4>1, Fields
        <4>4. QED
          BY <1>1, <1>3, <2>1, <3>1, <3>2, <4>1, <4>2, <4>3, OrderSends DEF PageStart
      <3>3. CASE UNCHANGED <<cycle, EEPROMAddress>>
        BY <1>1, <1>3, <3>3, OrderSame
      <3>4. QED
        BY <2>2, <3>2, <3>3 DEF XEEWrite
    <2>3. CASE XEEEndWrite
      <3>1. /\ EEPROMBuffer \in Seq(Nat) /\ EEPROMBuffer # <<>> /\ DoWrite(EEPROMBuffer)
            /\ to_write = <<>> /\ EEPROMAddress \in Nat
        BY <2>3 DEF XEEEndWrite, ConfigInv, ConfigType
      <3>2. /\ EEPROMAddress % EEPROM_BUFFER_SIZE = 0 /\ Len(EEPROMBuffer) < EEPROM_BUFFER_SIZE
            /\ \A k \in 1 .. Len(EEPROMBuffer) : EEPROMBuffer[k] = Saved(EEPROMAddress + k - 1)
            /\ EEPROMAddress + Len(EEPROMBuffer) + Len(to_write) = MAC + 1
        BY <2>1, <3>1 DEF Saving
      <3>3. Len(to_write) = 0 /\ Len(EEPROMBuffer) \in Nat
        BY <3>1
      <3>4. /\ EEPROMAddress + Len(EEPROMBuffer) <= MAC + 1
            /\ Len(EEPROMBuffer) <= EEPROM_BUFFER_SIZE
        BY <3>1, <3>2, <3>3, Fields
      <3>5. PageStart(EEPROMAddress)
        BY <3>2 DEF PageStart
      <3>6. QED
        BY <1>1, <1>3, <2>1, <3>1, <3>2, <3>4, <3>5, OrderSends
    <2>4. QED
      BY <2>2, <2>3
  <1>4. QED
    BY <1>2, <1>3

\* What the chip does by itself, and what a failure of power leaves of it.
LEMMA OrderChip == ConfigInv /\ OrderInv /\ (ChipReady \/ PowerFail) => OrderInv'
  <1> SUFFICES ASSUME ConfigInv, OrderInv, ChipReady \/ PowerFail PROVE OrderInv'
    OBVIOUS
  <1>1. PICK done \in SUBSET DOMAIN cycle : eeprom' = Programmed(done)
    BY DEF ChipReady, PowerFail
  <1>2. cycle' = <<>> /\ UNCHANGED <<attempt, base, whole, intact>>
    BY DEF ChipReady, PowerFail, history
  <1>3. ASSUME ~whole' PROVE (\E n \in Pages : OrderedTo(n) /\ BusyOn(n))'
    BY <1>1, <1>2, <1>3, OrderProgrammed
  <1>4. ASSUME pc' = "writing", ~whole', intact' = Address PROVE Untouched'
    <2>1. pc = "writing" /\ EEPROMAddress' = EEPROMAddress
      BY <1>4 DEF ChipReady, PowerFail, CStartup, driver
    <2>2. Untouched
      BY <1>2, <1>4, <2>1 DEF OrderInv
    <2>3. \A a \in Address : a >= EEPROMAddress => a \notin done
      <3>1. Address \subseteq Nat /\ EEPROMAddress \in Nat
        BY Fields DEF ConfigInv, ConfigType
      <3>2. QED
        BY <2>2, <3>1 DEF Untouched
    <2>4. \A a \in Address : a >= EEPROMAddress => eeprom'[a] = base[a]
      BY <1>1, <2>2, <2>3 DEF Untouched, Programmed
    <2>5. QED
      BY <1>2, <2>1, <2>4 DEF Untouched
  <1>5. QED
    BY <1>3, <1>4 DEF OrderInv

LEMMA OrderWriteDone == OrderInv /\ WriteDone => OrderInv'
  <1> SUFFICES ASSUME OrderInv, WriteDone PROVE OrderInv'
    OBVIOUS
  <1>1. CASE whole'
    BY <1>1 DEF OrderInv
  <1>2. CASE ~whole'
    <2>1. UNCHANGED <<eeprom, cycle, attempt, base, intact>> /\ (whole => whole')
          /\ pc' # "writing"
      BY <1>2 DEF WriteDone, CStartup
    <2>2. QED
      BY <2>1, OrderSame
  <1>3. QED
    BY <1>1, <1>2

LEMMA OrderNext == ConfigInv /\ ConfigInv' /\ OrderInv /\ [Next]_vars => OrderInv'
  <1> SUFFICES ASSUME ConfigInv, ConfigInv', OrderInv, [Next]_vars PROVE OrderInv'
    OBVIOUS
  <1> DEFINE Rests == /\ UNCHANGED <<eeprom, cycle, attempt, base, whole, intact>>
                      /\ UNCHANGED <<pc, EEPROMAddress>> \/ pc' # "writing"
  <1>1. Rests => OrderInv'
    <2>1. ASSUME Rests, pc' = "writing" PROVE UNCHANGED <<pc, EEPROMAddress>>
      BY <2>1
    <2>2. QED
      BY <2>1, OrderSame
  <1>2. CASE Driver
    <2>1. CASE InitAppConfig
      <3>1. CASE whole'
        BY <3>1 DEF OrderInv
      <3>2. CASE SaveAppConfig(Defaults, "running")
        <4>1. Idle /\ UNCHANGED <<eeprom, cycle>>
          BY <2>1 DEF InitAppConfig, ConfigInv, ConfigType
        <4>2. QED
          BY <3>2, <4>1, OrderBegins
      <3>3. QED
        BY <2>1, <3>1, <3>2 DEF InitAppConfig
    <2>2. QED
      BY <1>2, <2>1, OrderXEEWrite, OrderWriteDone DEF Driver
  <1>3. CASE ChipReady \/ PowerFail
    BY <1>3, OrderChip
  <1>4. CASE Host
    <2>0. Running => Idle
      BY DEF Running, ConfigInv, ConfigType
    <2>1. ASSUME NEW ip \in Addresses, NEW mac \in Macs, DiscoverySaveConfig(ip, mac)
          PROVE  OrderInv'
      BY <2>0, <2>1, OrderBegins DEF DiscoverySaveConfig
    <2>2. CASE PostSuccess
      BY <2>0, <2>2, OrderBegins DEF PostSuccess
    <2>3. ASSUME NEW a \in Address, intact' = intact \ {a},
                 UNCHANGED <<eeprom, cycle, base, attempt, whole>>
          PROVE  OrderInv'
      BY <2>3, OrderSame
    <2>4. CASE (\E v \in {0, 1} : set_io_out_power_down_hold(v)) \/ ResetToDefaultConfig
      BY <2>3, <2>4, Fields DEF set_io_out_power_down_hold, ResetToDefaultConfig, io_out_hold
    <2>5. CASE \/ \E ip \in Addresses : DHCPBound(ip)
               \/ PostStart
               \/ \E f \in Field, v \in Nat : PostValue(f, v)
               \/ PostFailure
               \/ HTTPPrint_reboot
      <3>1. Rests
        BY <2>5 DEF DHCPBound, PostStart, PostValue, PostFailure, HTTPPrint_reboot, CStartup,
                    history, driver
      <3>2. QED
        BY <1>1, <3>1
    <2>6. Addresses \subseteq Nat /\ IP \in Field /\ FLAGS \in Field /\ {0, 1} \subseteq Nat
      BY Fields
    <2>7. QED
      BY <1>4, <2>1, <2>2, <2>4, <2>5, <2>6 DEF Host
  <1>5. CASE DiscoverTask \/ UNCHANGED vars
    <2>1. Rests
      BY <1>5 DEF DiscoverTask, history, driver, vars
    <2>2. QED
      BY <1>1, <2>1
  <1>6. QED
    BY <1>2, <1>3, <1>4, <1>5 DEF Next

LEMMA OrderInitial == Init => OrderInv
  <1> SUFFICES ASSUME Init PROVE OrderInv
    OBVIOUS
  <1>1. \A a \in Address : Page(a) \in Nat
    BY PageMonotone, Fields
  <1>2. OrderedTo(0) /\ BusyOn(0)
    BY <1>1 DEF Init, OrderedTo, BusyOn
  <1>3. QED
    BY <1>2, PageFacts DEF OrderInv, Init

LEMMA OrderImplies == OrderInv => SaveInOrder
  BY DEF OrderInv, OrderedTo, SaveInOrder, Page, Pages

\* A save that power interrupts leaves the new record up to some page, the old
\* contents behind it and a mixture within that page only, for every size of
\* the page (SaveAppConfig, XEEWrite, XEEEndWrite).
THEOREM SavesInOrder == Spec => []SaveInOrder
  <1>1. ConfigInv /\ ConfigInv' /\ OrderInv /\ [Next]_vars => OrderInv'
    BY OrderNext
  <1>2. Spec => []ConfigInv
    BY ConfigInitial, ConfigNext, PTL DEF Spec
  <1>3. QED
    BY <1>1, <1>2, OrderInitial, OrderImplies, PTL DEF Spec

-----------------------------------------------------------------------------
(* The boot *)

\* The board starts with the record it finds, and that is what was saved.
LEMMA BootTakesSaved ==
    ASSUME ConfigInv, [Next]_vars, pc = "boot", pc' = "running", whole
    PROVE  \A f \in Field \cap intact : AppConfig'[f] = attempt[f]
  <1> USE Fields
  <1>1. InitAppConfig /\ AppConfig' = Record
    BY DEF Next, vars, Driver, Host, XEEWrite, XEEEndWrite, WriteDone, InitAppConfig,
           SaveAppConfig, XEEBeginWrite, ChipReady, DiscoverTask, Running, DiscoverySaveConfig,
           DHCPBound, PostStart, PostValue, PostFailure, PostSuccess, HTTPPrint_reboot,
           set_io_out_power_down_hold, ResetToDefaultConfig, PowerFail, CStartup
  <1>2. \A f \in Field : Record[f] = eeprom[f] /\ f # 0
    BY DEF Record
  <1>3. \A a \in intact : eeprom[a] = Saved(a)
    BY DEF ConfigInv, SavedStays
  <1>4. QED
    BY <1>1, <1>2, <1>3 DEF Saved

\* The board comes up with the configuration that was last saved to its end,
\* but for the bytes that others wrote since (InitAppConfig, SaveAppConfig).
THEOREM BootsWithTheSaved == Spec => BootsWithSaved
  <1>1. ConfigInv /\ [Next]_vars =>
            [pc = "boot" /\ pc' = "running" /\ whole =>
                \A f \in Field \cap intact : AppConfig'[f] = attempt[f]]_vars
    BY BootTakesSaved
  <1>2. Spec => []ConfigInv
    BY ConfigInitial, ConfigNext, PTL DEF Spec
  <1>3. QED
    BY <1>1, <1>2, PTL DEF Spec, BootsWithSaved
=============================================================================
