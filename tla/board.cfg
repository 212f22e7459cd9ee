SPECIFICATION BoardSpec
CONSTANTS
    Addresses = {0, 1}
    MY_DEFAULT_IP = 1
    MY_DEFAULT_MAC = 1
    Macs = {0, 1}
    EEPROM_BUFFER_SIZE = 3
    ByteSpan = 3
    Size = 2
    Half = 2
    MaxNow = 9
    TickSpan = 8
    HOLD = 3
    MaxTurn = 4
    FlashTimes = {2, 3}
INVARIANTS
    SavedStays
    SaveInOrder
    ComparesNumbers
    TicksConserved
    ReadingExact
    FlashCounted
PROPERTIES
    BootsWithSaved
    ComesUpEach
    ReadEnds
    ResetMeansHeld
    HeldResets
CHECK_DEADLOCK FALSE
