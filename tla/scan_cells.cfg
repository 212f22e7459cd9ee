SPECIFICATION FairSpec
CONSTANTS
    WordSpan = 16
    IO_INPUT <- MCIO_INPUT
    IO_OUTPUT <- MCIO_OUTPUT
    AUXI_RELAY <- MCAUXI_RELAY
    AUXI_HOLDRELAY <- MCAUXI_HOLDRELAY
    SPECIAL_RELAY <- MCSPECIAL_RELAY
    SPECIAL_RELAY_BASE = 5
    TIMING100MS <- MCTIMING100MS
    TIMING1S <- MCTIMING1S
    COUNTER <- MCCOUNTER
    HoldBytes = 2
    HoldByte <- MCHoldByte
    BIT_STACK_LEVEL = 2
    SpSpan = 4
    RomSize = 7
    Programs <- CellPrograms
    Downloads <- CellDownloads
    RegFiles <- OneRegFile
    HostRanges <- CellRanges
    HostRamImages <- NoImages
INVARIANTS
    TypeOK
    StoppedTimerClear
    TimerEventMeansExpired
    CounterEventExact
    EdgesSinceLastScan
PROPERTIES
    ScanEnds
    DirtyIsSaved
