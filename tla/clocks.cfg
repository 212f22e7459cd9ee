SPECIFICATION ClocksSpec
CONSTANTS
    t100ms = t100ms
    t1s = t1s
    TIMING100MS = {t100ms}
    TIMING1S = {t1s}
    TickSpan = 8
    TICK_100MS = 2
    TICK_SECOND = 3
    RtcSpan = 1
    RtcStart = 0
    Presets = {0, 3}
    RtcSets = {}
    MaxLag = 4
    MaxUnseen = 1
    MaxSetAge = 3
    MaxAge = 8
    Servers = {1, 2}
    Foreign = 9
    DefaultIPAddr = 0
    Lease = 3
    Shave = 3
    MaxLate = 1
    MaxFlight = 1
INVARIANTS
    TimeConserved
    NeverEarly
    SecondsNotInvented
    BoundOnLease
PROPERTIES
    Expire
    RenewsOwnAddress
    Rebinds
CHECK_DEADLOCK FALSE
