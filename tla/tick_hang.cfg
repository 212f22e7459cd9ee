SPECIFICATION TickFairSpec
CONSTANTS
    Half = 2
    MaxNow = 9
PROPERTIES ReadReturns
CHECK_DEADLOCK FALSE
