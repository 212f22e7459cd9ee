SPECIFICATION Spec
CONSTANTS
    PACK_MAX_RX_SIZE = 2
    MaxLine = 5
    MaxClient = 3
INVARIANTS
    TickPointerValid
