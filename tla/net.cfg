SPECIFICATION NetSpec
CONSTANTS
    PACK_MAX_RX_SIZE = 2
    MaxLine = 4
    MaxClient = 3
    Addresses = {1, 2}
    None = 0
INVARIANTS
    RxInOrder
    TxExact
    OwnAddress
PROPERTIES
    Served
    ModuleFreed
    DdnsExchangesEnd
CHECK_DEADLOCK FALSE
