SPECIFICATION Spec
CONSTANTS
    Streams <- MCStreams
    T = 3
    R = 3
    W = 2
    MSS = 4
    MAX_RETRIES = 2
    MAX_SYN_RETRIES = 1
    MAX_UNACKED_KEEP_ALIVES = 1
INVARIANT ResendsStream
CHECK_DEADLOCK FALSE
