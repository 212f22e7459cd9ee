SPECIFICATION Spec
CONSTANTS
    Streams <- MCStreams
    T = 3
    R = 3
    W = 2
    MSS = 1
    MAX_RETRIES = 2
    MAX_SYN_RETRIES = 1
    MAX_UNACKED_KEEP_ALIVES = 1
PROPERTY GivesUpLast
CHECK_DEADLOCK FALSE
