SPECIFICATION DdnsSpec
CONSTANTS
    Addresses = {1, 2}
    None = 0
INVARIANT Propagates
CHECK_DEADLOCK FALSE
