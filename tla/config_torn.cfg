SPECIFICATION Spec
CONSTANTS
    Addresses = {0, 1}
    MY_DEFAULT_IP = 1
    MY_DEFAULT_MAC = 1
    Macs = {0, 1}
    EEPROM_BUFFER_SIZE = 3
INVARIANTS ValidMeansWhole
CHECK_DEADLOCK FALSE
