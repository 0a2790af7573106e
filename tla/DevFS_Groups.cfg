\* A write with more sectors between than one command transfers.
SPECIFICATION Spec
CONSTANTS
    SECTOR_SIZE = 2
    GROUP = 2
    MAX_NAMES = 2
    Drives <- MCDrives
    Values = {0, 1}
    Fills <- MCFills
    MAX_WRITE = 7
    MaxMounts = 2
INVARIANTS
    WriteExact
