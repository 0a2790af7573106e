\* All ranges of a drive of 4 sectors, writes of up to one full group between.
SPECIFICATION Spec
CONSTANTS
    SECTOR_SIZE = 2
    GROUP = 2
    MAX_NAMES = 2
    Drives <- MCDrives
    Values = {0, 1}
    Fills <- MCFills
    MAX_WRITE = 6
    MaxMounts = 2
INVARIANTS
    ReadExact
    WriteExact
