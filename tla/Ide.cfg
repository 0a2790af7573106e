SPECIFICATION IdeSpec
CONSTANTS
    Buses = 2
    Devices = 2
    Functions = 2
    BYTE = 2
    NIBBLE = 2
    Machines <- MCMachines
    Lbas = {2, 8}
    Contents <- MCContents
    COUNTS = 3
    Garbage = 99
INVARIANTS
    FunctionsFoundOnce
    IdleBetweenCalls
PROPERTIES
    ImplementsDisk
    Settles
CHECK_DEADLOCK FALSE
