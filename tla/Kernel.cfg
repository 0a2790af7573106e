SPECIFICATION Spec
CONSTANTS
    Lines = {0, 1}
    WORD = 2
    Times = {1, 2}
    Codes <- MCCodes
    Named <- MCNamed
    MaxTicks = 2
    Sleeps = 1
INVARIANTS
    InterruptsInOrder
    SleepsLongEnough
    HeardAsTyped
PROPERTIES
    NothingWaitsForever
CHECK_DEADLOCK FALSE
