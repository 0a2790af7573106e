\* A screen of 3 rows and 3 columns, on which a tab always wraps.
SPECIFICATION Spec
CONSTANTS
    ROWS = 3
    COLUMNS = 3
    Letters = {"a", "b"}
    MaxRowsOff = 2
INVARIANTS
    PendingAtRowStart
PROPERTIES
    ImplementsTerminal
