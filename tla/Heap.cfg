\* Pages of 30 bytes in three frames, requests that need 5 or 18 bytes.
SPECIFICATION Spec
CONSTANTS
    HEAP_START = 30
    PAGE_SIZE = 30
    HEADER = 12
    WORD = 4
    Sizes = {0, 1, 14}
    FRAMES = 3
    LOW_WORD = 7
    MaxLastPage = 150
    MaxLive = 3
INVARIANTS
    NoOverlap
    RoomForHeader
    ListIntact
    ExtensionServes
PROPERTIES
    ImplementsHeapPromise
    LostOnlyBetweenHoles
