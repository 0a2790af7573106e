\* Five scaled machines: blocks of 2 bytes, cells of 4 bits in 1 byte.
SPECIFICATION Spec
CONSTANTS
    BLOCK_SIZE = 2
    CELL_BITS = 4
    CELL_BYTES = 1
    USABLE_MEMORY_START = 4
    BOOT_MAPPING_END = 16
    Machines <- MCMachines
INVARIANTS
    TypeOK
    ReservedNeverOwned
    BitmapExact
    KernelImageIntact
PROPERTIES
    ImplementsFrameAllocator
