\* 4 entries per table: identity, kernel, clients, etable; 9 frames of memory.
SPECIFICATION Spec
CONSTANTS
    ENTRIES = 4
    KERNEL_DIR = 1
    ETABLE_DIR = 3
    FRAMES = 9
    Pool = {4,5,6,7}
    DeviceFrames = {8}
    BOOT_FRAME = 1
    DIRECTORY_FRAME = 2
    ETABLE_FRAME = 3
    ClientPages <- MCClientPages
    Junk = {0, 8}
    MaxCached = 2
INVARIANTS
    EtableMirrorsDirectory
    TablesExclusive
    TlbCoherent
PROPERTIES
    ImplementsAddressSpace
