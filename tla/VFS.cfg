\* Two descriptors besides the reserved ones, up to three mounts.
SPECIFICATION Spec
CONSTANTS
    VFS_OPEN_FILES_MAX = 5
    Drives <- MCDrives
    DriveNames <- MCDriveNames
    MountPaths <- MCMountPaths
    Paths <- MCPaths
    Accesses <- MCAccesses
    Data <- MCData
    StackWords = {1}
    MaxMounts = 3
    MaxPosition = 2
INVARIANTS
    TypeOK
    DescriptorsAccounted
    OpenFilesStay
PROPERTIES
    ImplementsOpenFiles
    PathsStayReachable
