-------------------------------- MODULE VFS ---------------------------------
(***************************************************************************)
(* The layer of file systems, src/fs/vfs: the table of file descriptors,   *)
(* the list of mounted file systems, and open, close, read and write.      *)
(*                                                                         *)
(* The only file system there is, DevFS, is below: every DevFS object      *)
(* shows the same drives, under one-part paths like /sda, and reads and    *)
(* writes ranges of their bytes (module DevFS).  Any other name opens as   *)
(* well: nothing in the code ever tells that a file is missing.            *)
(*                                                                         *)
(* A path is its parts (class Path) and whether it ends with a slash.      *)
(***************************************************************************)
EXTENDS Bytes, Sequences

CONSTANTS
    VFS_OPEN_FILES_MAX,
    Drives,        \* the path of a drive inside DevFS -> its size in bytes
    DriveNames,    \* the paths DevFS takes for drives: /sd and one more character
    MountPaths,    \* folders callers mount a DevFS on
    Paths,         \* what callers open
    Accesses,      \* how they open it: [read, write]
    Data,          \* what they write
    StackWords,    \* what a size may be before it is set: the VFS is on the stack
    MaxMounts,     \* bound: file systems mounted
    MaxPosition    \* bound: how far writing moves where there is no drive

ASSUME VFSAssumption ==
    /\ VFS_OPEN_FILES_MAX \in Nat /\ VFS_OPEN_FILES_MAX > 3
    /\ DOMAIN Drives \subseteq DriveNames /\ \A f \in DOMAIN Drives : Drives[f] \in Nat
    /\ \A f \in DriveNames : Len(f) = 1
    /\ StackWords \subseteq Nat
    /\ Paths \cup MountPaths \subseteq [parts : Seq(STRING), folder : BOOLEAN]
    /\ \A p \in Paths : p.folder \/ p.parts # <<>>
    /\ \A where \in MountPaths : where.folder
    /\ Accesses \subseteq [read : BOOLEAN, write : BOOLEAN]
    /\ \A data \in Data : IsFiniteSet(DOMAIN data) /\ DOMAIN data # {}

Root == [parts |-> <<>>, folder |-> TRUE]

VARIABLES
    running,           \* FALSE once panic() has stopped the kernel
    mounted_fss,       \* the mount paths: the nodes of the vector
    vector_size,       \* its member vector_size
    file_descriptors,
    content,           \* the bytes of the drives
    held               \* auxiliary: descriptor open has returned -> what its path
                       \* led to inside the file system then

mounts == <<mounted_fss, vector_size>>
vars == <<running, mounts, file_descriptors, content, held>>

Descriptors == 0 .. VFS_OPEN_FILES_MAX - 1
Reserved == 0 .. 2

FileDesc ==
    [in_use : BOOLEAN, file_path : Paths \cup {Root}, position : Nat,
     read : BOOLEAN, write : BOOLEAN, size : Nat]

Depth(p) == IF p.folder THEN Len(p.parts) ELSE Len(p.parts) - 1

-----------------------------------------------------------------------------
(* The mounted file systems *)

\* Every part of a mount path is compared with the part of p at the index of
\* the file system in the list, and no part may be missing there.
ComparedAt(i, p) == Depth(mounted_fss[i]) \in 1 .. Depth(p)

LookupPanics(p) ==
    \E i \in 1 .. vector_size : ComparedAt(i, p) /\ i > Depth(mounted_fss[i])

Matches(i, p) ==
    \/ Depth(mounted_fss[i]) = 0
    \/ ComparedAt(i, p) /\ mounted_fss[i].parts[i] = p.parts[i]

Holding(p) == {i \in 1 .. vector_size : Matches(i, p)}

\* The lookup ends, and finds a file system.
Reaches(p) == ~ LookupPanics(p) /\ Holding(p) # {}

\* Mutant: the last file system found wins, not the deepest.
get_mounted_fs_Last(p) ==
    CHOOSE i \in Holding(p) : \A j \in Holding(p) : j <= i

\* The deepest one, and of those the first.
get_mounted_fs(p) ==
    CHOOSE i \in Holding(p) : \A j \in Holding(p) :
        LET Di == Depth(mounted_fss[i])
            Dj == Depth(mounted_fss[j])
        IN  Di > Dj \/ (Di = Dj /\ i <= j)

\* The path inside the file system that holds p.
Trimmed(p) ==
    SubSeq(p.parts, Depth(mounted_fss[get_mounted_fs(p)]) + 1, Len(p.parts))

\* DevFS::file_exist answers FS_FILE_EXIST or FS_FILE_N_EXISTS; who calls it asks
\* whether the answer is nonzero.
file_exist(name) == IF name \in DOMAIN Drives THEN 1 ELSE 2

\* StorageDriver::get_drive stops the kernel.
MissingDrive(name) == name \in DriveNames \ DOMAIN Drives

\* DevFS::get_file_size never fails and leaves the size alone if there is no drive.
get_file_size(name, size) == IF name \in DOMAIN Drives THEN Size(content[name]) ELSE size

\* Mutant: what has been mounted before is replaced.
mount_fs_Replaces(where) ==
    /\ running
    /\ Len(mounted_fss) < MaxMounts
    /\ mounted_fss' = <<where>>
    /\ vector_size' = 1
    /\ UNCHANGED <<running, file_descriptors, content, held>>

mount_fs(where) ==
    /\ running
    /\ Len(mounted_fss) < MaxMounts
    /\ mounted_fss' = Append(mounted_fss, where)
    /\ vector_size' = vector_size + 1
    /\ UNCHANGED <<running, file_descriptors, content, held>>

-----------------------------------------------------------------------------
(* open *)

Unused == {d \in Descriptors : ~ file_descriptors[d].in_use}

\* The first unused descriptor.
allocate_descriptor(d) == d \in Unused /\ \A e \in Unused : d <= e

\* A folder: EISDIR.
OpenFolder(p) == running /\ p.folder /\ UNCHANGED vars

\* No descriptor is free: in_use of file_descriptors[-1] is set, which is the
\* low byte of mounted_fss.vector_size, the word in front of the array.
OpenNoDescriptor(p) ==
    /\ running /\ ~ p.folder
    /\ Unused = {}
    /\ vector_size' = 1
    /\ UNCHANGED <<running, mounted_fss, file_descriptors, content, held>>

\* Vector::get stops the kernel, in get_mounted_fs or, for a drive that is not
\* there, in get_file_size.
OpenPanics(p) ==
    /\ running /\ ~ p.folder
    /\ Unused # {}
    /\ LookupPanics(p) \/ (Reaches(p) /\ MissingDrive(Trimmed(p)))
    /\ running' = FALSE
    /\ UNCHANGED <<mounts, file_descriptors, content, held>>

\* Mutant: the error exit does not free the descriptor.
OpenFails_NoCleanup(p, excl) ==
    /\ running /\ ~ p.folder
    /\ ~ LookupPanics(p)
    /\ Holding(p) # {} => excl /\ file_exist(Trimmed(p)) # 0
    /\ \E d \in Descriptors :
         /\ allocate_descriptor(d)
         /\ file_descriptors' = [file_descriptors EXCEPT ![d].in_use = TRUE]
    /\ UNCHANGED <<running, mounts, content, held>>

\* ENOENT without a file system, and EEXIST for O_CREAT with O_EXCL: the
\* descriptor is freed again.
OpenFails(p, excl) ==
    /\ running /\ ~ p.folder
    /\ Unused # {}
    /\ ~ LookupPanics(p)
    /\ Holding(p) # {} => excl /\ file_exist(Trimmed(p)) # 0
    /\ UNCHANGED vars

\* The size is that of the drive, or what the word held before.
Filled(d, p, access) ==
    [in_use |-> TRUE, file_path |-> p, position |-> 0,
     read |-> access.read, write |-> access.write,
     size |-> get_file_size(Trimmed(p), file_descriptors[d].size)]

\* open fills the first unused descriptor, whether there is such a file or not.
OpenFile(p, access) ==
    /\ running /\ ~ p.folder
    /\ Reaches(p)
    /\ file_exist(Trimmed(p)) # 0 /\ ~ MissingDrive(Trimmed(p))
    /\ \E d \in Descriptors :
         /\ allocate_descriptor(d)
         /\ file_descriptors' = [file_descriptors EXCEPT ![d] = Filled(d, p, access)]
         /\ held' = [e \in DOMAIN held \cup {d} |->
                       IF e = d THEN Trimmed(p) ELSE held[e]]
    /\ UNCHANGED <<running, mounts, content>>

-----------------------------------------------------------------------------
(* close, read and write *)

\* A descriptor above the table is refused; below, only -1 is passed, by those
\* who did not look at what open returned.
is_legal_descriptor(d) ==
    IF d = -1 THEN vector_size # 0
    ELSE d < VFS_OPEN_FILES_MAX /\ file_descriptors[d].in_use

close(d) ==
    /\ running
    /\ is_legal_descriptor(d)
    /\ IF d = -1
       THEN vector_size' = 0 /\ UNCHANGED file_descriptors
       ELSE /\ file_descriptors' = [file_descriptors EXCEPT ![d].in_use = FALSE]
            /\ UNCHANGED vector_size
    /\ held' = [e \in DOMAIN held \ {d} |-> held[e]]
    /\ UNCHANGED <<running, mounted_fss, content>>

\* EBADF.
CloseFails(d) == running /\ ~ is_legal_descriptor(d) /\ UNCHANGED vars

\* Offset 0, which read and write pass, stands for the position.
ActualOffset(d, offset) ==
    IF offset = 0 THEN file_descriptors[d].position ELSE offset

Moved(d, at) == [file_descriptors[d] EXCEPT !.position = at]

\* Mutant: the check for overflow is missing.
MayRead_PastEnd(d, nbyte, offset) ==
    is_legal_descriptor(d) /\ file_descriptors[d].read

\* EBADF and EOVERFLOW come before the file system is asked.
MayRead(d, nbyte, offset) ==
    /\ is_legal_descriptor(d)
    /\ file_descriptors[d].read
    /\ ActualOffset(d, offset) + nbyte <= file_descriptors[d].size

\* Mutant: the descriptor may have been opened for reading only.
MayWrite_Always(d) == is_legal_descriptor(d)

MayWrite(d) == is_legal_descriptor(d) /\ file_descriptors[d].write

\* get_mounted_fs is asked again on every call, and whether it has found one is
\* not looked at: without one, fs is an uninitialized pointer.
Resolves(d) == Reaches(file_descriptors[d].file_path)

\* What the path of d leads to now.
Target(d) == Trimmed(file_descriptors[d].file_path)

\* The lookup stops the kernel or finds nothing, or the drive is not there.
IoWild(d, nbyte, offset) ==
    /\ running
    /\ MayRead(d, nbyte, offset) \/ MayWrite(d)
    /\ Resolves(d) => MissingDrive(Target(d))
    /\ running' = FALSE
    /\ UNCHANGED <<mounts, file_descriptors, content, held>>

\* io with VFS_OPR_READ, by read and pread; DevFS reads what is no drive, too.
Read(d, nbyte, offset) ==
    /\ running
    /\ MayRead(d, nbyte, offset)
    /\ Resolves(d) /\ ~ MissingDrive(Target(d))
    /\ file_descriptors' =
         [file_descriptors EXCEPT ![d] = Moved(d, ActualOffset(d, offset) + nbyte)]
    /\ UNCHANGED <<running, mounts, content, held>>

\* io with VFS_OPR_WRITE, by write and pwrite; DevFS refuses what does not fit.
Write(d, data, offset) ==
    /\ running
    /\ MayWrite(d)
    /\ Resolves(d)
    /\ Target(d) \in DOMAIN Drives
    /\ LET name == Target(d)
           at   == ActualOffset(d, offset)
       IN  /\ at + Size(data) <= Size(content[name])
           /\ content' = [content EXCEPT ![name] = Overlay(@, at, data)]
           /\ file_descriptors' =
                [file_descriptors EXCEPT
                   ![d] = [Moved(d, at + Size(data)) EXCEPT !.size = get_file_size(name, @)]]
    /\ UNCHANGED <<running, mounts, held>>

\* DevFS accepts what is written to a name that is no drive, and forgets it.
WriteNowhere(d, data, offset) ==
    /\ running
    /\ MayWrite(d)
    /\ Resolves(d)
    /\ Target(d) \notin DriveNames
    /\ ActualOffset(d, offset) + Size(data) <= MaxPosition
    /\ file_descriptors' =
         [file_descriptors EXCEPT ![d] = Moved(d, ActualOffset(d, offset) + Size(data))]
    /\ UNCHANGED <<running, mounts, content, held>>

\* An error of io, or nbyte = 0.
IoFails == running /\ UNCHANGED vars

Stopped == ~ running /\ UNCHANGED vars

-----------------------------------------------------------------------------

\* What callers pass: they know that 0, 1 and 2 are not theirs.
Usable == Descriptors \ Reserved
Offsets == UNION {0 .. Drives[f] : f \in DOMAIN Drives}

\* Descriptors 0, 1, 2 are reserved (POSIX); nobody looks at their sizes.
Init ==
    /\ running = TRUE
    /\ mounted_fss = <<>> /\ vector_size = 0
    /\ \E size \in [Usable -> StackWords] :
         file_descriptors =
           [d \in Descriptors |->
              [in_use |-> d \in Reserved, file_path |-> Root, position |-> 0,
               read |-> FALSE, write |-> FALSE,
               size |-> IF d \in Usable THEN size[d] ELSE 0]]
    /\ content = [f \in DOMAIN Drives |-> [a \in 0 .. Drives[f] - 1 |-> 0]]
    /\ held = <<>>

Next ==
    \/ \E where \in MountPaths : mount_fs(where)
    \/ \E p \in Paths : OpenFolder(p) \/ OpenNoDescriptor(p) \/ OpenPanics(p)
    \/ \E p \in Paths, excl \in BOOLEAN : OpenFails(p, excl)
    \/ \E p \in Paths, access \in Accesses : OpenFile(p, access)
    \/ \E d \in Usable \cup {-1, VFS_OPEN_FILES_MAX} : close(d) \/ CloseFails(d)
    \/ \E d \in Usable, offset \in Offsets :
          \/ \E nbyte \in Offsets \ {0} : Read(d, nbyte, offset) \/ IoWild(d, nbyte, offset)
          \/ \E data \in Data : Write(d, data, offset) \/ WriteNowhere(d, data, offset)
    \/ IoFails
    \/ Stopped

Spec == Init /\ [][Next]_vars

-----------------------------------------------------------------------------
(* Properties *)

Types ==
    /\ running \in BOOLEAN
    /\ mounted_fss \in Seq(MountPaths)
    /\ vector_size \in 0 .. Len(mounted_fss)
    /\ file_descriptors \in [Descriptors -> FileDesc]
    /\ DOMAIN content = DOMAIN Drives
    /\ \A f \in DOMAIN Drives : DOMAIN content[f] = 0 .. Drives[f] - 1

\* Nobody has overwritten the number of mounts.
MountsCounted == vector_size = Len(mounted_fss)

\* Besides the types: as long as the number of mounts is intact, the position in a
\* drive that was opened never lies behind its end.
TypeOK ==
    /\ Types
    /\ MountsCounted =>
         \A d \in DOMAIN held : held[d] \in DOMAIN Drives =>
            file_descriptors[d].position <= file_descriptors[d].size

\* A descriptor is in use exactly when it is reserved, or when open has returned
\* it and nobody has closed it: no error of open leaks one, and none is given to
\* two files.
DescriptorsAccounted ==
    /\ {d \in Descriptors : file_descriptors[d].in_use} = Reserved \cup DOMAIN held
    /\ Reserved \cap DOMAIN held = {}

\* The path of an open file is looked up again by every call: as long as the
\* list of mounts is intact, and the lookup does not stop the kernel, it leads
\* to the drive that was opened, whatever has been mounted since.  What was opened
\* under a name that is no drive may come to be another file, and even a drive, by
\* a mount deeper on its path; then the name that is left ends the one opened.
OpenFilesStay ==
    MountsCounted =>
      \A d \in DOMAIN held :
         \/ LookupPanics(file_descriptors[d].file_path)
         \/ /\ Resolves(d)
            /\ held[d] \in DOMAIN Drives => Target(d) = held[d]
            /\ \E n \in 0 .. Len(held[d]) - 1 :
                 Target(d) = SubSeq(held[d], n + 1, Len(held[d]))

\* A path that leads to a file system goes on leading to one, whatever is
\* opened, closed and mounted, with two exceptions.  A file system that comes to
\* be counted at a place of the list behind the depth of its mount path makes
\* every lookup it is compared in stop the kernel.  And -1, which open returns
\* when it fails, is "in range and in use" (vfs.h, is_legal_descriptor) for close,
\* and is what open itself marks when no descriptor is free: both overwrite the
\* number of mounts.  After that a mount counts one mounted before.
PathsStayReachable ==
    [][\A p \in Paths : Reaches(p) /\ ~ Reaches(p)' =>
          \/ \E i \in vector_size + 1 .. vector_size' :
                Depth(mounted_fss'[i]) \in 1 .. i - 1
          \/ close(-1)
          \/ \E q \in Paths : OpenNoDescriptor(q)]_vars

\* The table of descriptors implements the open files, each with its position;
\* when the number of mounts has been overwritten, the files behind them are lost.
Open == INSTANCE OpenFiles WITH
          open <- [d \in DOMAIN held |->
                     [file |-> held[d],
                      position |-> file_descriptors[d].position,
                      read |-> file_descriptors[d].read,
                      write |-> file_descriptors[d].write]],
          lost <- ~ MountsCounted
ImplementsOpenFiles == Open!Spec
=============================================================================
