----------------------------- MODULE VFS_proofs -----------------------------
(***************************************************************************)
(* The table of descriptors of the VFS, for any number of descriptors, any *)
(* drives, mounts and paths: its types, positions that stay inside their   *)
(* files, and that every descriptor in use is accounted for; Vector, which *)
(* keeps its mounts, for any number of vectors, values and nodes: that     *)
(* every node is accounted for, and that the lists are the sequences they  *)
(* stand for; and Path, for texts of any characters and any length.        *)
(***************************************************************************)
EXTENDS VFS, Vector, Path, FiniteSetTheorems, SequenceTheorems, WellFoundedInduction, TLAPS

\* A descriptor is only handed out when something has been mounted; this is why
\* the low byte that a full table sets to 1 never exceeds the list of mounts.
MountsComeFirst == DOMAIN held # {} => mounted_fss # <<>>

IInv == Types /\ DescriptorsAccounted /\ MountsComeFirst

\* The size of a drive's bytes is the size of the drive, also after a write.
LEMMA DriveSize ==
  ASSUME NEW b, NEW n \in Nat, DOMAIN b = 0 .. n - 1
  PROVE  Size(b) = n
<1>1. 0 \in Int /\ n - 1 \in Int
  OBVIOUS
<1>2. Cardinality(0 .. n - 1) = IF 0 > n - 1 THEN 0 ELSE (n - 1) - 0 + 1
  BY <1>1, FS_Interval
<1>3. QED
  BY <1>2 DEF Size

\* What callers write has a size.
LEMMA DataSize ==
  ASSUME NEW data \in Data
  PROVE  Size(data) \in Nat
BY VFSAssumption, FS_CardinalityType DEF Size

\* The lookups only find something when something is mounted.
LEMMA MountedWhenHolding ==
  ASSUME Types, NEW p, Holding(p) # {}
  PROVE  mounted_fss # <<>>
BY DEF Holding, Types

LEMMA InitIInv == Init => IInv
<1> SUFFICES ASSUME Init PROVE IInv
  OBVIOUS
<1> USE VFSAssumption DEF Init, Descriptors, Reserved
<1>1. \A f \in DOMAIN Drives : content[f] = [a \in 0 .. Drives[f] - 1 |-> 0]
  OBVIOUS
<1>2. Types
  <2>1. file_descriptors \in [Descriptors -> FileDesc]
    <3>1. PICK size \in [Usable -> StackWords] :
            file_descriptors =
              [d \in Descriptors |->
                 [in_use |-> d \in Reserved, file_path |-> Root, position |-> 0,
                  read |-> FALSE, write |-> FALSE,
                  size |-> IF d \in Usable THEN size[d] ELSE 0]]
      OBVIOUS
    <3>2. \A d \in Descriptors : (IF d \in Usable THEN size[d] ELSE 0) \in Nat
      OBVIOUS
    <3>3. QED
      BY <3>1, <3>2 DEF FileDesc
  <2>2. running \in BOOLEAN /\ DOMAIN content = DOMAIN Drives
    OBVIOUS
  <2>3. mounted_fss \in Seq(MountPaths) /\ vector_size \in 0 .. Len(mounted_fss)
    OBVIOUS
  <2>4. QED
    BY <1>1, <2>1, <2>2, <2>3 DEF Types
<1>3. DOMAIN held = {}
  OBVIOUS
<1>4. DescriptorsAccounted
  <2>1. \A d \in Descriptors : file_descriptors[d].in_use = (d \in Reserved)
    OBVIOUS
  <2>2. Reserved \subseteq Descriptors
    OBVIOUS
  <2>3. {d \in Descriptors : file_descriptors[d].in_use} = Reserved
    BY <2>1, <2>2
  <2>4. QED
    BY <1>3, <2>3, Zenon DEF DescriptorsAccounted
<1>5. MountsComeFirst
  BY <1>3 DEF MountsComeFirst
<1>6. QED
  BY <1>2, <1>4, <1>5 DEF IInv

\* Steps that leave the table, the drives and the accounts as they are.
LEMMA TableUntouched ==
  ASSUME IInv,
         UNCHANGED <<mounted_fss, file_descriptors, content, held>>,
         running' \in BOOLEAN,
         vector_size' \in 0 .. Len(mounted_fss)
  PROVE  IInv'
BY DEF IInv, Types, DescriptorsAccounted, MountsComeFirst

\* Steps that move a descriptor's position, and maybe set the size, but leave every
\* in_use as it is.
LEMMA DescriptorMoved ==
  ASSUME IInv, NEW d \in Descriptors, NEW fd \in FileDesc,
         file_descriptors' = [file_descriptors EXCEPT ![d] = fd],
         fd.in_use = file_descriptors[d].in_use,
         DOMAIN content' = DOMAIN Drives,
         \A f \in DOMAIN Drives : DOMAIN content'[f] = 0 .. Drives[f] - 1,
         UNCHANGED <<running, mounts, held>>
  PROVE  IInv'
<1> USE DEF mounts
<1>1. file_descriptors' \in [Descriptors -> FileDesc]
  BY DEF IInv, Types
<1>2. Types'
  BY <1>1 DEF IInv, Types
<1>3. \A e \in Descriptors : file_descriptors'[e].in_use = file_descriptors[e].in_use
  BY DEF IInv, Types
<1>4. {e \in Descriptors : file_descriptors'[e].in_use}
        = {e \in Descriptors : file_descriptors[e].in_use}
  BY <1>3
<1>5. DescriptorsAccounted'
  BY <1>4 DEF IInv, DescriptorsAccounted
<1>6. QED
  BY <1>2, <1>5 DEF IInv, MountsComeFirst

LEMMA MountStep ==
  ASSUME IInv, NEW where \in MountPaths, mount_fs(where)
  PROVE  IInv'
<1>1. mounted_fss' \in Seq(MountPaths) /\ Len(mounted_fss') = Len(mounted_fss) + 1
  BY DEF IInv, Types, mount_fs
<1>2. vector_size' \in 0 .. Len(mounted_fss')
  BY <1>1 DEF IInv, Types, mount_fs
<1>3. mounted_fss' # <<>>
  BY <1>1 DEF IInv, Types
<1>4. QED
  BY <1>1, <1>2, <1>3
     DEF IInv, Types, DescriptorsAccounted, MountsComeFirst, mount_fs

\* The table is full, so something has been mounted and the list has a node.
LEMMA NoDescriptorStep ==
  ASSUME IInv, NEW p \in Paths, OpenNoDescriptor(p)
  PROVE  IInv'
<1>1. 3 \in Descriptors /\ 3 \notin Reserved
  BY VFSAssumption DEF Descriptors, Reserved
<1>2. file_descriptors[3].in_use
  BY <1>1 DEF OpenNoDescriptor, Unused
<1>3. 3 \in DOMAIN held
  BY <1>1, <1>2 DEF IInv, DescriptorsAccounted
<1>4. mounted_fss # <<>>
  BY <1>3 DEF IInv, MountsComeFirst
<1>5. 1 \in 0 .. Len(mounted_fss)
  BY <1>4 DEF IInv, Types
<1>6. QED
  BY <1>5, TableUntouched DEF OpenNoDescriptor, IInv, Types

LEMMA PanicStep ==
  ASSUME IInv, NEW p \in Paths, OpenPanics(p)
  PROVE  IInv'
BY TableUntouched DEF OpenPanics, mounts, IInv, Types

LEMMA WildStep ==
  ASSUME IInv, NEW d \in Usable, NEW nbyte, NEW offset, IoWild(d, nbyte, offset)
  PROVE  IInv'
BY TableUntouched DEF IoWild, mounts, IInv, Types

\* What open writes into a descriptor is one.
LEMMA FilledType ==
  ASSUME Types, NEW d \in Descriptors, NEW p \in Paths, NEW access \in Accesses
  PROVE  Filled(d, p, access) \in FileDesc
<1>1. get_file_size(Trimmed(p), file_descriptors[d].size) \in Nat
  <2>1. Trimmed(p) \in DOMAIN Drives => Size(content[Trimmed(p)]) \in Nat
    BY VFSAssumption, DriveSize DEF Types
  <2>2. file_descriptors[d].size \in Nat
    BY DEF Types, FileDesc
  <2>3. QED
    BY <2>1, <2>2 DEF get_file_size
<1>2. access.read \in BOOLEAN /\ access.write \in BOOLEAN
  BY VFSAssumption
<1>3. QED
  BY <1>1, <1>2 DEF Filled, FileDesc

\* The descriptor open returns, and what it has not been before.
LEMMA OpenTakes ==
  ASSUME IInv, NEW p \in Paths, NEW access \in Accesses, OpenFile(p, access)
  PROVE  \E d \in Descriptors :
           /\ ~ file_descriptors[d].in_use
           /\ d \notin Reserved /\ d \notin DOMAIN held
           /\ file_descriptors' = [file_descriptors EXCEPT ![d] = Filled(d, p, access)]
           /\ held' = [e \in DOMAIN held \cup {d} |-> IF e = d THEN Trimmed(p) ELSE held[e]]
<1>1. PICK d \in Descriptors :
        /\ allocate_descriptor(d)
        /\ file_descriptors' = [file_descriptors EXCEPT ![d] = Filled(d, p, access)]
        /\ held' = [e \in DOMAIN held \cup {d} |-> IF e = d THEN Trimmed(p) ELSE held[e]]
  BY DEF OpenFile
<1>2. ~ file_descriptors[d].in_use
  BY <1>1 DEF allocate_descriptor, Unused
<1>3. d \notin Reserved /\ d \notin DOMAIN held
  BY <1>2 DEF IInv, DescriptorsAccounted
<1>4. QED
  BY <1>1, <1>2, <1>3

LEMMA OpenStep ==
  ASSUME IInv, NEW p \in Paths, NEW access \in Accesses, OpenFile(p, access)
  PROVE  IInv'
<1>1. PICK d \in Descriptors :
        /\ ~ file_descriptors[d].in_use
        /\ d \notin Reserved /\ d \notin DOMAIN held
        /\ file_descriptors' = [file_descriptors EXCEPT ![d] = Filled(d, p, access)]
        /\ held' = [e \in DOMAIN held \cup {d} |-> IF e = d THEN Trimmed(p) ELSE held[e]]
  BY OpenTakes
<1>2. Filled(d, p, access) \in FileDesc
  BY FilledType DEF IInv
<1>3. Types'
  BY <1>1, <1>2 DEF IInv, Types, OpenFile, mounts
<1>4. DOMAIN held' = DOMAIN held \cup {d}
  BY <1>1
<1>5. DescriptorsAccounted'
  <2>1. \A e \in Descriptors : file_descriptors'[e].in_use = (file_descriptors[e].in_use \/ e = d)
    BY <1>1 DEF IInv, Types, Filled, FileDesc
  <2>2. {e \in Descriptors : file_descriptors'[e].in_use}
          = {e \in Descriptors : file_descriptors[e].in_use} \cup {d}
    BY <2>1
  <2>3. QED
    BY <1>1, <1>4, <2>2 DEF IInv, DescriptorsAccounted
<1>6. MountsComeFirst'
  BY MountedWhenHolding DEF IInv, OpenFile, MountsComeFirst, mounts, Reaches
<1>7. QED
  BY <1>3, <1>5, <1>6 DEF IInv

LEMMA CloseStep ==
  ASSUME IInv, NEW d \in Usable \cup {-1, VFS_OPEN_FILES_MAX}, close(d)
  PROVE  IInv'
<1>1. CASE d = -1
  <2>1. DOMAIN held' = DOMAIN held
    <3>1. -1 \notin Descriptors
      BY VFSAssumption DEF Descriptors
    <3>2. -1 \notin DOMAIN held
      BY <3>1 DEF IInv, DescriptorsAccounted
    <3>3. QED
      BY <1>1, <3>2 DEF close
  <2>2. Types'
    BY <1>1 DEF close, IInv, Types
  <2>3. DescriptorsAccounted' /\ MountsComeFirst'
    BY <1>1, <2>1 DEF close, IInv, DescriptorsAccounted, MountsComeFirst
  <2>4. QED
    BY <2>2, <2>3 DEF IInv
<1>2. CASE d # -1
  <2>1. /\ file_descriptors' = [file_descriptors EXCEPT ![d].in_use = FALSE]
        /\ d \in Descriptors /\ d \notin Reserved
    <3>1. d < VFS_OPEN_FILES_MAX
      BY <1>2 DEF close, is_legal_descriptor
    <3>2. QED
      BY <1>2, <3>1, VFSAssumption DEF close, Usable
  <2>2. DOMAIN held' = DOMAIN held \ {d}
    BY DEF close
  <2>3. \A e \in Descriptors :
          /\ file_descriptors'[e] \in FileDesc
          /\ file_descriptors'[e].in_use = (file_descriptors[e].in_use /\ e # d)
    BY <2>1 DEF IInv, Types, FileDesc
  <2>4. Types'
    <3>1. file_descriptors' \in [Descriptors -> FileDesc]
      BY <2>1, <2>3 DEF IInv, Types
    <3>2. QED
      BY <1>2, <2>3, <3>1 DEF close, IInv, Types
  <2>5. DescriptorsAccounted'
    <3>1. {e \in Descriptors : file_descriptors'[e].in_use}
            = {e \in Descriptors : file_descriptors[e].in_use} \ {d}
      BY <2>3
    <3>2. QED
      BY <2>1, <2>2, <3>1 DEF IInv, DescriptorsAccounted
  <2>6. MountsComeFirst'
    BY <2>2 DEF close, IInv, MountsComeFirst
  <2>7. QED
    BY <2>4, <2>5, <2>6 DEF IInv
<1>3. QED
  BY <1>1, <1>2

\* Where a call reads or writes is a number, and never behind the descriptor.
LEMMA ActualOffsetType ==
  ASSUME IInv, NEW d \in Usable, NEW offset \in Offsets
  PROVE  d \in Descriptors /\ ActualOffset(d, offset) \in Nat
<1>1. offset \in Nat
  BY VFSAssumption DEF Offsets
<1>2. d \in Descriptors
  BY DEF Usable
<1>3. file_descriptors[d].position \in Nat
  BY <1>2 DEF IInv, Types, FileDesc
<1>4. QED
  BY <1>1, <1>2, <1>3 DEF ActualOffset

LEMMA ReadStep ==
  ASSUME IInv, NEW d \in Usable, NEW nbyte \in Offsets, NEW offset \in Offsets,
         Read(d, nbyte, offset)
  PROVE  IInv'
<1> DEFINE fd == Moved(d, ActualOffset(d, offset) + nbyte)
<1>1. d \in Descriptors /\ ActualOffset(d, offset) \in Nat
  BY ActualOffsetType
<1>2. nbyte \in Nat
  BY VFSAssumption DEF Offsets
<1>3. file_descriptors[d] \in FileDesc
  BY <1>1 DEF IInv, Types
<1>4. ActualOffset(d, offset) + nbyte \in Nat
  BY <1>1, <1>2
<1>5. fd \in FileDesc /\ fd.in_use = file_descriptors[d].in_use
  BY <1>3, <1>4 DEF Moved, FileDesc
<1>6. file_descriptors' = [file_descriptors EXCEPT ![d] = fd]
  BY DEF Read
<1>7. /\ DOMAIN content' = DOMAIN Drives
      /\ \A f \in DOMAIN Drives : DOMAIN content'[f] = 0 .. Drives[f] - 1
  BY DEF Read, IInv, Types
<1>8. UNCHANGED <<running, mounts, held>>
  BY DEF Read
<1>9. QED
  BY <1>1, <1>5, <1>6, <1>7, <1>8, DescriptorMoved

\* What a write to a drive makes of the descriptor.
LEMMA WriteMoves ==
  ASSUME Types, NEW d \in Usable, NEW data \in Data, NEW offset, Write(d, data, offset)
  PROVE  /\ Target(d) \in DOMAIN Drives /\ Size(content[Target(d)]) \in Nat
         /\ ActualOffset(d, offset) + Size(data) <= Size(content[Target(d)])
         /\ content' = [content EXCEPT ![Target(d)] =
                          Overlay(@, ActualOffset(d, offset), data)]
         /\ file_descriptors' =
              [file_descriptors EXCEPT ![d] =
                 [file_descriptors[d] EXCEPT
                    !.position = ActualOffset(d, offset) + Size(data),
                    !.size = Size(content[Target(d)])]]
<1>1. Target(d) \in DOMAIN Drives
  BY DEF Write
<1>2. Size(content[Target(d)]) \in Nat
  BY <1>1, DriveSize, VFSAssumption DEF Types
<1>3. file_descriptors[d] \in FileDesc
  BY DEF Types, Usable
<1>4. \A at : [Moved(d, at) EXCEPT !.size = get_file_size(Target(d), @)]
               = [file_descriptors[d] EXCEPT !.position = at, !.size = Size(content[Target(d)])]
  BY <1>1, <1>3 DEF Moved, FileDesc, get_file_size
<1>5. /\ ActualOffset(d, offset) + Size(data) <= Size(content[Target(d)])
      /\ content' = [content EXCEPT ![Target(d)] =
                       Overlay(@, ActualOffset(d, offset), data)]
      /\ file_descriptors' =
           [file_descriptors EXCEPT ![d] =
              [Moved(d, ActualOffset(d, offset) + Size(data))
                 EXCEPT !.size = get_file_size(Target(d), @)]]
  BY DEF Write
<1>6. QED
  BY <1>1, <1>2, <1>4, <1>5

LEMMA WriteStep ==
  ASSUME IInv, NEW d \in Usable, NEW data \in Data, NEW offset \in Offsets,
         Write(d, data, offset)
  PROVE  IInv'
<1> DEFINE name == Target(d)
           at   == ActualOffset(d, offset)
           fd   == [file_descriptors[d] EXCEPT !.position = at + Size(data),
                                               !.size = Size(content[name])]
<1>1. d \in Descriptors /\ at \in Nat /\ Size(data) \in Nat
  BY ActualOffsetType, DataSize
<1>2. /\ Size(content[name]) \in Nat
      /\ content' = [content EXCEPT ![name] = Overlay(@, at, data)]
      /\ file_descriptors' = [file_descriptors EXCEPT ![d] = fd]
  BY WriteMoves DEF IInv
<1>3. file_descriptors[d] \in FileDesc /\ at + Size(data) \in Nat
  BY <1>1 DEF IInv, Types
<1>4. fd \in FileDesc /\ fd.in_use = file_descriptors[d].in_use
  <2> HIDE DEF name, at
  <2>1. QED
    BY <1>2, <1>3 DEF FileDesc
<1>5. /\ DOMAIN content' = DOMAIN Drives
      /\ \A f \in DOMAIN Drives : DOMAIN content'[f] = 0 .. Drives[f] - 1
  BY <1>2 DEF IInv, Types, Overlay
<1>6. UNCHANGED <<running, mounts, held>>
  BY DEF Write
<1>7. QED
  BY <1>1, <1>2, <1>4, <1>5, <1>6, DescriptorMoved

LEMMA ForgottenStep ==
  ASSUME IInv, NEW d \in Usable, NEW data \in Data, NEW offset \in Offsets,
         WriteNowhere(d, data, offset)
  PROVE  IInv'
<1> DEFINE fd == Moved(d, ActualOffset(d, offset) + Size(data))
<1>1. d \in Descriptors /\ ActualOffset(d, offset) + Size(data) \in Nat
  BY ActualOffsetType, DataSize
<1>2. file_descriptors[d] \in FileDesc
  BY <1>1 DEF IInv, Types
<1>3. fd \in FileDesc /\ fd.in_use = file_descriptors[d].in_use
  BY <1>1, <1>2 DEF Moved, FileDesc
<1>4. /\ file_descriptors' = [file_descriptors EXCEPT ![d] = fd]
      /\ UNCHANGED <<running, mounts, content, held>>
  BY DEF WriteNowhere
<1>5. /\ DOMAIN content' = DOMAIN Drives
      /\ \A f \in DOMAIN Drives : DOMAIN content'[f] = 0 .. Drives[f] - 1
  BY <1>4 DEF IInv, Types
<1>6. QED
  BY <1>1, <1>3, <1>4, <1>5, DescriptorMoved

\* A call that fails, and a kernel that has stopped, change nothing.
LEMMA Stutter == ASSUME IInv, UNCHANGED vars PROVE IInv'
BY DEF IInv, Types, DescriptorsAccounted, MountsComeFirst, vars, mounts

LEMMA StepIInv == IInv /\ [Next]_vars => IInv'
<1> SUFFICES ASSUME IInv, [Next]_vars PROVE IInv'
  OBVIOUS
<1>1. ASSUME NEW where \in MountPaths, mount_fs(where) PROVE IInv'
  BY <1>1, MountStep
<1>2. ASSUME NEW p \in Paths, OpenFolder(p) \/ OpenNoDescriptor(p) \/ OpenPanics(p)
      PROVE  IInv'
  BY <1>2, Stutter, NoDescriptorStep, PanicStep DEF OpenFolder
<1>3. ASSUME NEW p \in Paths, NEW excl \in BOOLEAN, OpenFails(p, excl) PROVE IInv'
  BY <1>3, Stutter DEF OpenFails
<1>4. ASSUME NEW p \in Paths, NEW access \in Accesses, OpenFile(p, access) PROVE IInv'
  BY <1>4, OpenStep
<1>5. ASSUME NEW d \in Usable \cup {-1, VFS_OPEN_FILES_MAX}, close(d) \/ CloseFails(d)
      PROVE  IInv'
  BY <1>5, Stutter, CloseStep DEF CloseFails
<1>6. ASSUME NEW d \in Usable, NEW offset \in Offsets, NEW nbyte \in Offsets,
             Read(d, nbyte, offset) \/ IoWild(d, nbyte, offset)
      PROVE  IInv'
  BY <1>6, ReadStep, WildStep
<1>7. ASSUME NEW d \in Usable, NEW offset \in Offsets, NEW data \in Data,
             Write(d, data, offset) \/ WriteNowhere(d, data, offset)
      PROVE  IInv'
  BY <1>7, WriteStep, ForgottenStep
<1>8. CASE IoFails \/ Stopped \/ UNCHANGED vars
  BY <1>8, Stutter DEF IoFails, Stopped
<1>9. QED
  BY <1>1, <1>2, <1>3, <1>4, <1>5, <1>6, <1>7, <1>8, Zenon DEF Next

\* IInv holds always.
LEMMA Invariance == Spec => []IInv
BY InitIInv, StepIInv, PTL DEF Spec

\* allocate_descriptor, the error exits of open, and close (vfs.cpp) account
\* for every descriptor: in use are the reserved ones and those open has returned
\* and nobody has closed, and no other.
THEOREM Accounted == Spec => []DescriptorsAccounted
<1>1. IInv => DescriptorsAccounted
  BY DEF IInv
<1>2. QED
  BY <1>1, Invariance, PTL

-----------------------------------------------------------------------------
(* The lookup of a path *)

\* A set of numbers that is not empty has a least element.
LEMMA Smallest ==
    ASSUME NEW T \in SUBSET Nat, T # {}
    PROVE  \E m \in T : \A n \in T : m <= n
<1> DEFINE R == OpToRel(<, Nat)
<1>1. IsWellFoundedOn(R, Nat)
  BY NatLessThanWellFounded
<1>2. \A a, b \in Nat : (<<a, b>> \in R) = (a < b)
  BY DEF OpToRel
<1> HIDE DEF R
<1>3. PICK m \in T : \A n \in T : <<n, m>> \notin R
  BY <1>1, WFMin
<1>4. ASSUME NEW n \in T PROVE m <= n
  <2>1. m \in Nat /\ n \in Nat /\ ~ (n < m)
    BY <1>2, <1>3
  <2>2. QED
    BY <2>1
<1>5. QED
  BY <1>4

\* A path that is looked up: callers open it, and it names no folder.
IsFile(p) == p \in Paths /\ ~ p.folder

\* Its last part, as a path of its own.
Leaf(p) == SubSeq(p.parts, Len(p.parts), Len(p.parts))

\* Depths are numbers, and no file system that holds p is deeper than p.
LEMMA Depths ==
    ASSUME Types, NEW p, IsFile(p)
    PROVE  /\ p.parts \in Seq(STRING) /\ Len(p.parts) \in Nat \ {0} /\ Depth(p) = Len(p.parts) - 1
           /\ \A i \in 1 .. vector_size :
                /\ i \in 1 .. Len(mounted_fss) /\ i \in Nat
                /\ Depth(mounted_fss[i]) \in Nat
                /\ Matches(i, p) => Depth(mounted_fss[i]) = 0
                                    \/ Depth(mounted_fss[i]) <= Depth(p)
<1>1. p.parts \in Seq(STRING) /\ Len(p.parts) \in Nat \ {0} /\ Depth(p) = Len(p.parts) - 1
  BY VFSAssumption DEF IsFile, Depth
<1>2. ASSUME NEW i \in 1 .. vector_size
      PROVE  /\ i \in 1 .. Len(mounted_fss) /\ i \in Nat
             /\ Depth(mounted_fss[i]) \in Nat
             /\ Matches(i, p) => Depth(mounted_fss[i]) = 0
                                 \/ Depth(mounted_fss[i]) <= Depth(p)
  <2>1. i \in 1 .. Len(mounted_fss) /\ i \in Nat
    BY DEF Types
  <2>2. mounted_fss[i] \in MountPaths
    BY <2>1 DEF Types
  <2>3. Depth(mounted_fss[i]) = Len(mounted_fss[i].parts) /\ mounted_fss[i].parts \in Seq(STRING)
    BY <2>2, VFSAssumption DEF Depth
  <2>4. Depth(mounted_fss[i]) \in Nat
    BY <2>3
  <2>5. QED
    BY <1>1, <2>1, <2>4 DEF Matches, ComparedAt
<1>3. QED
  BY <1>1, <1>2

\* get_mounted_fs finds a file system whenever there is one, and none of those
\* that hold the path is deeper.
LEMMA DeepestFound ==
    ASSUME Types, NEW p, IsFile(p), Holding(p) # {}
    PROVE  /\ get_mounted_fs(p) \in Holding(p)
           /\ \A j \in Holding(p) :
                Depth(mounted_fss[get_mounted_fs(p)]) >= Depth(mounted_fss[j])
<1> DEFINE D(i) == Depth(mounted_fss[i])
           H == Holding(p)
           Room == {Len(p.parts) - D(i) : i \in H}
<1>1. \A i \in H : i \in Nat /\ D(i) \in Nat /\ D(i) <= Len(p.parts) /\ Len(p.parts) \in Nat
  <2>1. \A i \in H : i \in 1 .. vector_size /\ Matches(i, p)
    BY DEF Holding
  <2>2. QED
    BY <2>1, Depths
<1> HIDE DEF D, H
<1>2. Room \in SUBSET Nat /\ Room # {}
  BY <1>1 DEF H
<1>3. PICK r \in Room : \A n \in Room : r <= n
  <2> HIDE DEF Room
  <2>1. QED
    BY <1>2, Smallest
<1>4. PICK k \in H : r = Len(p.parts) - D(k)
  BY <1>3
<1>5. ASSUME NEW j \in H PROVE D(k) >= D(j)
  <2>1. Len(p.parts) - D(j) \in Room
    OBVIOUS
  <2>2. r <= Len(p.parts) - D(j)
    BY <1>3, <2>1
  <2>3. QED
    BY <1>1, <1>4, <2>2
<1> DEFINE Deepest == {i \in H : D(i) = D(k)}
<1>6. Deepest \in SUBSET Nat /\ Deepest # {}
  BY <1>1
<1>7. PICK m \in Deepest : \A i \in Deepest : m <= i
  <2> HIDE DEF Deepest
  <2>1. QED
    BY <1>6, Smallest
<1>8. m \in H /\ \A j \in H : D(m) > D(j) \/ (D(m) = D(j) /\ m <= j)
  BY <1>1, <1>5, <1>7
<1>9. \E i \in H : \A j \in H : D(i) > D(j) \/ (D(i) = D(j) /\ i <= j)
  BY <1>8
<1>10. get_mounted_fs(p)
         = CHOOSE i \in H : \A j \in H : D(i) > D(j) \/ (D(i) = D(j) /\ i <= j)
  BY DEF get_mounted_fs, H, D
<1>11. get_mounted_fs(p) \in H /\ \A j \in H : D(get_mounted_fs(p)) >= D(j)
  <2> DEFINE g == CHOOSE i \in H : \A j \in H : D(i) > D(j) \/ (D(i) = D(j) /\ i <= j)
  <2>1. g \in H /\ \A j \in H : D(g) > D(j) \/ (D(g) = D(j) /\ g <= j)
    BY <1>9
  <2> HIDE DEF g
  <2>2. \A j \in H : D(g) >= D(j)
    BY <1>1, <2>1
  <2>3. QED
    BY <1>10, <2>1, <2>2 DEF g
<1>12. QED
  BY <1>11 DEF H, D

\* The path inside a file system that holds p is cut at the depth of the deepest.
LEMMA DeeperWins ==
    ASSUME Types, NEW p, IsFile(p), NEW i \in Holding(p)
    PROVE  \E n \in Nat :
             /\ n = Depth(mounted_fss[get_mounted_fs(p)])
             /\ Depth(mounted_fss[i]) <= n /\ n <= Len(p.parts) - 1
             /\ Trimmed(p) = SubSeq(p.parts, n + 1, Len(p.parts))
<1> DEFINE g == get_mounted_fs(p)
           n == Depth(mounted_fss[g])
<1>1. g \in Holding(p) /\ Depth(mounted_fss[i]) <= n
  BY DeepestFound
<1>2. g \in 1 .. vector_size /\ Matches(g, p)
  BY <1>1 DEF Holding
<1>3. n \in Nat /\ n <= Len(p.parts) - 1
  BY <1>2, Depths
<1>4. Trimmed(p) = SubSeq(p.parts, n + 1, Len(p.parts))
  BY DEF Trimmed
<1>5. QED
  BY <1>1, <1>3, <1>4

\* The names of drives have one part, so a path leads to one only through a file
\* system on its folder.
LEMMA DriveIsLeaf ==
    ASSUME Types, NEW p, IsFile(p), Holding(p) # {}, Trimmed(p) \in DriveNames
    PROVE  Trimmed(p) = Leaf(p) /\ Depth(mounted_fss[get_mounted_fs(p)]) = Len(p.parts) - 1
<1>1. PICK n \in Nat :
        /\ n = Depth(mounted_fss[get_mounted_fs(p)]) /\ n <= Len(p.parts) - 1
        /\ Trimmed(p) = SubSeq(p.parts, n + 1, Len(p.parts))
  BY DeeperWins
<1>2. Len(Trimmed(p)) = 1
  BY VFSAssumption
<1>3. p.parts \in Seq(STRING) /\ Len(p.parts) \in Nat
  BY Depths
<1>4. \A s \in Seq(STRING), m \in Nat : Len(SubSeq(s, m + 1, Len(s))) = 1 => m = Len(s) - 1
  OBVIOUS
<1>5. n = Len(p.parts) - 1
  BY <1>1, <1>2, <1>3, <1>4
<1>6. QED
  BY <1>1, <1>3, <1>5 DEF Leaf

\* The end of an end of a sequence is an end of it.
LEMMA EndOfEnd ==
    ASSUME NEW s \in Seq(STRING), NEW m \in Nat, NEW n \in Nat, m <= n, n <= Len(s) - 1
    PROVE  /\ Len(SubSeq(s, m + 1, Len(s))) = Len(s) - m
           /\ SubSeq(SubSeq(s, m + 1, Len(s)), (n - m) + 1, Len(s) - m) = SubSeq(s, n + 1, Len(s))
<1>1. Len(s) \in Nat /\ m + 1 \in 1 .. Len(s) /\ Len(SubSeq(s, m + 1, Len(s))) = Len(s) - m
  OBVIOUS
<1>2. /\ m + 1 \in 1 .. Len(s) + 1 /\ Len(s) \in m .. Len(s)
      /\ (n - m) + 1 \in 1 .. Len(s) - m + 1
      /\ Len(s) - m \in (n - m) .. Len(s) - m
      /\ (m + 1) + ((n - m) + 1) - 1 = n + 1
      /\ (m + 1) + (Len(s) - m) - 1 = Len(s)
  BY <1>1
<1>3. QED
  BY <1>1, <1>2, SubSeqOfSubSeq

-----------------------------------------------------------------------------
(* Open files stay *)

\* What was opened as d.
OpenPath(d) == file_descriptors[d].file_path

\* The depth of the file system it was found in.
FoundAt(d) == Len(OpenPath(d).parts) - Len(held[d])

\* What open has written into a descriptor it has returned.
FilledIn(d) ==
    /\ IsFile(OpenPath(d))
    /\ Len(held[d]) \in 1 .. Len(OpenPath(d).parts)
    /\ held[d] = SubSeq(OpenPath(d).parts, FoundAt(d) + 1, Len(OpenPath(d).parts))
    /\ held[d] \in DOMAIN Drives => file_descriptors[d].size = Drives[held[d]]

HeldFilled == \A d \in DOMAIN held : FilledIn(d)

\* A number of mounts that is not the length of the list can only become it again
\* while there is but one file system in it.
ListIntact == vector_size = Len(mounted_fss) \/ Len(mounted_fss) <= 1

Anchored(d) ==
    \E i \in 1 .. Len(mounted_fss) :
       Matches(i, OpenPath(d)) /\ Depth(mounted_fss[i]) = FoundAt(d)

Inside(d) ==
    held[d] \in DOMAIN Drives => file_descriptors[d].position <= file_descriptors[d].size

(***************************************************************************)
(* OpenFilesStay is not inductive: that the lookup leads to the opened     *)
(* file says nothing about what a later mount does to it.  But the file    *)
(* system it was found in stays, and those found later are deeper; and a   *)
(* drive is only found through one mounted on the very folder of the path, *)
(* and none is deeper than that.  The positions in drives stay inside for  *)
(* the same reason: where a path leads to no drive, nothing bounds them.   *)
(***************************************************************************)
PathInv ==
    /\ HeldFilled
    /\ ListIntact => \A d \in DOMAIN held : Anchored(d) /\ Inside(d)

\* While the mounts are intact, an open file still leads to the end of what it was
\* opened as, and to a drive if it was one.
LEMMA LeadsHome ==
    ASSUME Types, PathInv, ListIntact, NEW d \in DOMAIN held,
           Holding(OpenPath(d)) # {} \/ vector_size = Len(mounted_fss)
    PROVE  /\ Holding(OpenPath(d)) # {}
           /\ \E n \in 0 .. Len(held[d]) - 1 : Target(d) = SubSeq(held[d], n + 1, Len(held[d]))
           /\ held[d] \in DriveNames => Target(d) = held[d]
<1> DEFINE p == OpenPath(d)
<1>1. FilledIn(d) /\ IsFile(p)
  BY DEF PathInv, HeldFilled, FilledIn
<1>2. PICK i \in 1 .. Len(mounted_fss) : Matches(i, p) /\ Depth(mounted_fss[i]) = FoundAt(d)
  BY DEF PathInv, Anchored
<1>3. i \in 1 .. vector_size
  <2>1. Holding(p) # {} => vector_size \in Nat \ {0}
    BY DEF Holding, Types
  <2>2. i \in Nat /\ i >= 1 /\ i <= Len(mounted_fss) /\ Len(mounted_fss) \in Nat
    BY DEF Types
  <2>3. QED
    BY <2>1, <2>2 DEF ListIntact, Types
<1>4. i \in Holding(p)
  BY <1>2, <1>3 DEF Holding
<1> DEFINE m == FoundAt(d)
<1>5. PICK n \in Nat : /\ m <= n /\ n <= Len(p.parts) - 1
                       /\ Trimmed(p) = SubSeq(p.parts, n + 1, Len(p.parts))
  BY <1>1, <1>2, <1>4, DeeperWins
<1>6. /\ p.parts \in Seq(STRING) /\ Len(p.parts) \in Nat
      /\ Len(held[d]) \in 1 .. Len(p.parts) /\ m = Len(p.parts) - Len(held[d])
      /\ held[d] = SubSeq(p.parts, m + 1, Len(p.parts))
  BY <1>1, Depths DEF FilledIn, FoundAt
<1> HIDE DEF m, p
<1>7. m \in Nat /\ Len(held[d]) = Len(p.parts) - m /\ n - m \in 0 .. Len(held[d]) - 1
  <2>1. PICK k, l : k = Len(p.parts) /\ l = Len(held[d])
    OBVIOUS
  <2>2. k \in Nat /\ l \in 1 .. k /\ m = k - l /\ n \in Nat /\ m <= n /\ n <= k - 1
    BY <1>5, <1>6, <2>1
  <2>3. m \in Nat /\ l = k - m /\ n - m \in 0 .. l - 1
    BY <2>2
  <2>4. QED
    BY <2>1, <2>3
<1>8. Trimmed(p) = SubSeq(held[d], (n - m) + 1, Len(held[d]))
  <2>1. SubSeq(SubSeq(p.parts, m + 1, Len(p.parts)), (n - m) + 1, Len(p.parts) - m)
          = SubSeq(p.parts, n + 1, Len(p.parts))
    BY <1>5, <1>6, <1>7, EndOfEnd
  <2>2. QED
    BY <1>5, <1>6, <1>7, <2>1
<1>9. held[d] \in DriveNames => Trimmed(p) = held[d]
  <2>1. held[d] \in DriveNames => Len(held[d]) = 1
    BY VFSAssumption
  <2>2. held[d] \in DriveNames => n = m
    BY <1>7, <2>1
  <2>3. QED
    BY <1>5, <1>6, <2>2
<1>10. Target(d) = Trimmed(p)
  BY DEF Target, OpenPath, p
<1>11. QED
  BY <1>4, <1>7, <1>8, <1>9, <1>10 DEF p

\* A descriptor that leads to a drive leads to the last part of what it was opened as.
LEMMA DriveIsLastPart ==
    ASSUME Types, PathInv, NEW d \in DOMAIN held, Resolves(d), Target(d) \in DriveNames
    PROVE  /\ Target(d) = SubSeq(held[d], Len(held[d]), Len(held[d]))
           /\ held[d] \in DriveNames => Target(d) = held[d]
<1> DEFINE p == OpenPath(d)
           m == FoundAt(d)
<1>1. FilledIn(d) /\ IsFile(p)
  BY DEF PathInv, HeldFilled, FilledIn
<1>2. Holding(p) # {} /\ Target(d) = Trimmed(p)
  BY DEF Resolves, Reaches, Target, OpenPath
<1>3. Target(d) = SubSeq(p.parts, Len(p.parts), Len(p.parts))
  BY <1>1, <1>2, DriveIsLeaf DEF Leaf
<1>4. /\ p.parts \in Seq(STRING) /\ Len(p.parts) \in Nat
      /\ Len(held[d]) \in 1 .. Len(p.parts) /\ m = Len(p.parts) - Len(held[d])
      /\ held[d] = SubSeq(p.parts, m + 1, Len(p.parts))
  BY <1>1, Depths DEF FilledIn, FoundAt
<1> HIDE DEF m, p
<1>5. /\ m \in Nat /\ m <= Len(p.parts) - 1 /\ Len(p.parts) - 1 \in Nat
      /\ Len(p.parts) - m = Len(held[d])
      /\ ((Len(p.parts) - 1) - m) + 1 = Len(held[d])
      /\ (Len(p.parts) - 1) + 1 = Len(p.parts)
  BY <1>4
<1>6. SubSeq(held[d], ((Len(p.parts) - 1) - m) + 1, Len(p.parts) - m)
        = SubSeq(p.parts, (Len(p.parts) - 1) + 1, Len(p.parts))
  <2>1. PICK s, n : s = p.parts /\ n = Len(p.parts) - 1
    OBVIOUS
  <2>2. s \in Seq(STRING) /\ m \in Nat /\ n \in Nat /\ m <= n /\ n <= Len(s) - 1
    BY <1>4, <1>5, <2>1
  <2>3. SubSeq(SubSeq(s, m + 1, Len(s)), (n - m) + 1, Len(s) - m) = SubSeq(s, n + 1, Len(s))
    BY <2>2, EndOfEnd
  <2>4. QED
    BY <1>4, <2>1, <2>3
<1>7. Target(d) = SubSeq(held[d], Len(held[d]), Len(held[d]))
  BY <1>3, <1>5, <1>6
<1>8. held[d] \in DriveNames => SubSeq(held[d], Len(held[d]), Len(held[d])) = held[d]
  <2>1. held[d] \in Seq(STRING)
    BY <1>4, <1>5
  <2>2. held[d] \in DriveNames => Len(held[d]) = 1
    BY VFSAssumption
  <2>3. QED
    BY <2>1, <2>2, SubSeqFull
<1>9. QED
  BY <1>7, <1>8

\* A step that gives no descriptor to a file, changes no path, and only sets the
\* size of a drive to what it is.
LEMMA PathsUntouched ==
    ASSUME IInv, PathInv,
           DOMAIN held' \subseteq DOMAIN held,
           \A d \in DOMAIN held' :
              /\ held'[d] = held[d]
              /\ file_descriptors'[d].file_path = file_descriptors[d].file_path
              /\ held[d] \in DOMAIN Drives =>
                   file_descriptors'[d].size \in {file_descriptors[d].size, Drives[held[d]]},
           mounted_fss' = mounted_fss,
           ListIntact' => ListIntact,
           ListIntact => \A d \in DOMAIN held' : Inside(d)'
    PROVE  PathInv'
<1>1. HeldFilled'
  BY DEF PathInv, HeldFilled, FilledIn, IsFile, FoundAt, OpenPath
<1>2. ASSUME ListIntact', NEW d \in DOMAIN held'
      PROVE  Anchored(d)'
  <2>1. PICK i \in 1 .. Len(mounted_fss) :
          Matches(i, OpenPath(d)) /\ Depth(mounted_fss[i]) = FoundAt(d)
    BY <1>2 DEF PathInv, Anchored
  <2>2. Matches(i, OpenPath(d))' /\ Depth(mounted_fss[i])' = FoundAt(d)'
    BY <1>2, <2>1 DEF OpenPath, FoundAt, Matches, ComparedAt, Depth
  <2>3. QED
    BY <2>2 DEF Anchored
<1>3. QED
  BY <1>1, <1>2 DEF PathInv

\* A file system that is mounted goes behind the others.
LEMMA MountKeepsPaths ==
    ASSUME IInv, PathInv, NEW where \in MountPaths, mount_fs(where)
    PROVE  PathInv'
<1>1. /\ Len(mounted_fss') = Len(mounted_fss) + 1 /\ Len(mounted_fss) \in Nat
      /\ \A i \in 1 .. Len(mounted_fss) :
            i \in 1 .. Len(mounted_fss') /\ mounted_fss'[i] = mounted_fss[i]
      /\ vector_size' = vector_size + 1 /\ vector_size \in Nat
      /\ UNCHANGED <<file_descriptors, held>>
  BY DEF mount_fs, IInv, Types
<1>2. HeldFilled'
  BY <1>1 DEF PathInv, HeldFilled, FilledIn, IsFile, FoundAt, OpenPath
<1>3. ListIntact' => ListIntact
  BY <1>1 DEF ListIntact
<1>4. ASSUME ListIntact', NEW d \in DOMAIN held'
      PROVE  Anchored(d)' /\ Inside(d)'
  <2>1. PICK i \in 1 .. Len(mounted_fss) :
          Matches(i, OpenPath(d)) /\ Depth(mounted_fss[i]) = FoundAt(d)
    BY <1>1, <1>3, <1>4 DEF PathInv, Anchored
  <2>2. Matches(i, OpenPath(d))' /\ Depth(mounted_fss[i])' = FoundAt(d)'
    BY <1>1, <2>1 DEF OpenPath, FoundAt, Matches, ComparedAt, Depth
  <2>3. Inside(d)'
    BY <1>1, <1>3, <1>4 DEF PathInv, Inside
  <2>4. QED
    BY <1>1, <2>2, <2>3 DEF Anchored
<1>5. QED
  BY <1>2, <1>4 DEF PathInv

\* The descriptor open has just returned, for a file system it has found.
LEMMA OpenFillsIn ==
    ASSUME Types, NEW p, IsFile(p), Holding(p) # {}
    PROVE  LET f == Trimmed(p)
               n == Len(p.parts) - Len(f)
           IN  /\ Len(f) \in 1 .. Len(p.parts) /\ f = SubSeq(p.parts, n + 1, Len(p.parts))
               /\ \E i \in 1 .. Len(mounted_fss) : Matches(i, p) /\ Depth(mounted_fss[i]) = n
<1>1. get_mounted_fs(p) \in Holding(p)
  BY DeepestFound
<1>2. PICK n \in Nat : /\ n = Depth(mounted_fss[get_mounted_fs(p)]) /\ n <= Len(p.parts) - 1
                       /\ Trimmed(p) = SubSeq(p.parts, n + 1, Len(p.parts))
  BY <1>1, DeeperWins
<1>3. p.parts \in Seq(STRING) /\ Len(p.parts) \in Nat
  BY Depths
<1>4. Len(Trimmed(p)) = Len(p.parts) - n
  BY <1>2, <1>3, EndOfEnd
<1>5. Len(Trimmed(p)) \in 1 .. Len(p.parts) /\ Len(p.parts) - Len(Trimmed(p)) = n
  <2>1. PICK k, l : k = Len(p.parts) /\ l = Len(Trimmed(p))
    OBVIOUS
  <2>2. k \in Nat /\ l = k - n /\ n <= k - 1
    BY <1>2, <1>3, <1>4, <2>1
  <2>3. l \in 1 .. k /\ k - l = n
    BY <2>2
  <2>4. QED
    BY <2>1, <2>3
<1>6. get_mounted_fs(p) \in 1 .. Len(mounted_fss) /\ Matches(get_mounted_fs(p), p)
  BY <1>1 DEF Holding, Types
<1>7. QED
  BY <1>2, <1>5, <1>6

LEMMA OpenKeepsPaths ==
    ASSUME IInv, PathInv, NEW p \in Paths, NEW access \in Accesses, OpenFile(p, access)
    PROVE  PathInv'
<1>1. PICK d \in Descriptors :
        /\ d \notin DOMAIN held
        /\ file_descriptors' = [file_descriptors EXCEPT ![d] = Filled(d, p, access)]
        /\ held' = [e \in DOMAIN held \cup {d} |-> IF e = d THEN Trimmed(p) ELSE held[e]]
  BY OpenTakes
<1>2. /\ mounted_fss' = mounted_fss /\ vector_size' = vector_size
      /\ IsFile(p) /\ Holding(p) # {} /\ Types
  BY DEF OpenFile, Reaches, mounts, IsFile, IInv
<1>3. \A e \in DOMAIN held : /\ e \in Descriptors /\ e # d /\ held'[e] = held[e]
                             /\ file_descriptors'[e] = file_descriptors[e]
  BY <1>1 DEF IInv, DescriptorsAccounted, Types
<1>4. DOMAIN held' = DOMAIN held \cup {d} /\ held'[d] = Trimmed(p)
  BY <1>1
<1>5. file_descriptors'[d] = Filled(d, p, access)
  BY <1>1, <1>2 DEF Types
<1>6. /\ file_descriptors'[d].file_path = p /\ file_descriptors'[d].position = 0
      /\ file_descriptors'[d].size = get_file_size(Trimmed(p), file_descriptors[d].size)
  BY <1>5 DEF Filled
<1>7. Trimmed(p) \in DOMAIN Drives =>
        file_descriptors'[d].size = Drives[Trimmed(p)] /\ Drives[Trimmed(p)] \in Nat
  BY <1>2, <1>6, VFSAssumption, DriveSize DEF Types, get_file_size
<1>8. /\ Len(Trimmed(p)) \in 1 .. Len(p.parts)
      /\ Trimmed(p) = SubSeq(p.parts, (Len(p.parts) - Len(Trimmed(p))) + 1, Len(p.parts))
      /\ \E i \in 1 .. Len(mounted_fss) :
            Matches(i, p) /\ Depth(mounted_fss[i]) = Len(p.parts) - Len(Trimmed(p))
  BY <1>2, OpenFillsIn
<1>9. HeldFilled'
  <2>1. FilledIn(d)'
    BY <1>2, <1>4, <1>6, <1>7, <1>8 DEF FilledIn, FoundAt, OpenPath, IsFile
  <2>2. ASSUME NEW e \in DOMAIN held PROVE FilledIn(e)'
    BY <1>3 DEF PathInv, HeldFilled, FilledIn, FoundAt, OpenPath, IsFile
  <2>3. QED
    BY <1>4, <2>1, <2>2 DEF HeldFilled
<1>10. ASSUME ListIntact', NEW e \in DOMAIN held'
       PROVE  Anchored(e)' /\ Inside(e)'
  <2>1. CASE e = d
    <3>1. PICK i \in 1 .. Len(mounted_fss) :
            Matches(i, p) /\ Depth(mounted_fss[i]) = Len(p.parts) - Len(Trimmed(p))
      BY <1>8
    <3>2. Matches(i, OpenPath(d))' /\ Depth(mounted_fss[i])' = FoundAt(d)'
      BY <1>2, <1>4, <1>6, <3>1 DEF OpenPath, FoundAt, Matches, ComparedAt, Depth
    <3>3. Inside(d)'
      BY <1>4, <1>6, <1>7 DEF Inside
    <3>4. QED
      BY <1>2, <2>1, <3>2, <3>3 DEF Anchored
  <2>2. CASE e \in DOMAIN held
    <3>1. Anchored(e) /\ Inside(e)
      BY <1>2, <1>10, <2>2 DEF PathInv, ListIntact
    <3>2. PICK i \in 1 .. Len(mounted_fss) :
            Matches(i, OpenPath(e)) /\ Depth(mounted_fss[i]) = FoundAt(e)
      BY <3>1 DEF Anchored
    <3>3. Matches(i, OpenPath(e))' /\ Depth(mounted_fss[i])' = FoundAt(e)'
      BY <1>2, <1>3, <2>2, <3>2 DEF OpenPath, FoundAt, Matches, ComparedAt, Depth
    <3>4. Inside(e)'
      BY <1>3, <2>2, <3>1 DEF Inside
    <3>5. QED
      BY <1>2, <3>3, <3>4 DEF Anchored
  <2>3. QED
    BY <1>4, <2>1, <2>2
<1>11. QED
  BY <1>9, <1>10 DEF PathInv

\* The two calls that overwrite the number of mounts leave it behind a list of two.
LEMMA CountOverwritten ==
    ASSUME IInv, mounted_fss' = mounted_fss, vector_size' \in {0, 1}
    PROVE  ListIntact' => ListIntact
<1>1. Len(mounted_fss) \in Nat
  BY DEF IInv, Types
<1>2. QED
  BY <1>1 DEF ListIntact

\* A call on an open drive leaves its size alone, or sets it to what it is, and
\* leaves the position inside while the mounts are intact.
CallKept(d) ==
    /\ file_descriptors'[d].file_path = file_descriptors[d].file_path
    /\ held[d] \in DOMAIN Drives =>
         file_descriptors'[d].size \in {file_descriptors[d].size, Drives[held[d]]}
    /\ ListIntact => Inside(d)'

LEMMA OthersKept ==
    ASSUME IInv, PathInv, UNCHANGED held, NEW d, NEW fd,
           file_descriptors' = [file_descriptors EXCEPT ![d] = fd],
           NEW e \in DOMAIN held, e # d
    PROVE  CallKept(e)
<1>1. e \in DOMAIN file_descriptors
  BY DEF IInv, DescriptorsAccounted, Types
<1>2. file_descriptors'[e] = file_descriptors[e]
  BY <1>1
<1>3. QED
  BY <1>2 DEF CallKept, PathInv, Inside

LEMMA ReadKept ==
    ASSUME IInv, PathInv, NEW d \in DOMAIN held, NEW nbyte, NEW offset, Read(d, nbyte, offset)
    PROVE  CallKept(d)
<1>1. d \in Descriptors /\ file_descriptors[d] \in FileDesc /\ held' = held
  BY DEF Read, IInv, DescriptorsAccounted, Types
<1>2. file_descriptors'[d] = Moved(d, ActualOffset(d, offset) + nbyte)
  BY <1>1 DEF Read, IInv, Types
<1>3. /\ file_descriptors'[d].file_path = file_descriptors[d].file_path
      /\ file_descriptors'[d].size = file_descriptors[d].size
      /\ file_descriptors'[d].position = ActualOffset(d, offset) + nbyte
  BY <1>1, <1>2 DEF Moved, FileDesc
<1>4. ActualOffset(d, offset) + nbyte <= file_descriptors[d].size
  BY DEF Read, MayRead
<1>5. QED
  BY <1>1, <1>3, <1>4 DEF CallKept, Inside

LEMMA WriteKept ==
    ASSUME IInv, PathInv, NEW d \in DOMAIN held, d \in Usable, NEW data \in Data, NEW offset,
           Write(d, data, offset)
    PROVE  CallKept(d)
<1>1. d \in Descriptors /\ file_descriptors[d] \in FileDesc /\ held' = held /\ Types
  BY DEF Write, IInv, DescriptorsAccounted, Types
<1>2. /\ ActualOffset(d, offset) + Size(data) <= Size(content[Target(d)])
      /\ Target(d) \in DOMAIN Drives /\ Resolves(d)
      /\ file_descriptors' =
           [file_descriptors EXCEPT ![d] =
              [file_descriptors[d] EXCEPT
                 !.position = ActualOffset(d, offset) + Size(data),
                 !.size = Size(content[Target(d)])]]
  BY <1>1, WriteMoves DEF Write
<1>3. file_descriptors'[d] =
        [file_descriptors[d] EXCEPT
           !.position = ActualOffset(d, offset) + Size(data),
           !.size = Size(content[Target(d)])]
  BY <1>1, <1>2 DEF Types
<1>4. /\ file_descriptors'[d].file_path = file_descriptors[d].file_path
      /\ file_descriptors'[d].size = Size(content[Target(d)])
      /\ file_descriptors'[d].position = ActualOffset(d, offset) + Size(data)
  BY <1>1, <1>3 DEF FileDesc
<1>5. held[d] \in DOMAIN Drives => Size(content[Target(d)]) = Drives[held[d]]
  <2>1. held[d] \in DOMAIN Drives => Target(d) = held[d]
    BY <1>1, <1>2, DriveIsLastPart, VFSAssumption
  <2>2. \A f \in DOMAIN Drives : Size(content[f]) = Drives[f]
    BY <1>1, VFSAssumption, DriveSize DEF Types
  <2>3. QED
    BY <2>1, <2>2
<1>6. QED
  BY <1>1, <1>2, <1>4, <1>5 DEF CallKept, Inside

\* What is written nowhere does not move in a drive, while the mounts are intact.
LEMMA ForgottenKept ==
    ASSUME IInv, PathInv, NEW d \in DOMAIN held, NEW data, NEW offset,
           WriteNowhere(d, data, offset)
    PROVE  CallKept(d)
<1>1. d \in Descriptors /\ file_descriptors[d] \in FileDesc /\ held' = held
  BY DEF WriteNowhere, IInv, DescriptorsAccounted, Types
<1>2. file_descriptors'[d] = Moved(d, ActualOffset(d, offset) + Size(data))
  BY <1>1 DEF WriteNowhere, IInv, Types
<1>3. /\ file_descriptors'[d].file_path = file_descriptors[d].file_path
      /\ file_descriptors'[d].size = file_descriptors[d].size
  BY <1>1, <1>2 DEF Moved, FileDesc
<1>4. ListIntact => held[d] \notin DOMAIN Drives
  <2>1. Holding(OpenPath(d)) # {} /\ Target(d) \notin DriveNames
    BY DEF WriteNowhere, Resolves, Reaches, OpenPath
  <2>2. QED
    BY <2>1, LeadsHome, VFSAssumption DEF IInv
<1>5. QED
  BY <1>1, <1>3, <1>4 DEF CallKept, Inside

LEMMA CallsKeepPaths ==
    ASSUME IInv, PathInv, NEW d \in Usable, NEW offset \in Offsets,
           \/ \E nbyte \in Offsets : Read(d, nbyte, offset) \/ IoWild(d, nbyte, offset)
           \/ \E data \in Data : Write(d, data, offset) \/ WriteNowhere(d, data, offset)
    PROVE  PathInv'
<1>1. held' = held /\ mounted_fss' = mounted_fss /\ vector_size' = vector_size
  BY DEF Read, IoWild, Write, WriteNowhere, mounts
<1>2. ASSUME NEW e \in DOMAIN held PROVE CallKept(e)
  <2>1. CASE \E nbyte \in Offsets : IoWild(d, nbyte, offset)
    BY <2>1 DEF IoWild, CallKept, PathInv, Inside
  <2>2. CASE e # d /\ ~ \E nbyte \in Offsets : IoWild(d, nbyte, offset)
    <3>1. PICK fd : file_descriptors' = [file_descriptors EXCEPT ![d] = fd]
      BY <2>2 DEF Read, Write, WriteNowhere
    <3>2. QED
      BY <1>1, <2>2, <3>1, OthersKept
  <2>3. CASE e = d /\ ~ \E nbyte \in Offsets : IoWild(d, nbyte, offset)
    BY <2>3, ReadKept, WriteKept, ForgottenKept
  <2>4. QED
    BY <2>1, <2>2, <2>3
<1>3. QED
  BY <1>1, <1>2, PathsUntouched DEF CallKept, ListIntact

LEMMA CloseKeepsPaths ==
    ASSUME IInv, PathInv, NEW d \in Usable \cup {-1, VFS_OPEN_FILES_MAX}, close(d)
    PROVE  PathInv'
<1>1. /\ DOMAIN held' \subseteq DOMAIN held /\ \A e \in DOMAIN held' : held'[e] = held[e]
      /\ mounted_fss' = mounted_fss
  BY DEF close
<1>2. \A e \in DOMAIN held' : /\ file_descriptors'[e].file_path = file_descriptors[e].file_path
                              /\ file_descriptors'[e].size = file_descriptors[e].size
                              /\ file_descriptors'[e].position = file_descriptors[e].position
  <2>1. DOMAIN held' \subseteq Descriptors
    BY <1>1 DEF IInv, DescriptorsAccounted
  <2>2. QED
    BY <2>1 DEF close, IInv, Types, FileDesc
<1>3. ListIntact' => ListIntact
  BY <1>1, CountOverwritten DEF close, ListIntact
<1>4. ListIntact => \A e \in DOMAIN held' : Inside(e)'
  BY <1>1, <1>2 DEF PathInv, Inside
<1>5. QED
  BY <1>1, <1>2, <1>3, <1>4, PathsUntouched

LEMMA PathStep == IInv /\ PathInv /\ [Next]_vars => PathInv'
<1> SUFFICES ASSUME IInv, PathInv, [Next]_vars PROVE PathInv'
  OBVIOUS
<1>1. ASSUME UNCHANGED <<mounted_fss, file_descriptors, held>>, ListIntact' => ListIntact
      PROVE  PathInv'
  <2>1. ListIntact => \A d \in DOMAIN held' : Inside(d)'
    BY <1>1 DEF PathInv, Inside
  <2>2. QED
    BY <1>1, <2>1, PathsUntouched
<1>2. ASSUME UNCHANGED vars PROVE PathInv'
  BY <1>1, <1>2 DEF vars, mounts, ListIntact
<1>3. ASSUME NEW where \in MountPaths, mount_fs(where) PROVE PathInv'
  BY <1>3, MountKeepsPaths
<1>4. ASSUME NEW p \in Paths, OpenFolder(p) \/ OpenNoDescriptor(p) \/ OpenPanics(p)
      PROVE  PathInv'
  <2>1. CASE OpenNoDescriptor(p)
    <3>1. ListIntact' => ListIntact
      BY <2>1, CountOverwritten DEF OpenNoDescriptor
    <3>2. QED
      BY <1>1, <2>1, <3>1 DEF OpenNoDescriptor
  <2>2. CASE OpenFolder(p)
    BY <1>2, <2>2 DEF OpenFolder
  <2>3. CASE OpenPanics(p)
    BY <1>1, <2>3 DEF OpenPanics, mounts, ListIntact
  <2>4. QED
    BY <1>4, <2>1, <2>2, <2>3
<1>5. ASSUME NEW p \in Paths, NEW excl \in BOOLEAN, OpenFails(p, excl) PROVE PathInv'
  BY <1>2, <1>5 DEF OpenFails
<1>6. ASSUME NEW p \in Paths, NEW access \in Accesses, OpenFile(p, access) PROVE PathInv'
  BY <1>6, OpenKeepsPaths
<1>7. ASSUME NEW d \in Usable \cup {-1, VFS_OPEN_FILES_MAX}, close(d) \/ CloseFails(d)
      PROVE  PathInv'
  BY <1>2, <1>7, CloseKeepsPaths DEF CloseFails
<1>8. ASSUME NEW d \in Usable, NEW offset \in Offsets,
             \/ \E nbyte \in Offsets : Read(d, nbyte, offset) \/ IoWild(d, nbyte, offset)
             \/ \E data \in Data : Write(d, data, offset) \/ WriteNowhere(d, data, offset)
      PROVE  PathInv'
  BY <1>8, CallsKeepPaths
<1>9. CASE IoFails \/ Stopped \/ UNCHANGED vars
  BY <1>2, <1>9 DEF IoFails, Stopped
<1>10. QED
  BY <1>3, <1>4, <1>5, <1>6, <1>7, <1>8, <1>9, Zenon DEF Next

LEMMA PathInvariance == Spec => [](IInv /\ PathInv)
<1>1. Init => PathInv
  <2>1. Init => DOMAIN held = {}
    BY DEF Init
  <2>2. QED
    BY <2>1 DEF PathInv, HeldFilled
<1>2. QED
  BY <1>1, InitIInv, StepIInv, PathStep, PTL DEF Spec

\* For every number of descriptors, every set of drives, names and paths: the table
\* of the VFS has its types, and as long as nothing has overwritten the number of
\* mounts, the position in a drive does not lie behind its end.  The check for
\* overflow in io (vfs.cpp) and the one in DevFS::storage_drive_write keep it
\* there, and that a drive that was opened is never again taken for a name that
\* is none, where DevFS::io accepts every write.
THEOREM TypeCorrect == Spec => []TypeOK
<1>1. IInv /\ PathInv => TypeOK
  BY DEF IInv, PathInv, Inside, MountsCounted, ListIntact, TypeOK
<1>2. QED
  BY <1>1, PathInvariance, PTL

\* io (vfs.cpp) looks the path of an open file up again on every call.  However
\* many file systems are mounted meanwhile, at whatever paths and depths, the
\* lookup leads to the drive that was opened, or stops the kernel, as long as
\* nothing has overwritten the number of mounts.  A name that was no drive when it
\* was opened leads to an end of it, which a deeper mount may make a drive.
THEOREM OpenFilesKept == Spec => []OpenFilesStay
<1>1. IInv /\ PathInv => OpenFilesStay
  <2>1. SUFFICES ASSUME IInv, PathInv, vector_size = Len(mounted_fss), NEW d \in DOMAIN held,
                        ~ LookupPanics(file_descriptors[d].file_path)
                 PROVE  /\ Resolves(d)
                        /\ held[d] \in DOMAIN Drives => Target(d) = held[d]
                        /\ \E n \in 0 .. Len(held[d]) - 1 :
                             Target(d) = SubSeq(held[d], n + 1, Len(held[d]))
    BY DEF OpenFilesStay, MountsCounted
  <2>2. /\ Holding(OpenPath(d)) # {}
        /\ \E n \in 0 .. Len(held[d]) - 1 : Target(d) = SubSeq(held[d], n + 1, Len(held[d]))
        /\ held[d] \in DriveNames => Target(d) = held[d]
    BY <2>1, LeadsHome DEF IInv, ListIntact
  <2>3. Resolves(d)
    BY <2>1, <2>2 DEF Resolves, Reaches, OpenPath
  <2>4. QED
    BY <2>2, <2>3, VFSAssumption
<1>2. QED
  BY <1>1, PathInvariance, PTL

-----------------------------------------------------------------------------
(* Paths stay reachable *)

\* How a path may cease to lead to a file system.
Unreached ==
    \/ \E i \in vector_size + 1 .. vector_size' : Depth(mounted_fss'[i]) \in 1 .. i - 1
    \/ close(-1)
    \/ \E q \in Paths : OpenNoDescriptor(q)

\* As long as the mounts are the same, so is what a path leads to.
LEMMA SameMounts ==
    ASSUME UNCHANGED mounts, NEW p PROVE Reaches(p) => Reaches(p)'
BY DEF mounts, Reaches, LookupPanics, Holding, Matches, ComparedAt, Depth

\* A file system is counted behind the others, which hold what they held.
LEMMA MountReaches ==
    ASSUME Types, NEW where \in MountPaths, mount_fs(where), NEW p \in Paths,
           Reaches(p), ~ Reaches(p)'
    PROVE  \E i \in vector_size + 1 .. vector_size' : Depth(mounted_fss'[i]) \in 1 .. i - 1
<1>1. /\ vector_size' = vector_size + 1 /\ vector_size \in Nat
      /\ \A i \in 1 .. vector_size : mounted_fss'[i] = mounted_fss[i]
  BY DEF mount_fs, Types
<1>2. Holding(p)' # {}
  <2>1. PICK i \in 1 .. vector_size : Matches(i, p)
    BY DEF Reaches, Holding
  <2>2. Matches(i, p)' /\ i \in 1 .. vector_size'
    BY <1>1, <2>1 DEF Matches, ComparedAt, Depth
  <2>3. QED
    BY <2>2 DEF Holding
<1>3. PICK i \in 1 .. vector_size' :
        Depth(mounted_fss'[i]) \in 1 .. Depth(p) /\ i > Depth(mounted_fss'[i])
  BY <1>2 DEF Reaches, LookupPanics, ComparedAt, Depth
<1>4. i = vector_size + 1
  <2>1. i \in 1 .. vector_size => LookupPanics(p)
    BY <1>1, <1>3 DEF LookupPanics, ComparedAt
  <2>2. QED
    BY <1>1, <1>3, <2>1 DEF Reaches
<1>5. QED
  BY <1>1, <1>3, <1>4

LEMMA ReachStep ==
    Types /\ [Next]_vars => [\A p \in Paths : Reaches(p) /\ ~ Reaches(p)' => Unreached]_vars
<1> SUFFICES ASSUME Types, Next, NEW p \in Paths, Reaches(p), ~ Reaches(p)'
             PROVE  Unreached
  OBVIOUS
<1>1. ~ UNCHANGED mounts
  BY SameMounts
<1>2. ASSUME NEW where \in MountPaths, mount_fs(where) PROVE Unreached
  BY <1>2, MountReaches DEF Unreached
<1>3. ASSUME NEW q \in Paths, OpenFolder(q) \/ OpenNoDescriptor(q) \/ OpenPanics(q)
      PROVE  Unreached
  BY <1>1, <1>3 DEF OpenFolder, OpenPanics, vars, Unreached
<1>4. ASSUME NEW q \in Paths, NEW excl \in BOOLEAN, OpenFails(q, excl) PROVE FALSE
  BY <1>1, <1>4 DEF OpenFails, vars
<1>5. ASSUME NEW q \in Paths, NEW access \in Accesses, OpenFile(q, access) PROVE FALSE
  BY <1>1, <1>5 DEF OpenFile
<1>6. ASSUME NEW d \in Usable \cup {-1, VFS_OPEN_FILES_MAX}, close(d) \/ CloseFails(d)
      PROVE  Unreached
  <2>1. CASE d = -1
    BY <1>1, <1>6, <2>1 DEF CloseFails, vars, Unreached
  <2>2. CASE d # -1
    BY <1>1, <1>6, <2>2 DEF close, CloseFails, vars, mounts
  <2>3. QED
    BY <2>1, <2>2
<1>7. ASSUME NEW d \in Usable, NEW offset \in Offsets,
             \/ \E nbyte \in Offsets : Read(d, nbyte, offset) \/ IoWild(d, nbyte, offset)
             \/ \E data \in Data : Write(d, data, offset) \/ WriteNowhere(d, data, offset)
      PROVE  FALSE
  BY <1>1, <1>7 DEF Read, IoWild, Write, WriteNowhere
<1>8. CASE IoFails \/ Stopped
  BY <1>1, <1>8 DEF IoFails, Stopped, vars
<1>9. QED
  BY <1>2, <1>3, <1>4, <1>5, <1>6, <1>7, <1>8, Zenon DEF Next

\* What a path leads to is only taken away by a file system that is counted
\* behind the depth of its own path, where get_part(i) in get_mounted_fs stops
\* the kernel, and by the two writes to the word in front of file_descriptors:
\* close(-1), and open without a free descriptor.  Nothing else in vfs.cpp makes
\* an open path unreachable, for any mounts in any order.
THEOREM PathsKeptReachable == Spec => PathsStayReachable
<1>1. IInv => Types
  BY DEF IInv
<1>2. QED
  BY <1>1, ReachStep, Invariance, PTL DEF Spec, PathsStayReachable, Unreached

-----------------------------------------------------------------------------
(* The table implements the open files *)

\* The open files, as the table of descriptors holds them.
Opened == [d \in DOMAIN held |->
             [file |-> held[d],
              position |-> file_descriptors[d].position,
              read |-> file_descriptors[d].read,
              write |-> file_descriptors[d].write]]

Lost == ~ MountsCounted

\* The abstract specification means the same by bytes.
LEMMA SameBytes ==
    /\ \A b : Open!Size(b) = Size(b)
    /\ \A b, at, data : Open!Overlay(b, at, data) = Overlay(b, at, data)
<1>1. ASSUME NEW b PROVE Open!Size(b) = Size(b)
  BY Zenon DEF Open!Size, Size, Open!Cardinality, Cardinality
<1>2. ASSUME NEW b, NEW at, NEW data PROVE Open!Overlay(b, at, data) = Overlay(b, at, data)
  BY Zenon DEF Open!Overlay, Overlay
<1>3. QED
  BY <1>1, <1>2

\* What a step of the VFS is for who has opened files.
Implemented == Open!Next \/ UNCHANGED <<content, Opened, Lost>>

\* A step that changes no descriptor of an open file, but maybe the mounts.
LEMMA NoOpenStep ==
    ASSUME DOMAIN held' = DOMAIN held, content' = content,
           \A d \in DOMAIN held :
              held'[d] = held[d] /\ file_descriptors'[d] = file_descriptors[d]
    PROVE  Implemented
<1>1. UNCHANGED <<content, Opened>>
  BY DEF Opened
<1>2. CASE Lost' = Lost
  BY <1>1, <1>2 DEF Implemented
<1>3. CASE Lost' # Lost
  <2>1. Open!Lose
    BY <1>1, <1>3 DEF Open!Lose, Lost, Opened
  <2>2. QED
    BY <2>1 DEF Implemented, Open!Next
<1>4. QED
  BY <1>2, <1>3

\* open that returns a descriptor is Open.
LEMMA OpenImplements ==
    ASSUME IInv, NEW p \in Paths, NEW access \in Accesses, OpenFile(p, access)
    PROVE  Implemented
<1>1. PICK d \in Descriptors :
        /\ d \notin DOMAIN held
        /\ file_descriptors' = [file_descriptors EXCEPT ![d] = Filled(d, p, access)]
        /\ held' = [e \in DOMAIN held \cup {d} |-> IF e = d THEN Trimmed(p) ELSE held[e]]
  BY OpenTakes
<1>2. content' = content /\ Lost' = Lost
  BY DEF OpenFile, mounts, Lost, MountsCounted
<1>3. /\ \A e \in DOMAIN held : file_descriptors'[e] = file_descriptors[e]
      /\ file_descriptors'[d] = Filled(d, p, access)
  BY <1>1 DEF IInv, DescriptorsAccounted, Types
<1>4. /\ Filled(d, p, access).position = 0
      /\ Filled(d, p, access).read = access.read
      /\ Filled(d, p, access).write = access.write
  BY DEF Filled
<1>5. Opened'[d] = Open!OpenFile(Trimmed(p), access)
  BY <1>1, <1>3, <1>4 DEF Opened, Open!OpenFile
<1>6. Opened'[d].file = Trimmed(p)
  BY <1>5 DEF Open!OpenFile
<1>7. Opened' = [e \in DOMAIN Opened \cup {d} |->
                   IF e = d THEN Open!OpenFile(Opened'[d].file, access) ELSE Opened[e]]
  <2>1. Opened' = [e \in DOMAIN held \cup {d} |->
                     IF e = d THEN Open!OpenFile(Trimmed(p), access) ELSE Opened[e]]
    BY <1>1, <1>3, <1>4 DEF Opened, Open!OpenFile
  <2>2. DOMAIN Opened = DOMAIN held
    BY DEF Opened
  <2>3. QED
    BY <1>6, <2>1, <2>2
<1>8. DOMAIN Opened = DOMAIN held /\ DOMAIN Opened' = DOMAIN held \cup {d}
  BY <1>1 DEF Opened
<1>9. Open!Open(d)
  BY <1>1, <1>2, <1>7, <1>8 DEF Open!Open, Opened, Lost
<1>10. QED
  BY <1>1, <1>8, <1>9 DEF Implemented, Open!Next, Opened

\* close of a descriptor that open has returned is Close; of another it is none.
LEMMA CloseImplements ==
    ASSUME IInv, NEW d \in Usable \cup {-1, VFS_OPEN_FILES_MAX}, close(d)
    PROVE  Implemented
<1>1. /\ held' = [e \in DOMAIN held \ {d} |-> held[e]]
      /\ content' = content
      /\ DOMAIN held \subseteq Descriptors
  BY DEF close, IInv, DescriptorsAccounted
<1>2. \A e \in DOMAIN held \ {d} : file_descriptors'[e] = file_descriptors[e]
  BY <1>1 DEF close, IInv, Types
<1>3. CASE d \notin DOMAIN held
  BY <1>1, <1>2, <1>3, NoOpenStep
<1>4. CASE d \in DOMAIN held
  <2>1. Opened' = [e \in DOMAIN Opened \ {d} |-> Opened[e]]
    BY <1>1, <1>2 DEF Opened
  <2>2. DOMAIN Opened = DOMAIN held /\ DOMAIN Opened' = DOMAIN held \ {d}
    BY <1>1 DEF Opened
  <2>3. d # -1
    BY <1>1, <1>4, VFSAssumption DEF Descriptors
  <2>4. Lost' = Lost
    BY <2>3 DEF close, Lost, MountsCounted
  <2>5. Open!Close(d)
    BY <1>1, <2>1, <2>4 DEF Open!Close, Opened, Lost
  <2>6. QED
    BY <1>4, <2>2, <2>5 DEF Implemented, Open!Next, Opened
<1>5. QED
  BY <1>3, <1>4

\* A descriptor that callers may use in a call is one open has returned.
LEMMA LegalIsHeld ==
    ASSUME IInv, NEW d \in Usable, is_legal_descriptor(d)
    PROVE  d \in DOMAIN held
<1>1. d \in Descriptors /\ d \notin Reserved /\ d # -1
  BY VFSAssumption DEF Usable, Descriptors
<1>2. file_descriptors[d].in_use
  BY <1>1 DEF is_legal_descriptor
<1>3. QED
  BY <1>1, <1>2 DEF IInv, DescriptorsAccounted

\* The open file of a descriptor whose position, and maybe size, are set.
LEMMA OpenedMoved ==
    ASSUME IInv, NEW d \in DOMAIN held, NEW at, NEW fd, UNCHANGED held,
           file_descriptors' = [file_descriptors EXCEPT ![d] = fd],
           fd.position = at,
           fd.read = file_descriptors[d].read, fd.write = file_descriptors[d].write
    PROVE  /\ Opened' = [Opened EXCEPT ![d].position = at]
           /\ d \in DOMAIN Opened /\ d \in DOMAIN Opened'
           /\ Opened'[d].position = at
<1>1. DOMAIN held \subseteq Descriptors /\ DOMAIN file_descriptors = Descriptors
  BY DEF IInv, DescriptorsAccounted, Types
<1>2. file_descriptors'[d] = fd /\ \A e \in DOMAIN held \ {d} : file_descriptors'[e] = file_descriptors[e]
  BY <1>1
<1>3. \A e \in DOMAIN held : Opened'[e] = IF e = d THEN [Opened[d] EXCEPT !.position = at]
                                                  ELSE Opened[e]
  BY <1>2 DEF Opened
<1>4. Opened' = [e \in DOMAIN held |-> Opened'[e]] /\ Opened = [e \in DOMAIN held |-> Opened[e]]
  BY DEF Opened
<1>5. Opened'[d].position = at
  BY <1>2 DEF Opened
<1>6. QED
  BY <1>3, <1>4, <1>5

\* A descriptor as it is when a call has moved it.
LEMMA MovedFields ==
    ASSUME IInv, NEW d \in DOMAIN held, NEW at
    PROVE  /\ Moved(d, at).position = at
           /\ Moved(d, at).read = file_descriptors[d].read
           /\ Moved(d, at).write = file_descriptors[d].write
<1>1. file_descriptors[d] \in FileDesc
  BY DEF IInv, DescriptorsAccounted, Types
<1>2. QED
  BY <1>1 DEF Moved, FileDesc

LEMMA ReadImplements ==
    ASSUME IInv, PathInv, NEW d \in Usable,
           NEW nbyte \in Offsets \ {0}, NEW offset \in Offsets, Read(d, nbyte, offset)
    PROVE  Implemented
<1> DEFINE at == ActualOffset(d, offset)
<1>1. d \in DOMAIN held /\ FilledIn(d)
  BY LegalIsHeld DEF Read, MayRead, PathInv, HeldFilled
<1>2. at \in Nat /\ nbyte \in Nat \ {0}
  BY ActualOffsetType, VFSAssumption DEF Offsets
<1>3. /\ file_descriptors[d].read /\ at + nbyte <= file_descriptors[d].size
      /\ file_descriptors' = [file_descriptors EXCEPT ![d] = Moved(d, at + nbyte)]
      /\ UNCHANGED <<content, held>> /\ Lost' = Lost
  BY DEF Read, MayRead, mounts, Lost, MountsCounted
<1> HIDE DEF at
<1>4. /\ Opened' = [Opened EXCEPT ![d].position = at + nbyte]
      /\ d \in DOMAIN Opened /\ d \in DOMAIN Opened'
      /\ Opened'[d].position = at + nbyte
  BY <1>1, <1>3, MovedFields, OpenedMoved
<1>5. Opened[d].file = held[d] /\ Opened[d].read
  BY <1>1, <1>3 DEF Opened
<1>6. held[d] \in DOMAIN content => at + nbyte <= Size(content[held[d]])
  <2>1. DOMAIN content = DOMAIN Drives /\ \A f \in DOMAIN Drives : Size(content[f]) = Drives[f]
    BY VFSAssumption, DriveSize DEF IInv, Types
  <2>2. QED
    BY <1>1, <1>3, <2>1 DEF FilledIn
<1>7. Open!Read(d, at, nbyte)
  <2>1. Open!OnFile(d) => Open!InFile(Opened[d].file, at, nbyte)
    <3>1. at >= 0
      BY <1>2
    <3>2. QED
      BY <1>5, <1>6, <3>1, SameBytes DEF Open!OnFile, Open!InFile, Opened
  <2>2. QED
    BY <1>3, <1>4, <1>5, <2>1 DEF Open!Read, Open!MoveTo, Opened, Lost
<1>8. /\ at \in 0 .. Opened'[d].position /\ Opened'[d].position > at
      /\ Opened'[d].position - at = nbyte
  BY <1>2, <1>4
<1>9. QED
  BY <1>4, <1>7, <1>8 DEF Implemented, Open!Next, Opened

\* A call that writes data, in a drive or nowhere, is Write.
LEMMA Writes ==
    ASSUME IInv, NEW d \in DOMAIN held, NEW data \in Data, NEW at \in Nat, NEW fd,
           file_descriptors' = [file_descriptors EXCEPT ![d] = fd],
           fd.position = at + Size(data),
           fd.read = file_descriptors[d].read, fd.write = file_descriptors[d].write,
           file_descriptors[d].write,
           UNCHANGED <<mounts, held>>,
           \/ /\ \/ Target(d) = held[d]
                 \/ held[d] \notin DOMAIN content /\ Target(d) = Open!LastPart(held[d])
              /\ Target(d) \in DOMAIN content
              /\ at + Size(data) <= Size(content[Target(d)])
              /\ content' = [content EXCEPT ![Target(d)] = Overlay(@, at, data)]
           \/ (Lost \/ held[d] \notin DOMAIN content) /\ content' = content
    PROVE  Implemented
<1>1. Size(data) \in Nat
  BY DataSize
<1>2. /\ Opened' = [Opened EXCEPT ![d].position = at + Size(data)]
      /\ d \in DOMAIN Opened /\ d \in DOMAIN Opened'
      /\ Opened'[d].position = at + Size(data)
  BY OpenedMoved
<1>3. Opened[d].file = held[d] /\ Opened[d].write
  BY DEF Opened
<1>4. Lost' = Lost
  BY DEF mounts, Lost, MountsCounted
<1>5. \/ Open!WriteIn(Opened[d].file, at, data)
      \/ ~ Open!OnFile(d) /\ Open!WriteIn(Open!LastPart(Opened[d].file), at, data)
      \/ (Lost \/ ~ Open!OnFile(d)) /\ UNCHANGED content
  <2>1. ASSUME NEW f \in DOMAIN content, at + Size(data) <= Size(content[f]),
               content' = [content EXCEPT ![f] = Overlay(@, at, data)]
        PROVE  Open!WriteIn(f, at, data)
    <3>1. at >= 0
      OBVIOUS
    <3>2. QED
      BY <2>1, <3>1, SameBytes DEF Open!WriteIn, Open!InFile
  <2>2. Open!OnFile(d) = (held[d] \in DOMAIN content)
    BY <1>3 DEF Open!OnFile, Opened
  <2>3. QED
    BY <1>3, <2>1, <2>2
<1>6. Open!Write(d, at, data)
  BY <1>2, <1>3, <1>4, <1>5, SameBytes DEF Open!Write, Open!MoveTo, Opened, Lost
<1>7. Opened'[d].position - Open!Size(data) = at
  BY <1>1, <1>2, SameBytes
<1>8. QED
  BY <1>2, <1>6, <1>7 DEF Implemented, Open!Next, Opened

LEMMA WriteImplements ==
    ASSUME IInv, PathInv, NEW d \in Usable,
           NEW data \in Data, NEW offset \in Offsets, Write(d, data, offset)
    PROVE  Implemented
<1> DEFINE at == ActualOffset(d, offset)
           fd == [file_descriptors[d] EXCEPT !.position = at + Size(data),
                                             !.size = Size(content[Target(d)])]
<1>1. d \in DOMAIN held /\ at \in Nat /\ file_descriptors[d].write /\ Resolves(d)
  BY LegalIsHeld, ActualOffsetType DEF Write, MayWrite
<1>2. /\ Target(d) \in DOMAIN Drives
      /\ at + Size(data) <= Size(content[Target(d)])
      /\ content' = [content EXCEPT ![Target(d)] = Overlay(@, at, data)]
      /\ file_descriptors' = [file_descriptors EXCEPT ![d] = fd]
  BY WriteMoves DEF IInv
<1>3. Target(d) = Open!LastPart(held[d]) /\ (held[d] \in DOMAIN Drives => Target(d) = held[d])
  BY <1>1, <1>2, DriveIsLastPart, VFSAssumption DEF IInv, Open!LastPart
<1>4. fd.position = at + Size(data) /\ fd.read = file_descriptors[d].read
      /\ fd.write = file_descriptors[d].write
  <2>1. file_descriptors[d] \in FileDesc
    BY <1>1 DEF IInv, DescriptorsAccounted, Types
  <2>2. QED
    BY <2>1 DEF FileDesc
<1> HIDE DEF at, fd
<1>5. DOMAIN content = DOMAIN Drives /\ UNCHANGED <<mounts, held>>
  BY DEF IInv, Types, Write
<1>6. QED
  BY <1>1, <1>2, <1>3, <1>4, <1>5, Writes

LEMMA ForgottenImplements ==
    ASSUME IInv, PathInv, NEW d \in Usable,
           NEW data \in Data, NEW offset \in Offsets, WriteNowhere(d, data, offset)
    PROVE  Implemented
<1> DEFINE at == ActualOffset(d, offset)
           fd == Moved(d, at + Size(data))
<1>1. /\ d \in DOMAIN held /\ at \in Nat /\ file_descriptors[d].write
      /\ Holding(OpenPath(d)) # {} /\ Target(d) \notin DriveNames
  BY LegalIsHeld, ActualOffsetType DEF WriteNowhere, MayWrite, Resolves, Reaches, OpenPath
<1>2. /\ file_descriptors' = [file_descriptors EXCEPT ![d] = fd]
      /\ UNCHANGED <<mounts, content, held>>
  BY DEF WriteNowhere
<1>3. Lost \/ held[d] \notin DOMAIN content
  <2>1. MountsCounted => held[d] \notin DriveNames
    BY <1>1, LeadsHome DEF IInv, MountsCounted, ListIntact
  <2>2. DOMAIN content \subseteq DriveNames
    BY VFSAssumption DEF IInv, Types
  <2>3. QED
    BY <2>1, <2>2 DEF Lost
<1>4. fd.position = at + Size(data) /\ fd.read = file_descriptors[d].read
      /\ fd.write = file_descriptors[d].write
  BY <1>1, MovedFields
<1> HIDE DEF at, fd
<1>5. QED
  BY <1>1, <1>2, <1>3, <1>4, Writes

LEMMA StepImplements == IInv /\ PathInv /\ [Next]_vars => Implemented
<1> SUFFICES ASSUME IInv, PathInv, [Next]_vars PROVE Implemented
  OBVIOUS
<1>1. ASSUME UNCHANGED <<file_descriptors, content, held>> PROVE Implemented
  BY <1>1, NoOpenStep
<1>2. ASSUME NEW where \in MountPaths, mount_fs(where) PROVE Implemented
  BY <1>1, <1>2 DEF mount_fs
<1>3. ASSUME NEW p \in Paths, OpenFolder(p) \/ OpenNoDescriptor(p) \/ OpenPanics(p)
      PROVE  Implemented
  BY <1>1, <1>3 DEF OpenFolder, OpenNoDescriptor, OpenPanics, vars
<1>4. ASSUME NEW p \in Paths, NEW excl \in BOOLEAN, OpenFails(p, excl) PROVE Implemented
  BY <1>1, <1>4 DEF OpenFails, vars
<1>5. ASSUME NEW p \in Paths, NEW access \in Accesses, OpenFile(p, access) PROVE Implemented
  BY <1>5, OpenImplements
<1>6. ASSUME NEW d \in Usable \cup {-1, VFS_OPEN_FILES_MAX}, close(d) \/ CloseFails(d)
      PROVE  Implemented
  BY <1>1, <1>6, CloseImplements DEF CloseFails, vars
<1>7. ASSUME NEW d \in Usable, NEW offset \in Offsets, NEW nbyte \in Offsets \ {0},
             Read(d, nbyte, offset) \/ IoWild(d, nbyte, offset)
      PROVE  Implemented
  BY <1>1, <1>7, ReadImplements DEF IoWild
<1>8. ASSUME NEW d \in Usable, NEW offset \in Offsets, NEW data \in Data,
             Write(d, data, offset) \/ WriteNowhere(d, data, offset)
      PROVE  Implemented
  BY <1>8, WriteImplements, ForgottenImplements
<1>9. CASE IoFails \/ Stopped \/ UNCHANGED vars
  BY <1>1, <1>9 DEF IoFails, Stopped, vars
<1>10. QED
  BY <1>2, <1>3, <1>4, <1>5, <1>6, <1>7, <1>8, <1>9, Zenon DEF Next

\* With file systems mounted anywhere, open, close, read and write of vfs.cpp are
\* those of a table of open files: whatever is mounted, opened and closed, in
\* whatever order, a read or a write happens in the file its descriptor was opened
\* on, inside of it, if it was opened for that.  A name that is no drive opens, too,
\* and what is written to it is forgotten, or lands in the drive its last part names
\* once a deeper mount leads there; and writes to drives are only forgotten after
\* the number of mounts has been overwritten.
THEOREM OpenFilesImplemented == Spec => ImplementsOpenFiles
<1>1. Init => Open!Init
  BY DEF Init, Open!Init, MountsCounted
<1>2. IInv /\ PathInv /\ [Next]_vars => [Open!Next]_(Open!vars)
  BY StepImplements DEF Implemented, Open!vars, Opened, Lost
<1>3. QED
  BY <1>1, <1>2, PathInvariance, PTL DEF Spec, ImplementsOpenFiles, Open!Spec

-----------------------------------------------------------------------------
(* Vector: the nodes of a list *)

\* The states of the vectors and of the nodes on the heap.
ListStates ==
    [head : [Vectors -> Int], vector_size : [Vectors -> Int],
     next : [Nodes -> Int], data : [Nodes -> Values \cup {Freed}]]

\* The nodes of a list one after the other, with nullptr behind the last.
Threads == [Nat -> 0 .. NODES]

\* The nodes on a thread.
NodesOf(t) == {t[i] : i \in Nat} \ {nullptr}

\* The list of v is the thread t: its head, its links and its count.
Strung(l, v, t) ==
    /\ t \in Threads
    /\ l.head[v] = t[0]
    /\ l.vector_size[v] \in Nat
    /\ \A i \in Nat : (t[i] = nullptr) = (i >= l.vector_size[v])
    /\ \A i \in Nat : t[i] # nullptr => l.next[t[i]] = t[i + 1]
    /\ \A i, j \in Nat : t[i] # nullptr /\ t[i] = t[j] => i = j

\* Every vector is threaded by nodes of its own, and no other node is on the heap.
Threaded(l, p) ==
    /\ l \in ListStates
    /\ p \in [Vectors -> Threads]
    /\ \A v \in Vectors : Strung(l, v, p[v])
    /\ \A v, w \in Vectors : v # w => NodesOf(p[v]) \cap NodesOf(p[w]) = {}
    /\ Allocated(l) = UNION {NodesOf(p[v]) : v \in Vectors}
    /\ \A n \in Allocated(l) : l.data[n] \in Values

\* What the list of v holds: the data along its thread.
Held(l, v, t) == [i \in 1 .. l.vector_size[v] |-> l.data[t[i - 1]]]

\* The lists of l hold the sequences c.
Holds(l, c) ==
    \E p : Threaded(l, p) /\ c = [v \in Vectors |-> Held(l, v, p[v])]

\* The inductive invariant.
VectorInv == \E c : Holds(lists, c)

-----------------------------------------------------------------------------
(* Turns of a loop *)

\* What holds before a loop and is carried on by each of its turns holds after every
\* turn: turn n leads from a state in S[n - 1] to one in S[n].
LEMMA TurnsKept ==
    ASSUME NEW N \in Nat, NEW f, NEW S, f[0] \in S[0],
           \A n \in 1 .. N : f[n - 1] \in S[n - 1] => f[n] \in S[n]
    PROVE  \A n \in 0 .. N : f[n] \in S[n]
<1> DEFINE T == {n \in 0 .. N : f[n] \notin S[n]}
<1>1. SUFFICES ASSUME T # {} PROVE FALSE
  OBVIOUS
<1>2. PICK m \in T : \A n \in T : m <= n
  <2>1. T \in SUBSET Nat
    OBVIOUS
  <2> HIDE DEF T
  <2>2. QED
    BY <1>1, <2>1, Smallest
<1>3. m \in 0 .. N /\ f[m] \notin S[m]
  OBVIOUS
<1>4. m \in 1 .. N
  BY <1>3
<1>5. f[m - 1] \in S[m - 1]
  <2>1. m - 1 \in 0 .. N /\ ~ (m <= m - 1)
    BY <1>4
  <2>2. m - 1 \notin T
    BY <1>2, <2>1
  <2>3. QED
    BY <2>1, <2>2
<1>6. QED
  BY <1>3, <1>4, <1>5

Carries(N, F, S) == \A n \in 1 .. N : \A t \in S[n - 1] : F[n][t] \in S[n]

\* f[n] is where turn n of a loop from s leads, turn n doing F[n].
Runs(f, N, F, s) == f = [n \in 0 .. N |-> IF n = 0 THEN s ELSE F[n][f[n - 1]]]

\* A loop exists for every number of turns, if each is defined where the last one
\* ends.
LEMMA TurnsExist ==
    ASSUME NEW N \in Nat, NEW F, NEW S, NEW s \in S[0], Carries(N, F, S)
    PROVE  \E f : Runs(f, N, F, s) /\ \A n \in 0 .. N : f[n] \in S[n]
<1> DEFINE Is(f, k) == f = [n \in 0 .. k |-> IF n = 0 THEN s ELSE F[n][f[n - 1]]]
           T == {k \in Nat : \A f : ~ Is(f, k)}
<1>1. ASSUME T # {} PROVE FALSE
  <2>1. PICK k \in T : \A j \in T : k <= j
    BY <1>1, Smallest
  <2>2. CASE k = 0
    <3> DEFINE f == [n \in 0 .. 0 |-> s]
    <3>1. Is(f, 0)
      OBVIOUS
    <3>2. QED
      BY <2>2, <3>1
  <2>3. CASE k # 0
    <3>1. k - 1 \in Nat /\ k - 1 \notin T
      <4>1. k \in Nat
        BY <2>1
      <4> HIDE DEF T
      <4>2. QED
        BY <2>1, <2>3, <4>1
    <3>2. PICK g : Is(g, k - 1)
      <4> HIDE DEF Is
      <4>1. QED
        BY <3>1
    <3> DEFINE f == [n \in 0 .. k |-> IF n = 0 THEN s ELSE F[n][g[n - 1]]]
    <3>3. \A n \in 0 .. k - 1 : f[n] = g[n]
      BY <3>1, <3>2
    <3>4. \A n \in 0 .. k : n # 0 => n - 1 \in 0 .. k - 1
      BY <3>1
    <3> HIDE DEF Is
    <3>5. f = [n \in 0 .. k |-> IF n = 0 THEN s ELSE F[n][f[n - 1]]]
      BY <3>3, <3>4
    <3>6. Is(f, k)
      BY <3>5 DEF Is
    <3>7. QED
      BY <2>1, <3>6
  <2>4. QED
    BY <2>2, <2>3
<1>2. N \notin T
  BY <1>1
<1>3. PICK f : Is(f, N)
  BY <1>2
<1>4. f[0] = s /\ \A n \in 1 .. N : f[n] = F[n][f[n - 1]]
  <2>1. 0 \in 0 .. N /\ \A n \in 1 .. N : n \in 0 .. N /\ n # 0
    OBVIOUS
  <2>2. QED
    BY <1>3, <2>1
<1>5. \A n \in 1 .. N : f[n - 1] \in S[n - 1] => f[n] \in S[n]
  BY <1>4 DEF Carries
<1>6. \A n \in 0 .. N : f[n] \in S[n]
  BY <1>4, <1>5, TurnsKept
<1>7. QED
  BY <1>3, <1>6 DEF Runs

-----------------------------------------------------------------------------
(* A list and the loops over it *)

\* A list is never longer than the nodes there are.
LEMMA FitsNodes ==
    ASSUME NEW l, NEW v, NEW t, Strung(l, v, t)
    PROVE  /\ l.vector_size[v] \in 0 .. NODES
           /\ IsFiniteSet(NodesOf(t))
           /\ Cardinality(NodesOf(t)) = l.vector_size[v]
<1> DEFINE n == l.vector_size[v]
           f == [i \in 0 .. n - 1 |-> t[i]]
<1>1. n \in Nat /\ NODES \in Nat
  BY VectorAssumption DEF Strung
<1>2. \A i \in 0 .. n - 1 : t[i] \in 1 .. NODES
  BY <1>1 DEF Strung, Threads, nullptr
<1>3. \A i, j \in 0 .. n - 1 : t[i] = t[j] => i = j
  BY <1>1, <1>2 DEF Strung, nullptr
<1>4. NodesOf(t) = {t[i] : i \in 0 .. n - 1}
  BY <1>1 DEF NodesOf, Strung
<1>5. IsFiniteSet(0 .. n - 1) /\ Cardinality(0 .. n - 1) = n
  <2> HIDE DEF n
  <2>1. n - 1 \in Int /\ (0 > n - 1 => n = 0)
    BY <1>1
  <2>2. IsFiniteSet(0 .. n - 1)
        /\ Cardinality(0 .. n - 1) = IF 0 > n - 1 THEN 0 ELSE n - 1 - 0 + 1
    BY <2>1, FS_Interval
  <2>3. QED
    BY <1>1, <2>1, <2>2
<1>6. IsFiniteSet(1 .. NODES) /\ Cardinality(1 .. NODES) = NODES
  BY <1>1, FS_Interval
<1> HIDE DEF n
<1>7. f \in Injection(0 .. n - 1, 1 .. NODES)
  BY <1>2, <1>3 DEF Injection, IsInjective
<1>8. n <= NODES
  BY <1>5, <1>6, <1>7, FS_Injection
<1>9. f \in Bijection(0 .. n - 1, NodesOf(t))
  BY <1>3, <1>4 DEF Injection, IsInjective, Surjection, Bijection
<1>10. ExistsBijection(0 .. n - 1, NodesOf(t))
  BY <1>9 DEF ExistsBijection
<1>11. IsFiniteSet(NodesOf(t)) /\ Cardinality(NodesOf(t)) = n
  BY <1>5, <1>10, FS_Bijection
<1>12. QED
  BY <1>1, <1>8, <1>11 DEF n

\* A loop over a list is at the nodes of its thread, one after the other.
LEMMA ChainOK ==
    ASSUME NEW l, NEW v, NEW t, Strung(l, v, t)
    PROVE  \A i \in 0 .. NODES : Chain(l, v)[i] = t[i]
<1> DEFINE Loop(f) ==
             f = [i \in 0 .. NODES |->
                    IF i = 0 THEN l.head[v]
                    ELSE IF f[i - 1] \in {nullptr, Freed} THEN f[i - 1]
                    ELSE l.next[f[i - 1]]]
           g == [i \in 0 .. NODES |-> t[i]]
           at == CHOOSE f : Loop(f)
<1>1. Chain(l, v) = at
  BY DEF Chain
<1>2. NODES \in Nat
  BY VectorAssumption
<1>3. \A i \in 1 .. NODES :
        t[i] = IF t[i - 1] \in {nullptr, Freed} THEN t[i - 1] ELSE l.next[t[i - 1]]
  BY <1>2 DEF Strung, Threads, nullptr, Freed
<1>4. Loop(g)
  <2>1. \A i \in 0 .. NODES : i # 0 => i \in 1 .. NODES /\ i - 1 \in 0 .. NODES
    BY <1>2
  <2>2. l.head[v] = t[0]
    BY DEF Strung
  <2>3. QED
    BY <1>3, <2>1, <2>2
<1>5. Loop(at)
  BY <1>4
<1> HIDE DEF at
<1> DEFINE S == [i \in Nat |-> {t[i]}]
<1>6. at[0] \in S[0]
  BY <1>2, <1>5 DEF Strung
<1>7. \A i \in 1 .. NODES : at[i - 1] \in S[i - 1] => at[i] \in S[i]
  <2> SUFFICES ASSUME NEW i \in 1 .. NODES, at[i - 1] \in S[i - 1]
               PROVE  at[i] \in S[i]
    OBVIOUS
  <2>1. i \in 0 .. NODES /\ i # 0 /\ i - 1 \in Nat /\ i \in Nat
    BY <1>2
  <2>2. at[i - 1] = t[i - 1]
    BY <2>1
  <2>3. at[i] = IF at[i - 1] \in {nullptr, Freed} THEN at[i - 1] ELSE l.next[at[i - 1]]
    BY <1>5, <2>1
  <2>4. QED
    BY <1>3, <2>1, <2>2, <2>3
<1> HIDE DEF S
<1>8. \A i \in 0 .. NODES : at[i] \in S[i]
  BY <1>2, <1>6, <1>7, TurnsKept
<1>9. QED
  BY <1>1, <1>2, <1>8 DEF S

LEMMA ReachedOK ==
    ASSUME NEW l, NEW v, NEW t, Strung(l, v, t)
    PROVE  Reached(l, v) = NodesOf(t)
<1>1. NODES \in Nat /\ l.vector_size[v] \in Nat /\ l.vector_size[v] <= NODES
  BY VectorAssumption, FitsNodes
<1>2. \A i \in Nat : t[i] # nullptr => i \in 0 .. NODES
  BY <1>1 DEF Strung
<1>3. \A i \in 0 .. NODES : i \in Nat /\ Chain(l, v)[i] = t[i]
  BY <1>1, ChainOK
<1>4. QED
  BY <1>2, <1>3 DEF Reached, NodesOf

LEMMA LastNodeOK ==
    ASSUME NEW l, NEW v, NEW t, Strung(l, v, t), l.vector_size[v] # 0
    PROVE  /\ LastNode(l, v) = t[l.vector_size[v] - 1]
           /\ l.vector_size[v] - 1 \in Nat
<1> DEFINE k == l.vector_size[v] - 1
<1>1. k \in Nat /\ l.vector_size[v] \in Nat
  BY DEF Strung
<1>2. t[k] # nullptr /\ t[k + 1] = nullptr
  BY <1>1 DEF Strung
<1>3. t[k] \in Reached(l, v) /\ l.next[t[k]] = nullptr
  BY <1>1, <1>2, ReachedOK DEF NodesOf, Strung
<1>4. ASSUME NEW n \in Reached(l, v), l.next[n] = nullptr PROVE n = t[k]
  <2>1. PICK i \in Nat : n = t[i] /\ t[i] # nullptr
    BY ReachedOK DEF NodesOf
  <2>2. t[i + 1] = nullptr
    BY <1>4, <2>1 DEF Strung
  <2>3. i < l.vector_size[v] /\ i + 1 >= l.vector_size[v]
    BY <1>1, <2>1, <2>2 DEF Strung
  <2>4. i = k
    BY <1>1, <2>3
  <2>5. QED
    BY <2>1, <2>4
<1> HIDE DEF k
<1>5. LastNode(l, v) = t[k]
  BY <1>3, <1>4 DEF LastNode
<1>6. QED
  BY <1>1, <1>5 DEF k

LEMMA GetOK ==
    ASSUME NEW l, NEW v, NEW t, Strung(l, v, t), NEW i \in Nat, i < l.vector_size[v]
    PROVE  get_node(l, v, i) = t[i] /\ get(l, v, i) = l.data[t[i]]
<1>1. i \in 0 .. NODES
  BY VectorAssumption, FitsNodes
<1>2. QED
  BY <1>1, ChainOK DEF get_node, get
-----------------------------------------------------------------------------
(* Lists and what they hold *)

\* Nodes that belong to the lists of other vectors.
LEMMA OthersOK ==
    ASSUME NEW l, NEW p, Threaded(l, p), NEW v \in Vectors
    PROVE  /\ \A w \in Vectors \ {v} : \A i \in Nat :
                p[w][i] # nullptr => p[w][i] \in Allocated(l) \ NodesOf(p[v])
           /\ \A n \in Allocated(l) \ NodesOf(p[v]) :
                \E w \in Vectors \ {v} : n \in NodesOf(p[w])
           /\ \A i \in Nat : p[v][i] # nullptr => p[v][i] \in NodesOf(p[v])
           /\ NodesOf(p[v]) \subseteq Allocated(l)
<1>1. \A w \in Vectors : \A i \in Nat :
        p[w][i] # nullptr => p[w][i] \in NodesOf(p[w])
  BY DEF NodesOf
<1>2. \A w \in Vectors : NodesOf(p[w]) \subseteq Allocated(l)
  BY DEF Threaded
<1>3. \A w \in Vectors \ {v} : NodesOf(p[w]) \cap NodesOf(p[v]) = {}
  BY DEF Threaded
<1>4. \A n \in Allocated(l) : \E w \in Vectors : n \in NodesOf(p[w])
  BY DEF Threaded
<1>5. QED
  BY <1>1, <1>2, <1>3, <1>4

LEMMA ThreadNodes ==
    ASSUME NEW t \in Threads
    PROVE  NodesOf(t) \subseteq Nodes
  BY VectorAssumption DEF Threads, NodesOf, Nodes, nullptr

\* m is l with the thread t for the list of v, whose nodes are not those of another
\* list, and with the other lists as they were.
Rethreads(l, p, v, m, t) ==
    /\ m \in ListStates
    /\ Strung(m, v, t)
    /\ \A w \in Vectors \ {v} :
          m.head[w] = l.head[w] /\ m.vector_size[w] = l.vector_size[w]
    /\ \A n \in Allocated(l) \ NodesOf(p[v]) :
          n \notin NodesOf(t) /\ m.next[n] = l.next[n] /\ m.data[n] = l.data[n]
    /\ \A n \in Nodes : \/ n \in NodesOf(t)
                        \/ n \in Allocated(l) \ NodesOf(p[v])
                        \/ m.next[n] = Freed
    /\ \A n \in NodesOf(t) : m.data[n] \in Values

\* Such a call leaves the other lists, and what they hold, as they were.
LEMMA Rethreaded ==
    ASSUME NEW l, NEW p, Threaded(l, p), NEW v \in Vectors,
           NEW m, NEW t, Rethreads(l, p, v, m, t)
    PROVE  /\ Threaded(m, [p EXCEPT ![v] = t])
           /\ \A w \in Vectors \ {v} : Held(m, w, p[w]) = Held(l, w, p[w])
<1> DEFINE q == [p EXCEPT ![v] = t]
           others == Allocated(l) \ NodesOf(p[v])
<1> t \in Threads
  BY DEF Rethreads, Strung
<1> USE DEF Rethreads
<1>1. /\ p \in [Vectors -> Threads]
      /\ q \in [Vectors -> Threads]
      /\ q[v] = t
      /\ \A w \in Vectors \ {v} : q[w] = p[w]
  BY DEF Threaded
<1>2. /\ \A w \in Vectors \ {v} : \A i \in Nat : p[w][i] # nullptr => p[w][i] \in others
      /\ \A n \in others : \E w \in Vectors \ {v} : n \in NodesOf(p[w])
  BY OthersOK
<1>3. \A w \in Vectors \ {v} : NodesOf(p[w]) \subseteq others
  BY <1>2 DEF NodesOf
<1>4. ASSUME NEW w \in Vectors \ {v}
      PROVE  Strung(m, w, p[w]) /\ Held(m, w, p[w]) = Held(l, w, p[w])
  <2>1. Strung(l, w, p[w])
    BY DEF Threaded
  <2>2. \A i \in Nat : p[w][i] # nullptr =>
          m.next[p[w][i]] = l.next[p[w][i]] /\ m.data[p[w][i]] = l.data[p[w][i]]
    BY <1>2
  <2>3. m.head[w] = l.head[w] /\ m.vector_size[w] = l.vector_size[w]
    OBVIOUS
  <2>4. Strung(m, w, p[w])
    BY <2>1, <2>2, <2>3 DEF Strung
  <2>5. \A i \in 1 .. l.vector_size[w] : m.data[p[w][i - 1]] = l.data[p[w][i - 1]]
    <3>1. l.vector_size[w] \in Nat
      BY <2>1 DEF Strung
    <3>2. \A i \in 1 .. l.vector_size[w] : i - 1 \in Nat /\ p[w][i - 1] # nullptr
      BY <2>1, <3>1 DEF Strung
    <3>3. QED
      BY <2>2, <3>2
  <2>6. QED
    BY <2>3, <2>4, <2>5 DEF Held
<1> HIDE DEF q
<1>5. \A w \in Vectors : Strung(m, w, q[w])
  BY <1>1, <1>4
<1>6. \A w, u \in Vectors : w # u => NodesOf(q[w]) \cap NodesOf(q[u]) = {}
  <2>1. \A w, u \in Vectors \ {v} : w # u => NodesOf(q[w]) \cap NodesOf(q[u]) = {}
    BY <1>1 DEF Threaded
  <2>2. \A w \in Vectors \ {v} : NodesOf(q[w]) \cap NodesOf(t) = {}
    BY <1>1, <1>3
  <2>3. QED
    BY <1>1, <2>1, <2>2
<1>7. Allocated(m) = NodesOf(t) \cup others
  <2>1. NodesOf(t) \subseteq Nodes /\ others \subseteq Nodes
    BY ThreadNodes DEF Allocated
  <2>2. \A n \in NodesOf(t) : m.next[n] # Freed
    <3>1. \A i \in Nat : t[i + 1] \in 0 .. NODES
      BY DEF Threads
    <3>2. \A i \in Nat : t[i] # nullptr => m.next[t[i]] # Freed
      BY <3>1 DEF Strung, Freed
    <3>3. QED
      BY <3>2 DEF NodesOf
  <2>3. \A n \in others : m.next[n] # Freed
    BY DEF Allocated
  <2>4. QED
    BY <2>1, <2>2, <2>3 DEF Allocated
<1>8. others = UNION {NodesOf(p[w]) : w \in Vectors \ {v}}
  BY <1>2, <1>3
<1>9. Allocated(m) = UNION {NodesOf(q[w]) : w \in Vectors}
  BY <1>1, <1>7, <1>8
<1>10. \A n \in Allocated(m) : m.data[n] \in Values
  BY <1>7 DEF Threaded
<1>11. Threaded(m, q)
  BY <1>1, <1>5, <1>6, <1>9, <1>10 DEF Threaded
<1>12. QED
  BY <1>4, <1>11 DEF q

\* The same, of the contents.
LEMMA RethreadedHolds ==
    ASSUME NEW l, NEW p, Threaded(l, p), NEW v \in Vectors,
           NEW m, NEW t, Rethreads(l, p, v, m, t),
           NEW c, c = [w \in Vectors |-> Held(l, w, p[w])]
    PROVE  Holds(m, [c EXCEPT ![v] = Held(m, v, t)])
<1> DEFINE q == [p EXCEPT ![v] = t]
           d == [c EXCEPT ![v] = Held(m, v, t)]
<1>1. p \in [Vectors -> Threads]
  BY DEF Threaded
<1>2. q[v] = t /\ \A w \in Vectors \ {v} : q[w] = p[w]
  BY <1>1
<1> /\ Threaded(m, q)
    /\ \A w \in Vectors \ {v} : Held(m, w, p[w]) = Held(l, w, p[w])
  BY Rethreaded
<1>3. d = [w \in Vectors |-> Held(m, w, q[w])]
  BY <1>2
<1>4. QED
  BY <1>3 DEF Holds

\* The sequences a state holds are of values, and as long as the counts say.
LEMMA HoldsOK ==
    ASSUME NEW l, NEW c, Holds(l, c)
    PROVE  /\ l \in ListStates
           /\ c \in [Vectors -> Seq(Values)]
           /\ \A v \in Vectors :
                /\ l.vector_size[v] \in 0 .. NODES
                /\ l.vector_size[v] = Len(c[v])
                /\ ContentOf(l, v) = c[v]
                /\ \A i \in 0 .. Len(c[v]) - 1 : get(l, v, i) = c[v][i + 1]
<1>1. PICK p : Threaded(l, p) /\ c = [v \in Vectors |-> Held(l, v, p[v])]
  BY DEF Holds
<1>2. ASSUME NEW v \in Vectors
      PROVE  /\ c[v] \in Seq(Values)
             /\ l.vector_size[v] \in 0 .. NODES
             /\ l.vector_size[v] = Len(c[v])
             /\ ContentOf(l, v) = c[v]
             /\ \A i \in 0 .. Len(c[v]) - 1 : get(l, v, i) = c[v][i + 1]
  <2> DEFINE n == l.vector_size[v]
             t == p[v]
  <2>1. Strung(l, v, t)
    BY <1>1 DEF Threaded
  <2>2. n \in 0 .. NODES /\ n \in Nat
    BY <2>1, FitsNodes
  <2>3. \A i \in Nat : i < n => get(l, v, i) = l.data[t[i]] /\ l.data[t[i]] \in Values
    <3>1. \A i \in Nat : i < n => t[i] # nullptr
      BY <2>1, <2>2 DEF Strung
    <3>2. NodesOf(t) \subseteq Allocated(l)
      BY <1>1, OthersOK
    <3>3. \A i \in Nat : i < n => l.data[t[i]] \in Values
      BY <1>1, <3>1, <3>2 DEF NodesOf, Threaded
    <3>4. QED
      BY <2>1, <3>3, GetOK
  <2>4. c[v] = [i \in 1 .. n |-> l.data[t[i - 1]]]
    BY <1>1 DEF Held
  <2> HIDE DEF n, t
  <2>5. \A i \in 1 .. n : i - 1 \in Nat /\ i - 1 < n
    BY <2>2
  <2>6. c[v] \in [1 .. n -> Values]
    BY <2>3, <2>4, <2>5
  <2>7. c[v] \in Seq(Values) /\ Len(c[v]) = n
    <3>1. c[v] \in Seq(Values)
      BY <2>2, <2>6, SeqDef
    <3>2. Len(c[v]) \in Nat /\ DOMAIN c[v] = 1 .. Len(c[v])
      BY <3>1, LenProperties
    <3>3. DOMAIN c[v] = 1 .. n
      BY <2>6
    <3>4. QED
      BY <2>2, <3>1, <3>2, <3>3
  <2>8. ContentOf(l, v) = [i \in 1 .. n |-> get(l, v, i - 1)]
    BY DEF ContentOf, n
  <2>9. ContentOf(l, v) = c[v]
    BY <2>3, <2>4, <2>5, <2>8
  <2>10. \A i \in 0 .. n - 1 : get(l, v, i) = c[v][i + 1]
    <3>1. \A i \in 0 .. n - 1 : i \in Nat /\ i < n /\ i + 1 \in 1 .. n /\ i + 1 - 1 = i
      BY <2>2
    <3>2. QED
      BY <2>3, <2>4, <3>1
  <2>11. QED
    BY <2>2, <2>7, <2>9, <2>10 DEF n
<1>3. l \in ListStates
  BY <1>1 DEF Threaded
<1>4. QED
  BY <1>1, <1>2, <1>3
\* The list of v becomes the thread t, and holds what t leads along.
LEMMA NowHolds ==
    ASSUME NEW l, NEW p, Threaded(l, p), NEW v \in Vectors,
           NEW m, NEW t, Rethreads(l, p, v, m, t),
           NEW c, c = [w \in Vectors |-> Held(l, w, p[w])],
           NEW s \in Seq(Values), Len(s) = m.vector_size[v],
           \A i \in 1 .. Len(s) : s[i] = m.data[t[i - 1]]
    PROVE  Holds(m, [c EXCEPT ![v] = s])
<1> DEFINE h == Held(m, v, t)
<1>1. Holds(m, [c EXCEPT ![v] = h])
  BY RethreadedHolds
<1>2. [c EXCEPT ![v] = h][v] = h
  OBVIOUS
<1>3. h \in Seq(Values) /\ Len(h) = Len(s)
  <2>1. [c EXCEPT ![v] = h][v] \in Seq(Values)
        /\ m.vector_size[v] = Len([c EXCEPT ![v] = h][v])
    BY <1>1, HoldsOK
  <2>2. QED
    BY <1>2, <2>1
<1>4. \A i \in 1 .. Len(h) : h[i] = s[i]
  BY <1>3 DEF Held
<1> HIDE DEF h
<1>5. h = s
  BY <1>3, <1>4, SeqEqual
<1>6. QED
  BY <1>1, <1>5
-----------------------------------------------------------------------------
(* Stores to the members of a vector and of a node *)

WithHead(l, v, x) == [l EXCEPT !.head[v] = x]
WithNext(l, n, x) == [l EXCEPT !.next[n] = x]
WithNode(l, n, x, d) == [l EXCEPT !.next[n] = x, !.data[n] = d]

LEMMA WithHeadOK ==
    ASSUME NEW l \in ListStates, NEW v \in Vectors, NEW x \in Int
    PROVE  /\ WithHead(l, v, x) \in ListStates
           /\ WithHead(l, v, x).head = [l.head EXCEPT ![v] = x]
           /\ WithHead(l, v, x).vector_size = l.vector_size
           /\ WithHead(l, v, x).next = l.next
           /\ WithHead(l, v, x).data = l.data
  BY DEF ListStates, WithHead

LEMMA WithNextOK ==
    ASSUME NEW l \in ListStates, NEW n \in Nodes, NEW x \in Int
    PROVE  /\ WithNext(l, n, x) \in ListStates
           /\ WithNext(l, n, x).head = l.head
           /\ WithNext(l, n, x).vector_size = l.vector_size
           /\ WithNext(l, n, x).next = [l.next EXCEPT ![n] = x]
           /\ WithNext(l, n, x).data = l.data
  BY DEF ListStates, WithNext

\* A change of the count alone.
LEMMA ResizedOK ==
    ASSUME NEW l \in ListStates, NEW v \in Vectors, NEW d \in Int
    PROVE  /\ Resized(l, v, d) \in ListStates
           /\ Resized(l, v, d).head = l.head
           /\ Resized(l, v, d).next = l.next
           /\ Resized(l, v, d).data = l.data
           /\ Resized(l, v, d).vector_size
                = [l.vector_size EXCEPT ![v] = l.vector_size[v] + d]
<1> DEFINE x == l.vector_size[v] + d
           m == [l EXCEPT !.vector_size[v] = x]
<1>1. x \in Int
  BY DEF ListStates
<1>2. Resized(l, v, d) = m
  BY DEF Resized
<1> HIDE DEF x
<1>3. /\ m \in ListStates
      /\ m.head = l.head /\ m.vector_size = [l.vector_size EXCEPT ![v] = x]
      /\ m.next = l.next /\ m.data = l.data
  BY <1>1 DEF ListStates
<1> HIDE DEF m
<1>4. QED
  BY <1>2, <1>3 DEF x

\* Both members of a node: a new element, and a node that is deleted.
LEMMA WithNodeOK ==
    ASSUME NEW l \in ListStates, NEW n \in Nodes,
           NEW x \in Int, NEW d \in Values \cup {Freed}
    PROVE  /\ WithNode(l, n, x, d) \in ListStates
           /\ WithNode(l, n, x, d).head = l.head
           /\ WithNode(l, n, x, d).vector_size = l.vector_size
           /\ WithNode(l, n, x, d).next = [l.next EXCEPT ![n] = x]
           /\ WithNode(l, n, x, d).data = [l.data EXCEPT ![n] = d]
<1> DEFINE k == [l EXCEPT !.next[n] = x]
           m == [k EXCEPT !.data[n] = d]
<1>1. WithNode(l, n, x, d) = m
  BY DEF WithNode
<1>2. /\ k \in ListStates
      /\ k.head = l.head /\ k.vector_size = l.vector_size
      /\ k.next = [l.next EXCEPT ![n] = x] /\ k.data = l.data
  BY DEF ListStates
<1> HIDE DEF k
<1>3. /\ m \in ListStates
      /\ m.head = k.head /\ m.vector_size = k.vector_size
      /\ m.next = k.next /\ m.data = [k.data EXCEPT ![n] = d]
  BY <1>2 DEF ListStates
<1> HIDE DEF m
<1>4. QED
  BY <1>1, <1>2, <1>3

LEMMA DeleteOK ==
    ASSUME NEW l \in ListStates, NEW n \in Nodes
    PROVE  /\ delete(l, n) \in ListStates
           /\ delete(l, n).head = l.head
           /\ delete(l, n).vector_size = l.vector_size
           /\ delete(l, n).next = [l.next EXCEPT ![n] = Freed]
           /\ delete(l, n).data = [l.data EXCEPT ![n] = Freed]
<1>1. Freed \in Int /\ Freed \in Values \cup {Freed}
  BY DEF Freed
<1>2. delete(l, n) = WithNode(l, n, Freed, Freed)
  BY DEF delete, WithNode
<1>3. QED
  BY <1>1, <1>2, WithNodeOK

-----------------------------------------------------------------------------
(* append *)

LEMMA NewNodeOK ==
    ASSUME NEW l, FreeNodes(l) # {}
    PROVE  new_node(l) \in Nodes /\ new_node(l) \notin Allocated(l)
<1>1. FreeNodes(l) \in SUBSET Nat
  BY VectorAssumption DEF FreeNodes, Nodes
<1>2. \E n \in FreeNodes(l) : \A m \in FreeNodes(l) : n <= m
  BY <1>1, Smallest
<1>3. new_node(l) \in FreeNodes(l)
  BY <1>2 DEF new_node
<1>4. QED
  BY <1>3 DEF FreeNodes

\* What append changes: the node n comes behind the last one.
LEMMA AppendFields ==
    ASSUME NEW l \in ListStates, NEW v \in Vectors, NEW d \in Values, NEW n \in Nodes,
           n = new_node(l), NEW t, Strung(l, v, t), n \notin NodesOf(t),
           NEW k, k = l.vector_size[v]
    PROVE  LET m == append(l, v, d)
           IN  /\ m \in ListStates
               /\ m.vector_size = [l.vector_size EXCEPT ![v] = k + 1]
               /\ m.data = [l.data EXCEPT ![n] = d]
               /\ m.head = IF k = 0 THEN [l.head EXCEPT ![v] = n] ELSE l.head
               /\ m.next = IF k = 0 THEN [l.next EXCEPT ![n] = nullptr]
                           ELSE [l.next EXCEPT ![n] = nullptr, ![t[k - 1]] = n]
<1> DEFINE linked == WithNode(l, n, nullptr, d)
           m == append(l, v, d)
<1>1. /\ linked \in ListStates
      /\ linked.head = l.head /\ linked.vector_size = l.vector_size
      /\ linked.next = [l.next EXCEPT ![n] = nullptr]
      /\ linked.data = [l.data EXCEPT ![n] = d]
  <2>1. nullptr \in Int /\ d \in Values \cup {Freed}
    BY DEF nullptr
  <2>2. QED
    BY <2>1, WithNodeOK
<1>2. m = append_node(linked, v, n)
  BY DEF append, WithNode
<1> HIDE DEF linked, m
<1>3. k \in Nat /\ (l.head[v] = nullptr) = (k = 0)
  BY DEF Strung
<1>4. n \in Int
  BY VectorAssumption DEF Nodes
<1>5. CASE k = 0
  <2> DEFINE first == WithHead(linked, v, n)
  <2>1. m = Resized(first, v, 1)
    BY <1>1, <1>2, <1>3, <1>5 DEF append_node, WithHead
  <2>2. /\ first \in ListStates
        /\ first.head = [linked.head EXCEPT ![v] = n]
        /\ first.vector_size = linked.vector_size
        /\ first.next = linked.next /\ first.data = linked.data
    BY <1>1, <1>4, WithHeadOK
  <2> HIDE DEF first
  <2>3. /\ m \in ListStates
        /\ m.head = first.head /\ m.next = first.next /\ m.data = first.data
        /\ m.vector_size = [first.vector_size EXCEPT ![v] = first.vector_size[v] + 1]
    BY <2>1, <2>2, ResizedOK
  <2>4. QED
    BY <1>1, <1>5, <2>2, <2>3 DEF m
<1>6. CASE k # 0
  <2>1. Strung(linked, v, t)
    <3>1. \A i \in Nat : t[i] # nullptr => t[i] # n
      BY DEF NodesOf
    <3>2. l.next \in [Nodes -> Int]
      BY DEF ListStates
    <3>3. \A i \in Nat : t[i] # nullptr => linked.next[t[i]] = l.next[t[i]]
      BY <1>1, <3>1, <3>2, ThreadNodes DEF Strung, NodesOf
    <3>4. QED
      BY <1>1, <3>3 DEF Strung
  <2>2. LastNode(linked, v) = t[k - 1]
    BY <1>1, <1>6, <2>1, LastNodeOK
  <2>3. PICK a : a = t[k - 1]
    OBVIOUS
  <2>4. a \in Nodes
    <3>1. k - 1 \in Nat /\ t[k - 1] # nullptr
      BY <1>3, <1>6 DEF Strung
    <3>2. QED
      BY <2>3, <3>1, ThreadNodes DEF NodesOf, Strung
  <2> DEFINE behind == WithNext(linked, a, n)
  <2>5. m = Resized(behind, v, 1)
    BY <1>1, <1>2, <1>3, <1>6, <2>2, <2>3 DEF append_node, WithNext
  <2>6. /\ behind \in ListStates
        /\ behind.head = linked.head
        /\ behind.vector_size = linked.vector_size
        /\ behind.next = [linked.next EXCEPT ![a] = n] /\ behind.data = linked.data
    BY <1>1, <1>4, <2>4, WithNextOK
  <2> HIDE DEF behind
  <2>7. [linked.next EXCEPT ![a] = n] = [l.next EXCEPT ![n] = nullptr, ![t[k - 1]] = n]
    BY <1>1, <2>3
  <2>8. QED
    BY <1>1, <1>6, <2>5, <2>6, <2>7, ResizedOK DEF m
<1>7. QED
  BY <1>3, <1>5, <1>6 DEF m
\* append puts its element behind what the list holds.
LEMMA AppendOK ==
    ASSUME NEW l, NEW c, Holds(l, c), NEW v \in Vectors, NEW d \in Values,
           FreeNodes(l) # {}
    PROVE  /\ Holds(append(l, v, d), [c EXCEPT ![v] = Append(c[v], d)])
           /\ \E n \in FreeNodes(l) : FreeNodes(append(l, v, d)) = FreeNodes(l) \ {n}
<1>1. PICK p : Threaded(l, p) /\ c = [w \in Vectors |-> Held(l, w, p[w])]
  BY DEF Holds
<1>2. PICK n : n = new_node(l)
  OBVIOUS
<1>3. n \in Nodes /\ n \notin Allocated(l)
  BY <1>2, NewNodeOK
<1>4. PICK k : k = l.vector_size[v]
  OBVIOUS
<1>5. PICK m : m = append(l, v, d)
  OBVIOUS
<1>6. PICK u : u = p[v]
  OBVIOUS
<1>7. l \in ListStates /\ Strung(l, v, u) /\ k \in Nat /\ u \in Threads
  BY <1>1, <1>4, <1>6 DEF Threaded, Strung
<1>8. n \notin NodesOf(u) /\ NodesOf(u) \subseteq Allocated(l)
  BY <1>1, <1>3, <1>6, OthersOK
<1>9. /\ m \in ListStates
      /\ m.vector_size = [l.vector_size EXCEPT ![v] = k + 1]
      /\ m.data = [l.data EXCEPT ![n] = d]
      /\ m.head = IF k = 0 THEN [l.head EXCEPT ![v] = n] ELSE l.head
      /\ m.next = IF k = 0 THEN [l.next EXCEPT ![n] = nullptr]
                  ELSE [l.next EXCEPT ![n] = nullptr, ![u[k - 1]] = n]
  BY <1>2, <1>3, <1>4, <1>5, <1>7, <1>8, AppendFields
<1>10. /\ l.next \in [Nodes -> Int] /\ l.data \in [Nodes -> Values \cup {Freed}]
       /\ l.head \in [Vectors -> Int] /\ l.vector_size \in [Vectors -> Int]
  BY <1>7 DEF ListStates
<1>11. PICK t : t = [u EXCEPT ![k] = n]
  OBVIOUS
<1>12. /\ t \in Threads
       /\ t[k] = n /\ \A i \in Nat \ {k} : t[i] = u[i]
       /\ n # nullptr
  BY <1>3, <1>7, <1>11, VectorAssumption DEF Threads, Nodes, nullptr
<1>13. \A i \in Nat : u[i] # nullptr => u[i] # n /\ u[i] \in Nodes /\ i < k
  BY <1>4, <1>7, <1>8, ThreadNodes DEF NodesOf, Strung
<1>14. \A i \in Nat : i < k => u[i] # nullptr
  BY <1>4, <1>7 DEF Strung
<1>15. NodesOf(t) = NodesOf(u) \cup {n}
  <2>1. u[k] = nullptr
    BY <1>4, <1>7 DEF Strung
  <2>2. QED
    BY <1>7, <1>12, <2>1 DEF NodesOf
<1>16. m.next[n] = nullptr
  <2>1. k # 0 => u[k - 1] # n
    BY <1>7, <1>13, <1>14
  <2>2. QED
    BY <1>3, <1>9, <1>10, <2>1
<1>17. k # 0 => m.next[u[k - 1]] = n
  BY <1>7, <1>9, <1>10, <1>13, <1>14
<1>18. \A a \in Nodes : a # n /\ (k # 0 => a # u[k - 1]) => m.next[a] = l.next[a]
  BY <1>9, <1>10
<1>19. Strung(m, v, t)
  <2>1. m.head[v] = t[0]
    <3>1. CASE k = 0
      BY <1>9, <1>10, <1>12, <3>1
    <3>2. CASE k # 0
      BY <1>7, <1>9, <1>12, <3>2 DEF Strung
    <3>3. QED
      BY <3>1, <3>2
  <2>2. m.vector_size[v] = k + 1
    BY <1>9, <1>10
  <2>3. \A i \in Nat : (t[i] = nullptr) = (i >= k + 1)
    <3>1. \A i \in Nat : (u[i] = nullptr) = (i >= k)
      BY <1>4, <1>7 DEF Strung
    <3>2. QED
      BY <1>7, <1>12, <3>1
  <2>4. ASSUME NEW i \in Nat, t[i] # nullptr PROVE m.next[t[i]] = t[i + 1]
    <3>1. i <= k
      BY <1>7, <2>3, <2>4
    <3>2. CASE i = k
      BY <1>7, <1>12, <1>16, <2>3, <3>2
    <3>3. CASE i + 1 = k
      BY <1>7, <1>12, <1>17, <3>3
    <3>4. CASE i + 1 < k
      <4>1. u[i] # nullptr /\ t[i] = u[i] /\ t[i + 1] = u[i + 1]
        BY <1>7, <1>12, <1>14, <3>4
      <4>2. u[i] \in Nodes /\ u[i] # n
        BY <1>13, <4>1
      <4>3. u[i] # u[k - 1]
        BY <1>7, <3>4, <4>1 DEF Strung
      <4>4. l.next[u[i]] = u[i + 1]
        BY <1>7, <4>1 DEF Strung
      <4>5. QED
        BY <1>18, <4>1, <4>2, <4>3, <4>4
    <3>5. QED
      BY <1>7, <3>1, <3>2, <3>3, <3>4
  <2>5. \A i, j \in Nat : t[i] # nullptr /\ t[i] = t[j] => i = j
    BY <1>7, <1>12, <1>13 DEF Strung
  <2>6. QED
    BY <1>7, <1>12, <2>1, <2>2, <2>3, <2>4, <2>5 DEF Strung
<1>20. \A w \in Vectors \ {v} :
         m.head[w] = l.head[w] /\ m.vector_size[w] = l.vector_size[w]
  BY <1>9, <1>10
<1>21. \A a \in Allocated(l) \ NodesOf(p[v]) :
         a \notin NodesOf(t) /\ m.next[a] = l.next[a] /\ m.data[a] = l.data[a]
  <2>1. \A a \in Allocated(l) \ NodesOf(p[v]) : a \in Nodes /\ a # n /\ a \notin NodesOf(u)
    BY <1>3, <1>6 DEF Allocated
  <2>2. k # 0 => u[k - 1] \in NodesOf(u)
    BY <1>7, <1>14 DEF NodesOf
  <2>3. QED
    BY <1>9, <1>10, <1>15, <1>18, <2>1, <2>2
<1>22. \A a \in Nodes : \/ a \in NodesOf(t)
                        \/ a \in Allocated(l) \ NodesOf(p[v])
                        \/ m.next[a] = Freed
  <2>1. \A a \in Nodes : a \in Allocated(l) \/ l.next[a] = Freed
    BY DEF Allocated
  <2>2. \A a \in Nodes : a \notin NodesOf(t) => m.next[a] = l.next[a]
    <3>1. k # 0 => u[k - 1] \in NodesOf(u)
      BY <1>7, <1>14 DEF NodesOf
    <3>2. QED
      BY <1>15, <1>18, <3>1
  <2>3. QED
    BY <1>6, <1>15, <2>1, <2>2
<1>23. \A a \in NodesOf(t) : m.data[a] \in Values
  <2>1. \A a \in NodesOf(u) : a \in Nodes /\ l.data[a] \in Values
    BY <1>1, <1>8 DEF Threaded, Allocated
  <2>2. QED
    BY <1>3, <1>9, <1>10, <1>15, <2>1
<1>24. Rethreads(l, p, v, m, t)
  BY <1>9, <1>19, <1>20, <1>21, <1>22, <1>23 DEF Rethreads
<1>25. c[v] \in Seq(Values) /\ Len(c[v]) = k
  BY <1>4, HoldsOK
<1>26. PICK s : s = Append(c[v], d)
  OBVIOUS
<1>27. /\ s \in Seq(Values) /\ Len(s) = k + 1
       /\ \A i \in 1 .. k : s[i] = c[v][i]
       /\ s[k + 1] = d
  BY <1>25, <1>26, AppendProperties
<1>28. \A i \in 1 .. k + 1 : s[i] = m.data[t[i - 1]]
  <2> SUFFICES ASSUME NEW i \in 1 .. k + 1 PROVE s[i] = m.data[t[i - 1]]
    OBVIOUS
  <2>1. CASE i = k + 1
    <3>1. i - 1 = k /\ m.data[n] = d
      BY <1>3, <1>7, <1>9, <1>10, <2>1
    <3>2. QED
      BY <1>12, <1>27, <2>1, <3>1
  <2>2. CASE i # k + 1
    <3>1. i \in 1 .. k /\ i - 1 \in Nat /\ i - 1 < k
      BY <1>7, <2>2
    <3>2. u[i - 1] \in Nodes /\ u[i - 1] # n /\ t[i - 1] = u[i - 1]
      BY <1>7, <1>12, <1>13, <1>14, <3>1
    <3>3. m.data[u[i - 1]] = l.data[u[i - 1]]
      BY <1>9, <1>10, <3>2
    <3>4. c[v][i] = l.data[u[i - 1]]
      BY <1>1, <1>4, <1>6, <3>1 DEF Held
    <3>5. QED
      BY <1>27, <3>1, <3>2, <3>3, <3>4
  <2>3. QED
    BY <2>1, <2>2
<1>29. m.vector_size[v] = k + 1
  BY <1>9, <1>10
<1>30. Holds(m, [c EXCEPT ![v] = s])
  BY <1>1, <1>24, <1>27, <1>28, <1>29, NowHolds
<1>31. n \in FreeNodes(l) /\ FreeNodes(m) = FreeNodes(l) \ {n}
  <2>1. \A a \in Nodes \ {n} : (m.next[a] = Freed) = (l.next[a] = Freed)
    <3>1. k # 0 => m.next[u[k - 1]] # Freed /\ l.next[u[k - 1]] # Freed
      <4> SUFFICES ASSUME k # 0
                   PROVE  m.next[u[k - 1]] # Freed /\ l.next[u[k - 1]] # Freed
        OBVIOUS
      <4>1. u[k - 1] \in Allocated(l)
        BY <1>7, <1>8, <1>14 DEF NodesOf
      <4>2. n # Freed
        BY <1>3, VectorAssumption DEF Nodes, Freed
      <4>3. QED
        BY <1>17, <4>1, <4>2 DEF Allocated
    <3>2. QED
      BY <1>18, <3>1
  <2>2. m.next[n] # Freed /\ l.next[n] = Freed
    BY <1>3, <1>16 DEF Allocated, nullptr, Freed
  <2>3. QED
    BY <1>3, <2>1, <2>2 DEF FreeNodes, Allocated
<1>32. QED
  BY <1>5, <1>26, <1>30, <1>31
-----------------------------------------------------------------------------
(* remove, pop_back *)

\* A node is cut out of the list of v: what remove and pop_back come to.
IsCut(l, v, u, j, m) ==
    LET k == l.vector_size[v]
    IN  /\ m \in ListStates
        /\ m.vector_size = [l.vector_size EXCEPT ![v] = k - 1]
        /\ m.data = [l.data EXCEPT ![u[j]] = Freed]
        /\ m.head = IF j = 0 THEN [l.head EXCEPT ![v] = u[1]] ELSE l.head
        /\ m.next = IF j = 0 THEN [l.next EXCEPT ![u[j]] = Freed]
                    ELSE [l.next EXCEPT ![u[j - 1]] = u[j + 1], ![u[j]] = Freed]

LEMMA CutHolds ==
    ASSUME NEW l, NEW p, Threaded(l, p), NEW v \in Vectors,
           NEW c, c = [w \in Vectors |-> Held(l, w, p[w])],
           NEW k, k = l.vector_size[v], NEW j \in Nat, j < k,
           NEW m, IsCut(l, v, p[v], j, m),
           NEW s \in Seq(Values), Len(s) = k - 1,
           \A i \in 1 .. k - 1 : s[i] = IF i <= j THEN c[v][i] ELSE c[v][i + 1]
    PROVE  Holds(m, [c EXCEPT ![v] = s])
<1>1. PICK u : u = p[v]
  OBVIOUS
<1>2. l \in ListStates /\ Strung(l, v, u) /\ k \in Nat /\ u \in Threads
  BY <1>1 DEF Threaded, Strung
<1>3. /\ l.next \in [Nodes -> Int] /\ l.data \in [Nodes -> Values \cup {Freed}]
      /\ l.head \in [Vectors -> Int] /\ l.vector_size \in [Vectors -> Int]
  BY <1>2 DEF ListStates
<1>4. PICK a : a = u[j]
  OBVIOUS
<1>5. /\ m \in ListStates
      /\ m.vector_size = [l.vector_size EXCEPT ![v] = k - 1]
      /\ m.data = [l.data EXCEPT ![a] = Freed]
      /\ m.head = IF j = 0 THEN [l.head EXCEPT ![v] = u[1]] ELSE l.head
      /\ m.next = IF j = 0 THEN [l.next EXCEPT ![a] = Freed]
                  ELSE [l.next EXCEPT ![u[j - 1]] = u[j + 1], ![a] = Freed]
  BY <1>1, <1>4 DEF IsCut
<1>6. \A i \in Nat : i < k => u[i] \in Nodes /\ u[i] # nullptr /\ u[i] \in NodesOf(u)
  <2>1. \A i \in Nat : i < k => u[i] # nullptr
    BY <1>2 DEF Strung
  <2>2. QED
    BY <1>2, <2>1, ThreadNodes DEF NodesOf
<1>7. a \in Nodes /\ a \in NodesOf(u)
  BY <1>4, <1>6
<1>8. \A i \in Nat : i < k /\ i # j => u[i] # a
  BY <1>2, <1>4, <1>6 DEF Strung
<1>9. PICK t : t = [i \in Nat |-> IF i < j THEN u[i] ELSE u[i + 1]]
  OBVIOUS
<1>10. t \in Threads
  <2>1. \A i \in Nat : u[i] \in 0 .. NODES
    BY <1>2 DEF Threads
  <2>2. \A i \in Nat : i + 1 \in Nat
    OBVIOUS
  <2>3. QED
    BY <1>9, <2>1, <2>2 DEF Threads
<1>11. \A i \in Nat : t[i] = IF i < j THEN u[i] ELSE u[i + 1]
  BY <1>9
<1>12. NodesOf(t) = NodesOf(u) \ {a}
  <2>1. \A i \in Nat : u[i] # nullptr => i < k
    BY <1>2 DEF Strung
  <2>2. ASSUME NEW n \in NodesOf(t) PROVE n \in NodesOf(u) \ {a}
    <3>1. PICK i \in Nat : n = t[i] /\ n # nullptr
      BY DEF NodesOf
    <3>2. PICK h \in Nat : n = u[h] /\ h # j
      <4>1. CASE i < j
        BY <1>11, <3>1, <4>1
      <4>2. CASE ~ (i < j)
        <5>1. i + 1 \in Nat /\ i + 1 # j
          BY <4>2
        <5>2. QED
          BY <1>11, <3>1, <4>2, <5>1
      <4>3. QED
        BY <4>1, <4>2
    <3>3. QED
      BY <1>8, <2>1, <3>1, <3>2 DEF NodesOf
  <2>3. ASSUME NEW n \in NodesOf(u) \ {a} PROVE n \in NodesOf(t)
    <3>1. PICK i \in Nat : n = u[i] /\ n # nullptr
      BY DEF NodesOf
    <3>2. i # j
      BY <1>4, <3>1
    <3>3. \E h \in Nat : t[h] = n
      <4>1. CASE i < j
        BY <1>11, <3>1, <4>1
      <4>2. CASE i > j
        <5>1. i - 1 \in Nat /\ ~ (i - 1 < j) /\ i - 1 + 1 = i
          BY <4>2
        <5>2. QED
          BY <1>11, <3>1, <5>1
      <4>3. QED
        BY <3>2, <4>1, <4>2
    <3>4. QED
      BY <3>1, <3>3 DEF NodesOf
  <2>4. QED
    BY <2>2, <2>3
<1>13. m.next[a] = Freed
  BY <1>3, <1>5, <1>7
<1>14. j # 0 => j - 1 \in Nat /\ j - 1 < k /\ u[j - 1] # a /\ m.next[u[j - 1]] = u[j + 1]
  <2> SUFFICES ASSUME j # 0
               PROVE  j - 1 \in Nat /\ j - 1 < k /\ u[j - 1] # a
                      /\ m.next[u[j - 1]] = u[j + 1]
    OBVIOUS
  <2>1. j - 1 \in Nat /\ j - 1 < k /\ j - 1 # j
    BY <1>2
  <2>2. u[j - 1] \in Nodes /\ u[j - 1] # a
    BY <1>6, <1>8, <2>1
  <2>3. QED
    BY <1>3, <1>5, <2>1, <2>2
<1>15. \A n \in Nodes : n # a /\ (j # 0 => n # u[j - 1]) => m.next[n] = l.next[n]
  BY <1>3, <1>5
<1>16. Strung(m, v, t)
  <2>1. m.head[v] = t[0]
    <3>1. CASE j = 0
      <4>1. 0 \in Nat /\ ~ (0 < j) /\ 0 + 1 = 1
        BY <3>1
      <4>2. t[0] = u[0 + 1]
        BY <1>11, <4>1
      <4>3. t[0] = u[1]
        BY <4>1, <4>2
      <4>4. m.head = [l.head EXCEPT ![v] = u[1]]
        BY <1>5, <3>1
      <4>5. QED
        BY <1>3, <4>3, <4>4
    <3>2. CASE j # 0
      BY <1>2, <1>5, <1>11, <3>2 DEF Strung
    <3>3. QED
      BY <3>1, <3>2
  <2>2. m.vector_size[v] = k - 1 /\ k - 1 \in Nat
    BY <1>2, <1>3, <1>5
  <2>3. \A i \in Nat : (t[i] = nullptr) = (i >= k - 1)
    <3>1. \A i \in Nat : (u[i] = nullptr) = (i >= k)
      BY <1>2 DEF Strung
    <3> SUFFICES ASSUME NEW i \in Nat PROVE (t[i] = nullptr) = (i >= k - 1)
      OBVIOUS
    <3>2. CASE i < j
      <4>1. t[i] = u[i]
        BY <1>11, <3>2
      <4>2. ~ (i >= k) /\ ~ (i >= k - 1)
        BY <1>2, <3>2
      <4>3. QED
        BY <3>1, <4>1, <4>2
    <3>3. CASE ~ (i < j)
      <4>1. i + 1 \in Nat /\ (i + 1 >= k) = (i >= k - 1)
        BY <1>2
      <4>2. QED
        BY <1>11, <3>1, <3>3, <4>1
    <3>4. QED
      BY <3>2, <3>3
  <2>4. ASSUME NEW i \in Nat, t[i] # nullptr PROVE m.next[t[i]] = t[i + 1]
    <3>1. i < k - 1
      BY <2>2, <2>3, <2>4
    <3>2. \A h \in Nat : h < k /\ h # j /\ (j # 0 => h # j - 1) => m.next[u[h]] = u[h + 1]
      <4> SUFFICES ASSUME NEW h \in Nat, h < k, h # j, j # 0 => h # j - 1
                   PROVE  m.next[u[h]] = u[h + 1]
        OBVIOUS
      <4>1. u[h] \in Nodes /\ u[h] # nullptr /\ u[h] # a
        BY <1>6, <1>8
      <4>2. j # 0 => u[h] # u[j - 1]
        BY <1>2, <1>14, <4>1 DEF Strung
      <4>3. QED
        BY <1>2, <1>15, <4>1, <4>2 DEF Strung
    <3>3. CASE i + 1 < j
      <4>1. i < j /\ i < k /\ i # j /\ i # j - 1 /\ i + 1 \in Nat
        BY <1>2, <3>1, <3>3
      <4>2. t[i] = u[i] /\ t[i + 1] = u[i + 1]
        BY <1>11, <3>3, <4>1
      <4>3. QED
        BY <3>2, <4>1, <4>2
    <3>4. CASE i + 1 = j
      <4>1. i = j - 1 /\ j # 0 /\ i < j /\ ~ (j < j)
        BY <3>4
      <4>2. t[i] = u[j - 1] /\ t[i + 1] = u[j + 1]
        BY <1>11, <3>4, <4>1
      <4>3. QED
        BY <1>14, <4>1, <4>2
    <3>5. CASE i >= j
      <4>1. i + 1 \in Nat /\ i + 1 < k /\ i + 1 # j /\ (j # 0 => i + 1 # j - 1)
            /\ ~ (i < j) /\ ~ (i + 1 < j)
        BY <1>2, <3>1, <3>5
      <4>2. t[i] = u[i + 1] /\ t[i + 1] = u[i + 1 + 1]
        BY <1>11, <4>1
      <4>3. QED
        BY <3>2, <4>1, <4>2
    <3>6. QED
      BY <3>3, <3>4, <3>5
  <2>5. ASSUME NEW i \in Nat, NEW h \in Nat, t[i] # nullptr, t[i] = t[h] PROVE i = h
    <3>1. \A f, g \in Nat : u[f] # nullptr /\ u[f] = u[g] => f = g
      BY <1>2 DEF Strung
    <3> DEFINE at(f) == IF f < j THEN f ELSE f + 1
    <3>2. at(i) \in Nat /\ at(h) \in Nat /\ t[i] = u[at(i)] /\ t[h] = u[at(h)]
      <4>1. i + 1 \in Nat /\ h + 1 \in Nat
        OBVIOUS
      <4>2. t[i] = (IF i < j THEN u[i] ELSE u[i + 1]) /\ t[h] = (IF h < j THEN u[h] ELSE u[h + 1])
        BY <1>11
      <4>3. t[i] = u[at(i)] /\ t[h] = u[at(h)]
        BY <4>2
      <4>4. at(i) \in Nat /\ at(h) \in Nat
        BY <4>1
      <4>5. QED
        BY <4>3, <4>4
    <3>3. at(i) = at(h)
      BY <2>5, <3>1, <3>2
    <3>4. QED
      BY <3>3
  <2>6. QED
    BY <1>10, <2>1, <2>2, <2>3, <2>4, <2>5 DEF Strung
<1>17. \A w \in Vectors \ {v} :
         m.head[w] = l.head[w] /\ m.vector_size[w] = l.vector_size[w]
  BY <1>3, <1>5
<1>18. \A n \in Allocated(l) \ NodesOf(p[v]) :
         n \notin NodesOf(t) /\ m.next[n] = l.next[n] /\ m.data[n] = l.data[n]
  <2>1. \A n \in Allocated(l) \ NodesOf(p[v]) : n \in Nodes /\ n # a /\ n \notin NodesOf(u)
    BY <1>1, <1>7 DEF Allocated
  <2>2. j # 0 => u[j - 1] \in NodesOf(u)
    BY <1>6, <1>14
  <2>3. QED
    BY <1>3, <1>5, <1>12, <1>15, <2>1, <2>2
<1>19. \A n \in Nodes : \/ n \in NodesOf(t)
                        \/ n \in Allocated(l) \ NodesOf(p[v])
                        \/ m.next[n] = Freed
  <2>1. \A n \in Nodes : n \in Allocated(l) \/ l.next[n] = Freed
    BY DEF Allocated
  <2>2. \A n \in Nodes : n \notin NodesOf(u) => m.next[n] = l.next[n]
    <3>1. j # 0 => u[j - 1] \in NodesOf(u)
      BY <1>6, <1>14
    <3>2. QED
      BY <1>7, <1>15, <3>1
  <2>3. QED
    BY <1>1, <1>12, <1>13, <2>1, <2>2
<1>20. \A n \in NodesOf(t) : n # a /\ n \in Nodes /\ l.data[n] \in Values
  <2>1. NodesOf(u) \subseteq Allocated(l)
    BY <1>1, OthersOK
  <2>2. QED
    BY <1>12, <2>1 DEF Threaded, Allocated
<1>21. \A n \in NodesOf(t) : m.data[n] \in Values
  BY <1>3, <1>5, <1>20
<1>22. Rethreads(l, p, v, m, t)
  BY <1>5, <1>16, <1>17, <1>18, <1>19, <1>21 DEF Rethreads
<1>23. m.vector_size[v] = k - 1
  BY <1>3, <1>5
<1>24. \A i \in 1 .. k : c[v][i] = l.data[u[i - 1]]
  BY <1>1 DEF Held
<1>25. ASSUME NEW i \in 1 .. k - 1 PROVE s[i] = m.data[t[i - 1]]
  <2>1. \A h \in Nat : h < k /\ h # j => m.data[u[h]] = l.data[u[h]]
    BY <1>3, <1>5, <1>6, <1>8
  <2>2. CASE i <= j
    <3>1. i - 1 \in Nat /\ i - 1 < j /\ i - 1 < k /\ i - 1 # j /\ i \in 1 .. k
      BY <1>2, <2>2
    <3>2. QED
      BY <1>11, <1>24, <2>1, <2>2, <3>1
  <2>3. CASE ~ (i <= j)
    <3>1. i - 1 \in Nat /\ ~ (i - 1 < j) /\ i < k /\ i # j /\ i \in Nat
          /\ i + 1 \in 1 .. k /\ i - 1 + 1 = i /\ i + 1 - 1 = i
      BY <1>2, <2>3
    <3>2. QED
      BY <1>11, <1>24, <2>1, <2>3, <3>1
  <2>4. QED
    BY <2>2, <2>3
<1>26. QED
  BY <1>22, <1>23, <1>25, NowHolds
LEMMA RemoveFields ==
    ASSUME NEW l \in ListStates, NEW v \in Vectors, NEW u, Strung(l, v, u),
           NEW j \in Nat, j < l.vector_size[v]
    PROVE  IsCut(l, v, u, j, remove(l, v, j))
<1>1. PICK m : m = remove(l, v, j)
  OBVIOUS
<1>2. PICK a : a = u[j]
  OBVIOUS
<1>3. l.vector_size[v] \in Nat
  BY DEF Strung
<1>4. get_node(l, v, j) = a
  BY <1>2, GetOK
<1>5. a \in Nodes /\ a # nullptr
  <2>1. u[j] # nullptr
    BY <1>3 DEF Strung
  <2>2. QED
    BY <1>2, <2>1, ThreadNodes DEF NodesOf, Strung
<1>6. l.next[a] = u[j + 1]
  BY <1>2, <1>5 DEF Strung
<1>7. u[j + 1] \in Int
  <2>1. j + 1 \in Nat
    OBVIOUS
  <2>2. QED
    BY <2>1 DEF Strung, Threads
<1>8. CASE j = 0
  <2>1. PICK h : h = WithHead(l, v, u[j + 1])
    OBVIOUS
  <2>2. m = Resized(delete(h, a), v, -1)
    BY <1>1, <1>4, <1>6, <1>8, <2>1 DEF remove, WithHead
  <2>3. /\ h \in ListStates
        /\ h.head = [l.head EXCEPT ![v] = u[j + 1]] /\ h.vector_size = l.vector_size
        /\ h.next = l.next /\ h.data = l.data
    BY <1>7, <2>1, WithHeadOK
  <2>4. PICK d : d = delete(h, a)
    OBVIOUS
  <2>5. /\ d \in ListStates
        /\ d.head = h.head /\ d.vector_size = h.vector_size
        /\ d.next = [h.next EXCEPT ![a] = Freed] /\ d.data = [h.data EXCEPT ![a] = Freed]
    BY <1>5, <2>3, <2>4, DeleteOK
  <2>6. /\ m \in ListStates
        /\ m.head = d.head /\ m.next = d.next /\ m.data = d.data
        /\ m.vector_size = [d.vector_size EXCEPT ![v] = d.vector_size[v] + (-1)]
    BY <2>2, <2>4, <2>5, ResizedOK
  <2>7. d.vector_size[v] + (-1) = l.vector_size[v] - 1
    BY <1>3, <2>3, <2>5
  <2>8. j + 1 = 1
    BY <1>8
  <2>9. QED
    BY <1>1, <1>2, <1>8, <2>3, <2>5, <2>6, <2>7, <2>8 DEF IsCut
<1>9. CASE j # 0
  <2>1. PICK b : b = u[j - 1]
    OBVIOUS
  <2>2. j - 1 \in Nat /\ j - 1 < l.vector_size[v]
    BY <1>3, <1>9
  <2>3. get_node(l, v, j - 1) = b
    BY <2>1, <2>2, GetOK
  <2>4. b \in Nodes
    <3>1. u[j - 1] # nullptr
      BY <1>3, <2>2 DEF Strung
    <3>2. QED
      BY <2>1, <2>2, <3>1, ThreadNodes DEF NodesOf, Strung
  <2>5. PICK h : h = WithNext(l, b, u[j + 1])
    OBVIOUS
  <2>6. m = Resized(delete(h, a), v, -1)
    BY <1>1, <1>4, <1>6, <1>9, <2>3, <2>5 DEF remove, WithNext
  <2>7. /\ h \in ListStates
        /\ h.head = l.head /\ h.vector_size = l.vector_size
        /\ h.next = [l.next EXCEPT ![b] = u[j + 1]] /\ h.data = l.data
    BY <1>7, <2>4, <2>5, WithNextOK
  <2>8. PICK d : d = delete(h, a)
    OBVIOUS
  <2>9. /\ d \in ListStates
        /\ d.head = h.head /\ d.vector_size = h.vector_size
        /\ d.next = [h.next EXCEPT ![a] = Freed] /\ d.data = [h.data EXCEPT ![a] = Freed]
    BY <1>5, <2>7, <2>8, DeleteOK
  <2>10. /\ m \in ListStates
         /\ m.head = d.head /\ m.next = d.next /\ m.data = d.data
         /\ m.vector_size = [d.vector_size EXCEPT ![v] = d.vector_size[v] + (-1)]
    BY <2>6, <2>8, <2>9, ResizedOK
  <2>11. d.vector_size[v] + (-1) = l.vector_size[v] - 1
    BY <1>3, <2>7, <2>9
  <2>12. m.next = [l.next EXCEPT ![u[j - 1]] = u[j + 1], ![u[j]] = Freed]
    BY <1>2, <2>1, <2>7, <2>9, <2>10
  <2>13. QED
    BY <1>1, <1>2, <1>9, <2>7, <2>9, <2>10, <2>11, <2>12 DEF IsCut
<1>10. QED
  BY <1>8, <1>9

\* pop_back of a list of more than one node cuts out the last.
LEMMA PopBackFields ==
    ASSUME NEW l \in ListStates, NEW v \in Vectors, NEW u, Strung(l, v, u),
           NEW k, k = l.vector_size[v], k > 1
    PROVE  IsCut(l, v, u, k - 1, pop_back(l, v))
<1>1. k \in Nat
  BY DEF Strung
<1>2. PICK a : a = u[k - 1]
  OBVIOUS
<1>3. PICK b : b = u[k - 2]
  OBVIOUS
<1>4. k - 1 \in Nat /\ k - 2 \in Nat /\ k - 1 < k /\ k - 2 < k /\ k - 2 + 1 = k - 1
      /\ k - 1 + 1 = k /\ k - 1 # 0 /\ k # 1 /\ k # 0 /\ k - 1 - 1 = k - 2
  BY <1>1
<1>5. LastNode(l, v) = a
  BY <1>2, <1>4, LastNodeOK
<1>6. u[k - 1] # nullptr /\ u[k - 2] # nullptr /\ u[k] = nullptr
  BY <1>1, <1>4 DEF Strung
<1>7. a \in Nodes /\ b \in Nodes
  BY <1>2, <1>3, <1>4, <1>6, ThreadNodes DEF NodesOf, Strung
<1>8. a # b
  BY <1>2, <1>3, <1>4, <1>6 DEF Strung
<1>9. l.next[b] = a /\ b \in Reached(l, v)
  BY <1>2, <1>3, <1>4, <1>6, ReachedOK DEF Strung, NodesOf
<1>10. ASSUME NEW n \in Reached(l, v), l.next[n] = a PROVE n = b
  <2>1. PICK i \in Nat : n = u[i] /\ n # nullptr
    BY ReachedOK DEF NodesOf
  <2>2. i + 1 \in Nat /\ u[i + 1] = u[k - 1]
    BY <1>2, <1>10, <2>1 DEF Strung
  <2>3. i + 1 = k - 1
    BY <1>4, <1>6, <2>2 DEF Strung
  <2>4. i = k - 2
    BY <1>1, <2>3
  <2>5. QED
    BY <1>3, <2>1, <2>4
<1>11. (CHOOSE n \in Reached(l, v) : l.next[n] = a) = b
  BY <1>9, <1>10
<1>12. PICK d : d = delete(l, a)
  OBVIOUS
<1>13. PICK h : h = WithNext(d, b, nullptr)
  OBVIOUS
<1>14. PICK m : m = pop_back(l, v)
  OBVIOUS
<1>15. m = Resized(h, v, -1)
  BY <1>4, <1>5, <1>11, <1>12, <1>13, <1>14 DEF pop_back, WithNext
<1>16. /\ d \in ListStates
       /\ d.head = l.head /\ d.vector_size = l.vector_size
       /\ d.next = [l.next EXCEPT ![a] = Freed] /\ d.data = [l.data EXCEPT ![a] = Freed]
  BY <1>7, <1>12, DeleteOK
<1>17. /\ h \in ListStates
       /\ h.head = d.head /\ h.vector_size = d.vector_size
       /\ h.next = [d.next EXCEPT ![b] = nullptr] /\ h.data = d.data
  BY <1>7, <1>13, <1>16, WithNextOK DEF nullptr
<1>18. /\ m \in ListStates
       /\ m.head = h.head /\ m.next = h.next /\ m.data = h.data
       /\ m.vector_size = [h.vector_size EXCEPT ![v] = h.vector_size[v] + (-1)]
  BY <1>15, <1>17, ResizedOK
<1>19. h.vector_size[v] + (-1) = k - 1
  BY <1>1, <1>16, <1>17
<1>20. [[l.next EXCEPT ![a] = Freed] EXCEPT ![b] = nullptr]
        = [l.next EXCEPT ![b] = nullptr, ![a] = Freed]
  <2>1. l.next \in [Nodes -> Int]
    BY DEF ListStates
  <2>2. QED
    BY <1>7, <1>8, <2>1
<1>21. m.next = [l.next EXCEPT ![u[k - 2]] = u[k], ![u[k - 1]] = Freed]
  BY <1>2, <1>3, <1>6, <1>16, <1>17, <1>18, <1>20
<1>22. m.data = [l.data EXCEPT ![u[k - 1]] = Freed]
  BY <1>2, <1>16, <1>17, <1>18
<1>23. QED
  BY <1>4, <1>14, <1>16, <1>17, <1>18, <1>19, <1>21, <1>22 DEF IsCut

\* The sequence s without its element at j, counted from 0.
Shortened(s, j) == SubSeq(s, 1, j) \o SubSeq(s, j + 2, Len(s))

LEMMA CutSequence ==
    ASSUME NEW s \in Seq(Values), NEW j \in Nat, j < Len(s)
    PROVE  /\ Shortened(s, j) \in Seq(Values)
           /\ Len(Shortened(s, j)) = Len(s) - 1
           /\ \A i \in 1 .. Len(s) - 1 :
                Shortened(s, j)[i] = IF i <= j THEN s[i] ELSE s[i + 1]
<1> DEFINE n == Len(s)
           a == SubSeq(s, 1, j)
           b == SubSeq(s, j + 2, n)
           r == a \o b
<1>1. n \in Nat /\ \A i \in 1 .. n : s[i] \in Values
  BY LenProperties, ElementOfSeq
<1>2. /\ a \in Seq(Values) /\ Len(a) = j
      /\ \A i \in 1 .. j : a[i] = s[i]
  <2>1. \A i \in 1 .. j : s[i] \in Values
    BY <1>1
  <2>2. /\ a \in Seq(Values)
        /\ Len(a) = IF 1 <= j THEN j - 1 + 1 ELSE 0
        /\ \A i \in 1 .. j - 1 + 1 : a[i] = s[1 + i - 1]
    BY <2>1, SubSeqProperties
  <2> HIDE DEF a
  <2>3. j - 1 + 1 = j /\ \A i \in 1 .. j : 1 + i - 1 = i
    OBVIOUS
  <2>4. QED
    BY <2>2, <2>3
<1>3. /\ b \in Seq(Values) /\ Len(b) = n - 1 - j
      /\ \A i \in 1 .. n - 1 - j : b[i] = s[j + 1 + i]
  <2> HIDE DEF n
  <2>1. \A i \in j + 2 .. n : s[i] \in Values
    BY <1>1
  <2>2. /\ b \in Seq(Values)
        /\ Len(b) = IF j + 2 <= n THEN n - (j + 2) + 1 ELSE 0
        /\ \A i \in 1 .. n - (j + 2) + 1 : b[i] = s[j + 2 + i - 1]
    BY <1>1, <2>1, SubSeqProperties
  <2> HIDE DEF b
  <2>3. n - (j + 2) + 1 = n - 1 - j /\ \A i \in 1 .. n - 1 - j : j + 2 + i - 1 = j + 1 + i
    BY <1>1
  <2>4. j < n
    BY DEF n
  <2>5. Len(b) = n - 1 - j
    BY <1>1, <2>2, <2>3, <2>4
  <2>6. QED
    BY <2>2, <2>3, <2>5
<1>4. r = Shortened(s, j)
  BY DEF Shortened
<1> HIDE DEF a, b
<1>5. /\ r \in Seq(Values) /\ Len(r) = Len(a) + Len(b)
      /\ \A i \in 1 .. Len(a) + Len(b) :
           r[i] = IF i <= Len(a) THEN a[i] ELSE b[i - Len(a)]
  BY <1>2, <1>3, ConcatProperties
<1>6. j < n
  OBVIOUS
<1> HIDE DEF r, n
<1>7. Len(a) + Len(b) = n - 1
  BY <1>1, <1>2, <1>3
<1>8. ASSUME NEW i \in 1 .. n - 1 PROVE r[i] = IF i <= j THEN s[i] ELSE s[i + 1]
  <2>1. r[i] = IF i <= j THEN a[i] ELSE b[i - j]
    BY <1>2, <1>5, <1>7
  <2>2. CASE i <= j
    BY <1>2, <2>1, <2>2
  <2>3. CASE ~ (i <= j)
    <3>1. i - j \in 1 .. n - 1 - j /\ j + 1 + (i - j) = i + 1
      BY <1>1, <2>3
    <3>2. QED
      BY <1>3, <2>1, <2>3, <3>1
  <2>4. QED
    BY <2>2, <2>3
<1>9. QED
  BY <1>5, <1>7, <1>8, <1>4 DEF n
-----------------------------------------------------------------------------
(* free_data, empty_vector *)

\* A list whose nodes have been deleted.
LEMMA EmptiedFields ==
    ASSUME NEW l \in ListStates, NEW v \in Vectors, NEW u, Strung(l, v, u),
           NEW m, m = empty_vector(free_data(l, v), v)
    PROVE  /\ m \in ListStates
           /\ m.head = [l.head EXCEPT ![v] = nullptr]
           /\ m.vector_size = [l.vector_size EXCEPT ![v] = 0]
           /\ m.next = [n \in Nodes |-> IF n \in NodesOf(u) THEN Freed ELSE l.next[n]]
           /\ m.data = [n \in Nodes |-> IF n \in NodesOf(u) THEN Freed ELSE l.data[n]]
<1> DEFINE nx == [n \in Nodes |-> IF n \in NodesOf(u) THEN Freed ELSE l.next[n]]
           dt == [n \in Nodes |-> IF n \in NodesOf(u) THEN Freed ELSE l.data[n]]
           a == WithHead(l, v, nullptr)
           b == [a EXCEPT !.next = nx]
           f == [b EXCEPT !.data = dt]
           e == WithHead(f, v, nullptr)
<1>1. Reached(l, v) = NodesOf(u)
  BY ReachedOK
<1>2. nx \in [Nodes -> Int] /\ dt \in [Nodes -> Values \cup {Freed}]
  BY DEF ListStates, Freed
<1>3. free_data(l, v) = f
  <2>1. free_data(l, v) = [l EXCEPT !.head[v] = nullptr, !.next = nx, !.data = dt]
    BY <1>1 DEF free_data
  <2> HIDE DEF nx, dt
  <2>2. QED
    BY <2>1 DEF WithHead
<1> HIDE DEF nx, dt
<1>4. /\ a \in ListStates
      /\ a.head = [l.head EXCEPT ![v] = nullptr] /\ a.vector_size = l.vector_size
      /\ a.next = l.next /\ a.data = l.data
  BY WithHeadOK DEF nullptr
<1> HIDE DEF a
<1>5. /\ b \in ListStates
      /\ b.head = a.head /\ b.vector_size = a.vector_size
      /\ b.next = nx /\ b.data = a.data
  BY <1>2, <1>4 DEF ListStates
<1> HIDE DEF b
<1>6. /\ f \in ListStates
      /\ f.head = b.head /\ f.vector_size = b.vector_size
      /\ f.next = b.next /\ f.data = dt
  BY <1>2, <1>5 DEF ListStates
<1> HIDE DEF f
<1>7. /\ e \in ListStates
      /\ e.head = [f.head EXCEPT ![v] = nullptr] /\ e.vector_size = f.vector_size
      /\ e.next = f.next /\ e.data = f.data
  BY <1>6, WithHeadOK DEF nullptr
<1>8. m = [e EXCEPT !.vector_size[v] = 0]
  <2>1. m = [f EXCEPT !.head[v] = nullptr, !.vector_size[v] = 0]
    BY <1>3 DEF empty_vector
  <2>2. QED
    BY <2>1 DEF WithHead
<1> HIDE DEF e
<1>9. /\ m \in ListStates
      /\ m.head = e.head /\ m.vector_size = [e.vector_size EXCEPT ![v] = 0]
      /\ m.next = e.next /\ m.data = e.data
  BY <1>7, <1>8 DEF ListStates
<1>10. m.head = [l.head EXCEPT ![v] = nullptr]
  BY <1>4, <1>5, <1>6, <1>7, <1>9 DEF ListStates
<1>11. QED
  BY <1>4, <1>5, <1>6, <1>7, <1>9, <1>10 DEF nx, dt

LEMMA EmptiedOK ==
    ASSUME NEW l, NEW c, Holds(l, c), NEW v \in Vectors,
           NEW m, m = empty_vector(free_data(l, v), v)
    PROVE  /\ Holds(m, [c EXCEPT ![v] = <<>>])
           /\ FreeNodes(m) = FreeNodes(l) \cup Reached(l, v)
           /\ m.vector_size = [l.vector_size EXCEPT ![v] = 0]
<1>1. PICK p : Threaded(l, p) /\ c = [w \in Vectors |-> Held(l, w, p[w])]
  BY DEF Holds
<1>2. PICK u : u = p[v]
  OBVIOUS
<1>3. l \in ListStates /\ Strung(l, v, u)
  BY <1>1, <1>2 DEF Threaded
<1>4. /\ m \in ListStates
      /\ m.head = [l.head EXCEPT ![v] = nullptr]
      /\ m.vector_size = [l.vector_size EXCEPT ![v] = 0]
      /\ m.next = [n \in Nodes |-> IF n \in NodesOf(u) THEN Freed ELSE l.next[n]]
      /\ m.data = [n \in Nodes |-> IF n \in NodesOf(u) THEN Freed ELSE l.data[n]]
  BY <1>3, EmptiedFields
<1>5. /\ l.next \in [Nodes -> Int] /\ l.data \in [Nodes -> Values \cup {Freed}]
      /\ l.head \in [Vectors -> Int] /\ l.vector_size \in [Vectors -> Int]
  BY <1>3 DEF ListStates
<1>6. PICK t : t = [i \in Nat |-> nullptr]
  OBVIOUS
<1>7. t \in Threads /\ NodesOf(t) = {} /\ \A i \in Nat : t[i] = nullptr
  BY <1>6, VectorAssumption DEF Threads, NodesOf, nullptr
<1>8. Strung(m, v, t)
  BY <1>4, <1>5, <1>7 DEF Strung
<1>9. \A w \in Vectors \ {v} :
        m.head[w] = l.head[w] /\ m.vector_size[w] = l.vector_size[w]
  BY <1>4, <1>5
<1>10. \A n \in Allocated(l) \ NodesOf(p[v]) :
         n \notin NodesOf(t) /\ m.next[n] = l.next[n] /\ m.data[n] = l.data[n]
  BY <1>2, <1>4, <1>7 DEF Allocated
<1>11. \A n \in Nodes : \/ n \in NodesOf(t)
                        \/ n \in Allocated(l) \ NodesOf(p[v])
                        \/ m.next[n] = Freed
  BY <1>2, <1>4 DEF Allocated
<1>12. Rethreads(l, p, v, m, t)
  BY <1>4, <1>7, <1>8, <1>9, <1>10, <1>11 DEF Rethreads
<1>13. <<>> \in Seq(Values) /\ Len(<<>>) = 0 /\ m.vector_size[v] = 0
  BY <1>4, <1>5
<1>14. Holds(m, [c EXCEPT ![v] = <<>>])
  <2>1. PICK s : s = <<>>
    OBVIOUS
  <2>2. s \in Seq(Values) /\ Len(s) = m.vector_size[v]
        /\ \A i \in 1 .. Len(s) : s[i] = m.data[t[i - 1]]
    BY <1>13, <2>1
  <2>3. Holds(m, [c EXCEPT ![v] = s])
    BY <1>1, <1>12, <2>2, NowHolds
  <2>4. QED
    BY <2>1, <2>3
<1>15. FreeNodes(m) = FreeNodes(l) \cup Reached(l, v)
  <2>1. Reached(l, v) = NodesOf(u) /\ NodesOf(u) \subseteq Nodes
    BY <1>3, ReachedOK, ThreadNodes DEF Strung
  <2>2. QED
    BY <1>4, <2>1 DEF FreeNodes, Allocated
<1>16. QED
  BY <1>4, <1>14, <1>15

-----------------------------------------------------------------------------
(* remove and pop_back, of what a list holds *)

LEMMA RemoveOK ==
    ASSUME NEW l, NEW c, Holds(l, c), NEW v \in Vectors,
           NEW j \in Nat, j < l.vector_size[v]
    PROVE  Holds(remove(l, v, j), [c EXCEPT ![v] = Shortened(c[v], j)])
<1>1. PICK p : Threaded(l, p) /\ c = [w \in Vectors |-> Held(l, w, p[w])]
  BY DEF Holds
<1>2. PICK m : m = remove(l, v, j)
  OBVIOUS
<1>3. c[v] \in Seq(Values) /\ Len(c[v]) = l.vector_size[v]
  BY HoldsOK
<1>4. PICK s : s = Shortened(c[v], j)
  OBVIOUS
<1>5. /\ s \in Seq(Values) /\ Len(s) = l.vector_size[v] - 1
      /\ \A i \in 1 .. l.vector_size[v] - 1 :
           s[i] = IF i <= j THEN c[v][i] ELSE c[v][i + 1]
  BY <1>3, <1>4, CutSequence
<1>6. IsCut(l, v, p[v], j, m)
  BY <1>1, <1>2, RemoveFields DEF Threaded
<1>7. QED
  BY <1>1, <1>2, <1>4, <1>5, <1>6, CutHolds

LEMMA PopBackOK ==
    ASSUME NEW l, NEW c, Holds(l, c), NEW v \in Vectors, l.vector_size[v] # 0
    PROVE  Holds(pop_back(l, v), [c EXCEPT ![v] = SubSeq(c[v], 1, Len(c[v]) - 1)])
<1>1. PICK p : Threaded(l, p) /\ c = [w \in Vectors |-> Held(l, w, p[w])]
  BY DEF Holds
<1>2. PICK m : m = pop_back(l, v)
  OBVIOUS
<1>3. PICK k : k = l.vector_size[v]
  OBVIOUS
<1>4. c[v] \in Seq(Values) /\ Len(c[v]) = k /\ k \in Nat
  BY <1>3, HoldsOK
<1>5. PICK s : s = SubSeq(c[v], 1, k - 1)
  OBVIOUS
<1>6. CASE k = 1
  <2>1. m = empty_vector(free_data(l, v), v)
    BY <1>2, <1>3, <1>6 DEF pop_back
  <2>2. s = <<>>
    <3>1. k - 1 < 1 /\ k - 1 \in Int
      BY <1>6
    <3>2. QED
      BY <1>5, <3>1, SubSeqEmpty
  <2>3. QED
    BY <1>2, <1>4, <1>5, <2>1, <2>2, EmptiedOK
<1>7. CASE k # 1
  <2>1. k > 1 /\ k - 1 \in Nat /\ k - 1 < k
    BY <1>3, <1>4, <1>7
  <2>2. PICK j : j = k - 1
    OBVIOUS
  <2>3. IsCut(l, v, p[v], j, m)
    BY <1>1, <1>2, <1>3, <2>1, <2>2, PopBackFields DEF Threaded
  <2>4. \A i \in 1 .. k - 1 : c[v][i] \in Values
    BY <1>4, ElementOfSeq
  <2>5. /\ s \in Seq(Values)
        /\ Len(s) = IF 1 <= k - 1 THEN k - 1 - 1 + 1 ELSE 0
        /\ \A i \in 1 .. k - 1 - 1 + 1 : s[i] = c[v][1 + i - 1]
    BY <1>5, <2>1, <2>4, SubSeqProperties
  <2>6. k - 1 - 1 + 1 = k - 1 /\ \A i \in 1 .. k - 1 : 1 + i - 1 = i /\ i <= j
    BY <1>4, <2>2
  <2>7. Len(s) = k - 1 /\ \A i \in 1 .. k - 1 : s[i] = c[v][i]
    BY <2>1, <2>5, <2>6
  <2>8. \A i \in 1 .. k - 1 : s[i] = IF i <= j THEN c[v][i] ELSE c[v][i + 1]
    BY <2>6, <2>7
  <2>9. j \in Nat /\ j < k
    BY <2>1, <2>2
  <2>10. /\ s \in Seq(Values) /\ Len(s) = l.vector_size[v] - 1
         /\ \A i \in 1 .. l.vector_size[v] - 1 :
              s[i] = IF i <= j THEN c[v][i] ELSE c[v][i + 1]
         /\ j < l.vector_size[v] /\ j \in Nat
    BY <1>3, <2>5, <2>7, <2>8, <2>9
  <2>11. Holds(m, [c EXCEPT ![v] = s])
    BY <1>1, <2>3, <2>10, CutHolds
  <2>12. QED
    BY <1>2, <1>4, <1>5, <2>11
<1>8. QED
  BY <1>6, <1>7
-----------------------------------------------------------------------------
(* Copying *)

\* The first n elements of a sequence, and one more.
LEMMA PrefixGrows ==
    ASSUME NEW s \in Seq(Values), NEW n \in 1 .. Len(s)
    PROVE  /\ s[n] \in Values
           /\ SubSeq(s, 1, n - 1) \in Seq(Values)
           /\ Append(SubSeq(s, 1, n - 1), s[n]) = SubSeq(s, 1, n)
<1>1. Len(s) \in Nat /\ \A i \in 1 .. Len(s) : s[i] \in Values
  BY LenProperties, ElementOfSeq
<1>2. \A i \in 1 .. n - 1 : s[i] \in Values
  BY <1>1
<1>3. SubSeq(s, 1, n - 1) \in Seq(Values)
  BY <1>1, <1>2, SubSeqProperties
<1>4. 1 \in 1 .. Len(s) /\ n \in 1 .. Len(s)
  BY <1>1
<1>5. SubSeq(s, 1, n) = SubSeq(s, 1, n - 1) \o <<s[n]>>
  BY <1>4, SubSeqRecursiveSecond
<1>6. Append(SubSeq(s, 1, n - 1), s[n]) = SubSeq(s, 1, n - 1) \o <<s[n]>>
  BY <1>1, <1>3, AppendIsConcat
<1>7. QED
  BY <1>1, <1>3, <1>5, <1>6

\* Where the loop of append_vector may be after n turns.
Copies(c, v, w, n) ==
    {s \in ListStates :
       /\ Holds(s, [c EXCEPT ![v] = SubSeq(c[w], 1, n)])
       /\ IsFiniteSet(FreeNodes(s))
       /\ Cardinality(FreeNodes(s)) >= Len(c[w]) - n}

LEMMA CopyTurn ==
    ASSUME NEW c \in [Vectors -> Seq(Values)], NEW v \in Vectors,
           NEW w \in Vectors \ {v}, NEW n \in 1 .. Len(c[w]),
           NEW s \in Copies(c, v, w, n - 1)
    PROVE  append(s, v, get(s, w, n - 1)) \in Copies(c, v, w, n)
<1>1. PICK d : d = [c EXCEPT ![v] = SubSeq(c[w], 1, n - 1)]
  OBVIOUS
<1>2. /\ s \in ListStates /\ Holds(s, d)
      /\ IsFiniteSet(FreeNodes(s))
      /\ Cardinality(FreeNodes(s)) >= Len(c[w]) - (n - 1)
  BY <1>1 DEF Copies
<1>3. c[w] \in Seq(Values) /\ Len(c[w]) \in Nat
  BY LenProperties
<1>4. d[w] = c[w] /\ d[v] = SubSeq(c[w], 1, n - 1)
  BY <1>1
<1>5. get(s, w, n - 1) = c[w][n]
  <2>1. n - 1 \in 0 .. Len(c[w]) - 1 /\ n - 1 + 1 = n
    BY <1>3
  <2>2. \A i \in 0 .. Len(d[w]) - 1 : get(s, w, i) = d[w][i + 1]
    BY <1>2, HoldsOK
  <2>3. QED
    BY <1>4, <2>1, <2>2
<1>6. c[w][n] \in Values /\ Append(d[v], c[w][n]) = SubSeq(c[w], 1, n)
  BY <1>3, <1>4, PrefixGrows
<1>7. Cardinality(FreeNodes(s)) \in Nat /\ Cardinality(FreeNodes(s)) # 0
  BY <1>2, <1>3, FS_CardinalityType
<1>8. FreeNodes(s) # {}
  BY <1>7, FS_EmptySet
<1>9. PICK m : m = append(s, v, c[w][n])
  OBVIOUS
<1>10. Holds(m, [d EXCEPT ![v] = Append(d[v], c[w][n])])
  BY <1>2, <1>6, <1>8, <1>9, AppendOK
<1>11. PICK a \in FreeNodes(s) : FreeNodes(m) = FreeNodes(s) \ {a}
  BY <1>2, <1>6, <1>8, <1>9, AppendOK
<1>12. IsFiniteSet(FreeNodes(m))
       /\ Cardinality(FreeNodes(m)) = Cardinality(FreeNodes(s)) - 1
  BY <1>2, <1>11, FS_RemoveElement
<1>13. Cardinality(FreeNodes(m)) >= Len(c[w]) - n
  BY <1>2, <1>3, <1>7, <1>12
<1>14. [d EXCEPT ![v] = Append(d[v], c[w][n])] = [c EXCEPT ![v] = SubSeq(c[w], 1, n)]
  BY <1>1, <1>6
<1>15. Holds(m, [c EXCEPT ![v] = SubSeq(c[w], 1, n)])
  BY <1>10, <1>14
<1>16. m \in ListStates
  BY <1>15, HoldsOK
<1>17. QED
  BY <1>5, <1>9, <1>12, <1>13, <1>15, <1>16 DEF Copies

\* append_vector puts the elements of another vector behind none.
LEMMA AppendVectorOK ==
    ASSUME NEW l, NEW c, Holds(l, c), NEW v \in Vectors, NEW w \in Vectors \ {v},
           c[v] = <<>>, IsFiniteSet(FreeNodes(l)),
           Cardinality(FreeNodes(l)) >= l.vector_size[w]
    PROVE  Holds(append_vector(l, v, w), [c EXCEPT ![v] = c[w]])
<1>1. PICK N : N = l.vector_size[w]
  OBVIOUS
<1>2. /\ c \in [Vectors -> Seq(Values)] /\ N \in Nat /\ Len(c[w]) = N
      /\ l \in ListStates
  BY <1>1, HoldsOK
<1> DEFINE Loop(f) ==
             f = [i \in 0 .. N |-> IF i = 0 THEN l
                                   ELSE append(f[i - 1], v, get(f[i - 1], w, i - 1))]
           copied == CHOOSE f : Loop(f)
           S == [n \in Nat |-> Copies(c, v, w, n)]
           F == [n \in 1 .. N |->
                   [s \in S[n - 1] |-> append(s, v, get(s, w, n - 1))]]
<1>3. append_vector(l, v, w) = copied[N]
  BY <1>1 DEF append_vector
<1>4. l \in S[0]
  <2>1. SubSeq(c[w], 1, 0) = <<>>
    BY SubSeqEmpty
  <2>2. [c EXCEPT ![v] = SubSeq(c[w], 1, 0)] = c
    BY <1>2, <2>1
  <2>3. Cardinality(FreeNodes(l)) \in Nat /\ Cardinality(FreeNodes(l)) >= N
    BY <1>1, FS_CardinalityType
  <2>4. Cardinality(FreeNodes(l)) >= Len(c[w]) - 0
    BY <1>2, <2>3
  <2>5. Holds(l, [c EXCEPT ![v] = SubSeq(c[w], 1, 0)])
    BY <2>2
  <2>6. l \in Copies(c, v, w, 0)
    BY <1>2, <2>4, <2>5 DEF Copies
  <2>7. QED
    BY <2>6
<1>5. ASSUME NEW n \in 1 .. N, NEW s \in S[n - 1]
      PROVE  append(s, v, get(s, w, n - 1)) \in S[n]
  <2>1. n - 1 \in Nat /\ n \in Nat /\ n \in 1 .. Len(c[w])
    BY <1>2
  <2>2. s \in Copies(c, v, w, n - 1)
    BY <2>1
  <2>3. append(s, v, get(s, w, n - 1)) \in Copies(c, v, w, n)
    BY <1>2, <2>1, <2>2, CopyTurn
  <2>4. QED
    BY <2>1, <2>3
<1>6. \A n \in 1 .. N : \A s \in S[n - 1] : F[n][s] = append(s, v, get(s, w, n - 1))
  OBVIOUS
<1> HIDE DEF F
<1>7. Carries(N, F, S)
  BY <1>5, <1>6 DEF Carries
<1>8. PICK f : Runs(f, N, F, l) /\ \A n \in 0 .. N : f[n] \in S[n]
  BY <1>2, <1>4, <1>7, TurnsExist
<1>9. Loop(f)
  <2>1. f = [n \in 0 .. N |-> IF n = 0 THEN l ELSE F[n][f[n - 1]]]
    BY <1>8 DEF Runs
  <2>2. \A n \in 0 .. N : n # 0 => n \in 1 .. N /\ n - 1 \in 0 .. N
    BY <1>2
  <2>3. \A n \in 0 .. N : n # 0 =>
          F[n][f[n - 1]] = append(f[n - 1], v, get(f[n - 1], w, n - 1))
    BY <1>6, <1>8, <2>2
  <2> HIDE DEF S
  <2>4. QED
    BY <2>1, <2>3
<1>10. Loop(copied)
  BY <1>9
<1> HIDE DEF copied
<1>11. copied[0] \in S[0]
  BY <1>2, <1>4, <1>10
<1>12. \A n \in 1 .. N : copied[n - 1] \in S[n - 1] => copied[n] \in S[n]
  <2>1. \A n \in 1 .. N : n \in 0 .. N /\ n # 0
    BY <1>2
  <2>2. \A n \in 1 .. N :
          copied[n] = append(copied[n - 1], v, get(copied[n - 1], w, n - 1))
    BY <1>10, <2>1
  <2>3. QED
    BY <1>5, <2>2
<1> HIDE DEF S
<1>13. \A n \in 0 .. N : copied[n] \in S[n]
  BY <1>2, <1>11, <1>12, TurnsKept
<1>14. copied[N] \in Copies(c, v, w, N)
  BY <1>2, <1>13 DEF S
<1>15. Holds(copied[N], [c EXCEPT ![v] = SubSeq(c[w], 1, N)])
  BY <1>14 DEF Copies
<1>16. SubSeq(c[w], 1, N) = c[w]
  BY <1>2, SubSeqFull
<1>17. QED
  BY <1>3, <1>15, <1>16

\* A vector without elements is given none.
LEMMA AppendNone ==
    ASSUME NEW l, NEW v, l.vector_size[v] = 0
    PROVE  append_vector(l, v, v) = l
<1> DEFINE Loop(f) ==
             f = [i \in 0 .. 0 |-> IF i = 0 THEN l
                                   ELSE append(f[i - 1], v, get(f[i - 1], v, i - 1))]
           copied == CHOOSE f : Loop(f)
           g == [i \in 0 .. 0 |-> l]
<1>1. append_vector(l, v, v) = copied[0]
  BY DEF append_vector
<1>2. Loop(g)
  OBVIOUS
<1>3. Loop(copied)
  BY <1>2
<1> HIDE DEF copied
<1>4. copied[0] = l
  BY <1>3
<1>5. QED
  BY <1>1, <1>4

\* operator= copies what the other vector holds, and empties the vector that is
\* assigned to itself.
LEMMA AssignOK ==
    ASSUME NEW l, NEW c, Holds(l, c), NEW v \in Vectors, NEW w \in Vectors,
           l.vector_size[w] <= Cardinality(FreeNodes(l)) + l.vector_size[v]
    PROVE  Holds(assign(l, v, w), [c EXCEPT ![v] = IF v = w THEN <<>> ELSE c[w]])
<1>1. PICK m : m = empty_vector(free_data(l, v), v)
  OBVIOUS
<1>2. PICK d : d = [c EXCEPT ![v] = <<>>]
  OBVIOUS
<1>3. /\ Holds(m, d)
      /\ FreeNodes(m) = FreeNodes(l) \cup Reached(l, v)
      /\ m.vector_size = [l.vector_size EXCEPT ![v] = 0]
  BY <1>1, <1>2, EmptiedOK
<1>4. assign(l, v, w) = append_vector(m, v, w)
  BY <1>1 DEF assign
<1>5. /\ l \in ListStates /\ c \in [Vectors -> Seq(Values)]
      /\ l.vector_size \in [Vectors -> Int]
      /\ l.vector_size[v] \in Nat /\ l.vector_size[w] \in Nat
  BY HoldsOK DEF ListStates
<1>6. CASE v = w
  <2>1. m.vector_size[v] = 0
    BY <1>3, <1>5
  <2>2. append_vector(m, v, v) = m
    BY <2>1, AppendNone
  <2>3. [c EXCEPT ![v] = IF v = w THEN <<>> ELSE c[w]] = d
    BY <1>2, <1>6
  <2>4. QED
    BY <1>3, <1>4, <1>6, <2>2, <2>3
<1>7. CASE v # w
  <2>1. IsFiniteSet(FreeNodes(m))
        /\ Cardinality(FreeNodes(m)) = Cardinality(FreeNodes(l)) + l.vector_size[v]
    <3>1. PICK p : Threaded(l, p)
      BY DEF Holds
    <3>2. Strung(l, v, p[v]) /\ NodesOf(p[v]) \subseteq Allocated(l)
      BY <3>1, OthersOK DEF Threaded
    <3>3. /\ IsFiniteSet(Reached(l, v))
          /\ Cardinality(Reached(l, v)) = l.vector_size[v]
          /\ FreeNodes(l) \cap Reached(l, v) = {}
      BY <3>2, FitsNodes, ReachedOK DEF FreeNodes
    <3>4. IsFiniteSet(FreeNodes(l))
      <4>1. IsFiniteSet(Nodes)
        BY VectorAssumption, FS_Interval DEF Nodes
      <4>2. QED
        BY <4>1, FS_Subset DEF FreeNodes
    <3>5. Cardinality({}) = 0 /\ Cardinality(FreeNodes(l)) \in Nat
      BY <3>4, FS_EmptySet, FS_CardinalityType
    <3>6. IsFiniteSet(FreeNodes(m))
          /\ Cardinality(FreeNodes(m)) = Cardinality(FreeNodes(l))
               + Cardinality(Reached(l, v)) - Cardinality(FreeNodes(l) \cap Reached(l, v))
      BY <1>3, <3>3, <3>4, FS_Union
    <3>7. Cardinality(FreeNodes(l) \cap Reached(l, v)) = 0
      BY <3>3, <3>5
    <3>8. QED
      BY <1>5, <3>3, <3>5, <3>6, <3>7
  <2>2. m.vector_size[w] = l.vector_size[w]
    BY <1>3, <1>5, <1>7
  <2>3. Cardinality(FreeNodes(m)) >= m.vector_size[w]
    <3>1. Cardinality(FreeNodes(m)) \in Nat
      BY <2>1, FS_CardinalityType
    <3>2. QED
      BY <1>5, <2>1, <2>2, <3>1
  <2>4. d[v] = <<>> /\ d[w] = c[w]
    BY <1>2, <1>5, <1>7
  <2>5. Holds(append_vector(m, v, w), [d EXCEPT ![v] = d[w]])
    BY <1>3, <1>7, <2>1, <2>3, <2>4, AppendVectorOK
  <2>6. [d EXCEPT ![v] = d[w]] = [c EXCEPT ![v] = IF v = w THEN <<>> ELSE c[w]]
    BY <1>2, <1>5, <1>7, <2>4
  <2>7. QED
    BY <1>4, <2>5, <2>6
<1>8. QED
  BY <1>6, <1>7
-----------------------------------------------------------------------------
(* sort: one element is relinked *)

\* When the element at a goes before the one at q: where the element at i was.
Source(a, q, i) == IF i = q THEN a ELSE IF q < i /\ i <= a THEN i - 1 ELSE i

MovedThread(u, a, q) == [i \in Nat |-> u[Source(a, q, i)]]

LEMMA SourceOK ==
    ASSUME NEW a \in Nat, NEW q \in Nat, q < a
    PROVE  /\ \A i \in Nat : Source(a, q, i) \in Nat
           /\ \A i, j \in Nat : Source(a, q, i) = Source(a, q, j) => i = j
           /\ \A k \in Nat : a < k => \A i \in Nat : (Source(a, q, i) >= k) = (i >= k)
           /\ \A i, j \in Nat : i < j /\ i # q /\ j # q
                => Source(a, q, i) < Source(a, q, j)
           /\ \A i \in Nat : i # q /\ i <= a => Source(a, q, i) < a
           /\ \A i \in Nat : i < q => Source(a, q, i) = i
           /\ \A i \in Nat : q < i /\ i <= a => Source(a, q, i) = i - 1
           /\ \A i \in Nat : i > a => Source(a, q, i) = i
           /\ Source(a, q, q) = a
  BY DEF Source

\* Two links are stored.
LEMMA TwoLinks ==
    ASSUME NEW l \in ListStates, NEW x \in Nodes, NEW y \in Nodes,
           NEW g \in Int, NEW z \in Int,
           NEW d, d = WithNext(WithNext(l, y, g), x, z)
    PROVE  /\ d \in ListStates
           /\ d.head = l.head /\ d.vector_size = l.vector_size /\ d.data = l.data
           /\ d.next = [l.next EXCEPT ![y] = g, ![x] = z]
<1>1. PICK b : b = WithNext(l, y, g)
  OBVIOUS
<1>2. /\ b \in ListStates
      /\ b.head = l.head /\ b.vector_size = l.vector_size
      /\ b.next = [l.next EXCEPT ![y] = g] /\ b.data = l.data
  BY <1>1, WithNextOK
<1>3. d = WithNext(b, x, z)
  BY <1>1
<1>4. /\ d \in ListStates
      /\ d.head = b.head /\ d.vector_size = b.vector_size
      /\ d.next = [b.next EXCEPT ![x] = z] /\ d.data = b.data
  BY <1>2, <1>3, WithNextOK
<1>5. QED
  BY <1>2, <1>4

\* The stores of the relinking.
LEMMA InsertedFields ==
    ASSUME NEW l \in ListStates, NEW v \in Vectors, NEW u, Strung(l, v, u),
           NEW a \in Nat, a < l.vector_size[v], NEW q \in Nat, q < a,
           NEW s, s.l = l, s.iterator = u[a], s.iterator_prev = u[a - 1],
           q \in Behind(l, v, s), \A j \in Behind(l, v, s) : q <= j,
           Behind(l, v, s) \subseteq Nat,
           NEW m, m = Inserted(l, v, s)
    PROVE  /\ m \in ListStates
           /\ m.vector_size = l.vector_size
           /\ m.data = l.data
           /\ m.head = IF q = 0 THEN [l.head EXCEPT ![v] = u[a]] ELSE l.head
           /\ m.next = IF q = 0 THEN [l.next EXCEPT ![u[a - 1]] = u[a + 1], ![u[a]] = u[q]]
                       ELSE [l.next EXCEPT ![u[a - 1]] = u[a + 1], ![u[a]] = u[q],
                                           ![u[q - 1]] = u[a]]
<1>1. /\ l.vector_size[v] \in Nat /\ a - 1 \in Nat /\ a + 1 \in Nat
      /\ a - 1 < l.vector_size[v] /\ q < l.vector_size[v]
      /\ q # 0 => q - 1 \in Nat /\ q - 1 < l.vector_size[v]
  BY DEF Strung
<1>2. \A i \in Nat : i < l.vector_size[v] => u[i] \in Nodes /\ u[i] # nullptr /\ u[i] \in Int
  <2>1. \A i \in Nat : i < l.vector_size[v] => u[i] # nullptr
    BY <1>1 DEF Strung
  <2>2. NodesOf(u) \subseteq Nodes /\ Nodes \subseteq Int
    BY ThreadNodes DEF Strung, Nodes
  <2>3. QED
    BY <2>1, <2>2 DEF NodesOf
<1>3. (CHOOSE i \in Behind(l, v, s) : \A j \in Behind(l, v, s) : i <= j) = q
  <2>1. \A i \in Behind(l, v, s) : (\A j \in Behind(l, v, s) : i <= j) => i = q
    BY DEF Behind
  <2>2. QED
    BY <2>1
<1>4. PICK x : x = u[a]
  OBVIOUS
<1>5. PICK y : y = u[a - 1]
  OBVIOUS
<1>6. x \in Nodes /\ x \in Int /\ y \in Nodes /\ x # y /\ l.next[x] = u[a + 1]
  <2>1. a # a - 1
    OBVIOUS
  <2>2. x # y
    BY <1>1, <1>2, <1>4, <1>5, <2>1 DEF Strung
  <2>3. l.next[x] = u[a + 1]
    BY <1>2, <1>4 DEF Strung
  <2>4. QED
    BY <1>1, <1>2, <1>4, <1>5, <2>2, <2>3
<1>7. PICK z : z = u[q]
  OBVIOUS
<1>8. z \in Int /\ get_node(l, v, q) = z
  BY <1>1, <1>2, <1>7, GetOK
<1>9. PICK g : g = u[a + 1]
  OBVIOUS
<1>10. g \in Int
  <2>1. u[a + 1] \in 0 .. NODES
    BY <1>1 DEF Strung, Threads
  <2>2. QED
    BY <1>9, <2>1, VectorAssumption
<1>11. PICK d : d = WithNext(WithNext(l, y, g), x, z)
  OBVIOUS
<1>12. /\ d \in ListStates
       /\ d.head = l.head /\ d.vector_size = l.vector_size /\ d.data = l.data
       /\ d.next = [l.next EXCEPT ![y] = g, ![x] = z]
  BY <1>6, <1>8, <1>10, <1>11, TwoLinks
<1>13. m = IF q = 0 THEN [d EXCEPT !.head[v] = x]
           ELSE [d EXCEPT !.next[get_node(l, v, q - 1)] = x]
  BY <1>3, <1>4, <1>5, <1>6, <1>8, <1>9, <1>11 DEF Inserted, WithNext
<1>14. CASE q = 0
  <2>1. m = WithHead(d, v, x)
    BY <1>13, <1>14 DEF WithHead
  <2>2. /\ m \in ListStates
        /\ m.head = [d.head EXCEPT ![v] = x] /\ m.vector_size = d.vector_size
        /\ m.next = d.next /\ m.data = d.data
    BY <1>6, <1>12, <2>1, WithHeadOK
  <2>3. QED
    BY <1>4, <1>5, <1>7, <1>9, <1>12, <1>14, <2>2
<1>15. CASE q # 0
  <2>1. PICK f : f = u[q - 1]
    OBVIOUS
  <2>2. f \in Nodes /\ get_node(l, v, q - 1) = f
    BY <1>1, <1>2, <1>15, <2>1, GetOK
  <2>3. m = WithNext(d, f, x)
    BY <1>13, <1>15, <2>2 DEF WithNext
  <2>4. /\ m \in ListStates
        /\ m.head = d.head /\ m.vector_size = d.vector_size
        /\ m.next = [d.next EXCEPT ![f] = x] /\ m.data = d.data
    <3> HIDE DEF Behind
    <3>1. d \in ListStates /\ f \in Nodes /\ x \in Int
      BY <1>6, <1>12, <2>2
    <3>2. QED
      BY <2>3, <3>1, WithNextOK
  <2>5. QED
    BY <1>4, <1>5, <1>7, <1>9, <1>12, <1>15, <2>1, <2>4
<1>16. QED
  BY <1>14, <1>15

\* t is u with the element at a before the one at q.
Moves(t, u, a, q) ==
    /\ t \in Threads
    /\ t[q] = u[a]
    /\ \A i \in Nat : i < q \/ i > a => t[i] = u[i]
    /\ \A i \in Nat : q < i /\ i <= a => t[i] = u[i - 1] /\ i - 1 \in Nat
    /\ NodesOf(t) = NodesOf(u)

LEMMA MovedThreadOK ==
    ASSUME NEW u \in Threads, NEW a \in Nat, NEW q \in Nat, q < a
    PROVE  Moves(MovedThread(u, a, q), u, a, q)
<1>1. PICK t : t = MovedThread(u, a, q)
  OBVIOUS
<1>2. \A i \in Nat : t[i] = IF i = q THEN u[a]
                            ELSE IF q < i /\ i <= a THEN u[i - 1] ELSE u[i]
  BY <1>1 DEF MovedThread, Source
<1>3. \A i \in Nat : q < i /\ i <= a => i - 1 \in Nat /\ i # q
  OBVIOUS
<1>4. t \in Threads
  <2>1. \A i \in Nat : u[i] \in 0 .. NODES
    BY DEF Threads
  <2>2. \A i \in Nat : t[i] \in 0 .. NODES
    BY <1>2, <1>3, <2>1
  <2>3. t = [i \in Nat |-> t[i]]
    BY <1>1 DEF MovedThread
  <2>4. QED
    BY <2>2, <2>3 DEF Threads
<1>5. \A i \in Nat : i < q \/ i > a => t[i] = u[i]
  <2>1. \A i \in Nat : i < q \/ i > a => i # q /\ ~ (q < i /\ i <= a)
    OBVIOUS
  <2>2. QED
    BY <1>2, <2>1
<1>6. \A i \in Nat : q < i /\ i <= a => t[i] = u[i - 1] /\ i - 1 \in Nat
  BY <1>2, <1>3
<1>7. t[q] = u[a]
  BY <1>2
<1>8. ASSUME NEW n \in NodesOf(t) PROVE n \in NodesOf(u)
  <2>1. PICK i \in Nat : n = t[i] /\ n # nullptr
    BY <1>8 DEF NodesOf
  <2>2. \E h \in Nat : n = u[h]
    BY <1>2, <1>3, <2>1
  <2>3. QED
    BY <2>1, <2>2 DEF NodesOf
<1>9. ASSUME NEW n \in NodesOf(u) PROVE n \in NodesOf(t)
  <2>1. PICK i \in Nat : n = u[i] /\ n # nullptr
    BY <1>9 DEF NodesOf
  <2>2. \E h \in Nat : n = t[h]
    <3>1. CASE i < q \/ i > a
      BY <1>5, <2>1, <3>1
    <3>2. CASE i = a
      BY <1>7, <2>1, <3>2
    <3>3. CASE q <= i /\ i < a
      <4>1. i + 1 \in Nat /\ q < i + 1 /\ i + 1 <= a /\ i + 1 - 1 = i
        BY <3>3
      <4>2. t[i + 1] = u[i]
        BY <1>6, <4>1
      <4>3. QED
        BY <2>1, <4>1, <4>2
    <3>4. QED
      BY <3>1, <3>2, <3>3
  <2>3. QED
    BY <2>1, <2>2 DEF NodesOf
<1>10. QED
  BY <1>1, <1>4, <1>5, <1>6, <1>7, <1>8, <1>9 DEF Moves
\* Relinking makes the moved thread the list of v.
Relinks(l, p, v, m, t) ==
    Rethreads(l, p, v, m, t) /\ m.vector_size = l.vector_size /\ m.data = l.data

LEMMA InsertedRethreads ==
    ASSUME NEW p, NEW v \in Vectors, NEW s, Threaded(s.l, p),
           NEW a \in Nat, a < s.l.vector_size[v], NEW q \in Nat, q < a,
           s.iterator = p[v][a], s.iterator_prev = p[v][a - 1],
           q \in Behind(s.l, v, s), \A j \in Behind(s.l, v, s) : q <= j,
           Behind(s.l, v, s) \subseteq Nat
    PROVE  Relinks(s.l, p, v, Inserted(s.l, v, s), MovedThread(p[v], a, q))
<1>1. PICK l : l = s.l
  OBVIOUS
<1>2. PICK u : u = p[v]
  OBVIOUS
<1>3. PICK m : m = Inserted(l, v, s)
  OBVIOUS
<1>4. PICK t : t = MovedThread(u, a, q)
  OBVIOUS
<1>5. Threaded(l, p) /\ a < l.vector_size[v]
  BY <1>1
<1>6. l \in ListStates /\ Strung(l, v, u) /\ u \in Threads
  BY <1>2, <1>5 DEF Threaded, Strung
<1>7. /\ m \in ListStates
      /\ m.vector_size = l.vector_size
      /\ m.data = l.data
      /\ m.head = IF q = 0 THEN [l.head EXCEPT ![v] = u[a]] ELSE l.head
      /\ m.next = IF q = 0 THEN [l.next EXCEPT ![u[a - 1]] = u[a + 1], ![u[a]] = u[q]]
                  ELSE [l.next EXCEPT ![u[a - 1]] = u[a + 1], ![u[a]] = u[q],
                                      ![u[q - 1]] = u[a]]
  <2>1. /\ l \in ListStates /\ Strung(l, v, u) /\ a < l.vector_size[v]
        /\ s.l = l /\ s.iterator = u[a] /\ s.iterator_prev = u[a - 1]
        /\ q \in Behind(l, v, s) /\ (\A j \in Behind(l, v, s) : q <= j)
        /\ Behind(l, v, s) \subseteq Nat
    BY <1>6, <1>1, <1>2, <1>5
  <2>2. QED
    BY <1>3, <2>1, InsertedFields
<1>8. /\ t \in Threads
      /\ t[q] = u[a]
      /\ \A i \in Nat : i < q \/ i > a => t[i] = u[i]
      /\ \A i \in Nat : q < i /\ i <= a => t[i] = u[i - 1] /\ i - 1 \in Nat
      /\ NodesOf(t) = NodesOf(u)
  <2>1. Moves(MovedThread(u, a, q), u, a, q)
    BY <1>6, MovedThreadOK
  <2>2. Moves(t, u, a, q)
    BY <1>4, <2>1
  <2>3. QED
    BY <2>2 DEF Moves
<1>9. PICK k : k = l.vector_size[v]
  OBVIOUS
<1>10. /\ k \in Nat /\ a < k
       /\ l.head[v] = u[0]
       /\ \A i \in Nat : (u[i] = nullptr) = (i >= k)
       /\ \A i \in Nat : i < k => l.next[u[i]] = u[i + 1]
       /\ \A i, j \in Nat : i < k /\ u[i] = u[j] => i = j
  <2>1. k \in Nat /\ a < k /\ \A i \in Nat : i < k => ~ (i >= k)
    BY <1>6, <1>9, <1>5 DEF Strung
  <2>2. QED
    BY <1>6, <1>9, <2>1 DEF Strung
<1>11. \A i \in Nat : i < k => u[i] \in NodesOf(u)
  BY <1>10 DEF NodesOf
<1>12. /\ a - 1 \in Nat /\ a - 1 < k /\ a - 1 # a
       /\ q # 0 => q - 1 \in Nat /\ q - 1 < k /\ q - 1 # a /\ q - 1 # a - 1
  BY <1>10
<1>13. NodesOf(u) \subseteq Nodes /\ Nodes \subseteq Int
  BY <1>6, ThreadNodes DEF Nodes
<1>14. l.next \in [Nodes -> Int] /\ l.head \in [Vectors -> Int]
  BY <1>6 DEF ListStates
<1>15. \A n \in Nodes \ NodesOf(u) : m.next[n] = l.next[n]
  <2>1. u[a] \in NodesOf(u) /\ u[a - 1] \in NodesOf(u)
        /\ (q # 0 => u[q - 1] \in NodesOf(u))
    BY <1>10, <1>11, <1>12
  <2>2. QED
    BY <1>7, <1>14, <2>1
<1>16. /\ m.next[u[a]] = u[q]
       /\ m.next[u[a - 1]] = u[a + 1]
       /\ q # 0 => m.next[u[q - 1]] = u[a]
  <2>1. u[a] \in Nodes /\ u[a - 1] \in Nodes /\ u[a] # u[a - 1]
    BY <1>10, <1>11, <1>12, <1>13
  <2>2. CASE q = 0
    BY <1>7, <1>14, <2>1, <2>2
  <2>3. CASE q # 0
    <3>1. u[q - 1] \in Nodes /\ u[q - 1] # u[a] /\ u[q - 1] # u[a - 1]
      BY <1>10, <1>11, <1>12, <1>13, <2>3
    <3>2. QED
      BY <1>7, <1>14, <2>1, <2>3, <3>1
  <2>4. QED
    BY <2>2, <2>3
<1>17. ASSUME NEW i \in Nat, i < k, i # a, i # a - 1, q = 0 \/ i # q - 1
       PROVE  m.next[u[i]] = u[i + 1]
  <2>1. /\ u[i] \in Nodes /\ u[a] \in Nodes /\ u[a - 1] \in Nodes
        /\ u[i] # u[a] /\ u[i] # u[a - 1]
    BY <1>10, <1>11, <1>12, <1>13, <1>17
  <2>2. l.next[u[i]] = u[i + 1]
    BY <1>10, <1>17
  <2>3. CASE q = 0
    BY <1>7, <1>14, <2>1, <2>2, <2>3
  <2>4. CASE q # 0
    <3>1. u[q - 1] \in Nodes /\ u[i] # u[q - 1]
      BY <1>10, <1>11, <1>12, <1>13, <1>17, <2>4
    <3>2. QED
      BY <1>7, <1>14, <2>1, <2>2, <2>4, <3>1
  <2>5. QED
    BY <2>3, <2>4
<1>18. \A i \in Nat : t[i] = u[Source(a, q, i)]
  BY <1>4 DEF MovedThread
<1>19. Strung(m, v, t)
  <2>1. m.head[v] = t[0]
    <3>1. CASE q = 0
      BY <1>7, <1>8, <1>14, <3>1
    <3>2. CASE q # 0
      <4>1. t[0] = u[0]
        <5>1. 0 \in Nat /\ 0 < q
          BY <3>2
        <5>2. QED
          BY <1>8, <5>1
      <4>2. QED
        BY <1>7, <1>10, <3>2, <4>1
    <3>3. QED
      BY <3>1, <3>2
  <2>2. m.vector_size[v] = k
    BY <1>7, <1>9
  <2>3. \A i \in Nat : Source(a, q, i) \in Nat /\ (Source(a, q, i) >= k) = (i >= k)
    BY <1>10 DEF Source
  <2>4. \A i \in Nat : (t[i] = nullptr) = (i >= k)
    BY <1>10, <1>18, <2>3
  <2>5. ASSUME NEW i \in Nat, NEW j \in Nat, t[i] # nullptr, t[i] = t[j]
        PROVE  i = j
    <3>1. u[Source(a, q, i)] = u[Source(a, q, j)] /\ Source(a, q, i) < k
      BY <1>10, <1>18, <2>3, <2>4, <2>5
    <3>2. Source(a, q, i) = Source(a, q, j)
      BY <1>10, <2>3, <3>1
    <3>3. QED
      BY <3>2, SourceOK
  <2>6. ASSUME NEW i \in Nat, t[i] # nullptr PROVE m.next[t[i]] = t[i + 1]
    <3>1. i < k /\ i + 1 \in Nat
      BY <1>10, <2>4, <2>6
    <3>2. CASE i = q
      <4>1. q < i + 1 /\ i + 1 <= a /\ i + 1 - 1 = q
        BY <3>2
      <4>2. t[i + 1] = u[q]
        BY <1>8, <3>1, <4>1
      <4>3. QED
        BY <1>8, <1>16, <3>2, <4>2
    <3>3. CASE q # 0 /\ i = q - 1
      <4>1. i < q /\ i + 1 = q
        BY <3>3
      <4>2. QED
        BY <1>8, <1>16, <3>3, <4>1
    <3>4. CASE i < q /\ ~ (q # 0 /\ i = q - 1)
      <4>1. i + 1 < q /\ i # a /\ i # a - 1
        BY <3>4
      <4>2. m.next[u[i]] = u[i + 1]
        BY <1>17, <3>1, <3>4, <4>1
      <4>3. QED
        BY <1>8, <3>1, <3>4, <4>1, <4>2
    <3>5. CASE q < i /\ i < a
      <4>1. /\ i - 1 \in Nat /\ i - 1 < k /\ i - 1 # a /\ i - 1 # a - 1
            /\ q = 0 \/ i - 1 # q - 1
            /\ q < i + 1 /\ i + 1 <= a /\ i + 1 - 1 = i /\ i - 1 + 1 = i
        BY <1>10, <3>5
      <4>2. m.next[u[i - 1]] = u[i]
        BY <1>17, <4>1
      <4>3. t[i] = u[i - 1] /\ t[i + 1] = u[i]
        BY <1>8, <3>1, <3>5, <4>1
      <4>4. QED
        BY <4>2, <4>3
    <3>6. CASE i = a
      <4>1. q < i /\ i <= a /\ i + 1 > a
        BY <3>6
      <4>2. t[i] = u[a - 1] /\ t[i + 1] = u[a + 1]
        BY <1>8, <3>1, <3>6, <4>1
      <4>3. QED
        BY <1>16, <4>2
    <3>7. CASE i > a
      <4>1. i # a /\ i # a - 1 /\ i # q - 1 /\ i + 1 > a
        BY <3>7
      <4>2. m.next[u[i]] = u[i + 1]
        BY <1>17, <3>1, <4>1
      <4>3. QED
        BY <1>8, <3>1, <3>7, <4>1, <4>2
    <3>8. QED
      BY <3>2, <3>3, <3>4, <3>5, <3>6, <3>7
  <2>7. QED
    BY <1>8, <1>10, <2>1, <2>2, <2>4, <2>5, <2>6 DEF Strung
<1>20. \A w \in Vectors \ {v} : m.head[w] = l.head[w]
  BY <1>7, <1>14
<1>21. \A n \in Nodes \ NodesOf(u) : n \in Allocated(l) \/ m.next[n] = Freed
  BY <1>15 DEF Allocated
<1>22. \A n \in NodesOf(t) : m.data[n] \in Values
  <2>1. NodesOf(u) \subseteq Allocated(l)
    BY <1>2, <1>5, OthersOK
  <2>2. QED
    BY <1>7, <1>8, <1>5, <2>1 DEF Threaded
<1>23. Allocated(l) \subseteq Nodes
  BY DEF Allocated
<1>24. Rethreads(l, p, v, m, t)
  <2>1. NodesOf(p[v]) = NodesOf(u) /\ NodesOf(t) = NodesOf(u)
    BY <1>8, <1>2
  <2>2. \A w \in Vectors \ {v} : m.vector_size[w] = l.vector_size[w]
    BY <1>7
  <2>3. \A n \in Allocated(l) \ NodesOf(u) :
          n \notin NodesOf(u) /\ m.next[n] = l.next[n] /\ m.data[n] = l.data[n]
    BY <1>7, <1>15, <1>23
  <2>4. \A n \in Nodes : \/ n \in NodesOf(u)
                         \/ n \in Allocated(l) \ NodesOf(u)
                         \/ m.next[n] = Freed
    BY <1>21
  <2>5. QED
    BY <1>7, <1>19, <1>20, <1>22, <2>1, <2>2, <2>3, <2>4 DEF Rethreads
<1>25. Relinks(l, p, v, m, t)
  BY <1>7, <1>24 DEF Relinks
<1>26. QED
  BY <1>25, <1>1, <1>2, <1>3, <1>4
-----------------------------------------------------------------------------
(* sort: the order of the elements *)

\* Of elements g and h of e, as they were before sort, g is put first.
Ahead(e, g, h) == Bigger(e[h], e[g]) \/ (~ Bigger(e[g], e[h]) /\ g < h)

\* The elements of e in the order r, the first a of them sorted, the others where they
\* were.
AreaSorted(e, r, a) ==
    /\ r \in [1 .. Len(e) -> 1 .. Len(e)]
    /\ \A i, j \in 1 .. Len(e) : r[i] = r[j] => i = j
    /\ \A i \in 1 .. Len(e) : i > a => r[i] = i
    /\ StrictOrder => \A i, j \in 1 .. Len(e) : i < j /\ j <= a => Ahead(e, r[i], r[j])

\* The sorted area holds the first elements.
LEMMA AreaHoldsFirst ==
    ASSUME NEW e, NEW r, NEW a \in Nat, Len(e) \in Nat, AreaSorted(e, r, a)
    PROVE  \A i \in 1 .. Len(e) : i <= a => r[i] <= a
<1>1. ASSUME NEW i \in 1 .. Len(e), i <= a PROVE r[i] <= a
  <2>1. r[i] \in 1 .. Len(e) /\ (r[i] > a => r[r[i]] = r[i])
    BY DEF AreaSorted
  <2>2. r[i] > a => r[i] = i
    BY <2>1 DEF AreaSorted
  <2>3. QED
    BY <1>1, <2>1, <2>2
<1>2. QED
  BY <1>1

\* An element that is not smaller than the one before it stays where it is.
LEMMA AreaGrows ==
    ASSUME NEW e \in Seq(Values), NEW r, NEW a \in Nat, a < Len(e),
           AreaSorted(e, r, a),
           \A j \in 1 .. Len(e) : j <= a => ~ Bigger(e[r[j]], e[a + 1])
    PROVE  AreaSorted(e, r, a + 1)
<1>1. Len(e) \in Nat
  OBVIOUS
<1>2. \A i \in 1 .. Len(e) : i <= a => r[i] <= a /\ r[i] \in 1 .. Len(e)
  BY <1>1, AreaHoldsFirst DEF AreaSorted
<1>3. a + 1 \in 1 .. Len(e) /\ r[a + 1] = a + 1
  BY <1>1 DEF AreaSorted
<1>4. ASSUME StrictOrder, NEW i \in 1 .. Len(e), NEW j \in 1 .. Len(e), i < j, j <= a + 1
      PROVE  Ahead(e, r[i], r[j])
  <2>1. CASE j = a + 1
    <3>1. i <= a
      BY <1>4, <2>1
    <3>2. ~ Bigger(e[r[i]], e[r[j]])
      BY <1>3, <2>1, <3>1
    <3>3. r[i] < r[j]
      BY <1>2, <1>3, <2>1, <3>1
    <3>4. QED
      BY <3>2, <3>3 DEF Ahead
  <2>2. CASE j # a + 1
    <3>1. j <= a
      BY <1>4, <2>2
    <3>2. QED
      BY <1>4, <3>1 DEF AreaSorted
  <2>3. QED
    BY <2>1, <2>2
<1>5. \A i \in 1 .. Len(e) : i > a + 1 => i > a
  BY <1>1
<1>6. QED
  BY <1>4, <1>5 DEF AreaSorted

\* The order after the element behind the sorted area went before the one at q + 1.
MovedOrder(e, r, a, q) == [i \in 1 .. Len(e) |-> r[Source(a, q, i - 1) + 1]]

LEMMA MovedOrderOK ==
    ASSUME NEW e \in Seq(Values), NEW r, NEW a \in Nat, a < Len(e),
           NEW q \in Nat, q < a,
           AreaSorted(e, r, a), NEW g, g = MovedOrder(e, r, a, q)
    PROVE  /\ g \in [1 .. Len(e) -> 1 .. Len(e)]
           /\ \A i, j \in 1 .. Len(e) : g[i] = g[j] => i = j
           /\ \A i \in 1 .. Len(e) : i > a + 1 => g[i] = i
           /\ g[q + 1] = a + 1
<1>1. Len(e) \in Nat
  OBVIOUS
<1>2. /\ r \in [1 .. Len(e) -> 1 .. Len(e)]
      /\ \A i, j \in 1 .. Len(e) : r[i] = r[j] => i = j
      /\ \A i \in 1 .. Len(e) : i > a => r[i] = i
  BY DEF AreaSorted
<1>3. \A i \in 1 .. Len(e) : i - 1 \in Nat /\ ~ (i - 1 >= Len(e))
  BY <1>1
<1>4. \A i \in 1 .. Len(e) :
        Source(a, q, i - 1) \in Nat /\ ~ (Source(a, q, i - 1) >= Len(e))
  BY <1>1, <1>3 DEF Source
<1>5. \A i \in 1 .. Len(e) : Source(a, q, i - 1) + 1 \in 1 .. Len(e)
  BY <1>1, <1>4
<1>6. \A i \in 1 .. Len(e) : g[i] = r[Source(a, q, i - 1) + 1]
  BY DEF MovedOrder
<1>7. g \in [1 .. Len(e) -> 1 .. Len(e)]
  BY <1>2, <1>5 DEF MovedOrder
<1>8. ASSUME NEW i \in 1 .. Len(e), NEW j \in 1 .. Len(e), g[i] = g[j] PROVE i = j
  <2>1. Source(a, q, i - 1) + 1 = Source(a, q, j - 1) + 1
    BY <1>2, <1>5, <1>6, <1>8
  <2>2. Source(a, q, i - 1) = Source(a, q, j - 1)
    BY <1>4, <2>1
  <2>3. i - 1 = j - 1
    BY <1>3, <2>2, SourceOK
  <2>4. QED
    BY <2>3
<1>9. ASSUME NEW i \in 1 .. Len(e), i > a + 1 PROVE g[i] = i
  <2>1. i - 1 \in Nat /\ i - 1 > a /\ i - 1 + 1 = i /\ i > a
    BY <1>9
  <2>2. Source(a, q, i - 1) = i - 1
    BY <2>1, SourceOK
  <2>3. QED
    BY <1>2, <1>6, <2>1, <2>2
<1>10. g[q + 1] = a + 1
  <2>1. /\ q + 1 \in 1 .. Len(e) /\ q + 1 - 1 = q
        /\ a + 1 \in 1 .. Len(e) /\ a + 1 > a
    BY <1>1
  <2>2. Source(a, q, q) = a
    BY SourceOK
  <2>3. QED
    BY <1>2, <1>6, <2>1, <2>2
<1>11. QED
  BY <1>7, <1>8, <1>9, <1>10

\* An element that goes before the first bigger one of the sorted area is in order.
LEMMA AreaTakes ==
    ASSUME NEW e \in Seq(Values), NEW r, NEW a \in Nat, a < Len(e),
           NEW q \in Nat, q < a,
           AreaSorted(e, r, a),
           Bigger(e[r[q + 1]], e[a + 1]),
           \A j \in 1 .. Len(e) : j <= q => ~ Bigger(e[r[j]], e[a + 1])
    PROVE  AreaSorted(e, MovedOrder(e, r, a, q), a + 1)
<1>1. PICK g : g = MovedOrder(e, r, a, q)
  OBVIOUS
<1>2. /\ g \in [1 .. Len(e) -> 1 .. Len(e)]
      /\ \A i, j \in 1 .. Len(e) : g[i] = g[j] => i = j
      /\ \A i \in 1 .. Len(e) : i > a + 1 => g[i] = i
      /\ g[q + 1] = a + 1
  BY <1>1, MovedOrderOK
<1>3. Len(e) \in Nat /\ e \in [1 .. Len(e) -> Values]
  OBVIOUS
<1>4. /\ r \in [1 .. Len(e) -> 1 .. Len(e)]
      /\ \A i \in 1 .. Len(e) : i <= a => r[i] < a + 1
  <2>1. \A i \in 1 .. Len(e) : i <= a => r[i] <= a
    BY <1>3, AreaHoldsFirst
  <2>2. r \in [1 .. Len(e) -> 1 .. Len(e)]
    BY DEF AreaSorted
  <2>3. QED
    BY <2>1, <2>2
\* Where the elements of the area came from.
<1>5. ASSUME NEW i \in 1 .. Len(e), i <= a + 1, i # q + 1
      PROVE  /\ Source(a, q, i - 1) + 1 \in 1 .. Len(e)
             /\ Source(a, q, i - 1) + 1 <= a
             /\ g[i] = r[Source(a, q, i - 1) + 1]
             /\ i <= q => Source(a, q, i - 1) + 1 <= q
             /\ i > q + 1 => Source(a, q, i - 1) + 1 >= q + 1
  <2>1. i - 1 \in Nat /\ i - 1 # q /\ i - 1 <= a
    BY <1>5
  <2>2. Source(a, q, i - 1) \in Nat /\ Source(a, q, i - 1) < a
    BY <2>1, SourceOK
  <2>3. g[i] = r[Source(a, q, i - 1) + 1]
    BY <1>1 DEF MovedOrder
  <2>4. i <= q => i - 1 < q
    OBVIOUS
  <2>5. i <= q => Source(a, q, i - 1) = i - 1
    BY <2>1, <2>4, SourceOK
  <2>6. i > q + 1 => q < i - 1
    OBVIOUS
  <2>7. i > q + 1 => Source(a, q, i - 1) = i - 1 - 1
    BY <2>1, <2>6, SourceOK
  <2>8. QED
    BY <1>3, <2>2, <2>3, <2>5, <2>7
<1>6. ASSUME StrictOrder, NEW i \in 1 .. Len(e), NEW j \in 1 .. Len(e), i < j, j <= a + 1
      PROVE  Ahead(e, g[i], g[j])
  <2>1. \A h, k \in 1 .. Len(e) : h < k /\ k <= a => Ahead(e, r[h], r[k])
    BY <1>6 DEF AreaSorted
  <2>2. CASE i # q + 1 /\ j # q + 1
    <3>1. PICK h, k : h = Source(a, q, i - 1) + 1 /\ k = Source(a, q, j - 1) + 1
      OBVIOUS
    <3>2. /\ h \in 1 .. Len(e) /\ k \in 1 .. Len(e) /\ k <= a
          /\ g[i] = r[h] /\ g[j] = r[k]
      <4>1. i <= a + 1
        BY <1>6
      <4>2. QED
        BY <1>5, <1>6, <2>2, <3>1, <4>1
    <3>3. h < k
      <4>1. i - 1 \in Nat /\ j - 1 \in Nat /\ i - 1 < j - 1 /\ i - 1 # q /\ j - 1 # q
        BY <1>6, <2>2
      <4>2. Source(a, q, i - 1) < Source(a, q, j - 1)
            /\ Source(a, q, i - 1) \in Nat /\ Source(a, q, j - 1) \in Nat
        BY <4>1 DEF Source
      <4>3. QED
        BY <3>1, <4>2
    <3>4. QED
      BY <2>1, <3>2, <3>3
  <2>3. CASE j = q + 1
    <3>1. i <= q /\ i <= a + 1 /\ i # q + 1
      BY <1>6, <2>3
    <3>2. PICK h : h = Source(a, q, i - 1) + 1
      OBVIOUS
    <3>3. h \in 1 .. Len(e) /\ h <= a /\ h <= q /\ g[i] = r[h]
      BY <1>5, <3>1, <3>2
    <3>4. ~ Bigger(e[g[i]], e[g[j]])
      BY <1>2, <2>3, <3>3
    <3>5. g[i] < g[j]
      BY <1>2, <1>4, <2>3, <3>3
    <3>6. QED
      BY <3>4, <3>5 DEF Ahead
  <2>4. CASE i = q + 1
    <3>1. j > q + 1 /\ j # q + 1
      BY <1>6, <2>4
    <3>2. PICK h : h = Source(a, q, j - 1) + 1
      OBVIOUS
    <3>3. h \in 1 .. Len(e) /\ h <= a /\ h >= q + 1 /\ g[j] = r[h]
      BY <1>5, <1>6, <3>1, <3>2
    <3>4. PICK x : x = e[a + 1]
      OBVIOUS
    <3>5. PICK y : y = e[r[q + 1]]
      OBVIOUS
    <3>6. PICK z : z = e[r[h]]
      OBVIOUS
    <3>7. q + 1 \in 1 .. Len(e) /\ a + 1 \in 1 .. Len(e)
      BY <1>3
    <3>8. x \in Values /\ y \in Values /\ z \in Values
      BY <1>3, <1>4, <3>3, <3>4, <3>5, <3>6, <3>7
    <3>9. Bigger(y, x)
      BY <3>4, <3>5
    <3>10. Bigger(z, x)
      <4>1. CASE h = q + 1
        BY <3>5, <3>6, <3>9, <4>1
      <4>2. CASE h # q + 1
        <5>1. Ahead(e, r[q + 1], r[h])
          <6>1. q + 1 < h
            BY <3>3, <4>2
          <6>2. QED
            BY <2>1, <3>3, <3>7, <6>1
        <5>2. Bigger(z, y) \/ ~ Bigger(y, z)
          BY <3>5, <3>6, <5>1 DEF Ahead
        <5>3. ~ Bigger(y, z)
          BY <1>6, <3>8, <5>2 DEF StrictOrder
        <5>4. QED
          BY <1>6, <3>8, <3>9, <5>3 DEF StrictOrder
      <4>3. QED
        BY <4>1, <4>2
    <3>11. e[g[i]] = x /\ e[g[j]] = z
      BY <1>2, <2>4, <3>3, <3>4, <3>6
    <3>12. Bigger(e[g[j]], e[g[i]])
      BY <3>10, <3>11
    <3>13. QED
      BY <3>12 DEF Ahead
  <2>5. QED
    BY <2>2, <2>3, <2>4
<1>7. AreaSorted(e, g, a + 1)
  BY <1>2, <1>6 DEF AreaSorted
<1>8. QED
  BY <1>1, <1>7
-----------------------------------------------------------------------------
(* sort: the loop *)

Reordered(e, r) == [i \in 1 .. Len(e) |-> e[r[i]]]

SortStates == [l : ListStates, iterator : Int, iterator_prev : Int, sorted_area_size : Int]

\* The loop of sort over v, which held c[v], with a elements sorted: p are the threads,
\* r is the order.
InLoop(c, v, s, a, p, r) ==
    /\ s \in SortStates /\ s.sorted_area_size = a
    /\ Threaded(s.l, p)
    /\ [c EXCEPT ![v] = Reordered(c[v], r)] = [w \in Vectors |-> Held(s.l, w, p[w])]
    /\ AreaSorted(c[v], r, a)
    /\ a \in 0 .. Len(c[v])
    /\ s.iterator = p[v][a]
    /\ a = 0 => s.iterator_prev = nullptr
    /\ a # 0 => s.iterator_prev = p[v][a - 1]

\* Where the loop may be after n turns.
Sorts(c, v, n) ==
    {s \in SortStates :
       \E a \in 0 .. Len(c[v]) : \E p, r :
          InLoop(c, v, s, a, p, r) /\ (a = n \/ (a = Len(c[v]) /\ a <= n))}

\* What the loop reads of the list.
Reads(c, v, s, p, r) ==
    /\ c[v] \in Seq(Values) /\ Len(c[v]) \in Nat
    /\ Strung(s.l, v, p[v]) /\ p[v] \in Threads
    /\ s.l.vector_size[v] = Len(c[v])
    /\ \A i \in Nat : (p[v][i] = nullptr) = (i >= Len(c[v]))
    /\ \A i \in 0 .. Len(c[v]) - 1 : get(s.l, v, i) = c[v][r[i + 1]]
    /\ \A i \in 0 .. Len(c[v]) - 1 : s.l.data[p[v][i]] = c[v][r[i + 1]]
    /\ \A w \in Vectors \ {v} : Held(s.l, w, p[w]) = c[w]

LEMMA LoopReads ==
    ASSUME NEW c \in [Vectors -> Seq(Values)], NEW v \in Vectors,
           NEW s, NEW a, NEW p, NEW r, InLoop(c, v, s, a, p, r)
    PROVE  Reads(c, v, s, p, r)
<1> DEFINE e == c[v]
           u == p[v]
           k == Len(e)
<1>1. PICK d : d = [c EXCEPT ![v] = Reordered(e, r)]
  OBVIOUS
<1>2. /\ d[v] = Reordered(e, r) /\ \A w \in Vectors \ {v} : d[w] = c[w]
      /\ e \in Seq(Values) /\ k \in Nat
  BY <1>1
<1>3. Threaded(s.l, p) /\ d = [w \in Vectors |-> Held(s.l, w, p[w])]
  BY <1>1 DEF InLoop
<1>4. Holds(s.l, d)
  BY <1>3 DEF Holds
<1>5. /\ s.l.vector_size[v] = Len(d[v]) /\ d[v] \in Seq(Values)
      /\ \A i \in 0 .. Len(d[v]) - 1 : get(s.l, v, i) = d[v][i + 1]
  BY <1>4, HoldsOK
<1>6. Len(d[v]) = k
  <2>1. DOMAIN d[v] = 1 .. k
    BY <1>2 DEF Reordered
  <2>2. DOMAIN d[v] = 1 .. Len(d[v]) /\ Len(d[v]) \in Nat
    BY <1>5, LenProperties
  <2>3. QED
    BY <1>2, <2>1, <2>2
<1>7. Strung(s.l, v, u) /\ u \in Threads
  <2>1. Strung(s.l, v, u)
    BY <1>3 DEF Threaded
  <2>2. QED
    BY <2>1 DEF Strung
<1>8. \A i \in 0 .. k - 1 : get(s.l, v, i) = e[r[i + 1]]
  <2>1. \A i \in 0 .. k - 1 : i + 1 \in 1 .. k
    BY <1>2
  <2>2. QED
    BY <1>2, <1>5, <1>6, <2>1 DEF Reordered
<1>9. \A i \in 0 .. k - 1 : i \in Nat /\ i < k
  BY <1>2
<1>10. \A i \in 0 .. k - 1 : get(s.l, v, i) = s.l.data[u[i]]
  BY <1>5, <1>6, <1>7, <1>9, GetOK
<1>11. \A w \in Vectors \ {v} : Held(s.l, w, p[w]) = c[w]
  BY <1>2, <1>3
<1>12. \A i \in Nat : (u[i] = nullptr) = (i >= k)
  BY <1>5, <1>6, <1>7 DEF Strung
<1>13. QED
  BY <1>2, <1>5, <1>6, <1>7, <1>8, <1>10, <1>11, <1>12 DEF Reads

\* What the loop finds when it looks for a place for the element behind the area.
Looks(c, v, s, a, p, r) ==
    /\ a \in Nat /\ a < Len(c[v])
    /\ Behind(s.l, v, s) = {i \in 0 .. a - 1 : Bigger(c[v][r[i + 1]], c[v][a + 1])}
    /\ s.l.next[s.iterator] = p[v][a + 1]
    /\ s.iterator_prev = nullptr => a = 0

LEMMA LoopLooks ==
    ASSUME NEW c \in [Vectors -> Seq(Values)], NEW v \in Vectors,
           NEW s, NEW a, NEW p, NEW r, InLoop(c, v, s, a, p, r),
           s.iterator # nullptr
    PROVE  Looks(c, v, s, a, p, r)
<1>1. PICK e : e = c[v]
  OBVIOUS
<1>2. PICK u : u = p[v]
  OBVIOUS
<1>3. /\ e \in Seq(Values) /\ Len(e) \in Nat
      /\ Strung(s.l, v, u)
      /\ \A i \in Nat : (u[i] = nullptr) = (i >= Len(e))
      /\ \A i \in 0 .. Len(e) - 1 : get(s.l, v, i) = e[r[i + 1]]
      /\ \A i \in 0 .. Len(e) - 1 : s.l.data[u[i]] = e[r[i + 1]]
  <2>1. Reads(c, v, s, p, r)
    BY LoopReads
  <2>2. QED
    BY <1>1, <1>2, <2>1 DEF Reads
<1>4. a \in 0 .. Len(e) /\ s.iterator = u[a] /\ s.sorted_area_size = a
  BY <1>1, <1>2 DEF InLoop
<1>5. a \in Nat /\ a < Len(e)
  BY <1>3, <1>4
<1>6. s.l.data[s.iterator] = e[a + 1]
  <2>1. a \in 0 .. Len(e) - 1 /\ a + 1 \in 1 .. Len(e) /\ a + 1 > a
    BY <1>3, <1>5
  <2>2. r[a + 1] = a + 1
    BY <1>1, <2>1 DEF InLoop, AreaSorted
  <2>3. QED
    BY <1>3, <1>4, <2>1, <2>2
<1>7. Behind(s.l, v, s) = {i \in 0 .. a - 1 : Bigger(e[r[i + 1]], e[a + 1])}
  <2>1. \A i \in 0 .. a - 1 : i \in 0 .. Len(e) - 1
    BY <1>3, <1>5
  <2>2. \A i \in 0 .. a - 1 : get(s.l, v, i) = e[r[i + 1]]
    BY <1>3, <2>1
  <2>3. QED
    BY <1>4, <1>6, <2>2 DEF Behind
<1>8. s.l.next[s.iterator] = u[a + 1]
  BY <1>3, <1>4, <1>5 DEF Strung
<1>9. ASSUME a # 0 PROVE s.iterator_prev # nullptr
  <2>1. s.iterator_prev = u[a - 1]
    BY <1>2, <1>9 DEF InLoop
  <2>2. a - 1 \in Nat /\ ~ (a - 1 >= Len(e))
    BY <1>3, <1>5, <1>9
  <2>3. QED
    BY <1>3, <2>1, <2>2
<1>10. QED
  BY <1>1, <1>2, <1>5, <1>7, <1>8, <1>9 DEF Looks

\* A turn that leaves the element where it is.
LEMMA TurnStays ==
    ASSUME NEW c \in [Vectors -> Seq(Values)], NEW v \in Vectors,
           NEW s, NEW a, NEW p, NEW r, InLoop(c, v, s, a, p, r),
           s.iterator # nullptr,
           s.iterator_prev = nullptr \/ Behind(s.l, v, s) = {}
    PROVE  InLoop(c, v, Turn(s, v), a + 1, p, r) /\ Turn(s, v) \in SortStates
<1>1. PICK e : e = c[v]
  OBVIOUS
<1>2. PICK u : u = p[v]
  OBVIOUS
<1>3. PICK x : x = u[a + 1]
  OBVIOUS
<1>4. /\ e \in Seq(Values) /\ Len(e) \in Nat /\ u \in Threads
  <2>1. Reads(c, v, s, p, r)
    BY LoopReads
  <2>2. QED
    BY <1>1, <1>2, <2>1 DEF Reads
<1>5. /\ a \in Nat /\ a < Len(e)
      /\ Behind(s.l, v, s) = {i \in 0 .. a - 1 : Bigger(e[r[i + 1]], e[a + 1])}
      /\ s.l.next[s.iterator] = x
      /\ s.iterator_prev = nullptr => a = 0
  <2>1. Looks(c, v, s, a, p, r)
    BY LoopLooks
  <2>2. QED
    BY <1>1, <1>2, <1>3, <2>1 DEF Looks
<1>6. PICK m : m = [l |-> s.l, iterator |-> x, iterator_prev |-> s.iterator,
                    sorted_area_size |-> a + 1]
  OBVIOUS
<1>7. s.sorted_area_size = a
  BY DEF InLoop
<1>8. Turn(s, v) = m
  BY <1>5, <1>6, <1>7 DEF Turn
<1>9. \A j \in 1 .. Len(e) : j <= a => ~ Bigger(e[r[j]], e[a + 1])
  <2> SUFFICES ASSUME NEW j \in 1 .. Len(e), j <= a, Bigger(e[r[j]], e[a + 1])
               PROVE  FALSE
    OBVIOUS
  <2>1. j - 1 \in 0 .. a - 1 /\ j - 1 + 1 = j /\ a # 0
    BY <1>4, <1>5
  <2>2. j - 1 \in Behind(s.l, v, s)
    BY <1>5, <2>1
  <2>3. QED
    BY <1>5, <2>1, <2>2
<1>10. AreaSorted(e, r, a)
  BY <1>1 DEF InLoop
<1>11. AreaSorted(e, r, a + 1)
  BY <1>4, <1>5, <1>9, <1>10, AreaGrows
<1>12. a + 1 \in 0 .. Len(e) /\ a + 1 # 0 /\ a + 1 - 1 = a /\ a + 1 \in Nat
  BY <1>4, <1>5
<1>13. x \in Int
  <2>1. x \in 0 .. NODES
    BY <1>3, <1>4, <1>12 DEF Threads
  <2>2. QED
    BY <2>1, VectorAssumption
<1>14. s.l \in ListStates /\ s.iterator \in Int
  BY DEF InLoop, SortStates
<1>15. m \in SortStates
  BY <1>6, <1>12, <1>13, <1>14 DEF SortStates
<1>16. /\ m.l = s.l /\ m.iterator = x /\ m.iterator_prev = s.iterator
       /\ m.sorted_area_size = a + 1
  BY <1>6
<1>17. InLoop(c, v, m, a + 1, p, r)
  <2>1. /\ Threaded(m.l, p)
        /\ [c EXCEPT ![v] = Reordered(c[v], r)] = [w \in Vectors |-> Held(m.l, w, p[w])]
    BY <1>16 DEF InLoop
  <2>2. m.iterator = p[v][a + 1] /\ m.iterator_prev = p[v][a]
    <3>1. s.iterator = p[v][a]
      BY DEF InLoop
    <3>2. QED
      BY <1>2, <1>3, <1>16, <3>1
  <2>3. AreaSorted(c[v], r, a + 1) /\ a + 1 \in 0 .. Len(c[v])
    BY <1>1, <1>11, <1>12
  <2>4. PICK n : n = a + 1
    OBVIOUS
  <2>5. n # 0 /\ m.iterator_prev = p[v][n - 1]
    <3>1. n # 0 /\ n - 1 = a
      BY <1>5, <1>12, <2>4
    <3>2. QED
      BY <2>2, <3>1
  <2>6. m.sorted_area_size = n /\ m.iterator = p[v][n]
    BY <1>16, <2>2, <2>4
  <2>7. AreaSorted(c[v], r, n) /\ n \in 0 .. Len(c[v])
    BY <2>3, <2>4
  <2>8. InLoop(c, v, m, n, p, r)
    BY <1>15, <2>1, <2>5, <2>6, <2>7 DEF InLoop
  <2>9. QED
    BY <2>4, <2>8
<1>18. QED
  BY <1>8, <1>15, <1>17
\* A list that is rethreaded leaves the others as they were.
Leaves(l, p, v, m, t) ==
    /\ Threaded(m, [p EXCEPT ![v] = t])
    /\ \A w \in Vectors \ {v} : Held(m, w, p[w]) = Held(l, w, p[w])

LEMMA RethreadedLeaves ==
    ASSUME NEW l, NEW p, Threaded(l, p), NEW v \in Vectors,
           NEW m, NEW t, Rethreads(l, p, v, m, t)
    PROVE  Leaves(l, p, v, m, t)
  BY Rethreaded DEF Leaves

\* A turn that puts the element before the first bigger one of the sorted area.
LEMMA TurnMoves ==
    ASSUME NEW c \in [Vectors -> Seq(Values)], NEW v \in Vectors,
           NEW s, NEW a, NEW p, NEW r, InLoop(c, v, s, a, p, r),
           s.iterator # nullptr, s.iterator_prev # nullptr, Behind(s.l, v, s) # {}
    PROVE  \E t, g : InLoop(c, v, Turn(s, v), a + 1, t, g) /\ Turn(s, v) \in SortStates
<1>1. PICK e : e = c[v]
  OBVIOUS
<1>2. PICK u : u = p[v]
  OBVIOUS
<1>3. PICK x : x = u[a + 1]
  OBVIOUS
<1>4. /\ e \in Seq(Values) /\ Len(e) \in Nat /\ u \in Threads
      /\ s.l.vector_size[v] = Len(e)
      /\ \A i \in 0 .. Len(e) - 1 : s.l.data[u[i]] = e[r[i + 1]]
      /\ \A w \in Vectors \ {v} : Held(s.l, w, p[w]) = c[w]
  <2>1. Reads(c, v, s, p, r)
    BY LoopReads
  <2>2. QED
    BY <1>1, <1>2, <2>1 DEF Reads
<1>5. /\ a \in Nat /\ a < Len(e)
      /\ Behind(s.l, v, s) = {i \in 0 .. a - 1 : Bigger(e[r[i + 1]], e[a + 1])}
      /\ s.l.next[s.iterator] = x
  <2>1. Looks(c, v, s, a, p, r)
    BY LoopLooks
  <2>2. QED
    BY <1>1, <1>2, <1>3, <2>1 DEF Looks
<1>6. Behind(s.l, v, s) \subseteq Nat
  BY <1>5
<1>7. PICK q \in Behind(s.l, v, s) : \A j \in Behind(s.l, v, s) : q <= j
  <2> HIDE DEF Behind
  <2>1. Behind(s.l, v, s) \in SUBSET Nat
    BY <1>6
  <2>2. QED
    BY <2>1, Smallest
<1>8. q \in Nat /\ q < a /\ a # 0 /\ Bigger(e[r[q + 1]], e[a + 1])
  BY <1>5, <1>7
<1>9. \A j \in 1 .. Len(e) : j <= q => ~ Bigger(e[r[j]], e[a + 1])
  <2> SUFFICES ASSUME NEW j \in 1 .. Len(e), j <= q, Bigger(e[r[j]], e[a + 1])
               PROVE  FALSE
    OBVIOUS
  <2>1. j - 1 \in 0 .. a - 1 /\ j - 1 + 1 = j /\ ~ (q <= j - 1)
    BY <1>4, <1>5, <1>8
  <2>2. j - 1 \in Behind(s.l, v, s)
    BY <1>5, <2>1
  <2>3. QED
    BY <1>7, <2>1, <2>2
<1>10. /\ s.l \in ListStates /\ Threaded(s.l, p)
       /\ s.iterator = u[a] /\ s.iterator_prev = u[a - 1]
       /\ s.iterator \in Int /\ s.iterator_prev \in Int
       /\ s.sorted_area_size = a
       /\ AreaSorted(e, r, a)
  BY <1>1, <1>2, <1>8 DEF InLoop, SortStates
<1>11. PICK b : b = Inserted(s.l, v, s)
  OBVIOUS
<1>12. PICK t : t = MovedThread(u, a, q)
  OBVIOUS
<1>13. PICK l : l = s.l
  OBVIOUS
<1>14. Rethreads(l, p, v, b, t) /\ b.vector_size = l.vector_size /\ b.data = l.data
  <2>1. /\ Threaded(s.l, p) /\ a < s.l.vector_size[v]
        /\ s.iterator = p[v][a] /\ s.iterator_prev = p[v][a - 1]
    BY <1>2, <1>4, <1>5, <1>10
  <2>2. Relinks(s.l, p, v, Inserted(s.l, v, s), MovedThread(p[v], a, q))
    BY <1>5, <1>6, <1>7, <1>8, <2>1, InsertedRethreads
  <2>3. Relinks(l, p, v, b, t)
    BY <1>2, <1>11, <1>12, <1>13, <2>2
  <2>4. QED
    BY <2>3 DEF Relinks
<1>15. /\ Threaded(b, [p EXCEPT ![v] = t])
       /\ \A w \in Vectors \ {v} : Held(b, w, p[w]) = Held(l, w, p[w])
  <2>1. Threaded(l, p) /\ Rethreads(l, p, v, b, t)
    BY <1>10, <1>13, <1>14
  <2>2. Leaves(l, p, v, b, t)
    BY <2>1, RethreadedLeaves
  <2>3. QED
    BY <2>2 DEF Leaves
<1>16. PICK g : g = MovedOrder(e, r, a, q)
  OBVIOUS
<1>17. AreaSorted(e, g, a + 1)
  BY <1>4, <1>5, <1>8, <1>9, <1>10, <1>16, AreaTakes
<1>18. PICK z : z = [p EXCEPT ![v] = t]
  OBVIOUS
<1>19. z[v] = t /\ \A w \in Vectors \ {v} : z[w] = p[w]
  BY <1>10, <1>18 DEF Threaded
\* What the list of v holds now.
<1>20. Held(b, v, t) = Reordered(e, g)
  <2>1. b.vector_size[v] = Len(e)
    BY <1>4, <1>13, <1>14
  <2>2. ASSUME NEW i \in 1 .. Len(e) PROVE b.data[t[i - 1]] = e[g[i]]
    <3>1. PICK h : h = Source(a, q, i - 1)
      OBVIOUS
    <3>2. i - 1 \in Nat /\ ~ (i - 1 >= Len(e))
      BY <1>4
    <3>3. h \in Nat /\ ~ (h >= Len(e))
      BY <1>4, <1>5, <1>8, <3>1, <3>2 DEF Source
    <3>4. h \in 0 .. Len(e) - 1
      BY <1>4, <3>3
    <3>5. t[i - 1] = u[h]
      BY <1>12, <3>1, <3>2 DEF MovedThread
    <3>6. g[i] = r[h + 1]
      BY <1>16, <3>1 DEF MovedOrder
    <3>7. QED
      BY <1>4, <1>13, <1>14, <3>4, <3>5, <3>6
  <2>3. QED
    BY <2>1, <2>2 DEF Held, Reordered
<1>21. [c EXCEPT ![v] = Reordered(e, g)] = [w \in Vectors |-> Held(b, w, z[w])]
  BY <1>4, <1>13, <1>15, <1>19, <1>20
<1>22. PICK m : m = [l |-> b, iterator |-> x, iterator_prev |-> s.iterator_prev,
                     sorted_area_size |-> a + 1]
  OBVIOUS
<1>23. Turn(s, v) = m
  BY <1>5, <1>10, <1>11, <1>22 DEF Turn
<1>24. t[a + 1] = x /\ t[a] = u[a - 1]
  <2>1. a + 1 \in Nat /\ a + 1 > a /\ a <= a
    BY <1>5
  <2>2. /\ \A i \in Nat : i < q \/ i > a => t[i] = u[i]
        /\ \A i \in Nat : q < i /\ i <= a => t[i] = u[i - 1]
    <3>1. Moves(t, u, a, q)
      BY <1>4, <1>5, <1>8, <1>12, MovedThreadOK
    <3>2. QED
      BY <3>1 DEF Moves
  <2>3. QED
    BY <1>3, <1>5, <1>8, <2>1, <2>2
<1>25. a + 1 \in 0 .. Len(e) /\ a + 1 # 0 /\ a + 1 - 1 = a /\ a + 1 \in Nat
  BY <1>4, <1>5
<1>26. x \in Int
  <2>1. x \in 0 .. NODES
    BY <1>3, <1>4, <1>25 DEF Threads
  <2>2. QED
    BY <2>1, VectorAssumption
<1>27. b \in ListStates
  BY <1>14 DEF Rethreads
<1>28. m \in SortStates
  BY <1>10, <1>22, <1>25, <1>26, <1>27 DEF SortStates
<1>29. /\ m.l = b /\ m.iterator = x /\ m.iterator_prev = s.iterator_prev
       /\ m.sorted_area_size = a + 1
  BY <1>22
<1>30. /\ Threaded(m.l, z)
       /\ m.iterator = z[v][a + 1] /\ m.iterator_prev = z[v][a + 1 - 1]
  BY <1>10, <1>15, <1>18, <1>19, <1>24, <1>25, <1>29
<1>31. InLoop(c, v, m, a + 1, z, g)
  BY <1>1, <1>17, <1>21, <1>25, <1>28, <1>29, <1>30 DEF InLoop
<1>32. QED
  BY <1>23, <1>28, <1>31

\* A turn of the loop, or the end of it.
LEMMA SortTurn ==
    ASSUME NEW c \in [Vectors -> Seq(Values)], NEW v \in Vectors, NEW n \in Nat,
           NEW s \in Sorts(c, v, n)
    PROVE  (IF s.iterator = nullptr THEN s ELSE Turn(s, v)) \in Sorts(c, v, n + 1)
<1>1. PICK a, p, r :
        /\ a \in 0 .. Len(c[v]) /\ InLoop(c, v, s, a, p, r)
        /\ (a = n \/ (a = Len(c[v]) /\ a <= n))
  BY DEF Sorts
<1>2. Len(c[v]) \in Nat
  BY <1>1, LoopReads DEF Reads
<1>3. CASE s.iterator = nullptr
  <2>1. a >= Len(c[v])
    <3>1. \A i \in Nat : (p[v][i] = nullptr) = (i >= Len(c[v]))
      BY <1>1, LoopReads DEF Reads
    <3>2. p[v][a] = nullptr /\ a \in Nat
      BY <1>1, <1>2, <1>3 DEF InLoop
    <3>3. QED
      BY <3>1, <3>2
  <2>2. a = Len(c[v]) /\ a <= n + 1
    BY <1>1, <1>2, <2>1
  <2>3. s \in SortStates
    BY <1>1 DEF InLoop
  <2>4. s \in Sorts(c, v, n + 1)
    BY <1>1, <2>2, <2>3 DEF Sorts
  <2>5. QED
    BY <1>3, <2>4
<1>4. CASE s.iterator # nullptr
  <2>1. PICK m : m = Turn(s, v)
    OBVIOUS
  <2>2. a < Len(c[v])
    BY <1>1, <1>4, LoopLooks DEF Looks
  <2>3. \E t, g : InLoop(c, v, m, a + 1, t, g) /\ m \in SortStates
    <3>1. CASE s.iterator_prev = nullptr \/ Behind(s.l, v, s) = {}
      BY <1>1, <1>4, <2>1, <3>1, TurnStays
    <3>2. CASE s.iterator_prev # nullptr /\ Behind(s.l, v, s) # {}
      BY <1>1, <1>4, <2>1, <3>2, TurnMoves
    <3>3. QED
      BY <3>1, <3>2
  <2>4. a + 1 = n + 1 /\ a + 1 \in 0 .. Len(c[v])
    BY <1>1, <1>2, <2>2
  <2>5. m \in Sorts(c, v, n + 1)
    BY <2>3, <2>4 DEF Sorts
  <2>6. QED
    BY <1>4, <2>1, <2>5
<1>5. QED
  BY <1>3, <1>4

\* sort leaves the elements of the vector in order.
LEMMA SortOK ==
    ASSUME NEW l, NEW c, Holds(l, c), NEW v \in Vectors
    PROVE  \E r : /\ AreaSorted(c[v], r, Len(c[v]))
                  /\ Holds(sort(l, v), [c EXCEPT ![v] = Reordered(c[v], r)])
<1>1. PICK N : N = NODES
  OBVIOUS
<1>2. /\ c \in [Vectors -> Seq(Values)] /\ N \in Nat
      /\ l \in ListStates /\ l.vector_size[v] = Len(c[v])
      /\ Len(c[v]) \in 0 .. N
  BY <1>1, HoldsOK, VectorAssumption
<1> DEFINE first == [l |-> l, iterator |-> l.head[v], iterator_prev |-> nullptr,
                     sorted_area_size |-> 0]
           Loop(f) ==
             f = [i \in 0 .. N |-> IF i = 0 THEN first
                                   ELSE IF f[i - 1].iterator = nullptr THEN f[i - 1]
                                   ELSE Turn(f[i - 1], v)]
           turn == CHOOSE f : Loop(f)
           S == [n \in Nat |-> Sorts(c, v, n)]
           F == [n \in 1 .. N |->
                   [s \in S[n - 1] |-> IF s.iterator = nullptr THEN s ELSE Turn(s, v)]]
<1>3. sort(l, v) = turn[N].l
  BY <1>1 DEF sort
<1>4. first \in S[0]
  <2>1. PICK p : Threaded(l, p) /\ c = [w \in Vectors |-> Held(l, w, p[w])]
    BY DEF Holds
  <2>2. PICK r : r = [i \in 1 .. Len(c[v]) |-> i]
    OBVIOUS
  <2>3. Reordered(c[v], r) = c[v]
    <3>1. c[v] = [i \in 1 .. Len(c[v]) |-> c[v][i]]
      BY <1>2
    <3>2. QED
      BY <2>2, <3>1 DEF Reordered
  <2>4. [c EXCEPT ![v] = Reordered(c[v], r)] = c
    BY <1>2, <2>3
  <2>5. AreaSorted(c[v], r, 0)
    <3>1. \A i, j \in 1 .. Len(c[v]) : i < j => ~ (j <= 0)
      BY <1>2
    <3>2. QED
      BY <2>2, <3>1 DEF AreaSorted
  <2>6. l.head[v] = p[v][0] /\ l.head[v] \in Int
    BY <1>2, <2>1 DEF Threaded, Strung, ListStates
  <2>7. first \in SortStates
    BY <1>2, <2>6 DEF SortStates, nullptr
  <2>8. /\ first.l = l /\ first.iterator = l.head[v] /\ first.iterator_prev = nullptr
        /\ first.sorted_area_size = 0
    OBVIOUS
  <2> HIDE DEF first
  <2>9. 0 \in 0 .. Len(c[v])
    BY <1>2
  <2>10. InLoop(c, v, first, 0, p, r)
    BY <2>1, <2>4, <2>5, <2>6, <2>7, <2>8, <2>9 DEF InLoop
  <2>11. first \in Sorts(c, v, 0)
    BY <2>7, <2>9, <2>10 DEF Sorts
  <2>12. QED
    BY <2>11
<1> HIDE DEF first
<1>5. ASSUME NEW n \in 1 .. N, NEW s \in S[n - 1]
      PROVE  (IF s.iterator = nullptr THEN s ELSE Turn(s, v)) \in S[n]
  <2>1. n - 1 \in Nat /\ n \in Nat /\ n - 1 + 1 = n
    BY <1>2
  <2>2. s \in Sorts(c, v, n - 1)
    BY <2>1
  <2>3. (IF s.iterator = nullptr THEN s ELSE Turn(s, v)) \in Sorts(c, v, n - 1 + 1)
    BY <1>2, <2>1, <2>2, SortTurn
  <2>4. QED
    BY <2>1, <2>3
<1>6. \A n \in 1 .. N : \A s \in S[n - 1] :
        F[n][s] = IF s.iterator = nullptr THEN s ELSE Turn(s, v)
  OBVIOUS
<1> HIDE DEF F
<1>7. Carries(N, F, S)
  BY <1>5, <1>6 DEF Carries
<1>8. PICK f : Runs(f, N, F, first) /\ \A n \in 0 .. N : f[n] \in S[n]
  BY <1>2, <1>4, <1>7, TurnsExist
<1>9. Loop(f)
  <2>1. f = [n \in 0 .. N |-> IF n = 0 THEN first ELSE F[n][f[n - 1]]]
    BY <1>8 DEF Runs
  <2>2. \A n \in 0 .. N : n # 0 => n \in 1 .. N /\ n - 1 \in 0 .. N
    BY <1>2
  <2>3. \A n \in 0 .. N : n # 0 =>
          F[n][f[n - 1]] = IF f[n - 1].iterator = nullptr THEN f[n - 1]
                           ELSE Turn(f[n - 1], v)
    BY <1>6, <1>8, <2>2
  <2> HIDE DEF S
  <2>4. QED
    BY <2>1, <2>3
<1>10. Loop(turn)
  BY <1>9
<1> HIDE DEF turn
<1>11. turn[0] \in S[0]
  BY <1>2, <1>4, <1>10
<1>12. \A n \in 1 .. N : turn[n - 1] \in S[n - 1] => turn[n] \in S[n]
  <2>1. \A n \in 1 .. N : n \in 0 .. N /\ n # 0
    BY <1>2
  <2>2. \A n \in 1 .. N :
          turn[n] = IF turn[n - 1].iterator = nullptr THEN turn[n - 1]
                    ELSE Turn(turn[n - 1], v)
    BY <1>10, <2>1
  <2>3. QED
    BY <1>5, <2>2
<1> HIDE DEF S
<1>13. \A n \in 0 .. N : turn[n] \in S[n]
  BY <1>2, <1>11, <1>12, TurnsKept
<1>14. turn[N] \in Sorts(c, v, N)
  BY <1>2, <1>13 DEF S
<1>15. PICK a, p, r :
         /\ a \in 0 .. Len(c[v]) /\ InLoop(c, v, turn[N], a, p, r)
         /\ (a = N \/ (a = Len(c[v]) /\ a <= N))
  BY <1>14 DEF Sorts
<1>16. a = Len(c[v])
  BY <1>2, <1>15
<1>17. Holds(turn[N].l, [c EXCEPT ![v] = Reordered(c[v], r)])
  BY <1>15 DEF InLoop, Holds
<1>18. AreaSorted(c[v], r, Len(c[v]))
  BY <1>15, <1>16 DEF InLoop
<1>19. QED
  BY <1>3, <1>17, <1>18
-----------------------------------------------------------------------------
(* What the calls promise *)

\* What a call may make of the sequences c that the vectors hold.
Promised(c, d) ==
    \E v \in Vectors :
       \/ \E x \in Values : d = [c EXCEPT ![v] = Append(c[v], x)]
       \/ \E j \in 0 .. Len(c[v]) - 1 : d = [c EXCEPT ![v] = Shortened(c[v], j)]
       \/ Len(c[v]) # 0 /\ d = [c EXCEPT ![v] = SubSeq(c[v], 1, Len(c[v]) - 1)]
       \/ \E w \in Vectors : d = [c EXCEPT ![v] = IF v = w THEN <<>> ELSE c[w]]
       \/ \E r : /\ AreaSorted(c[v], r, Len(c[v]))
                 /\ d = [c EXCEPT ![v] = Reordered(c[v], r)]

LEMMA HoldsInitially ==
    ASSUME VectorInit
    PROVE  Holds(lists, [v \in Vectors |-> <<>>])
<1>1. PICK l : l = lists
  OBVIOUS
<1>2. /\ l.head = [v \in Vectors |-> nullptr]
      /\ l.vector_size = [v \in Vectors |-> 0]
      /\ l.next = [n \in Nodes |-> Freed]
      /\ l \in ListStates
  BY <1>1 DEF VectorInit, Empty, ListStates, nullptr, Freed
<1>3. PICK t : t = [i \in Nat |-> nullptr]
  OBVIOUS
<1>4. t \in Threads /\ NodesOf(t) = {} /\ \A i \in Nat : t[i] = nullptr
  BY <1>3, VectorAssumption DEF Threads, NodesOf, nullptr
<1>5. \A v \in Vectors : Strung(l, v, t)
  BY <1>2, <1>4 DEF Strung
<1>6. PICK p : p = [v \in Vectors |-> t]
  OBVIOUS
<1>7. Allocated(l) = {}
  BY <1>2 DEF Allocated
<1>8. Threaded(l, p)
  BY <1>2, <1>4, <1>5, <1>6, <1>7 DEF Threaded
<1>9. \A v \in Vectors : Held(l, v, p[v]) = <<>>
  <2>1. \A v \in Vectors : l.vector_size[v] = 0
    BY <1>2
  <2>2. \A v \in Vectors : Held(l, v, p[v]) = [i \in 1 .. 0 |-> l.data[p[v][i - 1]]]
    BY <2>1 DEF Held
  <2>3. 1 .. 0 = {}
    OBVIOUS
  <2>4. QED
    BY <2>2, <2>3
<1>10. QED
  BY <1>1, <1>8, <1>9 DEF Holds

\* A call makes of the sequences what it promises.
LEMMA HoldsStep ==
    ASSUME NEW c, Holds(lists, c), VectorNext
    PROVE  \E d : Holds(lists', d) /\ Promised(c, d)
<1>1. PICK l : l = lists
  OBVIOUS
<1>2. Holds(l, c) /\ c \in [Vectors -> Seq(Values)]
      /\ \A v \in Vectors : l.vector_size[v] \in 0 .. NODES /\ l.vector_size[v] = Len(c[v])
  BY <1>1, HoldsOK
<1>3. PICK v \in Vectors :
        \/ AppendElement(v) \/ RemoveElement(v) \/ PopBack(v) \/ Sort(v)
        \/ \E w \in Vectors : Assign(v, w)
  BY DEF VectorNext
<1>4. CASE AppendElement(v)
  <2>1. PICK x \in Values : lists' = append(l, v, x) /\ FreeNodes(l) # {}
    BY <1>1, <1>4 DEF AppendElement
  <2>2. Holds(lists', [c EXCEPT ![v] = Append(c[v], x)])
    BY <1>2, <2>1, AppendOK
  <2>3. QED
    BY <2>2 DEF Promised
<1>5. CASE RemoveElement(v)
  <2>1. PICK j \in 0 .. NODES :
          ~ panic_if_illegal_index(l, v, j) /\ lists' = remove(l, v, j)
    BY <1>1, <1>5 DEF RemoveElement
  <2>2. j \in 0 .. l.vector_size[v] - 1
    BY <2>1 DEF panic_if_illegal_index
  <2>3. j \in Nat /\ j < l.vector_size[v] /\ j \in 0 .. Len(c[v]) - 1
    BY <1>2, <2>2
  <2>4. Holds(lists', [c EXCEPT ![v] = Shortened(c[v], j)])
    BY <1>2, <2>1, <2>3, RemoveOK
  <2>5. QED
    BY <2>3, <2>4 DEF Promised
<1>6. CASE PopBack(v)
  <2>1. l.vector_size[v] # 0 /\ lists' = pop_back(l, v)
    BY <1>1, <1>6 DEF PopBack
  <2>2. Holds(lists', [c EXCEPT ![v] = SubSeq(c[v], 1, Len(c[v]) - 1)])
    BY <1>2, <2>1, PopBackOK
  <2>3. QED
    BY <1>2, <2>1, <2>2 DEF Promised
<1>7. CASE Sort(v)
  <2>1. lists' = sort(l, v)
    BY <1>1, <1>7 DEF Sort
  <2>2. PICK r : /\ AreaSorted(c[v], r, Len(c[v]))
                 /\ Holds(lists', [c EXCEPT ![v] = Reordered(c[v], r)])
    BY <1>2, <2>1, SortOK
  <2>3. QED
    BY <2>2 DEF Promised
<1>8. ASSUME NEW w \in Vectors, Assign(v, w) PROVE \E d : Holds(lists', d) /\ Promised(c, d)
  <2>1. /\ l.vector_size[w] <= Cardinality(FreeNodes(l)) + l.vector_size[v]
        /\ lists' = assign(l, v, w)
    BY <1>1, <1>8 DEF Assign
  <2>2. Holds(lists', [c EXCEPT ![v] = IF v = w THEN <<>> ELSE c[w]])
    BY <1>2, <2>1, AssignOK
  <2>3. QED
    BY <2>2 DEF Promised
<1>9. QED
  BY <1>3, <1>4, <1>5, <1>6, <1>7, <1>8

LEMMA VectorInvStep == VectorInv /\ [VectorNext]_lists => VectorInv'
<1> SUFFICES ASSUME VectorInv, [VectorNext]_lists PROVE VectorInv'
  OBVIOUS
<1>1. PICK c : Holds(lists, c)
  BY DEF VectorInv
<1>2. CASE VectorNext
  <2>1. \E d : Holds(lists', d)
    BY <1>1, <1>2, HoldsStep
  <2>2. QED
    BY <2>1 DEF VectorInv, Holds, Threaded, Strung, Held, ListStates, Allocated
<1>3. CASE UNCHANGED lists
  <2>1. \E d : Holds(lists', d)
    BY <1>1, <1>3
  <2>2. QED
    BY <2>1 DEF VectorInv, Holds, Threaded, Strung, Held, ListStates, Allocated
<1>4. QED
  BY <1>2, <1>3

LEMMA HeldAreAccounted ==
    ASSUME VectorInv
    PROVE  NodesAccounted
<1>1. PICK c : Holds(lists, c)
  BY DEF VectorInv
<1>2. PICK p : Threaded(lists, p)
  BY <1>1 DEF Holds
<1>3. \A v \in Vectors :
        /\ Reached(lists, v) = NodesOf(p[v])
        /\ lists.vector_size[v] = Cardinality(NodesOf(p[v]))
  BY <1>2, ReachedOK, FitsNodes DEF Threaded
<1>4. \A v, w \in Vectors : v # w => NodesOf(p[v]) \cap NodesOf(p[w]) = {}
  BY <1>2 DEF Threaded
<1>5. Allocated(lists) = UNION {NodesOf(p[v]) : v \in Vectors}
  BY <1>2 DEF Threaded
<1>6. UNION {Reached(lists, v) : v \in Vectors} = UNION {NodesOf(p[v]) : v \in Vectors}
  BY <1>3
<1>7. QED
  BY <1>3, <1>4, <1>5, <1>6 DEF NodesAccounted

\* Whatever is appended, removed, copied and sorted, every node on the heap belongs to
\* exactly one vector, which counts it: no call of Vector leaks a node, deletes one twice
\* or leaves one in two lists (NodesAccounted).
THEOREM NodesStayAccounted == VectorSpec => []NodesAccounted
<1>1. VectorInit => VectorInv
  BY HoldsInitially DEF VectorInv
<1>2. VectorInv /\ [VectorNext]_lists => VectorInv'
  BY VectorInvStep
<1>3. VectorInv => NodesAccounted
  BY HeldAreAccounted
<1>4. QED
  BY <1>1, <1>2, <1>3, PTL DEF VectorSpec

\* What a call promises is what the sequences may do.
LEMMA PromisedIsAllowed ==
    ASSUME NEW c, Holds(lists, c), NEW d, Holds(lists', d), Promised(c, d)
    PROVE  Promise!Next
<1> DEFINE contents == [v \in Vectors |-> ContentOf(lists, v)]
<1>1. contents = c /\ c \in [Vectors -> Seq(Values)]
  BY HoldsOK
<1>2. contents' = d
  <2>1. \A v \in Vectors : ContentOf(lists', v) = d[v]
    BY HoldsOK
  <2>2. d = [v \in Vectors |-> d[v]]
    BY DEF Holds
  <2>3. contents' = [v \in Vectors |-> ContentOf(lists', v)]
    BY DEF ContentOf, get, get_node, Chain
  <2>4. QED
    BY <2>1, <2>2, <2>3
<1>3. ASSUME NEW v \in Vectors, NEW s, d = [c EXCEPT ![v] = s] PROVE Promise!Put(v, s)
  BY <1>1, <1>2, <1>3 DEF Promise!Put
<1>4. PICK v \in Vectors :
        \/ \E x \in Values : d = [c EXCEPT ![v] = Append(c[v], x)]
        \/ \E j \in 0 .. Len(c[v]) - 1 : d = [c EXCEPT ![v] = Shortened(c[v], j)]
        \/ Len(c[v]) # 0 /\ d = [c EXCEPT ![v] = SubSeq(c[v], 1, Len(c[v]) - 1)]
        \/ \E w \in Vectors : d = [c EXCEPT ![v] = IF v = w THEN <<>> ELSE c[w]]
        \/ \E r : /\ AreaSorted(c[v], r, Len(c[v]))
                  /\ d = [c EXCEPT ![v] = Reordered(c[v], r)]
  BY DEF Promised
<1>5. PICK e : e = c[v]
  OBVIOUS
<1>6. /\ e \in Seq(Values) /\ Len(e) \in Nat /\ DOMAIN e = 1 .. Len(e)
      /\ contents[v] = e
  BY <1>1, <1>5
<1>7. ASSUME NEW x \in Values, d = [c EXCEPT ![v] = Append(e, x)]
      PROVE  Promise!append(v, x)
  BY <1>3, <1>6, <1>7 DEF Promise!append
<1>8. ASSUME NEW j \in 0 .. Len(e) - 1, d = [c EXCEPT ![v] = Shortened(e, j)]
      PROVE  j + 1 \in DOMAIN e /\ Promise!remove(v, j + 1)
  <2>1. j + 1 \in DOMAIN e /\ j + 1 - 1 = j /\ j + 1 + 1 = j + 2
    BY <1>6
  <2>2. Promise!RemoveAt(e, j + 1) = Shortened(e, j)
    <3>1. PICK x : x = j + 1
      OBVIOUS
    <3>2. x - 1 = j /\ x + 1 = j + 2
      BY <2>1, <3>1
    <3>3. Promise!RemoveAt(e, x) = SubSeq(e, 1, x - 1) \o SubSeq(e, x + 1, Len(e))
      BY DEF Promise!RemoveAt
    <3>4. Promise!RemoveAt(e, x) = SubSeq(e, 1, j) \o SubSeq(e, j + 2, Len(e))
      BY <3>2, <3>3
    <3>5. QED
      BY <3>1, <3>4 DEF Shortened
  <2>3. Promise!Put(v, Promise!RemoveAt(e, j + 1))
    BY <1>3, <1>8, <2>2
  <2>4. QED
    BY <1>6, <2>1, <2>3 DEF Promise!remove
<1>9. ASSUME Len(e) # 0, d = [c EXCEPT ![v] = SubSeq(e, 1, Len(e) - 1)]
      PROVE  Promise!pop_back(v)
  <2>1. e # <<>>
    BY <1>9
  <2>2. Promise!Put(v, Promise!Front(e))
    BY <1>3, <1>9 DEF Promise!Front
  <2>3. QED
    BY <1>6, <2>1, <2>2 DEF Promise!pop_back
<1>10. ASSUME NEW w \in Vectors, d = [c EXCEPT ![v] = IF v = w THEN <<>> ELSE c[w]]
       PROVE  Promise!assign(v, w)
  BY <1>1, <1>3, <1>10 DEF Promise!assign
<1>11. ASSUME NEW r, AreaSorted(e, r, Len(e)), d = [c EXCEPT ![v] = Reordered(e, r)]
       PROVE  Promise!sort(v)
  <2>1. r \in Promise!Orders(e)
    BY <1>6, <1>11 DEF AreaSorted, Promise!Orders
  <2>2. Promise!InOrder(e, r)
    <3>1. \A i, j \in 1 .. Len(e) : i < j => Ahead(e, r[i], r[j])
      <4>1. \A j \in 1 .. Len(e) : j <= Len(e)
        BY <1>6
      <4>2. QED
        BY <1>11, <4>1, BiggerAssumption DEF AreaSorted
    <3>2. QED
      BY <1>6, <3>1 DEF Ahead, Promise!InOrder
  <2>3. Promise!Put(v, [i \in DOMAIN e |-> e[r[i]]])
    <3>1. Reordered(e, r) = [i \in DOMAIN e |-> e[r[i]]]
      BY <1>6 DEF Reordered
    <3>2. QED
      BY <1>3, <1>11, <3>1
  <2>4. QED
    BY <1>6, <2>1, <2>2, <2>3 DEF Promise!sort
<1>12. v \in DOMAIN contents /\ DOMAIN contents = Vectors
  OBVIOUS
<1>13. QED
  BY <1>4, <1>5, <1>6, <1>7, <1>8, <1>9, <1>10, <1>11, <1>12 DEF Promise!Next

\* The linked lists are the sequences they stand for: a call of Vector does to the
\* sequence what the class promises, and sort puts it in order and keeps the order of
\* equal elements.
THEOREM ListsAreSequences == VectorSpec => ImplementsLists
<1> DEFINE contents == [v \in Vectors |-> ContentOf(lists, v)]
<1>1. VectorInit => VectorInv /\ Promise!Init
  <2> SUFFICES ASSUME VectorInit PROVE VectorInv /\ Promise!Init
    OBVIOUS
  <2>1. Holds(lists, [v \in Vectors |-> <<>>])
    BY HoldsInitially
  <2>2. \A v \in Vectors : ContentOf(lists, v) = <<>>
    BY <2>1, HoldsOK
  <2>3. QED
    BY <2>1, <2>2 DEF VectorInv, Promise!Init
<1>2. VectorInv /\ [VectorNext]_lists => [Promise!Next]_contents
  <2> SUFFICES ASSUME VectorInv, [VectorNext]_lists PROVE [Promise!Next]_contents
    OBVIOUS
  <2>1. PICK c : Holds(lists, c)
    BY DEF VectorInv
  <2>2. CASE VectorNext
    <3>1. PICK d : Holds(lists', d) /\ Promised(c, d)
      BY <2>1, <2>2, HoldsStep
    <3>2. Promise!Next
      BY <2>1, <3>1, PromisedIsAllowed
    <3>3. QED
      BY <3>2
  <2>3. CASE UNCHANGED lists
    <3>1. UNCHANGED contents
      BY <2>3 DEF ContentOf, get, get_node, Chain
    <3>2. QED
      BY <3>1
  <2>4. QED
    BY <2>2, <2>3
<1>3. VectorInv /\ [VectorNext]_lists => VectorInv'
  BY VectorInvStep
<1>4. QED
  BY <1>1, <1>2, <1>3, PTL DEF VectorSpec, ImplementsLists, Promise!Spec

-----------------------------------------------------------------------------
(* Paths: the slashes of a text and the parts between them *)

LEMMA SliceOK ==
    ASSUME NEW S, NEW s \in Seq(S), NEW a \in Nat \ {0}, NEW b \in Nat,
           a <= b + 1, b <= Len(s)
    PROVE  /\ SubSeq(s, a, b) \in Seq(S)
           /\ Len(SubSeq(s, a, b)) = b - a + 1
           /\ \A i \in 1 .. b - a + 1 : SubSeq(s, a, b)[i] = s[a + i - 1]
<1>1. Len(s) \in Nat
  BY LenProperties
<1>2. \A i \in a .. b : i \in 1 .. Len(s)
  BY <1>1
<1>3. \A i \in a .. b : s[i] \in S
  BY <1>2, ElementOfSeq
<1>4. PICK r : r = SubSeq(s, a, b)
  OBVIOUS
<1>5. /\ r \in Seq(S) /\ Len(r) = IF a <= b THEN b - a + 1 ELSE 0
      /\ \A i \in 1 .. b - a + 1 : r[i] = s[a + i - 1]
  BY <1>3, <1>4, SubSeqProperties
<1>6. Len(r) = b - a + 1
  BY <1>5
<1>7. QED
  BY <1>4, <1>5, <1>6

\* Slices of two texts are the same when their characters are.
LEMMA SameSlice ==
    ASSUME NEW S, NEW s \in Seq(S), NEW t \in Seq(S),
           NEW a \in Nat \ {0}, NEW b \in Nat, a <= b + 1, b <= Len(s), b <= Len(t),
           \A i \in a .. b : s[i] = t[i]
    PROVE  SubSeq(s, a, b) = SubSeq(t, a, b)
<1>1. \A i \in 1 .. b - a + 1 : a + i - 1 \in a .. b
  OBVIOUS
<1>2. PICK x, y : x = SubSeq(s, a, b) /\ y = SubSeq(t, a, b)
  OBVIOUS
<1>3. /\ x \in Seq(S) /\ Len(x) = b - a + 1
      /\ \A i \in 1 .. b - a + 1 : x[i] = s[a + i - 1]
  BY <1>2, SliceOK
<1>4. /\ y \in Seq(S) /\ Len(y) = b - a + 1
      /\ \A i \in 1 .. b - a + 1 : y[i] = t[a + i - 1]
  BY <1>2, SliceOK
<1>5. \A i \in 1 .. Len(x) : x[i] = y[i]
  BY <1>1, <1>3, <1>4
<1>6. x = y
  BY <1>3, <1>4, <1>5, SeqEqual
<1>7. QED
  BY <1>2, <1>6

LEMMA ShiftedSlice ==
    ASSUME NEW S, NEW s \in Seq(S), NEW t \in Seq(S),
           NEW a \in Nat \ {0}, NEW b \in Nat, a <= b + 1, b <= Len(s),
           NEW c \in Nat \ {0}, NEW d \in Nat, d <= Len(t), NEW k \in Int,
           c = a + k, d = b + k, \A i \in a .. b : s[i] = t[i + k]
    PROVE  SubSeq(s, a, b) = SubSeq(t, c, d)
<1>1. \A i \in 1 .. b - a + 1 : a + i - 1 \in a .. b /\ c + i - 1 = (a + i - 1) + k
  OBVIOUS
<1>2. PICK x, y : x = SubSeq(s, a, b) /\ y = SubSeq(t, c, d)
  OBVIOUS
<1>3. /\ x \in Seq(S) /\ Len(x) = b - a + 1
      /\ \A i \in 1 .. b - a + 1 : x[i] = s[a + i - 1]
  BY <1>2, SliceOK
<1>4. c <= d + 1 /\ d - c + 1 = b - a + 1
  OBVIOUS
<1>5. /\ y \in Seq(S) /\ Len(y) = d - c + 1
      /\ \A i \in 1 .. d - c + 1 : y[i] = t[c + i - 1]
  BY <1>2, <1>4, SliceOK
<1>6. \A i \in 1 .. Len(x) : x[i] = y[i]
  BY <1>1, <1>3, <1>4, <1>5
<1>7. Len(x) = Len(y)
  BY <1>3, <1>4, <1>5
<1>8. x = y
  BY <1>3, <1>5, <1>6, <1>7, SeqEqual
<1>9. QED
  BY <1>2, <1>8

\* The slashes of a text are at at[1], ..., at[m]; at[m + 1] is behind its end.  The
\* text starts with a slash unless it is empty.
Marks(text, at, m) ==
    /\ text \in Seq(Characters)
    /\ m \in Nat /\ at \in [1 .. m + 1 -> Nat \ {0}]
    /\ at[1] = 1 /\ at[m + 1] = Len(text) + 1
    /\ \A i, j \in 1 .. m + 1 : i < j => at[i] < at[j]
    /\ \A i \in 1 .. m : text[at[i]] = Slash
    /\ \A x \in 1 .. Len(text) : text[x] = Slash => \E i \in 1 .. m : at[i] = x

Part(text, at, i) == SubSeq(text, at[i] + 1, at[i + 1] - 1)
PartsOf(text, at, k) == [i \in 1 .. k |-> Part(text, at, i)]

LEMMA MarksFit ==
    ASSUME NEW text, NEW at, NEW m, Marks(text, at, m)
    PROVE  /\ Len(text) \in Nat /\ m \in Nat
           /\ \A i \in 1 .. m : /\ at[i] \in 1 .. Len(text)
                                /\ at[i + 1] \in 2 .. Len(text) + 1
                                /\ at[i] < at[i + 1]
<1>1. Len(text) \in Nat /\ m \in Nat
  BY LenProperties DEF Marks
<1>2. ASSUME NEW i \in 1 .. m
      PROVE  at[i] \in 1 .. Len(text) /\ at[i + 1] \in 2 .. Len(text) + 1 /\ at[i] < at[i + 1]
  <2>1. i \in 1 .. m + 1 /\ i + 1 \in 1 .. m + 1 /\ m + 1 \in 1 .. m + 1 /\ i < i + 1 /\ i < m + 1
    BY <1>1
  <2>2. /\ at[i] \in Nat \ {0} /\ at[i + 1] \in Nat \ {0} /\ at[m + 1] = Len(text) + 1
        /\ at[i] < at[i + 1] /\ at[i] < at[m + 1]
        /\ i + 1 < m + 1 => at[i + 1] < at[m + 1]
    BY <2>1 DEF Marks
  <2>3. i + 1 < m + 1 \/ i + 1 = m + 1
    BY <1>1
  <2>4. at[i + 1] <= Len(text) + 1
    BY <1>1, <2>2, <2>3
  <2>5. QED
    BY <1>1, <2>2, <2>4
<1>3. QED
  BY <1>1, <1>2

LEMMA PartOK ==
    ASSUME NEW text, NEW at, NEW m, Marks(text, at, m), NEW i \in 1 .. m
    PROVE  /\ Part(text, at, i) \in Seq(Characters)
           /\ Len(Part(text, at, i)) = at[i + 1] - 1 - at[i]
<1>1. Len(text) \in Nat /\ at[i] \in 1 .. Len(text) /\ at[i + 1] \in 2 .. Len(text) + 1
      /\ at[i] < at[i + 1]
  BY MarksFit
<1>2. PICK x, y : x = at[i] /\ y = at[i + 1]
  OBVIOUS
<1>3. /\ x + 1 \in Nat \ {0} /\ y - 1 \in Nat /\ x + 1 <= (y - 1) + 1
      /\ y - 1 <= Len(text) /\ (y - 1) - (x + 1) + 1 = y - 1 - x
  BY <1>1, <1>2
<1>4. text \in Seq(Characters)
  BY DEF Marks
<1>5. /\ SubSeq(text, x + 1, y - 1) \in Seq(Characters)
      /\ Len(SubSeq(text, x + 1, y - 1)) = (y - 1) - (x + 1) + 1
  BY <1>3, <1>4, SliceOK
<1>6. QED
  BY <1>2, <1>3, <1>5 DEF Part

\* The slashes up to at[n] are n.
LEMMA CountMarks ==
    ASSUME NEW text, NEW at, NEW m, Marks(text, at, m), NEW n \in 0 .. m
    PROVE  /\ IsFiniteSet({at[i] : i \in 1 .. n})
           /\ Cardinality({at[i] : i \in 1 .. n}) = n
<1> DEFINE T == {at[i] : i \in 1 .. n}
           f == [i \in 1 .. n |-> at[i]]
<1>1. \A i, j \in 1 .. n : at[i] = at[j] => i = j
  <2>1. m \in Nat /\ \A i \in 1 .. n : i \in 1 .. m + 1
    BY MarksFit
  <2>2. \A i, j \in 1 .. n : i < j => at[i] < at[j]
    BY <2>1 DEF Marks
  <2>3. \A i \in 1 .. n : at[i] \in Nat
    BY <2>1 DEF Marks
  <2>4. \A i, j \in 1 .. n : i < j \/ j < i \/ i = j
    OBVIOUS
  <2>5. QED
    BY <2>2, <2>3, <2>4
<1>2. IsFiniteSet(1 .. n) /\ Cardinality(1 .. n) = n
  <2>1. n \in Nat /\ (1 > n => n = 0) /\ n - 1 + 1 = n
    BY MarksFit
  <2>2. IsFiniteSet(1 .. n) /\ Cardinality(1 .. n) = IF 1 > n THEN 0 ELSE n - 1 + 1
    BY <2>1, FS_Interval
  <2>3. QED
    BY <2>1, <2>2
<1>3. f \in Bijection(1 .. n, T)
  BY <1>1 DEF Injection, IsInjective, Surjection, Bijection
<1>4. ExistsBijection(1 .. n, T)
  BY <1>3 DEF ExistsBijection
<1> HIDE DEF T
<1>5. IsFiniteSet(T) /\ Cardinality(T) = n
  BY <1>2, <1>4, FS_Bijection
<1>6. QED
  BY <1>5 DEF T

LEMMA SlashesAre ==
    ASSUME NEW text, NEW at, NEW m, Marks(text, at, m)
    PROVE  Slashes(text) = {at[i] : i \in 1 .. m}
<1>1. DOMAIN text = 1 .. Len(text)
  BY LenProperties DEF Marks
<1>2. \A i \in 1 .. m : at[i] \in 1 .. Len(text)
  BY MarksFit
<1>3. QED
  BY <1>1, <1>2 DEF Marks, Slashes

LEMMA SlashesUpTo ==
    ASSUME NEW text, NEW at, NEW m, Marks(text, at, m), NEW n \in 1 .. m
    PROVE  Cardinality({j \in Slashes(text) : j <= at[n]}) = n
<1>1. m \in Nat /\ \A i \in 1 .. m : i \in 1 .. m + 1 /\ at[i] \in Nat
  BY MarksFit DEF Marks
<1>2. \A i \in 1 .. m : at[i] <= at[n] <=> i <= n
  <2>1. \A i \in 1 .. m : /\ i < n => at[i] < at[n]
                          /\ n < i => at[n] < at[i]
    BY <1>1 DEF Marks
  <2>2. \A i \in 1 .. m : i < n \/ n < i \/ i = n
    BY <1>1
  <2>3. QED
    BY <1>1, <2>1, <2>2
<1>3. \A i : i \in 1 .. n <=> i \in 1 .. m /\ i <= n
  BY <1>1
<1>4. {j \in Slashes(text) : j <= at[n]} = {at[i] : i \in 1 .. n}
  BY <1>2, <1>3, SlashesAre
<1>5. n \in 0 .. m
  BY <1>1
<1>6. QED
  BY <1>4, <1>5, CountMarks

\* What the text calls its n-th slash.
LEMMA NthSlashIs ==
    ASSUME NEW text, NEW at, NEW m, Marks(text, at, m)
    PROVE  /\ Cardinality(Slashes(text)) = m
           /\ \A n \in 1 .. m + 1 : NthSlash(text, n) = at[n]
<1>1. m \in Nat /\ m \in 0 .. m
  BY MarksFit
<1>2. Cardinality(Slashes(text)) = m
  BY <1>1, SlashesAre, CountMarks
<1>3. ASSUME NEW n \in 1 .. m PROVE NthSlash(text, n) = at[n]
  <2> DEFINE nth == {i \in Slashes(text) : Cardinality({j \in Slashes(text) : j <= i}) = n}
  <2>1. at[n] \in nth
    BY SlashesAre, SlashesUpTo
  <2>2. \A i \in nth : i = at[n]
    BY SlashesAre, SlashesUpTo
  <2>3. NthSlash(text, n) = CHOOSE i \in nth : TRUE
    BY <2>1 DEF NthSlash
  <2> HIDE DEF nth
  <2>4. QED
    BY <2>1, <2>2, <2>3
<1>4. NthSlash(text, m + 1) = at[m + 1]
  <2> DEFINE nth == {i \in Slashes(text) : Cardinality({j \in Slashes(text) : j <= i}) = m + 1}
  <2>1. \A i \in 1 .. m : i # m + 1
    BY <1>1
  <2>2. nth = {}
    BY <2>1, SlashesAre, SlashesUpTo
  <2>3. NthSlash(text, m + 1) = Len(text) + 1
    BY <2>2 DEF NthSlash
  <2>4. QED
    BY <2>3 DEF Marks
<1>5. \A n \in 1 .. m + 1 : n \in 1 .. m \/ n = m + 1
  BY <1>1
<1>6. QED
  BY <1>2, <1>3, <1>4, <1>5

LEMMA PartsOK ==
    ASSUME NEW text, NEW at, NEW m, Marks(text, at, m), NEW k \in 0 .. m
    PROVE  /\ PartsOf(text, at, k) \in Seq(Seq(Characters))
           /\ Len(PartsOf(text, at, k)) = k
           /\ \A i \in 1 .. k : PartsOf(text, at, k)[i] = Part(text, at, i)
<1>1. k \in Nat /\ \A i \in 1 .. k : i \in 1 .. m
  BY MarksFit
<1>2. \A i \in 1 .. k : Part(text, at, i) \in Seq(Characters)
  BY <1>1, PartOK
<1>3. PICK s : s = PartsOf(text, at, k)
  OBVIOUS
<1>4. s \in [1 .. k -> Seq(Characters)] /\ \A i \in 1 .. k : s[i] = Part(text, at, i)
  BY <1>2, <1>3 DEF PartsOf
<1>5. s \in Seq(Seq(Characters))
  BY <1>1, <1>4, SeqDef
<1>6. Len(s) \in Nat /\ DOMAIN s = 1 .. Len(s) /\ DOMAIN s = 1 .. k
  BY <1>4, <1>5, LenProperties
<1>7. Len(s) = k
  <2>1. ASSUME NEW a \in Nat, NEW b \in Nat, 1 .. a = 1 .. b PROVE a = b
    <3>1. \A i \in Nat \ {0} : i <= a <=> i <= b
      BY <2>1
    <3>2. QED
      BY <3>1
  <2>2. QED
    BY <1>1, <1>6, <2>1
<1>8. QED
  BY <1>3, <1>4, <1>5, <1>7

LEMMA PartsGrow ==
    ASSUME NEW text, NEW at, NEW m, Marks(text, at, m), NEW k \in 1 .. m
    PROVE  PartsOf(text, at, k) = Append(PartsOf(text, at, k - 1), Part(text, at, k))
<1>1. m \in Nat /\ k \in 0 .. m /\ k - 1 \in 0 .. m
  BY MarksFit
<1>2. PICK s, t, p : /\ s = PartsOf(text, at, k - 1) /\ t = PartsOf(text, at, k)
                     /\ p = Part(text, at, k)
  OBVIOUS
<1>3. /\ s \in Seq(Seq(Characters)) /\ Len(s) = k - 1
      /\ \A i \in 1 .. k - 1 : s[i] = Part(text, at, i)
  BY <1>1, <1>2, PartsOK
<1>4. /\ t \in Seq(Seq(Characters)) /\ Len(t) = k
      /\ \A i \in 1 .. k : t[i] = Part(text, at, i)
  BY <1>1, <1>2, PartsOK
<1>5. p \in Seq(Characters)
  BY <1>2, PartOK
<1>6. PICK r : r = Append(s, p)
  OBVIOUS
<1>7. /\ r \in Seq(Seq(Characters)) /\ Len(r) = Len(s) + 1
      /\ \A i \in 1 .. Len(s) : r[i] = s[i]
      /\ r[Len(s) + 1] = p
  BY <1>3, <1>5, <1>6, AppendProperties
<1>8. Len(s) + 1 = k /\ Len(r) = Len(t)
  BY <1>1, <1>3, <1>4, <1>7
<1>9. ASSUME NEW i \in 1 .. Len(t) PROVE r[i] = t[i]
  <2>1. i \in 1 .. k - 1 \/ i = k
    BY <1>1, <1>4
  <2>2. CASE i \in 1 .. k - 1
    BY <1>3, <1>4, <1>7, <2>2
  <2>3. CASE i = k
    BY <1>2, <1>4, <1>7, <1>8, <2>3
  <2>4. QED
    BY <2>1, <2>2, <2>3
<1>10. r = t
  BY <1>4, <1>7, <1>8, <1>9, SeqEqual
<1>11. QED
  BY <1>2, <1>6, <1>10

-----------------------------------------------------------------------------
(* Paths: the loop of fill_vector *)

\* What the loop has in its hands behind u: the parts that ended, and the last one.
ScanAt(u, at, m, r) ==
    /\ Marks(u, at, m) /\ m # 0
    /\ r = [parts |-> PartsOf(u, at, m - 1), s |-> FromText(SubSeq(u, at[m] + 1, Len(u)))]

\* Parts of a text are parts of a longer one, with the same marks.
LEMMA PartsStay ==
    ASSUME NEW u, NEW at, NEW m, Marks(u, at, m), NEW c \in Characters,
           NEW to, NEW k \in 0 .. m,
           \A i \in 1 .. k + 1 : to[i] = at[i]
    PROVE  PartsOf(Append(u, c), to, k) = PartsOf(u, at, k)
<1>1. PICK v : v = Append(u, c)
  OBVIOUS
<1>2. /\ u \in Seq(Characters) /\ v \in Seq(Characters) /\ Len(u) \in Nat
      /\ Len(v) = Len(u) + 1
      /\ \A i \in 1 .. Len(u) : v[i] = u[i]
  BY <1>1, AppendProperties, MarksFit DEF Marks
<1>3. ASSUME NEW i \in 1 .. k PROVE Part(v, to, i) = Part(u, at, i)
  <2>1. m \in Nat /\ i \in 1 .. m /\ i \in 1 .. k + 1 /\ i + 1 \in 1 .. k + 1
    BY MarksFit
  <2>2. PICK x, y : x = at[i] /\ y = at[i + 1]
    OBVIOUS
  <2>3. x \in 1 .. Len(u) /\ y \in 2 .. Len(u) + 1 /\ x < y
    BY <2>1, <2>2, MarksFit
  <2>4. /\ x + 1 \in Nat \ {0} /\ y - 1 \in Nat /\ x + 1 <= (y - 1) + 1
        /\ y - 1 <= Len(u) /\ y - 1 <= Len(v)
    BY <1>2, <2>3
  <2>5. \A j \in x + 1 .. y - 1 : v[j] = u[j]
    <3>1. \A j \in x + 1 .. y - 1 : j \in 1 .. Len(u)
      BY <1>2, <2>3
    <3>2. QED
      BY <1>2, <3>1
  <2>6. SubSeq(v, x + 1, y - 1) = SubSeq(u, x + 1, y - 1)
    BY <1>2, <2>4, <2>5, SameSlice
  <2>7. QED
    BY <2>1, <2>2, <2>6 DEF Part
<1>4. QED
  BY <1>1, <1>3 DEF PartsOf

LEMMA ScanSlash ==
    ASSUME NEW u, NEW at, NEW m, NEW r, ScanAt(u, at, m, r), Slash \in Characters
    PROVE  \E to : ScanAt(Append(u, Slash), to, m + 1, FillStep(r, Slash))
<1> DEFINE to == [i \in 1 .. (m + 1) + 1 |-> IF i <= m + 1 THEN at[i] ELSE Len(u) + 2]
<1>1. PICK v : v = Append(u, Slash)
  OBVIOUS
<1>2. /\ Marks(u, at, m) /\ u \in Seq(Characters) /\ Len(u) \in Nat /\ m \in Nat \ {0}
      /\ at \in [1 .. m + 1 -> Nat \ {0}] /\ at[1] = 1 /\ at[m + 1] = Len(u) + 1
      /\ \A i, j \in 1 .. m + 1 : i < j => at[i] < at[j]
  BY MarksFit DEF ScanAt, Marks
<1>3. /\ v \in Seq(Characters) /\ Len(v) = Len(u) + 1
      /\ \A i \in 1 .. Len(u) : v[i] = u[i]
      /\ v[Len(u) + 1] = Slash
  BY <1>1, <1>2, AppendProperties
<1>4. \A i \in 1 .. m + 1 : i \in 1 .. (m + 1) + 1 /\ to[i] = at[i] /\ at[i] \in 1 .. Len(u) + 1
  <2>1. \A i \in 1 .. m + 1 : i \in 1 .. (m + 1) + 1 /\ i <= m + 1
    BY <1>2
  <2>2. \A i \in 1 .. m + 1 : i \in 1 .. m \/ i = m + 1
    BY <1>2
  <2>3. \A i \in 1 .. m : at[i] \in 1 .. Len(u)
    BY <1>2, MarksFit
  <2>4. \A i \in 1 .. m + 1 : at[i] \in 1 .. Len(u) + 1
    BY <1>2, <2>2, <2>3
  <2>5. QED
    BY <2>1, <2>4
<1>5. to[(m + 1) + 1] = Len(u) + 2 /\ to \in [1 .. (m + 1) + 1 -> Nat \ {0}]
  <2>1. (m + 1) + 1 \in 1 .. (m + 1) + 1 /\ ~ ((m + 1) + 1 <= m + 1)
        /\ \A i \in 1 .. (m + 1) + 1 : i <= m + 1 => i \in 1 .. m + 1
    BY <1>2
  <2>2. QED
    BY <1>2, <2>1
<1>6. \A i \in 1 .. (m + 1) + 1 : i \in 1 .. m + 1 \/ i = (m + 1) + 1
  BY <1>2
<1> HIDE DEF to
<1>7. Marks(v, to, m + 1)
  <2>1. to[1] = 1 /\ to[(m + 1) + 1] = Len(v) + 1
    <3>1. 1 \in 1 .. m + 1
      BY <1>2
    <3>2. QED
      BY <1>2, <1>3, <1>4, <1>5, <3>1
  <2>2. ASSUME NEW i \in 1 .. (m + 1) + 1, NEW j \in 1 .. (m + 1) + 1, i < j
        PROVE  to[i] < to[j]
    <3>1. i \in 1 .. m + 1
      BY <1>2, <2>2
    <3>2. CASE j \in 1 .. m + 1
      BY <1>2, <1>4, <2>2, <3>1, <3>2
    <3>3. CASE j = (m + 1) + 1
      <4>1. to[i] \in 1 .. Len(u) + 1 /\ to[j] = Len(u) + 2
        BY <1>4, <1>5, <3>1, <3>3
      <4>2. QED
        BY <1>2, <4>1
    <3>4. QED
      BY <1>6, <3>2, <3>3
  <2>3. ASSUME NEW i \in 1 .. m + 1 PROVE v[to[i]] = Slash
    <3>1. i \in 1 .. m \/ i = m + 1
      BY <1>2
    <3>2. CASE i \in 1 .. m
      BY <1>2, <1>3, <1>4, <3>2, MarksFit DEF Marks
    <3>3. CASE i = m + 1
      BY <1>2, <1>3, <1>4, <3>3
    <3>4. QED
      BY <3>1, <3>2, <3>3
  <2>4. ASSUME NEW x \in 1 .. Len(v), v[x] = Slash PROVE \E i \in 1 .. m + 1 : to[i] = x
    <3>1. x \in 1 .. Len(u) \/ x = Len(u) + 1
      BY <1>2, <1>3
    <3>2. CASE x \in 1 .. Len(u)
      <4>1. PICK i \in 1 .. m : at[i] = x
        BY <1>2, <1>3, <2>4, <3>2 DEF Marks
      <4>2. i \in 1 .. m + 1
        BY <1>2
      <4>3. QED
        BY <1>4, <4>1, <4>2
    <3>3. CASE x = Len(u) + 1
      <4>1. m + 1 \in 1 .. m + 1
        BY <1>2
      <4>2. QED
        BY <1>2, <1>4, <3>3, <4>1
    <3>4. QED
      BY <3>1, <3>2, <3>3
  <2>5. m + 1 \in Nat
    BY <1>2
  <2>6. QED
    BY <1>3, <1>5, <2>1, <2>2, <2>3, <2>4, <2>5 DEF Marks
<1>8. PartsOf(v, to, m) = Append(PartsOf(u, at, m - 1), SubSeq(u, at[m] + 1, Len(u)))
  <2>1. m \in 0 .. m /\ m \in 1 .. m /\ (Len(u) + 1) - 1 = Len(u)
    BY <1>2
  <2>2. Slash \in Characters
    OBVIOUS
  <2>3. PartsOf(v, to, m) = PartsOf(u, at, m)
    BY <1>1, <1>2, <1>4, <2>1, <2>2, PartsStay
  <2>4. Part(u, at, m) = SubSeq(u, at[m] + 1, Len(u))
    BY <1>2, <2>1 DEF Part
  <2>5. QED
    BY <1>2, <2>1, <2>3, <2>4, PartsGrow
<1>9. SubSeq(v, to[m + 1] + 1, Len(v)) = <<>>
  <2>1. to[m + 1] + 1 = Len(u) + 2 /\ Len(v) = Len(u) + 1
    <3>1. m + 1 \in 1 .. m + 1
      BY <1>2
    <3>2. QED
      BY <1>2, <1>3, <1>4, <3>1
  <2>2. Len(u) + 2 \in Int /\ Len(u) + 1 \in Int /\ Len(u) + 1 < Len(u) + 2
    BY <1>2
  <2>3. QED
    BY <2>1, <2>2, SubSeqEmpty
<1>10. /\ r.parts = PartsOf(u, at, m - 1) /\ r.s.text = SubSeq(u, at[m] + 1, Len(u))
  BY DEF ScanAt, FromText
<1>11. (m + 1) - 1 = m /\ m + 1 # 0
  BY <1>2
<1>12. FillStep(r, Slash) = [parts |-> PartsOf(v, to, m), s |-> FromText(<<>>)]
  BY <1>8, <1>10 DEF FillStep, clear
<1>13. QED
  BY <1>1, <1>7, <1>9, <1>11, <1>12 DEF ScanAt

\* A slice grows by the character behind it.
LEMMA SliceGrows ==
    ASSUME NEW S, NEW s \in Seq(S), NEW a \in Nat \ {0}, NEW b \in Nat,
           a <= b + 1, b < Len(s)
    PROVE  /\ SubSeq(s, a, b) \in Seq(S) /\ s[b + 1] \in S
           /\ Append(SubSeq(s, a, b), s[b + 1]) = SubSeq(s, a, b + 1)
<1>1. PICK r, w, c : r = SubSeq(s, a, b) /\ w = SubSeq(s, a, b + 1) /\ c = s[b + 1]
  OBVIOUS
<1>2. Len(s) \in Nat
  BY LenProperties
<1>3. b + 1 \in Nat /\ b <= Len(s) /\ b + 1 <= Len(s) /\ a <= (b + 1) + 1
      /\ (b + 1) - a + 1 = (b - a + 1) + 1 /\ b + 1 \in 1 .. Len(s)
  BY <1>2
<1>4. /\ r \in Seq(S) /\ Len(r) = b - a + 1
      /\ \A i \in 1 .. b - a + 1 : r[i] = s[a + i - 1]
  BY <1>1, <1>3, SliceOK
<1>5. /\ w \in Seq(S) /\ Len(w) = (b + 1) - a + 1
      /\ \A i \in 1 .. (b + 1) - a + 1 : w[i] = s[a + i - 1]
  BY <1>1, <1>3, SliceOK
<1>6. c \in S
  BY <1>1, <1>3, ElementOfSeq
<1>7. PICK q : q = Append(r, c)
  OBVIOUS
<1>8. /\ q \in Seq(S) /\ Len(q) = Len(r) + 1
      /\ \A i \in 1 .. Len(r) : q[i] = r[i]
      /\ q[Len(r) + 1] = c
  BY <1>4, <1>6, <1>7, AppendProperties
<1>9. ASSUME NEW i \in 1 .. Len(q) PROVE q[i] = w[i]
  <2>1. i \in 1 .. (b + 1) - a + 1 /\ (i \in 1 .. b - a + 1 \/ i = Len(r) + 1)
    BY <1>3, <1>4, <1>8
  <2>2. CASE i \in 1 .. b - a + 1
    BY <1>4, <1>5, <1>8, <2>1, <2>2
  <2>3. CASE i = Len(r) + 1
    <3>1. a + i - 1 = b + 1
      BY <1>4, <2>3
    <3>2. QED
      BY <1>1, <1>5, <1>8, <2>1, <2>3, <3>1
  <2>4. QED
    BY <2>1, <2>2, <2>3
<1>10. Len(q) = Len(w)
  BY <1>3, <1>4, <1>5, <1>8
<1>11. q = w
  BY <1>5, <1>8, <1>9, <1>10, SeqEqual
<1>12. QED
  BY <1>1, <1>4, <1>6, <1>7, <1>11

LEMMA ScanOther ==
    ASSUME NEW u, NEW at, NEW m, NEW r, ScanAt(u, at, m, r),
           NEW c \in Characters, c # Slash
    PROVE  \E to : ScanAt(Append(u, c), to, m, FillStep(r, c))
<1> DEFINE to == [at EXCEPT ![m + 1] = Len(u) + 2]
<1>1. PICK v : v = Append(u, c)
  OBVIOUS
<1>2. /\ Marks(u, at, m) /\ u \in Seq(Characters) /\ Len(u) \in Nat /\ m \in Nat \ {0}
      /\ at \in [1 .. m + 1 -> Nat \ {0}] /\ at[1] = 1 /\ at[m + 1] = Len(u) + 1
      /\ \A i, j \in 1 .. m + 1 : i < j => at[i] < at[j]
  BY MarksFit DEF ScanAt, Marks
<1>3. /\ v \in Seq(Characters) /\ Len(v) = Len(u) + 1
      /\ \A i \in 1 .. Len(u) : v[i] = u[i]
      /\ v[Len(u) + 1] = c
  BY <1>1, <1>2, AppendProperties
<1>4. /\ \A i \in 1 .. m : i \in 1 .. m + 1 /\ to[i] = at[i] /\ at[i] \in 1 .. Len(u)
      /\ to[m + 1] = Len(u) + 2 /\ to \in [1 .. m + 1 -> Nat \ {0}]
  <2>1. m + 1 \in 1 .. m + 1 /\ Len(u) + 2 \in Nat \ {0}
        /\ \A i \in 1 .. m : i \in 1 .. m + 1 /\ i # m + 1
    BY <1>2
  <2>2. \A i \in 1 .. m : at[i] \in 1 .. Len(u)
    BY <1>2, MarksFit
  <2>3. QED
    BY <1>2, <2>1, <2>2
<1>5. \A i \in 1 .. m + 1 : i \in 1 .. m \/ i = m + 1
  BY <1>2
<1> HIDE DEF to
<1>6. Marks(v, to, m)
  <2>1. to[1] = 1 /\ to[m + 1] = Len(v) + 1
    <3>1. 1 \in 1 .. m
      BY <1>2
    <3>2. QED
      BY <1>2, <1>3, <1>4, <3>1
  <2>2. ASSUME NEW i \in 1 .. m + 1, NEW j \in 1 .. m + 1, i < j
        PROVE  to[i] < to[j]
    <3>1. i \in 1 .. m
      BY <1>2, <2>2
    <3>2. CASE j \in 1 .. m
      BY <1>2, <1>4, <2>2, <3>1, <3>2
    <3>3. CASE j = m + 1
      <4>1. to[i] \in 1 .. Len(u) /\ to[j] = Len(u) + 2
        BY <1>4, <3>1, <3>3
      <4>2. QED
        BY <1>2, <4>1
    <3>4. QED
      BY <1>5, <3>2, <3>3
  <2>3. ASSUME NEW i \in 1 .. m PROVE v[to[i]] = Slash
    BY <1>2, <1>3, <1>4 DEF Marks
  <2>4. ASSUME NEW x \in 1 .. Len(v), v[x] = Slash PROVE \E i \in 1 .. m : to[i] = x
    <3>1. x \in 1 .. Len(u)
      <4>1. x \in 1 .. Len(u) \/ x = Len(u) + 1
        BY <1>2, <1>3
      <4>2. QED
        BY <1>3, <2>4, <4>1
    <3>2. PICK i \in 1 .. m : at[i] = x
      BY <1>2, <1>3, <2>4, <3>1 DEF Marks
    <3>3. QED
      BY <1>4, <3>2
  <2>5. QED
    BY <1>2, <1>3, <1>4, <2>1, <2>2, <2>3, <2>4 DEF Marks
<1>7. PartsOf(v, to, m - 1) = PartsOf(u, at, m - 1)
  <2>1. m - 1 \in 0 .. m /\ \A i \in 1 .. (m - 1) + 1 : i \in 1 .. m
    BY <1>2
  <2>2. \A i \in 1 .. (m - 1) + 1 : to[i] = at[i]
    BY <1>4, <2>1
  <2>3. QED
    BY <1>1, <1>2, <2>1, <2>2, PartsStay
<1>8. PICK a, b, w : a = at[m] + 1 /\ b = Len(u) /\ w = SubSeq(u, a, b)
  OBVIOUS
<1>9. m \in 1 .. m /\ to[m] = at[m] /\ at[m] \in 1 .. Len(u)
  BY <1>2, <1>4
<1>10. a \in Nat \ {0} /\ b \in Nat /\ a <= b + 1 /\ b < Len(v) /\ b <= Len(u)
       /\ b + 1 = Len(v)
  BY <1>2, <1>3, <1>8, <1>9
<1>11. w = SubSeq(v, a, b)
  <2>1. \A i \in a .. b : u[i] = v[i]
    <3>1. \A i \in a .. b : i \in 1 .. Len(u)
      BY <1>8, <1>10
    <3>2. QED
      BY <1>3, <3>1
  <2>2. b <= Len(v)
    BY <1>2, <1>3, <1>10
  <2>3. u \in Seq(Characters) /\ v \in Seq(Characters)
    BY <1>2, <1>3
  <2>4. SubSeq(u, a, b) = SubSeq(v, a, b)
    BY <1>10, <2>1, <2>2, <2>3, SameSlice
  <2>5. QED
    BY <1>8, <2>4
<1>12. v[b + 1] = c
  BY <1>3, <1>8
<1>13. Append(w, c) = SubSeq(v, to[m] + 1, Len(v))
  <2>1. v \in Seq(Characters)
    BY <1>3
  <2>2. Append(SubSeq(v, a, b), v[b + 1]) = SubSeq(v, a, b + 1)
    BY <1>10, <2>1, SliceGrows
  <2>3. QED
    BY <1>8, <1>9, <1>10, <1>11, <1>12, <2>2
<1>14. w \in Seq(Characters)
  BY <1>2, <1>8, <1>10, SliceOK
<1>15. append_char(FromText(w), c) = FromText(Append(w, c))
  <2>1. Len(Append(w, c)) = Len(w) + 1
    BY <1>14, AppendProperties
  <2>2. QED
    BY <2>1 DEF append_char, FromText
<1>16. r = [parts |-> PartsOf(u, at, m - 1), s |-> FromText(w)]
  BY <1>8 DEF ScanAt
<1>17. FillStep(r, c) = [parts |-> PartsOf(v, to, m - 1), s |-> FromText(Append(w, c))]
  BY <1>7, <1>15, <1>16 DEF FillStep
<1>18. QED
  BY <1>1, <1>2, <1>6, <1>13, <1>17 DEF ScanAt

LEMMA ScanStart ==
    ASSUME Slash \in Characters
    PROVE  \E at : ScanAt(<<Slash>>, at, 1, [parts |-> <<>>, s |-> clear])
<1> DEFINE at == [i \in 1 .. 2 |-> i]
<1>1. /\ <<Slash>> \in Seq(Characters) /\ Len(<<Slash>>) = 1 /\ <<Slash>>[1] = Slash
      /\ at \in [1 .. 1 + 1 -> Nat \ {0}] /\ at[1] = 1 /\ at[2] = 2
  OBVIOUS
<1> HIDE DEF at
<1>2. Marks(<<Slash>>, at, 1)
  <2>1. \A i, j \in 1 .. 1 + 1 : i < j => i = 1 /\ j = 2
    OBVIOUS
  <2>2. \A i \in 1 .. 1 : i = 1
    OBVIOUS
  <2>3. QED
    BY <1>1, <2>1, <2>2 DEF Marks
<1>3. PartsOf(<<Slash>>, at, 1 - 1) = <<>>
  <2>1. 1 - 1 \in 0 .. 1 /\ 1 - 1 = 0
    OBVIOUS
  <2>2. /\ PartsOf(<<Slash>>, at, 1 - 1) \in Seq(Seq(Characters))
        /\ Len(PartsOf(<<Slash>>, at, 1 - 1)) = 0
    BY <1>2, <2>1, PartsOK
  <2>3. QED
    BY <2>2, EmptySeq
<1>4. SubSeq(<<Slash>>, at[1] + 1, Len(<<Slash>>)) = <<>>
  BY <1>1, SubSeqEmpty
<1>5. [parts |-> <<>>, s |-> clear]
        = [parts |-> PartsOf(<<Slash>>, at, 1 - 1),
           s |-> FromText(SubSeq(<<Slash>>, at[1] + 1, Len(<<Slash>>)))]
  BY <1>3, <1>4 DEF clear
<1>6. ScanAt(<<Slash>>, at, 1, [parts |-> <<>>, s |-> clear])
  BY <1>2, <1>5 DEF ScanAt
<1>7. QED
  BY <1>6

FillStates ==
    [parts : Seq(Seq(Characters)), s : [text : Seq(Characters), size : Nat]]

LEMMA FillStepType ==
    ASSUME NEW r \in FillStates, NEW c \in Characters
    PROVE  FillStep(r, c) \in FillStates
<1>1. /\ r.parts \in Seq(Seq(Characters)) /\ r.s.text \in Seq(Characters) /\ r.s.size \in Nat
      /\ r.s \in [text : Seq(Characters), size : Nat]
  BY DEF FillStates
<1>2. Append(r.parts, r.s.text) \in Seq(Seq(Characters)) /\ Append(r.s.text, c) \in Seq(Characters)
  BY <1>1, AppendProperties
<1>3. clear \in [text : Seq(Characters), size : Nat]
  BY EmptySeq DEF clear, FromText
<1>4. append_char(r.s, c) \in [text : Seq(Characters), size : Nat]
  BY <1>1, <1>2 DEF append_char
<1>5. CASE c = Slash
  BY <1>2, <1>3, <1>5 DEF FillStep, FillStates
<1>6. CASE c # Slash
  <2>1. FillStep(r, c) = [r EXCEPT !.s = append_char(r.s, c)]
    BY <1>6 DEF FillStep
  <2>2. QED
    BY <1>1, <1>4, <2>1 DEF FillStates
<1>7. QED
  BY <1>5, <1>6

\* What the loop may have in its hands after n turns.
Scans(t, n) ==
    {r \in FillStates : \E at, m : ScanAt(SubSeq(t, 1, n + 1), at, m, r)}

LEMMA FillTurn ==
    ASSUME NEW t \in Seq(Characters), NEW n \in 1 .. Len(t) - 1,
           NEW r \in Scans(t, n - 1), Slash \in Characters
    PROVE  FillStep(r, t[n + 1]) \in Scans(t, n)
<1>1. n \in Nat /\ n - 1 + 1 = n /\ 1 <= n + 1 /\ n < Len(t) /\ 1 \in Nat \ {0}
  BY LenProperties
<1>2. PICK u, c : u = SubSeq(t, 1, n) /\ c = t[n + 1]
  OBVIOUS
<1>3. c \in Characters /\ Append(u, c) = SubSeq(t, 1, n + 1)
  BY <1>1, <1>2, SliceGrows
<1>4. PICK at, m : ScanAt(u, at, m, r)
  BY <1>1, <1>2 DEF Scans
<1>5. FillStep(r, c) \in FillStates
  BY <1>3, FillStepType DEF Scans
<1>6. \E to, k : ScanAt(Append(u, c), to, k, FillStep(r, c))
  <2>1. CASE c = Slash
    <3>1. \E to : ScanAt(Append(u, Slash), to, m + 1, FillStep(r, Slash))
      BY <1>4, ScanSlash
    <3>2. QED
      BY <2>1, <3>1
  <2>2. CASE c # Slash
    <3>1. \E to : ScanAt(Append(u, c), to, m, FillStep(r, c))
      BY <1>3, <1>4, <2>2, ScanOther
    <3>2. QED
      BY <3>1
  <2>3. QED
    BY <2>1, <2>2
<1>7. QED
  BY <1>2, <1>3, <1>5, <1>6 DEF Scans

LEMMA FilledOK ==
    ASSUME NEW t \in Seq(Characters), t # <<>>, t[1] = Slash, Slash \in Characters
    PROVE  \E at, m : ScanAt(t, at, m, filled(t))
<1> DEFINE N == Len(t) - 1
           first == [parts |-> <<>>, s |-> clear]
           S == [n \in 0 .. N |-> Scans(t, n)]
           Filling(n, r) == FillStep(r, t[n + 1])
           F == [n \in 1 .. N |-> [r \in S[n - 1] |-> Filling(n, r)]]
           Loop(f) == f = [n \in 0 .. N |-> IF n = 0 THEN first ELSE Filling(n, f[n - 1])]
           turn == CHOOSE f : Loop(f)
<1>1. Len(t) \in Nat \ {0} /\ N \in Nat /\ N + 1 = Len(t) /\ 1 \in 1 .. Len(t)
  BY EmptySeq, LenProperties
<1>2. \A n \in 1 .. N : n - 1 \in 0 .. N /\ n \in 0 .. N
  BY <1>1
<1>3. first \in S[0]
  <2>1. 0 \in 0 .. N /\ 0 + 1 = 1
    BY <1>1
  <2>2. SubSeq(t, 1, 0 + 1) = <<Slash>>
    <3>1. SubSeq(t, 1, 1) = SubSeq(t, 1, 1 - 1) \o <<t[1]>>
      BY <1>1, SubSeqRecursiveSecond
    <3>2. SubSeq(t, 1, 1 - 1) = <<>>
      BY SubSeqEmpty
    <3>3. <<Slash>> \in Seq(Characters)
      OBVIOUS
    <3>4. <<>> \o <<Slash>> = <<Slash>>
      BY <3>3, ConcatEmptySeq
    <3>5. QED
      BY <2>1, <3>1, <3>2, <3>4
  <2>3. first \in FillStates
    BY EmptySeq DEF FillStates, clear, FromText
  <2>4. \E at, m : ScanAt(<<Slash>>, at, m, first)
    BY ScanStart
  <2> HIDE DEF first, N
  <2>5. QED
    BY <2>1, <2>2, <2>3, <2>4 DEF Scans
<1>4. ASSUME NEW n \in 1 .. N, NEW r \in S[n - 1]
      PROVE  F[n][r] = Filling(n, r) /\ F[n][r] \in S[n]
  <2>1. r \in Scans(t, n - 1)
    BY <1>2
  <2>2. Filling(n, r) \in Scans(t, n)
    BY <2>1, FillTurn
  <2> HIDE DEF Filling, N
  <2>3. QED
    BY <1>2, <2>2
<1> HIDE DEF Filling, first, N
<1>5. Carries(N, F, S)
  <2> HIDE DEF F, S
  <2>1. QED
    BY <1>4 DEF Carries
<1>6. PICK f : Runs(f, N, F, first) /\ \A n \in 0 .. N : f[n] \in S[n]
  <2> HIDE DEF F, S
  <2>1. QED
    BY <1>1, <1>3, <1>5, TurnsExist
<1>7. Loop(f)
  <2>1. f = [n \in 0 .. N |-> IF n = 0 THEN first ELSE F[n][f[n - 1]]]
    BY <1>6 DEF Runs
  <2>2. \A n \in 0 .. N : n # 0 => n \in 1 .. N /\ n - 1 \in 0 .. N
    BY <1>1
  <2>3. \A n \in 0 .. N : n # 0 => F[n][f[n - 1]] = Filling(n, f[n - 1])
    BY <1>4, <1>6, <2>2
  <2> HIDE DEF F, S
  <2>4. QED
    BY <2>1, <2>3
<1>8. Loop(turn)
  BY <1>7
<1>9. turn[N] = filled(t)
  BY DEF filled, Filling, N, first
<1> HIDE DEF turn
<1>10. turn[0] = first /\ \A n \in 1 .. N : turn[n] = Filling(n, turn[n - 1])
  <2>1. 0 \in 0 .. N /\ \A n \in 1 .. N : n \in 0 .. N /\ n # 0
    BY <1>1
  <2>2. QED
    BY <1>8, <2>1
<1>11. \A n \in 1 .. N : turn[n - 1] \in S[n - 1] => turn[n] \in S[n]
  <2> HIDE DEF F, S
  <2>1. QED
    BY <1>4, <1>10
<1>12. \A n \in 0 .. N : turn[n] \in S[n]
  <2> HIDE DEF S
  <2>1. QED
    BY <1>1, <1>3, <1>10, <1>11, TurnsKept
<1>13. turn[N] \in Scans(t, N)
  BY <1>1, <1>12
<1>14. SubSeq(t, 1, N + 1) = t
  BY <1>1, SubSeqFull
<1>15. QED
  BY <1>9, <1>13, <1>14 DEF Scans

-----------------------------------------------------------------------------
(* Paths: a text without what stands between two of its slashes *)

\* s without the elements from a to b - 1.
CutOut(s, a, b) == SubSeq(s, 1, a - 1) \o SubSeq(s, b, Len(s))

LEMMA CutOutOK ==
    ASSUME NEW S, NEW s \in Seq(S), NEW a \in 1 .. Len(s) + 1, NEW b \in a .. Len(s) + 1
    PROVE  /\ CutOut(s, a, b) \in Seq(S)
           /\ Len(CutOut(s, a, b)) = Len(s) - (b - a)
           /\ \A i \in 1 .. a - 1 : CutOut(s, a, b)[i] = s[i]
           /\ \A i \in a .. Len(s) - (b - a) : CutOut(s, a, b)[i] = s[i + (b - a)]
<1>1. Len(s) \in Nat /\ a \in Nat \ {0} /\ b \in Nat \ {0} /\ a <= b /\ a <= Len(s) + 1 /\ b <= Len(s) + 1
  BY LenProperties
<1>2. PICK x, y : x = SubSeq(s, 1, a - 1) /\ y = SubSeq(s, b, Len(s))
  OBVIOUS
<1>3. /\ 1 \in Nat \ {0} /\ a - 1 \in Nat /\ 1 <= (a - 1) + 1 /\ a - 1 <= Len(s)
      /\ (a - 1) - 1 + 1 = a - 1
  BY <1>1
<1>4. /\ x \in Seq(S) /\ Len(x) = a - 1 /\ \A i \in 1 .. a - 1 : x[i] = s[1 + i - 1]
  <2>1. /\ x \in Seq(S) /\ Len(x) = (a - 1) - 1 + 1
        /\ \A i \in 1 .. (a - 1) - 1 + 1 : x[i] = s[1 + i - 1]
    BY <1>2, <1>3, SliceOK
  <2>2. QED
    BY <1>3, <2>1
<1>5. /\ y \in Seq(S) /\ Len(y) = Len(s) - b + 1
      /\ \A i \in 1 .. Len(s) - b + 1 : y[i] = s[b + i - 1]
  BY <1>1, <1>2, SliceOK
<1>6. PICK r : r = x \o y
  OBVIOUS
<1>7. /\ r \in Seq(S) /\ Len(r) = Len(x) + Len(y)
      /\ \A i \in 1 .. Len(x) + Len(y) : r[i] = IF i <= Len(x) THEN x[i] ELSE y[i - Len(x)]
  BY <1>4, <1>5, <1>6, ConcatProperties
<1>8. Len(r) = Len(s) - (b - a)
  BY <1>1, <1>4, <1>5, <1>7
<1>9. ASSUME NEW i \in 1 .. a - 1 PROVE r[i] = s[i]
  <2>1. i \in 1 .. Len(x) + Len(y) /\ i <= Len(x) /\ 1 + i - 1 = i
    BY <1>1, <1>4, <1>5
  <2>2. QED
    BY <1>4, <1>7, <2>1
<1>10. ASSUME NEW i \in a .. Len(s) - (b - a) PROVE r[i] = s[i + (b - a)]
  <2>1. /\ i \in 1 .. Len(x) + Len(y) /\ ~ (i <= Len(x))
        /\ i - Len(x) \in 1 .. Len(s) - b + 1 /\ b + (i - Len(x)) - 1 = i + (b - a)
    BY <1>1, <1>4, <1>5
  <2>2. QED
    BY <1>5, <1>7, <2>1
<1>11. QED
  BY <1>2, <1>6, <1>7, <1>8, <1>9, <1>10 DEF CutOut

\* The marks that stay when the text between mark p and mark q goes.
CutAt(at, m, p, q) ==
    [i \in 1 .. (m - (q - p)) + 1 |->
        IF i < p THEN at[i] ELSE at[i + (q - p)] - (at[q] - at[p])]

\* u's marks are in order, with what lies between them.
LEMMA MarksOrder ==
    ASSUME NEW u, NEW at, NEW m, Marks(u, at, m)
    PROVE  /\ Len(u) \in Nat /\ m \in Nat
           /\ \A i \in 1 .. m + 1 : at[i] \in 1 .. Len(u) + 1
           /\ \A i, j \in 1 .. m + 1 : /\ i < j => at[i] < at[j]
                                       /\ i <= j => at[i] <= at[j]
<1>1. Len(u) \in Nat /\ m \in Nat
  BY MarksFit
<1>2. \A i \in 1 .. m + 1 : at[i] \in 1 .. Len(u) + 1
  <2>1. \A i \in 1 .. m + 1 : i \in 1 .. m \/ i = m + 1
    BY <1>1
  <2>2. \A i \in 1 .. m : at[i] \in 1 .. Len(u)
    BY MarksFit
  <2>3. at[m + 1] = Len(u) + 1
    BY DEF Marks
  <2>4. QED
    BY <1>1, <2>1, <2>2, <2>3
<1>3. \A i, j \in 1 .. m + 1 : i < j => at[i] < at[j]
  BY DEF Marks
<1>4. \A i, j \in 1 .. m + 1 : i <= j => i < j \/ i = j
  OBVIOUS
<1>5. \A i, j \in 1 .. m + 1 : i <= j => at[i] <= at[j]
  BY <1>2, <1>3, <1>4
<1>6. QED
  BY <1>1, <1>2, <1>3, <1>5

\* Where they are in the text that is left.
LEMMA CutAtOK ==
    ASSUME NEW u, NEW at, NEW m, Marks(u, at, m),
           NEW p \in 1 .. m + 1, NEW q \in p .. m + 1
    PROVE  /\ m - (q - p) \in Nat /\ at[q] - at[p] \in Nat /\ at[q] - at[p] <= Len(u)
           /\ CutAt(at, m, p, q) \in [1 .. (m - (q - p)) + 1 -> Nat \ {0}]
           /\ \A i \in 1 .. p - 1 : CutAt(at, m, p, q)[i] = at[i]
           /\ \A i \in p .. (m - (q - p)) + 1 :
                 CutAt(at, m, p, q)[i] = at[i + (q - p)] - (at[q] - at[p])
           /\ CutAt(at, m, p, q)[p] = at[p]
<1>1. /\ Len(u) \in Nat /\ m \in Nat
      /\ \A i \in 1 .. m + 1 : at[i] \in 1 .. Len(u) + 1
      /\ \A i, j \in 1 .. m + 1 : i <= j => at[i] <= at[j]
  BY MarksOrder
<1>2. PICK x, y : x = at[p] /\ y = at[q]
  OBVIOUS
<1>3. q \in 1 .. m + 1 /\ p <= q /\ m - (q - p) \in Nat /\ p \in Nat /\ q \in Nat
      /\ p - 1 <= m - (q - p) /\ p \in p .. (m - (q - p)) + 1 /\ p + (q - p) = q
  BY <1>1
<1>4. x \in 1 .. Len(u) + 1 /\ y \in 1 .. Len(u) + 1 /\ x <= y
  BY <1>1, <1>2, <1>3
<1>5. y - x \in Nat /\ y - x <= Len(u)
  BY <1>1, <1>4
<1>6. PICK k : k = m - (q - p)
  OBVIOUS
<1>7. ASSUME NEW i \in p .. k + 1
      PROVE  i + (q - p) \in 1 .. m + 1 /\ q <= i + (q - p)
  BY <1>1, <1>3, <1>6
<1>8. ASSUME NEW i \in p .. k + 1 PROVE at[i + (q - p)] - (y - x) \in Nat \ {0}
  <2>1. PICK z : z = at[i + (q - p)]
    OBVIOUS
  <2>2. z \in 1 .. Len(u) + 1 /\ y <= z
    BY <1>1, <1>2, <1>3, <1>7, <2>1
  <2>3. QED
    BY <1>1, <1>4, <2>1, <2>2
<1>9. \A i \in 1 .. k + 1 : i < p => i \in 1 .. m + 1 /\ at[i] \in Nat \ {0}
  <2>1. \A i \in 1 .. k + 1 : i < p => i \in 1 .. m + 1
    BY <1>1, <1>3
  <2>2. QED
    BY <1>1, <2>1
<1>10. \A i \in 1 .. k + 1 : ~ (i < p) => i \in p .. k + 1
  BY <1>3, <1>6
<1>11. PICK f : f = CutAt(at, m, p, q)
  OBVIOUS
<1>12. f = [i \in 1 .. k + 1 |-> IF i < p THEN at[i] ELSE at[i + (q - p)] - (y - x)]
  BY <1>2, <1>6, <1>11 DEF CutAt
<1>13. f \in [1 .. k + 1 -> Nat \ {0}]
  BY <1>8, <1>9, <1>10, <1>12
<1>14. \A i \in 1 .. p - 1 : f[i] = at[i]
  <2>1. \A i \in 1 .. p - 1 : i \in 1 .. k + 1 /\ i < p
    BY <1>3, <1>6
  <2>2. QED
    BY <1>12, <2>1
<1>15. \A i \in p .. k + 1 : f[i] = at[i + (q - p)] - (y - x)
  <2>1. \A i \in p .. k + 1 : i \in 1 .. k + 1 /\ ~ (i < p)
    BY <1>3, <1>6
  <2>2. QED
    BY <1>12, <2>1
<1>16. f[p] = x
  BY <1>2, <1>3, <1>4, <1>6, <1>15
<1>17. QED
  BY <1>2, <1>3, <1>5, <1>6, <1>11, <1>13, <1>14, <1>15, <1>16

\* A text cut at two of its slashes, or its end, as it was before and after: the
\* characters, and the marks.
CutFrom(u, at, m, p, q, v, to, k) ==
    LET d == at[q] - at[p]
    IN  /\ Marks(u, at, m) /\ p \in 1 .. m + 1 /\ q \in p .. m + 1
        /\ k = m - (q - p) /\ k \in Nat /\ p - 1 <= k
        /\ d \in Nat /\ d <= Len(u)
        /\ v \in Seq(Characters) /\ Len(v) = Len(u) - d
        /\ \A x \in 1 .. at[p] - 1 : v[x] = u[x]
        /\ \A x \in at[p] .. Len(u) - d : v[x] = u[x + d]
        /\ to \in [1 .. k + 1 -> Nat \ {0}]
        /\ \A i \in 1 .. p - 1 : to[i] = at[i]
        /\ \A i \in p .. k + 1 : to[i] = at[i + (q - p)] - d
        /\ to[p] = at[p]

LEMMA CutFits ==
    ASSUME NEW u, NEW at, NEW m, Marks(u, at, m),
           NEW p \in 1 .. m + 1, NEW q \in p .. m + 1
    PROVE  CutFrom(u, at, m, p, q, CutOut(u, at[p], at[q]), CutAt(at, m, p, q), m - (q - p))
<1>1. PICK x, y, v, to, k : /\ x = at[p] /\ y = at[q] /\ v = CutOut(u, at[p], at[q])
                            /\ to = CutAt(at, m, p, q) /\ k = m - (q - p)
  OBVIOUS
<1>2. /\ Len(u) \in Nat /\ m \in Nat
      /\ \A i \in 1 .. m + 1 : at[i] \in 1 .. Len(u) + 1
      /\ \A i, j \in 1 .. m + 1 : i <= j => at[i] <= at[j]
  BY MarksOrder
<1>3. q \in 1 .. m + 1 /\ p <= q /\ p - 1 <= m - (q - p)
  BY <1>2
<1>4. x \in 1 .. Len(u) + 1 /\ y \in 1 .. Len(u) + 1 /\ x <= y
  BY <1>1, <1>2, <1>3
<1>5. y \in x .. Len(u) + 1 /\ u \in Seq(Characters)
  BY <1>2, <1>4 DEF Marks
<1>6. /\ v \in Seq(Characters) /\ Len(v) = Len(u) - (y - x)
      /\ \A i \in 1 .. x - 1 : v[i] = u[i]
      /\ \A i \in x .. Len(u) - (y - x) : v[i] = u[i + (y - x)]
  <2>1. PICK w : w = CutOut(u, x, y)
    OBVIOUS
  <2>2. /\ w \in Seq(Characters) /\ Len(w) = Len(u) - (y - x)
        /\ \A i \in 1 .. x - 1 : w[i] = u[i]
        /\ \A i \in x .. Len(u) - (y - x) : w[i] = u[i + (y - x)]
    BY <1>4, <1>5, <2>1, CutOutOK
  <2>3. v = w
    BY <1>1, <2>1
  <2>4. QED
    BY <2>2, <2>3
<1>7. /\ k \in Nat /\ y - x \in Nat /\ y - x <= Len(u)
      /\ to \in [1 .. k + 1 -> Nat \ {0}]
      /\ \A i \in 1 .. p - 1 : to[i] = at[i]
      /\ \A i \in p .. k + 1 : to[i] = at[i + (q - p)] - (y - x)
      /\ to[p] = x
  BY <1>1, CutAtOK
<1>8. QED
  BY <1>1, <1>3, <1>6, <1>7 DEF CutFrom

\* Where the marks lie around the cut.
LEMMA CutPlaces ==
    ASSUME NEW u, NEW at, NEW m, NEW p, NEW q, NEW v, NEW to, NEW k,
           CutFrom(u, at, m, p, q, v, to, k)
    PROVE  /\ k + 1 \in p .. k + 1 /\ to[k + 1] = Len(v) + 1 /\ Len(v) \in Nat
           /\ \A i \in 1 .. p - 1 : i \in 1 .. m /\ at[i] \in 1 .. at[p] - 1 /\ at[i + 1] \in 2 .. at[p]
           /\ \A i \in p .. k : i + (q - p) \in 1 .. m
           /\ \A i \in p .. k : to[i] \in at[p] .. Len(v)
           /\ \A i \in p .. k + 1 : to[i] \in at[p] .. Len(v) + 1
           /\ \A i \in p .. k : to[i + 1] \in at[p] .. Len(v) + 1
<1> DEFINE d == at[q] - at[p]
<1>1. /\ Marks(u, at, m) /\ p \in 1 .. m + 1 /\ q \in p .. m + 1
      /\ k = m - (q - p) /\ k \in Nat /\ p - 1 <= k
      /\ d \in Nat /\ d <= Len(u) /\ Len(v) = Len(u) - d
      /\ \A i \in p .. k + 1 : to[i] = at[i + (q - p)] - d
  BY DEF CutFrom
<1>2. /\ Len(u) \in Nat /\ m \in Nat
      /\ \A i \in 1 .. m + 1 : at[i] \in 1 .. Len(u) + 1
      /\ \A i, j \in 1 .. m + 1 : /\ i < j => at[i] < at[j]
                                  /\ i <= j => at[i] <= at[j]
  BY <1>1, MarksOrder
<1>3. at[m + 1] = Len(u) + 1 /\ m + 1 \in 1 .. m + 1
  BY <1>1, <1>2 DEF Marks
<1>4. k + 1 \in p .. k + 1 /\ (k + 1) + (q - p) = m + 1 /\ p \in Nat \ {0} /\ q \in Nat
      /\ q \in 1 .. m + 1 /\ q <= m + 1
  BY <1>1, <1>2
<1>5. at[p] \in Nat \ {0} /\ at[q] \in Nat /\ at[q] = at[p] + d /\ d \in Nat
  BY <1>1, <1>2, <1>4
<1> HIDE DEF d
<1>6. to[k + 1] = Len(v) + 1 /\ Len(v) \in Nat
  <2>1. to[k + 1] = at[m + 1] - d
    BY <1>1, <1>4
  <2>2. QED
    BY <1>1, <1>2, <1>3, <1>5, <2>1
<1>7. ASSUME NEW i \in 1 .. p - 1
      PROVE  i \in 1 .. m /\ at[i] \in 1 .. at[p] - 1 /\ at[i + 1] \in 2 .. at[p]
  <2>1. i \in 1 .. m + 1 /\ i + 1 \in 1 .. m + 1 /\ i < p /\ i + 1 <= p /\ i < i + 1 /\ i \in 1 .. m
    BY <1>1, <1>2
  <2>2. at[i] < at[p] /\ at[i + 1] <= at[p] /\ at[i] < at[i + 1] /\ at[i] \in Nat \ {0} /\ at[i + 1] \in Nat
    BY <1>1, <1>2, <2>1
  <2>3. QED
    BY <1>5, <2>1, <2>2
<1>8. ASSUME NEW i \in p .. k + 1 PROVE to[i] \in at[p] .. Len(v) + 1
  <2>1. i + (q - p) \in 1 .. m + 1 /\ q <= i + (q - p) /\ i + (q - p) <= m + 1
    BY <1>1, <1>2, <1>4
  <2>2. PICK z : z = at[i + (q - p)]
    OBVIOUS
  <2>3. z \in Nat /\ at[q] <= z /\ z <= at[m + 1]
    BY <1>2, <1>3, <1>4, <2>1, <2>2
  <2>4. to[i] = z - d
    BY <1>1, <2>2
  <2>5. QED
    BY <1>1, <1>2, <1>3, <1>5, <2>3, <2>4
<1>9. ASSUME NEW i \in p .. k
      PROVE  i + (q - p) \in 1 .. m /\ to[i] \in at[p] .. Len(v) /\ i + 1 \in p .. k + 1
  <2>1. /\ i + (q - p) \in 1 .. m /\ i + (q - p) \in 1 .. m + 1 /\ i \in p .. k + 1
        /\ i + 1 \in p .. k + 1
    BY <1>1, <1>2, <1>4
  <2>2. PICK z : z = at[i + (q - p)]
    OBVIOUS
  <2>3. z \in 1 .. Len(u)
    BY <1>1, <2>1, <2>2, MarksFit
  <2>4. to[i] = z - d /\ to[i] \in at[p] .. Len(v) + 1
    BY <1>1, <1>8, <2>1, <2>2
  <2>5. to[i] <= Len(v)
    BY <1>1, <1>2, <1>5, <2>3, <2>4
  <2>6. QED
    BY <1>6, <2>1, <2>4, <2>5
<1>10. QED
  BY <1>4, <1>6, <1>7, <1>8, <1>9

LEMMA CutMarks ==
    ASSUME NEW u, NEW at, NEW m, NEW p, NEW q, NEW v, NEW to, NEW k,
           CutFrom(u, at, m, p, q, v, to, k)
    PROVE  Marks(v, to, k)
<1> DEFINE d == at[q] - at[p]
<1>1. /\ Marks(u, at, m) /\ p \in 1 .. m + 1 /\ q \in p .. m + 1
      /\ k = m - (q - p) /\ k \in Nat /\ p - 1 <= k
      /\ d \in Nat /\ d <= Len(u) /\ v \in Seq(Characters) /\ Len(v) = Len(u) - d
      /\ \A x \in 1 .. at[p] - 1 : v[x] = u[x]
      /\ \A x \in at[p] .. Len(u) - d : v[x] = u[x + d]
      /\ to \in [1 .. k + 1 -> Nat \ {0}]
      /\ \A i \in 1 .. p - 1 : to[i] = at[i]
      /\ \A i \in p .. k + 1 : to[i] = at[i + (q - p)] - d
      /\ to[p] = at[p]
  BY DEF CutFrom
<1>2. /\ Len(u) \in Nat /\ m \in Nat
      /\ \A i \in 1 .. m + 1 : at[i] \in 1 .. Len(u) + 1
      /\ \A i, j \in 1 .. m + 1 : /\ i < j => at[i] < at[j]
                                  /\ i <= j => at[i] <= at[j]
  BY <1>1, MarksOrder
<1>3. /\ k + 1 \in p .. k + 1 /\ to[k + 1] = Len(v) + 1 /\ Len(v) \in Nat
      /\ \A i \in 1 .. p - 1 : i \in 1 .. m /\ at[i] \in 1 .. at[p] - 1
      /\ \A i \in p .. k : i + (q - p) \in 1 .. m
      /\ \A i \in p .. k : to[i] \in at[p] .. Len(v)
      /\ \A i \in p .. k + 1 : to[i] \in at[p] .. Len(v) + 1
  BY CutPlaces
<1>4. p \in Nat \ {0} /\ q \in Nat /\ q \in 1 .. m + 1 /\ at[p] \in Nat \ {0} /\ at[q] = at[p] + d
  BY <1>1, <1>2
<1> HIDE DEF d
<1>5. \A i \in 1 .. k + 1 : i \in 1 .. p - 1 \/ i \in p .. k + 1
  BY <1>1, <1>4
<1>6. to[1] = 1
  <2>1. CASE p = 1
    BY <1>1, <2>1 DEF Marks
  <2>2. CASE p # 1
    <3>1. 1 \in 1 .. p - 1
      BY <1>4, <2>2
    <3>2. QED
      BY <1>1, <3>1 DEF Marks
  <2>3. QED
    BY <2>1, <2>2
<1>7. ASSUME NEW i \in 1 .. k + 1, NEW j \in 1 .. k + 1, i < j PROVE to[i] < to[j]
  <2>1. CASE i \in 1 .. p - 1 /\ j \in 1 .. p - 1
    <3>1. i \in 1 .. m + 1 /\ j \in 1 .. m + 1
      BY <1>2, <1>3, <2>1
    <3>2. QED
      BY <1>1, <1>2, <1>7, <2>1, <3>1
  <2>2. CASE i \in 1 .. p - 1 /\ j \in p .. k + 1
    <3>1. to[i] \in 1 .. at[p] - 1 /\ to[j] \in at[p] .. Len(v) + 1
      BY <1>1, <1>3, <2>2
    <3>2. QED
      BY <1>3, <1>4, <3>1
  <2>3. CASE i \in p .. k + 1 /\ j \in p .. k + 1
    <3>1. /\ i + (q - p) \in 1 .. m + 1 /\ j + (q - p) \in 1 .. m + 1
          /\ i + (q - p) < j + (q - p)
      BY <1>1, <1>2, <1>4, <1>7, <2>3
    <3>2. PICK y, z : y = at[i + (q - p)] /\ z = at[j + (q - p)]
      OBVIOUS
    <3>3. y \in Nat /\ z \in Nat /\ y < z
      BY <1>2, <3>1, <3>2
    <3>4. to[i] = y - d /\ to[j] = z - d
      BY <1>1, <2>3, <3>2
    <3>5. QED
      BY <1>1, <3>3, <3>4
  <2>4. CASE i \in p .. k + 1 /\ j \in 1 .. p - 1
    BY <1>4, <1>7, <2>4
  <2>5. QED
    BY <1>5, <2>1, <2>2, <2>3, <2>4
<1>8. ASSUME NEW i \in 1 .. k PROVE v[to[i]] = Slash
  <2>1. i \in 1 .. p - 1 \/ i \in p .. k
    BY <1>1, <1>4
  <2>2. CASE i \in 1 .. p - 1
    <3>1. to[i] = at[i] /\ at[i] \in 1 .. at[p] - 1 /\ i \in 1 .. m
      BY <1>1, <1>3, <2>2
    <3>2. u[at[i]] = Slash
      BY <1>1, <3>1 DEF Marks
    <3>3. QED
      BY <1>1, <3>1, <3>2
  <2>3. CASE i \in p .. k
    <3>1. i \in p .. k + 1 /\ i + (q - p) \in 1 .. m
      BY <1>1, <1>3, <1>4, <2>3
    <3>2. PICK z, y : z = at[i + (q - p)] /\ y = to[i]
      OBVIOUS
    <3>3. u[z] = Slash /\ y = z - d /\ z \in Nat
      <4>1. i + (q - p) \in 1 .. m + 1
        BY <1>2, <3>1
      <4>2. QED
        BY <1>1, <1>2, <3>1, <3>2, <4>1 DEF Marks
    <3>4. y \in at[p] .. Len(u) - d /\ y + d = z
      <4>1. y \in at[p] .. Len(v)
        BY <1>3, <2>3, <3>2
      <4>2. d \in Nat /\ Len(v) = Len(u) - d
        BY <1>1
      <4>3. QED
        BY <3>3, <4>1, <4>2
    <3>5. QED
      BY <1>1, <3>2, <3>3, <3>4
  <2>4. QED
    BY <2>1, <2>2, <2>3
<1>9. ASSUME NEW x \in 1 .. Len(v), v[x] = Slash PROVE \E i \in 1 .. k : to[i] = x
  <2>1. x \in 1 .. at[p] - 1 \/ x \in at[p] .. Len(u) - d
    <3>1. /\ Len(v) = Len(u) - d /\ x \in 1 .. Len(v) /\ Len(u) \in Nat /\ d \in Nat
          /\ at[p] \in Nat \ {0}
      BY <1>1, <1>2, <1>4
    <3>2. QED
      BY <3>1
  <2>2. CASE x \in 1 .. at[p] - 1
    <3>1. x \in 1 .. Len(u) /\ u[x] = Slash
      <4>1. /\ Len(v) = Len(u) - d /\ x \in 1 .. Len(v) /\ Len(u) \in Nat /\ d \in Nat
            /\ v[x] = u[x]
        BY <1>1, <1>2, <2>2
      <4>2. QED
        BY <1>9, <4>1
    <3>2. PICK i \in 1 .. m : at[i] = x
      BY <1>1, <3>1 DEF Marks
    <3>3. ~ (p <= i)
      <4>1. i \in 1 .. m + 1 /\ ~ (at[p] <= at[i])
        BY <1>2, <1>4, <2>2, <3>2
      <4>2. QED
        BY <1>1, <1>2, <4>1
    <3>4. i \in 1 .. p - 1 /\ i \in 1 .. k
      BY <1>1, <1>4, <3>3
    <3>5. QED
      BY <1>1, <3>2, <3>4
  <2>3. CASE x \in at[p] .. Len(u) - d
    <3>1. x + d \in 1 .. Len(u) /\ at[q] <= x + d
      BY <1>1, <1>2, <1>4, <2>3
    <3>2. u[x + d] = Slash
      BY <1>1, <1>9, <2>3
    <3>3. PICK j \in 1 .. m : at[j] = x + d
      BY <1>1, <3>1, <3>2 DEF Marks
    <3>4. q <= j
      <4>1. j \in 1 .. m + 1 /\ ~ (at[j] < at[q])
        BY <1>1, <1>2, <1>4, <3>1, <3>3
      <4>2. ~ (j < q)
        BY <1>2, <1>4, <4>1
      <4>3. QED
        BY <1>4, <4>2
    <3>5. PICK i : i = j - (q - p)
      OBVIOUS
    <3>6. i \in p .. k /\ i \in p .. k + 1 /\ i \in 1 .. k /\ i + (q - p) = j
      <4>1. m \in Nat /\ k \in Nat /\ p \in Nat \ {0} /\ q \in Nat /\ k = m - (q - p)
        BY <1>1, <1>2, <1>4
      <4>2. j \in 1 .. m /\ q <= j /\ i = j - (q - p)
        BY <3>4, <3>5
      <4>3. QED
        BY <4>1, <4>2
    <3>7. to[i] = x
      <4>1. to[i] = at[i + (q - p)] - d
        BY <1>1, <3>6
      <4>2. to[i] = (x + d) - d
        BY <3>3, <3>6, <4>1
      <4>3. x \in Nat /\ d \in Nat
        BY <1>1, <1>3
      <4>4. QED
        BY <4>2, <4>3
    <3>8. QED
      BY <3>6, <3>7
  <2>4. QED
    BY <2>1, <2>2, <2>3
<1>10. QED
  BY <1>1, <1>3, <1>6, <1>7, <1>8, <1>9 DEF Marks

LEMMA CutParts ==
    ASSUME NEW u, NEW at, NEW m, NEW p, NEW q, NEW v, NEW to, NEW k,
           CutFrom(u, at, m, p, q, v, to, k), NEW i \in 1 .. k
    PROVE  Part(v, to, i) = IF i < p THEN Part(u, at, i) ELSE Part(u, at, i + (q - p))
<1> DEFINE d == at[q] - at[p]
<1>1. /\ Marks(u, at, m) /\ p \in 1 .. m + 1 /\ q \in p .. m + 1
      /\ k = m - (q - p) /\ k \in Nat /\ p - 1 <= k
      /\ d \in Nat /\ d <= Len(u) /\ v \in Seq(Characters) /\ Len(v) = Len(u) - d
      /\ \A x \in 1 .. at[p] - 1 : v[x] = u[x]
      /\ \A x \in at[p] .. Len(u) - d : v[x] = u[x + d]
      /\ \A e \in 1 .. p - 1 : to[e] = at[e]
      /\ \A e \in p .. k + 1 : to[e] = at[e + (q - p)] - d
      /\ to[p] = at[p]
  BY DEF CutFrom
<1>2. /\ Len(u) \in Nat /\ m \in Nat /\ u \in Seq(Characters)
      /\ \A e \in 1 .. m + 1 : at[e] \in 1 .. Len(u) + 1
  <2>1. /\ Len(u) \in Nat /\ m \in Nat
        /\ \A e \in 1 .. m + 1 : at[e] \in 1 .. Len(u) + 1
    BY <1>1, MarksOrder
  <2>2. u \in Seq(Characters)
    BY <1>1 DEF Marks
  <2>3. QED
    BY <2>1, <2>2
<1>3. /\ Len(v) \in Nat
      /\ \A e \in 1 .. p - 1 : /\ e \in 1 .. m /\ at[e] \in 1 .. at[p] - 1
                               /\ at[e + 1] \in 2 .. at[p]
      /\ \A e \in p .. k : e + (q - p) \in 1 .. m
      /\ \A e \in p .. k : to[e] \in at[p] .. Len(v)
      /\ \A e \in p .. k : to[e + 1] \in at[p] .. Len(v) + 1
  BY CutPlaces
<1>4. p \in Nat \ {0} /\ q \in Nat /\ at[p] \in 1 .. Len(u) + 1 /\ at[q] = at[p] + d
      /\ at[q] \in 1 .. Len(u) + 1
  BY <1>1, <1>2
<1> HIDE DEF d
<1>5. CASE i < p
  <2>1. i \in 1 .. p - 1 /\ (i + 1 \in 1 .. p - 1 \/ i + 1 = p)
    BY <1>4, <1>5
  <2>2. PICK x, y : x = at[i] /\ y = at[i + 1]
    OBVIOUS
  <2>3. to[i] = x /\ to[i + 1] = y
    BY <1>1, <2>1, <2>2
  <2>4. x \in 1 .. at[p] - 1 /\ y \in 2 .. at[p] /\ x < y
    BY <1>1, <1>3, <2>1, <2>2, MarksFit
  <2>5. /\ x + 1 \in Nat \ {0} /\ y - 1 \in Nat /\ x + 1 <= (y - 1) + 1
        /\ y - 1 <= Len(u) /\ y - 1 <= Len(v) /\ y - 1 <= at[p] - 1
    <3>1. /\ Len(v) = Len(u) - d /\ Len(v) \in Nat /\ Len(u) \in Nat /\ d \in Nat
          /\ at[p] \in 1 .. Len(u) + 1 /\ at[p] - 1 <= Len(v)
      <4>1. at[p] <= Len(v) + 1
        <5>1. p \in p .. k + 1 /\ to[p] = at[p]
          BY <1>1, <1>4
        <5>2. to[p] \in at[p] .. Len(v) + 1
          BY <5>1, CutPlaces
        <5>3. QED
          BY <1>2, <1>3, <1>4, <5>1, <5>2
      <4>2. QED
        BY <1>1, <1>2, <1>3, <1>4, <4>1
    <3>2. QED
      BY <2>4, <3>1
  <2>6. \A j \in x + 1 .. y - 1 : v[j] = u[j]
    <3>1. \A j \in x + 1 .. y - 1 : j \in 1 .. at[p] - 1
      BY <1>4, <2>4
    <3>2. QED
      BY <1>1, <3>1
  <2>7. SubSeq(v, x + 1, y - 1) = SubSeq(u, x + 1, y - 1)
    <3>1. PICK a, b : a = x + 1 /\ b = y - 1
      OBVIOUS
    <3>2. /\ a \in Nat \ {0} /\ b \in Nat /\ a <= b + 1 /\ b <= Len(u) /\ b <= Len(v)
          /\ \A j \in a .. b : v[j] = u[j]
      BY <2>5, <2>6, <3>1
    <3>3. u \in Seq(Characters) /\ v \in Seq(Characters)
      BY <1>1, <1>2
    <3>4. SubSeq(v, a, b) = SubSeq(u, a, b)
      BY <3>2, <3>3, SameSlice
    <3>5. QED
      BY <3>1, <3>4
  <2>8. QED
    BY <1>5, <2>2, <2>3, <2>7 DEF Part
<1>6. CASE ~ (i < p)
  <2>1. i \in p .. k /\ i \in p .. k + 1 /\ i + 1 \in p .. k + 1 /\ (i + 1) + (q - p) = (i + (q - p)) + 1
    BY <1>1, <1>4, <1>6
  <2>2. PICK h, x, y, a, b : /\ h = i + (q - p) /\ x = at[h] /\ y = at[h + 1]
                             /\ a = to[i] /\ b = to[i + 1]
    OBVIOUS
  <2>3. h \in 1 .. m /\ a = x - d /\ b = y - d
    BY <1>1, <1>3, <2>1, <2>2
  <2>4. x \in 1 .. Len(u) /\ y \in 2 .. Len(u) + 1 /\ x < y
    BY <1>1, <2>2, <2>3, MarksFit
  <2>5. a \in at[p] .. Len(v) /\ b \in at[p] .. Len(v) + 1
    BY <1>3, <2>1, <2>2
  <2>6. /\ a + 1 \in Nat \ {0} /\ b - 1 \in Nat /\ a + 1 <= (b - 1) + 1 /\ b - 1 <= Len(v)
        /\ x + 1 \in Nat \ {0} /\ y - 1 \in Nat /\ y - 1 <= Len(u)
        /\ x + 1 = (a + 1) + d /\ y - 1 = (b - 1) + d /\ d \in Int
    BY <1>1, <1>2, <1>3, <1>4, <2>3, <2>4, <2>5
  <2>7. \A j \in a + 1 .. b - 1 : v[j] = u[j + d]
    <3>1. \A j \in a + 1 .. b - 1 : j \in at[p] .. Len(u) - d
      <4>1. /\ Len(v) = Len(u) - d /\ Len(v) \in Nat /\ Len(u) \in Nat /\ d \in Nat
            /\ at[p] \in Nat
        BY <1>1, <1>2, <1>3, <1>4
      <4>2. QED
        BY <2>5, <4>1
    <3>2. QED
      BY <1>1, <3>1
  <2>8. SubSeq(v, a + 1, b - 1) = SubSeq(u, x + 1, y - 1)
    <3>1. v \in Seq(Characters) /\ u \in Seq(Characters)
      BY <1>1, <1>2
    <3>2. PICK e, f, g, z : e = a + 1 /\ f = b - 1 /\ g = x + 1 /\ z = y - 1
      OBVIOUS
    <3>3. /\ e \in Nat \ {0} /\ f \in Nat /\ e <= f + 1 /\ f <= Len(v)
          /\ g \in Nat \ {0} /\ z \in Nat /\ z <= Len(u)
          /\ g = e + d /\ z = f + d /\ d \in Int
      BY <2>6, <3>2
    <3>4. \A j \in e .. f : v[j] = u[j + d]
      BY <2>7, <3>2
    <3>5. SubSeq(v, e, f) = SubSeq(u, g, z)
      BY <3>1, <3>3, <3>4, ShiftedSlice
    <3>6. QED
      BY <3>2, <3>5
  <2>9. QED
    BY <1>6, <2>2, <2>8 DEF Part
<1>7. QED
  BY <1>5, <1>6

-----------------------------------------------------------------------------
(* Paths: what a path stands for *)

\* A folder ends in a slash, behind which there is no part.
PartsIn(m, folder) == IF folder THEN m - 1 ELSE m

\* p has the parts of text, whose marks are at.
Means(p, text, folder, at, m) ==
    /\ Marks(text, at, m) /\ folder \in BOOLEAN
    /\ folder => m # 0 /\ at[m] = Len(text)
    /\ p = [parts |-> PartsOf(text, at, PartsIn(m, folder)), folder |-> folder]

LEMMA MeantParts ==
    ASSUME NEW p, NEW text, NEW folder, NEW at, NEW m, Means(p, text, folder, at, m)
    PROVE  /\ PartsIn(m, folder) \in 0 .. m /\ m \in Nat
           /\ p = [parts |-> p.parts, folder |-> folder]
           /\ p.parts = PartsOf(text, at, PartsIn(m, folder))
           /\ p.parts \in Seq(Seq(Characters)) /\ Len(p.parts) = PartsIn(m, folder)
           /\ \A i \in 1 .. PartsIn(m, folder) : p.parts[i] = Part(text, at, i)
<1>1. Marks(text, at, m) /\ m \in Nat
  BY MarksFit DEF Means
<1>2. PartsIn(m, folder) \in 0 .. m
  BY <1>1 DEF Means, PartsIn
<1>3. p.parts = PartsOf(text, at, PartsIn(m, folder)) /\ p = [parts |-> p.parts, folder |-> folder]
  BY DEF Means
<1>4. PICK k : k = PartsIn(m, folder)
  OBVIOUS
<1>5. /\ PartsOf(text, at, k) \in Seq(Seq(Characters)) /\ Len(PartsOf(text, at, k)) = k
      /\ \A i \in 1 .. k : PartsOf(text, at, k)[i] = Part(text, at, i)
  BY <1>1, <1>2, <1>4, PartsOK
<1>6. QED
  BY <1>1, <1>2, <1>3, <1>4, <1>5

\* Parts and text cut at the same marks belong together as before.
LEMMA CutMeans ==
    ASSUME NEW P, NEW u, NEW folder, NEW at, NEW m, Means(P, u, folder, at, m),
           NEW p \in 1 .. Len(P.parts) + 1, NEW q \in p .. Len(P.parts) + 1
    PROVE  Means([P EXCEPT !.parts = CutOut(P.parts, p, q)],
                 CutOut(u, at[p], at[q]), folder, CutAt(at, m, p, q), m - (q - p))
<1>1. PICK n, s, c : n = PartsIn(m, folder) /\ s = P.parts /\ c = CutOut(s, p, q)
  OBVIOUS
<1>2. /\ n \in 0 .. m /\ m \in Nat /\ s \in Seq(Seq(Characters)) /\ Len(s) = n
      /\ \A i \in 1 .. n : s[i] = Part(u, at, i)
      /\ P = [parts |-> s, folder |-> folder]
  BY <1>1, MeantParts
<1>3. /\ Marks(u, at, m) /\ folder \in BOOLEAN
      /\ folder => m # 0 /\ at[m] = Len(u)
  BY DEF Means
<1>4. p \in 1 .. n + 1 /\ q \in p .. n + 1 /\ p \in 1 .. m + 1 /\ q \in p .. m + 1
  <2>1. p \in 1 .. n + 1 /\ q \in p .. n + 1
    BY <1>1, <1>2
  <2>2. QED
    BY <1>2, <2>1
<1>5. PICK v, to, k : v = CutOut(u, at[p], at[q]) /\ to = CutAt(at, m, p, q) /\ k = m - (q - p)
  OBVIOUS
<1>6. CutFrom(u, at, m, p, q, v, to, k)
  BY <1>3, <1>4, <1>5, CutFits
<1>7. Marks(v, to, k)
  BY <1>6, CutMarks
<1>8. PICK l : l = PartsIn(k, folder)
  OBVIOUS
<1>9. l = n - (q - p) /\ l \in 0 .. k /\ k \in Nat
  BY <1>1, <1>2, <1>3, <1>4, <1>5, <1>8 DEF PartsIn
<1>10. folder => k # 0 /\ to[k] = Len(v)
  <2>1. SUFFICES ASSUME folder PROVE k # 0 /\ to[k] = Len(v)
    OBVIOUS
  <2>2. n = m - 1 /\ k \in p .. k + 1 /\ k # 0 /\ k + (q - p) = m
    BY <1>1, <1>2, <1>4, <1>5, <2>1 DEF PartsIn
  <2>3. to[k] = at[k + (q - p)] - (at[q] - at[p]) /\ Len(v) = Len(u) - (at[q] - at[p])
    BY <1>6, <2>2 DEF CutFrom
  <2>4. QED
    BY <1>3, <2>1, <2>2, <2>3
<1>11. /\ c \in Seq(Seq(Characters)) /\ Len(c) = l
       /\ \A i \in 1 .. l : c[i] = IF i < p THEN s[i] ELSE s[i + (q - p)]
  <2>1. p \in 1 .. Len(s) + 1 /\ q \in p .. Len(s) + 1
    BY <1>2, <1>4
  <2>2. /\ c \in Seq(Seq(Characters)) /\ Len(c) = Len(s) - (q - p)
        /\ \A i \in 1 .. p - 1 : c[i] = s[i]
        /\ \A i \in p .. Len(s) - (q - p) : c[i] = s[i + (q - p)]
    <3>1. s \in Seq(Seq(Characters))
      BY <1>2
    <3>2. PICK x : x = CutOut(s, p, q)
      OBVIOUS
    <3>3. /\ x \in Seq(Seq(Characters)) /\ Len(x) = Len(s) - (q - p)
          /\ \A i \in 1 .. p - 1 : x[i] = s[i]
          /\ \A i \in p .. Len(s) - (q - p) : x[i] = s[i + (q - p)]
      BY <2>1, <3>1, <3>2, CutOutOK
    <3>4. c = x
      BY <1>1, <3>2
    <3>5. QED
      BY <3>3, <3>4
  <2>3. Len(s) - (q - p) = l
    BY <1>2, <1>9
  <2>4. \A i \in 1 .. l : /\ i < p => i \in 1 .. p - 1
                          /\ ~ (i < p) => i \in p .. l
    BY <1>4, <1>9
  <2>5. QED
    BY <2>2, <2>3, <2>4
<1>12. ASSUME NEW i \in 1 .. l PROVE c[i] = Part(v, to, i)
  <2>1. i \in 1 .. k
    BY <1>9
  <2>2. Part(v, to, i) = IF i < p THEN Part(u, at, i) ELSE Part(u, at, i + (q - p))
    BY <1>6, <2>1, CutParts
  <2>3. CASE i < p
    <3>1. i \in 1 .. n
      BY <1>2, <1>4, <1>9, <2>3
    <3>2. QED
      BY <1>2, <1>11, <2>2, <2>3, <3>1
  <2>4. CASE ~ (i < p)
    <3>1. i + (q - p) \in 1 .. n
      BY <1>2, <1>4, <1>9, <2>4
    <3>2. QED
      BY <1>2, <1>11, <2>2, <2>4, <3>1
  <2>5. QED
    BY <2>3, <2>4
<1>13. c = PartsOf(v, to, l)
  <2>1. PICK w : w = PartsOf(v, to, l)
    OBVIOUS
  <2>2. /\ w \in Seq(Seq(Characters)) /\ Len(w) = l
        /\ \A i \in 1 .. l : w[i] = Part(v, to, i)
    BY <1>7, <1>9, <2>1, PartsOK
  <2>3. Len(c) = Len(w) /\ \A i \in 1 .. Len(c) : c[i] = w[i]
    BY <1>11, <1>12, <2>2
  <2>4. c = w
    BY <1>11, <2>2, <2>3, SeqEqual
  <2>5. QED
    BY <2>1, <2>4
<1>14. [P EXCEPT !.parts = c] = [parts |-> c, folder |-> folder]
  BY <1>2
<1>15. Means([P EXCEPT !.parts = c], v, folder, to, k)
  BY <1>3, <1>7, <1>8, <1>10, <1>13, <1>14 DEF Means
<1>16. QED
  BY <1>1, <1>5, <1>15

\* The text calls its slashes by their number.
LEMMA NthMark ==
    ASSUME NEW P, NEW u, NEW folder, NEW at, NEW m, Means(P, u, folder, at, m),
           NEW n \in 1 .. Len(P.parts) + 1
    PROVE  NthSlash(u, n) = at[n]
<1>1. Marks(u, at, m)
  BY DEF Means
<1>2. PartsIn(m, folder) \in 0 .. m /\ m \in Nat /\ Len(P.parts) = PartsIn(m, folder)
  BY MeantParts
<1>3. n \in 1 .. m + 1
  BY <1>2
<1>4. QED
  BY <1>1, <1>3, NthSlashIs

\* A part removed, and what the text is to be without it.
LEMMA RemoveMeans ==
    ASSUME NEW P, NEW u, NEW folder, NEW at, NEW m, Means(P, u, folder, at, m),
           NEW index \in 0 .. Len(P.parts) - 1
    PROVE  \E to, k : Means(remove_part(P, index), WithoutPart(u, index), folder, to, k)
<1>1. Len(P.parts) \in Nat
  BY MeantParts, LenProperties
<1>2. /\ index + 1 \in 1 .. Len(P.parts) + 1 /\ index + 2 \in index + 1 .. Len(P.parts) + 1
      /\ index + 2 \in 1 .. Len(P.parts) + 1
  BY <1>1
<1>3. NthSlash(u, index + 1) = at[index + 1] /\ NthSlash(u, index + 2) = at[index + 2]
  BY <1>2, NthMark
<1>4. WithoutPart(u, index) = CutOut(u, at[index + 1], at[index + 2])
  BY <1>3 DEF WithoutPart, CutOut
<1>5. (index + 1) + 1 = index + 2
  OBVIOUS
<1>6. remove_part(P, index) = [P EXCEPT !.parts = CutOut(P.parts, index + 1, index + 2)]
  BY <1>5 DEF remove_part, RemoveAt, CutOut
<1>7. QED
  <2>1. PICK p, q : p = index + 1 /\ q = index + 2
    OBVIOUS
  <2>2. p \in 1 .. Len(P.parts) + 1 /\ q \in p .. Len(P.parts) + 1
    BY <1>2, <2>1
  <2>3. Means([P EXCEPT !.parts = CutOut(P.parts, p, q)],
              CutOut(u, at[p], at[q]), folder, CutAt(at, m, p, q), m - (q - p))
    BY <2>2, CutMeans
  <2>4. QED
    BY <1>4, <1>6, <2>1, <2>3

LEMMA GoUpMeans ==
    ASSUME NEW P, NEW u, NEW folder, NEW at, NEW m, Means(P, u, folder, at, m),
           may_go_up(P)
    PROVE  \E to, k : Means(go_up(P), WithoutPart(u, get_depth(P) - 1), folder, to, k)
<1>1. PICK n, s : n = Len(P.parts) /\ s = P.parts
  OBVIOUS
<1>2. s \in Seq(Seq(Characters)) /\ n \in Nat
  BY <1>1, MeantParts, LenProperties
<1>3. get_depth(P) = n /\ n # 0
  BY <1>1 DEF may_go_up, get_depth
<1>4. n - 1 \in 0 .. Len(P.parts) - 1
  BY <1>1, <1>2, <1>3
<1>5. PICK to, k : Means(remove_part(P, n - 1), WithoutPart(u, n - 1), folder, to, k)
  BY <1>4, RemoveMeans
<1>6. RemoveAt(s, n) = Front(s)
  <2>1. SubSeq(s, n + 1, n) = <<>>
    BY <1>2, SubSeqEmpty
  <2>2. PICK x : x = SubSeq(s, 1, n - 1)
    OBVIOUS
  <2>3. x \in Seq(Seq(Characters))
    <3>1. 1 \in Nat \ {0} /\ n - 1 \in Nat /\ 1 <= (n - 1) + 1 /\ n - 1 <= Len(s)
      BY <1>1, <1>2, <1>3
    <3>2. QED
      BY <1>2, <2>2, <3>1, SliceOK
  <2>4. x \o <<>> = x
    BY <2>3, ConcatEmptySeq
  <2>5. QED
    BY <1>1, <2>1, <2>2, <2>4 DEF RemoveAt, Front
<1>7. (n - 1) + 1 = n
  BY <1>2
<1>8. remove_part(P, n - 1) = go_up(P)
  BY <1>1, <1>6, <1>7 DEF remove_part, go_up
<1>9. QED
  BY <1>3, <1>5, <1>8

\* The first elements of a sequence removed, and one more.
LEMMA CutTwice ==
    ASSUME NEW S, NEW s \in Seq(S), NEW i \in 1 .. Len(s)
    PROVE  RemoveAt(CutOut(s, 1, i), 1) = CutOut(s, 1, i + 1)
<1>1. Len(s) \in Nat /\ i \in Nat \ {0} /\ i <= Len(s)
  BY LenProperties
<1>2. PICK c, e, b : c = CutOut(s, 1, i) /\ e = CutOut(s, 1, i + 1) /\ b = RemoveAt(c, 1)
  OBVIOUS
<1>3. /\ c \in Seq(S) /\ Len(c) = Len(s) - (i - 1)
      /\ \A j \in 1 .. Len(s) - (i - 1) : c[j] = s[j + (i - 1)]
  <2>1. 1 \in 1 .. Len(s) + 1 /\ i \in 1 .. Len(s) + 1
    BY <1>1
  <2>2. PICK x : x = CutOut(s, 1, i)
    OBVIOUS
  <2>3. /\ x \in Seq(S) /\ Len(x) = Len(s) - (i - 1)
        /\ \A j \in 1 .. Len(s) - (i - 1) : x[j] = s[j + (i - 1)]
    BY <2>1, <2>2, CutOutOK
  <2>4. QED
    BY <1>2, <2>2, <2>3
<1>4. /\ e \in Seq(S) /\ Len(e) = Len(s) - i
      /\ \A j \in 1 .. Len(s) - i : e[j] = s[j + i]
  <2>1. 1 \in 1 .. Len(s) + 1 /\ i + 1 \in 1 .. Len(s) + 1 /\ (i + 1) - 1 = i
    BY <1>1
  <2>2. PICK x, f : x = CutOut(s, 1, f) /\ f = i + 1
    OBVIOUS
  <2>3. /\ x \in Seq(S) /\ Len(x) = Len(s) - (f - 1)
        /\ \A j \in 1 .. Len(s) - (f - 1) : x[j] = s[j + (f - 1)]
    BY <2>1, <2>2, CutOutOK
  <2>4. f - 1 = i
    BY <1>1, <2>2
  <2>5. QED
    BY <1>2, <2>2, <2>3, <2>4
<1>5. /\ b \in Seq(S) /\ Len(b) = Len(c) - 1
      /\ \A j \in 1 .. Len(c) - 1 : b[j] = c[j + 1]
  <2>1. Len(c) \in Nat \ {0} /\ 1 \in 1 .. Len(c) + 1 /\ 2 \in 1 .. Len(c) + 1
    BY <1>1, <1>3
  <2>2. b = CutOut(c, 1, 2)
    BY <1>2 DEF RemoveAt, CutOut
  <2>3. PICK f : f = 2
    OBVIOUS
  <2>4. PICK x : x = CutOut(c, 1, f)
    OBVIOUS
  <2>5. /\ x \in Seq(S) /\ Len(x) = Len(c) - (f - 1)
        /\ \A j \in 1 .. Len(c) - (f - 1) : x[j] = c[j + (f - 1)]
    <3>1. c \in Seq(S) /\ 1 \in 1 .. Len(c) + 1 /\ f \in 1 .. Len(c) + 1
      BY <1>3, <2>1, <2>3
    <3>2. QED
      BY <2>4, <3>1, CutOutOK
  <2>6. f - 1 = 1 /\ x = b
    BY <2>2, <2>3, <2>4
  <2>7. QED
    BY <2>5, <2>6
<1>6. Len(b) = Len(e)
  BY <1>1, <1>3, <1>4, <1>5
<1>7. ASSUME NEW j \in 1 .. Len(b) PROVE b[j] = e[j]
  <2>1. /\ j \in 1 .. Len(c) - 1 /\ j + 1 \in 1 .. Len(s) - (i - 1) /\ j \in 1 .. Len(s) - i
        /\ (j + 1) + (i - 1) = j + i
    BY <1>1, <1>3, <1>5
  <2>2. b[j] = c[j + 1] /\ c[j + 1] = s[(j + 1) + (i - 1)]
    BY <1>3, <1>5, <2>1
  <2>3. QED
    BY <1>4, <2>1, <2>2
<1>8. b = e
  BY <1>4, <1>5, <1>6, <1>7, SeqEqual
<1>9. QED
  BY <1>2, <1>8

\* Nothing in front of a, so that the rest stays.
LEMMA CutHead ==
    ASSUME NEW S, NEW s \in Seq(S), NEW a \in 1 .. Len(s) + 1
    PROVE  CutOut(s, 1, a) = SubSeq(s, a, Len(s))
<1>1. Len(s) \in Nat /\ a \in Nat \ {0} /\ a <= Len(s) + 1 /\ Len(s) <= Len(s)
  BY LenProperties
<1>2. PICK x : x = SubSeq(s, a, Len(s))
  OBVIOUS
<1>3. x \in Seq(S)
  BY <1>1, <1>2, SliceOK
<1>4. SubSeq(s, 1, 1 - 1) = <<>>
  BY SubSeqEmpty
<1>5. <<>> \o x = x
  BY <1>3, ConcatEmptySeq
<1>6. QED
  BY <1>2, <1>4, <1>5 DEF CutOut

\* The loop that cuts off the folder of a mount.
LEMMA TrimmedOK ==
    ASSUME NEW P, P = [parts |-> P.parts, folder |-> P.folder],
           P.parts \in Seq(Seq(Characters)), NEW depth \in 0 .. Len(P.parts),
           NEW mount, get_depth(mount) = depth
    PROVE  trimmed(P, mount) = [P EXCEPT !.parts = CutOut(P.parts, 1, depth + 1)]
<1> DEFINE s == P.parts
           g == [i \in 0 .. depth |-> [P EXCEPT !.parts = CutOut(s, 1, i + 1)]]
           Loop(f) == f = [i \in 0 .. depth |->
                             IF i = 0 THEN P ELSE remove_part(f[i - 1], 0)]
           cut == CHOOSE f : Loop(f)
<1>1. s \in Seq(Seq(Characters)) /\ Len(s) \in Nat /\ depth \in Nat /\ depth <= Len(s)
  BY LenProperties
<1>2. g[0] = P
  <2>1. 1 \in 1 .. Len(s) + 1 /\ 0 \in 0 .. depth /\ 0 + 1 = 1
    BY <1>1
  <2>2. CutOut(s, 1, 1) = SubSeq(s, 1, Len(s))
    BY <1>1, <2>1, CutHead
  <2>3. SubSeq(s, 1, Len(s)) = s
    BY <1>1, SubSeqFull
  <2>4. g[0] = [P EXCEPT !.parts = s]
    BY <2>1, <2>2, <2>3
  <2>5. [P EXCEPT !.parts = s] = P
    OBVIOUS
  <2>6. QED
    BY <2>4, <2>5
<1>3. ASSUME NEW i \in 1 .. depth PROVE g[i] = remove_part(g[i - 1], 0)
  <2>1. /\ i - 1 \in 0 .. depth /\ i \in 0 .. depth /\ (i - 1) + 1 = i /\ i \in 1 .. Len(s)
        /\ 0 + 1 = 1
    BY <1>1
  <2>2. RemoveAt(CutOut(s, 1, i), 1) = CutOut(s, 1, i + 1)
    BY <1>1, <2>1, CutTwice
  <2>3. PICK c, e : c = CutOut(s, 1, i) /\ e = CutOut(s, 1, i + 1)
    OBVIOUS
  <2>4. g[i - 1] = [P EXCEPT !.parts = c] /\ g[i] = [P EXCEPT !.parts = e]
    BY <2>1, <2>3
  <2> HIDE DEF g
  <2>5. g[i - 1].parts = c /\ [g[i - 1] EXCEPT !.parts = e] = g[i]
    BY <2>4
  <2>6. QED
    BY <2>1, <2>2, <2>3, <2>5 DEF remove_part
<1>4. Loop(g)
  <2>1. g = [i \in 0 .. depth |-> g[i]]
    OBVIOUS
  <2>2. \A i \in 0 .. depth : i # 0 => i \in 1 .. depth
    BY <1>1
  <2> HIDE DEF g
  <2>3. \A i \in 0 .. depth : g[i] = IF i = 0 THEN P ELSE remove_part(g[i - 1], 0)
    BY <1>2, <1>3, <2>2
  <2>4. QED
    BY <2>1, <2>3
<1>5. Loop(cut)
  BY <1>4
<1>6. trimmed(P, mount) = cut[depth]
  BY DEF trimmed
<1> HIDE DEF cut
<1>7. cut[0] = P /\ \A i \in 1 .. depth : cut[i] = remove_part(cut[i - 1], 0)
  <2>1. 0 \in 0 .. depth /\ \A i \in 1 .. depth : i \in 0 .. depth /\ i # 0
    BY <1>1
  <2>2. QED
    BY <1>5, <2>1
<1> DEFINE S == [i \in 0 .. depth |-> {g[i]}]
<1>8. S[0] = {g[0]} /\ \A i \in 1 .. depth : S[i] = {g[i]} /\ S[i - 1] = {g[i - 1]}
  <2>1. 0 \in 0 .. depth /\ \A i \in 1 .. depth : i \in 0 .. depth /\ i - 1 \in 0 .. depth
    BY <1>1
  <2> HIDE DEF g
  <2>2. QED
    BY <2>1
<1> HIDE DEF g, S
<1>9. cut[0] \in S[0] /\ \A i \in 1 .. depth : cut[i - 1] \in S[i - 1] => cut[i] \in S[i]
  <2>1. cut[0] \in S[0]
    BY <1>2, <1>7, <1>8
  <2>2. ASSUME NEW i \in 1 .. depth, cut[i - 1] \in S[i - 1] PROVE cut[i] \in S[i]
    <3>1. cut[i - 1] = g[i - 1]
      BY <1>8, <2>2
    <3>2. cut[i] = remove_part(g[i - 1], 0)
      BY <1>7, <3>1
    <3>3. QED
      BY <1>3, <1>8, <3>2
  <2>3. QED
    BY <2>1, <2>2
<1>10. \A i \in 0 .. depth : cut[i] \in S[i]
  BY <1>1, <1>9, TurnsKept
<1>11. cut[depth] = g[depth]
  BY <1>1, <1>10 DEF S
<1>12. g[depth] = [P EXCEPT !.parts = CutOut(s, 1, depth + 1)]
  BY <1>1 DEF g
<1>13. QED
  BY <1>6, <1>11, <1>12

LEMMA TrimMeans ==
    ASSUME NEW P, NEW u, NEW folder, NEW at, NEW m, Means(P, u, folder, at, m),
           NEW depth \in 1 .. get_depth(P)
    PROVE  LET mount == [parts |-> SubSeq(P.parts, 1, depth), folder |-> TRUE]
           IN  \E to, k : Means(trimmed(P, mount),
                                SubSeq(u, NthSlash(u, depth + 1), Len(u)), folder, to, k)
<1>1. PICK s, n : s = P.parts /\ n = Len(s)
  OBVIOUS
<1>2. /\ s \in Seq(Seq(Characters)) /\ n \in Nat /\ P = [parts |-> P.parts, folder |-> P.folder]
      /\ Marks(u, at, m)
  <2>1. P = [parts |-> P.parts, folder |-> folder] /\ s \in Seq(Seq(Characters))
    BY <1>1, MeantParts
  <2>2. P.folder = folder
    BY <2>1
  <2>3. QED
    BY <1>1, <2>1, <2>2, LenProperties DEF Means
<1>3. depth \in 1 .. n
  <2>1. get_depth(P) = n \/ get_depth(P) = n - 1
    BY <1>1 DEF get_depth
  <2>2. QED
    BY <1>2, <2>1
<1>4. PICK mount : mount = [parts |-> SubSeq(s, 1, depth), folder |-> TRUE]
  OBVIOUS
<1>5. get_depth(mount) = depth
  <2>1. 1 \in Nat \ {0} /\ depth \in Nat /\ 1 <= depth + 1 /\ depth <= Len(s) /\ depth - 1 + 1 = depth
    BY <1>1, <1>2, <1>3
  <2>2. Len(SubSeq(s, 1, depth)) = depth - 1 + 1
    BY <1>2, <2>1, SliceOK
  <2>3. QED
    BY <1>4, <2>1, <2>2 DEF get_depth, is_folder
<1>6. trimmed(P, mount) = [P EXCEPT !.parts = CutOut(P.parts, 1, depth + 1)]
  <2>1. depth \in 0 .. Len(P.parts)
    BY <1>1, <1>2, <1>3
  <2>2. QED
    BY <1>1, <1>2, <1>5, <2>1, TrimmedOK
<1>7. PICK p, q : p = 1 /\ q = depth + 1
  OBVIOUS
<1>8. p \in 1 .. Len(P.parts) + 1 /\ q \in p .. Len(P.parts) + 1 /\ q \in 1 .. Len(P.parts) + 1
  BY <1>1, <1>2, <1>3, <1>7
<1>9. Means([P EXCEPT !.parts = CutOut(P.parts, p, q)],
            CutOut(u, at[p], at[q]), folder, CutAt(at, m, p, q), m - (q - p))
  BY <1>8, CutMeans
<1>10. NthSlash(u, depth + 1) = at[q]
  BY <1>7, <1>8, NthMark
<1>11. CutOut(u, at[p], at[q]) = SubSeq(u, at[q], Len(u))
  <2>1. u \in Seq(Characters) /\ at[p] = 1
    BY <1>2, <1>7 DEF Marks
  <2>2. q \in 1 .. m + 1
    <3>1. PartsIn(m, folder) \in 0 .. m /\ Len(P.parts) = PartsIn(m, folder) /\ m \in Nat
      BY MeantParts
    <3>2. QED
      BY <1>8, <3>1
  <2>3. at[q] \in 1 .. Len(u) + 1
    BY <1>2, <2>2, MarksOrder
  <2>4. QED
    BY <2>1, <2>3, CutHead
<1>12. QED
  BY <1>1, <1>4, <1>6, <1>7, <1>9, <1>10, <1>11

-----------------------------------------------------------------------------
(* Paths: to_string *)

\* Strings made from neighbouring parts of a text.
LEMMA NameAppended ==
    ASSUME NEW S, NEW u \in Seq(S), NEW a \in 1 .. Len(u), NEW b \in a + 1 .. Len(u) + 1
    PROVE  append_c_string(FromText(SubSeq(u, 1, a)), SubSeq(u, a + 1, b - 1))
             = FromText(SubSeq(u, 1, b - 1))
<1>1. Len(u) \in Nat /\ a \in Nat /\ b \in Nat /\ a <= b - 1 /\ b - 1 <= Len(u) /\ a <= Len(u)
  BY LenProperties
<1>2. PICK x, y, z : /\ x = SubSeq(u, 1, a) /\ y = SubSeq(u, a + 1, b - 1)
                     /\ z = SubSeq(u, 1, b - 1)
  OBVIOUS
<1>3. x \in Seq(S) /\ Len(x) = a
  <2>1. 1 \in Nat \ {0} /\ a \in Nat /\ 1 <= a + 1 /\ a <= Len(u) /\ a - 1 + 1 = a
    BY <1>1
  <2>2. x \in Seq(S) /\ Len(x) = a - 1 + 1
    BY <1>2, <2>1, SliceOK
  <2>3. QED
    BY <2>1, <2>2
<1>4. y \in Seq(S)
  <2>1. a + 1 \in Nat \ {0} /\ b - 1 \in Nat /\ a + 1 <= (b - 1) + 1 /\ b - 1 <= Len(u)
    BY <1>1
  <2>2. QED
    BY <1>2, <2>1, SliceOK
<1>5. x \o y = z
  <2>1. PICK n : n = b - 1
    OBVIOUS
  <2>2. 1 \in 1 .. Len(u) + 1 /\ a \in 1 - 1 .. Len(u) /\ n \in a .. Len(u)
    BY <1>1, <2>1
  <2>3. SubSeq(u, 1, a) \o SubSeq(u, a + 1, n) = SubSeq(u, 1, n)
    BY <2>2, ConcatAdjacentSubSeq
  <2>4. QED
    BY <1>2, <2>1, <2>3
<1>6. Len(x \o y) = Len(x) + Len(y)
  BY <1>3, <1>4, ConcatProperties
<1>7. QED
  BY <1>2, <1>5, <1>6 DEF append_c_string, FromText

LEMMA CharAppended ==
    ASSUME NEW S, NEW u \in Seq(S), NEW b \in 1 .. Len(u)
    PROVE  append_char(FromText(SubSeq(u, 1, b - 1)), u[b]) = FromText(SubSeq(u, 1, b))
<1>1. Len(u) \in Nat /\ b \in Nat \ {0} /\ b <= Len(u)
  BY LenProperties
<1>2. PICK x, y, c : x = SubSeq(u, 1, b - 1) /\ y = SubSeq(u, 1, b) /\ c = u[b]
  OBVIOUS
<1>3. x \in Seq(S) /\ c \in S /\ Append(x, c) = y
  <2>1. PICK n : n = b - 1
    OBVIOUS
  <2>2. 1 \in Nat \ {0} /\ n \in Nat /\ 1 <= n + 1 /\ n < Len(u) /\ n + 1 = b
    BY <1>1, <2>1
  <2>3. /\ SubSeq(u, 1, n) \in Seq(S) /\ u[n + 1] \in S
        /\ Append(SubSeq(u, 1, n), u[n + 1]) = SubSeq(u, 1, n + 1)
    BY <2>2, SliceGrows
  <2>4. QED
    BY <1>2, <2>1, <2>2, <2>3
<1>4. Len(Append(x, c)) = Len(x) + 1
  BY <1>3, AppendProperties
<1>5. QED
  BY <1>2, <1>3, <1>4 DEF append_char, FromText

\* A text that begins with its only character.
LEMMA OneCharacter ==
    ASSUME NEW S, NEW u \in Seq(S), Len(u) = 1
    PROVE  u = <<u[1]>>
<1>1. u[1] \in S
  <2>1. 1 \in 1 .. Len(u)
    OBVIOUS
  <2>2. QED
    BY <2>1, ElementOfSeq
<1>2. PICK v : v = <<u[1]>>
  OBVIOUS
<1>3. v \in Seq(S) /\ Len(v) = 1 /\ v[1] = u[1]
  BY <1>1, <1>2
<1>4. \A i \in 1 .. Len(u) : u[i] = v[i]
  BY <1>3
<1>5. u = v
  BY <1>3, <1>4, SeqEqual
<1>6. QED
  BY <1>2, <1>5

\* What to_string has written behind part i of the n of a text.
Written(u, folder, at, n, i) ==
    IF i = 0 THEN <<Slash>>
    ELSE SubSeq(u, 1, IF folder \/ i < n THEN at[i + 1] ELSE at[i + 1] - 1)

LEMMA PartWritten ==
    ASSUME NEW P, NEW u, NEW folder, NEW at, NEW m, Means(P, u, folder, at, m),
           NEW n, n = Len(P.parts), NEW i \in 1 .. n
    PROVE  LET named == append_c_string(FromText(Written(u, folder, at, n, i - 1)), P.parts[i])
           IN  (IF is_folder(P) \/ i < n THEN append_char(named, Slash) ELSE named)
                 = FromText(Written(u, folder, at, n, i))
<1>1. /\ Marks(u, at, m) /\ folder \in BOOLEAN /\ is_folder(P) = folder
      /\ folder => m # 0 /\ at[m] = Len(u)
  BY MeantParts DEF Means, is_folder
<1>2. /\ n = PartsIn(m, folder) /\ n \in 0 .. m /\ m \in Nat
      /\ P.parts[i] = Part(u, at, i) /\ u \in Seq(Characters) /\ Len(u) \in Nat
  <2>1. /\ PartsIn(m, folder) \in 0 .. m /\ m \in Nat /\ Len(P.parts) = PartsIn(m, folder)
        /\ \A j \in 1 .. PartsIn(m, folder) : P.parts[j] = Part(u, at, j)
    BY MeantParts
  <2>2. QED
    BY <1>1, <2>1, MarksFit DEF Marks
<1>3. PICK a, b : a = at[i] /\ b = at[i + 1]
  OBVIOUS
<1>4. i \in 1 .. m
  BY <1>2
<1>5. a \in 1 .. Len(u) /\ b \in a + 1 .. Len(u) + 1 /\ b \in 1 .. Len(u) + 1
  <2>1. at[i] \in 1 .. Len(u) /\ at[i + 1] \in 2 .. Len(u) + 1 /\ at[i] < at[i + 1]
    BY <1>1, <1>4, MarksFit
  <2>2. QED
    BY <1>2, <1>3, <2>1
<1>6. Written(u, folder, at, n, i - 1) = SubSeq(u, 1, a)
  <2>1. CASE i = 1
    <3>1. a = 1 /\ u[1] = Slash
      BY <1>1, <1>3, <1>4, <2>1 DEF Marks
    <3>2. PICK x : x = SubSeq(u, 1, 1)
      OBVIOUS
    <3>3. x \in Seq(Characters) /\ Len(x) = 1 /\ x[1] = u[1]
      <4>1. 1 \in Nat \ {0} /\ 1 <= 1 + 1 /\ 1 <= Len(u)
        BY <1>5, <3>1
      <4>2. /\ x \in Seq(Characters) /\ Len(x) = 1 - 1 + 1
            /\ \A j \in 1 .. 1 - 1 + 1 : x[j] = u[1 + j - 1]
        BY <1>2, <3>2, <4>1, SliceOK
      <4>3. QED
        BY <4>2
    <3>4. x = <<Slash>>
      BY <3>1, <3>3, OneCharacter
    <3>5. QED
      BY <2>1, <3>1, <3>2, <3>4 DEF Written
  <2>2. CASE i # 1
    <3>1. i - 1 # 0 /\ i - 1 < n /\ (i - 1) + 1 = i
      BY <1>2, <2>2
    <3>2. QED
      BY <1>3, <3>1 DEF Written
  <2>3. QED
    BY <2>1, <2>2
<1>7. P.parts[i] = SubSeq(u, a + 1, b - 1)
  BY <1>2, <1>3 DEF Part
<1>8. PICK named : named = append_c_string(FromText(SubSeq(u, 1, a)), SubSeq(u, a + 1, b - 1))
  OBVIOUS
<1>9. named = FromText(SubSeq(u, 1, b - 1))
  BY <1>2, <1>5, <1>8, NameAppended
<1>10. CASE folder \/ i < n
  <2>1. i + 1 \in 1 .. m
    BY <1>1, <1>2, <1>10 DEF PartsIn
  <2>2. u[b] = Slash
    BY <1>1, <1>3, <2>1 DEF Marks
  <2>3. b \in 1 .. Len(u)
    BY <1>1, <1>3, <2>1, MarksFit
  <2>4. append_char(named, Slash) = FromText(SubSeq(u, 1, b))
    BY <1>2, <1>9, <2>2, <2>3, CharAppended
  <2>5. Written(u, folder, at, n, i) = SubSeq(u, 1, b)
    <3>1. i # 0
      BY <1>4
    <3>2. QED
      BY <1>3, <1>10, <3>1 DEF Written
  <2>6. QED
    BY <1>1, <1>6, <1>7, <1>8, <1>10, <2>4, <2>5
<1>11. CASE ~ (folder \/ i < n)
  <2>1. Written(u, folder, at, n, i) = SubSeq(u, 1, b - 1)
    <3>1. i # 0
      BY <1>4
    <3>2. QED
      BY <1>3, <1>11, <3>1 DEF Written
  <2>2. QED
    BY <1>1, <1>6, <1>7, <1>8, <1>9, <1>11, <2>1
<1>12. QED
  BY <1>10, <1>11

\* In the end it has written the text.
LEMMA AllWritten ==
    ASSUME NEW P, NEW u, NEW folder, NEW at, NEW m, Means(P, u, folder, at, m)
    PROVE  Written(u, folder, at, Len(P.parts), Len(P.parts)) = Shown(u)
<1>1. /\ Marks(u, at, m) /\ folder \in BOOLEAN
      /\ folder => m # 0 /\ at[m] = Len(u)
  BY DEF Means
<1>2. PICK n : n = Len(P.parts)
  OBVIOUS
<1>3. n = PartsIn(m, folder) /\ n \in 0 .. m /\ m \in Nat /\ Len(u) \in Nat
  BY <1>1, <1>2, MeantParts, MarksFit
<1>4. u \in Seq(Characters) /\ at[1] = 1 /\ at[m + 1] = Len(u) + 1
  BY <1>1 DEF Marks
<1>5. CASE n = 0 /\ folder
  <2>1. m = 1 /\ Len(u) = 1
    <3>1. m = 1
      BY <1>3, <1>5 DEF PartsIn
    <3>2. QED
      BY <1>1, <1>4, <1>5, <3>1
  <2>2. u[1] = Slash
    BY <1>1, <2>1 DEF Marks
  <2>3. u = <<Slash>>
    BY <1>4, <2>1, <2>2, OneCharacter
  <2>4. QED
    BY <1>2, <1>5, <2>3 DEF Written, Shown
<1>6. CASE n = 0 /\ ~ folder
  <2>1. m = 0 /\ Len(u) = 0
    BY <1>3, <1>4, <1>6 DEF PartsIn
  <2>2. u = <<>>
    BY <1>4, <2>1, EmptySeq
  <2>3. QED
    BY <1>2, <1>6, <2>2 DEF Written, Shown
<1>7. CASE n # 0
  <2>1. u # <<>>
    <3>1. 1 \in 1 .. m
      BY <1>3, <1>7
    <3>2. at[1] \in 1 .. Len(u)
      BY <1>1, <3>1, MarksFit
    <3>3. Len(u) # 0
      BY <3>2
    <3>4. QED
      BY <3>3, EmptySeq
  <2>2. SubSeq(u, 1, Len(u)) = u
    BY <1>4, SubSeqFull
  <2>3. ~ (n < n)
    BY <1>3
  <2>4. CASE folder
    <3>1. n + 1 = m
      BY <1>3, <2>4 DEF PartsIn
    <3>2. QED
      BY <1>1, <1>2, <1>7, <2>1, <2>2, <2>4, <3>1 DEF Written, Shown
  <2>5. CASE ~ folder
    <3>1. n = m /\ (Len(u) + 1) - 1 = Len(u)
      BY <1>3, <2>5 DEF PartsIn
    <3>2. QED
      BY <1>2, <1>4, <1>7, <2>1, <2>2, <2>3, <2>5, <3>1 DEF Written, Shown
  <2>6. QED
    BY <1>1, <2>4, <2>5
<1>8. QED
  BY <1>1, <1>5, <1>6, <1>7

LEMMA StringOK ==
    ASSUME NEW P, NEW u, NEW folder, NEW at, NEW m, Means(P, u, folder, at, m)
    PROVE  to_string(P) = FromText(Shown(u))
<1> DEFINE n == Len(P.parts)
           g == [i \in 0 .. n |-> FromText(Written(u, folder, at, n, i))]
           Writing(i, s) == LET named == append_c_string(s, P.parts[i])
                         IN  IF is_folder(P) \/ i < n
                             THEN append_char(named, Slash) ELSE named
           Loop(f) == f = [i \in 0 .. n |->
                             IF i = 0 THEN FromText(<<Slash>>) ELSE Writing(i, f[i - 1])]
           part == CHOOSE f : Loop(f)
<1>1. n \in Nat
  BY MeantParts, LenProperties
<1>2. to_string(P) = part[n]
  BY DEF to_string
<1>3. ASSUME NEW i \in 1 .. n
      PROVE  Writing(i, FromText(Written(u, folder, at, n, i - 1)))
               = FromText(Written(u, folder, at, n, i))
  BY PartWritten
<1> HIDE DEF Writing
<1>4. g[0] = FromText(<<Slash>>)
  BY <1>1 DEF Written
<1>5. ASSUME NEW i \in 1 .. n PROVE g[i] = Writing(i, g[i - 1])
  <2>1. i \in 0 .. n /\ i - 1 \in 0 .. n
    BY <1>1
  <2>2. QED
    BY <1>3, <2>1
<1>6. Loop(g)
  <2>1. g = [i \in 0 .. n |-> g[i]]
    OBVIOUS
  <2>2. \A i \in 0 .. n : i # 0 => i \in 1 .. n
    BY <1>1
  <2> HIDE DEF g
  <2>3. \A i \in 0 .. n : g[i] = IF i = 0 THEN FromText(<<Slash>>) ELSE Writing(i, g[i - 1])
    BY <1>4, <1>5, <2>2
  <2>4. QED
    BY <2>1, <2>3
<1>7. Loop(part)
  BY <1>6
<1> HIDE DEF part
<1>8. part[0] = FromText(<<Slash>>) /\ \A i \in 1 .. n : part[i] = Writing(i, part[i - 1])
  <2>1. 0 \in 0 .. n /\ \A i \in 1 .. n : i \in 0 .. n /\ i # 0
    BY <1>1
  <2>2. QED
    BY <1>7, <2>1
<1> DEFINE S == [i \in 0 .. n |-> {g[i]}]
<1>9. S[0] = {g[0]} /\ \A i \in 1 .. n : S[i] = {g[i]} /\ S[i - 1] = {g[i - 1]}
  <2>1. 0 \in 0 .. n /\ \A i \in 1 .. n : i \in 0 .. n /\ i - 1 \in 0 .. n
    BY <1>1
  <2> HIDE DEF g
  <2>2. QED
    BY <2>1
<1> HIDE DEF g, S
<1>10. part[0] \in S[0]
  BY <1>4, <1>8, <1>9
<1>11. ASSUME NEW i \in 1 .. n, part[i - 1] \in S[i - 1] PROVE part[i] \in S[i]
  <2>1. part[i - 1] = g[i - 1]
    BY <1>9, <1>11
  <2>2. part[i] = Writing(i, g[i - 1])
    BY <1>8, <2>1
  <2>3. QED
    BY <1>5, <1>9, <2>2
<1>12. \A i \in 0 .. n : part[i] \in S[i]
  BY <1>1, <1>10, <1>11, TurnsKept
<1>13. part[n] = g[n]
  <2>1. n \in 0 .. n
    BY <1>1
  <2>2. S[n] = {g[n]}
    BY <2>1 DEF S
  <2>3. QED
    BY <1>12, <2>1, <2>2
<1>14. g[n] = FromText(Written(u, folder, at, n, n))
  BY <1>1 DEF g
<1>15. QED
  BY <1>2, <1>13, <1>14, AllWritten

-----------------------------------------------------------------------------
(* Paths: what VFS and DevFS ask a path *)

LEMMA DriveLetters ==
    ASSUME NEW S, NEW u \in Seq(S), Len(u) = 4
    PROVE  substr(FromText(u), 1, 2) = FromText(<<u[2], u[3]>>)
<1>1. u[2] \in S /\ u[3] \in S
  <2>1. 2 \in 1 .. Len(u) /\ 3 \in 1 .. Len(u)
    OBVIOUS
  <2>2. QED
    BY <2>1, ElementOfSeq
<1>2. PICK x, y, z : x = SubSeq(u, 2, 4) /\ y = SubSeq(x, 1, 2) /\ z = <<u[2], u[3]>>
  OBVIOUS
<1>3. x \in Seq(S) /\ Len(x) = 3 /\ x[1] = u[2] /\ x[2] = u[3]
  <2>1. 2 \in Nat \ {0} /\ 4 \in Nat /\ 2 <= 4 + 1 /\ 4 <= Len(u)
    OBVIOUS
  <2>2. /\ x \in Seq(S) /\ Len(x) = 4 - 2 + 1
        /\ \A i \in 1 .. 4 - 2 + 1 : x[i] = u[2 + i - 1]
    <3>1. PICK a, b : a = 2 /\ b = 4
      OBVIOUS
    <3>2. PICK w : w = SubSeq(u, a, b)
      OBVIOUS
    <3>3. /\ w \in Seq(S) /\ Len(w) = b - a + 1
          /\ \A i \in 1 .. b - a + 1 : w[i] = u[a + i - 1]
      <4>1. a \in Nat \ {0} /\ b \in Nat /\ a <= b + 1 /\ b <= Len(u)
        BY <2>1, <3>1
      <4>2. QED
        BY <3>2, <4>1, SliceOK
    <3>4. QED
      BY <1>2, <3>1, <3>2, <3>3
  <2>3. QED
    BY <2>2
<1>4. y \in Seq(S) /\ Len(y) = 2 /\ y[1] = u[2] /\ y[2] = u[3]
  <2>1. 1 \in Nat \ {0} /\ 2 \in Nat /\ 1 <= 2 + 1 /\ 2 <= Len(x)
    BY <1>3
  <2>2. /\ y \in Seq(S) /\ Len(y) = 2 - 1 + 1
        /\ \A i \in 1 .. 2 - 1 + 1 : y[i] = x[1 + i - 1]
    BY <1>2, <1>3, <2>1, SliceOK
  <2>3. QED
    BY <1>3, <2>2
<1>5. z \in Seq(S) /\ Len(z) = 2 /\ z[1] = u[2] /\ z[2] = u[3]
  BY <1>1, <1>2
<1>6. y = z
  <2>1. \A i \in 1 .. 2 : i = 1 \/ i = 2
    OBVIOUS
  <2>2. \A i \in 1 .. Len(y) : y[i] = z[i]
    BY <1>4, <1>5, <2>1
  <2>3. QED
    BY <1>4, <1>5, <2>2, SeqEqual
<1>7. 1 # Len(u) /\ ~ (2 + 1 > Len(u)) /\ 1 + 1 = 2
  OBVIOUS
<1>8. substr(FromText(u), 1, 2) = FirstOf(SubSeq(u, 2, 4), 2)
  BY <1>7 DEF substr, FromText
<1>9. QED
  BY <1>2, <1>6, <1>8 DEF FirstOf

LEMMA FourCharacters ==
    ASSUME NEW S, NEW u \in Seq(S), Len(u) = 4
    PROVE  u = <<u[1], u[2], u[3], u[4]>>
<1>1. u[1] \in S /\ u[2] \in S /\ u[3] \in S /\ u[4] \in S
  <2>1. 1 \in 1 .. Len(u) /\ 2 \in 1 .. Len(u) /\ 3 \in 1 .. Len(u) /\ 4 \in 1 .. Len(u)
    OBVIOUS
  <2>2. QED
    BY <2>1, ElementOfSeq
<1>2. PICK v : v = <<u[1], u[2], u[3], u[4]>>
  OBVIOUS
<1>3. v \in Seq(S) /\ Len(v) = 4 /\ v[1] = u[1] /\ v[2] = u[2] /\ v[3] = u[3] /\ v[4] = u[4]
  BY <1>1, <1>2
<1>4. \A i \in 1 .. 4 : i = 1 \/ i = 2 \/ i = 3 \/ i = 4
  OBVIOUS
<1>5. \A i \in 1 .. Len(u) : u[i] = v[i]
  BY <1>3, <1>4
<1>6. u = v
  BY <1>3, <1>5, SeqEqual
<1>7. QED
  BY <1>2, <1>6

LEMMA DriveNamed ==
    ASSUME NEW P, NEW u, NEW at, NEW m, Marks(u, at, m), to_string(P) = FromText(Shown(u))
    PROVE  names_drive(P) = \E c \in Range(u) : u = <<Slash, "s", "d", c>>
<1>1. u \in Seq(Characters) /\ Len(u) \in Nat /\ m \in Nat
  BY MarksFit DEF Marks
<1>2. PICK s : s = to_string(P)
  OBVIOUS
<1>3. s.text = Shown(u) /\ s.size = Len(Shown(u))
  <2>1. s = [text |-> Shown(u), size |-> Len(Shown(u))]
    BY <1>2 DEF FromText
  <2>2. QED
    BY <2>1
<1>4. names_drive(P) = (substr(s, 1, 2).text = <<"s", "d">> /\ s.size = 4)
  <2>1. FromText(<<"s", "d">>).text = <<"s", "d">>
    BY DEF FromText
  <2>2. names_drive(P) = (equal(substr(s, 1, 2), FromText(<<"s", "d">>)) /\ s.size = 4)
    BY <1>2 DEF names_drive
  <2>3. QED
    BY <2>1, <2>2 DEF equal
<1>5. ASSUME Len(u) = 4
      PROVE  names_drive(P) = (u[2] = "s" /\ u[3] = "d")
  <2>1. Shown(u) = u
    <3>1. u # <<>>
      BY <1>5
    <3>2. QED
      BY <3>1 DEF Shown
  <2>2. substr(s, 1, 2) = FromText(<<u[2], u[3]>>)
    <3>1. s = FromText(u)
      BY <1>2, <2>1
    <3>2. QED
      BY <1>1, <1>5, <3>1, DriveLetters
  <2>3. s.size = 4
    BY <1>5, <1>3, <2>1
  <2>4. FromText(<<u[2], u[3]>>).text = <<u[2], u[3]>>
    BY DEF FromText
  <2>5. names_drive(P) = (<<u[2], u[3]>> = <<"s", "d">>)
    BY <1>4, <2>2, <2>3, <2>4
  <2>6. QED
    BY <2>5
<1>6. ASSUME names_drive(P) PROVE \E c \in Range(u) : u = <<Slash, "s", "d", c>>
  <2>1. Len(u) = 4
    <3>1. Len(Shown(u)) = 4
      BY <1>6, <1>3, <1>4
    <3>2. Shown(u) = u
      BY <3>1 DEF Shown
    <3>3. QED
      BY <3>1, <3>2
  <2>2. u[1] = Slash
    <3>1. 1 \in 1 .. m
      <4>1. m # 0
        BY <2>1 DEF Marks
      <4>2. QED
        BY <1>1, <4>1
    <3>2. QED
      BY <3>1 DEF Marks
  <2>3. u[2] = "s" /\ u[3] = "d"
    BY <1>5, <1>6, <2>1
  <2>4. u = <<Slash, "s", "d", u[4]>>
    BY <1>1, <2>1, <2>2, <2>3, FourCharacters
  <2>5. u[4] \in Range(u)
    <3>1. 4 \in DOMAIN u
      BY <1>1, <2>1, LenProperties
    <3>2. QED
      BY <3>1 DEF Range
  <2>6. QED
    BY <2>4, <2>5
<1>7. ASSUME NEW c \in Range(u), u = <<Slash, "s", "d", c>> PROVE names_drive(P)
  <2>1. Len(u) = 4 /\ u[2] = "s" /\ u[3] = "d"
    BY <1>7
  <2>2. QED
    BY <1>5, <2>1
<1>8. names_drive(P) \in BOOLEAN
  BY DEF names_drive, equal
<1>9. QED
  BY <1>6, <1>7, <1>8

\* Everything asked of a path is answered as its text says.
LEMMA MeantIsAnswered ==
    ASSUME NEW P, NEW u, NEW folder, NEW at, NEW m, Means(P, u, folder, at, m)
    PROVE  /\ to_string(P) = FromText(Shown(u))
           /\ get_depth(P) = Cardinality(Slashes(u)) - 1
           /\ is_folder(P) = folder
           /\ is_root(P) = (folder /\ u = <<Slash>>)
           /\ names_drive(P) = \E c \in Range(u) : u = <<Slash, "s", "d", c>>
<1>1. /\ Marks(u, at, m) /\ folder \in BOOLEAN /\ is_folder(P) = folder
      /\ folder => m # 0 /\ at[m] = Len(u)
  BY MeantParts DEF Means, is_folder
<1>2. m \in Nat /\ Len(u) \in Nat /\ u \in Seq(Characters) /\ at[1] = 1
  BY <1>1, MarksFit DEF Marks
<1>3. get_depth(P) = m - 1
  <2>1. Len(P.parts) = PartsIn(m, folder)
    BY MeantParts
  <2>2. QED
    BY <1>1, <2>1 DEF get_depth, PartsIn
<1>4. Cardinality(Slashes(u)) = m
  BY <1>1, NthSlashIs
<1>5. to_string(P) = FromText(Shown(u))
  BY StringOK
<1>6. is_root(P) = (folder /\ u = <<Slash>>)
  <2>1. is_root(P) = (m = 1 /\ folder)
    BY <1>1, <1>2, <1>3 DEF is_root
  <2>2. ASSUME folder, m = 1 PROVE u = <<Slash>>
    <3>1. Len(u) = 1 /\ u[1] = Slash
      BY <1>1, <1>2, <2>2 DEF Marks
    <3>2. QED
      BY <1>2, <3>1, OneCharacter
  <2>3. ASSUME folder, u = <<Slash>> PROVE m = 1
    <3>1. Len(u) = 1 /\ m # 0 /\ at[m] = 1
      BY <1>1, <2>3
    <3>2. ~ (1 < m)
      <4>1. 1 \in 1 .. m + 1 /\ m \in 1 .. m + 1
        BY <1>2, <3>1
      <4>2. 1 < m => at[1] < at[m]
        BY <1>1, <4>1 DEF Marks
      <4>3. QED
        BY <1>2, <3>1, <4>2
    <3>3. QED
      BY <1>2, <3>1, <3>2
  <2>4. QED
    BY <1>1, <2>1, <2>2, <2>3
<1>7. QED
  BY <1>1, <1>3, <1>4, <1>5, <1>6, DriveNamed

-----------------------------------------------------------------------------
(* Paths: their construction *)

\* The parts of a text that starts with a slash.
LEMMA VectorFilled ==
    ASSUME NEW s, NEW t \in Seq(Characters), s.text = t, t # <<>>, t[1] = Slash,
           Slash \in Characters
    PROVE  \E at, m : /\ Marks(t, at, m) /\ m \in Nat \ {0}
                      /\ t[Len(t)] = Slash => at[m] = Len(t)
                      /\ fill_vector(s) = PartsOf(t, at, IF t[Len(t)] = Slash THEN m - 1 ELSE m)
<1>1. PICK at, m : ScanAt(t, at, m, filled(t))
  BY FilledOK
<1>2. Marks(t, at, m) /\ m \in Nat \ {0} /\ Len(t) \in Nat \ {0}
  <2>1. Marks(t, at, m) /\ m # 0
    BY <1>1 DEF ScanAt
  <2>2. QED
    BY <2>1, MarksFit, EmptySeq
<1>3. PICK r, tail, x : /\ r = filled(t) /\ x = at[m]
                        /\ tail = SubSeq(t, at[m] + 1, Len(t))
  OBVIOUS
<1>4. r.parts = PartsOf(t, at, m - 1) /\ r.s = FromText(tail)
  BY <1>1, <1>3 DEF ScanAt
<1>5. x \in 1 .. Len(t) /\ m \in 1 .. m /\ at[m + 1] = Len(t) + 1 /\ t[x] = Slash
  <2>1. m \in 1 .. m
    BY <1>2
  <2>2. QED
    BY <1>2, <1>3, <2>1, MarksFit DEF Marks
<1>6. Len(tail) = Len(t) - x
  <2>1. /\ x + 1 \in Nat \ {0} /\ Len(t) \in Nat /\ x + 1 <= Len(t) + 1 /\ Len(t) <= Len(t)
        /\ Len(t) - (x + 1) + 1 = Len(t) - x
    BY <1>2, <1>5
  <2>2. Len(SubSeq(t, x + 1, Len(t))) = Len(t) - (x + 1) + 1
    BY <2>1, SliceOK
  <2>3. QED
    BY <1>3, <2>1, <2>2
<1>7. empty(r.s) = (x = Len(t))
  <2>1. r.s.size = Len(tail)
    BY <1>4 DEF FromText
  <2>2. QED
    BY <1>2, <1>5, <1>6, <2>1 DEF empty
<1>8. (t[Len(t)] = Slash) = (x = Len(t))
  <2>1. ASSUME t[Len(t)] = Slash PROVE x = Len(t)
    <3>1. Len(t) \in 1 .. Len(t)
      BY <1>2
    <3>2. PICK i \in 1 .. m : at[i] = Len(t)
      BY <1>2, <2>1, <3>1 DEF Marks
    <3>3. i \in 1 .. m + 1 /\ m \in 1 .. m + 1 /\ i <= m
      BY <1>2
    <3>4. at[i] <= at[m]
      BY <1>2, <3>3, MarksOrder
    <3>5. QED
      BY <1>3, <1>5, <3>2, <3>4
  <2>2. QED
    BY <1>5, <2>1
<1>9. fill_vector(s) = IF empty(r.s) THEN r.parts ELSE Append(r.parts, r.s.text)
  BY <1>3 DEF fill_vector
<1>10. CASE t[Len(t)] = Slash
  <2>1. fill_vector(s) = PartsOf(t, at, m - 1)
    BY <1>4, <1>7, <1>8, <1>9, <1>10
  <2>2. QED
    BY <1>2, <1>3, <1>8, <1>10, <2>1
<1>11. CASE t[Len(t)] # Slash
  <2>1. r.s.text = tail
    BY <1>4 DEF FromText
  <2>2. Part(t, at, m) = tail
    <3>1. (Len(t) + 1) - 1 = Len(t)
      BY <1>2
    <3>2. QED
      BY <1>3, <1>5, <3>1 DEF Part
  <2>3. fill_vector(s) = PartsOf(t, at, m)
    <3>1. PartsOf(t, at, m) = Append(PartsOf(t, at, m - 1), tail)
      BY <1>2, <1>5, <2>2, PartsGrow
    <3>2. ~ empty(r.s)
      BY <1>7, <1>8, <1>11
    <3>3. fill_vector(s) = Append(r.parts, tail)
      BY <1>9, <2>1, <3>2
    <3>4. QED
      BY <1>4, <3>1, <3>3
  <2>4. QED
    BY <1>2, <1>11, <2>3
<1>12. QED
  BY <1>10, <1>11

\* A path whose text starts with a slash.
LEMMA AbsoluteMeans ==
    ASSUME NEW s, NEW t \in Seq(Characters), s.text = t, t # <<>>, t[1] = Slash,
           Slash \in Characters,
           NEW folder, folder = (t[Len(t)] = Slash)
    PROVE  \E at, m : Means([parts |-> fill_vector(s), folder |-> folder], t, folder, at, m)
<1>1. PICK at, m : /\ Marks(t, at, m) /\ m \in Nat \ {0}
                   /\ t[Len(t)] = Slash => at[m] = Len(t)
                   /\ fill_vector(s) = PartsOf(t, at, IF t[Len(t)] = Slash THEN m - 1 ELSE m)
  BY VectorFilled
<1>2. folder \in BOOLEAN /\ folder => m # 0 /\ at[m] = Len(t)
  BY <1>1
<1>3. fill_vector(s) = PartsOf(t, at, PartsIn(m, folder))
  BY <1>1 DEF PartsIn
<1>4. QED
  BY <1>1, <1>2, <1>3 DEF Means

\* A slash in front of a text.
LEMMA SlashInFront ==
    ASSUME NEW S, NEW u \in Seq(S), NEW c \in S
    PROVE  /\ <<c>> \o u \in Seq(S) /\ Len(<<c>> \o u) = Len(u) + 1
           /\ (<<c>> \o u)[1] = c
           /\ \A i \in 1 .. Len(u) : (<<c>> \o u)[i + 1] = u[i]
<1>1. PICK x, r : x = <<c>> /\ r = x \o u
  OBVIOUS
<1>2. x \in Seq(S) /\ Len(x) = 1 /\ x[1] = c /\ Len(u) \in Nat
  BY <1>1, LenProperties
<1>3. /\ r \in Seq(S) /\ Len(r) = Len(x) + Len(u)
      /\ \A i \in 1 .. Len(x) + Len(u) : r[i] = IF i <= Len(x) THEN x[i] ELSE u[i - Len(x)]
  BY <1>1, <1>2, ConcatProperties
<1>4. r[1] = c /\ Len(r) = Len(u) + 1
  BY <1>2, <1>3
<1>5. ASSUME NEW i \in 1 .. Len(u) PROVE r[i + 1] = u[i]
  <2>1. i + 1 \in 1 .. Len(x) + Len(u) /\ ~ (i + 1 <= Len(x)) /\ (i + 1) - Len(x) = i
    BY <1>2
  <2>2. QED
    BY <1>3, <2>1
<1>6. QED
  BY <1>1, <1>3, <1>4, <1>5

\* The first and the last character of a text.
LEMMA TextEnds ==
    ASSUME NEW S, NEW u \in Seq(S), u # <<>>
    PROVE  /\ Len(u) \in Nat \ {0} /\ Head(u) = u[1] /\ Last(u) = u[Len(u)]
           /\ u[1] \in S
           /\ Front(u) \in Seq(S) /\ Len(Front(u)) = Len(u) - 1
           /\ \A i \in 1 .. Len(u) - 1 : Front(u)[i] = u[i]
<1>1. Len(u) \in Nat \ {0}
  BY EmptySeq
<1>2. PICK n : n = Len(u) - 1
  OBVIOUS
<1>3. Head(u) = u[1]
  <2>1. 1 \in 1 .. Len(u) /\ Len(u) \in 1 .. Len(u)
    BY <1>1
  <2>2. Head(SubSeq(u, 1, Len(u))) = u[1]
    BY <2>1, HeadTailOfSubSeq
  <2>3. QED
    BY <2>2, SubSeqFull
<1>4. u[1] \in S
  BY <1>1, ElementOfSeq
<1>5. PICK x : x = SubSeq(u, 1, n)
  OBVIOUS
<1>6. x \in Seq(S) /\ Len(x) = n /\ \A i \in 1 .. n : x[i] = u[i]
  <2>1. 1 \in Nat \ {0} /\ n \in Nat /\ 1 <= n + 1 /\ n <= Len(u) /\ n - 1 + 1 = n
    BY <1>1, <1>2
  <2>2. /\ x \in Seq(S) /\ Len(x) = n - 1 + 1
        /\ \A i \in 1 .. n - 1 + 1 : x[i] = u[1 + i - 1]
    BY <1>5, <2>1, SliceOK
  <2>3. \A i \in 1 .. n : 1 + i - 1 = i
    OBVIOUS
  <2>4. QED
    BY <2>1, <2>2, <2>3
<1>7. Front(u) = x
  BY <1>2, <1>5 DEF Front
<1>8. QED
  BY <1>1, <1>2, <1>3, <1>4, <1>6, <1>7 DEF Last

\* What the constructor takes for the root: nothing, or nothing but white space.
LEMMA BlankText ==
    ASSUME NEW text \in Seq(Characters)
    PROVE  empty_or_whitespaces(FromText(text)) = (Range(text) \subseteq Whitespace)
<1>1. PICK s, n : s = FromText(text) /\ n = Len(text)
  OBVIOUS
<1>2. s.text = text /\ s.size = n /\ n \in Nat /\ DOMAIN text = 1 .. n
  BY <1>1, LenProperties DEF FromText
<1>3. \A i \in 0 .. n - 1 : CharAt(s, i) = text[i + 1]
  BY <1>1, <1>2 DEF CharAt
<1>4. Range(text) = {text[i] : i \in 1 .. n}
  BY <1>2 DEF Range
<1>5. ASSUME Range(text) \subseteq Whitespace, NEW i \in 0 .. n - 1
      PROVE  CharAt(s, i) \in Whitespace
  <2>1. i + 1 \in 1 .. n
    BY <1>2
  <2>2. QED
    BY <1>3, <1>4, <1>5, <2>1
<1>6. ASSUME empty(s) \/ \A i \in 0 .. n - 1 : CharAt(s, i) \in Whitespace, NEW i \in 1 .. n
      PROVE  text[i] \in Whitespace
  <2>1. PICK j : j = i - 1
    OBVIOUS
  <2>2. j \in 0 .. n - 1 /\ j + 1 = i /\ n # 0
    BY <1>2, <2>1
  <2>3. ~ empty(s)
    BY <1>2, <2>2 DEF empty
  <2>4. CharAt(s, j) \in Whitespace /\ CharAt(s, j) = text[i]
    BY <1>3, <1>6, <2>2, <2>3
  <2>5. QED
    BY <2>4
<1>7. empty_or_whitespaces(s) = (empty(s) \/ \A i \in 0 .. n - 1 : CharAt(s, i) \in Whitespace)
  BY <1>2 DEF empty_or_whitespaces
<1>8. QED
  BY <1>1, <1>4, <1>5, <1>6, <1>7

\* The constructor works on the absolute text, and knows its size.
LEMMA RootedIsAbsolute ==
    ASSUME NEW text \in Seq(Characters)
    PROVE  /\ Rooted(FromText(text)) = FromText(Absolute(text))
           /\ Absolute(text) \in Seq(Characters) /\ Absolute(text) # <<>>
           /\ Absolute(text)[1] = Slash
<1>1. Slash \in Characters
  BY TextsAssumption
<1>2. PICK blank, u : /\ blank = (Range(text) \subseteq Whitespace)
                      /\ u = IF blank THEN Append(text, Slash) ELSE text
  OBVIOUS
<1>3. empty_or_whitespaces(FromText(text)) = blank
  BY <1>2, BlankText
<1>4. u \in Seq(Characters) /\ u # <<>>
  <2>1. /\ Append(text, Slash) \in Seq(Characters) /\ Append(text, Slash) # <<>>
    BY <1>1, AppendProperties
  <2>2. text = <<>> => blank
    <3>1. text = <<>> => Range(text) = {}
      BY DEF Range
    <3>2. QED
      BY <1>2, <3>1
  <2>3. QED
    BY <1>2, <2>1, <2>2
<1>5. PICK named : named = IF blank THEN append_char(FromText(text), Slash) ELSE FromText(text)
  OBVIOUS
<1>6. named = FromText(u)
  <2>1. CASE blank
    <3>1. append_char(FromText(text), Slash) = [text |-> Append(text, Slash), size |-> Len(text) + 1]
      BY DEF append_char, FromText
    <3>2. Len(Append(text, Slash)) = Len(text) + 1
      BY <1>1, AppendProperties
    <3>3. QED
      BY <1>2, <1>5, <2>1, <3>1, <3>2 DEF FromText
  <2>2. CASE ~ blank
    BY <1>2, <1>5, <2>2
  <2>3. QED
    BY <1>2, <2>1, <2>2
<1>7. Len(u) \in Nat \ {0} /\ Head(u) = u[1]
  BY <1>4, TextEnds
<1>8. CharAt(named, 0) = u[1] /\ named.text = u
  <2>1. 0 < Len(u) /\ 0 + 1 = 1 /\ named.text = u
    BY <1>6, <1>7 DEF FromText
  <2>2. QED
    BY <2>1 DEF CharAt
<1>9. Rooted(FromText(text))
        = IF CharAt(named, 0) # Slash THEN FromText(CharPlus(Slash, named).text) ELSE named
  BY <1>3, <1>5 DEF Rooted
<1>10. Absolute(text) = IF Head(u) = Slash THEN u ELSE <<Slash>> \o u
  BY <1>2 DEF Absolute
<1>11. CASE u[1] = Slash
  BY <1>4, <1>6, <1>7, <1>8, <1>9, <1>10, <1>11
<1>12. CASE u[1] # Slash
  <2>1. CharPlus(Slash, named).text = <<Slash>> \o u
    BY <1>8 DEF CharPlus, append_c_string, FromChar
  <2>2. PICK t : t = <<Slash>> \o u
    OBVIOUS
  <2>3. t \in Seq(Characters) /\ Len(t) = Len(u) + 1 /\ t[1] = Slash
    BY <1>1, <1>4, <2>2, SlashInFront
  <2>4. t # <<>>
    BY <1>7, <2>3, EmptySeq
  <2>5. QED
    BY <1>7, <1>8, <1>9, <1>10, <1>12, <2>1, <2>2, <2>3, <2>4
<1>13. QED
  BY <1>11, <1>12

\* What the constructor makes of a text means what the text says.
LEMMA PathMeans ==
    ASSUME NEW text \in Seq(Characters)
    PROVE  \E at, m : Means(PathOf(text), Meaning(text).text, Meaning(text).folder, at, m)
<1>1. Slash \in Characters
  BY TextsAssumption
<1>2. PICK t, s : t = Absolute(text) /\ s = Rooted(FromText(text))
  OBVIOUS
<1>3. s = FromText(t) /\ t \in Seq(Characters) /\ t # <<>> /\ t[1] = Slash
  BY <1>2, RootedIsAbsolute
<1>4. Len(t) \in Nat \ {0} /\ Last(t) = t[Len(t)]
  BY <1>3, TextEnds
<1>5. s.text = t /\ s.size = Len(t)
  BY <1>3 DEF FromText
<1>6. back(s) = t[Len(t)]
  <2>1. Len(t) - 1 < Len(t) /\ (Len(t) - 1) + 1 = Len(t)
    BY <1>4
  <2>2. QED
    BY <1>5, <2>1 DEF back, CharAt
<1>7. PICK folder : folder = (t[Len(t)] = Slash)
  OBVIOUS
<1>8. PathOf(text) = [parts |-> fill_vector(s), folder |-> folder]
  BY <1>2, <1>6, <1>7 DEF PathOf
<1>9. Meaning(text).text = t /\ Meaning(text).folder = folder
  BY <1>2, <1>4, <1>7 DEF Meaning
<1>10. \E at, m : Means([parts |-> fill_vector(s), folder |-> folder], t, folder, at, m)
  BY <1>1, <1>3, <1>5, <1>7, AbsoluteMeans
<1>11. QED
  BY <1>8, <1>9, <1>10

-----------------------------------------------------------------------------
(* Paths: the invariant *)

\* The path has the parts of the text it stands for.
TextInv ==
    /\ meant = [text |-> meant.text, folder |-> meant.folder]
    /\ \E at, m : Means(path, meant.text, meant.folder, at, m)

LEMMA PathStarts == PathInit => TextInv
<1>1. SUFFICES ASSUME PathInit PROVE TextInv
  OBVIOUS
<1>2. PICK text \in Texts : path = PathOf(text) /\ meant = Meaning(text)
  BY <1>1 DEF PathInit, MakePath
<1>3. text \in Seq(Characters)
  BY TextsAssumption
<1>4. \E at, m : Means(PathOf(text), Meaning(text).text, Meaning(text).folder, at, m)
  BY <1>3, PathMeans
<1>5. meant = [text |-> meant.text, folder |-> meant.folder]
  BY <1>2 DEF Meaning
<1>6. QED
  BY <1>2, <1>4, <1>5 DEF TextInv

\* A call cuts the path to what it then means.
LEMMA CutKeepsText ==
    ASSUME TextInv, NEW P, NEW text, CutTo(P, text),
           \E at, m : Means(P, text, meant.folder, at, m)
    PROVE  TextInv'
<1>1. path' = P /\ meant' = [text |-> text, folder |-> meant.folder]
  BY DEF CutTo, TextInv
<1>2. meant'.text = text /\ meant'.folder = meant.folder
  BY <1>1
<1>3. \E at, m : Means(path', meant'.text, meant'.folder, at, m)
  BY <1>1, <1>2
<1>4. meant' = [text |-> meant'.text, folder |-> meant'.folder]
  BY <1>1, <1>2
<1>5. QED
  BY <1>3, <1>4 DEF TextInv

LEMMA PathUsed == TextInv /\ [UsePath]_pathVars => TextInv'
<1> SUFFICES ASSUME TextInv, [UsePath]_pathVars PROVE TextInv'
  OBVIOUS
<1>1. PICK at, m : Means(path, meant.text, meant.folder, at, m)
  BY DEF TextInv
<1>2. CASE GoUp
  <2>1. may_go_up(path) /\ CutTo(go_up(path), WithoutPart(meant.text, get_depth(path) - 1))
    BY <1>2 DEF GoUp
  <2>2. \E to, k : Means(go_up(path), WithoutPart(meant.text, get_depth(path) - 1),
                         meant.folder, to, k)
    BY <1>1, <2>1, GoUpMeans
  <2>3. QED
    BY <2>1, <2>2, CutKeepsText
<1>3. ASSUME NEW index \in 0 .. get_number_of_parts(path) - 1, RemovePart(index)
      PROVE  TextInv'
  <2>1. CutTo(remove_part(path, index), WithoutPart(meant.text, index))
    BY <1>3 DEF RemovePart
  <2>2. index \in 0 .. Len(path.parts) - 1
    BY DEF get_number_of_parts
  <2>3. \E to, k : Means(remove_part(path, index), WithoutPart(meant.text, index),
                         meant.folder, to, k)
    BY <1>1, <2>2, RemoveMeans
  <2>4. QED
    BY <2>1, <2>3, CutKeepsText
<1>4. ASSUME NEW depth \in 1 .. get_depth(path), Trim(depth) PROVE TextInv'
  <2>1. PICK mount : mount = [parts |-> SubSeq(path.parts, 1, depth), folder |-> TRUE]
    OBVIOUS
  <2>2. PICK text : text = SubSeq(meant.text, NthSlash(meant.text, depth + 1), Len(meant.text))
    OBVIOUS
  <2>3. CutTo(trimmed(path, mount), text)
    BY <1>4, <2>1, <2>2 DEF Trim
  <2>4. \E to, k : Means(trimmed(path, mount), text, meant.folder, to, k)
    BY <1>1, <2>1, <2>2, TrimMeans
  <2>5. QED
    BY <2>3, <2>4, CutKeepsText
<1>5. CASE UNCHANGED pathVars
  <2>1. path' = path /\ meant' = meant
    BY <1>5 DEF pathVars
  <2>2. QED
    BY <2>1 DEF TextInv
<1>6. QED
  BY <1>2, <1>3, <1>4, <1>5 DEF UsePath

LEMMA TextIsMeant == TextInv => PathsMeanTheirText
<1>1. SUFFICES ASSUME TextInv PROVE PathsMeanTheirText
  OBVIOUS
<1>2. PICK at, m : Means(path, meant.text, meant.folder, at, m)
  BY <1>1 DEF TextInv
<1>3. /\ to_string(path) = FromText(Shown(meant.text))
      /\ get_depth(path) = Cardinality(Slashes(meant.text)) - 1
      /\ is_folder(path) = meant.folder
      /\ is_root(path) = (meant.folder /\ meant.text = <<Slash>>)
      /\ names_drive(path) = \E c \in Range(meant.text) : meant.text = <<Slash, "s", "d", c>>
  BY <1>2, MeantIsAnswered
<1>4. QED
  BY <1>3 DEF PathsMeanTheirText

\* path.h: a path is the text it was made from, whatever the text, and however often
\* it is gone up, cut or trimmed for a mount: what it shows, its depth, whether it is
\* a folder or the root, and whether DevFS takes it for a drive, are what the text says
\* without exactly the parts that were cut.
THEOREM PathsAreTheirTexts == PathSpec => []PathsMeanTheirText
<1>1. PathInit => TextInv
  BY PathStarts
<1>2. TextInv /\ [UsePath]_pathVars => TextInv'
  BY PathUsed
<1>3. TextInv => PathsMeanTheirText
  BY TextIsMeant
<1>4. QED
  BY <1>1, <1>2, <1>3, PTL DEF PathSpec
=============================================================================
