------------------------------- MODULE DevFS --------------------------------
(***************************************************************************)
(* The file system of devices, src/fs/devfs: every drive is a file, and a  *)
(* range of its bytes is read and written through whole sectors, which the *)
(* storage driver transfers in commands of at most 255 sectors.            *)
(*                                                                         *)
(* A file is named by the number of its drive: /sda is 0.  The caller of   *)
(* read and write is the VFS, which reads only inside a file.              *)
(***************************************************************************)
EXTENDS Bytes, Sequences

CONSTANTS
    SECTOR_SIZE,
    GROUP,       \* sectors a command transfers at most
    MAX_NAMES,   \* drives that get a name, sda to sdz
    Drives,      \* the sizes of the drives, in sectors
    Values,      \* what a byte may contain
    Fills,       \* how callers fill the buffers they write
    MAX_WRITE,   \* bound: bytes in a write
    MaxMounts    \* bound: calls of mount

ASSUME DriveAssumption ==
    /\ SECTOR_SIZE \in Nat \ {0} /\ GROUP \in Nat \ {0} /\ MAX_NAMES \in Nat
    /\ MAX_WRITE \in Nat
    /\ Drives \in Seq(Nat \ {0})
    /\ \A fill \in Fills : \A i \in 0 .. MAX_WRITE - 1 : fill[i] \in Values

VARIABLES
    root_dir,   \* the files mount has made
    disk        \* drive -> its bytes

vars == <<root_dir, disk>>

Numbers == 0 .. Len(Drives) - 1
get_size_by(n) == Drives[n + 1] * SECTOR_SIZE
Buffers == UNION {{[i \in 0 .. n - 1 |-> fill[i]] : fill \in Fills} : n \in 1 .. MAX_WRITE}

NoData == -1   \* what the data register of a drive gives when it has no data

-----------------------------------------------------------------------------
(* The storage driver.  A transfer moves count sectors, from sector lba on  *)
(* the drive and from byte at in memory.  Of a command that reaches beyond  *)
(* its end, a drive carries out the part that exists.                       *)

Transfer(lba, count, at) == [lba |-> lba, count |-> count, at |-> at]
InMemory(t) == t.at .. t.at + t.count * SECTOR_SIZE - 1

\* Memory mem, after the transfers ts have read from drive d.
read_sectors(d, ts, mem) ==
    [i \in DOMAIN mem |->
       IF \E t \in ts : i \in InMemory(t)
       THEN LET t == CHOOSE t \in ts : i \in InMemory(t)
                a == t.lba * SECTOR_SIZE + i - t.at
            IN  IF a \in DOMAIN d THEN d[a] ELSE NoData
       ELSE mem[i]]

\* Drive d, after the transfers ts have written from memory mem.
write_sectors(d, ts, mem) ==
    [a \in DOMAIN d |->
       IF \E t \in ts : a \div SECTOR_SIZE \in t.lba .. t.lba + t.count - 1
       THEN LET t == CHOOSE t \in ts : a \div SECTOR_SIZE \in t.lba .. t.lba + t.count - 1
            IN  mem[t.at + a - t.lba * SECTOR_SIZE]
       ELSE d[a]]

NewBuffer(sectors) == [i \in 0 .. sectors * SECTOR_SIZE - 1 |-> NoData]

-----------------------------------------------------------------------------
(* read *)

StartingSector(offset) == offset \div SECTOR_SIZE
OffsetInSector(offset) == offset % SECTOR_SIZE

\* Mutant: the sector in which the range ends is not counted.
SectorsCount_NoEnd(offset, count) ==
    ((offset + count) \div SECTOR_SIZE) - StartingSector(offset)

\* One sector more than needed, when the range ends where a sector ends.
SectorsCount(offset, count) ==
    ((offset + count) \div SECTOR_SIZE) - StartingSector(offset) + 1

\* Mutant: the last group is a full one, too.
ReadGroups_LastIsFull(lba, n) ==
    IF n <= GROUP THEN {Transfer(lba, n, 0)}
    ELSE {Transfer(lba + g * GROUP, GROUP, g * GROUP * SECTOR_SIZE) :
             g \in 0 .. (n \div GROUP) - 1}

\* In groups, the last of which has the sectors that remain, maybe none.
ReadGroups(lba, n) ==
    IF n <= GROUP THEN {Transfer(lba, n, 0)}
    ELSE LET full == n \div GROUP
         IN  {Transfer(lba + g * GROUP,
                       IF g < full THEN GROUP ELSE n % GROUP,
                       g * GROUP * SECTOR_SIZE) : g \in 0 .. full}

\* What storage_drive_read puts into the caller's buffer.
storage_drive_read(n, count, offset) ==
    LET sectors  == SectorsCount(offset, count)
        temp_buf == read_sectors(disk[n], ReadGroups(StartingSector(offset), sectors),
                                 NewBuffer(sectors))
    IN  Slice(temp_buf, OffsetInSector(offset), count)

\* Neither answer is 0, which is what io tests for: a drive is read and written
\* whether or not mount has made its file.
FS_FILE_EXIST == 1
FS_FILE_N_EXISTS == 2
file_exist(n) ==
    IF \E i \in DOMAIN root_dir : root_dir[i] = n THEN FS_FILE_EXIST ELSE FS_FILE_N_EXISTS

read(n, count, offset) == file_exist(n) # 0 /\ UNCHANGED vars

-----------------------------------------------------------------------------
(* write *)

\* One or two sectors: read, changed and written back.
WriteFewSectors(d, data, offset) ==
    LET n       == SectorsCount(offset, Size(data))
        whole   == {Transfer(StartingSector(offset), n, 0)}
        sectors == read_sectors(d, whole, NewBuffer(n))
    IN  write_sectors(d, whole, Overlay(sectors, OffsetInSector(offset), data))

CountInFirstSector(offset) == SECTOR_SIZE - OffsetInSector(offset)

\* More sectors: the first and the last are read, changed and written back.
WriteEnds(d, data, offset) ==
    LET n     == SectorsCount(offset, Size(data))
        first == {Transfer(StartingSector(offset), 1, 0)}
        last  == {Transfer(StartingSector(offset) + n - 1, 1, 0)}
        inBuf == (n - 2) * SECTOR_SIZE + CountInFirstSector(offset)
        first_sector ==
          Overlay(read_sectors(d, first, NewBuffer(1)), OffsetInSector(offset),
                  Slice(data, 0, CountInFirstSector(offset)))
        last_sector ==
          Overlay(read_sectors(d, last, NewBuffer(1)), 0,
                  Slice(data, inBuf, Size(data) - inBuf))
    IN  write_sectors(write_sectors(d, first, first_sector), last, last_sector)

\* The sectors between, written from the caller's buffer: every full group from
\* the same place of it.
BetweenWrites(lba, n, at) ==
    IF n <= GROUP THEN {Transfer(lba, n, at)}
    ELSE {Transfer(lba + g * GROUP, GROUP, at) : g \in 0 .. (n \div GROUP) - 1}

\* What remains after the full groups is read, over the caller's buffer.
BetweenReads(lba, n, at) ==
    LET full == n \div GROUP
    IN  IF n <= GROUP THEN {}
        ELSE {Transfer(lba + full * GROUP, n % GROUP, at + full * GROUP * SECTOR_SIZE)}

\* The drive and the caller's buffer after storage_drive_write.
storage_drive_write(d, data, offset) ==
    LET n    == SectorsCount(offset, Size(data))
        lba  == StartingSector(offset) + 1
        at   == CountInFirstSector(offset)
        ends == WriteEnds(d, data, offset)
        full == write_sectors(ends, BetweenWrites(lba, n - 2, at), data)
    IN  IF n <= 2 THEN [disk |-> WriteFewSectors(d, data, offset), buf |-> data]
        ELSE [disk |-> full, buf |-> read_sectors(full, BetweenReads(lba, n - 2, at), data)]

\* Is there enough space?
Fits(n, data, offset) == offset + Size(data) <= get_size_by(n)

write(n, data, offset) ==
    /\ file_exist(n) # 0
    /\ Fits(n, data, offset)
    /\ disk' = [disk EXCEPT ![n] = storage_drive_write(@, data, offset).disk]
    /\ UNCHANGED root_dir

\* ENOSPC, or ENOMEM at any time: nothing is read or written.
Fails == UNCHANGED vars

-----------------------------------------------------------------------------

NamedDrives == IF Len(Drives) <= MAX_NAMES THEN Len(Drives) ELSE MAX_NAMES

\* mount adds a file for every drive, again when it is called again.
mount ==
    /\ Len(root_dir) < MaxMounts * NamedDrives
    /\ root_dir' = root_dir \o [i \in 1 .. NamedDrives |-> i - 1]
    /\ UNCHANGED disk

Init ==
    /\ root_dir = <<>>
    /\ \E v \in Values : disk = [n \in Numbers |-> [a \in 0 .. get_size_by(n) - 1 |-> v]]

Next ==
    \/ mount
    \/ \E n \in Numbers :
         \E offset \in DOMAIN disk[n] :
            \/ \E count \in 1 .. get_size_by(n) - offset : read(n, count, offset)
            \/ \E data \in Buffers : write(n, data, offset)
    \/ Fails

Spec == Init /\ [][Next]_vars

-----------------------------------------------------------------------------
(* Properties *)

\* fs.avidocs, read: whatever the place and the length of a range inside a drive,
\* a read returns exactly its bytes.
ReadExact ==
    \A n \in Numbers : \A offset \in DOMAIN disk[n] :
        \A count \in 1 .. get_size_by(n) - offset : file_exist(n) = FS_FILE_EXIST =>
            storage_drive_read(n, count, offset) = Slice(disk[n], offset, count)

\* fs.avidocs: "write(Path path, uint64_t count, uint64_t offset, char* buf) -
\* writes <count> bytes into file <path>, starting from <offset>, from <buf>."
\* The neighbours of the range, in the same sectors, and the caller's buffer
\* stay as they are.
WriteExact ==
    \A n \in Numbers : \A offset \in DOMAIN disk[n], data \in Buffers :
        file_exist(n) = FS_FILE_EXIST /\ Fits(n, data, offset) =>
          storage_drive_write(disk[n], data, offset)
            = [disk |-> Overlay(disk[n], offset, data), buf |-> data]
=============================================================================
