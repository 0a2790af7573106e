---------------------------- MODULE Storage_proofs --------------------------
(***************************************************************************)
(* DevFS and the drives under it.                                          *)
(*                                                                         *)
(* DevFS: ranges of bytes through whole sectors, for any size of a sector, *)
(* any number of sectors a command transfers and any drives.  Every read   *)
(* inside a drive is exact, and so is every write that needs one command   *)
(* between its first and its last sector.                                  *)
(*                                                                         *)
(* IDE, for registers of any width, any machines, addresses and contents:  *)
(* the driver and the selected drive stay at the same sector of a call,    *)
(* so that a call reaches the sectors it names, and between two calls no   *)
(* drive is at work.                                                       *)
(*                                                                         *)
(* PCI, for any number of buses, devices and functions: the scan lists     *)
(* every function of the machine once.                                     *)
(***************************************************************************)
EXTENDS DevFS, Ide, FiniteSetTheorems, SequenceTheorems, WellFoundedInduction,
        TLAPS

-----------------------------------------------------------------------------
(* Sectors and bytes *)

\* What the standard operators on numbers give.
LEMMA Divided ==
  ASSUME NEW a \in Nat, NEW s \in Nat \ {0}
  PROVE  /\ a \div s \in Nat
         /\ a % s \in 0 .. s - 1
         /\ a = (a \div s) * s + (a % s)
OBVIOUS

\* Multiples are in the order of their factors, and at least one factor apart.
LEMMA Multiples ==
  ASSUME NEW a \in Nat, NEW b \in Nat, NEW s \in Nat
  PROVE  /\ a * s \in Nat /\ (a + b) * s = a * s + b * s
         /\ a <= b => a * s <= b * s
         /\ a < b => a * s + s <= b * s
<1>1. a * s \in Nat /\ (a + b) * s = a * s + b * s
  OBVIOUS
<1>2. ASSUME NEW c \in Nat, NEW e \in Nat, c <= e PROVE c * s <= e * s
  <2>1. e - c \in Nat /\ e = c + (e - c)
    BY <1>2
  <2>2. (c + (e - c)) * s = c * s + (e - c) * s
    BY <2>1
  <2>3. (e - c) * s \in Nat /\ c * s \in Nat
    BY <2>1
  <2>4. QED
    BY <2>1, <2>2, <2>3
<1>3. ASSUME a < b PROVE a * s + s <= b * s
  <2>1. (a + 1) * s <= b * s
    BY <1>2, <1>3
  <2>2. (a + 1) * s = a * s + s
    OBVIOUS
  <2>3. QED
    BY <2>1, <2>2
<1>4. QED
  BY <1>1, <1>2, <1>3

\* A byte is in the sectors from k on, m of them, if it is between their ends.
LEMMA InSectors ==
  ASSUME NEW a \in Nat, NEW k \in Nat, NEW m \in Nat
  PROVE  a \div SECTOR_SIZE \in k .. k + m - 1
           <=> k * SECTOR_SIZE <= a /\ a < k * SECTOR_SIZE + m * SECTOR_SIZE
<1> DEFINE s == SECTOR_SIZE
           q == a \div s
           r == a % s
<1>1. s \in Nat /\ s > 0
  BY DriveAssumption
<1>2. q \in Nat /\ r \in 0 .. s - 1 /\ a = q * s + r
  BY <1>1, Divided
<1> HIDE DEF s, q, r
<1>3. /\ k <= q => k * s <= q * s
      /\ q < k => q * s + s <= k * s
      /\ q < k + m => q * s + s <= (k + m) * s
      /\ k + m <= q => (k + m) * s <= q * s
      /\ (k + m) * s = k * s + m * s
      /\ k * s \in Nat /\ m * s \in Nat /\ q * s \in Nat
  BY <1>1, <1>2, Multiples
<1>4. q \in k .. k + m - 1 <=> k * s <= a /\ a < k * s + m * s
  <2> DEFINE x == k * s
             y == m * s
             z == q * s
  <2>1. /\ k <= q => x <= z
        /\ q < k => z + s <= x
        /\ q < k + m => z + s <= x + y
        /\ k + m <= q => x + y <= z
        /\ x \in Nat /\ y \in Nat /\ z \in Nat /\ a = z + r
    BY <1>2, <1>3
  <2> HIDE DEF x, y, z
  <2>2. q \in k .. k + m - 1 <=> x <= a /\ a < x + y
    BY <1>1, <1>2, <2>1
  <2>3. QED
    BY <2>2 DEF x, y
<1>5. QED
  BY <1>4 DEF s, q

-----------------------------------------------------------------------------
(* Transfers *)

LEMMA TransferFields ==
  ASSUME NEW lba, NEW count, NEW at
  PROVE  /\ Transfer(lba, count, at).lba = lba
         /\ Transfer(lba, count, at).count = count
         /\ Transfer(lba, count, at).at = at
BY DEF Transfer

\* The transfers ts bring n sectors, from sector lba on, to the start of a buffer.
Bring(ts, lba, n) ==
  /\ \A t \in ts : /\ t.lba \in Nat /\ t.count \in Nat /\ t.at \in Nat
                   /\ t.lba * SECTOR_SIZE = lba * SECTOR_SIZE + t.at
  /\ \A j \in 0 .. n * SECTOR_SIZE - 1 : \E t \in ts : j \in InMemory(t)

LEMMA OneBrings ==
  ASSUME NEW lba \in Nat, NEW n \in Nat
  PROVE  Bring({Transfer(lba, n, 0)}, lba, n)
<1> DEFINE t == Transfer(lba, n, 0)
<1>1. t.lba = lba /\ t.count = n /\ t.at = 0
  BY TransferFields
<1> HIDE DEF t
<1>2. lba * SECTOR_SIZE \in Nat /\ n * SECTOR_SIZE \in Nat
  BY DriveAssumption
<1>3. InMemory(t) = 0 .. n * SECTOR_SIZE - 1
  BY <1>1, <1>2 DEF InMemory
<1>4. t.lba * SECTOR_SIZE = lba * SECTOR_SIZE + t.at
  BY <1>1, <1>2
<1>5. Bring({t}, lba, n)
  BY <1>1, <1>3, <1>4 DEF Bring
<1>6. QED
  BY <1>5 DEF t

\* The groups of a read meet at their ends, and the last one, which may be empty,
\* reaches the end.
LEMMA GroupsBring ==
  ASSUME NEW lba \in Nat, NEW n \in Nat
  PROVE  Bring(ReadGroups(lba, n), lba, n)
<1> DEFINE s == SECTOR_SIZE
           full == n \div GROUP
           count(g) == IF g < full THEN GROUP ELSE n % GROUP
           t(g) == Transfer(lba + g * GROUP, count(g), g * GROUP * s)
<1>1. s \in Nat /\ s > 0 /\ GROUP \in Nat /\ GROUP > 0
  BY DriveAssumption
<1>2. CASE n <= GROUP
  BY <1>2, OneBrings DEF ReadGroups
<1>3. CASE ~ (n <= GROUP)
  <2>1. ReadGroups(lba, n) = {t(g) : g \in 0 .. full}
    BY <1>3 DEF ReadGroups
  <2>2. full \in Nat /\ n % GROUP \in 0 .. GROUP - 1 /\ n = full * GROUP + (n % GROUP)
    BY <1>1, Divided
  <2>3. ASSUME NEW g \in 0 .. full
        PROVE  /\ t(g).lba = lba + g * GROUP /\ t(g).count = count(g)
               /\ t(g).at = g * GROUP * s
               /\ t(g).lba \in Nat /\ t(g).count \in Nat /\ t(g).at \in Nat
               /\ t(g).lba * s = lba * s + t(g).at
    <3>1. g \in Nat /\ g * GROUP \in Nat /\ g * GROUP * s \in Nat /\ count(g) \in Nat
      BY <1>1, <2>2
    <3>2. (lba + g * GROUP) * s = lba * s + g * GROUP * s
      BY <1>1, <3>1, Multiples
    <3>3. t(g).lba = lba + g * GROUP /\ t(g).count = count(g) /\ t(g).at = g * GROUP * s
      BY TransferFields
    <3> HIDE DEF t, count
    <3>4. QED
      BY <1>1, <3>1, <3>2, <3>3
  <2>4. ASSUME NEW j \in 0 .. n * s - 1
        PROVE  \E g \in 0 .. full : j \in InMemory(t(g))
    <3> DEFINE k == j \div s
               g == k \div GROUP
    <3>1. n * s \in Nat /\ j \in Nat /\ j < n * s
      BY <1>1
    <3>2. k \in Nat /\ k * s <= j /\ j < k * s + s
      <4>1. k \in Nat /\ j % s \in 0 .. s - 1 /\ j = k * s + (j % s)
        BY <1>1, <3>1, Divided
      <4> HIDE DEF k
      <4> DEFINE x == k * s
      <4>2. x \in Nat
        BY <1>1, <4>1
      <4> HIDE DEF x
      <4>3. j = x + (j % s)
        BY <4>1 DEF x
      <4>4. x <= j /\ j < x + s
        BY <1>1, <4>1, <4>2, <4>3
      <4>5. QED
        BY <4>1, <4>4 DEF x
    <3>3. k < n
      BY <1>1, <3>1, <3>2, Multiples
    <3> HIDE DEF k
    <3>4. g \in Nat /\ k % GROUP \in 0 .. GROUP - 1 /\ k = g * GROUP + (k % GROUP)
      BY <1>1, <3>2, Divided
    <3> HIDE DEF g, full
    <3>5. g <= full /\ k < g * GROUP + count(g)
      <4>1. /\ full < g => full * GROUP + GROUP <= g * GROUP
            /\ g * GROUP \in Nat /\ full * GROUP \in Nat
        BY <1>1, <2>2, <3>4, Multiples
      <4> DEFINE x == g * GROUP
                 y == full * GROUP
      <4>2. /\ full < g => y + GROUP <= x
            /\ x \in Nat /\ y \in Nat
            /\ g = full => x = y
            /\ k = x + (k % GROUP) /\ n = y + (n % GROUP)
        BY <2>2, <3>4, <4>1
      <4> HIDE DEF x, y
      <4>3. g <= full
        BY <1>1, <2>2, <3>2, <3>3, <3>4, <4>2
      <4>4. k < x + count(g)
        <5> DEFINE u == k % GROUP
                   r == n % GROUP
        <5>1. /\ u \in 0 .. GROUP - 1 /\ k = x + u /\ r \in 0 .. GROUP - 1 /\ n = y + r
              /\ g < full => count(g) = GROUP
              /\ g = full => count(g) = r
          BY <2>2, <3>4, <4>2
        <5> HIDE DEF u, r, count
        <5>2. CASE g < full
          BY <1>1, <4>2, <5>1, <5>2
        <5>3. CASE g = full
          BY <1>1, <3>3, <4>2, <5>1, <5>3
        <5>4. QED
          BY <2>2, <3>4, <4>3, <5>2, <5>3
      <4>5. QED
        BY <4>3, <4>4 DEF x
    <3>6. g \in 0 .. full
      BY <2>2, <3>4, <3>5
    <3>7. count(g) \in Nat
      BY <1>1, <2>2
    <3>8. g * GROUP * s <= j /\ j < g * GROUP * s + count(g) * s
      <4> DEFINE x == g * GROUP
                 c == count(g)
      <4>1. x \in Nat /\ c \in Nat /\ x <= k /\ k < x + c
        BY <1>1, <3>2, <3>4, <3>5, <3>7
      <4> HIDE DEF x, c
      <4>2. /\ x * s <= k * s /\ k * s + s <= (x + c) * s
            /\ (x + c) * s = x * s + c * s
            /\ x * s \in Nat /\ c * s \in Nat /\ k * s \in Nat
        BY <1>1, <3>2, <4>1, Multiples
      <4>3. x * s <= j /\ j < x * s + c * s
        BY <1>1, <3>1, <3>2, <4>2
      <4>4. QED
        BY <4>3 DEF x, c
    <3>9. j \in InMemory(t(g))
      <4>1. t(g).count = count(g) /\ t(g).at = g * GROUP * s /\ t(g).at \in Nat
        BY <2>3, <3>6
      <4>2. InMemory(t(g)) = g * GROUP * s .. g * GROUP * s + count(g) * s - 1
        BY <4>1 DEF InMemory
      <4>3. g * GROUP * s \in Nat /\ count(g) * s \in Nat
        BY <1>1, <3>7, <4>1
      <4> HIDE DEF count, t
      <4>4. QED
        BY <3>1, <3>8, <4>2, <4>3
    <3>10. QED
      BY <3>6, <3>9
  <2> HIDE DEF t, full
  <2>5. QED
    BY <2>1, <2>3, <2>4 DEF Bring
<1>4. QED
  BY <1>2, <1>3

\* What the transfers leave at j is byte j behind the start of sector lba.
LEMMA ReadAt ==
  ASSUME NEW d, NEW ts, NEW lba \in Nat, NEW n \in Nat, Bring(ts, lba, n),
         NEW j \in 0 .. n * SECTOR_SIZE - 1, lba * SECTOR_SIZE + j \in DOMAIN d
  PROVE  read_sectors(d, ts, NewBuffer(n))[j] = d[lba * SECTOR_SIZE + j]
<1> DEFINE t == CHOOSE u \in ts : j \in InMemory(u)
           a == t.lba * SECTOR_SIZE + j - t.at
<1>1. t \in ts /\ j \in InMemory(t)
  BY DEF Bring
<1>2. t.at \in Nat /\ t.lba * SECTOR_SIZE = lba * SECTOR_SIZE + t.at
  BY <1>1 DEF Bring
<1>3. lba * SECTOR_SIZE \in Nat /\ n * SECTOR_SIZE \in Nat /\ j \in Nat
  BY DriveAssumption
<1>4. j \in DOMAIN NewBuffer(n)
  BY DEF NewBuffer
<1>5. read_sectors(d, ts, NewBuffer(n))[j] = IF a \in DOMAIN d THEN d[a] ELSE NoData
  BY <1>1, <1>4 DEF read_sectors
<1> HIDE DEF t
<1> DEFINE x == lba * SECTOR_SIZE
           y == t.lba * SECTOR_SIZE
<1>6. a = x + j
  <2>1. x \in Nat /\ y = x + t.at /\ a = y + j - t.at
    BY <1>2, <1>3
  <2> HIDE DEF x, y, a
  <2>2. QED
    BY <1>2, <1>3, <2>1
<1>7. QED
  BY <1>5, <1>6

\* The sectors of a range: the range begins in the first and ends before the end
\* of the last, and with more than one it reaches to where the last begins.
LEMMA RangeInSectors ==
  ASSUME NEW offset \in Nat, NEW count \in Nat
  PROVE  LET n == SectorsCount(offset, count)
             k == StartingSector(offset)
             r == OffsetInSector(offset)
         IN  /\ n \in Nat \ {0} /\ k \in Nat /\ r \in 0 .. SECTOR_SIZE - 1
             /\ offset = k * SECTOR_SIZE + r
             /\ r + count < n * SECTOR_SIZE
             /\ n * SECTOR_SIZE <= r + count + SECTOR_SIZE
<1> DEFINE n == SectorsCount(offset, count)
           k == StartingSector(offset)
           r == OffsetInSector(offset)
           s == SECTOR_SIZE
           q == (offset + count) \div s
           e == (offset + count) % s
<1>1. s \in Nat \ {0}
  BY DriveAssumption
<1>2. k \in Nat /\ r \in 0 .. s - 1 /\ offset = k * s + r
  BY <1>1, Divided DEF StartingSector, OffsetInSector
<1>3. q \in Nat /\ e \in 0 .. s - 1 /\ offset + count = q * s + e
  <2> DEFINE x == offset + count
  <2>1. x \in Nat
    OBVIOUS
  <2> HIDE DEF x
  <2>2. x \div s \in Nat /\ x % s \in 0 .. s - 1 /\ x = (x \div s) * s + (x % s)
    BY <1>1, <2>1, Divided
  <2>3. QED
    BY <2>2 DEF x
<1>4. n = q - k + 1
  BY DEF SectorsCount
<1> HIDE DEF n, k, r, s, q, e
<1>5. k <= q
  <2>1. q < k => q * s + s <= k * s
    BY <1>1, <1>2, <1>3, Multiples
  <2> DEFINE x == k * s
             y == q * s
  <2>2. x \in Nat /\ y \in Nat /\ offset = x + r /\ offset + count = y + e
        /\ (q < k => y + s <= x)
    BY <1>1, <1>2, <1>3, <2>1
  <2> HIDE DEF x, y
  <2>3. QED
    BY <1>1, <1>2, <1>3, <2>2
<1>6. n \in Nat \ {0} /\ q + 1 = k + n
  BY <1>2, <1>3, <1>4, <1>5
<1>7. (q + 1) * s = q * s + s /\ (k + n) * s = k * s + n * s
      /\ q * s \in Nat /\ k * s \in Nat /\ n * s \in Nat
  BY <1>1, <1>2, <1>3, <1>6, Multiples
<1>8. r + count < n * s /\ n * s <= r + count + s
  <2> DEFINE x == k * s
             y == q * s
             z == n * s
  <2>1. /\ x \in Nat /\ y \in Nat /\ z \in Nat /\ y + s = x + z
        /\ offset = x + r /\ offset + count = y + e
    BY <1>2, <1>3, <1>6, <1>7
  <2> HIDE DEF x, y, z
  <2>2. r + count < z /\ z <= r + count + s
    BY <1>1, <1>2, <1>3, <2>1
  <2>3. QED
    BY <2>2 DEF z
<1>9. QED
  BY <1>2, <1>6, <1>8 DEF n, k, r, s

LEMMA SliceIs ==
  ASSUME NEW b, NEW c, NEW from, NEW at, NEW count,
         \A i \in 0 .. count - 1 : b[from + i] = c[at + i]
  PROVE  Slice(b, from, count) = Slice(c, at, count)
BY DEF Slice

-----------------------------------------------------------------------------
(* The state *)

\* The drives keep their sizes.
DrivesInv ==
  /\ DOMAIN disk = Numbers
  /\ \A n \in Numbers : DOMAIN disk[n] = 0 .. get_size_by(n) - 1

LEMMA SizeIsNat == \A n \in Numbers : get_size_by(n) \in Nat
<1>1. ASSUME NEW n \in Numbers PROVE Drives[n + 1] \in Nat /\ SECTOR_SIZE \in Nat
  <2>1. n + 1 \in 1 .. Len(Drives) /\ Drives \in Seq(Nat \ {0})
    BY DriveAssumption DEF Numbers
  <2>2. QED
    BY <2>1, DriveAssumption
<1>2. ASSUME NEW n \in Numbers PROVE get_size_by(n) \in Nat
  <2> DEFINE x == Drives[n + 1]
  <2>1. x \in Nat /\ SECTOR_SIZE \in Nat
    BY <1>1
  <2> HIDE DEF x
  <2>2. x * SECTOR_SIZE \in Nat
    BY <2>1
  <2>3. QED
    BY <2>2 DEF get_size_by, x
<1>3. QED
  BY <1>2

LEMMA WriteKeepsSize ==
  ASSUME NEW d, NEW data, NEW offset
  PROVE  DOMAIN storage_drive_write(d, data, offset).disk = DOMAIN d
BY DEF storage_drive_write, WriteFewSectors, WriteEnds, write_sectors

THEOREM DrivesKept == Spec => []DrivesInv
<1>1. Init => DrivesInv
  BY DEF Init, DrivesInv
<1>2. ASSUME DrivesInv, [Next]_vars PROVE DrivesInv'
  <2>1. ASSUME NEW n \in Numbers, NEW offset, NEW data, write(n, data, offset)
        PROVE  DrivesInv'
    <3> DEFINE e == storage_drive_write(disk[n], data, offset).disk
    <3>1. DOMAIN e = DOMAIN disk[n]
      BY WriteKeepsSize
    <3>2. disk' = [disk EXCEPT ![n] = e]
      BY <2>1 DEF write
    <3> HIDE DEF e
    <3>3. QED
      BY <1>2, <3>1, <3>2 DEF DrivesInv
  <2>2. CASE UNCHANGED disk
    BY <1>2, <2>2 DEF DrivesInv
  <2>3. QED
    BY <1>2, <2>1, <2>2 DEF Next, mount, read, Fails, vars
<1>3. QED
  BY <1>1, <1>2, PTL DEF Spec

\* fs.avidocs, read: whatever the place and the length of a range inside a drive,
\* the size of a sector and of a command, a read returns exactly its bytes.
THEOREM ReadsAreExact == Spec => []ReadExact
<1>1. DrivesInv => ReadExact
  <2>1. SUFFICES ASSUME DrivesInv, NEW n \in Numbers, NEW offset \in DOMAIN disk[n],
                        NEW count \in 1 .. get_size_by(n) - offset
                 PROVE  storage_drive_read(n, count, offset) = Slice(disk[n], offset, count)
    BY DEF ReadExact
  <2> DEFINE d == disk[n]
             size == get_size_by(n)
             sectors == SectorsCount(offset, count)
             k == StartingSector(offset)
             r == OffsetInSector(offset)
             ts == ReadGroups(k, sectors)
             temp_buf == read_sectors(d, ts, NewBuffer(sectors))
  <2>2. /\ DOMAIN d = 0 .. size - 1 /\ size \in Nat
        /\ offset \in Nat /\ count \in Nat /\ offset + count <= size
    BY <2>1, SizeIsNat DEF DrivesInv
  <2>3. storage_drive_read(n, count, offset) = Slice(temp_buf, r, count)
    BY DEF storage_drive_read
  <2> HIDE DEF d, size
  <2>4. /\ sectors \in Nat /\ k \in Nat /\ r \in 0 .. SECTOR_SIZE - 1
        /\ offset = k * SECTOR_SIZE + r /\ r + count < sectors * SECTOR_SIZE
    BY <2>2, RangeInSectors
  <2> HIDE DEF sectors, k, r
  <2>5. Bring(ts, k, sectors)
    BY <2>4, GroupsBring
  <2> HIDE DEF ts
  <2>6. ASSUME NEW i \in 0 .. count - 1 PROVE temp_buf[r + i] = d[offset + i]
    <3> DEFINE x == k * SECTOR_SIZE
               z == sectors * SECTOR_SIZE
               j == r + i
    <3>1. SECTOR_SIZE \in Nat /\ x \in Nat /\ z \in Nat
      BY <2>4, DriveAssumption
    <3> HIDE DEF x, z
    <3>2. offset = x + r /\ r + count < z /\ r \in Nat
      BY <2>4, <3>1 DEF x, z
    <3>3. j \in 0 .. z - 1 /\ x + j = offset + i /\ x + j \in DOMAIN d
      BY <2>2, <3>1, <3>2
    <3> HIDE DEF j
    <3>4. temp_buf[j] = d[x + j]
      BY <2>4, <2>5, <3>3, ReadAt DEF x, z
    <3>5. QED
      BY <3>3, <3>4 DEF j
  <2> HIDE DEF temp_buf
  <2>7. Slice(temp_buf, r, count) = Slice(d, offset, count)
    BY <2>6, SliceIs
  <2>8. QED
    BY <2>3, <2>7 DEF d
<1>2. QED
  BY <1>1, DrivesKept, PTL

-----------------------------------------------------------------------------
(* Writes *)

\* One transfer to a drive changes the bytes of its sectors and no other.
One(lba, n, at) == {Transfer(lba, n, at)}

\* Byte a of drive d, when n sectors from lba on come from byte at of mem.
WrittenByte(d, mem, lba, n, at, a) ==
  IF lba * SECTOR_SIZE <= a /\ a < lba * SECTOR_SIZE + n * SECTOR_SIZE
  THEN mem[at + a - lba * SECTOR_SIZE] ELSE d[a]

\* Byte j of the buffer into which n sectors are read, with data put over it.
ChangedByte(d, lba, r, data, j) ==
  IF j - r \in DOMAIN data THEN data[j - r] ELSE d[lba * SECTOR_SIZE + j]

LEMMA WriteOne ==
  ASSUME NEW d, DOMAIN d \subseteq Nat, NEW mem,
         NEW lba \in Nat, NEW n \in Nat, NEW at \in Nat, NEW a \in DOMAIN d
  PROVE  write_sectors(d, One(lba, n, at), mem)[a] = WrittenByte(d, mem, lba, n, at, a)
<1> DEFINE t == Transfer(lba, n, at)
           Hit(u) == a \div SECTOR_SIZE \in u.lba .. u.lba + u.count - 1
           c == CHOOSE u \in {t} : Hit(u)
<1>1. t.lba = lba /\ t.count = n /\ t.at = at
  BY TransferFields
<1>2. write_sectors(d, {t}, mem)[a]
        = IF \E u \in {t} : Hit(u) THEN mem[c.at + a - c.lba * SECTOR_SIZE] ELSE d[a]
  BY DEF write_sectors
<1>3. Hit(t) <=> lba * SECTOR_SIZE <= a /\ a < lba * SECTOR_SIZE + n * SECTOR_SIZE
  BY <1>1, InSectors
<1>4. Hit(t) => c = t
  OBVIOUS
<1> HIDE DEF c, Hit, t
<1> DEFINE e == write_sectors(d, {t}, mem)[a]
<1>5. CASE Hit(t)
  <2>1. e = mem[at + a - lba * SECTOR_SIZE]
    BY <1>1, <1>2, <1>4, <1>5
  <2>2. QED
    BY <2>1, <1>3, <1>5 DEF t, One, WrittenByte
<1>6. CASE ~ Hit(t)
  <2>1. e = d[a]
    BY <1>2, <1>6
  <2>2. QED
    BY <2>1, <1>3, <1>6 DEF t, One, WrittenByte
<1>7. QED
  BY <1>5, <1>6

LEMMA DataSize ==
  ASSUME NEW data \in Buffers
  PROVE  /\ Size(data) \in 1 .. MAX_WRITE /\ DOMAIN data = 0 .. Size(data) - 1
         /\ data = [i \in DOMAIN data |-> data[i]]
<1>1. PICK m \in 1 .. MAX_WRITE, fill \in Fills : data = [i \in 0 .. m - 1 |-> fill[i]]
  BY DEF Buffers
<1>2. m \in Int /\ m >= 1 /\ DOMAIN data = 0 .. m - 1
  BY <1>1, DriveAssumption
<1>3. Cardinality(0 .. m - 1) = m
  <2>1. m - 1 \in Int /\ ~ (0 > m - 1) /\ (m - 1) - 0 + 1 = m
    BY <1>2
  <2>2. Cardinality(0 .. m - 1) = IF 0 > m - 1 THEN 0 ELSE (m - 1) - 0 + 1
    BY <2>1, FS_Interval
  <2>3. QED
    BY <2>1, <2>2
<1>4. QED
  BY <1>1, <1>2, <1>3 DEF Size

\* The buffer into which n sectors are read, changed by data from r on.
LEMMA ChangedSectors ==
  ASSUME NEW d, NEW lba \in Nat, NEW n \in Nat, NEW r, NEW data,
         NEW j \in 0 .. n * SECTOR_SIZE - 1, lba * SECTOR_SIZE + j \in DOMAIN d
  PROVE  Overlay(read_sectors(d, One(lba, n, 0), NewBuffer(n)), r, data)[j]
           = ChangedByte(d, lba, r, data, j)
<1> USE DEF One
<1> DEFINE b == read_sectors(d, {Transfer(lba, n, 0)}, NewBuffer(n))
<1>1. DOMAIN b = 0 .. n * SECTOR_SIZE - 1
  BY DEF read_sectors, NewBuffer
<1>2. b[j] = d[lba * SECTOR_SIZE + j]
  BY OneBrings, ReadAt
<1> HIDE DEF b
<1>3. Overlay(b, r, data)[j] = IF j - r \in DOMAIN data THEN data[j - r] ELSE b[j]
  BY <1>1 DEF Overlay
<1>4. QED
  BY <1>2, <1>3 DEF b, ChangedByte

\* One or two sectors.
LEMMA FewExact ==
  ASSUME NEW d, DOMAIN d \subseteq Nat, NEW offset \in Nat,
         NEW data, Size(data) \in Nat, DOMAIN data = 0 .. Size(data) - 1
  PROVE  WriteFewSectors(d, data, offset) = Overlay(d, offset, data)
<1> DEFINE m == Size(data)
           n == SectorsCount(offset, m)
           k == StartingSector(offset)
           r == OffsetInSector(offset)
           x == k * SECTOR_SIZE
           z == n * SECTOR_SIZE
           b == Overlay(read_sectors(d, One(k, n, 0), NewBuffer(n)), r, data)
           e == write_sectors(d, One(k, n, 0), b)
<1>1. WriteFewSectors(d, data, offset) = e
  BY DEF WriteFewSectors, One
<1>2. DOMAIN e = DOMAIN d
  BY DEF write_sectors
<1>3. /\ n \in Nat /\ k \in Nat /\ r \in 0 .. SECTOR_SIZE - 1
      /\ offset = x + r /\ r + m < z
  BY RangeInSectors
<1>4. x \in Nat /\ z \in Nat /\ m \in Nat /\ r \in Nat
  BY <1>3, DriveAssumption
<1>5. DOMAIN data = 0 .. m - 1
  OBVIOUS
<1> HIDE DEF m, n, k, r
<1>6. ASSUME NEW a \in DOMAIN d
      PROVE  e[a] = IF a - offset \in DOMAIN data THEN data[a - offset] ELSE d[a]
  <2>1. e[a] = IF x <= a /\ a < x + z THEN b[0 + a - x] ELSE d[a]
    <3> HIDE DEF b
    <3>1. k \in Nat /\ n \in Nat
      BY <1>3
    <3>2. e[a] = WrittenByte(d, b, k, n, 0, a)
      BY <3>1, WriteOne
    <3> HIDE DEF e
    <3>3. QED
      BY <3>2 DEF WrittenByte
  <2>2. a \in Nat
    OBVIOUS
  <2> DEFINE j == 0 + a - x
  <2>3. CASE x <= a /\ a < x + z
    <3>1. j \in 0 .. z - 1 /\ x + j = a /\ j - r = a - offset
      <4> HIDE DEF x, z
      <4>1. QED
        BY <1>3, <1>4, <2>2, <2>3
    <3>2. x + j \in DOMAIN d
      BY <3>1
    <3> HIDE DEF j
    <3>3. b[j] = IF j - r \in DOMAIN data THEN data[j - r] ELSE d[x + j]
      <4>1. k \in Nat /\ n \in Nat
        BY <1>3
      <4>2. b[j] = ChangedByte(d, k, r, data, j)
        BY <4>1, <3>1, <3>2, ChangedSectors
      <4>3. QED
        BY <4>2 DEF ChangedByte
    <3> HIDE DEF b, e
    <3>4. QED
      BY <2>1, <2>3, <3>1, <3>3 DEF j
  <2>4. CASE ~ (x <= a /\ a < x + z)
    <3>1. a - offset \notin DOMAIN data
      <4> HIDE DEF x, z
      <4>1. QED
        BY <1>3, <1>4, <1>5, <2>2, <2>4
    <3> HIDE DEF e, x, z
    <3>2. QED
      BY <2>1, <2>4, <3>1
  <2>5. QED
    BY <2>3, <2>4
<1> HIDE DEF e
<1>7. e = [a \in DOMAIN d |-> e[a]]
  BY <1>2 DEF e, write_sectors
<1>8. QED
  BY <1>1, <1>6, <1>7 DEF Overlay

\* The ends of the sectors of a longer write, in bytes.
LEMMA SectorEnds ==
  ASSUME NEW k \in Nat, NEW n \in Nat, n > 2
  PROVE  /\ k * SECTOR_SIZE \in Nat /\ n * SECTOR_SIZE \in Nat
         /\ (k + 1) * SECTOR_SIZE = k * SECTOR_SIZE + SECTOR_SIZE
         /\ (n - 2) * SECTOR_SIZE = n * SECTOR_SIZE - 2 * SECTOR_SIZE
         /\ (k + n - 1) * SECTOR_SIZE = k * SECTOR_SIZE + n * SECTOR_SIZE - SECTOR_SIZE
         /\ 1 * SECTOR_SIZE = SECTOR_SIZE
<1> DEFINE s == SECTOR_SIZE
           v == n - 2
           w == n - 1
<1>1. s \in Nat /\ v \in Nat /\ w \in Nat /\ n = v + 2 /\ n = w + 1 /\ k + n - 1 = k + w
  BY DriveAssumption
<1> HIDE DEF s, v, w
<1>2. /\ (v + 2) * s = v * s + 2 * s /\ (w + 1) * s = w * s + 1 * s
      /\ (k + w) * s = k * s + w * s /\ (k + 1) * s = k * s + 1 * s
      /\ k * s \in Nat /\ v * s \in Nat /\ w * s \in Nat /\ 1 * s = s
  BY <1>1, Multiples
<1> DEFINE x == k * s
           y == v * s
           z == w * s
<1>3. /\ n * s = y + 2 * s /\ n * s = z + s /\ (k + n - 1) * s = x + z
      /\ (k + 1) * s = x + s /\ x \in Nat /\ y \in Nat /\ z \in Nat
  BY <1>1, <1>2
<1> HIDE DEF x, y, z
<1>4. /\ n * s \in Nat /\ y = n * s - 2 * s /\ (k + n - 1) * s = x + n * s - s
  BY <1>1, <1>3
<1>5. QED
  BY <1>1, <1>2, <1>3, <1>4 DEF x, y, z, s, v

\* Where byte a of the drive is in a longer range: between the first and the last
\* sector, in the last one, in the first one, or outside the range's sectors.
Places(s, r, m, x, z, offset, p, inBuf, a) ==
  LET Between == x + s <= a /\ a < x + z - s
      Last == x + z - s <= a /\ a < (x + z - s) + s
      First == x <= a /\ a < x + s
      mid == p + a - (x + s)
      i == 0 + a - (x + z - s)
      j == 0 + a - x
      o == a - offset
  IN  /\ (x + s) + (z - 2 * s) = x + z - s
      /\ Between => mid = o /\ o \in 0 .. m - 1
      /\ (x + z - s <= a /\ a < x + z) =>
           /\ ~ Between /\ Last
           /\ i \in 0 .. s - 1 /\ (x + z - s) + i = a /\ i - 0 = i
           /\ i \in 0 .. m - inBuf - 1 <=> o \in 0 .. m - 1
           /\ inBuf + i = o
      /\ First =>
           /\ ~ Between /\ ~ Last
           /\ j \in 0 .. s - 1 /\ x + j = a /\ j - r = o /\ 0 + (j - r) = o
           /\ j - r \in 0 .. p - 1 <=> o \in 0 .. m - 1
      /\ ~ (x <= a /\ a < x + z) =>
           ~ Between /\ ~ Last /\ ~ First /\ o \notin 0 .. m - 1
      /\ Between \/ (x + z - s <= a /\ a < x + z) \/ First \/ ~ (x <= a /\ a < x + z)

LEMMA PlacesInRange ==
  ASSUME NEW s \in Nat \ {0}, NEW r \in 0 .. s - 1, NEW m \in Nat, NEW x \in Nat,
         NEW z \in Nat, NEW offset \in Nat, NEW p, NEW inBuf, NEW a \in Nat,
         offset = x + r, r + m < z, z <= r + m + s, z - 2 * s >= s,
         p = s - r, inBuf = z - 2 * s + p
  PROVE  Places(s, r, m, x, z, offset, p, inBuf, a)
BY DEF Places

\* More sectors, the ones between in one transfer.
LEMMA ManyExact ==
  ASSUME NEW d, DOMAIN d \subseteq Nat, NEW offset \in Nat,
         NEW data, data = [i \in DOMAIN data |-> data[i]],
         Size(data) \in Nat, DOMAIN data = 0 .. Size(data) - 1,
         SectorsCount(offset, Size(data)) > 2,
         SectorsCount(offset, Size(data)) - 2 <= GROUP
  PROVE  storage_drive_write(d, data, offset)
           = [disk |-> Overlay(d, offset, data), buf |-> data]
<1> DEFINE m == Size(data)
           n == SectorsCount(offset, m)
           k == StartingSector(offset)
           r == OffsetInSector(offset)
           s == SECTOR_SIZE
           p == s - r
           inBuf == (n - 2) * s + p
           begin == Slice(data, 0, p)
           rest == Slice(data, inBuf, m - inBuf)
           b1 == Overlay(read_sectors(d, One(k, 1, 0), NewBuffer(1)), r, begin)
           b2 == Overlay(read_sectors(d, One(k + n - 1, 1, 0), NewBuffer(1)), 0, rest)
           w1 == write_sectors(d, One(k, 1, 0), b1)
           w2 == write_sectors(w1, One(k + n - 1, 1, 0), b2)
           e == write_sectors(w2, One(k + 1, n - 2, p), data)
           x == k * s
           z == n * s
<1>1. /\ s \in Nat \ {0} /\ n \in Nat /\ n > 2 /\ n - 2 <= GROUP /\ k \in Nat
      /\ r \in 0 .. s - 1 /\ offset = x + r /\ r + m < z /\ z <= r + m + s /\ m \in Nat
  <2>1. /\ n \in Nat /\ k \in Nat /\ r \in 0 .. s - 1
        /\ offset = x + r /\ r + m < z /\ z <= r + m + s
    BY RangeInSectors
  <2> HIDE DEF r, k
  <2>2. n > 2 /\ n - 2 <= GROUP /\ m \in Nat
    OBVIOUS
  <2>3. QED
    BY <2>1, <2>2, DriveAssumption
<1>2. storage_drive_write(d, data, offset) = [disk |-> e, buf |-> data]
  <2>1. ~ (n <= 2) /\ n - 2 <= GROUP
    <3> HIDE DEF n
    <3>1. QED
      BY <1>1
  <2>2. WriteEnds(d, data, offset) = w2
    BY DEF WriteEnds, One, CountInFirstSector
  <2>3. BetweenWrites(k + 1, n - 2, p) = One(k + 1, n - 2, p)
    BY <2>1 DEF BetweenWrites, One
  <2>4. read_sectors(e, BetweenReads(k + 1, n - 2, p), data) = data
    <3> HIDE DEF e
    <3>1. BetweenReads(k + 1, n - 2, p) = {}
      BY <2>1 DEF BetweenReads
    <3>2. read_sectors(e, {}, data) = [i \in DOMAIN data |-> data[i]]
      BY DEF read_sectors
    <3>3. QED
      BY <3>1, <3>2
  <2>5. storage_drive_write(d, data, offset)
          = LET full == write_sectors(WriteEnds(d, data, offset),
                                      BetweenWrites(k + 1, n - 2, p), data)
            IN  [disk |-> full,
                 buf |-> read_sectors(full, BetweenReads(k + 1, n - 2, p), data)]
    BY <2>1 DEF storage_drive_write, CountInFirstSector
  <2>6. QED
    BY <2>2, <2>3, <2>4, <2>5
<1>3. /\ DOMAIN w1 = DOMAIN d /\ DOMAIN w2 = DOMAIN d /\ DOMAIN e = DOMAIN d
      /\ e = [a \in DOMAIN e |-> e[a]]
  BY DEF write_sectors
<1>4. /\ x \in Nat /\ z \in Nat /\ (k + 1) * s = x + s
      /\ (n - 2) * s = z - 2 * s /\ (k + n - 1) * s = x + z - s /\ 1 * s = s
  BY <1>1, SectorEnds
<1>5. /\ z - 2 * s >= s /\ p \in 1 .. s /\ inBuf = z - 2 * s + p
      /\ n - 2 \in Nat /\ k \in Nat /\ k + 1 \in Nat /\ k + n - 1 \in Nat
  <2> DEFINE v == n - 2
  <2>1. v \in Nat /\ 1 <= v /\ k \in Nat /\ k + 1 \in Nat /\ k + n - 1 \in Nat /\ p \in 1 .. s
    <3>1. s \in Nat \ {0} /\ n \in Nat /\ n > 2 /\ k \in Nat /\ r \in 0 .. s - 1
      BY <1>1
    <3> HIDE DEF n, k, r, s
    <3>2. QED
      BY <3>1
  <2>2. 1 * s <= v * s
    <3> HIDE DEF v, s
    <3>1. QED
      BY <1>1, <2>1, Multiples
  <2>3. v * s = z - 2 * s
    BY <1>4
  <2>4. QED
    BY <1>4, <2>1, <2>2, <2>3
<1>6. /\ DOMAIN begin = 0 .. p - 1 /\ \A i \in 0 .. p - 1 : begin[i] = data[0 + i]
      /\ DOMAIN rest = 0 .. m - inBuf - 1
      /\ \A i \in 0 .. m - inBuf - 1 : rest[i] = data[inBuf + i]
  BY DEF Slice
<1> HIDE DEF n, m, k, r, s, p, inBuf, begin, rest, b1, b2, w1, w2, e, x, z

\* What the arithmetic below needs, without products.
<1>7. /\ s \in Nat \ {0} /\ r \in 0 .. s - 1 /\ m \in Nat /\ x \in Nat /\ z \in Nat
       /\ offset = x + r /\ r + m < z /\ z <= r + m + s
       /\ z - 2 * s >= s /\ p \in 1 .. s /\ p = s - r /\ inBuf = z - 2 * s + p
  BY <1>1, <1>4, <1>5 DEF p
<1>8. ASSUME NEW a \in DOMAIN d
      PROVE  /\ e[a] = WrittenByte(w2, data, k + 1, n - 2, p, a)
             /\ w2[a] = WrittenByte(w1, b2, k + n - 1, 1, 0, a)
             /\ w1[a] = WrittenByte(d, b1, k, 1, 0, a)
  <2>1. DOMAIN w1 \subseteq Nat /\ DOMAIN w2 \subseteq Nat
    BY <1>3
  <2>2. p \in Nat
    BY <1>1, <1>5
  <2>3. e[a] = WrittenByte(w2, data, k + 1, n - 2, p, a)
    BY <1>3, <1>5, <2>1, <2>2, WriteOne DEF e
  <2>4. w2[a] = WrittenByte(w1, b2, k + n - 1, 1, 0, a)
    BY <1>3, <1>5, <2>1, WriteOne DEF w2
  <2>5. w1[a] = WrittenByte(d, b1, k, 1, 0, a)
    BY <1>5, WriteOne DEF w1
  <2>6. QED
    BY <2>3, <2>4, <2>5
<1>9. ASSUME NEW a \in DOMAIN d
      PROVE  e[a] = IF a - offset \in DOMAIN data THEN data[a - offset] ELSE d[a]
  <2>1. a \in Nat /\ DOMAIN data = 0 .. m - 1
    BY DEF m
  <2> DEFINE Between == x + s <= a /\ a < x + z - s
             Last == x + z - s <= a /\ a < (x + z - s) + s
             First == x <= a /\ a < x + s
             mid == p + a - (x + s)
             i == 0 + a - (x + z - s)
             j == 0 + a - x
             o == a - offset
  <2>2. /\ Between => mid = o /\ o \in 0 .. m - 1
        /\ (x + z - s <= a /\ a < x + z) =>
             /\ ~ Between /\ Last
             /\ i \in 0 .. s - 1 /\ (x + z - s) + i = a /\ i - 0 = i
             /\ i \in 0 .. m - inBuf - 1 <=> o \in 0 .. m - 1
             /\ inBuf + i = o
        /\ First =>
             /\ ~ Between /\ ~ Last
             /\ j \in 0 .. s - 1 /\ x + j = a /\ j - r = o /\ 0 + (j - r) = o
             /\ j - r \in 0 .. p - 1 <=> o \in 0 .. m - 1
        /\ ~ (x <= a /\ a < x + z) =>
             ~ Between /\ ~ Last /\ ~ First /\ o \notin 0 .. m - 1
        /\ Between \/ (x + z - s <= a /\ a < x + z) \/ First \/ ~ (x <= a /\ a < x + z)
        /\ (x + s) + (z - 2 * s) = x + z - s
    <3>1. Places(s, r, m, x, z, offset, p, inBuf, a)
      BY <1>7, <2>1, PlacesInRange
    <3>2. QED
      BY <3>1 DEF Places
  <2>3. e[a] = IF Between THEN data[mid] ELSE w2[a]
    <3>1. e[a] = IF x + s <= a /\ a < (x + s) + (z - 2 * s) THEN data[mid] ELSE w2[a]
      BY <1>4, <1>8 DEF WrittenByte, s
    <3>2. a < (x + s) + (z - 2 * s) <=> a < x + z - s
      BY <2>2
    <3>3. QED
      BY <3>1, <3>2
  <2>4. w2[a] = IF Last THEN b2[i] ELSE w1[a]
    BY <1>4, <1>8 DEF WrittenByte, s
  <2>5. w1[a] = IF First THEN b1[j] ELSE d[a]
    BY <1>4, <1>8 DEF WrittenByte, s, x
  <2>6. ASSUME i \in 0 .. s - 1, (x + z - s) + i = a
        PROVE  b2[i] = IF i - 0 \in DOMAIN rest THEN rest[i - 0] ELSE d[a]
    <3>1. i \in 0 .. 1 * s - 1 /\ (k + n - 1) * s + i = a
      <4> HIDE DEF i
      <4>1. QED
        BY <1>4, <2>6
    <3> HIDE DEF i
    <3>2. b2[i] = ChangedByte(d, k + n - 1, 0, rest, i)
      BY <1>5, <3>1, ChangedSectors DEF b2, s
    <3>3. QED
      BY <3>1, <3>2 DEF ChangedByte, s
  <2>7. ASSUME j \in 0 .. s - 1, x + j = a
        PROVE  b1[j] = IF j - r \in DOMAIN begin THEN begin[j - r] ELSE d[a]
    <3>1. j \in 0 .. 1 * s - 1 /\ k * s + j = a
      <4> HIDE DEF j
      <4>1. QED
        BY <1>4, <2>7 DEF x
    <3> HIDE DEF j
    <3>2. b1[j] = ChangedByte(d, k, r, begin, j)
      BY <1>5, <3>1, ChangedSectors DEF b1, s
    <3>3. QED
      BY <3>1, <3>2 DEF ChangedByte, s
  <2> HIDE DEF Between, Last, First, mid, i, j, o
  <2>8. CASE Between
    BY <2>1, <2>2, <2>3, <2>8 DEF o
  <2>9. CASE x + z - s <= a /\ a < x + z
    BY <1>6, <2>1, <2>2, <2>3, <2>4, <2>6, <2>9 DEF o
  <2>10. CASE First
    BY <1>6, <2>1, <2>2, <2>3, <2>4, <2>5, <2>7, <2>10 DEF o
  <2>11. CASE ~ (x <= a /\ a < x + z)
    BY <2>1, <2>2, <2>3, <2>4, <2>5, <2>11 DEF o
  <2>12. QED
    BY <2>2, <2>8, <2>9, <2>10, <2>11
<1>10. Overlay(d, offset, data)
        = [a \in DOMAIN d |-> IF a - offset \in DOMAIN data THEN data[a - offset] ELSE d[a]]
  BY DEF Overlay
<1>11. e = Overlay(d, offset, data)
  BY <1>3, <1>9, <1>10
<1>12. QED
  BY <1>2, <1>11

\* fs.avidocs, write: a write changes the bytes of its range, and neither their
\* neighbours in the same sectors nor the caller's buffer, when the longest write
\* needs no more than one command between its first and its last sector.  (The full
\* groups of a longer one are all written from the same place of the buffer.)
THEOREM WritesAreExact ==
  ASSUME MAX_WRITE <= (GROUP + 1) * SECTOR_SIZE
  PROVE  Spec => []WriteExact
<1>1. DrivesInv => WriteExact
  <2>1. SUFFICES ASSUME DrivesInv, NEW n \in Numbers, NEW offset \in DOMAIN disk[n],
                        NEW data \in Buffers
                 PROVE  storage_drive_write(disk[n], data, offset)
                          = [disk |-> Overlay(disk[n], offset, data), buf |-> data]
    BY DEF WriteExact
  <2> DEFINE d == disk[n]
             m == Size(data)
             N == SectorsCount(offset, m)
             r == OffsetInSector(offset)
  <2>2. DOMAIN d \subseteq Nat /\ offset \in Nat
    <3>1. DOMAIN d = 0 .. get_size_by(n) - 1 /\ get_size_by(n) \in Nat
      BY <2>1, SizeIsNat DEF DrivesInv
    <3>2. QED
      BY <3>1
  <2> HIDE DEF d
  <2>3. /\ m \in 1 .. MAX_WRITE /\ m \in Nat /\ DOMAIN data = 0 .. m - 1
        /\ data = [i \in DOMAIN data |-> data[i]]
    BY DataSize, DriveAssumption
  <2>4. CASE N <= 2
    <3>1. WriteFewSectors(d, data, offset) = Overlay(d, offset, data)
      BY <2>2, <2>3, FewExact
    <3>2. storage_drive_write(d, data, offset)
            = [disk |-> WriteFewSectors(d, data, offset), buf |-> data]
      BY <2>4 DEF storage_drive_write
    <3>3. QED
      BY <3>1, <3>2 DEF d
  <2>5. CASE N > 2
    <3>1. /\ N \in Nat /\ r \in 0 .. SECTOR_SIZE - 1
          /\ N * SECTOR_SIZE <= r + m + SECTOR_SIZE
      BY <2>2, <2>3, RangeInSectors
    <3>2. N - 2 <= GROUP
      <4> DEFINE s == SECTOR_SIZE
      <4>1. s \in Nat \ {0} /\ GROUP \in Nat
        BY DriveAssumption
      <4> HIDE DEF N, m, r, s
      <4>2. SUFFICES ASSUME GROUP + 2 < N PROVE FALSE
        BY <3>1, <4>1
      <4>3. (GROUP + 2) * s + s <= N * s
        BY <3>1, <4>1, <4>2, Multiples
      <4>4. ((GROUP + 1) + 1) * s = (GROUP + 1) * s + 1 * s /\ (GROUP + 1) * s \in Nat
        BY <4>1, Multiples
      <4>5. (GROUP + 1) + 1 = GROUP + 2 /\ 1 * s = s
        BY <4>1
      <4> DEFINE x == (GROUP + 1) * s
                 w == (GROUP + 2) * s
                 z == N * s
      <4>6. w + s <= z /\ w = x + s /\ x \in Nat /\ z \in Nat /\ MAX_WRITE <= x
        <5>1. z \in Nat
          BY <3>1, <4>1
        <5>2. w = x + s /\ x \in Nat
          BY <4>4, <4>5
        <5>3. MAX_WRITE <= x
          BY DEF s
        <5>4. QED
          BY <4>3, <5>1, <5>2, <5>3
      <4>7. z <= r + m + s
        BY <3>1 DEF s
      <4> HIDE DEF x, z, w
      <4>8. r \in 0 .. s - 1 /\ m \in 1 .. MAX_WRITE /\ MAX_WRITE \in Nat
        BY <2>3, <3>1, DriveAssumption DEF s
      <4>9. QED
        BY <4>1, <4>6, <4>7, <4>8
    <3>3. storage_drive_write(d, data, offset)
            = [disk |-> Overlay(d, offset, data), buf |-> data]
      BY <2>2, <2>3, <2>5, <3>2, ManyExact
    <3>4. QED
      BY <3>3 DEF d
  <2>6. N \in Nat
    BY <2>2, <2>3, RangeInSectors
  <2>7. QED
    BY <2>4, <2>5, <2>6
<1>2. QED
  BY <1>1, DrivesKept, PTL

-----------------------------------------------------------------------------
(* The IDE driver: addresses in the registers *)

\* Divided, with the divisor first.
LEMMA QuotientType ==
  ASSUME NEW d \in Nat \ {0}, NEW n \in Nat
  PROVE  /\ n \div d \in Nat /\ n % d \in 0 .. d - 1
         /\ n = d * (n \div d) + (n % d)
OBVIOUS

\* There is one way to write a number as a multiple and a remainder.
LEMMA DigitsUnique ==
  ASSUME NEW d \in Nat \ {0}, NEW n \in Nat, NEW q \in Nat, NEW r \in 0 .. d - 1,
         n = d * q + r
  PROVE  n \div d = q /\ n % d = r
<1> DEFINE p == n \div d
           s == n % d
<1>1. p \in Nat /\ s \in 0 .. d - 1 /\ n = d * p + s
  BY QuotientType
<1> HIDE DEF p, s
<1>2. ASSUME NEW a \in Nat, NEW b \in Nat, a < b
      PROVE  d * a + d <= d * b
  <2>1. a + 1 <= b
    BY <1>2
  <2>2. d * (a + 1) <= d * b
    BY <2>1
  <2>3. d * (a + 1) = d * a + d
    OBVIOUS
  <2>4. QED
    BY <2>2, <2>3
<1>3. d * p \in Nat /\ d * q \in Nat
  BY <1>1
<1>4. ~ (p < q)
  BY <1>1, <1>2, <1>3
<1>5. ~ (q < p)
  BY <1>1, <1>2, <1>3
<1>6. p = q
  BY <1>1, <1>4, <1>5
<1>7. s = r
  BY <1>1, <1>3, <1>6
<1>8. QED
  BY <1>6, <1>7 DEF p, s

\* A number modulo a product: its lowest part, and the rest modulo the other factor.
LEMMA ModuloProduct ==
  ASSUME NEW a \in Nat \ {0}, NEW b \in Nat \ {0}, NEW q \in Nat, NEW r \in 0 .. a - 1
  PROVE  (a * q + r) % (a * b) = a * (q % b) + r
<1>1. PICK k, t : k = q \div b /\ t = q % b
  OBVIOUS
<1>2. k \in Nat /\ t \in 0 .. b - 1 /\ q = b * k + t
  BY <1>1, QuotientType
<1>3. a * (b * k + t) = (a * b) * k + a * t
  BY <1>2
<1>4. a * b \in Nat \ {0} /\ a * t \in Nat /\ (a * b) * k \in Nat
  BY <1>2
<1>5. a * t + a <= a * b
  <2>1. t + 1 <= b
    BY <1>2
  <2>2. a * (t + 1) <= a * b
    BY <1>2, <2>1
  <2>3. a * (t + 1) = a * t + a
    BY <1>2
  <2>4. QED
    BY <2>2, <2>3
<1>6. a * t + r \in 0 .. (a * b) - 1
  BY <1>4, <1>5
<1>7. PICK n : n = a * q + r
  OBVIOUS
<1>8. n = (a * b) * k + (a * t + r)
  <2>1. n = ((a * b) * k + a * t) + r
    BY <1>2, <1>3, <1>7
  <2>2. QED
    BY <1>4, <2>1
<1>9. n \in Nat
  BY <1>4, <1>6, <1>8
<1>10. n % (a * b) = a * t + r
  BY <1>2, <1>4, <1>6, <1>8, <1>9, DigitsUnique
<1>11. QED
  BY <1>1, <1>7, <1>10

\* Of a digit, the drive/head register keeps what it would keep of the number.
LEMMA DigitsOfDigits ==
  ASSUME NEW n \in Nat
  PROVE  (n % BYTE) % NIBBLE = n % NIBBLE
<1>1. BYTE \in Nat \ {0} /\ NIBBLE \in Nat \ {0} /\ BYTE % NIBBLE = 0
  BY RegisterAssumption
<1>2. PICK k \in Nat : BYTE = NIBBLE * k
  <2>1. BYTE \div NIBBLE \in Nat /\ BYTE = NIBBLE * (BYTE \div NIBBLE) + (BYTE % NIBBLE)
    BY <1>1, QuotientType
  <2>2. PICK k : k = BYTE \div NIBBLE
    OBVIOUS
  <2>3. k \in Nat /\ BYTE = NIBBLE * k + 0
    BY <1>1, <2>1, <2>2
  <2>4. QED
    BY <1>1, <2>3
<1>3. PICK q \in Nat, r \in Nat : n % BYTE = r /\ n = BYTE * q + r
  <2>1. n \div BYTE \in Nat /\ n % BYTE \in 0 .. BYTE - 1 /\ n = BYTE * (n \div BYTE) + (n % BYTE)
    BY <1>1, QuotientType
  <2>2. QED
    BY <2>1
<1>4. PICK p \in Nat, t \in 0 .. NIBBLE - 1 : r % NIBBLE = t /\ r = NIBBLE * p + t
  <2>1. r \div NIBBLE \in Nat /\ r % NIBBLE \in 0 .. NIBBLE - 1
        /\ r = NIBBLE * (r \div NIBBLE) + (r % NIBBLE)
    BY <1>1, QuotientType
  <2>2. QED
    BY <2>1
<1>5. n = NIBBLE * (k * q + p) + t
  <2>1. n = (NIBBLE * k) * q + (NIBBLE * p + t)
    BY <1>2, <1>3, <1>4
  <2>2. NIBBLE * (k * q + p) = (NIBBLE * k) * q + NIBBLE * p
    BY <1>1
  <2>3. NIBBLE * p \in Nat /\ (NIBBLE * k) * q \in Nat
    BY <1>1
  <2>4. QED
    BY <1>1, <2>1, <2>2, <2>3
<1>6. k * q + p \in Nat
  OBVIOUS
<1>7. n % NIBBLE = t
  BY <1>1, <1>5, <1>6, DigitsUnique
<1>8. QED
  BY <1>3, <1>4, <1>7

Byte == 0 .. BYTE - 1

\* Three bytes and what is above them.
Joined(a, b, c, rest) == a + BYTE * (b + BYTE * (c + BYTE * rest))

\* A number is its lowest three digits and the rest.
LEMMA ThreeDigits ==
  ASSUME NEW n \in Nat
  PROVE  /\ n % BYTE \in Byte /\ (n \div BYTE) % BYTE \in Byte
         /\ ((n \div BYTE) \div BYTE) % BYTE \in Byte
         /\ ((n \div BYTE) \div BYTE) \div BYTE \in Nat
         /\ n = Joined(n % BYTE, (n \div BYTE) % BYTE, ((n \div BYTE) \div BYTE) % BYTE,
                       ((n \div BYTE) \div BYTE) \div BYTE)
<1> DEFINE n1 == n \div BYTE
           n2 == n1 \div BYTE
           n3 == n2 \div BYTE
<1>1. BYTE \in Nat \ {0}
  BY RegisterAssumption
<1>2. n1 \in Nat /\ n % BYTE \in Byte /\ n = BYTE * n1 + (n % BYTE)
  BY <1>1, QuotientType DEF Byte
<1> HIDE DEF n1
<1>3. n2 \in Nat /\ n1 % BYTE \in Byte /\ n1 = BYTE * n2 + (n1 % BYTE)
  BY <1>1, <1>2, QuotientType DEF Byte
<1> HIDE DEF n2
<1>4. n3 \in Nat /\ n2 % BYTE \in Byte /\ n2 = BYTE * n3 + (n2 % BYTE)
  BY <1>1, <1>3, QuotientType DEF Byte
<1> HIDE DEF n3
<1>5. ASSUME NEW a \in Nat, NEW b \in Nat
      PROVE  BYTE * a \in Nat /\ BYTE * a + b = b + BYTE * a
  BY <1>1
<1>6. n % BYTE \in Nat /\ n1 % BYTE \in Nat /\ n2 % BYTE \in Nat
  BY <1>1, <1>2, <1>3, <1>4 DEF Byte
<1>7. /\ n = (n % BYTE) + BYTE * n1
      /\ n1 = (n1 % BYTE) + BYTE * n2
      /\ n2 = (n2 % BYTE) + BYTE * n3
  BY <1>2, <1>3, <1>4, <1>5, <1>6
<1>8. n = Joined(n % BYTE, n1 % BYTE, n2 % BYTE, n3)
  BY <1>7, Zenon DEF Joined
<1>9. QED
  BY <1>2, <1>3, <1>4, <1>8 DEF n1, n2, n3

LEMMA Times ==
  ASSUME NEW a \in Nat, NEW b \in Nat
  PROVE  /\ BYTE * a \in Nat
         /\ a <= b => BYTE * a <= BYTE * b
BY RegisterAssumption

\* Three digits, with nothing above, are below BYTE * BYTE * BYTE.
LEMMA ThreeBelow ==
  ASSUME NEW a \in Byte, NEW b \in Byte, NEW c \in Byte, NEW rest \in Nat
  PROVE  /\ Joined(a, b, c, 0) \in 0 .. Reach3 - 1
         /\ Joined(a, b, c, rest) = Reach3 * rest + Joined(a, b, c, 0)
<1>1. BYTE \in Nat \ {0} /\ a \in Nat /\ b \in Nat /\ c \in Nat
  BY RegisterAssumption DEF Byte
<1>2. Joined(a, b, c, rest) = Reach3 * rest + Joined(a, b, c, 0)
  BY <1>1 DEF Joined, Reach3
<1>3. c <= BYTE - 1 /\ b <= BYTE - 1 /\ a <= BYTE - 1
  BY <1>1 DEF Byte
<1>4. BYTE - 1 \in Nat
  BY <1>1
<1>5. BYTE * c \in Nat /\ BYTE * c <= BYTE * (BYTE - 1)
  BY <1>3, <1>4, <1>1, Times
<1> DEFINE y == b + BYTE * c
<1>6. y \in Nat /\ y <= BYTE * BYTE - 1
  BY <1>1, <1>3, <1>5
<1> HIDE DEF y
<1>7. BYTE * BYTE - 1 \in Nat
  BY <1>1, <1>6
<1>8. BYTE * y \in Nat /\ BYTE * y <= BYTE * (BYTE * BYTE - 1)
  BY <1>6, <1>7, Times
<1>9. Joined(a, b, c, 0) = a + BYTE * y
  BY <1>1 DEF Joined, y
<1>10. BYTE * (BYTE * BYTE - 1) = Reach3 - BYTE
  BY <1>1 DEF Reach3
<1>11. Reach3 \in Nat
  BY <1>1 DEF Reach3
<1>12. Joined(a, b, c, 0) \in 0 .. Reach3 - 1
  BY <1>1, <1>3, <1>8, <1>9, <1>10, <1>11
<1>13. QED
  BY <1>2, <1>12

\* What is above the lowest three digits.
High(n) == ((n \div BYTE) \div BYTE) \div BYTE

\* The six digits of a number are those of its two halves.
LEMMA SixDigits ==
  ASSUME NEW n \in Nat
  PROVE  /\ High(n) \in Nat /\ High(High(n)) \in Nat
         /\ {Digit(n, 0), Digit(n, 1), Digit(n, 2)} \subseteq Byte
         /\ {Digit(n, 3), Digit(n, 4), Digit(n, 5)} \subseteq Byte
         /\ n = Joined(Digit(n, 0), Digit(n, 1), Digit(n, 2), High(n))
         /\ High(n) = Joined(Digit(n, 3), Digit(n, 4), Digit(n, 5), High(High(n)))
         /\ Digit(n, 3) = High(n) % BYTE
<1> DEFINE n1 == n \div BYTE
           n2 == n1 \div BYTE
           n3 == High(n)
           n4 == n3 \div BYTE
           n5 == n4 \div BYTE
<1>1. /\ Digit(n, 0) = n % BYTE /\ Digit(n, 1) = n1 % BYTE /\ Digit(n, 2) = n2 % BYTE
      /\ Digit(n, 3) = n3 % BYTE /\ Digit(n, 4) = n4 % BYTE /\ Digit(n, 5) = n5 % BYTE
  <2>1. Digits(n) = << n % BYTE, n1 % BYTE, n2 % BYTE, n3 % BYTE, n4 % BYTE, n5 % BYTE >>
    BY Zenon DEF Digits, High
  <2>2. ASSUME NEW a, NEW b, NEW c, NEW d, NEW e, NEW f,
               Digits(n) = <<a, b, c, d, e, f>>
        PROVE  /\ Digit(n, 0) = a /\ Digit(n, 1) = b /\ Digit(n, 2) = c
               /\ Digit(n, 3) = d /\ Digit(n, 4) = e /\ Digit(n, 5) = f
    BY <2>2 DEF Digit
  <2> HIDE DEF n1, n2, n3, n4, n5
  <2>3. QED
    BY <2>1, <2>2
<1>2. /\ n % BYTE \in Byte /\ n1 % BYTE \in Byte /\ n2 % BYTE \in Byte /\ n3 \in Nat
      /\ n = Joined(n % BYTE, n1 % BYTE, n2 % BYTE, n3)
  BY ThreeDigits, Zenon DEF High
<1> HIDE DEF n1, n2
<1>3. n3 \in Nat
  BY <1>2
<1> HIDE DEF n3
<1>4. /\ n3 % BYTE \in Byte /\ n4 % BYTE \in Byte /\ n5 % BYTE \in Byte /\ High(n3) \in Nat
      /\ n3 = Joined(n3 % BYTE, n4 % BYTE, n5 % BYTE, High(n3))
  BY <1>3, ThreeDigits, Zenon DEF High
<1> HIDE DEF n4, n5
<1>5. High(n) = n3
  BY DEF n3
<1>6. QED
  BY <1>1, <1>2, <1>4, <1>5, Zenon

LEMMA Reaches ==
  /\ NIBBLE \in Nat \ {0} /\ Reach3 \in Nat \ {0} /\ Reach28 \in Nat \ {0}
  /\ Reach48 \in Nat \ {0}
<1>1. BYTE \in Nat \ {0} /\ NIBBLE \in Nat \ {0}
  BY RegisterAssumption
<1>2. Reach3 \in Nat \ {0}
  BY <1>1 DEF Reach3
<1>3. QED
  BY <1>1, <1>2 DEF Reach28, Reach48

\* The lowest three digits and the rest.
LEMMA LowAndHigh ==
  ASSUME NEW n \in Nat
  PROVE  \E low \in 0 .. Reach3 - 1 :
            /\ Joined(Digit(n, 0), Digit(n, 1), Digit(n, 2), 0) = low
            /\ n = Reach3 * High(n) + low
            /\ \A rest \in Nat : Joined(Digit(n, 0), Digit(n, 1), Digit(n, 2), rest)
                                   = Reach3 * rest + low
<1>1. PICK a \in Byte, b \in Byte, c \in Byte :
         a = Digit(n, 0) /\ b = Digit(n, 1) /\ c = Digit(n, 2)
  BY SixDigits
<1>2. High(n) \in Nat /\ n = Joined(a, b, c, High(n))
  BY <1>1, SixDigits
<1>3. PICK low : low = Joined(a, b, c, 0)
  OBVIOUS
<1>4. \A rest \in Nat : low \in 0 .. Reach3 - 1 /\ Joined(a, b, c, rest) = Reach3 * rest + low
  BY <1>3, ThreeBelow
<1>5. QED
  BY <1>1, <1>2, <1>3, <1>4

\* The lowest three digits alone are the number modulo what three registers tell
\* apart,
LEMMA LowThree ==
  ASSUME NEW n \in Nat
  PROVE  Joined(Digit(n, 0), Digit(n, 1), Digit(n, 2), 0) = n % Reach3
<1>1. PICK low \in 0 .. Reach3 - 1 :
         /\ Joined(Digit(n, 0), Digit(n, 1), Digit(n, 2), 0) = low
         /\ n = Reach3 * High(n) + low
  BY LowAndHigh
<1>2. PICK h \in Nat : n = Reach3 * h + low
  BY <1>1, SixDigits
<1>3. n % Reach3 = low
  BY <1>2, Reaches, DigitsUnique
<1>4. QED
  BY <1>1, <1>3

\* with the part of the fourth that the drive/head register takes, modulo what 28 bits
\* tell apart,
LEMMA Low28 ==
  ASSUME NEW n \in Nat
  PROVE  Joined(Digit(n, 0), Digit(n, 1), Digit(n, 2), Digit(n, 3) % NIBBLE) = n % Reach28
<1>1. PICK low \in 0 .. Reach3 - 1 :
         /\ n = Reach3 * High(n) + low
         /\ \A rest \in Nat : Joined(Digit(n, 0), Digit(n, 1), Digit(n, 2), rest)
                                = Reach3 * rest + low
  BY LowAndHigh
<1>2. High(n) \in Nat /\ Digit(n, 3) % NIBBLE = High(n) % NIBBLE
  BY SixDigits, DigitsOfDigits
<1>3. High(n) % NIBBLE \in Nat
  <2>1. PICK h \in Nat : h = High(n)
    BY <1>2
  <2>2. NIBBLE \in Nat \ {0}
    BY Reaches
  <2>3. h % NIBBLE \in 0 .. NIBBLE - 1
    BY <2>2, QuotientType
  <2>4. h % NIBBLE \in Nat
    BY <2>2, <2>3
  <2>5. QED
    BY <2>1, <2>4
<1>4. n % (Reach3 * NIBBLE) = Reach3 * (High(n) % NIBBLE) + low
  <2>1. PICK h \in Nat : h = High(n) /\ n = Reach3 * h + low
    BY <1>1, <1>2
  <2>2. n % (Reach3 * NIBBLE) = Reach3 * (h % NIBBLE) + low
    BY <2>1, Reaches, ModuloProduct
  <2>3. QED
    BY <2>1, <2>2
<1>5. QED
  BY <1>1, <1>2, <1>3, <1>4 DEF Reach28

\* and with the next three, modulo what 48 bits tell apart.
LEMMA Low48 ==
  ASSUME NEW n \in Nat
  PROVE  Joined(Digit(n, 0), Digit(n, 1), Digit(n, 2),
                Joined(Digit(n, 3), Digit(n, 4), Digit(n, 5), 0)) = n % Reach48
<1>1. PICK low \in 0 .. Reach3 - 1 :
         /\ n = Reach3 * High(n) + low
         /\ \A rest \in Nat : Joined(Digit(n, 0), Digit(n, 1), Digit(n, 2), rest)
                                = Reach3 * rest + low
  BY LowAndHigh
<1>2. High(n) \in Nat
  BY SixDigits
<1>3. Joined(Digit(n, 3), Digit(n, 4), Digit(n, 5), 0) = High(n) % Reach3
  <2>1. PICK mid : mid = Joined(Digit(n, 3), Digit(n, 4), Digit(n, 5), 0)
    OBVIOUS
  <2>2. /\ High(High(n)) \in Nat
        /\ {Digit(n, 3), Digit(n, 4), Digit(n, 5)} \subseteq Byte
        /\ High(n) = Joined(Digit(n, 3), Digit(n, 4), Digit(n, 5), High(High(n)))
    BY SixDigits
  <2>3. mid \in 0 .. Reach3 - 1 /\ High(n) = Reach3 * High(High(n)) + mid
    BY <2>1, <2>2, ThreeBelow
  <2>4. QED
    BY <1>2, <2>1, <2>2, <2>3, Reaches, DigitsUnique
<1>4. High(n) % Reach3 \in Nat
  BY <1>2, Reaches, QuotientType
<1>5. n % (Reach3 * Reach3) = Reach3 * (High(n) % Reach3) + low
  <2>1. PICK h \in Nat : h = High(n) /\ n = Reach3 * h + low
    BY <1>1, <1>2
  <2>2. PICK R \in Nat \ {0} : R = Reach3
    BY Reaches
  <2>3. low \in 0 .. R - 1 /\ n = R * h + low
    BY <2>1, <2>2
  <2>4. n % (R * R) = R * (h % R) + low
    <3>1. (R * h + low) % (R * R) = R * (h % R) + low
      BY <2>3, ModuloProduct
    <3>2. QED
      BY <2>3, <3>1
  <2>5. QED
    BY <2>1, <2>2, <2>4
<1>6. QED
  BY <1>1, <1>3, <1>4, <1>5 DEF Reach48

-----------------------------------------------------------------------------
(* The registers of a channel *)

\* The fields of a channel's registers.
Whole(t) ==
    t = [lo |-> t.lo, mid |-> t.mid, hi |-> t.hi, count |-> t.count, head |-> t.head]

TaskType ==
    /\ task = [ch \in {Primary, Secondary} |-> task[ch]]
    /\ \A ch \in {Primary, Secondary} : Whole(task[ch])

LEMMA Selection ==
  ASSUME TaskType, NEW ch \in {Primary, Secondary}, NEW d, NEW lba
  PROVE  /\ Whole(ide_select_drive(ch, d, lba)[ch])
         /\ ide_select_drive(ch, d, lba)[ch].head = [lba |-> lba, drive |-> d, low |-> 0]
<1>1. ide_select_drive(ch, d, lba)[ch]
        = [task[ch] EXCEPT !.head = [lba |-> lba, drive |-> d, low |-> 0]]
  BY DEF ide_select_drive, TaskType
<1>2. Whole(task[ch])
  BY DEF TaskType
<1>3. ASSUME NEW lo, NEW mid, NEW hi, NEW count, NEW h, NEW head
      PROVE  /\ Whole([[lo |-> lo, mid |-> mid, hi |-> hi, count |-> count, head |-> h]
                        EXCEPT !.head = head])
             /\ [[lo |-> lo, mid |-> mid, hi |-> hi, count |-> count, head |-> h]
                  EXCEPT !.head = head].head = head
  BY DEF Whole
<1>4. QED
  BY <1>1, <1>2, <1>3 DEF Whole

\* What the registers hold when the command is written.
Holds28(t, lba, count) ==
    /\ t.lo[1] = Digit(lba, 0) /\ t.mid[1] = Digit(lba, 1) /\ t.hi[1] = Digit(lba, 2)
    /\ t.head.low = Digit(lba, 3) % NIBBLE /\ t.count[1] = count

Holds48(t, lba, count) ==
    /\ t.lo[1] = Digit(lba, 0) /\ t.mid[1] = Digit(lba, 1) /\ t.hi[1] = Digit(lba, 2)
    /\ t.lo[2] = Digit(lba, 3) /\ t.mid[2] = Digit(lba, 4) /\ t.hi[2] = Digit(lba, 5)
    /\ t.head.low = 0 /\ t.count[1] = count /\ t.count[2] = 0

Filled48(t, d, lba, count) == Whole(t) /\ t.head.drive = d /\ Holds48(t, lba, count)
Filled28(t, d, lba, count) == Whole(t) /\ t.head.drive = d /\ Holds28(t, lba, count)

Load48(t, lba, count) == [fill_address_48_bits(t, lba) EXCEPT !.count = WriteTwice(@, count, 0)]
Load28(t, lba, count) == [fill_address_28_bits(t, lba) EXCEPT !.count = Push(@, count)]

LEMMA SetUp ==
  ASSUME TaskType, NEW d, d.at \in Positions, NEW lba, NEW count
  PROVE  /\ Whole(setup_rw_48_bits(d, lba, count))
         /\ setup_rw_48_bits(d, lba, count).head.drive = d.at[2]
         /\ d.big => Holds48(setup_rw_48_bits(d, lba, count), lba, count)
         /\ ~d.big => Holds28(setup_rw_48_bits(d, lba, count), lba, count)
<1> DEFINE t == ide_select_drive(d.at[1], d.at[2], d.lba)[d.at[1]]
<1>1. d.at[1] \in {Primary, Secondary}
  BY DEF Positions
<1>2. Whole(t) /\ t.head = [lba |-> d.lba, drive |-> d.at[2], low |-> 0]
  BY <1>1, Selection
<1>3. t = [lo |-> t.lo, mid |-> t.mid, hi |-> t.hi, count |-> t.count,
           head |-> [lba |-> d.lba, drive |-> d.at[2], low |-> 0]]
  BY <1>2 DEF Whole
<1>4. setup_rw_48_bits(d, lba, count)
        = IF d.big THEN Load48(t, lba, count) ELSE Load28(t, lba, count)
  BY Zenon DEF setup_rw_48_bits, Load48, Load28
<1> HIDE DEF t
<1>5. CASE d.big
  <2>1. ASSUME NEW lo, NEW mid, NEW hi, NEW c, NEW a, NEW b
        PROVE  Filled48(Load48([lo |-> lo, mid |-> mid, hi |-> hi, count |-> c,
                               head |-> [lba |-> a, drive |-> b, low |-> 0]], lba, count),
                        b, lba, count)
    <3> DEFINE u == Load48([lo |-> lo, mid |-> mid, hi |-> hi, count |-> c,
                        head |-> [lba |-> a, drive |-> b, low |-> 0]], lba, count)
    <3>1. ASSUME NEW s, s = [lo |-> lo, mid |-> mid, hi |-> hi, count |-> c,
                             head |-> [lba |-> a, drive |-> b, low |-> 0]],
                 NEW v, v = Load48(s, lba, count)
          PROVE  v = [lo |-> <<Digit(lba, 0), Digit(lba, 3)>>,
                      mid |-> <<Digit(lba, 1), Digit(lba, 4)>>,
                      hi |-> <<Digit(lba, 2), Digit(lba, 5)>>, count |-> <<count, 0>>,
                      head |-> [lba |-> a, drive |-> b, low |-> 0]]
      BY <3>1 DEF Load48, fill_address_48_bits, Push, WriteTwice
    <3>2. u = [lo |-> <<Digit(lba, 0), Digit(lba, 3)>>,
               mid |-> <<Digit(lba, 1), Digit(lba, 4)>>,
               hi |-> <<Digit(lba, 2), Digit(lba, 5)>>, count |-> <<count, 0>>,
               head |-> [lba |-> a, drive |-> b, low |-> 0]]
      BY <3>1, Zenon
    <3> HIDE DEF u
    <3>3. Filled48(u, b, lba, count)
      BY <3>2 DEF Filled48, Whole, Holds48
    <3>4. QED
      BY <3>3 DEF u
  <2>2. Filled48(Load48(t, lba, count), d.at[2], lba, count)
    BY <1>3, <2>1, Zenon
  <2>3. QED
    BY <1>4, <1>5, <2>2 DEF Filled48
<1>6. CASE ~d.big
  <2>1. ASSUME NEW lo, NEW mid, NEW hi, NEW c, NEW a, NEW b
        PROVE  Filled28(Load28([lo |-> lo, mid |-> mid, hi |-> hi, count |-> c,
                               head |-> [lba |-> a, drive |-> b, low |-> 0]], lba, count),
                        b, lba, count)
    <3> DEFINE u == Load28([lo |-> lo, mid |-> mid, hi |-> hi, count |-> c,
                        head |-> [lba |-> a, drive |-> b, low |-> 0]], lba, count)
    <3>1. ASSUME NEW s, s = [lo |-> lo, mid |-> mid, hi |-> hi, count |-> c,
                             head |-> [lba |-> a, drive |-> b, low |-> 0]],
                 NEW v, v = Load28(s, lba, count)
          PROVE  v = [lo |-> <<Digit(lba, 0), lo[1]>>, mid |-> <<Digit(lba, 1), mid[1]>>,
                      hi |-> <<Digit(lba, 2), hi[1]>>, count |-> <<count, c[1]>>,
                      head |-> [lba |-> a, drive |-> b, low |-> Digit(lba, 3) % NIBBLE]]
      BY <3>1 DEF Load28, fill_address_28_bits, Push
    <3>2. u = [lo |-> <<Digit(lba, 0), lo[1]>>, mid |-> <<Digit(lba, 1), mid[1]>>,
               hi |-> <<Digit(lba, 2), hi[1]>>, count |-> <<count, c[1]>>,
               head |-> [lba |-> a, drive |-> b, low |-> Digit(lba, 3) % NIBBLE]]
      BY <3>1, Zenon
    <3> HIDE DEF u
    <3>3. Filled28(u, b, lba, count)
      BY <3>2 DEF Filled28, Whole, Holds28
    <3>4. QED
      BY <3>3 DEF u
  <2>2. Filled28(Load28(t, lba, count), d.at[2], lba, count)
    BY <1>3, <2>1, Zenon
  <2>3. QED
    BY <1>4, <1>6, <2>2 DEF Filled28
<1>7. QED
  BY <1>5, <1>6

\* Where a call that starts at lba starts on its drive: a read takes the last three
\* digits of the address only, or all of it that 28 bits hold.
StartOf(op, big, lba) ==
    lba % (IF big THEN IF op = "write" THEN Reach48 ELSE Reach3 ELSE Reach28)

\* The command asks for the sectors of the call.
LEMMA CommandOfCall ==
  ASSUME TaskType, NEW d, d.at \in Positions, NEW lba \in Nat,
         NEW count \in Nat, count # 0, count < COUNTS, NEW op \in {"read", "write"}
  PROVE  rw_command(op, d, setup_rw_48_bits(d, lba, count))
           = Command(op, StartOf(op, d.big, lba), count)
<1> DEFINE t == setup_rw_48_bits(d, lba, count)
<1>1. (d.big => Holds48(t, lba, count)) /\ (~d.big => Holds28(t, lba, count))
  BY SetUp
<1> HIDE DEF t
<1>2. Address28(t) = Joined(t.lo[1], t.mid[1], t.hi[1], t.head.low)
  BY Zenon DEF Address28, Joined
<1>3. {BYTE, NIBBLE, COUNTS} \subseteq Nat \ {0, 1}
  BY RegisterAssumption
<1>4. Count28(t) = count
  BY <1>1 DEF Count28, CountOf, Holds28, Holds48
<1>5. CASE d.big /\ op = "write"
  <2>1. Holds48(t, lba, count)
    BY <1>1, <1>5
  <2>2. Count48(t) = count
    BY <1>3, <2>1 DEF Count48, CountOf, Holds48
  <2>3. Address48(t) = Joined(t.lo[1], t.mid[1], t.hi[1], Joined(t.lo[2], t.mid[2], t.hi[2], 0))
    <3>1. Digit(lba, 5) \in 0 .. BYTE - 1
      BY SixDigits DEF Byte
    <3>2. t.hi[2] \in Nat
      BY <1>3, <2>1, <3>1 DEF Holds48
    <3>3. t.hi[2] + BYTE * 0 = t.hi[2]
      BY <1>3, <3>2
    <3>4. QED
      BY <3>3, Zenon DEF Address48, Joined
  <2>4. Address48(t) = lba % Reach48
    BY <2>1, <2>3, Low48 DEF Holds48
  <2>5. QED
    BY <1>5, <2>2, <2>4 DEF rw_command, StartOf, t
<1>6. CASE d.big /\ op = "read"
  <2>1. Address28(t) = lba % Reach3
    BY <1>1, <1>2, <1>6, LowThree DEF Holds48
  <2>2. QED
    BY <1>4, <1>6, <2>1 DEF rw_command, StartOf, t
<1>7. CASE ~d.big
  <2>1. Address28(t) = lba % Reach28
    BY <1>1, <1>2, <1>7, Low28 DEF Holds28
  <2>2. QED
    BY <1>4, <1>7, <2>1 DEF rw_command, StartOf, t
<1>8. QED
  BY <1>5, <1>6, <1>7

-----------------------------------------------------------------------------
(* The inductive invariant *)

Sequence(s) == \E S : s \in Seq(S)

Statuses == {"absent", "idle", "failed", "taken", "busy", "drq"}
AtWork == {"taken", "busy", "drq"}
Unit == [st : Statuses, name : {"none", "identify", "read", "write", "flush"},
         at : Nat, left : Nat]

Detecting == {"off", "identify", "exists?", "busy?", "ata?"}
Looking == {"exists?", "busy?", "ata?"}
Calling == {"wait", "transfer", "flush"}

Resting(p) == unit[p].st \in {"absent", "idle", "failed"}

UnitType ==
    /\ unit \in [Positions -> Unit]
    /\ \A p \in Positions : unit[p].st = "absent" <=> machine.drives[p] = NoDrive

\* What the driver knows of a drive, and that its channel answers.
Entry(d) ==
    /\ d.at \in Positions /\ machine.drives[d.at] # NoDrive /\ Answers(d.at[1])
    /\ d.lba = machine.drives[d.at].lba
    /\ d.big = (machine.drives[d.at].lba /\ machine.drives[d.at].lba48)

DrivesType == Sequence(drives) /\ \A i \in DOMAIN drives : Entry(drives[i])

IdeType ==
    /\ machine \in Machines
    /\ pc \in Detecting \cup Calling \cup {"ready", "none", "panic"}
    /\ trouble \in BOOLEAN /\ hasty \in BOOLEAN
    /\ TaskType /\ UnitType /\ DrivesType
    /\ pc = "off" => drives = <<>>

\* No call is open outside the calls.
Uncalled == pc \notin Calling => call = [op |-> "none"] /\ done = 0 /\ ~trouble

Here == <<channel, drive>>

\* During the detection only the drive that has been asked to identify itself works,
\* and it is the selected one of its channel.
Asking ==
    /\ pc \in Detecting => ~hasty /\ slot \in 0 .. 4
    /\ pc \in {"off", "identify"} \/ (pc = "ready" /\ ~hasty) => \A p \in Positions : Resting(p)
    /\ pc \in Looking =>
         /\ slot \in 0 .. 3 /\ Selected(channel) = Here
         /\ \A p \in Positions :
              Resting(p) \/ (p = Here /\ unit[p].name = "identify" /\ unit[p].left = 1)
    /\ pc = "ata?" => Answers(channel)

\* A call is for a drive whose channel answers, which is selected on it, and no
\* other drive works.
Called ==
    /\ call = [op |-> call.op, drive |-> call.drive, lba |-> call.lba, buffer |-> call.buffer]
    /\ call.op \in {"read", "write"} /\ call.drive \in Positions /\ call.lba \in Nat
    /\ call.lba \in Lbas /\ Sequence(call.buffer)
    /\ done \in 0 .. Len(call.buffer)
    /\ Len(call.buffer) # 0
    /\ Answers(Channel) /\ Selected(Channel) = call.drive
    /\ unit[call.drive].st # "absent"
    /\ \A p \in Positions : p # call.drive => Resting(p)

Big(p) == machine.drives[p] # NoDrive /\ machine.drives[p].lba48

CallStart == StartOf(call.op, Big(call.drive), call.lba)

\* The drive is at the sector that the driver will transfer next.
InStep(u, length) ==
    /\ u.name = call.op /\ u.left = length - done
    /\ u.at = CallStart + done

\* How far the drive is in the call.  Without trouble, both are at the same sector;
\* in trouble, a drive at work on a write is still within the sectors of the call, and a
\* drive that waits for a sector of data has that sector.
Progress(u, length) ==
    /\ hasty => trouble
    /\ u.st = "drq" => u.left # 0
    /\ u.st = "drq" /\ u.name = call.op => u.at \in DOMAIN media[call.drive]
    /\ u.st \in AtWork /\ u.name = "write" =>
         call.op = "write" /\ u.at + u.left = CallStart + length /\ CallStart <= u.at
    /\ pc = "wait" => done = 0
    /\ pc \in {"wait", "transfer"} /\ trouble /\ ~hasty => u.st = "failed"
    /\ pc = "wait" /\ ~trouble => u.st \in AtWork /\ InStep(u, length)
    /\ pc = "transfer" /\ ~trouble /\ done # length =>
         u.st \in {"busy", "drq"} /\ InStep(u, length)
    /\ pc = "transfer" /\ ~trouble /\ done = length =>
         u.st = "idle" \/ (call.op = "write" /\ u.st = "busy" /\ u.left = 0)
    /\ pc = "flush" => done = length /\ call.op = "write"
    /\ pc = "flush" /\ ~hasty =>
         u.st \in {"idle", "failed"} \/ (u.left = 0 /\ u.st \in {"taken", "busy"})

InCall == pc \in Calling => Called /\ Progress(unit[call.drive], Len(call.buffer))

IdeInv == IdeType /\ Uncalled /\ Asking /\ InCall

LEMMA InvInit == ASSUME IdeInit PROVE IdeInv
<1>1. IdeType
  <2>1. TaskType
    BY DEF IdeInit, TaskType, Whole
  <2>2. UnitType
    <3>1. ASSUME NEW p \in Positions
          PROVE  /\ unit[p] \in Unit
                 /\ unit[p].st = "absent" <=> machine.drives[p] = NoDrive
      <4>1. AtRest = [st |-> "idle", name |-> "none", at |-> 0, left |-> 0]
        BY DEF AtRest, Command
      <4>2. [AtRest EXCEPT !.st = "absent"]
              = [st |-> "absent", name |-> "none", at |-> 0, left |-> 0]
        BY <4>1
      <4>3. unit[p] = IF machine.drives[p] = NoDrive
                      THEN [AtRest EXCEPT !.st = "absent"] ELSE AtRest
        BY DEF IdeInit
      <4>4. QED
        BY <4>1, <4>2, <4>3 DEF Unit, Statuses
    <3>2. unit = [p \in Positions |-> unit[p]]
      BY DEF IdeInit
    <3>3. QED
      BY <3>1, <3>2 DEF UnitType
  <2>3. DrivesType
    BY DEF IdeInit, DrivesType, Sequence
  <2>4. QED
    BY <2>1, <2>2, <2>3 DEF IdeInit, IdeType, Detecting
<1>2. Uncalled
  BY DEF IdeInit, Uncalled
<1>3. Asking
  <2>1. \A p \in Positions : Resting(p)
    BY DEF IdeInit, Resting, AtRest, Command
  <2>2. QED
    BY <2>1 DEF IdeInit, Asking, Looking
<1>4. InCall
  BY DEF IdeInit, InCall, Calling
<1>5. QED
  BY <1>1, <1>2, <1>3, <1>4 DEF IdeInv

-----------------------------------------------------------------------------
(* What the steps leave alone *)

LEMMA SameAnswers ==
  ASSUME UNCHANGED hardware, NEW ch
  PROVE  Answers(ch)' <=> Answers(ch)
<1>1. config' = config /\ machine' = machine
  BY DEF hardware
<1>2. QED
  BY <1>1 DEF Answers, IsController, device_exists, get_class, get_prog_if,
              pci_config_read_32_bits

LEMMA SameEntries ==
  ASSUME UNCHANGED <<hardware, drives>>, DrivesType
  PROVE  DrivesType'
<1>1. machine' = machine /\ drives' = drives
  BY DEF hardware
<1>2. ASSUME NEW d, Entry(d) PROVE Entry(d)'
  <2>1. Answers(d.at[1])' <=> Answers(d.at[1])
    BY SameAnswers
  <2>2. QED
    BY <1>1, <1>2, <2>1, Zenon DEF Entry
<1>3. QED
  BY <1>1, <1>2 DEF DrivesType, Sequence

LEMMA SameType ==
  ASSUME IdeType, UNCHANGED <<hardware, drives>>, TaskType', UnitType',
         trouble' \in BOOLEAN, hasty' \in BOOLEAN,
         pc' \in (Detecting \cup Calling \cup {"ready", "none", "panic"}) \ {"off"}
  PROVE  IdeType'
<1>1. DrivesType'
  BY SameEntries DEF IdeType
<1>2. machine' \in Machines
  BY DEF IdeType, hardware
<1>3. QED
  BY <1>1, <1>2 DEF IdeType

LEMMA SameTask ==
  ASSUME TaskType, UNCHANGED task PROVE TaskType'
BY DEF TaskType, Whole

LEMMA SameUnit ==
  ASSUME UnitType, UNCHANGED <<hardware, unit>> PROVE UnitType'
BY DEF UnitType, hardware

-----------------------------------------------------------------------------
(* What the drives do on their own *)

\* What a status tells of the selected drive.
LEMMA Status ==
  ASSUME NEW ch, UnitType, Selected(ch) \in Positions
  PROVE  LET status == read_alternate_status_register(ch)
             st == unit[Selected(ch)].st
         IN  /\ BSY \notin status => Answers(ch) /\ st # "busy"
             /\ status = {} => Answers(ch) /\ st = "absent"
             /\ Answers(ch) /\ ERR \in status => st = "failed"
             /\ Answers(ch) /\ DRQ \in status => st = "drq"
<1> DEFINE status == read_alternate_status_register(ch)
           st == unit[Selected(ch)].st
           answers == Answers(ch)
<1>1. st \in Statuses
  BY DEF UnitType, Unit
<1>2. status = CASE ~answers                 -> {BSY, RDY, DRQ, ERR}
                 [] answers /\ st = "absent" -> {}
                 [] answers /\ st = "busy"   -> {BSY}
                 [] answers /\ st = "drq"    -> {RDY, DRQ}
                 [] answers /\ st = "failed" -> {RDY, ERR}
                 [] OTHER                    -> {RDY}
  BY Zenon DEF read_alternate_status_register
<1> HIDE DEF status, st, answers
<1>3. /\ ~answers => status = {BSY, RDY, DRQ, ERR}
      /\ answers /\ st = "absent" => status = {}
      /\ answers /\ st = "busy" => status = {BSY}
      /\ answers /\ st = "drq" => status = {RDY, DRQ}
      /\ answers /\ st = "failed" => status = {RDY, ERR}
      /\ answers /\ st \notin {"absent", "busy", "drq", "failed"} => status = {RDY}
  BY <1>2
<1>4. /\ BSY \notin status => answers /\ st # "busy"
      /\ status = {} => answers /\ st = "absent"
      /\ answers /\ ERR \in status => st = "failed"
      /\ answers /\ DRQ \in status => st = "drq"
  BY <1>3 DEF BSY, RDY, DRQ, ERR
<1>5. QED
  BY <1>4 DEF status, st, answers

LEMMA UnitChange ==
  ASSUME UnitType, UNCHANGED hardware, NEW p \in Positions, unit[p].st # "absent",
         NEW w \in Unit, w.st # "absent", unit' = [unit EXCEPT ![p] = w]
  PROVE  /\ UnitType' /\ unit'[p] = w
         /\ \A q \in Positions : q # p => unit'[q] = unit[q]
BY DEF UnitType, hardware

LEMMA CommandType ==
  ASSUME NEW name \in {"none", "identify", "read", "write", "flush"},
         NEW at \in Nat, NEW left \in Nat
  PROVE  /\ Command(name, at, left) \in Unit /\ Command(name, at, left).st = "taken"
         /\ Command(name, at, left).name = name /\ Command(name, at, left).at = at
         /\ Command(name, at, left).left = left
BY DEF Command, Unit, Statuses

LEMMA StatusChange ==
  ASSUME NEW u \in Unit, NEW st \in Statuses
  PROVE  /\ [u EXCEPT !.st = st] \in Unit /\ [u EXCEPT !.st = st].st = st
         /\ [u EXCEPT !.st = st].name = u.name /\ [u EXCEPT !.st = st].at = u.at
         /\ [u EXCEPT !.st = st].left = u.left
BY DEF Unit

LEMMA AtRestType == AtRest \in Unit /\ AtRest.st = "idle" /\ AtRest.left = 0
<1>1. AtRest = [st |-> "idle", name |-> "none", at |-> 0, left |-> 0]
  BY DEF AtRest, Command
<1>2. QED
  BY <1>1 DEF Unit, Statuses

\* A step of a drive on its own keeps the invariant if it keeps what is known of the
\* drive that is asked to identify itself, or is called.
LEMMA DriveStep ==
  ASSUME IdeInv, NEW p \in Positions, unit[p].st \in {"taken", "busy"},
         NEW w \in Unit, w.st # "absent", unit' = [unit EXCEPT ![p] = w],
         trouble' \in BOOLEAN, call.op = "none" => trouble' = trouble,
         UNCHANGED <<hardware, drives, pc, slot, task, media, call, done, hasty>>,
         pc \in Looking =>
           w.st \in {"idle", "failed"} \/ (w.name = "identify" /\ w.left = 1),
         pc \in Calling /\ p = call.drive => Progress(w, Len(call.buffer))'
  PROVE  IdeInv'
<1>1. unit[p].st # "absent"
  OBVIOUS
<1>2. UnitType' /\ unit'[p] = w /\ \A q \in Positions : q # p => unit'[q] = unit[q]
  BY <1>1, UnitChange DEF IdeInv, IdeType
<1>3. ~ Resting(p)
  BY DEF Resting
<1>4. \A ch : Answers(ch)' <=> Answers(ch)
  BY SameAnswers
<1>5. pc \notin {"off", "identify"} /\ ~(pc = "ready" /\ ~hasty)
  BY <1>3 DEF IdeInv, Asking
<1>6. IdeType'
  BY <1>2, <1>5, SameTask, SameType DEF IdeInv, IdeType
<1>7. Uncalled'
  <2>1. SUFFICES ASSUME pc \notin Calling PROVE Uncalled'
    BY DEF Uncalled
  <2>2. call = [op |-> "none"] /\ done = 0 /\ ~trouble
    BY <2>1 DEF IdeInv, Uncalled
  <2>3. QED
    BY <2>2 DEF Uncalled
<1>8. Asking'
  <2>1. SUFFICES ASSUME pc \in Detecting PROVE Asking'
    BY <1>5 DEF Asking, Detecting, Looking
  <2>2. ~hasty /\ pc \in Looking
    BY <1>5, <2>1 DEF IdeInv, Asking, Detecting, Looking
  <2>3. p = Here /\ \A q \in Positions : q # p => Resting(q)
    BY <1>3, <2>2 DEF IdeInv, Asking
  <2>4. \A q \in Positions : q # p => Resting(q)'
    BY <1>2, <2>3 DEF Resting
  <2>5. Resting(p)' \/ (p = Here /\ unit'[p].name = "identify" /\ unit'[p].left = 1)
    BY <1>2, <2>2, <2>3 DEF Resting
  <2>6. slot \in 0 .. 3 /\ slot \in 0 .. 4 /\ Selected(channel) = Here
    BY <2>2 DEF IdeInv, Asking
  <2>7. /\ Here' = Here /\ channel' = channel /\ Selected(channel)' = Selected(channel)
        /\ Answers(channel)' <=> Answers(channel)
    BY <1>4 DEF Here, channel, drive, Selected
  <2>8. pc = "ata?" => Answers(channel)
    BY DEF IdeInv, Asking
  <2>9. pc' = pc /\ slot' = slot /\ hasty' = hasty /\ pc # "ready"
    BY <2>1 DEF Detecting
  <2>10. QED
    BY <1>5, <2>2, <2>3, <2>4, <2>5, <2>6, <2>7, <2>8, <2>9 DEF Asking
<1>9. InCall'
  <2>1. SUFFICES ASSUME pc \in Calling
                 PROVE  (Called /\ Progress(unit[call.drive], Len(call.buffer)))'
    BY DEF InCall
  <2>2. Called
    BY <2>1 DEF IdeInv, InCall
  <2>3. p = call.drive
    BY <1>3, <2>2 DEF Called
  <2>4. Answers(Channel)' /\ Selected(Channel)' = call.drive'
    BY <1>4, <2>2 DEF Called, Channel, Selected
  <2>5. \A q \in Positions : q # call'.drive => Resting(q)'
    BY <1>2, <2>2, <2>3 DEF Called, Resting
  <2>6. Called'
    BY <1>2, <2>2, <2>3, <2>4, <2>5 DEF Called, Sequence
  <2>7. QED
    BY <1>2, <2>1, <2>3, <2>6
<1>10. QED
  BY <1>6, <1>7, <1>8, <1>9 DEF IdeInv

\* What is known of the drive of a call, with its length a number.
LEMMA InTheCall ==
  ASSUME IdeInv, pc \in Calling
  PROVE  /\ Called /\ Progress(unit[call.drive], Len(call.buffer))
         /\ Len(call.buffer) \in Nat /\ done \in Nat /\ done <= Len(call.buffer)
         /\ call.drive \in Positions /\ unit[call.drive] \in Unit
         /\ unit[call.drive].st # "absent"
         /\ trouble \in BOOLEAN /\ hasty \in BOOLEAN
         /\ call.op \in {"read", "write"} /\ call.op # "none"
<1>1. Called /\ Progress(unit[call.drive], Len(call.buffer))
  BY DEF IdeInv, InCall
<1>2. Len(call.buffer) \in Nat
  BY <1>1 DEF Called, Sequence
<1>3. QED
  BY <1>1, <1>2 DEF Called, IdeInv, IdeType, UnitType

LEMMA SameProgress ==
  ASSUME NEW u, NEW length, Progress(u, length), length = Len(call.buffer),
         UNCHANGED <<hardware, pc, media, call, done, hasty>>, trouble' = trouble
  PROVE  Progress(u, Len(call.buffer))'
<1>1. CallStart' = CallStart
  BY DEF CallStart, Big, hardware
<1>2. call' = call /\ pc' = pc /\ done' = done /\ hasty' = hasty /\ media' = media
  OBVIOUS
<1>3. InStep(u, Len(call.buffer))' <=> InStep(u, length)
  BY <1>1, <1>2 DEF InStep
<1>4. QED
  BY <1>1, <1>2, <1>3 DEF Progress

LEMMA TakeCommandKeeps ==
  ASSUME IdeInv, NEW p \in Positions, TakeCommand(p) PROVE IdeInv'
<1> PICK w : w = [unit[p] EXCEPT !.st = "busy"]
  OBVIOUS
<1>1. unit[p] \in Unit
  BY DEF IdeInv, IdeType, UnitType
<1>2. /\ w \in Unit /\ w.st = "busy" /\ w.name = unit[p].name /\ w.at = unit[p].at
      /\ w.left = unit[p].left
  BY <1>1, StatusChange DEF Statuses
<1>3. unit[p].st = "taken" /\ unit' = [unit EXCEPT ![p] = w]
  BY DEF TakeCommand
<1>4. /\ UNCHANGED <<hardware, drives, pc, slot, task, media, call, done, hasty>>
      /\ trouble' = trouble
  BY DEF TakeCommand, transfer
<1>5. ASSUME pc \in Looking
      PROVE  w.st \in {"idle", "failed"} \/ (w.name = "identify" /\ w.left = 1)
  BY <1>2, <1>3, <1>5 DEF IdeInv, Asking, Resting
<1>6. ASSUME pc \in Calling, p = call.drive
      PROVE  Progress(w, Len(call.buffer))'
  <2>1. Progress(w, Len(call.buffer))
    BY <1>2, <1>3, <1>6, InTheCall DEF Progress, InStep, AtWork
  <2>2. QED
    BY <1>4, <2>1, SameProgress
<1>7. trouble' \in BOOLEAN
  BY <1>4 DEF IdeInv, IdeType
<1>8. unit[p].st \in {"taken", "busy"} /\ w.st # "absent"
  BY <1>2, <1>3
<1>9. call.op = "none" => trouble' = trouble
  BY <1>4
<1>10. QED
  BY <1>2, <1>3, <1>4, <1>5, <1>6, <1>7, <1>8, <1>9, DriveStep, Zenon

LEMMA WorkKeeps ==
  ASSUME IdeInv, NEW p \in Positions, Work(p) PROVE IdeInv'
<1> PICK w : w = IF unit[p].left = 0 THEN AtRest ELSE [unit[p] EXCEPT !.st = "drq"]
  OBVIOUS
<1>1. unit[p] \in Unit
  BY DEF IdeInv, IdeType, UnitType
<1>2. /\ w \in Unit /\ w.st \in {"idle", "drq"}
      /\ unit[p].left = 0 => w.st = "idle" /\ w.left = 0
      /\ unit[p].left # 0 =>
           /\ w.st = "drq" /\ w.name = unit[p].name /\ w.at = unit[p].at
           /\ w.left = unit[p].left
  BY <1>1, StatusChange, AtRestType DEF Statuses
<1>3. unit[p].st = "busy" /\ unit' = [unit EXCEPT ![p] = w]
  BY DEF Work
<1>4. /\ UNCHANGED <<hardware, drives, pc, slot, task, media, call, done, hasty>>
      /\ trouble' = trouble
  BY DEF Work, transfer
<1>5. ASSUME pc \in Looking
      PROVE  w.st \in {"idle", "failed"} \/ (w.name = "identify" /\ w.left = 1)
  BY <1>2, <1>3, <1>5 DEF IdeInv, Asking, Resting
<1>6. ASSUME pc \in Calling, p = call.drive
      PROVE  Progress(w, Len(call.buffer))'
  <2>1. CASE unit[p].left = 0
    <3>1. w.st = "idle"
      BY <1>2, <2>1
    <3>2. /\ Progress(unit[p], Len(call.buffer)) /\ unit[p].st = "busy"
          /\ Len(call.buffer) \in Nat /\ done \in Nat /\ done <= Len(call.buffer)
      BY <1>3, <1>6, InTheCall
    <3>3. pc = "wait" => trouble
      <4>1. SUFFICES ASSUME pc = "wait", ~trouble PROVE FALSE
        OBVIOUS
      <4>2. done = 0 /\ InStep(unit[p], Len(call.buffer))
        BY <3>2, <4>1 DEF Progress
      <4>3. Len(call.buffer) # 0
        BY <1>6, InTheCall DEF Called
      <4>4. QED
        BY <2>1, <3>2, <4>2, <4>3 DEF InStep
    <3>4. pc = "transfer" /\ ~trouble => done = Len(call.buffer)
      BY <2>1, <3>2 DEF Progress, InStep
    <3>5. pc \in {"wait", "transfer"} /\ trouble => hasty
      BY <3>2 DEF Progress
    <3>6. Progress(w, Len(call.buffer))
      BY <3>1, <3>2, <3>3, <3>4, <3>5 DEF Progress, AtWork
    <3>7. QED
      BY <1>4, <3>6, SameProgress
  <2>2. CASE unit[p].left # 0
    <3>1. unit[p].name # "identify" => unit[p].at \in DOMAIN media[p]
      BY <2>2 DEF Work, Possible
    <3>2. call.op # "identify"
      BY <1>6, InTheCall
    <3>3. Progress(w, Len(call.buffer))
      BY <1>2, <1>3, <1>6, <2>2, <3>1, <3>2, InTheCall DEF Progress, InStep, AtWork
    <3>4. QED
      BY <1>4, <3>3, SameProgress
  <2>3. QED
    BY <2>1, <2>2
<1>7. trouble' \in BOOLEAN
  BY <1>4 DEF IdeInv, IdeType
<1>8. unit[p].st \in {"taken", "busy"} /\ w.st # "absent"
  BY <1>2, <1>3
<1>9. call.op = "none" => trouble' = trouble
  BY <1>4
<1>10. QED
  BY <1>2, <1>3, <1>4, <1>5, <1>6, <1>7, <1>8, <1>9, DriveStep, Zenon

LEMMA FailKeeps ==
  ASSUME IdeInv, NEW p \in Positions, Fail(p) PROVE IdeInv'
<1> DEFINE w == [AtRest EXCEPT !.st = "failed"]
<1>1. w \in Unit /\ w.st = "failed"
  BY AtRestType, StatusChange DEF Statuses
<1>2. unit[p].st = "busy" /\ unit' = [unit EXCEPT ![p] = w]
  BY DEF Fail
<1> HIDE DEF w
<1>3. /\ UNCHANGED <<hardware, drives, pc, slot, task, media, call, done, hasty>>
      /\ trouble' = (trouble \/ call.op # "none")
  BY DEF Fail
<1>4. trouble' \in BOOLEAN /\ trouble \in BOOLEAN
  BY <1>3 DEF IdeInv, IdeType
<1>5. call.op = "none" => trouble' = trouble
  BY <1>3, <1>4
<1>6. ASSUME pc \in Calling, p = call.drive
      PROVE  Progress(w, Len(call.buffer))'
  <2>1. trouble' = TRUE
    BY <1>3, <1>4, <1>6, InTheCall
  <2>2. Progress(unit[call.drive], Len(call.buffer))
    BY <1>6, InTheCall
  <2>3. /\ pc = "wait" => done = 0
        /\ pc = "flush" => done = Len(call.buffer) /\ call.op = "write"
    BY <2>2 DEF Progress
  <2>4. QED
    BY <1>1, <1>3, <2>1, <2>3 DEF Progress, AtWork
<1>7. unit[p].st \in {"taken", "busy"} /\ w.st # "absent" /\ w.st \in {"idle", "failed"}
  BY <1>1, <1>2
<1>8. QED
  BY <1>1, <1>2, <1>3, <1>4, <1>5, <1>6, <1>7, DriveStep

-----------------------------------------------------------------------------
(* The detection *)

LEMMA SlotPlaces ==
  ASSUME slot \in 0 .. 3
  PROVE  channel \in {Primary, Secondary} /\ drive \in {0, 1} /\ Here \in Positions
<1>1. channel \in {Primary, Secondary} /\ drive \in {0, 1}
  BY DEF channel, drive, Primary, Secondary
<1>2. QED
  BY <1>1 DEF Here, Positions

LEMMA NotCalling ==
  ASSUME IdeInv, pc \notin Calling, pc' \notin Calling, UNCHANGED transfer
  PROVE  Uncalled' /\ InCall'
<1>1. call = [op |-> "none"] /\ done = 0 /\ ~trouble
  BY DEF IdeInv, Uncalled
<1>2. QED
  BY <1>1 DEF Uncalled, InCall, transfer

\* A step of the detection that only looks.
LEMMA Look ==
  ASSUME IdeInv, pc \in Looking, pc' \in {"identify", "busy?", "ata?"},
         UNCHANGED <<hardware, drives, task, unit, transfer>>,
         slot' \in 0 .. 4, pc' = "identify" \/ slot' = slot,
         pc' = "identify" => Resting(Here), pc' = "ata?" => Answers(channel)
  PROVE  IdeInv'
<1>1. IdeType'
  BY SameTask, SameUnit, SameType DEF IdeInv, IdeType, transfer, Detecting
<1>2. Uncalled' /\ InCall'
  BY NotCalling DEF Looking, Calling
<1>3. Asking'
  <2>1. /\ ~hasty /\ slot \in 0 .. 3 /\ Selected(channel) = Here
        /\ \A p \in Positions :
             Resting(p) \/ (p = Here /\ unit[p].name = "identify" /\ unit[p].left = 1)
    BY DEF IdeInv, Asking, Looking, Detecting
  <2>2. hasty' = hasty /\ unit' = unit /\ task' = task
    BY DEF transfer
  <2>3. \A p : Resting(p)' <=> Resting(p)
    BY <2>2 DEF Resting
  <2>4. CASE pc' = "identify"
    <3>1. \A p \in Positions : Resting(p)
      BY <2>1, <2>4
    <3>2. QED
      BY <2>1, <2>2, <2>3, <2>4, <3>1 DEF Asking, Detecting, Looking
  <2>5. CASE pc' \in {"busy?", "ata?"}
    <3>1. slot' = slot
      BY <2>5
    <3>2. /\ channel' = channel /\ Here' = Here /\ Selected(channel)' = Selected(channel)
          /\ Answers(channel)' <=> Answers(channel)
      BY <2>2, <3>1, SameAnswers DEF channel, drive, Here, Selected
    <3>3. /\ slot' \in 0 .. 3 /\ Selected(channel)' = Here'
          /\ \A p \in Positions :
               Resting(p)' \/ (p = Here' /\ unit'[p].name = "identify" /\ unit'[p].left = 1)
      BY <2>1, <2>2, <2>3, <3>1, <3>2
    <3>4. pc' = "ata?" => Answers(channel)'
      BY <3>2
    <3>5. ~hasty'
      BY <2>1, <2>2
    <3>6. QED
      BY <2>5, <3>3, <3>4, <3>5 DEF Asking, Looking
  <2>6. QED
    BY <2>4, <2>5
<1>4. QED
  BY <1>1, <1>2, <1>3 DEF IdeInv

LEMMA LookingAt ==
  ASSUME IdeInv, pc \in Looking
  PROVE  /\ slot \in 0 .. 3 /\ Selected(channel) = Here /\ Here \in Positions
         /\ UnitType
BY SlotPlaces DEF IdeInv, IdeType, Asking

LEMMA CheckPresentKeeps == ASSUME IdeInv, CheckPresent PROVE IdeInv'
<1>1. pc \in Looking
  BY DEF CheckPresent, Looking
<1>2. slot \in 0 .. 3 /\ Selected(channel) = Here /\ Here \in Positions /\ UnitType
  BY <1>1, LookingAt
<1>3. UNCHANGED <<hardware, drives, task, unit, transfer>>
  BY DEF CheckPresent
<1>4. CASE read_alternate_status_register(channel) = {}
  <2>1. unit[Here].st = "absent"
    BY <1>2, <1>4, Status
  <2>2. pc' = "identify" /\ slot' \in 0 .. 4
    BY <1>2, <1>4 DEF CheckPresent, NextSlot
  <2>3. QED
    BY <1>1, <1>3, <2>1, <2>2, Look DEF Resting
<1>5. CASE read_alternate_status_register(channel) # {}
  <2>1. pc' = "busy?" /\ slot' = slot /\ slot' \in 0 .. 4
    BY <1>2, <1>5 DEF CheckPresent
  <2>2. QED
    BY <1>1, <1>3, <2>1, Look
<1>6. QED
  BY <1>4, <1>5

LEMMA WaitNotBusyKeeps == ASSUME IdeInv, WaitNotBusy PROVE IdeInv'
<1>1. pc \in Looking
  BY DEF WaitNotBusy, Looking
<1>2. slot \in 0 .. 3 /\ Selected(channel) = Here /\ Here \in Positions /\ UnitType
  BY <1>1, LookingAt
<1>3. Answers(channel)
  BY <1>2, Status DEF WaitNotBusy
<1>4. /\ UNCHANGED <<hardware, drives, task, unit, transfer>>
      /\ pc' = "ata?" /\ slot' = slot /\ slot' \in 0 .. 4
  BY <1>2 DEF WaitNotBusy
<1>5. QED
  BY <1>1, <1>3, <1>4, Look

LEMMA NotAtaKeeps == ASSUME IdeInv, NotAta PROVE IdeInv'
<1>1. pc \in Looking /\ Answers(channel)
  BY DEF NotAta, Looking, IdeInv, Asking
<1>2. slot \in 0 .. 3 /\ Selected(channel) = Here /\ Here \in Positions /\ UnitType
  BY <1>1, LookingAt
<1>3. unit[Here].st = "failed"
  BY <1>1, <1>2, Status DEF NotAta
<1>4. /\ UNCHANGED <<hardware, drives, task, unit, transfer>>
      /\ pc' = "identify" /\ slot' \in 0 .. 4
  BY <1>2 DEF NotAta, NextSlot
<1>5. QED
  BY <1>1, <1>3, <1>4, Look DEF Resting

LEMMA SetupKeeps == ASSUME IdeInv, Setup PROVE IdeInv'
<1>1. /\ pc = "off" /\ pc' \in {"identify", "none"}
      /\ machine' = machine /\ UNCHANGED <<drives, slot, task, unit, transfer>>
  BY DEF Setup
<1>2. drives = <<>> /\ slot \in 0 .. 4 /\ ~hasty /\ \A p \in Positions : Resting(p)
  BY <1>1 DEF IdeInv, IdeType, Asking, Detecting
<1>3. IdeType'
  <2>1. TaskType'
    BY <1>1, SameTask DEF IdeInv, IdeType
  <2>2. UnitType'
    BY <1>1 DEF IdeInv, IdeType, UnitType
  <2>3. DrivesType'
    BY <1>1, <1>2 DEF DrivesType, Sequence
  <2>4. QED
    BY <1>1, <2>1, <2>2, <2>3 DEF IdeInv, IdeType, transfer, Detecting
<1>4. Uncalled' /\ InCall'
  BY <1>1, NotCalling DEF Calling
<1>5. Asking'
  BY <1>1, <1>2 DEF Asking, Resting, transfer, Looking
<1>6. QED
  BY <1>3, <1>4, <1>5 DEF IdeInv

LEMMA DetectedKeeps == ASSUME IdeInv, Detected PROVE IdeInv'
<1>1. /\ pc = "identify" /\ pc' = "ready"
      /\ UNCHANGED <<hardware, drives, slot, task, unit, transfer>>
  BY DEF Detected
<1>2. ~hasty /\ \A p \in Positions : Resting(p)
  BY <1>1 DEF IdeInv, Asking, Detecting
<1>3. IdeType'
  BY <1>1, SameTask, SameUnit, SameType DEF IdeInv, IdeType, transfer
<1>4. Uncalled' /\ InCall'
  BY <1>1, NotCalling DEF Calling
<1>5. Asking'
  BY <1>1, <1>2 DEF Asking, Resting, transfer, Looking, Detecting
<1>6. QED
  BY <1>3, <1>4, <1>5 DEF IdeInv

LEMMA CallWithoutLbaKeeps ==
  ASSUME IdeInv, NEW d, CallWithoutLba(d) PROVE IdeInv'
<1>1. /\ pc = "ready" /\ pc' = "panic"
      /\ UNCHANGED <<hardware, drives, slot, task, unit, transfer>>
  BY DEF CallWithoutLba
<1>2. IdeType'
  BY <1>1, SameTask, SameUnit, SameType DEF IdeInv, IdeType, transfer
<1>3. Uncalled' /\ InCall'
  BY <1>1, NotCalling DEF Calling
<1>4. Asking'
  BY <1>1 DEF Asking, Looking, Detecting
<1>5. QED
  BY <1>2, <1>3, <1>4 DEF IdeInv

\* A command for a drive that rests, or for no drive at all.
LEMMA Obeyed ==
  ASSUME UnitType, UNCHANGED hardware, NEW p \in Positions, Resting(p), NEW w \in Unit,
         w.st = "taken", unit' = Obeys(p, w)
  PROVE  /\ UnitType'
         /\ unit'[p] = w \/ (unit[p].st = "absent" /\ unit'[p] = unit[p])
         /\ \A q \in Positions : q # p => unit'[q] = unit[q]
<1>1. CASE unit[p].st = "absent"
  <2>1. unit' = unit
    BY <1>1 DEF Obeys
  <2>2. QED
    BY <1>1, <2>1, SameUnit
<1>2. CASE unit[p].st # "absent"
  <2>1. unit' = [unit EXCEPT ![p] = w]
    BY <1>2 DEF Obeys, Resting
  <2>2. QED
    BY <1>2, <2>1, UnitChange
<1>3. QED
  BY <1>1, <1>2

LEMMA SendIdentifyKeeps == ASSUME IdeInv, SendIdentify PROVE IdeInv'
<1>1. /\ pc = "identify" /\ pc' = "exists?" /\ slot < 4
      /\ UNCHANGED <<hardware, drives, slot, transfer>>
      /\ task' = ide_select_drive(channel, drive, FALSE)
      /\ unit' = Obeys(Here, Command("identify", 0, 1))
  BY DEF SendIdentify, Here
<1>2. /\ slot \in 0 .. 3 /\ ~hasty /\ \A p \in Positions : Resting(p)
      /\ TaskType /\ UnitType
  BY <1>1 DEF IdeInv, IdeType, Asking, Detecting
<1>3. channel \in {Primary, Secondary} /\ drive \in {0, 1} /\ Here \in Positions
  BY <1>2, SlotPlaces
<1>4. TaskType' /\ task'[channel].head.drive = drive
  <2>1. /\ Whole(task'[channel])
        /\ task'[channel].head = [lba |-> FALSE, drive |-> drive, low |-> 0]
    BY <1>1, <1>2, <1>3, Selection
  <2>2. /\ task' = [ch \in {Primary, Secondary} |-> task'[ch]]
        /\ \A ch \in {Primary, Secondary} : ch # channel => task'[ch] = task[ch]
    BY <1>1, <1>2 DEF ide_select_drive, TaskType
  <2>3. QED
    BY <1>2, <2>1, <2>2 DEF TaskType
<1>5. PICK w \in Unit : /\ w = Command("identify", 0, 1)
                        /\ w.st = "taken" /\ w.name = "identify" /\ w.left = 1
  BY CommandType
<1>6. /\ UnitType'
      /\ unit'[Here] = w \/ (unit[Here].st = "absent" /\ unit'[Here] = unit[Here])
      /\ \A q \in Positions : q # Here => unit'[q] = unit[q]
  BY <1>1, <1>2, <1>3, <1>5, Obeyed
<1>7. IdeType'
  BY <1>1, <1>4, <1>6, SameType DEF IdeInv, IdeType, transfer, Detecting
<1>8. Uncalled' /\ InCall'
  BY <1>1, NotCalling DEF Calling
<1>9. Asking'
  <2>1. Here' = Here /\ channel' = channel /\ Selected(channel)' = Here
    BY <1>1, <1>4 DEF Here, channel, drive, Selected
  <2>2. \A p \in Positions :
          Resting(p)' \/ (p = Here /\ unit'[p].name = "identify" /\ unit'[p].left = 1)
    BY <1>2, <1>5, <1>6 DEF Resting
  <2>3. hasty' = hasty
    BY <1>1 DEF transfer
  <2>4. QED
    BY <1>1, <1>2, <2>1, <2>2, <2>3 DEF Asking, Looking
<1>10. QED
  BY <1>7, <1>8, <1>9 DEF IdeInv

LEMMA Appended ==
  ASSUME NEW s, Sequence(s), NEW e
  PROVE  /\ Sequence(Append(s, e))
         /\ \A i \in DOMAIN Append(s, e) :
              Append(s, e)[i] = e \/ (i \in DOMAIN s /\ Append(s, e)[i] = s[i])
<1>1. PICK S : s \in Seq(S)
  BY DEF Sequence
<1>2. s \in Seq(S \cup {e})
  BY <1>1
<1>3. Append(s, e) \in Seq(S \cup {e})
  BY <1>2
<1>4. QED
  BY <1>2, <1>3 DEF Sequence

\* After a sector of data, the drive of a transfer.
LEMMA SectorDoneType ==
  ASSUME UnitType, UNCHANGED hardware, NEW p \in Positions, unit[p].st = "drq",
         unit[p].left # 0, SectorDone(p)
  PROVE  /\ UnitType' /\ unit'[p] \in Unit
         /\ \A q \in Positions : q # p => unit'[q] = unit[q]
         /\ unit[p].left = 1 /\ unit[p].name # "write" =>
              unit'[p].st = "idle" /\ unit'[p].left = 0
         /\ ~(unit[p].left = 1 /\ unit[p].name # "write") =>
              /\ unit'[p].st = "busy" /\ unit'[p].name = unit[p].name
              /\ unit'[p].at = unit[p].at + 1 /\ unit'[p].left = unit[p].left - 1
<1>1. unit[p] \in Unit
  BY DEF UnitType
<1>2. PICK w : w = IF unit[p].left = 1 /\ unit[p].name # "write" THEN AtRest
                   ELSE [unit[p] EXCEPT !.st = "busy", !.at = @ + 1, !.left = @ - 1]
  OBVIOUS
<1>3. unit' = [unit EXCEPT ![p] = w]
  BY <1>2, Zenon DEF SectorDone
<1>4. /\ w \in Unit
      /\ unit[p].left = 1 /\ unit[p].name # "write" => w.st = "idle" /\ w.left = 0
      /\ ~(unit[p].left = 1 /\ unit[p].name # "write") =>
            /\ w.st = "busy" /\ w.name = unit[p].name
            /\ w.at = unit[p].at + 1 /\ w.left = unit[p].left - 1
  <2>1. CASE unit[p].left = 1 /\ unit[p].name # "write"
    BY <1>2, <2>1, AtRestType
  <2>2. CASE ~(unit[p].left = 1 /\ unit[p].name # "write")
    <3>1. w = [unit[p] EXCEPT !.st = "busy", !.at = @ + 1, !.left = @ - 1]
      BY <1>2, <2>2
    <3>2. unit[p].left - 1 \in Nat /\ unit[p].at + 1 \in Nat
      BY <1>1 DEF Unit
    <3>3. QED
      BY <1>1, <2>2, <3>1, <3>2 DEF Unit, Statuses
  <2>3. QED
    BY <2>1, <2>2
<1>5. unit[p].st # "absent" /\ w.st # "absent"
  BY <1>4
<1>6. UnitType' /\ unit'[p] = w /\ \A q \in Positions : q # p => unit'[q] = unit[q]
  BY <1>3, <1>4, <1>5, UnitChange
<1>7. QED
  BY <1>4, <1>6

LEMMA AddDriveKeeps == ASSUME IdeInv, AddDrive PROVE IdeInv'
<1>1. /\ pc = "ata?" /\ pc' = "identify" /\ slot' = slot + 1
      /\ UNCHANGED <<hardware, task, transfer>>
      /\ DRQ \in read_alternate_status_register(channel)
      /\ SectorDone(Here)
      /\ drives' = add_drive(Here, machine.drives[Here])
  BY DEF AddDrive, NextSlot, Here
<1>2. pc \in Looking /\ Answers(channel)
  BY <1>1 DEF Looking, IdeInv, Asking
<1>3. slot \in 0 .. 3 /\ Selected(channel) = Here /\ Here \in Positions /\ UnitType
  BY <1>2, LookingAt
<1>4. unit[Here].st = "drq"
  BY <1>1, <1>2, <1>3, Status
<1>5. /\ \A p \in Positions : p # Here => Resting(p)
      /\ unit[Here].name = "identify" /\ unit[Here].left = 1 /\ ~hasty
  BY <1>1, <1>2, <1>3, <1>4 DEF IdeInv, Asking, Resting, Detecting
<1>6. /\ UnitType' /\ unit'[Here].st = "idle"
      /\ \A q \in Positions : q # Here => unit'[q] = unit[q]
  BY <1>1, <1>3, <1>4, <1>5, SectorDoneType
<1>7. \A p \in Positions : Resting(p)'
  BY <1>5, <1>6 DEF Resting
<1>8. DrivesType'
  <2> DEFINE m == machine.drives[Here]
             e == [at |-> Here, lba |-> m.lba, big |-> m.lba /\ m.lba48,
                   sectors |-> IF m.lba /\ m.lba48 THEN m.sectors48 ELSE m.sectors28]
  <2>1. drives' = Append(drives, e)
    BY <1>1, Zenon DEF add_drive
  <2>2. m # NoDrive
    BY <1>3, <1>4 DEF UnitType
  <2>3. Here[1] = channel
    BY DEF Here
  <2>4. /\ e.at = Here /\ e.lba = m.lba /\ e.big = (m.lba /\ m.lba48)
        /\ e.sectors = IF m.lba /\ m.lba48 THEN m.sectors48 ELSE m.sectors28
    BY Zenon
  <2> HIDE DEF e
  <2>5. Entry(e)
    BY <1>2, <1>3, <2>2, <2>3, <2>4, Zenon DEF Entry
  <2>6. ASSUME NEW d, Entry(d) PROVE Entry(d)'
    <3>1. Answers(d.at[1])' <=> Answers(d.at[1])
      BY <1>1, SameAnswers
    <3>2. machine' = machine
      BY <1>1 DEF hardware
    <3>3. QED
      BY <2>6, <3>1, <3>2, Zenon DEF Entry
  <2>7. Sequence(drives') /\ \A i \in DOMAIN drives' : Entry(drives'[i])
    BY <2>1, <2>5, Appended DEF IdeInv, IdeType, DrivesType
  <2>8. QED
    BY <2>6, <2>7 DEF DrivesType, Sequence
<1>9. IdeType'
  BY <1>1, <1>6, <1>8, SameTask DEF IdeInv, IdeType, hardware, transfer, Detecting
<1>10. Uncalled' /\ InCall'
  BY <1>1, NotCalling DEF Calling
<1>11. Asking'
  BY <1>1, <1>3, <1>5, <1>7 DEF Asking, transfer, Looking
<1>12. QED
  BY <1>9, <1>10, <1>11 DEF IdeInv

-----------------------------------------------------------------------------
(* The calls *)

LEMMA BufferFacts ==
  ASSUME NEW buffer \in Contents
  PROVE  /\ Sequence(buffer) /\ Len(buffer) \in Nat /\ Len(buffer) < COUNTS
         /\ buffer # <<>> => Len(buffer) # 0
         /\ Sequence([i \in DOMAIN buffer |-> Garbage])
         /\ Len([i \in DOMAIN buffer |-> Garbage]) = Len(buffer)
<1>1. buffer \in Seq({buffer[i] : i \in DOMAIN buffer}) /\ Len(buffer) < COUNTS
  BY RegisterAssumption
<1>2. PICK S : buffer \in Seq(S)
  BY <1>1
<1>3. Len(buffer) \in Nat /\ DOMAIN buffer = 1 .. Len(buffer)
  BY <1>2
<1>4. buffer # <<>> => Len(buffer) # 0
  BY <1>2, EmptySeq
<1>5. [i \in DOMAIN buffer |-> Garbage] \in Seq({Garbage})
  BY <1>3, IsASeq
<1>6. Len([i \in DOMAIN buffer |-> Garbage]) = Len(buffer)
  BY <1>3, <1>5, LenProperties
<1>7. QED
  BY <1>1, <1>2, <1>3, <1>4, <1>5, <1>6 DEF Sequence

LEMMA StartType ==
  ASSUME NEW op, NEW big, NEW lba \in Nat
  PROVE  StartOf(op, big, lba) \in Nat
<1>1. lba % Reach3 \in Nat /\ lba % Reach28 \in Nat /\ lba % Reach48 \in Nat
  BY Reaches, QuotientType
<1>2. QED
  BY <1>1 DEF StartOf

\* What the driver knows of a drive tells which commands it uses.
LEMMA EntryBig ==
  ASSUME IdeType, NEW d, Entry(d), d.lba
  PROVE  d.big <=> Big(d.at)
<1> DEFINE m == machine.drives[d.at]
<1>1. /\ d.at \in Positions /\ m # NoDrive /\ d.lba = m.lba
      /\ d.big = (m.lba /\ m.lba48)
  BY Zenon DEF Entry
<1> HIDE DEF m
<1>2. d.big <=> m.lba48
  BY <1>1
<1>3. Big(d.at) <=> m.lba48
  BY <1>1, Zenon DEF Big, m
<1>4. QED
  BY <1>2, <1>3

LEMMA CallKeeps ==
  ASSUME IdeInv, NEW op \in {"read", "write"}, NEW i \in DOMAIN drives,
         NEW lba \in Lbas, NEW buffer \in Contents, buffer # <<>>,
         Call(op, drives[i], lba, buffer)
  PROVE  IdeInv'
<1> DEFINE d == drives[i]
           ch == d.at[1]
           t == setup_rw_48_bits(d, lba, Len(buffer))
           b == IF op = "write" THEN buffer ELSE [j \in DOMAIN buffer |-> Garbage]
<1>1. /\ pc = "ready" /\ pc' = "wait" /\ ~hasty /\ d.lba
      /\ call' = [op |-> op, drive |-> d.at, lba |-> lba, buffer |-> b]
      /\ task' = [task EXCEPT ![ch] = t]
      /\ unit' = Obeys(<<ch, t.head.drive>>, rw_command(op, d, t))
      /\ UNCHANGED <<hardware, drives, media, done, hasty>> /\ trouble' = trouble
  BY Zenon DEF Call
<1>2. Entry(d) /\ d.at \in Positions /\ TaskType /\ UnitType /\ IdeType /\ d.lba
  BY <1>1 DEF IdeInv, IdeType, DrivesType, Entry
<1>3. done = 0 /\ ~trouble
  BY <1>1 DEF IdeInv, Uncalled, Calling
<1>4. /\ \A p \in Positions : Resting(p)
      /\ unit[d.at].st # "absent" /\ Answers(ch)
  BY <1>1, <1>2 DEF IdeInv, Asking, UnitType, Entry
<1>5. ch \in {Primary, Secondary} /\ d.at[2] \in {0, 1} /\ d.at = <<ch, d.at[2]>>
  BY <1>2 DEF Positions
<1>6. Whole(t) /\ t.head.drive = d.at[2]
  BY <1>2, SetUp
<1>7. lba \in Nat
  BY RegisterAssumption
<1>8. /\ Sequence(b) /\ Len(b) = Len(buffer) /\ Len(buffer) \in Nat /\ Len(buffer) < COUNTS
      /\ Len(buffer) # 0
  BY BufferFacts
<1>9. d.big <=> Big(d.at)
  BY <1>2, EntryBig
<1> HIDE DEF b, t, ch, d
<1>10. PICK w \in Unit : /\ w = rw_command(op, d, t) /\ w.st = "taken" /\ w.name = op
                         /\ w.left = Len(buffer) /\ w.at = StartOf(op, Big(d.at), lba)
  <2>1. rw_command(op, d, t) = Command(op, StartOf(op, d.big, lba), Len(buffer))
    BY <1>2, <1>7, <1>8, CommandOfCall DEF t
  <2>2. StartOf(op, d.big, lba) = StartOf(op, Big(d.at), lba)
    BY <1>9 DEF StartOf
  <2>3. StartOf(op, Big(d.at), lba) \in Nat
    BY <1>7, StartType
  <2>4. QED
    BY <1>8, <2>1, <2>2, <2>3, CommandType
<1>11. unit' = Obeys(d.at, w)
  BY <1>1, <1>5, <1>6, <1>10
<1>12. /\ UnitType' /\ unit'[d.at] = w
       /\ \A q \in Positions : q # d.at => unit'[q] = unit[q]
  <2>1. UNCHANGED hardware
    BY <1>1
  <2>2. QED
    BY <1>2, <1>4, <1>10, <1>11, <2>1, Obeyed
<1>13. TaskType' /\ task'[ch].head.drive = d.at[2]
  BY <1>1, <1>2, <1>5, <1>6 DEF TaskType
<1>14. IdeType'
  BY <1>1, <1>2, <1>12, <1>13, SameType DEF IdeType, Calling
<1>15. Uncalled' /\ Asking'
  BY <1>1 DEF Uncalled, Asking, Calling, Detecting, Looking
<1>16. /\ call'.op = op /\ call'.drive = d.at /\ call'.lba = lba /\ call'.buffer = b
       /\ Len(call'.buffer) = Len(buffer)
  BY <1>1, <1>8
<1>17. Called'
  <2>1. call' = [op |-> call'.op, drive |-> call'.drive, lba |-> call'.lba,
                 buffer |-> call'.buffer]
    BY <1>1
  <2>2. Channel' = ch /\ Selected(Channel)' = call'.drive
    BY <1>5, <1>13, <1>16 DEF Channel, Selected, ch
  <2>3. Answers(Channel)'
    BY <1>1, <1>4, <2>2, SameAnswers
  <2>4. \A p \in Positions : p # call'.drive => Resting(p)'
    BY <1>4, <1>12, <1>16 DEF Resting
  <2>5. unit'[call'.drive].st # "absent"
    BY <1>10, <1>12, <1>16
  <2>6. done' = 0 /\ done' \in 0 .. Len(call'.buffer)
    BY <1>1, <1>3, <1>8, <1>16
  <2>7. QED
    BY <1>2, <1>7, <1>8, <1>16, <2>1, <2>2, <2>3, <2>4, <2>5, <2>6 DEF Called, Sequence
<1>18. Progress(unit[call.drive], Len(call.buffer))'
  <2>1. CallStart' = StartOf(op, Big(d.at), lba)
    BY <1>1, <1>16 DEF CallStart, Big, hardware
  <2>2. w.left = Len(buffer) - done' /\ w.at = CallStart' + done'
    <3>1. StartOf(op, Big(d.at), lba) \in Nat
      BY <1>7, StartType
    <3>2. QED
      BY <1>1, <1>3, <1>8, <1>10, <2>1, <3>1
  <2>3. w.at = CallStart' /\ w.left = Len(buffer)
    BY <1>10, <2>1
  <2>4. ~trouble' /\ ~hasty' /\ done' = 0 /\ pc' = "wait"
    BY <1>1, <1>3
  <2>5. w.st \in AtWork /\ InStep(unit[call.drive], Len(call.buffer))'
    BY <1>10, <1>12, <1>16, <2>2 DEF InStep, AtWork
  <2>6. CallStart' \in Nat
    BY <1>7, <2>1, StartType
  <2>7. w.at + w.left = CallStart' + Len(buffer) /\ CallStart' <= w.at
    BY <1>8, <2>3, <2>6
  <2>8. QED
    BY <1>10, <1>12, <1>16, <2>4, <2>5, <2>7 DEF Progress
<1>19. InCall'
  BY <1>17, <1>18 DEF InCall
<1>20. QED
  BY <1>14, <1>15, <1>19 DEF IdeInv

\* A step of a call keeps what does not change in it.
LEMMA CallStep ==
  ASSUME IdeInv, pc \in Calling, pc' \in Calling, UNCHANGED <<hardware, drives, slot, task>>,
         UnitType', unit'[call.drive].st # "absent",
         \A q \in Positions : q # call.drive => unit'[q] = unit[q],
         call' = [op |-> call.op, drive |-> call.drive, lba |-> call.lba,
                  buffer |-> call'.buffer],
         Sequence(call'.buffer), Len(call'.buffer) = Len(call.buffer),
         done' \in 0 .. Len(call.buffer), trouble' \in BOOLEAN, hasty' \in BOOLEAN,
         Progress(unit[call.drive], Len(call.buffer))'
  PROVE  IdeInv'
<1>1. Called
  BY InTheCall
<1>2. IdeType'
  BY SameTask, SameType DEF IdeInv, IdeType, Calling
<1>3. Uncalled' /\ Asking'
  BY DEF Uncalled, Asking, Calling, Detecting, Looking
<1>4. call'.op = call.op /\ call'.drive = call.drive /\ call'.lba = call.lba
  OBVIOUS
<1>5. Called'
  <2>1. Channel' = Channel /\ Selected(Channel)' = Selected(Channel)
    BY <1>4 DEF Channel, Selected
  <2>2. Answers(Channel)' /\ Selected(Channel)' = call'.drive
    BY <1>1, <1>4, <2>1, SameAnswers DEF Called
  <2>3. \A q \in Positions : q # call'.drive => Resting(q)'
    BY <1>1, <1>4 DEF Called, Resting
  <2>4. call' = [op |-> call'.op, drive |-> call'.drive, lba |-> call'.lba,
                 buffer |-> call'.buffer]
    BY <1>4
  <2>5. Len(call'.buffer) # 0
    BY <1>1, <1>4 DEF Called
  <2>6. unit'[call'.drive].st # "absent" /\ done' \in 0 .. Len(call'.buffer)
    BY <1>4
  <2>7. /\ call'.op \in {"read", "write"} /\ call'.drive \in Positions
        /\ call'.lba \in Nat /\ call'.lba \in Lbas
    BY <1>1, <1>4 DEF Called
  <2>8. Sequence(call.buffer)'
    BY DEF Sequence
  <2>9. QED
    BY <2>2, <2>3, <2>4, <2>5, <2>6, <2>7, <2>8, Zenon DEF Called
<1>6. QED
  BY <1>2, <1>3, <1>5 DEF IdeInv, InCall

LEMMA SleepKeeps == ASSUME IdeInv, Sleep PROVE IdeInv'
<1>1. /\ pc = "wait" /\ pc' = "transfer" /\ pc \in Calling /\ pc' \in Calling
      /\ UNCHANGED <<hardware, drives, slot, task, unit, media, call, done>>
      /\ hasty' = (hasty \/ unit[call.drive].st = "taken")
      /\ trouble' = (trouble \/ hasty')
  BY DEF Sleep, Asked, Calling
<1> DEFINE u == unit[call.drive]
           length == Len(call.buffer)
<1>2. /\ Called /\ Progress(u, length) /\ length \in Nat /\ done \in Nat /\ done <= length
      /\ u.st # "absent" /\ trouble \in BOOLEAN /\ hasty \in BOOLEAN
  BY <1>1, InTheCall
<1>3. trouble' \in BOOLEAN /\ hasty' \in BOOLEAN
  BY <1>1, <1>2
<1>4. Progress(u, length)'
  <2>1. CallStart' = CallStart /\ u' = u /\ length' = length /\ done' = done /\ media' = media
    BY <1>1 DEF CallStart, Big, hardware
  <2>2. InStep(u, length)' <=> InStep(u, length)
    BY <1>1, <2>1 DEF InStep
  <2> HIDE DEF u, length
  <2>3. done = 0 /\ (hasty => trouble) /\ (trouble /\ ~hasty => u.st = "failed")
    BY <1>1, <1>2 DEF Progress
  <2>4. ~trouble => u.st \in AtWork /\ InStep(u, length)
    BY <1>1, <1>2 DEF Progress
  <2>5. /\ u.st = "drq" => u.left # 0
        /\ u.st = "drq" /\ u.name = call.op => u.at \in DOMAIN media[call.drive]
        /\ u.st \in AtWork /\ u.name = "write" =>
             call.op = "write" /\ u.at + u.left = CallStart + length /\ CallStart <= u.at
    BY <1>2 DEF Progress
  <2>6. /\ hasty' => trouble'
        /\ trouble' /\ ~hasty' => u.st = "failed"
        /\ ~trouble' => u.st \in {"busy", "drq"} /\ InStep(u, length)
    BY <1>1, <1>2, <1>3, <2>3, <2>4 DEF AtWork, u
  <2>7. call' = call /\ pc' = "transfer"
    BY <1>1
  <2>8. length # 0
    BY <1>2 DEF Called, length
  <2>9. QED
    BY <2>1, <2>2, <2>3, <2>5, <2>6, <2>7, <2>8 DEF Progress
<1>5. UnitType'
  BY <1>1, SameUnit DEF IdeInv, IdeType
<1>6. QED
  BY <1>1, <1>2, <1>3, <1>4, <1>5, CallStep DEF Called

\* The drive of a call when a sector may be transferred: without trouble, it waits for
\* just that sector.
LEMMA Ready ==
  ASSUME IdeInv, pc = "transfer", done < Len(call.buffer), MayTransfer
  PROVE  /\ Selected(Channel) = call.drive
         /\ ~trouble => /\ unit[call.drive].st = "drq"
                        /\ InStep(unit[call.drive], Len(call.buffer))
         /\ unit[call.drive].st = "drq" => unit[call.drive].left # 0
         /\ unit[call.drive].st = "drq" /\ unit[call.drive].name = call.op =>
              unit[call.drive].at \in DOMAIN media[call.drive]
         /\ trouble /\ ~hasty => unit[call.drive].st = "failed"
<1>1. /\ Called /\ Progress(unit[call.drive], Len(call.buffer)) /\ trouble \in BOOLEAN
      /\ Len(call.buffer) \in Nat /\ done \in Nat
  BY InTheCall DEF Calling
<1>2. Selected(Channel) = call.drive /\ Answers(Channel) /\ call.drive \in Positions
  BY <1>1 DEF Called
<1>3. UnitType
  BY DEF IdeInv, IdeType
<1>4. unit[call.drive].st # "busy"
  BY <1>2, <1>3, Status DEF MayTransfer
<1>5. ~trouble => /\ unit[call.drive].st \in {"busy", "drq"}
                  /\ InStep(unit[call.drive], Len(call.buffer))
  BY <1>1 DEF Progress
<1>6. QED
  BY <1>1, <1>2, <1>4, <1>5 DEF Progress

LEMMA SectorStep ==
  ASSUME IdeInv, pc = "transfer", done < Len(call.buffer), MayTransfer,
         LET u == unit[call.drive]
         IN  IF u.st = "drq" /\ u.name = call.op THEN SectorDone(call.drive)
             ELSE UNCHANGED <<unit, media>>,
         UNCHANGED <<hardware, drives, pc, slot, task, hasty>>, trouble' = trouble,
         done' = done + 1,
         call' = [op |-> call.op, drive |-> call.drive, lba |-> call.lba,
                  buffer |-> call'.buffer],
         Sequence(call'.buffer), Len(call'.buffer) = Len(call.buffer)
  PROVE  IdeInv'
<1> DEFINE u == unit[call.drive]
           length == Len(call.buffer)
<1>1. /\ Called /\ Progress(u, length) /\ length \in Nat /\ done \in Nat /\ u \in Unit
      /\ u.st # "absent" /\ trouble \in BOOLEAN /\ hasty \in BOOLEAN
      /\ call.drive \in Positions /\ call.op \in {"read", "write"}
  BY InTheCall DEF Calling
<1>2. /\ ~trouble => u.st = "drq" /\ InStep(u, length)
      /\ u.st = "drq" => u.left # 0
      /\ u.st = "drq" /\ u.name = call.op => u.at \in DOMAIN media[call.drive]
      /\ trouble /\ ~hasty => u.st = "failed"
  BY Ready
<1>3. UnitType
  BY DEF IdeInv, IdeType
<1>4. call'.op = call.op /\ call'.drive = call.drive /\ call'.lba = call.lba
  OBVIOUS
<1>5. PICK v : v = unit'[call.drive]
  OBVIOUS
<1>6. /\ u.st \in AtWork /\ u.name = "write" =>
           call.op = "write" /\ u.at + u.left = CallStart + length /\ CallStart <= u.at
      /\ hasty => trouble
  BY <1>1 DEF Progress
<1>7. done + 1 <= length /\ done' = done + 1 /\ done' \in 0 .. length
  BY <1>1
<1>8. CallStart \in Nat
  <2>1. call.lba \in Nat
    BY <1>1 DEF Called
  <2>2. QED
    BY <2>1, StartType DEF CallStart
<1>9. /\ UnitType' /\ v.st # "absent"
      /\ \A q \in Positions : q # call.drive => unit'[q] = unit[q]
      /\ v.st = "drq" => v.left # 0
      /\ v.st = "drq" /\ v.name = call.op => v.at \in DOMAIN media'[call.drive]
      /\ v.st \in AtWork /\ v.name = "write" =>
           call.op = "write" /\ v.at + v.left = CallStart + length /\ CallStart <= v.at
      /\ trouble /\ ~hasty => v.st = "failed"
      /\ ~trouble /\ done' # length =>
           /\ v.st = "busy" /\ v.name = call.op /\ v.left = length - done'
           /\ v.at = CallStart + done'
      /\ ~trouble /\ done' = length =>
           v.st = "idle" \/ (call.op = "write" /\ v.st = "busy" /\ v.left = 0)
  <2>1. CASE u.st = "drq" /\ u.name = call.op
    <3>1. SectorDone(call.drive) /\ u.left # 0
      BY <1>2, <2>1
    <3>2. /\ UnitType'
          /\ \A q \in Positions : q # call.drive => unit'[q] = unit[q]
          /\ u.left = 1 /\ u.name # "write" => v.st = "idle" /\ v.left = 0
          /\ ~(u.left = 1 /\ u.name # "write") =>
               /\ v.st = "busy" /\ v.name = u.name
               /\ v.at = u.at + 1 /\ v.left = u.left - 1
      <4>1. UNCHANGED hardware
        OBVIOUS
      <4>2. QED
        BY <1>1, <1>3, <1>5, <2>1, <3>1, <4>1, SectorDoneType
    <3>3. u.left \in Nat /\ u.at \in Nat
      BY <1>1 DEF Unit
    <3>4. CallStart \in Nat
      BY <1>8
    <3>5. ~trouble => /\ u.left = length - done
                      /\ u.at = CallStart + done
      BY <1>2 DEF InStep
    <3> HIDE DEF u, length
    <3>6. CASE u.left = 1 /\ u.name # "write"
      <4>1. v.st = "idle"
        BY <3>2, <3>6
      <4>2. ~trouble => done' = length
        BY <1>1, <1>7, <3>5, <3>6
      <4>3. ~(trouble /\ ~hasty)
        BY <1>2, <2>1
      <4>4. QED
        BY <3>2, <4>1, <4>2, <4>3 DEF AtWork
    <3>7. CASE ~(u.left = 1 /\ u.name # "write")
      <4>1. /\ v.st = "busy" /\ v.name = u.name /\ v.at = u.at + 1 /\ v.left = u.left - 1
        BY <3>2, <3>7
      <4>2. ~(trouble /\ ~hasty)
        BY <1>2, <2>1
      <4>3. v.name = "write" =>
              call.op = "write" /\ v.at + v.left = CallStart + length /\ CallStart <= v.at
        BY <1>6, <1>8, <2>1, <3>3, <4>1 DEF AtWork
      <4>4. ~trouble => /\ v.left = length - done'
                        /\ v.at = CallStart + done'
        <5>1. ASSUME ~trouble PROVE v.left = length - done'
          BY <1>1, <1>7, <3>3, <3>5, <4>1, <5>1
        <5>2. ASSUME ~trouble, NEW n \in Nat, u.at = n + done PROVE v.at = n + done'
          BY <1>1, <1>7, <3>3, <4>1, <5>2
        <5>3. QED
          BY <3>4, <3>5, <5>1, <5>2
      <4>5. ~trouble /\ done' = length => call.op = "write" /\ v.left = 0
        BY <1>1, <1>7, <2>1, <3>3, <3>5, <3>7, <4>1
      <4>6. QED
        BY <2>1, <3>2, <4>1, <4>2, <4>3, <4>4, <4>5 DEF AtWork
    <3>8. QED
      BY <3>6, <3>7
  <2>2. CASE ~(u.st = "drq" /\ u.name = call.op)
    <3>1. unit' = unit /\ v = u /\ media' = media
      BY <1>5, <2>2
    <3>2. UnitType'
      <4>1. UNCHANGED <<hardware, unit>>
        BY <3>1
      <4>2. QED
        BY <1>3, <4>1, SameUnit
    <3>3. trouble
      BY <1>1, <1>2, <2>2 DEF InStep
    <3>4. QED
      BY <1>1, <1>2, <1>6, <3>1, <3>2, <3>3
  <2>3. QED
    BY <2>1, <2>2
<1>10. Progress(unit[call.drive], Len(call.buffer))'
  <2>1. unit'[call'.drive] = v /\ Len(call'.buffer) = length
    BY <1>4, <1>5
  <2>2. CallStart' = CallStart
    BY <1>4 DEF CallStart, Big, hardware
  <2>3. ~trouble /\ done' # length => InStep(unit[call.drive], Len(call.buffer))'
    BY <1>4, <1>9, <2>1, <2>2 DEF InStep
  <2>4. trouble' = trouble /\ hasty' = hasty /\ pc' = "transfer"
    OBVIOUS
  <2> HIDE DEF u, length
  <2>5. QED
    BY <1>1, <1>4, <1>6, <1>9, <2>1, <2>2, <2>3, <2>4 DEF Progress
<1>11. QED
  <2>1. unit'[call.drive].st # "absent"
    BY <1>5, <1>9
  <2>2. pc \in Calling /\ pc' \in Calling /\ trouble' \in BOOLEAN /\ hasty' \in BOOLEAN
    BY <1>1 DEF Calling
  <2>3. UNCHANGED <<hardware, drives, slot, task>>
    OBVIOUS
  <2>4. QED
    BY <1>7, <1>9, <1>10, <2>1, <2>2, <2>3, CallStep

LEMMA Updated ==
  ASSUME NEW s, Sequence(s), NEW k \in 1 .. Len(s), NEW v
  PROVE  Sequence([s EXCEPT ![k] = v]) /\ Len([s EXCEPT ![k] = v]) = Len(s)
<1>1. PICK S : s \in Seq(S)
  BY DEF Sequence
<1>2. s \in Seq(S \cup {v}) /\ v \in S \cup {v}
  BY <1>1
<1>3. [s EXCEPT ![k] = v] \in Seq(S \cup {v}) /\ Len([s EXCEPT ![k] = v]) = Len(s)
  BY <1>2, ExceptSeq
<1>4. QED
  BY <1>3 DEF Sequence

\* What a step that reads a sector does to the call.
LEMMA ReadCall ==
  ASSUME IdeInv, ReadSector
  PROVE  /\ pc = "transfer" /\ call.op = "read" /\ done < Len(call.buffer) /\ MayTransfer
         /\ done + 1 \in 1 .. Len(call.buffer)
         /\ IF unit[call.drive].st = "drq" /\ unit[call.drive].name = call.op
            THEN /\ SectorDone(call.drive)
                 /\ call' = [call EXCEPT !.buffer[done + 1] =
                              media[call.drive][unit[call.drive].at]]
            ELSE UNCHANGED <<call, unit>>
<1>1. pc = "transfer" /\ call.op = "read" /\ done < Len(call.buffer) /\ MayTransfer
  BY DEF ReadSector
<1>2. Selected(Channel) = call.drive
  BY <1>1, Ready
<1>3. done \in Nat /\ Len(call.buffer) \in Nat
  BY <1>1, InTheCall DEF Calling
<1>4. done + 1 \in 1 .. Len(call.buffer)
  BY <1>1, <1>3
<1>5. IF unit[call.drive].st = "drq" /\ unit[call.drive].name = "read"
      THEN /\ SectorDone(call.drive)
           /\ call' = [call EXCEPT !.buffer[done + 1] = media[call.drive][unit[call.drive].at]]
      ELSE UNCHANGED <<call, unit>>
  BY <1>2 DEF ReadSector
<1>6. QED
  BY <1>1, <1>4, <1>5

LEMMA ReadSectorKeeps == ASSUME IdeInv, ReadSector PROVE IdeInv'
<1>1. Called
  BY ReadCall, InTheCall DEF Calling
<1>2. call = [op |-> call.op, drive |-> call.drive, lba |-> call.lba, buffer |-> call.buffer]
  BY <1>1 DEF Called
<1>3. /\ call' = [op |-> call.op, drive |-> call.drive, lba |-> call.lba,
                  buffer |-> call'.buffer]
      /\ Sequence(call'.buffer) /\ Len(call'.buffer) = Len(call.buffer)
  <2>1. CASE UNCHANGED call
    BY <1>1, <1>2, <2>1 DEF Called
  <2>2. ASSUME NEW v, call' = [call EXCEPT !.buffer[done + 1] = v]
        PROVE  /\ call' = [op |-> call.op, drive |-> call.drive, lba |-> call.lba,
                           buffer |-> call'.buffer]
               /\ Sequence(call'.buffer) /\ Len(call'.buffer) = Len(call.buffer)
    <3>1. /\ call' = [op |-> call.op, drive |-> call.drive, lba |-> call.lba,
                      buffer |-> call'.buffer]
          /\ call'.buffer = [call.buffer EXCEPT ![done + 1] = v]
      BY <1>2, <2>2
    <3>2. Sequence(call.buffer) /\ done + 1 \in 1 .. Len(call.buffer)
      BY <1>1, ReadCall DEF Called
    <3>3. QED
      BY <3>1, <3>2, Updated
  <2>3. QED
    BY <2>1, <2>2, ReadCall
<1>4. LET u == unit[call.drive]
      IN  IF u.st = "drq" /\ u.name = call.op THEN SectorDone(call.drive)
          ELSE UNCHANGED <<unit, media>>
  BY ReadCall DEF ReadSector
<1>5. /\ UNCHANGED <<hardware, drives, pc, slot, task, hasty>> /\ trouble' = trouble
      /\ done' = done + 1
  BY DEF ReadSector
<1>6. QED
  BY <1>3, <1>4, <1>5, ReadCall, SectorStep

\* What a step that writes a sector does to the drive.
LEMMA WriteCall ==
  ASSUME IdeInv, WriteSector
  PROVE  /\ pc = "transfer" /\ call.op = "write" /\ done < Len(call.buffer) /\ MayTransfer
         /\ done + 1 \in 1 .. Len(call.buffer)
         /\ IF unit[call.drive].st = "drq" /\ unit[call.drive].name = call.op
            THEN /\ SectorDone(call.drive)
                 /\ media' = [media EXCEPT ![call.drive][unit[call.drive].at] =
                               call.buffer[done + 1]]
            ELSE UNCHANGED <<media, unit>>
<1>1. pc = "transfer" /\ call.op = "write" /\ done < Len(call.buffer) /\ MayTransfer
  BY DEF WriteSector
<1>2. Selected(Channel) = call.drive
  BY <1>1, Ready
<1>3. done \in Nat /\ Len(call.buffer) \in Nat
  BY <1>1, InTheCall DEF Calling
<1>4. done + 1 \in 1 .. Len(call.buffer)
  BY <1>1, <1>3
<1>5. IF unit[call.drive].st = "drq" /\ unit[call.drive].name = "write"
      THEN /\ SectorDone(call.drive)
           /\ media' = [media EXCEPT ![call.drive][unit[call.drive].at] = call.buffer[done + 1]]
      ELSE UNCHANGED <<media, unit>>
  BY <1>2 DEF WriteSector
<1>6. QED
  BY <1>1, <1>4, <1>5

LEMMA WriteSectorKeeps == ASSUME IdeInv, WriteSector PROVE IdeInv'
<1>1. Called
  BY WriteCall, InTheCall DEF Calling
<1>2. /\ UNCHANGED <<hardware, drives, pc, slot, task, hasty>> /\ trouble' = trouble
      /\ done' = done + 1 /\ call' = call
  BY DEF WriteSector
<1>3. /\ call' = [op |-> call.op, drive |-> call.drive, lba |-> call.lba,
                  buffer |-> call'.buffer]
      /\ Sequence(call'.buffer) /\ Len(call'.buffer) = Len(call.buffer)
  BY <1>1, <1>2 DEF Called
<1>4. LET u == unit[call.drive]
      IN  IF u.st = "drq" /\ u.name = call.op THEN SectorDone(call.drive)
          ELSE UNCHANGED <<unit, media>>
  BY WriteCall
<1>5. QED
  BY <1>2, <1>3, <1>4, WriteCall, SectorStep

\* A call that returns, with all drives at rest unless it was hasty.
LEMMA ReturnStep ==
  ASSUME IdeInv, pc \in Calling, Return, UNCHANGED <<hardware, drives, slot, task, unit, media>>,
         hasty' \in BOOLEAN, ~hasty' => unit[call.drive].st \in {"idle", "failed"}
  PROVE  IdeInv'
<1>1. call' = [op |-> "none"] /\ pc' = "ready" /\ done' = 0 /\ trouble' = FALSE
  BY DEF Return
<1>2. IdeType'
  BY <1>1, SameTask, SameUnit, SameType DEF IdeInv, IdeType
<1>3. Uncalled' /\ InCall'
  BY <1>1 DEF Uncalled, InCall, Calling
<1>4. Asking'
  <2>1. ~hasty' => \A p \in Positions : Resting(p)'
    BY InTheCall DEF Called, Resting
  <2>2. QED
    BY <1>1, <2>1 DEF Asking, Looking, Detecting
<1>5. QED
  BY <1>2, <1>3, <1>4 DEF IdeInv

LEMMA ReadReturnsKeeps == ASSUME IdeInv, ReadReturns PROVE IdeInv'
<1>1. /\ pc = "transfer" /\ pc \in Calling /\ call.op = "read" /\ done = Len(call.buffer)
      /\ Return /\ UNCHANGED <<hardware, drives, slot, task, unit, media>> /\ hasty' = hasty
  BY DEF ReadReturns, Transferred, Calling
<1>2. /\ Progress(unit[call.drive], Len(call.buffer))
      /\ trouble \in BOOLEAN /\ hasty \in BOOLEAN
  BY <1>1, InTheCall
<1>3. ~hasty' => unit[call.drive].st \in {"idle", "failed"}
  BY <1>1, <1>2 DEF Progress
<1>4. hasty' \in BOOLEAN
  BY <1>1, <1>2
<1>5. QED
  BY <1>1, <1>3, <1>4, ReturnStep

LEMMA WriteReturnsKeeps == ASSUME IdeInv, WriteReturns PROVE IdeInv'
<1>1. /\ pc = "flush" /\ pc \in Calling /\ FlushDone /\ Return
      /\ UNCHANGED <<hardware, drives, slot, task, unit, media>>
      /\ hasty' = (hasty \/ unit[Selected(Channel)].st = "taken")
  BY DEF WriteReturns, Asked, Calling
<1>2. /\ Progress(unit[call.drive], Len(call.buffer)) /\ Called
      /\ trouble \in BOOLEAN /\ hasty \in BOOLEAN
  BY <1>1, InTheCall
<1>3. Selected(Channel) = call.drive /\ Selected(Channel) \in Positions /\ UnitType
  BY <1>2 DEF Called, IdeInv, IdeType
<1>4. unit[call.drive].st # "busy"
  BY <1>1, <1>3, Status DEF FlushDone
<1>5. hasty' \in BOOLEAN
  BY <1>1, <1>2
<1>6. ~hasty' => unit[call.drive].st \in {"idle", "failed"}
  BY <1>1, <1>2, <1>3, <1>4 DEF Progress
<1>7. QED
  BY <1>1, <1>5, <1>6, ReturnStep

LEMMA FlushCacheKeeps == ASSUME IdeInv, FlushCache PROVE IdeInv'
<1>1. /\ pc = "transfer" /\ pc' = "flush" /\ pc \in Calling /\ pc' \in Calling
      /\ call.op = "write" /\ done = Len(call.buffer)
      /\ unit' = Obeys(Selected(Channel), Command("flush", 0, 0))
      /\ UNCHANGED <<hardware, drives, slot, task>> /\ call' = call /\ done' = done
      /\ trouble' = trouble /\ hasty' = hasty /\ media' = media
  BY DEF FlushCache, Transferred, Calling, transfer
<1> DEFINE u == unit[call.drive]
           length == Len(call.buffer)
<1>2. /\ Called /\ Progress(u, length) /\ length \in Nat /\ done \in Nat
      /\ u.st # "absent" /\ trouble \in BOOLEAN /\ hasty \in BOOLEAN
      /\ call.drive \in Positions /\ u \in Unit
  BY <1>1, InTheCall
<1>3. Selected(Channel) = call.drive /\ length # 0
  BY <1>1, <1>2 DEF Called
<1>4. UnitType
  BY DEF IdeInv, IdeType
<1>5. PICK w \in Unit : /\ w = Command("flush", 0, 0) /\ w.st = "taken"
                        /\ w.name = "flush" /\ w.left = 0
  BY CommandType
<1>6. PICK v : v = unit'[call.drive]
  OBVIOUS
<1>7. /\ UnitType' /\ \A q \in Positions : q # call.drive => unit'[q] = unit[q]
      /\ u.st \in {"busy", "taken"} => v = u
      /\ u.st \notin {"busy", "taken"} => v = w
  <2>1. CASE u.st \in {"busy", "taken"}
    <3>1. unit' = unit
      BY <1>1, <1>3, <2>1 DEF Obeys
    <3>2. QED
      <4>1. UNCHANGED <<hardware, unit>>
        BY <1>1, <3>1
      <4>2. QED
        BY <1>4, <1>6, <2>1, <3>1, <4>1, SameUnit
  <2>2. CASE u.st \notin {"busy", "taken"}
    <3>1. unit' = [unit EXCEPT ![call.drive] = w]
      BY <1>1, <1>2, <1>3, <1>5, <2>2 DEF Obeys
    <3>2. QED
      <4>1. UNCHANGED hardware /\ w.st # "absent"
        BY <1>1, <1>5
      <4>2. QED
        BY <1>2, <1>4, <1>6, <2>2, <3>1, <4>1, UnitChange
  <2>3. QED
    BY <2>1, <2>2
<1>8. Progress(unit[call.drive], Len(call.buffer))'
  <2>1. /\ hasty => trouble
        /\ u.st = "drq" => u.left # 0
        /\ u.st \in AtWork /\ u.name = "write" =>
             call.op = "write" /\ u.at + u.left = CallStart + length /\ CallStart <= u.at
        /\ trouble /\ ~hasty => u.st = "failed"
        /\ ~trouble => u.st = "idle" \/ (u.st = "busy" /\ u.left = 0)
    BY <1>1, <1>2, <1>3 DEF Progress
  <2> HIDE DEF u, length
  <2>2. /\ v.st = "drq" => v.left # 0
        /\ v.st \in AtWork /\ v.name = "write" =>
             call.op = "write" /\ v.at + v.left = CallStart + length /\ CallStart <= v.at
        /\ ~hasty => v.left = 0 /\ v.st \in {"taken", "busy"}
        /\ v.st # "drq"
    BY <1>2, <1>5, <1>7, <2>1
  <2>3. unit'[call'.drive] = v /\ Len(call'.buffer) = length /\ done' = length
    BY <1>1, <1>6 DEF length
  <2>4. QED
    <3>1. /\ call' = call /\ hasty' = hasty /\ trouble' = trouble /\ pc' = "flush"
          /\ done' = length /\ call.op = "write" /\ (hasty => trouble)
      BY <1>1, <2>1, <2>3
    <3>2. CallStart' = CallStart
      BY <1>1 DEF CallStart, Big, hardware
    <3>3. PICK n : n = length
      OBVIOUS
    <3>4. /\ n = Len(call'.buffer) /\ done' = n
          /\ v.st # "drq"
          /\ v.st \in AtWork /\ v.name = "write" =>
               call'.op = "write" /\ v.at + v.left = CallStart' + n /\ CallStart' <= v.at
          /\ ~hasty' => v.left = 0 /\ v.st \in {"taken", "busy"}
      BY <2>2, <2>3, <3>1, <3>2, <3>3
    <3>5. Progress(v, n)'
      <4>1. /\ pc' = "flush" /\ pc' \notin {"wait", "transfer"}
            /\ (hasty' => trouble') /\ call'.op = "write"
        BY <3>1
      <4>2. QED
        BY <3>4, <4>1, Zenon DEF Progress
    <3>6. QED
      BY <2>3, <3>4, <3>5
<1>9. QED
  <2>1. unit'[call.drive].st # "absent"
    BY <1>2, <1>5, <1>6, <1>7
  <2>2. /\ call' = [op |-> call.op, drive |-> call.drive, lba |-> call.lba,
                    buffer |-> call'.buffer]
        /\ Sequence(call'.buffer) /\ Len(call'.buffer) = Len(call.buffer)
        /\ done' \in 0 .. Len(call.buffer)
    BY <1>1, <1>2 DEF Called
  <2>3. trouble' \in BOOLEAN /\ hasty' \in BOOLEAN
    BY <1>1, <1>2
  <2>4. QED
    BY <1>1, <1>7, <1>8, <2>1, <2>2, <2>3, CallStep

LEMMA Stutters == ASSUME IdeInv, UNCHANGED ideVars PROVE IdeInv'
<1>1. UNCHANGED <<hardware, drives, pc, slot, task, unit, media, call, done, hasty>>
      /\ trouble' = trouble
  BY DEF ideVars, transfer
<1>2. IdeType'
  <2>1. TaskType' /\ UnitType' /\ DrivesType'
    BY <1>1, SameTask, SameUnit, SameEntries DEF IdeInv, IdeType
  <2>2. QED
    BY <1>1, <2>1 DEF IdeInv, IdeType, hardware
<1>3. Uncalled'
  BY <1>1 DEF IdeInv, Uncalled
<1>4. \A ch : Answers(ch)' <=> Answers(ch)
  BY <1>1, SameAnswers
<1>5. Asking'
  <2>1. /\ Here' = Here /\ channel' = channel /\ Selected(channel)' = Selected(channel)
        /\ Answers(channel)' <=> Answers(channel)
    BY <1>1, <1>4 DEF Here, channel, drive, Selected
  <2>2. Asking
    BY DEF IdeInv
  <2>3. QED
    BY <1>1, <2>1, <2>2 DEF Asking, Resting
<1>6. InCall'
  <2>1. SUFFICES ASSUME pc \in Calling
                 PROVE  (Called /\ Progress(unit[call.drive], Len(call.buffer)))'
    BY <1>1 DEF InCall
  <2>2. Called /\ Progress(unit[call.drive], Len(call.buffer))
    BY <2>1, InTheCall
  <2>3. Channel' = Channel /\ Selected(Channel)' = Selected(Channel)
    BY <1>1 DEF Channel, Selected
  <2>4. Answers(Channel)' <=> Answers(Channel)
    BY <1>4, <2>3
  <2>5. Called'
    BY <1>1, <2>2, <2>3, <2>4 DEF Called, Resting, Sequence
  <2>6. PICK u : u = unit[call.drive]
    OBVIOUS
  <2>7. Progress(u, Len(call.buffer))'
    BY <1>1, <2>2, <2>6, SameProgress
  <2>8. unit'[call'.drive] = u
    BY <1>1, <2>6
  <2>9. QED
    BY <2>5, <2>7, <2>8
<1>7. QED
  BY <1>2, <1>3, <1>5, <1>6 DEF IdeInv

LEMMA StepKeeps == ASSUME IdeInv, [IdeNext]_ideVars PROVE IdeInv'
<1>1. CASE Driver
  BY <1>1, SetupKeeps, SendIdentifyKeeps, CheckPresentKeeps, WaitNotBusyKeeps, NotAtaKeeps,
     AddDriveKeeps, DetectedKeeps, SleepKeeps, ReadSectorKeeps, ReadReturnsKeeps,
     WriteSectorKeeps, FlushCacheKeeps, WriteReturnsKeeps, Zenon DEF Driver
<1>2. CASE Drive
  BY <1>2, TakeCommandKeeps, WorkKeeps, FailKeeps, Zenon DEF Drive
<1>3. CASE Caller
  BY <1>3, Stutters, CallKeeps, CallWithoutLbaKeeps, Zenon DEF Caller, CallForNothing
<1>4. CASE UNCHANGED ideVars
  BY <1>4, Stutters
<1>5. QED
  BY <1>1, <1>2, <1>3, <1>4 DEF IdeNext

\* The invariant holds in every reachable state.
LEMMA IdeInvariant == IdeSpec => []IdeInv
<1>1. IdeInit => IdeInv
  BY InvInit
<1>2. IdeInv /\ [IdeNext]_ideVars => IdeInv'
  BY StepKeeps
<1>3. QED
  BY <1>1, <1>2, PTL DEF IdeSpec

\* IDE driver: between two calls, no drive is at work, unless the driver has turned away
\* from one (WriteReturns): the next command is not missed.
THEOREM DrivesWaitForCommands == IdeSpec => []IdleBetweenCalls
<1>1. IdeInv => IdleBetweenCalls
  <2>1. SUFFICES ASSUME IdeInv, pc = "ready", ~hasty, NEW p \in Positions
                 PROVE  unit[p].st \in {"absent", "idle", "failed"}
    BY Zenon DEF IdleBetweenCalls
  <2>2. QED
    BY <2>1 DEF IdeInv, Asking, Resting
<1>2. QED
  BY <1>1, IdeInvariant, PTL

-----------------------------------------------------------------------------
(* Refinement *)

LEMMA SameStarts ==
  ASSUME machine' = machine PROVE Starts' = Starts
<1>1. ASSUME NEW op, NEW p PROVE Reach(op, p)' = Reach(op, p)
  BY DEF Reach
<1>2. QED
  BY <1>1, Zenon DEF Starts

\* Where a call starts is where the abstract disk expects it.
LEMMA FirstSector ==
  ASSUME Called
  PROVE  Starts[call.op][call.drive][call.lba] = CallStart
<1>1. Starts[call.op][call.drive][call.lba] = call.lba % Reach(call.op, call.drive)
  BY DEF Called, Starts
<1>2. Reach(call.op, call.drive)
        = IF Big(call.drive) THEN IF call.op = "write" THEN Reach48 ELSE Reach3 ELSE Reach28
  BY DEF Reach, Big
<1>3. QED
  BY <1>1, <1>2 DEF CallStart, StartOf

LEMMA Unmoved ==
  ASSUME UNCHANGED <<media, call, done>>, trouble' = trouble, machine' = machine
  PROVE  UNCHANGED Sectors!vars
BY SameStarts DEF Sectors!vars

LEMMA FailSteps ==
  ASSUME IdeInv, UNCHANGED <<media, call, done>>, machine' = machine,
         trouble' = trouble \/ (trouble' = TRUE /\ call.op # "none")
  PROVE  Sectors!Fail \/ UNCHANGED Sectors!vars
<1>1. CASE trouble' = trouble
  BY <1>1, Unmoved
<1>2. CASE trouble' = TRUE /\ call.op # "none"
  <2>1. call # [op |-> "none"]
    BY <1>2
  <2>2. QED
    BY <1>2, <2>1, SameStarts DEF Sectors!Fail, Sectors!Idle
<1>3. QED
  BY <1>1, <1>2

LEMMA ReadSteps == ASSUME IdeInv, ReadSector PROVE Sectors!ReadSector
<1> DEFINE u == unit[call.drive]
           k == done + 1
<1>1. /\ pc = "transfer" /\ call.op = "read" /\ done < Len(call.buffer) /\ MayTransfer
      /\ k \in 1 .. Len(call.buffer)
      /\ IF u.st = "drq" /\ u.name = call.op
         THEN call' = [call EXCEPT !.buffer[k] = media[call.drive][u.at]]
         ELSE call' = call
  BY ReadCall
<1>2. Called /\ trouble \in BOOLEAN
  BY <1>1, InTheCall DEF Calling
<1>3. ~trouble => u.st = "drq" /\ InStep(u, Len(call.buffer))
  BY <1>1, Ready
<1>4. PICK S : call.buffer \in Seq(S)
  BY <1>2 DEF Called, Sequence
<1>5. call.buffer = [i \in 1 .. Len(call.buffer) |-> call.buffer[i]]
  BY <1>4
<1>6. call = [op |-> call.op, drive |-> call.drive, lba |-> call.lba, buffer |-> call.buffer]
  BY <1>2 DEF Called
<1> HIDE DEF k
<1>7. ASSUME NEW v, call' = [call EXCEPT !.buffer[k] = v]
      PROVE  call'.buffer[k] = v /\ call' = [call EXCEPT !.buffer[k] = call'.buffer[k]]
  BY <1>1, <1>5, <1>6, <1>7
<1>8. call' = [call EXCEPT !.buffer[k] = call'.buffer[k]]
  <2>1. CASE u.st = "drq" /\ u.name = call.op
    BY <1>1, <1>7, <2>1
  <2>2. CASE ~(u.st = "drq" /\ u.name = call.op)
    <3>1. call' = call
      BY <1>1, <2>2
    <3>2. call.buffer = [call.buffer EXCEPT ![k] = call.buffer[k]]
      BY <1>1, <1>5
    <3>3. call = [call EXCEPT !.buffer[k] = call.buffer[k]]
      BY <1>6, <3>2
    <3>4. QED
      BY <3>1, <3>3
  <2>3. QED
    BY <2>1, <2>2
<1>9. ~trouble =>
        /\ Sectors!Sector \in DOMAIN media[call.drive]
        /\ call'.buffer[k] = media[call.drive][Sectors!Sector]
  <2>1. SUFFICES ASSUME ~trouble
                 PROVE  /\ Sectors!Sector \in DOMAIN media[call.drive]
                        /\ call'.buffer[k] = media[call.drive][Sectors!Sector]
    OBVIOUS
  <2>2. u.at = Sectors!Sector /\ u.st = "drq" /\ u.name = call.op
    BY <1>2, <1>3, <2>1, FirstSector DEF InStep, Sectors!Sector, Sectors!First
  <2>3. u.at \in DOMAIN media[call.drive]
    BY <1>1, <2>2, Ready
  <2>4. call' = [call EXCEPT !.buffer[k] = media[call.drive][u.at]]
    BY <1>1, <2>2
  <2>5. call'.buffer[k] = media[call.drive][u.at]
    BY <1>7, <2>4
  <2>6. QED
    BY <2>2, <2>3, <2>5
<1>10. /\ done' = done + 1 /\ media' = media /\ trouble' = trouble
       /\ Starts' = Starts
  BY SameStarts DEF ReadSector, hardware
<1>11. QED
  BY <1>1, <1>8, <1>9, <1>10 DEF Sectors!ReadSector, Sectors!Existing, k

LEMMA WriteSteps == ASSUME IdeInv, WriteSector PROVE Sectors!WriteSector
<1> DEFINE u == unit[call.drive]
           k == done + 1
<1>1. /\ pc = "transfer" /\ call.op = "write" /\ done < Len(call.buffer) /\ MayTransfer
      /\ k \in 1 .. Len(call.buffer)
      /\ IF u.st = "drq" /\ u.name = call.op
         THEN media' = [media EXCEPT ![call.drive][u.at] = call.buffer[k]]
         ELSE media' = media
  BY WriteCall
<1>2. /\ Called /\ Progress(u, Len(call.buffer)) /\ trouble \in BOOLEAN /\ u \in Unit
      /\ Len(call.buffer) \in Nat
  BY <1>1, InTheCall DEF Calling
<1>3. /\ ~trouble => u.st = "drq" /\ InStep(u, Len(call.buffer))
      /\ u.st = "drq" => u.left # 0
      /\ u.st = "drq" /\ u.name = call.op => u.at \in DOMAIN media[call.drive]
  BY <1>1, Ready
<1>4. DOMAIN call.buffer = 1 .. Len(call.buffer)
  BY <1>2 DEF Called, Sequence
<1>5. /\ done' = done + 1 /\ call' = call /\ trouble' = trouble
      /\ Starts' = Starts
  BY SameStarts DEF WriteSector, hardware
<1>6. CASE u.st = "drq" /\ u.name = call.op
  <2>1. Sectors!Put(u.at, k)
    BY <1>1, <1>6 DEF Sectors!Put
  <2>2. Sectors!First = CallStart
    BY <1>2, FirstSector DEF Sectors!First
  <2>3. ~trouble => u.at = Sectors!Sector
    BY <1>3, <2>2 DEF InStep, Sectors!Sector
  <2>4. u.at \in Sectors!Window
    <3>1. u.at + u.left = CallStart + Len(call.buffer) /\ CallStart <= u.at
      BY <1>1, <1>2, <1>6 DEF Progress, AtWork
    <3>2. u.at \in Nat /\ u.left \in Nat /\ CallStart \in Nat
      <4>1. call.lba \in Nat
        BY <1>2 DEF Called
      <4>2. QED
        BY <1>2, <4>1, StartType DEF Unit, CallStart
    <3>3. u.at \in CallStart .. CallStart + Len(call.buffer) - 1
      <4>1. PICK x, y, m, n : x = u.at /\ y = u.left /\ m = CallStart /\ n = Len(call.buffer)
        OBVIOUS
      <4>2. x \in Nat /\ y \in Nat \ {0} /\ m \in Nat /\ n \in Nat /\ x + y = m + n /\ m <= x
        BY <1>2, <1>3, <1>6, <3>1, <3>2, <4>1
      <4>3. x \in m .. m + n - 1
        BY <4>2
      <4>4. QED
        BY <4>1, <4>3
    <3>4. QED
      BY <1>3, <1>6, <2>2, <3>3 DEF Sectors!Window, Sectors!Existing
  <2>5. ~trouble => Sectors!Sector \in Sectors!Existing /\ Sectors!Put(Sectors!Sector, k)
    BY <1>3, <1>6, <2>1, <2>3 DEF Sectors!Existing
  <2>6. \E s \in Sectors!Window, i \in DOMAIN call.buffer : Sectors!Put(s, i)
    BY <1>1, <1>4, <2>1, <2>4
  <2>7. QED
    BY <1>1, <1>2, <1>5, <2>5, <2>6 DEF Sectors!WriteSector
<1>7. CASE ~(u.st = "drq" /\ u.name = call.op)
  <2>1. trouble /\ media' = media
    BY <1>1, <1>2, <1>3, <1>7 DEF InStep
  <2>2. QED
    BY <1>1, <1>5, <2>1 DEF Sectors!WriteSector
<1>8. QED
  BY <1>6, <1>7

LEMMA ReturnSteps ==
  ASSUME IdeInv, Return, pc \in Calling, done = Len(call.buffer), UNCHANGED <<hardware, media>>
  PROVE  Sectors!Return
<1>1. call.op # "none"
  BY InTheCall
<1>2. call # [op |-> "none"]
  BY <1>1
<1>3. Starts' = Starts
  BY SameStarts DEF hardware
<1>4. QED
  BY <1>2, <1>3 DEF Return, Sectors!Return, Sectors!Idle

LEMMA StepRefines ==
  ASSUME IdeInv, [IdeNext]_ideVars
  PROVE  [Sectors!Next]_(Sectors!vars)
<1>1. CASE \/ Setup \/ SendIdentify \/ CheckPresent \/ WaitNotBusy \/ NotAta \/ AddDrive
           \/ Detected \/ FlushCache \/ UNCHANGED ideVars
           \/ (\E p \in Positions : TakeCommand(p) \/ Work(p))
           \/ (\E i \in DOMAIN drives : CallWithoutLba(drives[i])) \/ CallForNothing
  <2>1. UNCHANGED <<media, call, done>> /\ trouble' = trouble /\ machine' = machine
    BY <1>1 DEF Setup, SendIdentify, CheckPresent, WaitNotBusy, NotAta, AddDrive, Detected,
                FlushCache, ideVars, TakeCommand, Work, CallWithoutLba, CallForNothing,
                hardware, transfer
  <2>2. QED
    BY <2>1, Unmoved
<1>2. CASE \E p \in Positions : Fail(p)
  <2>1. /\ UNCHANGED <<media, call, done>> /\ machine' = machine
        /\ trouble' = (trouble \/ call.op # "none")
    BY <1>2 DEF Fail, hardware
  <2>2. trouble \in BOOLEAN
    BY DEF IdeInv, IdeType
  <2>3. trouble' = trouble \/ (trouble' = TRUE /\ call.op # "none")
    BY <2>1, <2>2
  <2>4. QED
    BY <2>1, <2>3, FailSteps DEF Sectors!Next
<1>3. CASE Sleep
  <2>1. /\ UNCHANGED <<media, call, done>> /\ machine' = machine /\ pc \in Calling
        /\ hasty' = (hasty \/ unit[call.drive].st = "taken")
        /\ trouble' = (trouble \/ hasty')
    BY <1>3 DEF Sleep, Asked, hardware, Calling
  <2>2. trouble \in BOOLEAN /\ hasty \in BOOLEAN /\ call.op # "none"
    BY <2>1, InTheCall
  <2>3. hasty' \in BOOLEAN
    BY <2>1, <2>2
  <2>4. trouble' = trouble \/ (trouble' = TRUE /\ call.op # "none")
    BY <2>1, <2>2, <2>3
  <2>5. QED
    BY <2>1, <2>4, FailSteps DEF Sectors!Next
<1>4. CASE ReadSector
  BY <1>4, ReadSteps DEF Sectors!Next
<1>5. CASE WriteSector
  BY <1>5, WriteSteps DEF Sectors!Next
<1>6. CASE ReadReturns
  <2>1. Return /\ pc \in Calling /\ done = Len(call.buffer) /\ UNCHANGED <<hardware, media>>
    BY <1>6 DEF ReadReturns, Transferred, Calling
  <2>2. QED
    BY <2>1, ReturnSteps DEF Sectors!Next
<1>7. CASE WriteReturns
  <2>1. Return /\ pc = "flush" /\ pc \in Calling /\ UNCHANGED <<hardware, media>>
    BY <1>7 DEF WriteReturns, Calling
  <2>2. done = Len(call.buffer)
    BY <2>1, InTheCall DEF Progress
  <2>3. QED
    BY <2>1, <2>2, ReturnSteps DEF Sectors!Next
<1>8. ASSUME NEW i \in DOMAIN drives, NEW lba \in Lbas, NEW buffer \in Contents,
             NEW op \in {"read", "write"}, Call(op, drives[i], lba, buffer)
      PROVE  Sectors!Begin
  <2>1. /\ pc = "ready" /\ UNCHANGED <<hardware, media, done>> /\ trouble' = trouble
        /\ call'.op = op
    BY <1>8 DEF Call
  <2>2. call = [op |-> "none"]
    BY <2>1 DEF IdeInv, Uncalled, Calling
  <2>3. call' # [op |-> "none"]
    BY <2>1
  <2>4. Starts' = Starts
    BY <2>1, SameStarts DEF hardware
  <2>5. QED
    BY <2>1, <2>2, <2>3, <2>4 DEF Sectors!Begin, Sectors!Idle
<1>9. CASE Caller
  BY <1>1, <1>8, <1>9, Zenon DEF Caller, Sectors!Next
<1>10. QED
  BY <1>1, <1>2, <1>3, <1>4, <1>5, <1>6, <1>7, <1>9, Zenon DEF IdeNext, Driver, Drive

\* IDE driver: whatever the two drives of a channel leave in its registers, a call that
\* meets no trouble reads or writes existing sectors of its own drive, one after the
\* other, from the one it names, taken modulo what its command can tell apart: a read
\* names the last three digits of the address only.  In a call that fails, or reaches
\* beyond the end of the drive, what is written stays within the sectors of the call.
THEOREM CallsReachTheirSectors == IdeSpec => ImplementsDisk
<1>1. IdeInit => Sectors!Init
  BY DEF IdeInit, Sectors!Init, Sectors!Idle
<1>2. IdeInv /\ [IdeNext]_ideVars => [Sectors!Next]_(Sectors!vars)
  BY StepRefines
<1>3. QED
  BY <1>1, <1>2, IdeInvariant, PTL DEF IdeSpec, ImplementsDisk, Sectors!Spec

-----------------------------------------------------------------------------
(* The devices on the buses *)

\* A set of numbers that is not empty has a least element.
LEMMA Smallest ==
    ASSUME NEW T \in SUBSET Nat, T # {}
    PROVE  \E m \in T : \A n \in T : m <= n
<1> DEFINE R == OpToRel(<, Nat)
<1>1. IsWellFoundedOn(R, Nat)
  BY NatLessThanWellFounded
<1>2. \A a, b \in Nat : (<<a, b>> \in R) = (a < b)
  BY DEF OpToRel
<1> HIDE DEF R
<1>3. PICK m \in T : \A n \in T : <<n, m>> \notin R
  BY <1>1, WFMin
<1>4. ASSUME NEW n \in T PROVE m <= n
  <2>1. m \in Nat /\ n \in Nat /\ ~ (n < m)
    BY <1>2, <1>3
  <2>2. QED
    BY <2>1
<1>5. QED
  BY <1>4

-----------------------------------------------------------------------------
(* Turns of a loop *)

\* What holds before a loop and is carried on by each of its turns holds after every
\* turn: turn n leads from a state in S[n - 1] to one in S[n].
LEMMA TurnsKept ==
    ASSUME NEW N \in Nat, NEW f, NEW S, f[0] \in S[0],
           \A n \in 1 .. N : f[n - 1] \in S[n - 1] => f[n] \in S[n]
    PROVE  \A n \in 0 .. N : f[n] \in S[n]
<1> DEFINE T == {n \in 0 .. N : f[n] \notin S[n]}
<1>1. SUFFICES ASSUME T # {} PROVE FALSE
  OBVIOUS
<1>2. PICK m \in T : \A n \in T : m <= n
  <2>1. T \in SUBSET Nat
    OBVIOUS
  <2> HIDE DEF T
  <2>2. QED
    BY <1>1, <2>1, Smallest
<1>3. m \in 0 .. N /\ f[m] \notin S[m]
  OBVIOUS
<1>4. m \in 1 .. N
  BY <1>3
<1>5. f[m - 1] \in S[m - 1]
  <2>1. m - 1 \in 0 .. N /\ ~ (m <= m - 1)
    BY <1>4
  <2>2. m - 1 \notin T
    BY <1>2, <2>1
  <2>3. QED
    BY <2>1, <2>2
<1>6. QED
  BY <1>3, <1>4, <1>5

Carries(N, F, S) == \A n \in 1 .. N : \A t \in S[n - 1] : F[n][t] \in S[n]

\* f[n] is where turn n of a loop from s leads, turn n doing F[n].
Runs(f, N, F, s) == f = [n \in 0 .. N |-> IF n = 0 THEN s ELSE F[n][f[n - 1]]]

\* A loop exists for every number of turns, if each is defined where the last one
\* ends.
LEMMA TurnsExist ==
    ASSUME NEW N \in Nat, NEW F, NEW S, NEW s \in S[0], Carries(N, F, S)
    PROVE  \E f : Runs(f, N, F, s) /\ \A n \in 0 .. N : f[n] \in S[n]
<1> DEFINE Is(f, k) == f = [n \in 0 .. k |-> IF n = 0 THEN s ELSE F[n][f[n - 1]]]
           T == {k \in Nat : \A f : ~ Is(f, k)}
<1>1. ASSUME T # {} PROVE FALSE
  <2>1. PICK k \in T : \A j \in T : k <= j
    BY <1>1, Smallest
  <2>2. CASE k = 0
    <3> DEFINE f == [n \in 0 .. 0 |-> s]
    <3>1. Is(f, 0)
      OBVIOUS
    <3>2. QED
      BY <2>2, <3>1
  <2>3. CASE k # 0
    <3>1. k - 1 \in Nat /\ k - 1 \notin T
      <4>1. k \in Nat
        BY <2>1
      <4> HIDE DEF T
      <4>2. QED
        BY <2>1, <2>3, <4>1
    <3>2. PICK g : Is(g, k - 1)
      <4> HIDE DEF Is
      <4>1. QED
        BY <3>1
    <3> DEFINE f == [n \in 0 .. k |-> IF n = 0 THEN s ELSE F[n][g[n - 1]]]
    <3>3. \A n \in 0 .. k - 1 : f[n] = g[n]
      BY <3>1, <3>2
    <3>4. \A n \in 0 .. k : n # 0 => n - 1 \in 0 .. k - 1
      BY <3>1
    <3> HIDE DEF Is
    <3>5. f = [n \in 0 .. k |-> IF n = 0 THEN s ELSE F[n][f[n - 1]]]
      BY <3>3, <3>4
    <3>6. Is(f, k)
      BY <3>5 DEF Is
    <3>7. QED
      BY <2>1, <3>6
  <2>4. QED
    BY <2>2, <2>3
<1>2. N \notin T
  BY <1>1
<1>3. PICK f : Is(f, N)
  BY <1>2
<1>4. f[0] = s /\ \A n \in 1 .. N : f[n] = F[n][f[n - 1]]
  <2>1. 0 \in 0 .. N /\ \A n \in 1 .. N : n \in 0 .. N /\ n # 0
    OBVIOUS
  <2>2. QED
    BY <1>3, <2>1
<1>5. \A n \in 1 .. N : f[n - 1] \in S[n - 1] => f[n] \in S[n]
  BY <1>4 DEF Carries
<1>6. \A n \in 0 .. N : f[n] \in S[n]
  BY <1>4, <1>5, TurnsKept
<1>7. QED
  BY <1>3, <1>6 DEF Runs

-----------------------------------------------------------------------------
(* The scan of the buses *)

\* Multiples are at least one factor apart.
LEMMA Multiple ==
    ASSUME NEW b \in Nat \ {0}, NEW q \in Nat, NEW p \in Nat, q < p
    PROVE  b * q + b <= b * p
<1>1. PICK k \in Nat : p = q + 1 + k
  <2>1. p - q - 1 \in Nat /\ p = q + 1 + (p - q - 1)
    OBVIOUS
  <2>2. QED
    BY <2>1
<1>2. b * p = b * q + b + b * k
  BY <1>1, Z3
<1>3. b * k \in Nat /\ b * q \in Nat
  BY <1>1, Z3
<1>4. QED
  BY <1>2, <1>3

LEMMA QuotientOf ==
    ASSUME NEW b \in Nat \ {0}, NEW q \in Nat, NEW r \in 0 .. b - 1
    PROVE  b * q + r \in Nat /\ (b * q + r) \div b = q /\ (b * q + r) % b = r
<1>1. PICK x : x = b * q + r
  OBVIOUS
<1>2. x \in Nat
  BY <1>1, Z3
<1>3. QED
  BY <1>1, <1>2, DigitsUnique

\* A number below a * b has a first digit below a.
LEMMA QuotientBelow ==
    ASSUME NEW a \in Nat, NEW b \in Nat \ {0}, NEW x \in Nat, x < b * a
    PROVE  x \div b < a
<1>1. x \div b \in Nat /\ x % b \in 0 .. b - 1 /\ x = b * (x \div b) + (x % b)
  BY QuotientType, Zenon
<1>2. b * (x \div b) \in Nat /\ b * a \in Nat
  BY <1>1, Z3
<1>3. ~ (a < x \div b) /\ x \div b # a
  <2>1. a < x \div b => b * a + b <= b * (x \div b)
    BY <1>1, Multiple
  <2>2. QED
    BY <1>1, <1>2, <2>1
<1>4. QED
  BY <1>1, <1>3

LEMMA BelowProduct ==
    ASSUME NEW a \in Nat, NEW b \in Nat \ {0}, NEW q \in 0 .. a - 1, NEW r \in 0 .. b - 1
    PROVE  b * q + r < b * a
<1>1. b * q + b <= b * a
  BY Multiple
<1>2. b * q \in Nat /\ b * a \in Nat
  BY Z3
<1>3. QED
  BY <1>1, <1>2

LEMMA TurnsAre ==
  /\ Buses \in Nat /\ Devices \in Nat \ {0} /\ Functions \in Nat \ {0}
  /\ Devices * Buses \in Nat
  /\ Turns \in Nat /\ Turns = Functions * (Devices * Buses)
<1>1. Buses \in Nat /\ Devices \in Nat \ {0} /\ Functions \in Nat \ {0}
  BY CountsAssumption
<1>2. Devices * Buses \in Nat /\ Devices * Buses = Buses * Devices
  BY <1>1, Z3
<1>3. \A k \in Nat : k * Functions \in Nat /\ k * Functions = Functions * k
  BY <1>1, Z3
<1>4. QED
  BY <1>1, <1>2, <1>3 DEF Turns

\* Every turn of the loops looks at a function,
LEMMA NthIsFunction ==
    ASSUME NEW i \in 0 .. Turns - 1
    PROVE  Nth(i) \in PCIDevice
<1>1. /\ Devices \in Nat \ {0} /\ Functions \in Nat \ {0} /\ Buses \in Nat
      /\ Devices * Buses \in Nat /\ i \in Nat /\ i < Functions * (Devices * Buses)
  BY TurnsAre
<1>2. PICK j : j = i \div Functions
  OBVIOUS
<1>3. j \in Nat /\ j < Devices * Buses
  BY <1>1, <1>2, QuotientType, QuotientBelow
<1>4. j \div Devices \in Nat /\ j \div Devices < Buses /\ j % Devices \in 0 .. Devices - 1
  BY <1>1, <1>3, QuotientType, QuotientBelow
<1>5. i % Functions \in 0 .. Functions - 1
  BY <1>1, QuotientType
<1>6. j \div Devices \in 0 .. Buses - 1
  BY <1>1, <1>4
<1>7. Nth(i) = << j \div Devices, j % Devices, i % Functions >>
  BY <1>2 DEF Nth
<1>8. QED
  BY <1>4, <1>5, <1>6, <1>7 DEF PCIDevice

\* no two at the same,
LEMMA NthOnce ==
    ASSUME NEW i \in Nat, NEW j \in Nat, Nth(i) = Nth(j)
    PROVE  i = j
<1>1. Devices \in Nat \ {0} /\ Functions \in Nat \ {0}
  BY TurnsAre
<1>2. PICK x, y : x = i \div Functions /\ y = j \div Functions
  OBVIOUS
<1>3. /\ x \div Devices = y \div Devices /\ x % Devices = y % Devices
      /\ i % Functions = j % Functions
  BY <1>2 DEF Nth
<1>4. /\ x \in Nat /\ i = Functions * x + (i % Functions)
      /\ y \in Nat /\ j = Functions * y + (j % Functions)
  BY <1>1, <1>2, QuotientType, Zenon
<1>5. /\ x = Devices * (x \div Devices) + (x % Devices)
      /\ y = Devices * (y \div Devices) + (y % Devices)
  BY <1>1, <1>4, QuotientType, Zenon
<1>6. x = y
  <2>1. PICK q, r : q = x \div Devices /\ r = x % Devices
    OBVIOUS
  <2>2. x = Devices * q + r /\ y = Devices * q + r
    BY <1>3, <1>5, <2>1, Zenon
  <2>3. QED
    BY <2>2
<1>7. QED
  <2>1. PICK r : r = i % Functions
    OBVIOUS
  <2>2. i = Functions * x + r /\ j = Functions * x + r
    BY <1>3, <1>4, <1>6, <2>1, Zenon
  <2>3. QED
    BY <2>2

\* and none is left out.
LEMMA NthFinds ==
    ASSUME NEW d \in PCIDevice
    PROVE  \E i \in 0 .. Turns - 1 : Nth(i) = d
<1>1. /\ Devices \in Nat \ {0} /\ Functions \in Nat \ {0} /\ Buses \in Nat
      /\ Devices * Buses \in Nat /\ Turns = Functions * (Devices * Buses) /\ Turns \in Nat
  BY TurnsAre
<1>2. /\ d[1] \in 0 .. Buses - 1 /\ d[2] \in 0 .. Devices - 1 /\ d[3] \in 0 .. Functions - 1
      /\ d = <<d[1], d[2], d[3]>>
  BY DEF PCIDevice
<1>3. PICK x : x = Devices * d[1] + d[2]
  OBVIOUS
<1>4. /\ x \in Nat /\ x \div Devices = d[1] /\ x % Devices = d[2]
      /\ x < Devices * Buses
  <2>1. d[1] \in Nat
    BY <1>2
  <2>2. QED
    BY <1>1, <1>2, <1>3, <2>1, QuotientOf, BelowProduct
<1>5. PICK i : i = Functions * x + d[3]
  OBVIOUS
<1>6. /\ i \in Nat /\ i \div Functions = x /\ i % Functions = d[3]
      /\ i < Functions * (Devices * Buses)
  <2>1. x \in 0 .. (Devices * Buses) - 1
    BY <1>1, <1>4
  <2>2. QED
    BY <1>1, <1>2, <1>4, <1>5, <2>1, QuotientOf, BelowProduct
<1>7. Nth(i) = d
  BY <1>2, <1>4, <1>6 DEF Nth
<1>8. QED
  BY <1>1, <1>6, <1>7

\* The host bridge finds in an address the function it was made for,
LEMMA AddressedIsFunction ==
    ASSUME NEW d \in PCIDevice
    PROVE  Addressed(generate_pci_config_address(d, 0)) = d
<1>1. /\ d[1] \in Nat /\ d[2] \in 0 .. 31 /\ d[3] \in 0 .. 7 /\ d = <<d[1], d[2], d[3]>>
  BY CountsAssumption DEF PCIDevice
<1>2. PICK b, e, f : b = d[1] /\ e = d[2] /\ f = d[3]
  OBVIOUS
<1>3. b \in Nat /\ e \in 0 .. 31 /\ f \in 0 .. 7
  BY <1>1, <1>2
<1>4. PICK a : a = b * 65536 + e * 2048 + f * 256 + 0
  OBVIOUS
<1>5. a \div 65536 = b /\ (a \div 2048) % 32 = e /\ (a \div 256) % 8 = f
  <2>1. a \in Int
    BY <1>3, <1>4
  <2>2. b * 65536 <= a /\ a < (b + 1) * 65536
    BY <1>3, <1>4
  <2>3. a \div 65536 = b
    BY <1>3, <2>1, <2>2
  <2>4. PICK x : x = b * 32 + e
    OBVIOUS
  <2>5. x \in Int /\ x * 2048 <= a /\ a < (x + 1) * 2048
    BY <1>3, <1>4, <2>4
  <2>6. a \div 2048 = x
    BY <2>1, <2>5
  <2>7. x % 32 = e
    BY <1>3, <2>4
  <2>8. PICK y : y = b * 256 + e * 8 + f
    OBVIOUS
  <2>9. y \in Int /\ y * 256 <= a /\ a < (y + 1) * 256
    BY <1>3, <1>4, <2>8
  <2>10. a \div 256 = y
    BY <2>1, <2>9
  <2>11. y % 8 = f
    BY <1>3, <2>8
  <2>12. QED
    BY <2>3, <2>6, <2>7, <2>10, <2>11
<1>6. generate_pci_config_address(d, 0) = a
  BY <1>2, <1>4 DEF generate_pci_config_address
<1>7. QED
  BY <1>1, <1>2, <1>5, <1>6 DEF Addressed

\* so that the fields the driver reads are those of the function it asks for.
LEMMA ReadsFunction ==
    ASSUME NEW c, NEW d \in PCIDevice
    PROVE  pci_config_read_32_bits(c, d) = c[d]
  BY AddressedIsFunction DEF pci_config_read_32_bits

\* What the driver reports are the functions of the machine.
LEMMA ReportedIsFunction ==
    ASSUME NEW m \in Machines, NEW d \in PCIDevice
    PROVE  Reported(m.config, d) <=> d \in m.functions
<1> DEFINE first == <<d[1], d[2], 0>>
           Answers0(x) == m.config[x].vendor # PCI_VENDOR_ID_DEVICE_DOES_NOT_EXIST
<1>1. first \in PCIDevice /\ <<first[1], first[2], 0>> = first
  BY CountsAssumption DEF PCIDevice
<1>2. /\ device_exists(m.config, first) <=> Answers0(first)
      /\ device_exists(m.config, d) <=> Answers0(d)
      /\ has_multiple_functions(m.config, first) = m.config[first].multi
  BY <1>1, ReadsFunction DEF device_exists, has_multiple_functions
<1>3. IF d \in m.functions
      THEN Answers0(d) /\ first \in m.functions /\ (d = first \/ m.config[first].multi)
      ELSE Answers0(d) => first \in m.functions /\ ~m.config[first].multi
  BY BusAssumption
<1>4. first \in m.functions => Answers0(first)
  BY <1>1, BusAssumption
<1> HIDE DEF Answers0
<1>5. Reported(m.config, d) <=> /\ Answers0(first)
                                /\ d = first \/ m.config[first].multi
                                /\ Answers0(d)
  BY <1>2, Zenon DEF Reported
<1> HIDE DEF first
<1>6. QED
  BY <1>3, <1>4, <1>5, Zenon

\* Listed without repetitions of what the first n turns report.
Listed(c, n) ==
    {s \in Seq(PCIDevice) :
       /\ {s[i] : i \in DOMAIN s}
            = {d \in {Nth(k) : k \in 0 .. n - 1} : Reported(c, d)}
       /\ \A i, j \in DOMAIN s : s[i] = s[j] => i = j}

LEMMA ScanTurn ==
    ASSUME NEW c, NEW n \in 1 .. Turns, NEW s \in Listed(c, n - 1)
    PROVE  (IF Reported(c, Nth(n - 1)) THEN Append(s, Nth(n - 1)) ELSE s) \in Listed(c, n)
<1> DEFINE d == Nth(n - 1)
           Seen(k) == {Nth(i) : i \in 0 .. k - 1}
           Of(t) == {t[i] : i \in DOMAIN t}
<1>1. n - 1 \in 0 .. Turns - 1 /\ n - 1 \in Nat /\ n \in Nat
  BY TurnsAre
<1>2. d \in PCIDevice
  BY <1>1, NthIsFunction
<1>3. Seen(n) = Seen(n - 1) \cup {d}
  <2>1. \A i : i \in 0 .. n - 1 <=> i \in 0 .. (n - 1) - 1 \/ i = n - 1
    BY <1>1
  <2>2. QED
    BY <2>1
<1>4. d \notin Seen(n - 1)
  <2>1. \A i \in 0 .. (n - 1) - 1 : i \in Nat /\ i # n - 1
    BY <1>1
  <2>2. QED
    BY <1>1, <2>1, NthOnce
<1>5. /\ s \in Seq(PCIDevice)
      /\ Of(s) = {e \in Seen(n - 1) : Reported(c, e)}
      /\ \A i, j \in DOMAIN s : s[i] = s[j] => i = j
  BY DEF Listed
<1> HIDE DEF d, Seen
<1>6. CASE ~ Reported(c, d)
  <2>1. Of(s) = {e \in Seen(n) : Reported(c, e)}
    BY <1>3, <1>5, <1>6
  <2>2. QED
    BY <1>5, <1>6, <2>1 DEF Listed, Seen, d
<1>7. CASE Reported(c, d)
  <2>1. PICK t : t = Append(s, d)
    OBVIOUS
  <2>2. /\ t \in Seq(PCIDevice) /\ Len(s) \in Nat
        /\ DOMAIN s = 1 .. Len(s) /\ DOMAIN t = 1 .. Len(s) + 1
        /\ \A i \in 1 .. Len(s) : t[i] = s[i]
        /\ t[Len(s) + 1] = d
    BY <1>2, <1>5, <2>1
  <2>3. \A i : i \in DOMAIN t <=> i \in DOMAIN s \/ i = Len(s) + 1
    BY <2>2
  <2>4. Of(t) = Of(s) \cup {d}
    BY <2>2, <2>3
  <2>5. Of(t) = {e \in Seen(n) : Reported(c, e)}
    BY <1>3, <1>5, <1>7, <2>4
  <2>6. \A i \in DOMAIN s : s[i] # d
    BY <1>4, <1>5
  <2>7. \A i, j \in DOMAIN t : t[i] = t[j] => i = j
    BY <1>5, <2>2, <2>3, <2>6
  <2>8. t \in Listed(c, n)
    BY <2>2, <2>5, <2>7 DEF Listed, Seen
  <2>9. QED
    BY <1>7, <2>1, <2>8 DEF d
<1>8. QED
  BY <1>6, <1>7

LEMMA Scanned ==
    ASSUME NEW c
    PROVE  enumerate_devices(c) \in Listed(c, Turns)
<1> DEFINE S == [n \in 0 .. Turns |-> Listed(c, n)]
           Turn(n, s) == IF Reported(c, Nth(n - 1)) THEN Append(s, Nth(n - 1)) ELSE s
           F == [n \in 1 .. Turns |-> [s \in S[n - 1] |-> Turn(n, s)]]
           Loop(f) == f = [n \in 0 .. Turns |-> IF n = 0 THEN <<>> ELSE Turn(n, f[n - 1])]
           list == CHOOSE f : Loop(f)
<1>1. Turns \in Nat
  BY TurnsAre
<1>2. \A n \in 1 .. Turns : n - 1 \in 0 .. Turns /\ n \in 0 .. Turns
  BY <1>1
<1>3. <<>> \in S[0]
  <2>1. 0 .. 0 - 1 = {} /\ 0 \in 0 .. Turns
    BY <1>1
  <2>2. DOMAIN <<>> = {} /\ <<>> \in Seq(PCIDevice)
    OBVIOUS
  <2>3. QED
    BY <2>1, <2>2 DEF Listed
<1>4. ASSUME NEW n \in 1 .. Turns, NEW s \in S[n - 1]
      PROVE  F[n][s] = Turn(n, s) /\ F[n][s] \in S[n]
  <2>1. s \in Listed(c, n - 1)
    BY <1>2
  <2>2. Turn(n, s) \in Listed(c, n)
    BY <2>1, ScanTurn
  <2> HIDE DEF Turn
  <2>3. QED
    BY <1>2, <2>2
<1> HIDE DEF Turn
<1>5. Carries(Turns, F, S)
  <2> HIDE DEF F, S
  <2>1. QED
    BY <1>4 DEF Carries
<1>6. PICK f : Runs(f, Turns, F, <<>>) /\ \A n \in 0 .. Turns : f[n] \in S[n]
  <2> HIDE DEF F, S
  <2>1. QED
    BY <1>1, <1>3, <1>5, TurnsExist
<1>7. Loop(f)
  <2>1. f = [n \in 0 .. Turns |-> IF n = 0 THEN <<>> ELSE F[n][f[n - 1]]]
    BY <1>6 DEF Runs
  <2>2. \A n \in 0 .. Turns : n # 0 => n \in 1 .. Turns /\ n - 1 \in 0 .. Turns
    BY <1>1
  <2>3. \A n \in 0 .. Turns : n # 0 => F[n][f[n - 1]] = Turn(n, f[n - 1])
    BY <1>4, <1>6, <2>2
  <2> HIDE DEF F, S
  <2>4. QED
    BY <2>1, <2>3
<1>8. Loop(list)
  BY <1>7
<1>9. list = scanned(c)
  BY DEF scanned, Turn
<1> HIDE DEF list
<1>10. /\ list[0] = <<>>
       /\ \A n \in 1 .. Turns : list[n] = Turn(n, list[n - 1])
  <2>1. 0 \in 0 .. Turns /\ \A n \in 1 .. Turns : n \in 0 .. Turns /\ n # 0
    BY <1>1
  <2>2. QED
    BY <1>8, <2>1
<1>11. \A n \in 1 .. Turns : list[n - 1] \in S[n - 1] => list[n] \in S[n]
  <2> HIDE DEF F, S
  <2>1. QED
    BY <1>4, <1>10
<1>12. \A n \in 0 .. Turns : list[n] \in S[n]
  <2> HIDE DEF S
  <2>1. QED
    BY <1>1, <1>3, <1>10, <1>11, TurnsKept
<1>13. list[Turns] \in Listed(c, Turns)
  BY <1>1, <1>12
<1>14. QED
  BY <1>9, <1>13 DEF enumerate_devices

\* The list is that of the machine, each function once.
ListOf(list, functions) ==
    /\ {list[i] : i \in DOMAIN list} = functions
    /\ \A i, j \in DOMAIN list : list[i] = list[j] => i = j

LEMMA ScanFinds ==
    ASSUME NEW m \in Machines
    PROVE  ListOf(enumerate_devices(m.config), m.functions)
<1> DEFINE list == enumerate_devices(m.config)
           Seen == {Nth(k) : k \in 0 .. Turns - 1}
<1>1. /\ {list[i] : i \in DOMAIN list} = {d \in Seen : Reported(m.config, d)}
      /\ \A i, j \in DOMAIN list : list[i] = list[j] => i = j
  BY Scanned DEF Listed
<1>2. Seen = PCIDevice
  BY NthFinds, NthIsFunction
<1>3. {d \in PCIDevice : Reported(m.config, d)} = m.functions
  <2>1. m.functions \subseteq PCIDevice
    BY BusAssumption
  <2>2. QED
    BY <2>1, ReportedIsFunction
<1> HIDE DEF list, Seen
<1>4. QED
  BY <1>1, <1>2, <1>3 DEF ListOf, list

\* The list is made of the machine's configuration space as it is found, and kept.
ScanInv ==
    /\ machine \in Machines
    /\ IF pc = "off" THEN config = machine.config ELSE ListOf(devices, machine.functions)

\* PCI driver: whatever answers on the buses, the scan lists every function of the machine
\* once and no function of a device that only repeats its function 0 (enumerate_devices
\* and add_device), and the list stays what it is.
THEOREM EveryFunctionIsFound == IdeSpec => []FunctionsFoundOnce
<1>1. IdeInit => ScanInv
  BY DEF IdeInit, ScanInv
<1>2. ASSUME ScanInv, [IdeNext]_ideVars PROVE ScanInv'
  <2>1. CASE Setup
    <3>1. pc = "off" /\ machine' = machine /\ devices' = enumerate_devices(config)
      BY <2>1, Zenon DEF Setup
    <3>2. pc' \in {"identify", "none"}
      BY <2>1, Zenon DEF Setup
    <3>3. machine \in Machines /\ config = machine.config
      BY <1>2, <3>1 DEF ScanInv
    <3>4. ListOf(devices', machine.functions)
      BY <3>1, <3>3, ScanFinds
    <3>5. QED
      BY <3>1, <3>2, <3>3, <3>4 DEF ScanInv
  <2>2. ASSUME UNCHANGED hardware, (pc' # "off" /\ pc # "off") \/ pc' = pc
        PROVE  ScanInv'
    <3>1. machine' = machine /\ config' = config /\ devices' = devices
      BY <2>2, Zenon DEF hardware
    <3>2. (pc' = "off") = (pc = "off")
      BY <2>2
    <3>3. QED
      BY <1>2, <3>1, <3>2 DEF ScanInv, ListOf
  <2>3. ASSUME Driver, ~ Setup
        PROVE  UNCHANGED hardware /\ pc' # "off" /\ pc # "off"
    BY <2>3 DEF Driver, SendIdentify, CheckPresent, WaitNotBusy, NotAta, AddDrive, Detected,
       NextSlot, Sleep, ReadSector, ReadReturns, WriteSector, FlushCache, WriteReturns,
       Return, Transferred
  <2>4. ASSUME Drive PROVE UNCHANGED hardware /\ pc' = pc
    BY <2>4 DEF Drive, TakeCommand, Work, Fail
  <2>5. ASSUME Caller PROVE UNCHANGED hardware /\ pc' # "off" /\ pc # "off"
    BY <2>5 DEF Caller, Call, CallWithoutLba, CallForNothing, ideVars
  <2>6. ASSUME UNCHANGED ideVars PROVE UNCHANGED hardware /\ pc' = pc
    BY <2>6 DEF ideVars
  <2>7. QED
    BY <1>2, <2>1, <2>2, <2>3, <2>4, <2>5, <2>6, Zenon DEF IdeNext
<1>3. ScanInv => FunctionsFoundOnce
  BY DEF ScanInv, ListOf, FunctionsFoundOnce
<1>4. QED
  BY <1>1, <1>2, <1>3, PTL DEF IdeSpec
=============================================================================
