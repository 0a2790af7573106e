------------------------- MODULE PhysicalMgr_proofs -------------------------
(***************************************************************************)
(* The allocator of the physical memory manager is correct on every        *)
(* machine: any block and cell size, any memory map, any kernel image.     *)
(***************************************************************************)
EXTENDS PhysicalMgr, TLAPS

(***************************************************************************)
(* BitmapExact and ReservedNeverOwned carry each other: that a block found *)
(* free is not reserved follows from BitmapExact, and that freeing an      *)
(* owned block leaves the reserved bits alone from ReservedNeverOwned.     *)
(***************************************************************************)
IInv ==
    /\ TypeOK
    /\ BitmapExact
    /\ ReservedNeverOwned
    /\ running \/ owned = {}

-----------------------------------------------------------------------------
(* Arithmetic of blocks and cells *)

\* An address inside a block belongs to that block.
LEMMA InsideBlock ==
    ASSUME NEW b \in Nat, NEW offset \in 0 .. BLOCK_SIZE - 1
    PROVE  /\ AddressToBlock(BlockToAddress(b) + offset) = b
           /\ Aligned(BlockToAddress(b) + offset) <=> offset = 0
  BY SizesAssumption, Z3 DEF AddressToBlock, BlockToAddress, Aligned

\* Converting a block to its address and back gives the block.
LEMMA BlockRoundTrip ==
    ASSUME NEW b \in Nat
    PROVE  AddressToBlock(BlockToAddress(b)) = b
  BY SizesAssumption, Z3 DEF AddressToBlock, BlockToAddress

\* The highest bit of a cell belongs to its last block.
LEMMA SignBitIsLast ==
    ASSUME NEW b \in Nat, NEW c \in Nat,
           CellOf(c) = CellOf(b), BitOf(b) = CELL_BITS - 1
    PROVE  c <= b
  BY SizesAssumption, Z3 DEF CellOf, BitOf

-----------------------------------------------------------------------------
(* The scan of allocate_block *)

(***************************************************************************)
(* The block at which the scan stops really is free.  Bitmap::test reports *)
(* the sign bit of a cell as clear even when it is set; the test of the    *)
(* whole cell against 0xffffffff makes up for it, since an earlier bit of  *)
(* the same cell is then clear and stops the scan first.                   *)
(***************************************************************************)
LEMMA ScanStopsAtFreeBlock ==
    ASSUME TypeOK, NEW b \in Found, \A c \in Found : b <= c
    PROVE  b \in Blocks(machine) /\ bitmap[b] = FREE
<1>1. b \in Blocks(machine) /\ b \in Nat
  BY DEF Found, Blocks
<1>2. PICK c \in Blocks(machine) : CellOf(c) = CellOf(b) /\ bitmap[c] = FREE
  BY DEF Found, CellHasClearBit
<1>3. c \in Found /\ c \in Nat
  BY <1>2 DEF Found, CellHasClearBit, Test, USED, FREE, Blocks
<1>4. SUFFICES ASSUME bitmap[b] # FREE PROVE FALSE
  BY <1>1
<1>5. bitmap[b] = USED
  BY <1>1, <1>4 DEF TypeOK
<1>6. BitOf(b) = CELL_BITS - 1
  BY <1>5 DEF Found, Test
<1>7. c <= b
  BY <1>1, <1>2, <1>3, <1>6, SignBitIsLast
<1>8. b = c
  BY <1>1, <1>3, <1>7
<1> QED
  BY <1>2, <1>4, <1>8

\* The scan finds nothing only when every bit of the bitmap is set.
LEMMA ScanFindsFreeBlock ==
    ASSUME TypeOK, Found = {}, NEW b \in Blocks(machine)
    PROVE  bitmap[b] = USED
  BY DEF TypeOK, Found, CellHasClearBit, Test, USED, FREE

-----------------------------------------------------------------------------
(* The inductive invariant *)

LEMMA InitialBitmap ==
    ASSUME machine \in Machines, NEW b \in Blocks(machine)
    PROVE  FilledBitmap(machine, bitmap_addr)[b]
             = IF b \in Reserved THEN USED ELSE FREE
  BY DEF FilledBitmap, Marked, ClearedBitmap, Reserved

LEMMA InitialInvariant == Init => IInv
<1> SUFFICES ASSUME Init PROVE IInv
  OBVIOUS
<1>1. machine \in Machines /\ owned = {} /\ ret = NULL
  BY DEF Init
<1>2. machine \in Machine
  BY <1>1, MachinesAssumption
<1>3. CASE running = FALSE
  <2>1. /\ bitmap_addr = NULL
        /\ bitmap = [b \in Blocks(machine) |-> FREE]
    BY <1>3 DEF Init
  <2>2. TypeOK
    BY <1>1, <1>3, <2>1 DEF TypeOK, NULL
  <2>3. BitmapExact /\ ReservedNeverOwned
    BY <1>1, <1>3 DEF BitmapExact, ReservedNeverOwned
  <2> QED
    BY <1>1, <2>2, <2>3 DEF IInv
<1>4. CASE running = TRUE
  <2>1. PICK i \in FittingEntries(machine) : bitmap_addr = PlaceIn(machine, i)
    BY <1>4 DEF Init
  <2>2. machine.mmap[i] \in MapEntry /\ machine.kernelEnd \in Nat
    BY <1>2, <2>1 DEF Machine, FittingEntries
  <2>3. bitmap_addr \in Nat
    BY <2>1, <2>2 DEF PlaceIn, MapEntry
  <2>4. bitmap = FilledBitmap(machine, bitmap_addr)
    BY <1>4 DEF Init
  <2>5. bitmap \in [Blocks(machine) -> {USED, FREE}]
    BY <2>4, <1>1, InitialBitmap DEF FilledBitmap, Marked, ClearedBitmap
  <2>6. BitmapExact
    BY <1>1, <2>4, InitialBitmap DEF BitmapExact, USED, FREE
  <2> QED
    BY <1>1, <1>4, <2>3, <2>5, <2>6 DEF IInv, TypeOK, ReservedNeverOwned
<1> QED
  BY <1>3, <1>4 DEF Init

LEMMA InductiveStep == IInv /\ [Next]_vars => IInv'
<1> SUFFICES ASSUME IInv, [Next]_vars PROVE IInv'
  OBVIOUS
<1> USE DEF IInv
<1>1. CASE AllocateBlock
  <2>1. PICK b \in Found :
          /\ \A c \in Found : b <= c
          /\ bitmap' = [bitmap EXCEPT ![b] = USED]
          /\ owned' = owned \cup {b}
          /\ ret' = BlockToAddress(b)
    BY <1>1 DEF AllocateBlock
  <2>2. /\ running
        /\ UNCHANGED <<machine, running, bitmap_addr>>
    BY <1>1 DEF AllocateBlock
  <2>3. b \in Blocks(machine) /\ bitmap[b] = FREE
    BY <2>1, ScanStopsAtFreeBlock
  <2>4. b \notin Reserved
    BY <2>2, <2>3 DEF BitmapExact, USED, FREE
  <2>5. Blocks(machine)' = Blocks(machine) /\ Reserved' = Reserved
    BY <2>2 DEF Reserved
  <2>6. TypeOK'
    BY <2>1, <2>2, <2>3, <2>5 DEF TypeOK
  <2>7. BitmapExact'
    BY <2>1, <2>2, <2>3, <2>5 DEF BitmapExact, TypeOK, USED, FREE
  <2>8. ReservedNeverOwned'
    BY <2>1, <2>4, <2>5 DEF ReservedNeverOwned
  <2> QED
    BY <2>2, <2>6, <2>7, <2>8
<1>2. CASE AllocateBlockFails
  BY <1>2 DEF AllocateBlockFails, TypeOK, BitmapExact, ReservedNeverOwned, Reserved
<1>3. CASE FreeOwned
  <2>1. PICK b \in owned, offset \in 0 .. BLOCK_SIZE - 1 :
          FreeBlock(BlockToAddress(b) + offset)
    BY <1>3 DEF FreeOwned
  <2>2. running /\ UNCHANGED <<machine, running, bitmap_addr, ret>>
    BY <2>1 DEF FreeBlock
  <2>3. b \in Blocks(machine) /\ b \in Nat /\ b \notin Reserved
    BY DEF TypeOK, Blocks, ReservedNeverOwned
  <2>4. Blocks(machine)' = Blocks(machine) /\ Reserved' = Reserved
    BY <2>2 DEF Reserved
  <2>5. \/ /\ bitmap' = [bitmap EXCEPT ![b] = FREE]
           /\ owned' = owned \ {b}
        \/ UNCHANGED <<bitmap, owned>>
    BY <2>1, <2>3, InsideBlock DEF FreeBlock
  <2>6. TypeOK'
    BY <2>2, <2>3, <2>4, <2>5 DEF TypeOK
  <2>7. BitmapExact'
    <3>1. CASE UNCHANGED <<bitmap, owned>>
      BY <2>2, <2>4, <3>1 DEF BitmapExact
    <3>2. CASE bitmap' = [bitmap EXCEPT ![b] = FREE] /\ owned' = owned \ {b}
      <4>1. {c \in Blocks(machine) : bitmap'[c] = USED}
              = {c \in Blocks(machine) : bitmap[c] = USED} \ {b}
        BY <2>3, <3>2 DEF TypeOK, USED, FREE
      <4> QED
        BY <2>2, <2>3, <2>4, <3>2, <4>1 DEF BitmapExact
    <3> QED
      BY <2>5, <3>1, <3>2
  <2>8. ReservedNeverOwned'
    BY <2>4, <2>5 DEF ReservedNeverOwned
  <2> QED
    BY <2>2, <2>6, <2>7, <2>8
<1>4. CASE Panicked \/ UNCHANGED vars
  BY <1>4 DEF Panicked, vars, TypeOK, BitmapExact, ReservedNeverOwned, Reserved
<1> QED
  BY <1>1, <1>2, <1>3, <1>4 DEF Next

LEMMA InvariantHolds == Spec => []IInv
  BY InitialInvariant, InductiveStep, PTL DEF Spec

\* The types of the state hold on every machine.
THEOREM TypeCorrect == Spec => []TypeOK
  BY InvariantHolds, PTL DEF IInv

\* allocate_block never hands out the first megabyte, the kernel image or the
\* bitmap.
THEOREM ReservedSafe == Spec => []ReservedNeverOwned
  BY InvariantHolds, PTL DEF IInv

\* The set bits of the bitmap are those of the reserved and the owned blocks.
THEOREM BitmapIsExact == Spec => []BitmapExact
  BY InvariantHolds, PTL DEF IInv

-----------------------------------------------------------------------------
(* The image of the kernel *)

(***************************************************************************)
(* The image starts where the memory of the hardware ends, and an entry    *)
(* the bitmap may be put in is not below that: the bitmap is always put    *)
(* behind the kernel, and what is written behind the bitmap is too.        *)
(***************************************************************************)
BehindKernel == running => bitmap_addr > machine.kernelEnd

ImageInv ==
    /\ machine \in Machines
    /\ bitmap_addr \in Nat
    /\ BehindKernel

LEMMA QuotientIsNatural ==
    ASSUME NEW a \in Nat, NEW b \in Nat \ {0}
    PROVE  a \div b \in Nat
  OBVIOUS

LEMMA ProductIsNatural ==
    ASSUME NEW a \in Nat, NEW b \in Nat
    PROVE  a * b \in Nat
  OBVIOUS

LEMMA SizeIsNatural ==
    ASSUME NEW m \in Machine
    PROVE  BitmapSize(m) \in Nat
<1>1. m.upper \in Nat
  BY DEF Machine
<1>2. NumberOfBlocks(m) \in Nat
  BY <1>1, QuotientIsNatural, SizesAssumption DEF NumberOfBlocks
<1>3. NumberOfCells(m) \in Nat
  BY <1>2, QuotientIsNatural, SizesAssumption DEF NumberOfCells
<1> QED
  BY <1>3, ProductIsNatural, SizesAssumption DEF BitmapSize

LEMMA PlaceBehindKernel ==
    ASSUME NEW m \in Machines, NEW i \in FittingEntries(m)
    PROVE  PlaceIn(m, i) = m.kernelEnd + 1
<1>1. m \in Machine /\ m.kernelStart <= USABLE_MEMORY_START
  BY MachinesAssumption, LinkAssumption
<1>2. m.mmap[i] \in MapEntry /\ m.kernelStart \in Nat
  BY <1>1 DEF Machine, FittingEntries
<1>3. m.mmap[i].addr \in Nat /\ m.mmap[i].addr >= USABLE_MEMORY_START
  BY <1>2 DEF MapEntry, FittingEntries, Fits, IsCandidate
<1>4. BitmapSize(m) \in Nat
  BY <1>1, SizeIsNatural
<1>5. ~ FitsBeforeKernel(m, m.mmap[i])
  BY <1>1, <1>2, <1>3, <1>4, SizesAssumption DEF FitsBeforeKernel
<1> QED
  BY <1>5 DEF PlaceIn

\* Block numbers that are marked are never negative.
LEMMA TouchedAreBlocks ==
    ASSUME NEW start \in Nat, NEW size \in Int
    PROVE  Touched(start, size) \subseteq Nat
<1>1. start \div BLOCK_SIZE \in Nat /\ (start + size) \div BLOCK_SIZE \in Int
  BY SizesAssumption, Z3
<1> QED
  BY <1>1 DEF Touched, AddressToBlock

LEMMA StraysBehindBitmap ==
    ASSUME ImageInv, NEW a \in StrayBytes
    PROVE  a \in Nat /\ a >= bitmap_addr
<1>1. PICK b \in FreedByMap(machine) \cup Reserved, k \in 0 .. CELL_BYTES - 1 :
        a = bitmap_addr + CELL_BYTES * CellOf(b) + k
  BY DEF StrayBytes
<1>2. machine \in Machine /\ bitmap_addr \in Nat
  BY MachinesAssumption DEF ImageInv
<1>3. FreedByMap(machine) \subseteq Nat
  <2>1. SUFFICES ASSUME NEW i \in DOMAIN machine.mmap
                 PROVE  Touched(machine.mmap[i].addr, machine.mmap[i].size)
                          \subseteq Nat
    BY DEF FreedByMap
  <2>2. machine.mmap[i] \in MapEntry
    BY <1>2 DEF Machine
  <2> QED
    BY <2>2, TouchedAreBlocks DEF MapEntry
<1>4. Reserved \subseteq Nat
  <2>1. machine.kernelStart \in Nat /\ machine.kernelEnd \in Nat
    BY <1>2 DEF Machine
  <2>2. BitmapSize(machine) \in Nat
    BY <1>2, SizeIsNatural
  <2> QED
    BY <1>2, <2>1, <2>2, SizesAssumption, TouchedAreBlocks DEF Reserved
<1>5. b \in Nat
  BY <1>1, <1>3, <1>4
<1>6. CellOf(b) \in Nat
  BY <1>5, SizesAssumption, Z3 DEF CellOf
<1>7. CELL_BYTES * CellOf(b) \in Nat
  BY <1>6, SizesAssumption, Z3
<1> QED
  BY <1>1, <1>2, <1>7, SizesAssumption

LEMMA ImageInitially == Init => ImageInv
<1> SUFFICES ASSUME Init PROVE ImageInv
  OBVIOUS
<1>1. machine \in Machines /\ bitmap_addr \in Nat
  BY InitialInvariant DEF IInv, TypeOK
<1>2. machine.kernelEnd \in Nat
  BY <1>1, MachinesAssumption DEF Machine
<1>3. CASE running
  <2>1. PICK i \in FittingEntries(machine) : bitmap_addr = PlaceIn(machine, i)
    BY <1>3 DEF Init
  <2> QED
    BY <1>1, <1>2, <2>1, PlaceBehindKernel DEF ImageInv, BehindKernel
<1> QED
  BY <1>1, <1>3 DEF ImageInv, BehindKernel

LEMMA ImageStep == ImageInv /\ [Next]_vars => ImageInv'
  BY DEF ImageInv, BehindKernel, Next, vars, AllocateBlock, AllocateBlockFails,
         FreeOwned, FreeBlock, Panicked

LEMMA ImageUntouched == ImageInv => KernelImageIntact
<1> SUFFICES ASSUME ImageInv, running,
                    NEW a \in (bitmap_addr .. bitmap_addr + BitmapSize(machine) - 1)
                                 \cup StrayBytes,
                    a \in machine.kernelStart .. machine.kernelEnd
             PROVE  FALSE
  BY DEF KernelImageIntact
<1>1. /\ machine \in Machine
      /\ bitmap_addr \in Nat
      /\ bitmap_addr > machine.kernelEnd
  BY MachinesAssumption DEF ImageInv, BehindKernel
<1>2. machine.kernelEnd \in Nat
  BY <1>1 DEF Machine
<1>3. a \in Nat /\ a >= bitmap_addr
  BY <1>1, SizeIsNatural, StraysBehindBitmap
<1> QED
  BY <1>1, <1>2, <1>3

\* Neither the bitmap nor what fill_bitmap writes behind it is ever in the image
\* of the kernel, on any machine whose kernel is linked where linker.ld does.
THEOREM ImageStaysIntact == Spec => []KernelImageIntact
  BY ImageInitially, ImageStep, ImageUntouched, PTL DEF Spec

-----------------------------------------------------------------------------
(* Refinement *)

\* Block 0, whose address is NULL, is part of the first megabyte.
LEMMA ZeroIsReserved == 0 \in Reserved
  BY SizesAssumption, Z3 DEF Reserved, Touched, AddressToBlock

LEMMA RefinementInit == Init => Promise!Init
<1> SUFFICES ASSUME Init PROVE Promise!Init
  OBVIOUS
<1>1. IInv
  BY InitialInvariant
<1>2. Pool \in SUBSET (Nat \ {Promise!Null})
  BY ZeroIsReserved DEF Pool, Blocks, Promise!Null
<1>3. AddressToBlock(ret) = Promise!Null
  BY SizesAssumption, Z3 DEF Init, NULL, Promise!Null, AddressToBlock
<1> QED
  BY <1>2, <1>3 DEF Init, Promise!Init

LEMMA RefinementStep == IInv /\ [Next]_vars => [Promise!Next]_(Promise!vars)
<1> SUFFICES ASSUME IInv, [Next]_vars PROVE [Promise!Next]_(Promise!vars)
  OBVIOUS
<1> USE DEF IInv
<1>1. CASE AllocateBlock
  <2>1. PICK b \in Found :
          /\ \A c \in Found : b <= c
          /\ owned' = owned \cup {b}
          /\ ret' = BlockToAddress(b)
    BY <1>1 DEF AllocateBlock
  <2>2. running /\ UNCHANGED <<machine, running, bitmap_addr>>
    BY <1>1 DEF AllocateBlock
  <2>3. b \in Blocks(machine) /\ b \in Nat /\ bitmap[b] = FREE
    BY <2>1, ScanStopsAtFreeBlock DEF Blocks
  <2>4. b \in Pool \ owned
    BY <2>2, <2>3 DEF BitmapExact, Pool, USED, FREE
  <2>5. Pool' = Pool
    BY <2>2 DEF Pool, Reserved
  <2>6. b # Promise!Null
    BY <2>4, ZeroIsReserved DEF Pool, Promise!Null
  <2>7. AddressToBlock(ret)' = b
    BY <2>1, <2>3, BlockRoundTrip DEF AddressToBlock
  <2>8. b \in Promise!Answers(Pool, owned) /\ owned' = Promise!Take(owned, b)
    BY <2>1, <2>4, <2>6 DEF Promise!Answers, Promise!Take
  <2> QED
    BY <2>4, <2>5, <2>7, <2>8 DEF Promise!Next, Promise!Alloc
<1>2. CASE AllocateBlockFails
  <2>1. running /\ Found = {} /\ ret' = NULL
        /\ UNCHANGED <<machine, running, bitmap_addr, owned>>
    BY <1>2 DEF AllocateBlockFails
  <2>2. Pool \subseteq owned
    BY <2>1, ScanFindsFreeBlock DEF Pool, BitmapExact
  <2>3. Pool' = Pool
    BY <2>1 DEF Pool, Reserved
  <2>4. AddressToBlock(ret)' = Promise!Null
    BY <2>1, SizesAssumption, Z3 DEF NULL, Promise!Null, AddressToBlock
  <2>5. Promise!Null \in Promise!Answers(Pool, owned)
        /\ owned' = Promise!Take(owned, Promise!Null)
    BY <2>1, <2>2 DEF Promise!Answers, Promise!Take
  <2> QED
    BY <2>3, <2>4, <2>5 DEF Promise!Next, Promise!Alloc
<1>3. CASE FreeOwned
  <2>1. PICK b \in owned, offset \in 0 .. BLOCK_SIZE - 1 :
          FreeBlock(BlockToAddress(b) + offset)
    BY <1>3 DEF FreeOwned
  <2>2. UNCHANGED <<machine, running, bitmap_addr, ret>>
    BY <2>1 DEF FreeBlock
  <2>3. b \in Nat
    BY DEF TypeOK, Blocks
  <2>4. owned' = owned \ {b} \/ owned' = owned
    BY <2>1, <2>3, InsideBlock DEF FreeBlock
  <2>5. Pool' = Pool /\ AddressToBlock(ret)' = AddressToBlock(ret)
    BY <2>2 DEF Pool, Reserved
  <2> QED
    BY <2>4, <2>5 DEF Promise!Next, Promise!Free, Promise!vars
<1>4. CASE Panicked \/ UNCHANGED vars
  BY <1>4 DEF Panicked, vars, Promise!vars, Pool, Reserved
<1> QED
  BY <1>1, <1>2, <1>3, <1>4 DEF Next

\* The bitmap allocator implements the frame allocator its callers rely on.
THEOREM Refinement == Spec => ImplementsFrameAllocator
  BY RefinementInit, RefinementStep, InvariantHolds, PTL
  DEF Spec, ImplementsFrameAllocator, Promise!Spec
=============================================================================
