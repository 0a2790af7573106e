---------------------------- MODULE PhysicalMgr -----------------------------
(***************************************************************************)
(* The physical memory manager, src/kernel/mm/physical_mgr: a bitmap with  *)
(* one bit per block of memory, placed and filled from the multiboot       *)
(* memory map, and the first-fit allocator that runs on it.                *)
(*                                                                         *)
(* The constants scale the machine: the code has 4096-byte blocks, cells   *)
(* of 32 bits in 4 bytes, memory reserved up to 1 MB and a boot mapping    *)
(* that ends at 4 MB.                                                      *)
(***************************************************************************)
EXTENDS Integers, Sequences

CONSTANTS
    BLOCK_SIZE,           \* bytes in a block
    CELL_BITS,            \* blocks described by one cell of the bitmap
    CELL_BYTES,           \* bytes a cell takes
    USABLE_MEMORY_START,  \* memory below it belongs to the hardware
    BOOT_MAPPING_END,     \* the kernel can only reach memory below it
    Machines              \* what the bootloader may report, and the kernel's place

(***************************************************************************)
(* A machine: upper is the memory size given to initialize, mmap the       *)
(* entries of the memory map, and the kernel image is the bytes from       *)
(* kernelStart to kernelEnd.                                               *)
(***************************************************************************)
MapEntry == [addr : Nat, len : Nat, size : Nat, available : BOOLEAN]
Machine ==
    [upper : Nat, mmap : Seq(MapEntry), kernelStart : Nat, kernelEnd : Nat]

ASSUME SizesAssumption ==
    /\ BLOCK_SIZE \in Nat \ {0}
    /\ CELL_BITS \in Nat \ {0}
    /\ CELL_BYTES \in Nat \ {0}
    /\ USABLE_MEMORY_START \in Nat
    /\ BOOT_MAPPING_END \in Nat

ASSUME MachinesAssumption ==
    \A m \in Machines :
        /\ m \in Machine
        /\ m.kernelStart <= m.kernelEnd

\* linker.ld links the image at 0xC0100000, which is 1 MB: just where the memory
\* of the hardware ends, and so before every entry the bitmap may be put in.
ASSUME LinkAssumption ==
    \A m \in Machines : m.kernelStart <= USABLE_MEMORY_START

VARIABLES
    machine,      \* the machine the kernel was booted on
    running,      \* FALSE once panic() has stopped the kernel
    bitmap_addr,  \* where the bitmap was put
    bitmap,       \* block number -> USED or FREE
    owned,        \* auxiliary: blocks handed out by allocate_block and not freed
    ret           \* the address the last allocate_block returned

vars == <<machine, running, bitmap_addr, bitmap, owned, ret>>

USED == 1
FREE == 0
NULL == 0

-----------------------------------------------------------------------------
(* Sizes and conversions *)

NumberOfBlocks(m) == m.upper \div BLOCK_SIZE
NumberOfCells(m) == NumberOfBlocks(m) \div CELL_BITS
BitmapSize(m) == NumberOfCells(m) * CELL_BYTES

\* The blocks that have a bit: whole cells only, the remainder is dropped.
Blocks(m) == 0 .. NumberOfCells(m) * CELL_BITS - 1

AddressToBlock(a) == a \div BLOCK_SIZE
BlockToAddress(b) == b * BLOCK_SIZE

\* The block numbers mark_memory_as(start, size, _) writes, both ends included.
Touched(start, size) == AddressToBlock(start) .. AddressToBlock(start + size)

-----------------------------------------------------------------------------
(* initialize *)

\* The entries find_memory_for_bitmap considers.
IsCandidate(m, e) ==
    /\ e.available
    /\ e.addr >= USABLE_MEMORY_START
    /\ e.addr + BitmapSize(m) < BOOT_MAPPING_END
    /\ e.len >= BitmapSize(m)

FitsBeforeKernel(m, e) == e.addr + BitmapSize(m) < m.kernelStart
FitsAfterKernel(m, e) == m.kernelEnd + 1 + BitmapSize(m) < e.addr + e.len

Fits(m, i) ==
    /\ IsCandidate(m, m.mmap[i])
    /\ FitsBeforeKernel(m, m.mmap[i]) \/ FitsAfterKernel(m, m.mmap[i])

\* Mutant: the place after the kernel is forgotten.
PlaceIn_StartOnly(m, i) == m.mmap[i].addr

\* A fitting entry gives its start, or else the byte after the kernel.
PlaceIn(m, i) ==
    IF FitsBeforeKernel(m, m.mmap[i]) THEN m.mmap[i].addr ELSE m.kernelEnd + 1

FittingEntries(m) == {i \in DOMAIN m.mmap : Fits(m, i)}

\* mark_memory_as on the bitmap bm; bits outside the bitmap are not part of it.
Marked(bm, start, size, what) ==
    [b \in DOMAIN bm |-> IF b \in Touched(start, size) THEN what ELSE bm[b]]

\* fill_bitmap frees the blocks under entry->size (not entry->len) bytes of
\* every AVAILABLE entry.
FreedByMap(m) ==
    UNION {Touched(m.mmap[i].addr, m.mmap[i].size) :
              i \in {j \in DOMAIN m.mmap : m.mmap[j].available}}

\* The bitmap after the memset and the marking of the AVAILABLE entries.
ClearedBitmap(m) ==
    LET zeroed == [b \in Blocks(m) |-> FREE]
    IN  [b \in Blocks(m) |-> IF b \in FreedByMap(m) THEN FREE ELSE zeroed[b]]

\* Mutant: the blocks of the bitmap itself are left free.
FilledBitmap_ForgetsItself(m, addr) ==
    LET hardware == Marked(ClearedBitmap(m), 0, USABLE_MEMORY_START, USED)
    IN  Marked(hardware, m.kernelStart, m.kernelEnd - m.kernelStart, USED)

FilledBitmap(m, addr) ==
    LET hardware == Marked(ClearedBitmap(m), 0, USABLE_MEMORY_START, USED)
        itself   == Marked(hardware, addr, BitmapSize(m), USED)
    IN  Marked(itself, m.kernelStart, m.kernelEnd - m.kernelStart, USED)

Init ==
    /\ machine \in Machines
    /\ owned = {}
    /\ ret = NULL
    /\ \/ /\ \E i \in FittingEntries(machine) :
                /\ \A j \in FittingEntries(machine) : i <= j
                /\ bitmap_addr = PlaceIn(machine, i)
          /\ bitmap = FilledBitmap(machine, bitmap_addr)
          /\ running = TRUE
       \/ /\ FittingEntries(machine) = {}   \* panic: no place for the bitmap
          /\ bitmap_addr = NULL
          /\ bitmap = [b \in Blocks(machine) |-> FREE]
          /\ running = FALSE

-----------------------------------------------------------------------------
(* allocate_block *)

CellOf(b) == b \div CELL_BITS
BitOf(b) == b % CELL_BITS

\* Bitmap::test keeps the masked cell in an int and compares it with > 0: the
\* highest bit of a cell is its sign bit and always reads as clear.
Test(b) == bitmap[b] = USED /\ BitOf(b) # CELL_BITS - 1

\* Mutant: the bits of every cell are looked at, full cells included.
CellHasClearBit_Always(b) == TRUE

\* cell != 0xffffffff
CellHasClearBit(b) ==
    \E c \in Blocks(machine) : CellOf(c) = CellOf(b) /\ bitmap[c] = FREE

\* Where the scan of the cells and of their bits would stop.
Found == {b \in Blocks(machine) : CellHasClearBit(b) /\ ~ Test(b)}

\* Mutant: the block is returned without Bitmap::set.
AllocateBlock_NotMarked ==
    /\ running
    /\ \E b \in Found :
         /\ \A c \in Found : b <= c
         /\ owned' = owned \cup {b}
         /\ ret' = BlockToAddress(b)
    /\ UNCHANGED <<machine, running, bitmap_addr, bitmap>>

\* The scan stops at the first block it finds free, and takes it.
AllocateBlock ==
    /\ running
    /\ \E b \in Found :
         /\ \A c \in Found : b <= c
         /\ bitmap' = [bitmap EXCEPT ![b] = USED]
         /\ owned' = owned \cup {b}
         /\ ret' = BlockToAddress(b)
    /\ UNCHANGED <<machine, running, bitmap_addr>>

\* Mutant: a scan that finds nothing answers the block where it ended.
AllocateBlockFails_EndOfScan ==
    /\ running
    /\ Found = {}
    /\ ret' = BlockToAddress(NumberOfCells(machine) * CELL_BITS)
    /\ UNCHANGED <<machine, running, bitmap_addr, bitmap, owned>>

AllocateBlockFails ==
    /\ running
    /\ Found = {}
    /\ ret' = NULL
    /\ UNCHANGED <<machine, running, bitmap_addr, bitmap, owned>>

-----------------------------------------------------------------------------
(* free_block *)

Aligned(p) == p % BLOCK_SIZE = 0

\* The callee: an address that is not block aligned is ignored, any other
\* clears its bit.
FreeBlock(p) ==
    /\ running
    /\ IF Aligned(p)
       THEN /\ bitmap' = [bitmap EXCEPT ![AddressToBlock(p)] = FREE]
            /\ owned' = owned \ {AddressToBlock(p)}
       ELSE UNCHANGED <<bitmap, owned>>
    /\ UNCHANGED <<machine, running, bitmap_addr, ret>>

\* Callers free a block they own, or pass an address inside one.
FreeOwned ==
    \E b \in owned, offset \in 0 .. BLOCK_SIZE - 1 :
        FreeBlock(BlockToAddress(b) + offset)

\* panic() stops the machine.
Panicked == ~ running /\ UNCHANGED vars

Next == AllocateBlock \/ AllocateBlockFails \/ FreeOwned \/ Panicked

Spec == Init /\ [][Next]_vars

-----------------------------------------------------------------------------
(* Properties *)

\* The blocks that must never be handed out: the first megabyte, the kernel
\* image and the bitmap itself (their last, partial block included).
Reserved ==
    Touched(0, USABLE_MEMORY_START)
      \cup Touched(machine.kernelStart, machine.kernelEnd - machine.kernelStart)
      \cup Touched(bitmap_addr, BitmapSize(machine))

Pool == IF running THEN Blocks(machine) \ Reserved ELSE {}

TypeOK ==
    /\ machine \in Machines
    /\ running \in BOOLEAN
    /\ bitmap_addr \in Nat
    /\ bitmap \in [Blocks(machine) -> {USED, FREE}]
    /\ owned \in SUBSET Blocks(machine)
    /\ ret \in {BlockToAddress(b) : b \in Blocks(machine)} \cup {NULL}

\* Memory of the hardware, of the kernel image and of the bitmap is never
\* handed out by allocate_block, whatever is allocated and freed meanwhile.
ReservedNeverOwned == owned \cap Reserved = {}

\* The bitmap is exact: a bit is set for the reserved and the owned blocks and
\* for no other, so no block is lost and none is offered while it is owned.
BitmapExact ==
    running => {b \in Blocks(machine) : bitmap[b] = USED}
                 = (Reserved \cap Blocks(machine)) \cup owned

\* Bytes that fill_bitmap writes outside the bitmap: mark_memory_as checks no
\* bound, so an AVAILABLE entry above the tracked memory has its bit cleared
\* somewhere after the bitmap.
StrayBytes ==
    {bitmap_addr + CELL_BYTES * CellOf(b) + k :
        b \in (FreedByMap(machine) \cup Reserved) \ Blocks(machine),
        k \in 0 .. CELL_BYTES - 1}

\* Neither the bitmap nor the writes of fill_bitmap beyond it hit the image of
\* the kernel, wherever find_memory_for_bitmap put the bitmap.
KernelImageIntact ==
    running =>
      LET itself == bitmap_addr .. bitmap_addr + BitmapSize(machine) - 1
      IN  (itself \cup StrayBytes) \cap machine.kernelStart .. machine.kernelEnd = {}

\* The physical manager implements the abstract frame allocator: every block
\* comes from the pool, has one owner, and NULL means the pool is used up.
Promise == INSTANCE FrameAllocator
             WITH pool <- Pool, ret <- AddressToBlock(ret)
ImplementsFrameAllocator == Promise!Spec
=============================================================================
