# A verification project for AviKernel

AviKernel is a 32-bit x86 kernel in C++: it boots through multiboot, manages
physical and virtual memory and a heap, drives a keyboard, a clock, a screen and
IDE drives, and offers a small VFS.  It has one thread of control, the kernel,
and interrupt handlers that may run between any two of its instructions.  This
directory holds TLA+ models of its core, TLC runs over small instances, and
proofs for every instance.

Paths below are relative to `src/` of the repository, which holds again a `src/`
(code), an `include/` (headers), a `docs/` (*.avidocs) and a `config/`.

## 1. Inventory

| Component | State it keeps | Operations | Interacts with | What makes it correct |
|---|---|---|---|---|
| PhysicalMgr (`src/kernel/mm/physical_mgr`, `src/utils/bitmap.cpp`) | the bitmap and its place | initialize, allocate_block, free_block | memory map of the bootloader; called by VirtualMgr, Heap | a block has one owner; the hardware's memory, the kernel and the bitmap are never handed out; the bitmap stays off the kernel |
| VirtualMgr (`src/kernel/mm/virtual_mgr`) | page directory, page_etable, page tables, cr3 | initialize, map, map_range | PhysicalMgr for tables; the MMU and its TLB; called by Heap, VideoDriver | map changes one translation only; tables are in exclusive frames; no stale translation |
| Heap (`src/kernel/mm/heap`) | list of holes inside the holes, last_page | initialize, malloc, free, realloc | PhysicalMgr, VirtualMgr; behind new and delete | allocations are disjoint and mapped; the list stays intact; no memory is lost |
| InputManager, Queue (`src/kernel/input_manager.cpp`, `include/utils/queue.h`) | a linked queue of keys | on_press, getchar | keyboard interrupt enqueues, kernel dequeues | keys in order, none twice, losses only where a race allows them; getchar returns |
| Keyboard drivers (`src/drivers_manager/drivers/keyboard`) | two prefix flags, the listeners of the generic and of the PS/2 driver | on_ke_data, ignore, set_on_press_listener, set_on_release_listener | interrupt dispatch, the keyboard controller, InputManager | a stroke is heard once, by the listener for its kind, under its name |
| Interrupt dispatch, PIC (`src/kernel/interrupts`, `drivers/pic`) | the IDT, the table isrs, the interrupt flag, the PICs' requests and lines in service | put_descriptor, set_isr, general_isr_handler, setup and end of interrupt of the PICs | every driver with a request line | handlers are never nested and are reached at the vector of their line; no line stays blocked |
| Clock, Time (`drivers/clock`, `src/utils/time.cpp`) | a 64-bit count of milliseconds, a listener | configure_pit, on_tick, sleep | interrupt against kernel; IDE driver | a sleep ends, and not early |
| IDE driver (`drivers/storage`) | the drives found; in the hardware: registers, commands, modes of the channels | exist, setup, detect_drives, read_sectors, write_sectors | PCI driver, Time; the drives, by polling; DevFS above | every drive found; a call reaches the sectors it names; a drive is idle when the next command comes |
| PCI driver (`drivers/pci`) | list of functions found | enumerate_devices, reads and writes of fields | IDE driver | every function found, once |
| DevFS (`src/fs/devfs`) | list of devices | mount, read, write, get_file_size | IDE driver below, VFS above | a byte range on a drive is exactly what is read or changed |
| VFS (`src/fs/vfs`) | table of descriptors, list of mounts | mount_fs, open, close, read, pread, write, pwrite | file systems below | a descriptor belongs to one open file, and free ones are found again; an open file stays the same file whatever is mounted later |
| FAT32 (`src/fs/fat32`) | - | accessors of a directory entry; the rest is not built | - | - |
| Path (`src/fs/path.cpp`) | a vector of parts, whether it is a folder | constructor, to_string, get_depth, go_up, remove_part | VFS, DevFS; String, Vector | a path is the text it was made from |
| VgaText (`src/drivers/screen`) | the position, the video memory, the cursor registers | putchar, clear | printf | the screen shows what was printed |
| Vector, String (`include/utils/vector.h`, `src/libc++`) | linked nodes and a count; characters and a size | append, remove, pop_back, assignment, sort; +, +=, substr, back | Heap; PCI, IDE, DevFS, VFS, Path | no node leaked, shared or freed twice; sort keeps and orders the elements |
| Boot, kernel_main, DriversManager | the order of set-up | kernel_main | everything | what an interrupt needs exists before it can come |
| Video, GDT, libc, C++ runtime, tests | tables filled at start; vendored printf, copies, ABI stubs | - | - | - |

The hard behaviours: interrupts that come between two accesses of the kernel
(queue, clock, heap); paging structures that change while the processor walks
and caches them; memory that runs out in the middle of an operation; a data
structure (list of holes) whose damage shows several calls later; widths and
boundaries (the sign bit of a cell, ends of ranges, sector counts).
`PROJECT.json` lists each hazard at its line, with the properties that cover it,
or with the reason why none does.

## 2. Plan

In order of importance.

| | Modules | Status |
|---|---|---|
| 1 | `FrameAllocator` (abstract) <- `PhysicalMgr` (+ `MCPhysicalMgr`, `PhysicalMgr_proofs`) | done |
| 2 | `AddressSpace` (abstract) <- `VirtualMgr` (+ `MCVirtualMgr`, `VirtualMgr_proofs`), which uses PhysicalMgr through `FrameAllocator` | done |
| 3 | `HeapPromise` (abstract) <- `Heap` (+ `Heap_proofs`) | done |
| 4 | `InputQueue` (+ `InputQueue_proofs`): interrupt against kernel | done |
| 5 | `Bytes`, `DevFS` (+ `MCDevFS`, `Storage_proofs`) | done |
| 6 | `OpenFiles` (abstract) <- `VFS` (+ `MCVFS`, `VFS_proofs`) | done; io on descriptor -1 left out |
| 7 | `Interrupts`, `Clock`, `Keyboard`, composed by `Kernel` (+ `MCKernel`, `Kernel_proofs`) with kernel_main | done |
| 8 | `Disk` (abstract) <- `Ide` on `Pci` (+ `MCIde`, `Storage_proofs`) | done |
| 9 | `Terminal` (abstract) <- `VgaText` (+ `VgaText_proofs`) | done |
| 10 | `Lists` (abstract) <- `Vector` (proved in `VFS_proofs`); `Path` on `String` (+ `MCVector`; proved in `VFS_proofs`) | done |
| 11 | Compositions: `InputQueue` on `Heap` (malloc in the interrupt, once a listener is registered); `DevFS` on `Disk` with its failures | later |

## 3. The models and the code

General choices.  The kernel has one thread, so an operation that no interrupt
handler touches is one action; where a handler shares the data (InputQueue) every
access to memory is an action.  `panic()` stops the machine: `running` becomes
FALSE and nothing follows.  Variables marked *auxiliary* record what callers
hold; no guard of the code's actions reads them, except to say what callers may
pass.  The code is built by its Makefile without optimization for an i686, which
fixes the layout of objects and the accesses behind an expression such as
`queue_size--`.

**PhysicalMgr.**  `Init` is `initialize`: `find_memory_for_bitmap` (`Fits`,
`PlaceIn`) and `fill_bitmap` (`FilledBitmap`) over the memory map of the machine,
which is chosen among `Machines`.  `AllocateBlock` is the scan over cells and
bits: a cell is looked at if it is not all ones (`CellHasClearBit`), and its bits
with `Bitmap::test` (`Test`), which reads the sign bit of a cell as clear.
`FreeBlock` is `free_block`.  An address that is not aligned is ignored.
Bits outside the bitmap, which `mark_memory_as` does not exclude, are not part of
`bitmap`; `StrayBytes` names the bytes such writes hit, and `KernelImageIntact`
says that they are never the kernel's.  `FrameAllocator` is the promise: a pool, owners, NULL when the
pool is used up.

**VirtualMgr.**  `memory` is the content of frames read as paging entries, `cr3`
the active directory, `tlb` what the processor has cached.  `Walk` is the page
walk of the hardware, external to the code.  `Map` is `map()`: the page table is
reached through its window in the page_etable, by the translation the processor
uses at that moment (`Access`); when there is no table, a frame is taken from
`FrameAllocator`, entered in both tables, and cleared.  `InitEtable`,
`MapKernel`, `MapIdentity` and `SwitchDirectory` are the steps of
`VirtualMgr::initialize`, with one action per turn of the loops of `map_range`.
The callers are the heap (`MapNewFrame`) and the video driver (`MapDevice`).
Entering a table and clearing it are one step, as the kernel accesses nothing
else in between and an interrupt handler uses only pages that were mapped before;
the TLB may gain or lose an entry between any two steps.  The flags of an entry
other than *present* and *page size* are left out; nothing reads them.
`AddressSpace` is the promise: `map(v, p)` changes the translation of `v` alone.

**Heap.**  `list.mem` gives, for the address of each chunk or hole, the three
words found there; the operators on the list are the methods of the class under
their own names, each from the state before a call to the one after it, and
`Malloc`, `Free` and `Realloc` are the whole calls.  `MallocFrom` includes the
extension and the recursive call.  An extension takes frames and maps pages until
frames run out; with none it writes through a NULL header, as the code does, and
the address NULL is ordinary memory because the first 4 MB are identity mapped.
`LOW_WORD` is what is found there before, taken to be no address of the heap.
Callers write over all words of their chunk (`UserData`).  A header that the code
writes over the end of its hole would destroy what lies behind it; the model ends
before such a step (`HeadersFit`), and `RoomForHeader` says when one can come.
Dead headers inside a merged hole are forgotten, unless the list still leads to
them.  `HeapPromise` is what callers rely on.

**InputQueue.**  `OnPress` is the listener with `enqueue`, run by the interrupt
handler with interrupts disabled, hence one step.  `SeeKey` to `WriteSize` are
the accesses of `getchar` and `dequeue`, in the order of the code; `head = head->next`
and `queue_size--` are a load and a store.  `dequeue` frees no node, so a node is
named by its key.  The store through a null `tail` goes to the identity-mapped
page 0 and is lost.  `hit` records the windows an interrupt has fallen into, to
say precisely when a key can be lost.

**DevFS.**  `mount` adds a file per drive, `read` and `write` are `io` with the
checks before it; `storage_drive_read` and `storage_drive_write` are the
functions of that name, as operators on the content of a drive.  Neither
answer of `file_exist` is 0, which is what `io` tests for, so that it finds every
file.  A `Transfer` is
one call of the storage driver.  Of a command that reaches beyond the end of a
drive the part that exists is carried out, which is how the emulator the Makefile
starts behaves; a real drive may reject the whole command, and then a write that
ends with the drive loses data without an error, since the driver looks at no
error bit.  `Bytes` has the reference definitions, ranges (`Slice`) and
overwriting (`Overlay`), that `ReadExact` and `WriteExact` compare with.

**VFS.**  `file_descriptors` is the table; `mounted_fss` and `vector_size` are
the nodes of the list and its member `vector_size`, which can differ: the byte in
front of the table, `file_descriptors[-1].in_use`, is the low byte of
`vector_size`.  `allocate_descriptor` on a full table and `close(-1)` write it.
`get_mounted_fs` compares part *i* of the paths for the *i*-th mount, as the code
does, and may stop the kernel (`LookupPanics`).  `open` has one action per
outcome.  `file_exist` of a file system answers 1 or 2, both nonzero, so `open`
takes every path for an existing file: with O_CREAT and O_EXCL it always fails,
`create_file` is never called, and the exits that return false behind it are not
reached, for `get_file_size` of a path that is no folder does not fail.  DevFS
takes `/sd` with one more character for a drive (`DriveNames`): if there is no such
drive, `drives.get()` stops the kernel (`MissingDrive`).  Any other name opens, with
the size that the word of the table had before, and as the VFS is a variable of
`kernel_main` on the stack that may at first be anything (`StackWords`).  Reading it
moves the position up to that size and gives no bytes, writing it moves the position
and forgets the bytes (`WriteNowhere`).  `Read` and `Write` are `io`; `IoWild` is a
call that stops the kernel in a lookup, or goes through the uninitialized pointer
that is left when no mount is found, and ends the behaviour.  `held` keeps what the
path of a descriptor led to when it was opened.  `OpenFiles` is the promise, with
names that are no files in it.

**Interrupts, Clock, Keyboard, Kernel.**  `Interrupts` has the processor's flag,
the two PICs (external, as far as `pic_driver.cpp` drives them), the gates of the
IDT and the way of a request to its handler: `Enter` is the processor going
through gate and stub, `SendEoi`, `Calls` and `Iret` the three parts of
`general_isr_handler` and its return, so that another request may be raised
between any two of them.  A stub pushes its number as a signed byte, which is
right up to vector 127 (`PushedNumber`).  `Clock` has the counter of `Time`, whose
two halves `sleep` loads one after the other, in either order (`low_first`); a
handler runs between the loads, and `torn` records that a carry fell there.  The
compiler keeps no copy of the counter in a register, as the code is built without
optimization.  `Keyboard` has the decoder: `on_ke_data` is the handler, `Delivered`
the call of a listener that a byte makes, `PrefixAfter` what is remembered;
`Strike` and `Send` are the user and the keyboard.  Its keys follow scan code set 1
(`KeyTable`): plain ones, those behind E0 with the codes that Num Lock or a left
shift put around them, Print Screen, Pause, and keys with later codes.  A right
shift, for which E0 B6 and E0 36 are put there, is left out: the driver takes these
for an unknown key.  `Kernel` composes them with
`kernel_main`, one action per step of the set-up, from `setup_interrupts` to the
endless loop; the storage driver's sleeps are those of `setup_storage`.  The
kernel runs when no interrupt is being handled.  `Listen` is what a user of the
keyboard would do: the kernel itself never calls `InputManager::initialize`.

**Pci, Ide.**  A configuration space is a function from `<<bus, device, number>>`
to the fields read; `generate_pci_config_address` packs the three and `Addressed`
is what the host bridge (external) makes of it.  In `Ide` a drive is a small state
machine of its own: *taken* (a command is written but its status does not show it
yet), *busy*, *drq*, *failed* or *idle*.  The registers of a channel are shared by
its two drives and remember the last two values written.  `SendIdentify` to
`Detected` are `detect_drives`, with one action per read of the status that
matters; `Call` is `setup_rw_48_bits` with the command, `ReadSector` and
`WriteSector` are one turn of the loops each.  `Time::sleep(1)` ends with the next
tick, which may come at once, so a status may be read before the drive has taken
the command (`hasty`); after that the promises are off, and no further call is
made.  A call for no sectors, which DevFS makes behind a whole number of groups of
255 (`devfs.cpp:147`), returns at once (`CallForNothing`).  Nothing compares the
sectors of a call with those of the drive, and DevFS asks for the one behind the last
(`devfs.cpp:178`): a drive fails there at the latest (`Possible`).  `Disk` is what
`DevFS` takes a drive for, with the places where the driver falls short of it written
into it: `seen`, the sector a call really starts at, and `trouble`, a call in which
the drive failed or was asked too early.

**VgaText.**  Every method is an operator from screen to screen; `scroll` copies
row over row, character by character through `putchar` itself, as the code does.
Memory behind the screen is not kept: the console never reads it.  `Terminal` is
a page on which text runs on, and its place is a number; it says what happens
when a newline comes on a full page (`FallOff`), after which nothing is promised.

**Vector, String, Path.**  `lists` holds the nodes of all vectors, so that leaks
and sharing can be seen; `sort` is the loop with its iterators, turn by turn.
`Lists` is the promise: sequences, and a stable sort.  A String is its text and
the member `_size`, which can differ.  Path keeps the loop of `fill_vector`; a
path object is made from a text, gone up, cut and trimmed for a mount, and `meant`
keeps the text it should stand for, with which every method is compared.
`MCVector` puts paths into the vectors, as DevFS does.  Nothing in the kernel calls
sort; `StrictOrder` says what the function it is given has to be.

## 4. What is checked

Every property of a passing run is also run against a defective version of one
definition (the `_...` variants beside the originals, marked *Mutant*), in which
TLC finds it violated; the list is `mutants` in `PROJECT.json`.

| Run | Instance | Shows |
|---|---|---|
| `physical_mgr` | 5 machines, 8 to 16 blocks of 2 bytes, cells of 4 bits | first fit over the bitmap implements the frame allocator, sign bit included; the bitmap is exact; neither it nor the writes beyond it hit the kernel |
| `virtual_mgr` | tables of 4 entries, 9 frames, 4 in the pool, 2 pages of clients, 2 cached translations | the hand-over from the boot directory and creation of tables are invisible; map changes one translation; nothing stale is cached |
| `virtual_mgr_exhausted` | the same with 3 frames in the pool | **violated**: the page table is the frame NULL |
| `heap` | pages of 30 bytes, headers of 12, words of 4, requests of 0, 1 and 14, 3 frames | chunks and holes are disjoint and mapped, the list intact, until and after memory has run out; memory is lost in the two ways below only; a header lacks room only behind a request smaller than a header |
| `input_queue` | 5 keys, every interleaving | order, no null head, when a key can be lost, and that the head is always returned |
| `devfs` | sectors of 2 bytes, commands of 2 sectors, drives of 4, 1 and 1 sectors, writes up to 6 bytes | every range of a drive is read and written exactly, neighbours untouched |
| `devfs_groups` | writes of 7 bytes | **violated**: a write that needs more than one command between its ends |
| `vfs` | 2 descriptors besides the reserved ones, one drive of 2 bytes, a name of a drive that is missing, names that are no drives as long as nothing is mounted on their folder, up to 3 mounts | descriptors are accounted for, open files stay, the table implements the open files, paths stay reachable |
| `vga_text` | 3 rows, 3 columns, 2 letters, up to 2 rows behind the screen | the scrolling console implements the terminal, a pending scroll drops no column |
| `vector` | 2 vectors, 4 nodes, 3 paths of 2 depths; texts of up to 5 characters out of 4 | nodes are accounted for, the lists implement sequences, every text means the right path |
| `ide` | 2 buses of 2 devices of 2 functions; 7 machines: both kinds of drives on one channel, a CD-ROM, channels that must, cannot or need not be switched, a drive without LBA, a floating channel, no controller; registers of 1 bit; calls for 0 to 2 sectors, also across and behind the end of a drive | functions are found once, the detection ends, calls reach their sectors, drives are idle between calls |
| `kernel` | lines of the clock and the keyboard, halves of 1 bit, 2 ticks and those a sleep still needs, 1 sleep, 6 kinds of keys | handlers are not nested and find what they need, sleeps are long enough and end, strokes are heard once, the keyboard is silenced in one way only |

The two violated runs are disagreements between the code and its own documents,
quoted under `findings` in `PROJECT.json`.

What else the models show to go wrong.  Each of these is an exception that a
property states, so that the run would fail if it happened in another case:

  - Heap: a chunk freed between two adjacent holes takes the hole behind it out of
    the list (`merge` goes on with a dead header); a malloc that gets no frame puts
    a hole at NULL in front of the list (`LostOnlyBetweenHoles`).  `split` asks for
    room for the header of the rest, but counts it from the size asked for and not
    from the header's, so that behind a request smaller than a header the rest may
    be too small for its own one (`RoomForHeader`).
  - VFS: `close(-1)`, after an open that failed, loses every mount, since -1 is a
    legal descriptor as soon as something is mounted; a mount of another depth can
    make the lookup stop the kernel (`PathsStayReachable`).  Opening a file that does
    not exist does not fail: for a missing drive it stops the kernel, any other name
    opens, and what is written there is lost without an error (`OpenFiles`); a mount
    deeper on its path can turn it into a drive later (`OpenFilesStay`).
  - VgaText: a newline on a page that is just full moves the position two rows
    behind the screen; it never scrolls again, until it is cleared.  `clear` leaves
    the hardware cursor where the last scroll put it (`ImplementsTerminal`).
  - Vector: one that is assigned to itself is emptied (`ImplementsLists`).
  - Path: a text of blanks is not the root but a folder of that name, for it gets a
    slash behind it first and then one in front (`Absolute`).
  - IDE: a drive of 48 bits is read with the 28-bit command, at the address modulo
    2^24 (`Reach`); an error, as of a sector behind the end of the drive, is not looked
    at, and the caller not told (`trouble`); after a sleep that ends too soon, or a
    flush that is looked at too early, a command can be missed (`hasty`); the primary channel is never switched and a floating one hangs the
    detection (`Answering`); a drive without LBA stops the kernel.
  - Clock: a carry between the loads of the halves makes a sleep short (`torn`).
  - Keyboard: a byte that comes before its handler is registered silences the
    keyboard for good (`deaf`); a key that the decoder does not know keeps the
    prefix, and so do the codes that end a stroke while a shift is held, and the next
    one is misread (`KeepsPrefix`).  The tables give the left Alt
    the name of the right one and no name to keypad 4, 5, 6, 1, plus and minus.

Why the bounds are enough.  *PhysicalMgr*: two and more cells, a remainder of
blocks without a cell, entries before, around and above the tracked memory, both
places for the bitmap, and the panic all occur, and every pool is used up.
*VirtualMgr*: each kind of directory entry occurs once and two are never needed
at a time; four frames let exactly the tables of the kernel, of the identity
mapping and of the clients, and one page, be allocated.  *Heap*: three pages and
requests that leave a hole, none or too small a one give holes before, after and on
both sides of a chunk, gaps between extensions, a header without room, and
exhaustion; `MaxLive` and `MaxLastPage`
bound the chunks and the number of failed extensions, each of which moves
`last_page`.  *InputQueue*: every window needs at most two keys on each side of
it.  *DevFS*: the code's cases are one or two sectors, three or more, whole and
partial groups when reading, and one group when writing; a drive of four sectors
has every alignment in them.  *VFS*: two descriptors show a shared or a lost one,
three mounts show both orders of depth, a folder mounted over another and a count
that was overwritten, and the table can be full; a path below /dev is a drive, no drive or a missing one as
mounts come, and an unset size of one byte lets it be read; `MaxPosition` stops what
is written nowhere at the size of the drive, beyond which nothing new can happen.
*VgaText*: a tab of four wraps over three columns from each of them, and two rows
behind the screen are one more than a newline can add.  *Vector*: sort needs three
elements for a place in the middle and four for one behind it; five characters
give two slashes with names, blanks or nothing around them, and a drive's name.
*Ide*: none, one or two sectors a call, on the small drive across its end and far
behind it, on the large one in the first digits and behind the last that a read sees,
on either drive after the other has used the registers; calls are not bounded.
*Kernel*: a carry comes with every second tick, a sleep may begin before and after
it, and the clock may tick while it ends; it goes on beyond `MaxTicks` for a sleep
that is not over, so that no sleep ends for want of ticks; every class of scan code the decoder tells apart is in one
of the six keys, in every order of strokes, as strokes are not bounded.

Fairness.  *InputQueue*: weak fairness of `Kernel`, as the kernel's code keeps
running between interrupts; nobody has to press a key, and interrupts are not
fair.  `HeadDelivered` needs no more.  *Ide*: weak fairness of `Driver`, which
polls without end, and of `Drive`: a drive answers in the end, if only by failing;
callers are not fair.  *Kernel*: weak fairness of `Handling`, `ClockRequests` and
`KeyboardSends`, which are the processor and two devices at work, and strong
fairness of `kernel_main`: interrupts may come again and again, but a handler is
much shorter than the time to the next tick, so that the kernel gets on.  Nobody
has to type.  These three runs turn off the check for deadlock: without a key
`getchar` spins, without a controller or after a panic the IDE driver does
nothing, and the clock of Kernel stops at `MaxTicks` when nobody sleeps.  The other systems never
stop, except by panic, which has a stuttering action of its own.

## 5. What is proved

All by TLAPS, for every value of the constants that satisfies the assumptions
named; TLC evaluates the assumptions in every run.

| Theorem | From | Argument |
|---|---|---|
| `PhysicalMgr_proofs`: `TypeCorrect`, `ReservedSafe`, `BitmapIsExact` | `SizesAssumption`, `MachinesAssumption` | `ReservedNeverOwned` is not inductive: a step may take any block whose bit is clear. `BitmapExact` supplies that reserved bits are set, and needs in turn that a freed block was not reserved; the two carry each other. |
| `PhysicalMgr_proofs`: `ImageStaysIntact` | the same, and `LinkAssumption` | `ImageInv`: the bitmap lies behind the kernel. `LinkAssumption` says that the image is linked no higher than where the memory of the hardware ends, as `linker.ld` does (both 1 MB), so that an entry the bitmap may be put in is never below the image, and the bitmap, when the image is in that entry, is put behind it; and what is written outside the bitmap is written behind it. |
| `PhysicalMgr_proofs`: `Refinement` | the same | `SignBitIsLast` and `ScanStopsAtFreeBlock`: the sign bit reads as clear, but the block before which the scan stops is free all the same, since the scan only looks at the bits of a cell that is not all ones, and reaches the sign bit of such a cell only when every bit below it is set, so the clear one is the sign bit. |
| `InputQueue_proofs`: `TypeCorrect`, `NoNullHead`, `OrderKept` | `MaxKeysAssumption` | the inductive invariant says that links go to larger keys, that head and what the kernel holds lie behind the keys delivered, and, for each position of the kernel, how its local copies relate to head. Nothing is assumed about how often or where interrupts fall. |
| `InputQueue_proofs`: `SizeCounts`, `NothingLost` | the same | beside it: until an interrupt falls into the window of `queue_size--`, what the kernel has loaded there is the size (`SizeInv`); until one falls between the comparison of head with tail and the store to head, the list is a row of consecutive keys from head to the last one pressed (`RowInv`), along which every key is reached (`NatLessThanWellFounded`, by a least key that is not). |
| `Storage_proofs`: `ReadsAreExact` | `DriveAssumption` | the transfers of a read bring every byte of the sectors it needs, each to its place (`Bring`): the groups meet at their ends and the last, maybe empty, reaches the end (`GroupsBring`); the range lies in those sectors (`RangeInSectors`). |
| `Storage_proofs`: `WritesAreExact` | the same, and `MAX_WRITE <= (GROUP + 1) * SECTOR_SIZE` | byte by byte: a byte of the drive is between the first and the last sector of the range, in one of them, or outside (`PlacesInRange`), and each is written from the right place, the ends with what was read there before. The hypothesis says that the longest write needs one command between its ends; run `devfs_groups`, with one byte more than it allows, shows that it is needed. |
| `Storage_proofs`: `DrivesWaitForCommands` | `RegisterAssumption`, `MachineAssumption` | `IdeInv`: during the detection only the drive that was asked works, and it is the selected one; during a call only the called one does, and, without trouble, it is at the sector the driver transfers next, with as many left as the driver has (`InStep`). At the end the drive rests: a call that sends a command has sectors, and the last of them ends it. |
| `Storage_proofs`: `EveryFunctionIsFound` | `CountsAssumption`, `BusAssumption` | each turn of the scan's loops looks at another function and none is left out (`NthOnce`, `NthFinds`: a number has one way to be written in digits); the address written to the port leads back to the function (`AddressedIsFunction`), as long as there are no more devices and functions than its 5 and 3 bits tell apart; after every turn the list is what was reported up to there (`ScanTurn`). `BusAssumption` is what the hardware does: each device has a function 0 that tells whether there are more, and repeats nothing else but that one. |
| `Storage_proofs`: `CallsReachTheirSectors` | the same | from `IdeInv` and what the registers hold when the command is written, whatever they held before (`SetUp`): the digits of an address put together again are the address as far as 48 or 28 bits reach (`SixDigits`, `Within48`, `Within28`), and the last three alone the address modulo 2^24 (`LowThree`). In trouble a drive at work on a write has its place and what is left add up to the end of the call, so that it stays within its sectors. Nothing is assumed about the sectors of a call: without trouble the drive has them, as it fails at the first it does not have. `RegisterAssumption` says that the four address bits in the drive/head register divide a byte evenly, `MachineAssumption` only that a drive has LBA or not. |
| `Heap_proofs`: `HeapIsSound` | `HeapAssumption` | the invariant `HeapInv`: the list is linked in the order of addresses through the holes (`Linked`), chunks and holes lie side by side without overlap (`Laid`), in mapped pages (`Backed`), and the tail that an extension without frames leaves behind points into nothing in use (`TailKept`). The walk from the head meets exactly the holes, since a first node it misses would have a predecessor that leads to it; insertion, removal and merging are lemmas over any such list, and malloc, free and realloc are steps composed of them. |
| `Heap_proofs`: `NothingOverlaps`, `OneExtensionServes`, `ListStaysIntact`, `RoomIsKept`, `PromiseIsKept`, `OnlyHolesBehindAreLost` | the same | each from `HeapInv`: the first four are properties of a state; the refinement of `HeapPromise` shows for each step that what a caller gets was a hole or lies behind the old end; and a step's loss is found by comparing the bytes of chunks and holes before and after it (`StepLoses`). |
| `VFS_proofs`: `TypeCorrect`, `Accounted` | `VFSAssumption` | one induction with `MountsComeFirst`: a descriptor is handed out only after a mount, so the byte that a full table sets to 1 never makes the list longer than its nodes. That no position passes the end of a drive needs more: a write is checked by the file system, against the drive its path leads to at that time, which is the one opened as long as the number of mounts is intact. |
| `VFS_proofs`: `OpenFilesKept`, `PathsKeptReachable` | the same | `PathInv`: a drive is only found through a file system mounted on the very folder of the path, and none that is mounted later can be deeper than that (as long as the number of mounts is intact); a path is lost only by a mount counted behind the depth of its path, or by the two writes to the word before the table. |
| `VFS_proofs`: `OpenFilesImplemented` | the same | every step of the table maps to a step of `OpenFiles` or to none, by the invariants above: a descriptor on a drive reads and writes that drive inside its size. One on a name that is no drive leads, after any mounts, to a name that ends the one opened (`OpenFilesStay`), so a drive it comes to write is the one its last part names. |
| `VFS_proofs`: `NodesStayAccounted` | `VectorAssumption` | `VectorInv`: every vector is a thread of nodes of its own, which its links follow to nullptr and its count measures, and no other node is on the heap; the data along the threads are what the vectors hold. The vectors and their nodes are in `lists`, whatever the heap does. Each method is shown to lead from one such state to another: the loops by what is true after each of their turns (`TurnsKept`, by a least turn that fails), and the stores to links by the thread they leave (`Rethreads`), which for sort is the one with one element moved (`InsertedRethreads`). |
| `VFS_proofs`: `ListsAreSequences` | the same, and `BiggerAssumption` | from the same lemmas, since they also say what the vectors hold; the loop of sort keeps the area it has sorted in order (`AreaSorted`, `AreaTakes`). `BiggerAssumption` is what "bigger" means to a sort, a strict order in which elements may be equal; the code leaves it to the function it is given, and the nodes are accounted for without it. |
| `VFS_proofs`: `PathsAreTheirTexts` | `TextsAssumption` | `TextInv`: the slashes of the text are at increasing places (`Marks`) and the parts of the path are what lies between them. After each turn of the loop of `fill_vector` the parts and the string at hand are those of the text read so far (`ScanAt`, `FilledOK`), the loop of `to_string` has written the text up to a slash (`PartWritten`), and `go_up`, `remove_part` and the loop that trims a path for a mount all take out of the parts what stands between two of these places, and so does the text (`CutMeans`). `TextsAssumption` says no more than that a slash is a character and not white space. |
| `VirtualMgr_proofs`: `EtableShowsDirectory` | `IndexAssumption`, `FramesAssumption`, `ClientAssumption` | `StructuresInv`: tables are never in the frames of the two directories and of page_etable, so no edit of a table changes those; a window is reached through the right translation because `map` never leaves a cached one behind; and the directory is written through the identity mapping only when its loop has filled it. Holds also when a table is in frame NULL. |
| `VirtualMgr_proofs`: `TablesStayApart`, `TlbNeverStale`, `AddressSpaceKept` | the same, and `[]TablesAreAllocated` | `SpaceInv`: with tables in frames that were allocated, a new one is in a frame nobody had, so that `map` changes what one page shows (`MapSeparates`), in the TLB as in the table. The hypothesis is needed: run `virtual_mgr_exhausted` shows that it fails when memory is used up and frame NULL serves as a table. |
| `VgaText_proofs`: `PositionOK`, `PendingOK` | `ScreenAssumption` | from every position, on the screen or behind it, each way of printing leaves the position in a column, and at the start of a row if it is the row behind the last: the scroll comes before the next character, and only the end of a row or a newline gets there. |
| `VgaText_proofs`: `TerminalImplemented` | the same | the loops of `copy_row` and `scroll`, over one another and through `putchar`, are given what they have done after each turn (`RowCopied`, `MovedTo`, `Filled`), which is the page moved up (`ScrollOK`); a character printed is then one typed (`TypedOK`), wherever it makes the screen scroll, and `clear`, from any place, has after n blanks blanked the last n places, and all behind once it has scrolled (`Blanked`). Behind the page only characters and the position are kept (`ConsoleKept`). |
| `Kernel_proofs`: `HandlersInOrder` | `LinesAssumption` | `HandlingInv`: a frame exists only while interrupts are off and only behind the set-up. A line's vector is 32 + line because the PICs were remapped before, and its gate closes interrupts. |
| `Kernel_proofs`: `StrokesAreHeardAsTyped` | `KeyTable` | every stroke of a keyboard has a trace (`Traces`): the prefix before each of its bytes, and the one byte, if any, that is the code of the key. `StrokeInv` says that the driver is somewhere on it, with the rest of the bytes still on the wire, and has called the listener exactly when it is past that byte; a listener can only be set where there was none. |
| `Kernel_proofs`: `SleepsAreLongEnough` | `WordAssumption` | `SleepInv`: until a carry falls between the loads, the half that is loaded is one of a count since the sleep began with the same upper half, so what is joined is between that count and now; uses that halves determine a number (`HalvesUnique`). |

Recursive functions (the walk along the heap's list, the reach from the queue's
head, the loops of the console) are dealt with where the induction can be turned
into the choice of a least counterexample among the naturals, which needs no
induction theorem with an operator parameter.

Only model-checked: liveness (with ENABLED out of the prover's reach) of
InputQueue, Ide and Kernel.  Every safety property and refinement that a passing
run checks is also a theorem, up to the hypotheses in the table.  No module declares
a RECURSIVE operator.

## 6. What is not modelled

The C library is a vendored printf and memory copies, the C++ runtime ABI stubs;
of FAT32 only accessors to a directory entry are built, which nothing uses.  Most
of the PCI driver's file is a table of descriptions, most of `idt.cpp` a list of
vectors whose gates are all alike; the table stands for them.  The GDT is constant
data, and the lists of DriversManager are filled once.  Drives without LBA stop
the kernel in the code itself.  In the parts that are modelled the following is
left out: the copy `realloc` makes (only where the chunks lie is kept), reading and
writing through descriptor -1 (`io` would take position and size from the memory
before the table), callers that use the reserved descriptors 0 to 2, sizes near
2^32, writing through `String::at`, the exceptions' handlers beyond their panic,
and the colour of the console, which never changes.
