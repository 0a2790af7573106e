---------------------------- MODULE VirtualMgr ------------------------------
(***************************************************************************)
(* The virtual memory manager, src/kernel/mm/virtual_mgr, on a processor   *)
(* with two-level paging: the switch from the directory of boot.asm to the *)
(* kernel's own one, and map(), which creates page tables on demand and    *)
(* reaches them through the page_etable, a page table that maps all the    *)
(* others at the end of the virtual memory.                                *)
(*                                                                         *)
(* A page is <<directory index, table index>>.  The constants scale the    *)
(* machine: the code has 1024 entries, the kernel at directory index 768,  *)
(* and "the first 4 MB" are the frames one page table can map.             *)
(***************************************************************************)
EXTENDS Integers, FiniteSets

CONSTANTS
    ENTRIES,          \* entries of a directory or of a table
    KERNEL_DIR,       \* directory index of the base of the kernel
    ETABLE_DIR,       \* directory index under which the page tables are seen
    FRAMES,           \* frames of physical memory
    Pool,             \* frames PhysicalMgr hands out
    DeviceFrames,     \* frames of devices: the frame buffer of the screen
    BOOT_FRAME,       \* where temp_page_directory, page_directory and
    DIRECTORY_FRAME,  \*   page_etable, part of the kernel image, are
    ETABLE_FRAME,
    ClientPages,      \* pages that the heap and the video driver map
    Junk,             \* what a frame may contain before it becomes a page table
    MaxCached         \* bound: translations the TLB holds at a time

Index == 0 .. ENTRIES - 1
Frames == 0 .. FRAMES - 1
NotPresent == -1   \* an entry whose present bit is clear
BigPage == -2      \* an entry for the first 4 MB as one large page
Pages == Index \X Index
UserPages == {v \in Pages : v[1] # ETABLE_DIR}

Null == 0          \* what allocate_block returns when memory is used up

ASSUME IndexAssumption ==
    /\ ENTRIES \in Nat
    /\ FRAMES \in Nat
    /\ ENTRIES <= FRAMES
    /\ KERNEL_DIR \in Index /\ KERNEL_DIR # 0
    /\ ETABLE_DIR \in Index /\ ETABLE_DIR \notin {0, KERNEL_DIR}

ASSUME FramesAssumption ==
    /\ {BOOT_FRAME, DIRECTORY_FRAME, ETABLE_FRAME} \subseteq Index \ {Null}
    /\ BOOT_FRAME # DIRECTORY_FRAME
    /\ BOOT_FRAME # ETABLE_FRAME
    /\ DIRECTORY_FRAME # ETABLE_FRAME
    /\ Pool \subseteq Frames \ {Null, BOOT_FRAME, DIRECTORY_FRAME, ETABLE_FRAME}
    /\ DeviceFrames \subseteq Frames \ (Pool \cup Index)
    /\ Junk \subseteq Frames \cup {NotPresent}

\* virtual_mgr.avidocs: the pages of the heap and of the screen lie outside the
\* identity mapping, the kernel and the end of the virtual memory.
ASSUME ClientAssumption ==
    ClientPages \subseteq
      {v \in Pages : v[1] \notin {0, KERNEL_DIR, ETABLE_DIR}}

VARIABLES
    stage,    \* how far VirtualMgr::initialize has come
    next,     \* the page the loop of map_range is at
    cr3,      \* the frame of the active page directory
    memory,   \* frame -> its content, read as 1024 paging entries
    tlb,      \* page -> the translation the processor has cached
    owned     \* frames PhysicalMgr has handed out

vars == <<stage, next, cr3, memory, tlb, owned>>

\* The frame allocator below, through what it promises.
Phys == INSTANCE FrameAllocator WITH pool <- Pool, ret <- Null

-----------------------------------------------------------------------------
(* The processor *)

\* The page walk for page v from the directory in frame dir.
Walk(mem, dir, v) ==
    LET entry == mem[dir][v[1]]
    IN  IF entry = NotPresent THEN NotPresent
        ELSE IF entry = BigPage THEN v[2]
        ELSE mem[entry][v[2]]

Translation(v) == Walk(memory, cr3, v)

\* The frame an access to page v reaches: the cached translation wins.
Access(v) == IF tlb[v] = NotPresent THEN Translation(v) ELSE tlb[v]

Flushed == [v \in Pages |-> NotPresent]

\* Any access caches its translation, at any time; a page that is not present
\* is not cached.
TlbFill(v) ==
    /\ tlb[v] = NotPresent
    /\ Translation(v) # NotPresent
    /\ Cardinality({u \in Pages : tlb[u] # NotPresent}) < MaxCached
    /\ tlb' = [tlb EXCEPT ![v] = Translation(v)]
    /\ UNCHANGED <<stage, next, cr3, memory, owned>>

TlbEvict(v) ==
    /\ tlb[v] # NotPresent
    /\ tlb' = [tlb EXCEPT ![v] = NotPresent]
    /\ UNCHANGED <<stage, next, cr3, memory, owned>>

-----------------------------------------------------------------------------
(* map *)

EmptyTable == [i \in Index |-> NotPresent]

\* get_page_table_virtual_address: the page under which table d is seen.
Window(d) == <<ETABLE_DIR, d>>

HasTable(d) == memory[ETABLE_FRAME][d] # NotPresent

\* Mutant: the table is entered in page_etable only.
WithTable_EtableOnly(d, f) ==
    LET linked == [memory EXCEPT ![ETABLE_FRAME][d] = f]
    IN  [linked EXCEPT ![Walk(linked, cr3, Window(d))] = EmptyTable]

\* Mutant: the new table keeps what the frame contained.
WithTable_NotCleared(d, f) ==
    [memory EXCEPT ![ETABLE_FRAME][d] = f, ![DIRECTORY_FRAME][d] = f]

\* Frame f becomes page table d: entered in page_etable and page_directory, cr3
\* reloaded, and the frame filled with zeros through its window.
WithTable(d, f) ==
    LET linked == [memory EXCEPT ![ETABLE_FRAME][d] = f,
                                 ![DIRECTORY_FRAME][d] = f]
    IN  [linked EXCEPT ![Walk(linked, cr3, Window(d))] = EmptyTable]

\* Mutant: an existing table is changed without invlpg.
Map_NoInvalidation(v, p, taken) ==
    \/ /\ HasTable(v[1])
       /\ memory' = [memory EXCEPT ![Access(Window(v[1]))][v[2]] = p]
       /\ owned' = taken
       /\ UNCHANGED tlb
    \/ /\ ~ HasTable(v[1])
       /\ \E f \in Phys!Answers(Pool, taken) :
            LET mem == WithTable(v[1], f)
            IN  /\ memory' = [mem EXCEPT ![Walk(mem, cr3, Window(v[1]))][v[2]] = p]
                /\ owned' = Phys!Take(taken, f)
       /\ tlb' = Flushed

\* VirtualMgr::map(v, p), by a caller that owns the frames in taken.  The frame
\* answered for a new page table is used unchecked, NULL included.
Map(v, p, taken) ==
    \/ /\ HasTable(v[1])
       /\ memory' = [memory EXCEPT ![Access(Window(v[1]))][v[2]] = p]
       /\ tlb' = [tlb EXCEPT ![v] = NotPresent]   \* invlpg
       /\ owned' = taken
    \/ /\ ~ HasTable(v[1])
       /\ \E f \in Phys!Answers(Pool, taken) :
            LET mem == WithTable(v[1], f)
            IN  /\ memory' = [mem EXCEPT ![Walk(mem, cr3, Window(v[1]))][v[2]] = p]
                /\ owned' = Phys!Take(taken, f)
       /\ tlb' = Flushed

-----------------------------------------------------------------------------
(* initialize *)

BootDirectory ==
    [d \in Index |-> IF d \in {0, KERNEL_DIR} THEN BigPage ELSE NotPresent]

Init ==
    /\ stage = "etable"
    /\ next = 0
    /\ cr3 = BOOT_FRAME
    /\ \E junk \in Junk :
         memory = [f \in Frames |->
                     CASE f = BOOT_FRAME -> BootDirectory
                       [] f \in {DIRECTORY_FRAME, ETABLE_FRAME} -> EmptyTable
                       [] OTHER -> [i \in Index |-> junk]]
    /\ tlb = Flushed
    /\ owned = {}

\* put_page_etable writes the directory at the physical address in cr3, used as
\* a virtual address of the identity mapping.
PutPageEtable(mem, dir) ==
    [mem EXCEPT ![Walk(mem, dir, <<0, dir>>)][ETABLE_DIR] = ETABLE_FRAME]

\* memset of page_etable, then put_page_etable into the boot directory.
InitEtable ==
    /\ stage = "etable"
    /\ memory' = PutPageEtable([memory EXCEPT ![ETABLE_FRAME] = EmptyTable], cr3)
    /\ stage' = "kernel"
    /\ UNCHANGED <<next, cr3, tlb, owned>>

\* One turn of the loop of map_range over the first 4 MB, seen at index d.
MapRangeStep(now, d, then) ==
    /\ stage = now
    /\ Map(<<d, next>>, next, owned)
    /\ IF next + 1 < ENTRIES
       THEN next' = next + 1 /\ UNCHANGED stage
       ELSE next' = 0 /\ stage' = then
    /\ UNCHANGED cr3

MapKernel == MapRangeStep("kernel", KERNEL_DIR, "identity")
MapIdentity == MapRangeStep("identity", 0, "switch")

\* The kernel's own directory becomes the active one and gets its page_etable.
SwitchDirectory ==
    /\ stage = "switch"
    /\ cr3' = DIRECTORY_FRAME
    /\ tlb' = Flushed
    /\ memory' = PutPageEtable(memory, DIRECTORY_FRAME)
    /\ stage' = "running"
    /\ UNCHANGED <<next, owned>>

-----------------------------------------------------------------------------
(* The callers of map *)

\* Mutant: the frame of the page is still free while map() takes its table.
MapNewFrame_StillFree(v) ==
    /\ stage = "running"
    /\ \E f \in Phys!Answers(Pool, owned) \ {Null} : Map(v, f, owned)
    /\ UNCHANGED <<stage, next, cr3>>

\* Heap::initialize and extend_heap: a new frame for a page of the heap; without
\* a frame nothing is mapped.
MapNewFrame(v) ==
    /\ stage = "running"
    /\ \E f \in Phys!Answers(Pool, owned) \ {Null} :
          Map(v, f, Phys!Take(owned, f))
    /\ UNCHANGED <<stage, next, cr3>>

\* VideoDriver::initialize: a frame of the device, not of PhysicalMgr.
MapDevice(v) ==
    /\ stage = "running"
    /\ \E p \in DeviceFrames : Map(v, p, owned)
    /\ UNCHANGED <<stage, next, cr3>>

Next ==
    \/ InitEtable
    \/ MapKernel
    \/ MapIdentity
    \/ SwitchDirectory
    \/ \E v \in ClientPages : MapNewFrame(v) \/ MapDevice(v)
    \/ \E v \in Pages : TlbFill(v) \/ TlbEvict(v)

Spec == Init /\ [][Next]_vars

-----------------------------------------------------------------------------
(* Properties *)

page_etable == memory[ETABLE_FRAME]
page_directory == memory[DIRECTORY_FRAME]

TableFrames == {page_etable[d] : d \in Index \ {ETABLE_DIR}} \ {NotPresent}

\* The etable shows exactly the tables of the directory the processor walks, so
\* that the table map() edits is the table that translates the page.
EtableMirrorsDirectory ==
    /\ \A d \in Index \ {ETABLE_DIR} : page_directory[d] = page_etable[d]
    /\ stage = "running" => page_directory[ETABLE_DIR] = ETABLE_FRAME

\* virtual_mgr.avidocs: "Whenever we need to initialize a new page table, we
\* allocate a frame from the physical manager. This frame will be our new page
\* table."  Every page table lies in a frame the physical manager handed out.
TablesAreAllocated == TableFrames \subseteq owned

\* No frame is two page tables, and no page of a client shows a page table: what
\* the heap writes cannot change a translation.
TablesExclusive ==
    /\ \A d, e \in Index \ {ETABLE_DIR} :
          d # e /\ page_etable[d] = page_etable[e] => page_etable[d] = NotPresent
    /\ \A v \in ClientPages : Translation(v) \notin TableFrames

\* What the processor has cached is what a page walk would find: every change of
\* a present entry is followed by the invalidation it needs.
TlbCoherent ==
    \A v \in Pages : tlb[v] # NotPresent => tlb[v] = Translation(v)

\* The manager implements the abstract address space: creating page tables and
\* switching directories is invisible, map(v, p) changes v alone.
Space == INSTANCE AddressSpace WITH
           Pages <- UserPages,
           MappablePages <- ClientPages,
           BootTranslation <-
             [v \in UserPages |->
                IF v[1] \in {0, KERNEL_DIR} THEN v[2] ELSE NotPresent],
           translation <- [v \in UserPages |-> Translation(v)]
ImplementsAddressSpace == Space!Spec
=============================================================================
