-------------------------- MODULE VirtualMgr_proofs --------------------------
(***************************************************************************)
(* The virtual memory manager for any number of entries, frames and pages: *)
(* the page_etable shows the directory at all times, and as long as every  *)
(* page table is in a frame the allocator has given, tables are in frames  *)
(* of their own, the TLB is coherent and the address space is as promised. *)
(***************************************************************************)
EXTENDS VirtualMgr, TLAPS

Stages == {"etable", "kernel", "identity", "switch", "running"}
Entries == Frames \cup {NotPresent, BigPage}
TableIndex == Index \ {ETABLE_DIR}
Structures == {BOOT_FRAME, DIRECTORY_FRAME, ETABLE_FRAME}

\* What the assumptions say of frames and entries.
LEMMA Layout ==
  /\ {0, KERNEL_DIR, ETABLE_DIR} \subseteq Index
  /\ KERNEL_DIR # 0 /\ ETABLE_DIR # 0 /\ ETABLE_DIR # KERNEL_DIR
  /\ Index \subseteq Frames
  /\ NotPresent \notin Frames /\ BigPage \notin Frames /\ NotPresent # BigPage
  /\ Structures \subseteq Index \ {Null}
  /\ BOOT_FRAME # DIRECTORY_FRAME /\ BOOT_FRAME # ETABLE_FRAME
  /\ DIRECTORY_FRAME # ETABLE_FRAME
  /\ Null \in Frames
  /\ Pool \subseteq Frames \ (Structures \cup {Null})
  /\ DeviceFrames \subseteq Frames \ (Pool \cup Index)
BY IndexAssumption, FramesAssumption
   DEF Index, Frames, NotPresent, BigPage, Structures, Null

\* A page that may be mapped.
Mappable(v) == v \in Pages /\ v[1] \in TableIndex

-----------------------------------------------------------------------------
(* The structures *)

Typed ==
    /\ stage \in Stages
    /\ next \in Index
    /\ memory \in [Frames -> [Index -> Entries]]
    /\ tlb \in [Pages -> Entries]
    /\ owned \subseteq Pool

Running == stage = "running"

\* The boot directory until it is left.
BootKept ==
    ~Running =>
      \A d \in Index :
        memory[BOOT_FRAME][d] =
          IF d \in {0, KERNEL_DIR} THEN BigPage
          ELSE IF d = ETABLE_DIR /\ stage # "etable" THEN ETABLE_FRAME
          ELSE NotPresent

\* Tables are in frames of the pool, or in the frame NULL when there was none.
Mirrored ==
    /\ \A d \in TableIndex :
         /\ page_directory[d] = page_etable[d]
         /\ page_etable[d] \in owned \cup {Null, NotPresent}
    /\ page_etable[ETABLE_DIR] = NotPresent
    /\ page_directory[ETABLE_DIR] = IF Running THEN ETABLE_FRAME ELSE NotPresent

\* The window of a table is never cached wrongly.
WindowsCoherent ==
    \A d \in Index :
      tlb[Window(d)] # NotPresent => tlb[Window(d)] = Translation(Window(d))

\* The first n entries of table d map the first n frames.
Identity(d, n) ==
    \A i \in Index : i < n => HasTable(d) /\ memory[page_etable[d]][i] = i

IdentityMapped ==
    /\ stage = "identity" => Identity(0, next)
    /\ stage = "switch" => Identity(0, ENTRIES)

CoreInv ==
    /\ Typed
    /\ cr3 = IF Running THEN DIRECTORY_FRAME ELSE BOOT_FRAME
    /\ BootKept
    /\ Mirrored
    /\ stage = "etable" => page_etable = EmptyTable /\ next = 0
    /\ WindowsCoherent

StructuresInv == CoreInv /\ IdentityMapped

LEMMA StructuresInit == Init => StructuresInv
<1> SUFFICES ASSUME Init PROVE StructuresInv
  OBVIOUS
<1> USE DEF Init
<1>1. PICK junk \in Junk :
        memory = [f \in Frames |->
                    CASE f = BOOT_FRAME -> BootDirectory
                      [] f \in {DIRECTORY_FRAME, ETABLE_FRAME} -> EmptyTable
                      [] OTHER -> [i \in Index |-> junk]]
  OBVIOUS
<1>2. /\ BootDirectory \in [Index -> Entries] /\ EmptyTable \in [Index -> Entries]
      /\ [i \in Index |-> junk] \in [Index -> Entries]
  BY FramesAssumption DEF BootDirectory, EmptyTable, Entries
<1>3. Structures \subseteq Frames
  BY Layout
<1>4. /\ memory \in [Frames -> [Index -> Entries]]
      /\ memory[BOOT_FRAME] = BootDirectory
      /\ page_directory = EmptyTable /\ page_etable = EmptyTable
  BY <1>1, <1>2, <1>3, Layout DEF page_directory, page_etable, Structures
<1>5. Typed
  BY <1>4, Layout DEF Typed, Stages, Flushed, Entries
<1>6. BootKept /\ Mirrored
  BY <1>4, Layout DEF BootKept, Mirrored, Running, BootDirectory, EmptyTable, TableIndex
<1>7. WindowsCoherent
  BY Layout DEF WindowsCoherent, Flushed, Window, Pages
<1>8. QED
  BY <1>4, <1>5, <1>6, <1>7 DEF StructuresInv, CoreInv, IdentityMapped, Running

-----------------------------------------------------------------------------
(* The two forms of map *)

\* An entry of the table in frame t is written.
Edited(t, v, p) ==
    /\ memory' \in [Frames -> [Index -> Entries]]
    /\ \A g \in Frames, i \in Index :
         memory'[g][i] = IF g = t /\ i = v[2] THEN p ELSE memory[g][i]

\* Frame f becomes the table of v, with one entry.
Created(f, v, p) ==
    /\ memory' \in [Frames -> [Index -> Entries]]
    /\ \A g \in Frames, i \in Index :
         memory'[g][i] =
           IF g = f THEN (IF i = v[2] THEN p ELSE NotPresent)
           ELSE IF g \in {ETABLE_FRAME, DIRECTORY_FRAME} /\ i = v[1] THEN f
           ELSE memory[g][i]

\* A table is reached through its window: the etable is seen in both directories.
LEMMA WindowShowsTable ==
  ASSUME CoreInv, stage # "etable", NEW d \in TableIndex,
         NEW mem \in [Frames -> [Index -> Entries]],
         mem[cr3][ETABLE_DIR] = memory[cr3][ETABLE_DIR]
  PROVE  Walk(mem, cr3, Window(d)) = mem[ETABLE_FRAME][d]
<1>1. memory[cr3][ETABLE_DIR] = ETABLE_FRAME
  <2>1. CASE Running
    BY <2>1 DEF CoreInv, Mirrored, page_directory
  <2>2. CASE ~Running
    BY <2>2, Layout DEF CoreInv, BootKept
  <2>3. QED
    BY <2>1, <2>2
<1>2. ETABLE_FRAME \in Frames
  BY Layout DEF Structures
<1>3. QED
  BY <1>1, <1>2, Layout DEF Walk, Window

LEMMA MapForms ==
  ASSUME CoreInv, stage # "etable", NEW v, Mappable(v), NEW p \in Frames,
         NEW taken \in SUBSET Pool, owned \subseteq taken, Map(v, p, taken)
  PROVE  \/ /\ HasTable(v[1])
            /\ Edited(page_etable[v[1]], v, p)
            /\ tlb' = [tlb EXCEPT ![v] = NotPresent]
            /\ owned' = taken
         \/ /\ ~HasTable(v[1])
            /\ \E f \in (Pool \ taken) \cup {Null} :
                 Created(f, v, p) /\ owned' = taken \cup ({f} \ {Null})
            /\ tlb' = Flushed
<1> DEFINE d == v[1]
<1>1. d \in TableIndex /\ v[2] \in Index /\ d \in Index /\ d # ETABLE_DIR
  BY DEF Mappable, Pages, TableIndex
<1>2. memory \in [Frames -> [Index -> Entries]]
  BY DEF CoreInv, Typed
<1>3. cr3 \in {BOOT_FRAME, DIRECTORY_FRAME}
  BY DEF CoreInv
<1>4. p \in Entries
  BY DEF Entries
<1>5. CASE HasTable(d)
  <2>1. Access(Window(d)) = page_etable[d]
    <3>1. Translation(Window(d)) = page_etable[d]
      BY <1>1, <1>2, WindowShowsTable DEF Translation, page_etable
    <3>2. QED
      BY <1>1, <3>1 DEF Access, CoreInv, WindowsCoherent
  <2>2. page_etable[d] \in Frames
    BY <1>1, <1>5, Layout DEF HasTable, page_etable, CoreInv, Mirrored, Typed
  <2>3. /\ memory' = [memory EXCEPT ![page_etable[d]][v[2]] = p]
        /\ tlb' = [tlb EXCEPT ![v] = NotPresent]
        /\ owned' = taken
    BY <1>5, <2>1 DEF Map
  <2>4. Edited(page_etable[d], v, p)
    <3> DEFINE t == page_etable[d]
    <3>1. memory' = [memory EXCEPT ![t][v[2]] = p] /\ t \in Frames
      BY <2>2, <2>3
    <3> HIDE DEF t
    <3>2. QED
      BY <1>1, <1>2, <1>4, <3>1 DEF Edited, t
  <2>5. QED
    BY <1>5, <2>3, <2>4
<1>6. CASE ~HasTable(d)
  <2>1. PICK f \in Phys!Answers(Pool, taken) :
          LET mem == WithTable(d, f)
          IN  /\ memory' = [mem EXCEPT ![Walk(mem, cr3, Window(d))][v[2]] = p]
              /\ owned' = Phys!Take(taken, f)
    BY <1>6 DEF Map
  <2>2. f \in (Pool \ taken) \cup {Null} /\ owned' = taken \cup ({f} \ {Null})
    BY <2>1 DEF Phys!Answers, Phys!Take, Phys!Null, Null
  <2>3. f \in Frames /\ f \in Entries /\ f \notin Structures
    BY <2>2, Layout DEF Entries
  <2> DEFINE linked == [memory EXCEPT ![ETABLE_FRAME][d] = f, ![DIRECTORY_FRAME][d] = f]
             mem == WithTable(d, f)
  <2>4. /\ linked \in [Frames -> [Index -> Entries]]
        /\ \A g \in Frames, i \in Index :
             linked[g][i] = IF g \in {ETABLE_FRAME, DIRECTORY_FRAME} /\ i = d THEN f
                            ELSE memory[g][i]
    BY <1>1, <1>2, <2>3, Layout DEF Structures
  <2>5. Walk(linked, cr3, Window(d)) = f
    <3>1. linked[cr3][ETABLE_DIR] = memory[cr3][ETABLE_DIR]
      BY <1>1, <1>3, <2>4, Layout DEF Structures
    <3>2. linked[ETABLE_FRAME][d] = f
      BY <1>1, <2>4, Layout DEF Structures
    <3> HIDE DEF linked
    <3>3. QED
      BY <1>1, <2>4, <3>1, <3>2, WindowShowsTable
  <2>6. mem = [linked EXCEPT ![f] = EmptyTable]
    BY <2>5 DEF WithTable
  <2> HIDE DEF linked, mem
  <2>7. EmptyTable \in [Index -> Entries]
    BY DEF EmptyTable, Entries
  <2>8. /\ mem \in [Frames -> [Index -> Entries]]
        /\ \A g \in Frames, i \in Index :
             mem[g][i] = IF g = f THEN NotPresent ELSE linked[g][i]
    BY <2>3, <2>4, <2>6, <2>7 DEF EmptyTable
  <2>9. Walk(mem, cr3, Window(d)) = f
    <3>1. mem[cr3][ETABLE_DIR] = memory[cr3][ETABLE_DIR]
      BY <1>1, <1>3, <2>3, <2>4, <2>8, Layout DEF Structures
    <3>2. mem[ETABLE_FRAME][d] = f
      BY <1>1, <2>3, <2>4, <2>8, Layout DEF Structures
    <3>3. QED
      BY <1>1, <2>8, <3>1, <3>2, WindowShowsTable
  <2>10. memory' = [mem EXCEPT ![f][v[2]] = p]
    BY <2>1, <2>9 DEF mem
  <2>11. Created(f, v, p)
    <3>1. memory' \in [Frames -> [Index -> Entries]]
      BY <1>1, <1>4, <2>3, <2>8, <2>10
    <3>2. \A g \in Frames, i \in Index :
            memory'[g][i] = IF g = f /\ i = v[2] THEN p ELSE mem[g][i]
      BY <1>1, <1>4, <2>3, <2>8, <2>10
    <3>3. QED
      BY <2>4, <2>8, <3>1, <3>2 DEF Created
  <2>12. tlb' = Flushed
    BY <1>6 DEF Map
  <2>13. QED
    BY <1>6, <2>2, <2>11, <2>12
<1>7. QED
  BY <1>5, <1>6

-----------------------------------------------------------------------------
(* Every step keeps the structures *)

\* map writes neither the boot directory nor an entry of another table in the
\* etable, whatever frame it was given for a table.
LEMMA MapKeepsCore ==
  ASSUME CoreInv, stage # "etable", NEW v, Mappable(v), NEW p \in Frames,
         NEW taken \in SUBSET Pool, owned \subseteq taken, Map(v, p, taken),
         stage' \in Stages \ {"etable"}, next' \in Index, UNCHANGED cr3,
         Running' = Running
  PROVE  CoreInv'
<1> DEFINE d == v[1]
<1>1. d \in TableIndex /\ v[2] \in Index /\ d \in Index /\ d # ETABLE_DIR /\ v \in Pages
  BY DEF Mappable, Pages, TableIndex
<1>2. Typed /\ Mirrored /\ BootKept
  BY DEF CoreInv
<1>3. CASE HasTable(d) /\ Edited(page_etable[d], v, p)
           /\ tlb' = [tlb EXCEPT ![v] = NotPresent] /\ owned' = taken
  <2> DEFINE t == page_etable[d]
  <2>1. t \in Frames /\ t \notin Structures
    BY <1>1, <1>2, <1>3, Layout DEF Mirrored, HasTable, page_etable, Typed
  <2>2. memory' \in [Frames -> [Index -> Entries]]
        /\ \A g \in Structures, i \in Index : memory'[g][i] = memory[g][i]
    <3>1. Structures \subseteq Frames
      BY Layout
    <3>2. QED
      BY <1>3, <2>1, <3>1 DEF Edited
  <2>3. /\ tlb' \in [Pages -> Entries] /\ owned' \subseteq Pool /\ owned \subseteq owned'
        /\ \A u \in Pages : tlb'[u] = tlb[u] \/ tlb'[u] = NotPresent
    BY <1>1, <1>2, <1>3 DEF Typed, Entries
  <2>4. Typed'
    BY <2>2, <2>3 DEF Typed
  <2>5. BootKept'
    BY <1>2, <2>2 DEF BootKept, Running, Structures
  <2>6. Mirrored'
    BY <1>2, <2>2, <2>3, Layout DEF Mirrored, page_etable, page_directory, Structures, TableIndex
  <2>7. ASSUME NEW e \in Index PROVE Translation(Window(e))' = Translation(Window(e))
    <3>1. cr3 \in Structures /\ ETABLE_DIR \in Index
      BY Layout DEF CoreInv, Structures
    <3>2. memory[cr3][ETABLE_DIR] = ETABLE_FRAME
      BY <1>2, Layout DEF CoreInv, Mirrored, BootKept, page_directory
    <3>3. memory'[cr3][ETABLE_DIR] = ETABLE_FRAME
      BY <2>2, <3>1, <3>2
    <3>4. ETABLE_FRAME \in Structures /\ NotPresent # ETABLE_FRAME /\ BigPage # ETABLE_FRAME
      BY Layout DEF Structures
    <3>5. QED
      BY <2>2, <3>2, <3>3, <3>4 DEF Translation, Walk, Window
  <2>8. WindowsCoherent'
    <3>1. \A e \in Index : Window(e) \in Pages /\ Window(e)' = Window(e)
      BY Layout DEF Window, Pages
    <3>2. QED
      BY <2>3, <2>7, <3>1 DEF WindowsCoherent, CoreInv
  <2>9. QED
    BY <2>4, <2>5, <2>6, <2>8 DEF CoreInv
<1>4. ASSUME ~HasTable(d), NEW f \in (Pool \ taken) \cup {Null}, Created(f, v, p),
             owned' = taken \cup ({f} \ {Null}), tlb' = Flushed
      PROVE  CoreInv'
  <2>1. f \in Frames /\ f \notin Structures
    BY Layout
  <2>2. memory' \in [Frames -> [Index -> Entries]]
        /\ \A g \in Structures, i \in Index :
             memory'[g][i] = IF g # BOOT_FRAME /\ i = d THEN f ELSE memory[g][i]
    <3>1. Structures \subseteq Frames
      BY Layout
    <3>2. QED
      BY <1>4, <2>1, <3>1, Layout DEF Created, Structures
  <2>3. /\ tlb' \in [Pages -> Entries] /\ owned' \subseteq Pool /\ owned \subseteq owned'
        /\ f \in owned' \cup {Null}
    BY <1>4 DEF Flushed, Entries
  <2>4. Typed'
    BY <2>2, <2>3 DEF Typed
  <2>5. BootKept'
    BY <1>2, <2>2 DEF BootKept, Running, Structures
  <2>6. Mirrored'
    BY <1>1, <1>2, <2>2, <2>3, Layout
       DEF Mirrored, page_etable, page_directory, Structures, TableIndex
  <2>7. WindowsCoherent'
    <3>1. \A e \in Index : Window(e) \in Pages /\ Window(e)' = Window(e)
      BY Layout DEF Window, Pages
    <3>2. QED
      BY <1>4, <3>1 DEF WindowsCoherent, Flushed
  <2>8. QED
    BY <2>4, <2>5, <2>6, <2>7 DEF CoreInv
<1>5. QED
  BY <1>3, <1>4, MapForms

\* A turn of the loop over the first frames fills one more entry of the table.
LEMMA MapFills ==
  ASSUME CoreInv, stage # "etable", NEW d \in TableIndex,
         Map(<<d, next>>, next, owned), Identity(d, next)
  PROVE  /\ \A i \in Index : i <= next => memory'[page_etable'[d]][i] = i
         /\ page_etable'[d] # NotPresent
<1> DEFINE v == <<d, next>>
<1>1. Mappable(v) /\ v[1] = d /\ v[2] = next /\ next \in Index /\ next \in Frames /\ d \in Index
  BY Layout DEF Mappable, Pages, TableIndex, CoreInv, Typed
<1>2. owned \in SUBSET Pool /\ memory \in [Frames -> [Index -> Entries]] /\ Mirrored
  BY DEF CoreInv, Typed
<1> HIDE DEF v
<1>3. \/ /\ HasTable(d)
         /\ Edited(page_etable[d], v, next)
      \/ /\ ~HasTable(d)
         /\ \E f \in (Pool \ owned) \cup {Null} : Created(f, v, next)
  BY <1>1, <1>2, MapForms DEF v
<1>4. next \in Int /\ \A i \in Index : i \in Int
  BY <1>1 DEF Index
<1>5. CASE HasTable(d) /\ Edited(page_etable[d], v, next)
  <2>1. page_etable[d] \in Frames /\ page_etable[d] \notin Structures
    BY <1>1, <1>2, <1>5, Layout DEF Mirrored, HasTable, page_etable
  <2>2. page_etable'[d] = page_etable[d]
    BY <1>1, <1>5, <2>1, Layout DEF Edited, page_etable, Structures
  <2>3. \A i \in Index : i <= next => memory'[page_etable[d]][i] = i
    <3> DEFINE t == page_etable[d]
    <3>1. \A i \in Index : memory'[t][i] = IF i = next THEN next ELSE memory[t][i]
      BY <1>1, <1>5, <2>1 DEF Edited
    <3>2. \A i \in Index : i < next => memory[t][i] = i
      BY DEF Identity
    <3> HIDE DEF t
    <3>3. \A i \in Index : i <= next => i < next \/ i = next
      BY <1>4
    <3>4. \A i \in Index : i <= next => memory'[t][i] = i
      BY <3>1, <3>2, <3>3
    <3>5. QED
      BY <3>4 DEF t
  <2>4. QED
    BY <2>1, <2>2, <2>3, Layout
<1>6. ASSUME ~HasTable(d), NEW f \in (Pool \ owned) \cup {Null}, Created(f, v, next)
      PROVE  /\ \A i \in Index : i <= next => memory'[page_etable'[d]][i] = i
             /\ page_etable'[d] # NotPresent
  <2>1. f \in Frames /\ f \notin Structures
    BY Layout
  <2>2. page_etable'[d] = f
    BY <1>1, <1>6, <2>1, Layout DEF Created, page_etable, Structures
  <2>3. \A i \in Index : ~ (i < next)
    BY <1>6 DEF Identity
  <2>4. \A i \in Index : i <= next => i = next
    BY <1>4, <2>3
  <2>5. memory'[f][next] = next
    BY <1>1, <1>6, <2>1 DEF Created
  <2>6. QED
    BY <2>1, <2>2, <2>4, <2>5, Layout
<1>7. QED
  BY <1>3, <1>5, <1>6

-----------------------------------------------------------------------------
(* The steps of initialize and the steps of the processor *)

LEMMA InitEtableKeeps ==
  ASSUME StructuresInv, InitEtable
  PROVE  StructuresInv' /\ \A i \in Index : page_etable[i] = NotPresent /\ page_etable'[i] = NotPresent
<1> DEFINE cleared == [memory EXCEPT ![ETABLE_FRAME] = EmptyTable]
<1>1. /\ Typed /\ BootKept /\ Mirrored /\ cr3 = BOOT_FRAME /\ ~Running
      /\ page_etable = EmptyTable
  BY DEF InitEtable, StructuresInv, CoreInv, Running
<1>2. cleared = memory
  BY <1>1 DEF page_etable, Typed
<1>3. Walk(memory, BOOT_FRAME, <<0, BOOT_FRAME>>) = BOOT_FRAME
  BY <1>1, Layout DEF Walk, BootKept
<1>4. memory' = [memory EXCEPT ![BOOT_FRAME][ETABLE_DIR] = ETABLE_FRAME]
  <2>1. memory' = PutPageEtable(cleared, BOOT_FRAME)
    BY <1>1 DEF InitEtable
  <2>2. QED
    BY <1>2, <1>3, <2>1 DEF PutPageEtable
<1>5. /\ memory' \in [Frames -> [Index -> Entries]]
      /\ \A g \in Frames, i \in Index :
           memory'[g][i] = IF g = BOOT_FRAME /\ i = ETABLE_DIR THEN ETABLE_FRAME
                           ELSE memory[g][i]
  BY <1>1, <1>4, Layout DEF Typed, Structures, Entries
<1>6. /\ stage' = "kernel" /\ next' = next /\ cr3' = cr3 /\ tlb' = tlb /\ owned' = owned
      /\ ~Running'
  BY DEF InitEtable, Running
<1>7. Typed'
  BY <1>1, <1>5, <1>6 DEF Typed, Stages
<1>8. BootKept'
  BY <1>1, <1>5, <1>6, Layout DEF BootKept, InitEtable, Structures
<1>9. Mirrored'
  BY <1>1, <1>5, <1>6, Layout DEF Mirrored, page_etable, page_directory, Structures, TableIndex
<1>10. WindowsCoherent'
  <2>1. \A d \in Index : Window(d) \in Pages /\ Window(d)' = Window(d)
    BY Layout DEF Window, Pages
  <2>2. \A d \in Index : Translation(Window(d)) = NotPresent
    BY <1>1, Layout DEF Translation, Walk, Window, BootKept, InitEtable
  <2>3. \A d \in Index : tlb[Window(d)] = NotPresent
    BY <2>2 DEF StructuresInv, CoreInv, WindowsCoherent
  <2>4. QED
    BY <1>6, <2>1, <2>3 DEF WindowsCoherent
<1>11. \A i \in Index : page_etable[i] = NotPresent /\ page_etable'[i] = NotPresent
  BY <1>1, <1>5, Layout DEF EmptyTable, page_etable, Structures
<1>12. QED
  BY <1>1, <1>6, <1>7, <1>8, <1>9, <1>10, <1>11 DEF StructuresInv, CoreInv, IdentityMapped

LEMMA MapRangeKeeps ==
  ASSUME StructuresInv, MapKernel \/ MapIdentity
  PROVE  StructuresInv'
<1>1. PICK d \in {0, KERNEL_DIR} :
        /\ Map(<<d, next>>, next, owned)
        /\ IF next + 1 < ENTRIES THEN next' = next + 1 /\ UNCHANGED stage
           ELSE next' = 0 /\ stage' = IF d = 0 THEN "switch" ELSE "identity"
        /\ stage = IF d = 0 THEN "identity" ELSE "kernel"
        /\ UNCHANGED cr3
  BY Layout DEF MapKernel, MapIdentity, MapRangeStep
<1>2. CoreInv /\ Typed /\ owned \in SUBSET Pool
  BY DEF StructuresInv, CoreInv, Typed
<1>3. d \in TableIndex /\ Mappable(<<d, next>>) /\ next \in Frames
  BY <1>2, Layout DEF TableIndex, Mappable, Pages, Typed
<1>4. next \in Index /\ next' \in Index /\ next \in Int /\ 0 <= next /\ next < ENTRIES
  BY <1>1, <1>2, IndexAssumption DEF Typed, Index
<1>5. /\ stage # "etable" /\ stage' \in Stages \ {"etable"} /\ Running' = Running
  BY <1>1 DEF Stages, Running
<1>6. CoreInv'
  BY <1>1, <1>2, <1>3, <1>4, <1>5, MapKeepsCore
<1>7. IdentityMapped'
  <2>1. CASE d = KERNEL_DIR
    <3>1. stage' = "kernel" \/ (stage' = "identity" /\ next' = 0)
      BY <1>1, <2>1, Layout
    <3>2. \A i \in Index : ~ (i < 0)
      BY DEF Index
    <3>3. QED
      BY <3>1, <3>2 DEF IdentityMapped, Identity
  <2>2. CASE d = 0
    <3>1. Identity(0, next)
      BY <1>1, <2>2 DEF StructuresInv, IdentityMapped
    <3>2. /\ \A i \in Index : i <= next => memory'[page_etable'[0]][i] = i
          /\ page_etable'[0] # NotPresent
      BY <1>1, <1>2, <1>3, <1>5, <2>2, <3>1, MapFills
    <3>3. HasTable(0)'
      BY <3>2 DEF HasTable, page_etable
    <3>4. CASE stage' = "identity"
      <4>1. next' = next + 1
        BY <1>1, <2>2, <3>4
      <4>2. \A i \in Index : i < next' => i <= next
        BY <1>4, <4>1 DEF Index
      <4>3. QED
        BY <3>2, <3>3, <3>4, <4>2 DEF IdentityMapped, Identity
    <3>5. CASE stage' = "switch"
      <4>1. ~ (next + 1 < ENTRIES)
        BY <1>1, <2>2, <3>5
      <4>2. \A i \in Index : i <= next
        BY <1>4, <4>1, IndexAssumption DEF Index
      <4>3. QED
        BY <3>2, <3>3, <3>5, <4>2 DEF IdentityMapped, Identity
    <3>6. QED
      BY <1>1, <2>2, <3>4, <3>5
  <2>3. QED
    BY <2>1, <2>2
<1>8. QED
  BY <1>6, <1>7 DEF StructuresInv

LEMMA SwitchKeeps ==
  ASSUME StructuresInv, SwitchDirectory
  PROVE  /\ StructuresInv'
         /\ \A g \in Frames, i \in Index :
              memory'[g][i] = IF g = DIRECTORY_FRAME /\ i = ETABLE_DIR THEN ETABLE_FRAME
                              ELSE memory[g][i]
<1>1. /\ Typed /\ BootKept /\ Mirrored /\ ~Running
      /\ stage = "switch" /\ Identity(0, ENTRIES)
  BY DEF SwitchDirectory, StructuresInv, CoreInv, Running, IdentityMapped
<1>2. DIRECTORY_FRAME \in Index /\ DIRECTORY_FRAME < ENTRIES /\ 0 \in TableIndex
  BY Layout, IndexAssumption DEF Structures, Index, TableIndex
<1>3. Walk(memory, DIRECTORY_FRAME, <<0, DIRECTORY_FRAME>>) = DIRECTORY_FRAME
  <2>1. /\ memory[page_etable[0]][DIRECTORY_FRAME] = DIRECTORY_FRAME
        /\ page_etable[0] # NotPresent
    BY <1>1, <1>2 DEF Identity, HasTable, page_etable
  <2>2. page_directory[0] = page_etable[0] /\ page_etable[0] # BigPage
    BY <1>1, <1>2, Layout DEF Mirrored, Typed
  <2>3. QED
    BY <2>1, <2>2 DEF Walk, page_directory
<1>4. memory' = [memory EXCEPT ![DIRECTORY_FRAME][ETABLE_DIR] = ETABLE_FRAME]
  BY <1>3 DEF SwitchDirectory, PutPageEtable
<1>5. /\ memory' \in [Frames -> [Index -> Entries]]
      /\ \A g \in Frames, i \in Index :
           memory'[g][i] = IF g = DIRECTORY_FRAME /\ i = ETABLE_DIR THEN ETABLE_FRAME
                           ELSE memory[g][i]
  BY <1>1, <1>4, Layout DEF Typed, Structures, Entries
<1>6. /\ stage' = "running" /\ next' = next /\ cr3' = DIRECTORY_FRAME /\ tlb' = Flushed
      /\ owned' = owned /\ Running'
  BY DEF SwitchDirectory, Running
<1>7. Typed'
  BY <1>1, <1>5, <1>6, Layout DEF Typed, Stages, Flushed, Entries
<1>8. Mirrored'
  BY <1>1, <1>5, <1>6, Layout DEF Mirrored, page_etable, page_directory, Structures, TableIndex
<1>9. WindowsCoherent'
  <2>1. \A d \in Index : Window(d) \in Pages /\ Window(d)' = Window(d)
    BY Layout DEF Window, Pages
  <2>2. QED
    BY <1>6, <2>1 DEF WindowsCoherent, Flushed
<1>10. QED
  BY <1>5, <1>6, <1>7, <1>8, <1>9 DEF StructuresInv, CoreInv, IdentityMapped, BootKept

\* Translations come and go in the TLB.
LEMMA TlbKeeps ==
  ASSUME StructuresInv, NEW v \in Pages, TlbFill(v) \/ TlbEvict(v)
  PROVE  StructuresInv'
<1>1. Typed /\ BootKept /\ Mirrored /\ WindowsCoherent
  BY DEF StructuresInv, CoreInv
<1>2. /\ stage' = stage /\ next' = next /\ cr3' = cr3 /\ memory' = memory /\ owned' = owned
      /\ \/ tlb' = [tlb EXCEPT ![v] = Translation(v)] /\ Translation(v) # NotPresent
         \/ tlb' = [tlb EXCEPT ![v] = NotPresent]
  BY DEF TlbFill, TlbEvict
<1>3. Translation(v) \in Entries
  <2>1. cr3 \in Frames /\ memory[cr3][v[1]] \in Entries /\ v[2] \in Index
    BY <1>1, Layout DEF Typed, StructuresInv, CoreInv, Structures, Pages
  <2>2. QED
    BY <1>1, <2>1, Layout DEF Translation, Walk, Typed, Entries
<1>4. tlb' \in [Pages -> Entries]
  BY <1>1, <1>2, <1>3 DEF Typed, Entries
<1>5. Typed'
  BY <1>1, <1>2, <1>4 DEF Typed
<1>6. BootKept' /\ Mirrored' /\ IdentityMapped'
  BY <1>1, <1>2 DEF BootKept, Mirrored, IdentityMapped, StructuresInv, Running,
                    page_etable, page_directory, Identity, HasTable
<1>7. WindowsCoherent'
  <2>1. \A d \in Index : Window(d) \in Pages /\ Window(d)' = Window(d)
    BY Layout DEF Window, Pages
  <2>2. \A u \in Pages : Translation(u)' = Translation(u)
    BY <1>2 DEF Translation, Walk
  <2>3. QED
    BY <1>1, <1>2, <2>1, <2>2 DEF WindowsCoherent, Typed
<1>8. QED
  BY <1>2, <1>5, <1>6, <1>7 DEF StructuresInv, CoreInv, Running, page_etable

\* What the callers of map pass it.
LEMMA ClientMaps ==
  ASSUME StructuresInv, NEW v \in ClientPages, MapNewFrame(v) \/ MapDevice(v)
  PROVE  \E p \in Pool \cup DeviceFrames, taken \in SUBSET Pool :
           /\ Map(v, p, taken) /\ p \in (taken \ owned) \cup DeviceFrames
           /\ taken = owned \cup ({p} \ DeviceFrames)
<1>1. owned \subseteq Pool
  BY DEF StructuresInv, CoreInv, Typed
<1>2. CASE MapNewFrame(v)
  <2>1. PICK f \in Phys!Answers(Pool, owned) \ {Null} : Map(v, f, Phys!Take(owned, f))
    BY <1>2 DEF MapNewFrame
  <2>2. f \in Pool \ owned /\ Phys!Take(owned, f) = owned \cup {f} /\ f \notin DeviceFrames
    BY <2>1, Layout DEF Phys!Answers, Phys!Take, Phys!Null, Null
  <2>3. owned \cup {f} \in SUBSET Pool /\ owned \cup {f} = owned \cup ({f} \ DeviceFrames)
    BY <1>1, <2>2
  <2>4. QED
    BY <2>1, <2>2, <2>3
<1>3. CASE MapDevice(v)
  <2>1. PICK p \in DeviceFrames : Map(v, p, owned)
    BY <1>3 DEF MapDevice
  <2>2. owned = owned \cup ({p} \ DeviceFrames) /\ owned \in SUBSET Pool
    BY <1>1, <2>1
  <2>3. QED
    BY <2>1, <2>2
<1>4. QED
  BY <1>2, <1>3

LEMMA ClientKeeps ==
  ASSUME StructuresInv, NEW v \in ClientPages, MapNewFrame(v) \/ MapDevice(v)
  PROVE  StructuresInv'
<1>1. stage = "running" /\ UNCHANGED <<stage, next, cr3>>
  BY DEF MapNewFrame, MapDevice
<1>2. PICK p \in Pool \cup DeviceFrames, taken \in SUBSET Pool :
        Map(v, p, taken) /\ owned \subseteq taken
  BY ClientMaps
<1>3. Mappable(v) /\ p \in Frames
  BY ClientAssumption, Layout DEF Mappable, TableIndex, Pages
<1>4. CoreInv /\ next' \in Index /\ stage' \in Stages \ {"etable"} /\ Running' = Running
  BY <1>1 DEF StructuresInv, CoreInv, Typed, Stages, Running
<1>5. CoreInv'
  BY <1>1, <1>2, <1>3, <1>4, MapKeepsCore
<1>6. QED
  BY <1>1, <1>5 DEF StructuresInv, IdentityMapped

LEMMA StructuresNext == StructuresInv /\ [Next]_vars => StructuresInv'
<1> SUFFICES ASSUME StructuresInv, [Next]_vars PROVE StructuresInv'
  OBVIOUS
<1>1. CASE InitEtable
  BY <1>1, InitEtableKeeps
<1>2. CASE MapKernel \/ MapIdentity
  BY <1>2, MapRangeKeeps
<1>3. CASE SwitchDirectory
  BY <1>3, SwitchKeeps
<1>4. CASE \E v \in ClientPages : MapNewFrame(v) \/ MapDevice(v)
  BY <1>4, ClientKeeps
<1>5. CASE \E v \in Pages : TlbFill(v) \/ TlbEvict(v)
  BY <1>5, TlbKeeps
<1>6. CASE UNCHANGED vars
  BY <1>6 DEF vars, StructuresInv, CoreInv, Typed, BootKept, Mirrored, WindowsCoherent,
              IdentityMapped, Identity, HasTable, Running, page_etable, page_directory,
              Translation, Walk, Window
<1>7. QED
  BY <1>1, <1>2, <1>3, <1>4, <1>5, <1>6 DEF Next

LEMMA StructuresHold == Spec => []StructuresInv
<1>1. QED
  BY StructuresInit, StructuresNext, PTL DEF Spec

\* The etable shows exactly the tables of the directory the processor walks, at
\* all times, even when memory is used up and frame NULL serves as a page table.
THEOREM EtableShowsDirectory == Spec => []EtableMirrorsDirectory
<1>1. StructuresInv => EtableMirrorsDirectory
  BY DEF StructuresInv, CoreInv, Mirrored, EtableMirrorsDirectory, TableIndex, Running
<1>2. QED
  BY <1>1, StructuresHold, PTL

-----------------------------------------------------------------------------
(* The address space, while page tables are in frames that were allocated *)

\* What table d holds for its page i.
Content(d, i) == IF HasTable(d) THEN memory[page_etable[d]][i] ELSE NotPresent

Separated ==
    \A d, e \in TableIndex :
      d # e /\ HasTable(d) => page_etable[d] # page_etable[e]

NoTablesYet == ~Running => \A d \in TableIndex \ {0, KERNEL_DIR} : ~HasTable(d)

ShowsFrames(d, n) == \A i \in Index : i < n => Content(d, i) = i

KernelMapped ==
    /\ stage = "kernel" => ShowsFrames(KERNEL_DIR, next)
    /\ stage \in {"identity", "switch", "running"} => ShowsFrames(KERNEL_DIR, ENTRIES)
    /\ Running => ShowsFrames(0, ENTRIES)

ClientsApart ==
    \A d \in TableIndex \ {0, KERNEL_DIR}, i \in Index :
      Content(d, i) \in (owned \cup DeviceFrames \cup {NotPresent}) \ TableFrames

SpaceInv == Separated /\ NoTablesYet /\ KernelMapped /\ ClientsApart /\ TlbCoherent

\* Where the walk of a page ends, by the table of its index.
Reached(v) ==
    IF v[1] = ETABLE_DIR
    THEN IF stage = "etable" THEN NotPresent ELSE page_etable[v[2]]
    ELSE IF Running THEN Content(v[1], v[2])
    ELSE IF v[1] \in {0, KERNEL_DIR} THEN v[2] ELSE NotPresent

WalksEnd == \A v \in Pages : Translation(v) = Reached(v)

LEMMA Walks == CoreInv => WalksEnd
<1> SUFFICES ASSUME CoreInv, NEW v \in Pages PROVE Translation(v) = Reached(v)
  BY DEF WalksEnd
<1>1. v[1] \in Index /\ v[2] \in Index
  BY DEF Pages
<1>2. CASE Running
  <2>1. cr3 = DIRECTORY_FRAME /\ stage # "etable"
    BY <1>2 DEF CoreInv, Running
  <2>2. CASE v[1] = ETABLE_DIR
    BY <1>2, <2>1, <2>2, Layout
       DEF CoreInv, Mirrored, page_directory, page_etable, Translation, Walk, Reached, Structures
  <2>3. CASE v[1] # ETABLE_DIR
    <3>1. page_directory[v[1]] = page_etable[v[1]] /\ page_etable[v[1]] # BigPage
      BY <1>1, <2>3, Layout DEF CoreInv, Typed, Mirrored, TableIndex
    <3>2. QED
      BY <1>2, <2>1, <2>3, <3>1
         DEF page_directory, page_etable, Translation, Walk, Reached, Content, HasTable
  <2>4. QED
    BY <2>2, <2>3
<1>3. CASE ~Running
  <2>1. cr3 = BOOT_FRAME /\ BootKept
    BY <1>3 DEF CoreInv
  <2>2. QED
    BY <1>1, <1>3, <2>1, Layout
       DEF BootKept, page_etable, Translation, Walk, Reached, Structures
<1>4. QED
  BY <1>2, <1>3

LEMMA WalksNext == CoreInv' => WalksEnd'
BY Walks, PTL

\* What the hypothesis says of one table.
LEMMA Allocated ==
  ASSUME TablesAreAllocated, NEW d \in TableIndex, HasTable(d)
  PROVE  page_etable[d] \in owned /\ page_etable[d] \in TableFrames
BY DEF TablesAreAllocated, TableFrames, HasTable, page_etable, TableIndex

\* map(v, p) changes what v shows and nothing else; a new table is in a frame
\* that nobody had.
LEMMA MapSeparates ==
  ASSUME StructuresInv, Separated, TablesAreAllocated, TablesAreAllocated',
         stage # "etable", NEW v, Mappable(v), NEW p \in Frames,
         NEW taken \in SUBSET Pool, owned \subseteq taken, Map(v, p, taken)
  PROVE  /\ \A d \in TableIndex, i \in Index :
              Content(d, i)' = IF d = v[1] /\ i = v[2] THEN p ELSE Content(d, i)
         /\ \A d \in TableIndex \ {v[1]} : page_etable'[d] = page_etable[d]
         /\ Separated'
         /\ taken \subseteq owned' /\ owned' \subseteq Pool
         /\ \/ page_etable'[v[1]] = page_etable[v[1]] /\ HasTable(v[1])
            \/ page_etable'[v[1]] \in Pool \ taken
         /\ \/ page_etable' = page_etable /\ tlb' = [tlb EXCEPT ![v] = NotPresent]
            \/ tlb' = Flushed
<1> DEFINE d == v[1]
<1>1. d \in TableIndex /\ v[2] \in Index /\ d \in Index /\ v \in Pages /\ TableIndex \subseteq Index
  BY DEF Mappable, Pages, TableIndex
<1>2. /\ CoreInv /\ Mirrored /\ memory \in [Frames -> [Index -> Entries]]
      /\ page_etable \in [Index -> Entries]
  BY Layout DEF StructuresInv, CoreInv, Typed, page_etable, Structures
<1>3. \A e \in TableIndex : HasTable(e) => page_etable[e] \in owned /\ page_etable[e] \in Frames
                                           /\ page_etable[e] \notin Structures
  BY <1>2, Allocated, Layout DEF StructuresInv, CoreInv, Typed
<1>4. CASE /\ HasTable(d) /\ Edited(page_etable[d], v, p)
           /\ tlb' = [tlb EXCEPT ![v] = NotPresent] /\ owned' = taken
  <2> DEFINE t == page_etable[d]
  <2>1. t \in Frames /\ t \notin Structures /\ \A e \in TableIndex : e # d => page_etable[e] # t
    BY <1>1, <1>3, <1>4 DEF Separated
  <2>2. \A i \in Index : page_etable'[i] = page_etable[i]
    BY <1>4, <2>1, Layout DEF Edited, page_etable, Structures
  <2>3. page_etable' = page_etable
    <3>1. page_etable' \in [Index -> Entries]
      BY <1>4, Layout DEF Edited, page_etable, Structures
    <3>2. QED
      BY <1>2, <2>2, <3>1
  <2>4. \A e \in TableIndex, i \in Index :
          Content(e, i)' = IF e = d /\ i = v[2] THEN p ELSE Content(e, i)
    <3> SUFFICES ASSUME NEW e \in TableIndex, NEW i \in Index
                 PROVE  Content(e, i)' = IF e = d /\ i = v[2] THEN p ELSE Content(e, i)
      OBVIOUS
    <3>1. HasTable(e)' = HasTable(e)
      BY <2>3 DEF HasTable, page_etable
    <3>2. CASE HasTable(e)
      <4>1. Content(e, i)' = memory'[page_etable[e]][i] /\ Content(e, i) = memory[page_etable[e]][i]
        BY <2>3, <3>1, <3>2 DEF Content
      <4>2. memory'[page_etable[e]][i] =
              IF page_etable[e] = t /\ i = v[2] THEN p ELSE memory[page_etable[e]][i]
        BY <1>3, <1>4, <3>2 DEF Edited
      <4>3. QED
        BY <2>1, <4>1, <4>2
    <3>3. CASE ~HasTable(e)
      BY <1>4, <3>1, <3>3 DEF Content
    <3>4. QED
      BY <3>2, <3>3
  <2>5. Separated'
    BY <2>3 DEF Separated, HasTable, page_etable
  <2>6. QED
    BY <1>1, <1>4, <2>3, <2>4, <2>5
<1>5. ASSUME ~HasTable(d), NEW f \in (Pool \ taken) \cup {Null}, Created(f, v, p),
             owned' = taken \cup ({f} \ {Null}), tlb' = Flushed
      PROVE  /\ \A e \in TableIndex, i \in Index :
                  Content(e, i)' = IF e = d /\ i = v[2] THEN p ELSE Content(e, i)
             /\ \A e \in TableIndex \ {d} : page_etable'[e] = page_etable[e]
             /\ Separated'
             /\ taken \subseteq owned' /\ owned' \subseteq Pool
             /\ page_etable'[d] \in Pool \ taken
  <2>1. f \in Frames /\ f \notin Structures
    BY Layout
  <2>2. \A i \in Index : page_etable'[i] = IF i = d THEN f ELSE page_etable[i]
    BY <1>1, <1>5, <2>1, Layout DEF Created, page_etable, Structures
  <2>3. HasTable(d)' /\ \A e \in TableIndex : e # d => HasTable(e)' = HasTable(e)
    BY <1>1, <2>1, <2>2, Layout DEF HasTable, page_etable
  <2>4. f \in owned'
    BY <1>1, <2>2, <2>3 DEF TablesAreAllocated, TableFrames, HasTable, page_etable, TableIndex
  <2>5. f \in Pool \ taken /\ owned' \subseteq Pool
    BY <1>5, <2>4, Layout
  <2>6. \A e \in TableIndex : page_etable[e] # f
    BY <1>3, <2>1, <2>5, Layout DEF HasTable, page_etable
  <2>7. \A e \in TableIndex, i \in Index :
          Content(e, i)' = IF e = d /\ i = v[2] THEN p ELSE Content(e, i)
    <3> SUFFICES ASSUME NEW e \in TableIndex, NEW i \in Index
                 PROVE  Content(e, i)' = IF e = d /\ i = v[2] THEN p ELSE Content(e, i)
      OBVIOUS
    <3>1. CASE e = d
      <4>1. Content(e, i)' = memory'[f][i] /\ Content(e, i) = NotPresent
        BY <1>1, <1>5, <2>2, <2>3, <3>1 DEF Content
      <4>2. memory'[f][i] = IF i = v[2] THEN p ELSE NotPresent
        BY <1>5, <2>1 DEF Created
      <4>3. QED
        BY <3>1, <4>1, <4>2
    <3>2. CASE e # d /\ HasTable(e)
      <4>1. /\ Content(e, i)' = memory'[page_etable[e]][i]
            /\ Content(e, i) = memory[page_etable[e]][i]
        BY <1>1, <2>2, <2>3, <3>2 DEF Content
      <4>2. /\ page_etable[e] # f /\ page_etable[e] \in Frames
            /\ page_etable[e] \notin {ETABLE_FRAME, DIRECTORY_FRAME}
        BY <1>3, <2>6, <3>2 DEF Structures
      <4>3. memory'[page_etable[e]][i] = memory[page_etable[e]][i]
        BY <1>5, <4>2 DEF Created
      <4>4. QED
        BY <3>2, <4>1, <4>3
    <3>3. CASE e # d /\ ~HasTable(e)
      BY <2>3, <3>3 DEF Content
    <3>4. QED
      BY <3>1, <3>2, <3>3
  <2>8. Separated'
    <3> SUFFICES ASSUME NEW a \in TableIndex, NEW b \in TableIndex, a # b, HasTable(a)'
                 PROVE  page_etable'[a] # page_etable'[b]
      BY DEF Separated
    <3>1. page_etable'[a] = (IF a = d THEN f ELSE page_etable[a])
          /\ page_etable'[b] = (IF b = d THEN f ELSE page_etable[b])
      BY <1>1, <2>2
    <3>2. QED
      BY <2>3, <2>6, <3>1 DEF Separated
  <2>9. QED
    BY <1>1, <1>5, <2>2, <2>5, <2>7, <2>8
<1>6. QED
  BY <1>2, <1>4, <1>5, MapForms

LEMMA SpaceInit == Init => SpaceInv
<1> SUFFICES ASSUME Init PROVE SpaceInv
  OBVIOUS
<1>1. page_etable = EmptyTable /\ ~Running /\ stage = "etable" /\ tlb = Flushed
  BY StructuresInit DEF StructuresInv, CoreInv, Init, Running
<1>2. \A d \in Index : ~HasTable(d)
  BY <1>1 DEF HasTable, page_etable, EmptyTable
<1>3. Separated /\ NoTablesYet
  BY <1>2 DEF Separated, NoTablesYet, TableIndex
<1>4. KernelMapped
  BY <1>1 DEF KernelMapped
<1>5. ClientsApart
  BY <1>2 DEF ClientsApart, Content, TableFrames, TableIndex
<1>6. TlbCoherent
  BY <1>1 DEF TlbCoherent, Flushed
<1>7. QED
  BY <1>3, <1>4, <1>5, <1>6 DEF SpaceInv

\* As long as there is no table for a client, no client sees one.
LEMMA NoClientsYet == NoTablesYet /\ ~Running => ClientsApart
BY DEF NoTablesYet, ClientsApart, Content, TableFrames

LEMMA NoClientsNext == NoTablesYet' /\ ~Running' => ClientsApart'
BY NoClientsYet, PTL

\* What the walks find, when the tables show what they did.
LEMMA WalksKept ==
  ASSUME StructuresInv, StructuresInv', stage # "etable", stage' # "etable",
         NEW v, Mappable(v), NEW p,
         \A d \in TableIndex, i \in Index :
           Content(d, i)' = IF d = v[1] /\ i = v[2] THEN p ELSE Content(d, i),
         Running' = Running, NEW u \in Pages, u # v,
         u[1] = ETABLE_DIR => page_etable' = page_etable
  PROVE  Translation(u)' = Translation(u)
<1>1. Translation(u) = Reached(u) /\ Translation(u)' = Reached(u)'
  BY Walks, WalksNext DEF StructuresInv, WalksEnd
<1>2. u[1] \in Index /\ u[2] \in Index /\ (u[1] # v[1] \/ u[2] # v[2])
  BY DEF Mappable, Pages
<1>3. u[1] # ETABLE_DIR => Content(u[1], u[2])' = Content(u[1], u[2])
  BY <1>2 DEF TableIndex
<1>4. Reached(u)' = Reached(u)
  BY <1>2, <1>3 DEF Reached
<1>5. QED
  BY <1>1, <1>4

\* map changes a page in the TLB when it changes it in a table.
LEMMA MapKeepsTlb ==
  ASSUME StructuresInv, StructuresInv', SpaceInv, TablesAreAllocated, TablesAreAllocated',
         stage # "etable", stage' # "etable", NEW v, Mappable(v), NEW p \in Frames,
         NEW taken \in SUBSET Pool, owned \subseteq taken, Map(v, p, taken),
         Running' = Running
  PROVE  TlbCoherent'
<1>1. /\ \A d \in TableIndex, i \in Index :
           Content(d, i)' = IF d = v[1] /\ i = v[2] THEN p ELSE Content(d, i)
      /\ \/ page_etable' = page_etable /\ tlb' = [tlb EXCEPT ![v] = NotPresent]
         \/ tlb' = Flushed
  BY MapSeparates DEF SpaceInv
<1>2. CASE tlb' = Flushed
  BY <1>2 DEF TlbCoherent, Flushed
<1>3. CASE page_etable' = page_etable /\ tlb' = [tlb EXCEPT ![v] = NotPresent]
  <2> SUFFICES ASSUME NEW u \in Pages, tlb'[u] # NotPresent
               PROVE  tlb'[u] = Translation(u)'
    BY DEF TlbCoherent
  <2>1. u # v /\ tlb'[u] = tlb[u]
    BY <1>3 DEF StructuresInv, CoreInv, Typed
  <2>2. Translation(u)' = Translation(u)
    BY <1>1, <1>3, <2>1, WalksKept
  <2>3. QED
    BY <2>1, <2>2 DEF SpaceInv, TlbCoherent
<1>4. QED
  BY <1>1, <1>2, <1>3

LEMMA InitEtableKeepsSpace ==
  ASSUME StructuresInv, SpaceInv, InitEtable
  PROVE  SpaceInv' /\ \A u \in UserPages : Translation(u)' = Translation(u)
<1>1. /\ StructuresInv' /\ \A i \in Index : page_etable[i] = NotPresent /\ page_etable'[i] = NotPresent
      /\ stage = "etable" /\ stage' = "kernel" /\ tlb' = tlb /\ next' = 0 /\ ~Running /\ ~Running'
  <2>1. next = 0
    BY DEF StructuresInv, CoreInv, InitEtable
  <2>2. QED
    BY <2>1, InitEtableKeeps DEF InitEtable, Running
<1>2. \A d \in TableIndex : ~HasTable(d) /\ ~HasTable(d)'
  BY <1>1 DEF HasTable, page_etable, TableIndex
<1>3. Separated' /\ NoTablesYet'
  BY <1>2 DEF Separated, NoTablesYet
<1>4. KernelMapped'
  BY <1>1 DEF KernelMapped, ShowsFrames, Index
<1>5. ClientsApart'
  BY <1>1, <1>3, NoClientsNext
<1>6. WalksEnd /\ WalksEnd'
  BY <1>1, Walks, WalksNext DEF StructuresInv
<1>7. \A u \in Pages : u[1] # ETABLE_DIR => Translation(u)' = Translation(u)
  BY <1>1, <1>6 DEF WalksEnd, Reached
<1>8. TlbCoherent'
  <2>1. \A u \in Pages : u[1] = ETABLE_DIR => tlb[u] = NotPresent
    BY <1>1, <1>6 DEF WalksEnd, Reached, SpaceInv, TlbCoherent
  <2>2. QED
    BY <1>1, <1>7, <2>1 DEF SpaceInv, TlbCoherent
<1>9. QED
  BY <1>3, <1>4, <1>5, <1>7, <1>8 DEF SpaceInv, UserPages

LEMMA MapRangeKeepsSpace ==
  ASSUME StructuresInv, SpaceInv, TablesAreAllocated, TablesAreAllocated',
         MapKernel \/ MapIdentity
  PROVE  SpaceInv' /\ \A u \in UserPages : Translation(u)' = Translation(u)
<1>1. PICK d \in {0, KERNEL_DIR} :
        /\ Map(<<d, next>>, next, owned)
        /\ IF next + 1 < ENTRIES THEN next' = next + 1 /\ UNCHANGED stage
           ELSE next' = 0 /\ stage' = IF d = 0 THEN "switch" ELSE "identity"
        /\ stage = IF d = 0 THEN "identity" ELSE "kernel"
        /\ UNCHANGED cr3
  BY Layout DEF MapKernel, MapIdentity, MapRangeStep
<1> DEFINE v == <<d, next>>
<1>2. Mappable(v) /\ v[1] = d /\ v[2] = next /\ next \in Frames /\ next \in Index
      /\ owned \in SUBSET Pool /\ d \in TableIndex
  BY Layout DEF TableIndex, Mappable, Pages, StructuresInv, CoreInv, Typed
<1>3. stage # "etable" /\ stage' # "etable" /\ ~Running /\ ~Running' /\ StructuresInv'
  BY <1>1, MapRangeKeeps DEF Running
<1> HIDE DEF v
<1>4. /\ \A e \in TableIndex, i \in Index :
           Content(e, i)' = IF e = d /\ i = next THEN next ELSE Content(e, i)
      /\ \A e \in TableIndex \ {d} : page_etable'[e] = page_etable[e]
      /\ Separated'
  <2>1. Map(v, next, owned)
    BY <1>1 DEF v
  <2>2. QED
    BY <1>2, <1>3, <2>1, MapSeparates DEF SpaceInv
<1>5. NoTablesYet'
  BY <1>3, <1>4 DEF NoTablesYet, SpaceInv, HasTable, page_etable
<1>6. KernelMapped'
  <2>1. next \in Int /\ 0 <= next /\ next < ENTRIES /\ \A i \in Index : i \in Int /\ 0 <= i
        /\ KERNEL_DIR \in TableIndex /\ 0 \in TableIndex
    BY <1>2, IndexAssumption, Layout DEF Index, TableIndex
  <2>2. CASE d = 0
    <3>1. \A i \in Index : Content(KERNEL_DIR, i)' = Content(KERNEL_DIR, i)
      BY <1>4, <2>1, <2>2, Layout
    <3>2. ShowsFrames(KERNEL_DIR, ENTRIES)
      BY <1>1, <2>2 DEF SpaceInv, KernelMapped
    <3>3. ShowsFrames(KERNEL_DIR, ENTRIES)'
      BY <3>1, <3>2 DEF ShowsFrames
    <3>4. QED
      BY <1>1, <1>3, <2>2, <3>3 DEF KernelMapped
  <2>3. CASE d = KERNEL_DIR
    <3>1. ShowsFrames(KERNEL_DIR, next)
      BY <1>1, <2>3, Layout DEF SpaceInv, KernelMapped
    <3>2. \A i \in Index : Content(KERNEL_DIR, i)' = IF i = next THEN next ELSE Content(KERNEL_DIR, i)
      BY <1>4, <2>1, <2>3
    <3>3. \A i \in Index : i <= next => i < next \/ i = next
      BY <2>1
    <3>4. \A i \in Index : i <= next => Content(KERNEL_DIR, i)' = i
      BY <3>1, <3>2, <3>3 DEF ShowsFrames
    <3>5. CASE next + 1 < ENTRIES
      <4>1. next' = next + 1 /\ stage' = "kernel"
        BY <1>1, <2>3, <3>5, Layout
      <4>2. \A i \in Index : i < next' => i <= next
        BY <2>1, <4>1
      <4>3. QED
        BY <1>3, <3>4, <4>1, <4>2 DEF KernelMapped, ShowsFrames
    <3>6. CASE ~ (next + 1 < ENTRIES)
      <4>1. stage' = "identity"
        BY <1>1, <2>3, <3>6, Layout
      <4>2. \A i \in Index : i <= next
        BY <2>1, <3>6, IndexAssumption DEF Index
      <4>3. QED
        BY <1>3, <3>4, <4>1, <4>2 DEF KernelMapped, ShowsFrames
    <3>7. QED
      BY <3>5, <3>6
  <2>4. QED
    BY <2>2, <2>3
<1>7. ClientsApart'
  BY <1>3, <1>5, NoClientsNext
<1>8. TlbCoherent'
  <2>1. Map(v, next, owned)
    BY <1>1 DEF v
  <2>2. Running' = Running
    BY <1>1 DEF Running
  <2>3. QED
    BY <1>2, <1>3, <2>1, <2>2, MapKeepsTlb
<1>9. \A u \in UserPages : Translation(u)' = Translation(u)
  BY <1>3, Walks, WalksNext DEF StructuresInv, WalksEnd, Reached, UserPages
<1>10. QED
  BY <1>4, <1>5, <1>6, <1>7, <1>8, <1>9 DEF SpaceInv

LEMMA SwitchKeepsSpace ==
  ASSUME StructuresInv, SpaceInv, SwitchDirectory
  PROVE  SpaceInv' /\ \A u \in UserPages : Translation(u)' = Translation(u)
<1>1. /\ StructuresInv'
      /\ \A g \in Frames, i \in Index :
           memory'[g][i] = IF g = DIRECTORY_FRAME /\ i = ETABLE_DIR THEN ETABLE_FRAME
                           ELSE memory[g][i]
      /\ stage = "switch" /\ stage' = "running" /\ ~Running /\ Running' /\ tlb' = Flushed
      /\ owned' = owned
  BY SwitchKeeps DEF SwitchDirectory, Running
<1>2. \A d \in Index : page_etable'[d] = page_etable[d]
  BY <1>1, Layout DEF page_etable, Structures
<1>3. \A d \in TableIndex : HasTable(d)' = HasTable(d)
  BY <1>2 DEF HasTable, page_etable, TableIndex
<1>4. \A d \in TableIndex, i \in Index : Content(d, i)' = Content(d, i)
  <2> SUFFICES ASSUME NEW d \in TableIndex, NEW i \in Index
               PROVE  Content(d, i)' = Content(d, i)
    OBVIOUS
  <2>1. CASE HasTable(d)
    <3>1. page_etable[d] \in Frames /\ page_etable[d] # DIRECTORY_FRAME /\ d \in Index
      BY <2>1, Layout DEF StructuresInv, CoreInv, Typed, Mirrored, HasTable, page_etable, TableIndex, Structures
    <3>2. memory'[page_etable[d]][i] = memory[page_etable[d]][i]
      BY <1>1, <3>1
    <3>3. QED
      BY <1>2, <1>3, <2>1, <3>1, <3>2 DEF Content
  <2>2. CASE ~HasTable(d)
    BY <1>3, <2>2 DEF Content
  <2>3. QED
    BY <2>1, <2>2
<1>5. Separated'
  BY <1>2, <1>3 DEF SpaceInv, Separated, TableIndex
<1>6. NoTablesYet'
  BY <1>1 DEF NoTablesYet
<1>7. ShowsFrames(KERNEL_DIR, ENTRIES)' /\ ShowsFrames(0, ENTRIES)'
  <2>1. ShowsFrames(KERNEL_DIR, ENTRIES)
    BY <1>1 DEF SpaceInv, KernelMapped
  <2>2. ShowsFrames(0, ENTRIES)
    BY <1>1 DEF StructuresInv, IdentityMapped, Identity, ShowsFrames, Content
  <2>3. KERNEL_DIR \in TableIndex /\ 0 \in TableIndex
    BY Layout DEF TableIndex
  <2>4. QED
    BY <1>4, <2>1, <2>2, <2>3 DEF ShowsFrames
<1>8. KernelMapped'
  BY <1>1, <1>7 DEF KernelMapped
<1>9. \A d \in TableIndex \ {0, KERNEL_DIR}, i \in Index : Content(d, i) = NotPresent
  BY <1>1 DEF SpaceInv, NoTablesYet, Content
<1>10. ClientsApart'
  BY <1>4, <1>9 DEF ClientsApart, TableFrames
<1>11. TlbCoherent'
  BY <1>1 DEF TlbCoherent, Flushed
<1>12. ASSUME NEW u \in UserPages PROVE Translation(u)' = Translation(u)
  <2>1. u \in Pages /\ u[1] \in TableIndex /\ u[2] \in Index /\ u[1] # ETABLE_DIR
    BY DEF UserPages, Pages, TableIndex
  <2>2. /\ Translation(u)' = Content(u[1], u[2])'
        /\ Translation(u) = IF u[1] \in {0, KERNEL_DIR} THEN u[2] ELSE NotPresent
    BY <1>1, <2>1, Walks, WalksNext DEF StructuresInv, WalksEnd, Reached
  <2>3. u[2] < ENTRIES
    BY <2>1, IndexAssumption DEF Index
  <2>4. u[1] \in {0, KERNEL_DIR} => Content(u[1], u[2])' = u[2]
    BY <1>7, <2>1, <2>3 DEF ShowsFrames
  <2>5. u[1] \notin {0, KERNEL_DIR} => Content(u[1], u[2])' = NotPresent
    BY <1>4, <1>9, <2>1
  <2>6. QED
    BY <2>2, <2>4, <2>5
<1>13. QED
  BY <1>5, <1>6, <1>8, <1>10, <1>11, <1>12 DEF SpaceInv

LEMMA ClientKeepsSpace ==
  ASSUME StructuresInv, SpaceInv, TablesAreAllocated, TablesAreAllocated',
         NEW v \in ClientPages, MapNewFrame(v) \/ MapDevice(v)
  PROVE  /\ SpaceInv'
         /\ \E p \in Frames :
              \A u \in UserPages : Translation(u)' = IF u = v THEN p ELSE Translation(u)
<1>1. /\ stage = "running" /\ stage' = "running" /\ Running /\ Running' /\ StructuresInv'
      /\ next' = next
  BY ClientKeeps DEF MapNewFrame, MapDevice, Running
<1>2. PICK p \in Pool \cup DeviceFrames, taken \in SUBSET Pool :
        /\ Map(v, p, taken) /\ p \in (taken \ owned) \cup DeviceFrames
        /\ taken = owned \cup ({p} \ DeviceFrames)
  BY ClientMaps
<1>3. Mappable(v) /\ p \in Frames /\ owned \subseteq taken /\ v \in UserPages
      /\ v[1] \notin {0, KERNEL_DIR}
  BY <1>2, ClientAssumption, Layout DEF Mappable, TableIndex, Pages, UserPages
<1>4. /\ \A d \in TableIndex, i \in Index :
           Content(d, i)' = IF d = v[1] /\ i = v[2] THEN p ELSE Content(d, i)
      /\ \A d \in TableIndex \ {v[1]} : page_etable'[d] = page_etable[d]
      /\ Separated'
      /\ taken \subseteq owned' /\ owned' \subseteq Pool
      /\ \/ page_etable'[v[1]] = page_etable[v[1]] /\ HasTable(v[1])
         \/ page_etable'[v[1]] \in Pool \ taken
  BY <1>1, <1>2, <1>3, MapSeparates DEF SpaceInv
<1>5. NoTablesYet'
  BY <1>1 DEF NoTablesYet
<1>6. KernelMapped'
  <2>1. KERNEL_DIR \in TableIndex /\ 0 \in TableIndex
    BY Layout DEF TableIndex
  <2>2. \A i \in Index : Content(KERNEL_DIR, i)' = Content(KERNEL_DIR, i)
                         /\ Content(0, i)' = Content(0, i)
    BY <1>3, <1>4, <2>1
  <2>3. ShowsFrames(KERNEL_DIR, ENTRIES) /\ ShowsFrames(0, ENTRIES)
    BY <1>1 DEF SpaceInv, KernelMapped
  <2>4. ShowsFrames(KERNEL_DIR, ENTRIES)' /\ ShowsFrames(0, ENTRIES)'
    BY <2>2, <2>3 DEF ShowsFrames
  <2>5. QED
    BY <1>1, <2>4 DEF KernelMapped
<1>7. ClientsApart'
  <2>1. TableFrames \subseteq owned
    BY DEF TablesAreAllocated
  <2>2. \A f \in TableFrames' : f \in TableFrames \/ f \in Pool \ taken
    <3>1. \A d \in TableIndex : page_etable'[d] = page_etable[d] \/ page_etable'[d] \in Pool \ taken
      BY <1>4
    <3>2. QED
      BY <3>1 DEF TableFrames, page_etable, TableIndex
  <2>3. p \in owned' \cup DeviceFrames /\ p \notin TableFrames'
    BY <1>2, <1>4, <2>1, <2>2, Layout
  <2>4. \A c \in (owned \cup DeviceFrames \cup {NotPresent}) \ TableFrames :
          c \in (owned' \cup DeviceFrames \cup {NotPresent}) \ TableFrames'
    BY <1>3, <1>4, <2>2, Layout
  <2>5. \A d \in TableIndex \ {0, KERNEL_DIR}, i \in Index :
          Content(d, i) \in (owned \cup DeviceFrames \cup {NotPresent}) \ TableFrames
    BY DEF SpaceInv, ClientsApart
  <2>6. \A d \in TableIndex \ {0, KERNEL_DIR}, i \in Index :
          Content(d, i)' \in (owned' \cup DeviceFrames \cup {NotPresent}) \ TableFrames'
    BY <1>4, <2>3, <2>4, <2>5
  <2>7. QED
    BY <2>6 DEF ClientsApart
<1>8. TlbCoherent'
  BY <1>1, <1>2, <1>3, MapKeepsTlb
<1>9. \A u \in UserPages : Translation(u)' = IF u = v THEN p ELSE Translation(u)
  <2> SUFFICES ASSUME NEW u \in UserPages
               PROVE  Translation(u)' = IF u = v THEN p ELSE Translation(u)
    OBVIOUS
  <2>1. u \in Pages /\ u[1] # ETABLE_DIR
    BY DEF UserPages
  <2>2. CASE u # v
    BY <1>1, <1>3, <1>4, <2>1, <2>2, WalksKept
  <2>3. CASE u = v
    <3>1. Translation(v)' = Content(v[1], v[2])'
      BY <1>1, <2>1, <2>3, WalksNext DEF StructuresInv, WalksEnd, Reached
    <3>2. QED
      BY <1>3, <1>4, <2>3, <3>1 DEF Mappable, Pages
  <2>4. QED
    BY <2>2, <2>3
<1>10. QED
  BY <1>3, <1>4, <1>5, <1>6, <1>7, <1>8, <1>9 DEF SpaceInv

LEMMA TlbKeepsSpace ==
  ASSUME StructuresInv, SpaceInv, NEW v \in Pages, TlbFill(v) \/ TlbEvict(v)
  PROVE  SpaceInv' /\ \A u \in UserPages : Translation(u)' = Translation(u)
<1>1. /\ stage' = stage /\ next' = next /\ cr3' = cr3 /\ memory' = memory /\ owned' = owned
      /\ \/ tlb' = [tlb EXCEPT ![v] = Translation(v)]
         \/ tlb' = [tlb EXCEPT ![v] = NotPresent]
  BY DEF TlbFill, TlbEvict
<1>2. \A u \in Pages : Translation(u)' = Translation(u)
  BY <1>1 DEF Translation, Walk
<1>3. TlbCoherent'
  BY <1>1, <1>2 DEF SpaceInv, TlbCoherent, StructuresInv, CoreInv, Typed
<1>4. Separated' /\ NoTablesYet' /\ KernelMapped' /\ ClientsApart'
  BY <1>1 DEF SpaceInv, Separated, NoTablesYet, KernelMapped, ClientsApart, ShowsFrames,
              Content, HasTable, TableFrames, page_etable, Running
<1>5. QED
  BY <1>2, <1>3, <1>4 DEF SpaceInv, UserPages

LEMMA SpaceNext ==
  /\ StructuresInv /\ SpaceInv /\ TablesAreAllocated /\ TablesAreAllocated'
  /\ [Next]_vars
  => SpaceInv'
<1> SUFFICES ASSUME StructuresInv, SpaceInv, TablesAreAllocated, TablesAreAllocated',
                    [Next]_vars
             PROVE  SpaceInv'
  OBVIOUS
<1>1. CASE InitEtable
  BY <1>1, InitEtableKeepsSpace
<1>2. CASE MapKernel \/ MapIdentity
  BY <1>2, MapRangeKeepsSpace
<1>3. CASE SwitchDirectory
  BY <1>3, SwitchKeepsSpace
<1>4. CASE \E v \in ClientPages : MapNewFrame(v) \/ MapDevice(v)
  BY <1>4, ClientKeepsSpace
<1>5. CASE \E v \in Pages : TlbFill(v) \/ TlbEvict(v)
  BY <1>5, TlbKeepsSpace
<1>6. CASE UNCHANGED vars
  BY <1>6 DEF vars, SpaceInv, Separated, NoTablesYet, KernelMapped, ClientsApart,
              ShowsFrames, Content, HasTable, TableFrames, page_etable, Running,
              TlbCoherent, Translation, Walk
<1>7. QED
  BY <1>1, <1>2, <1>3, <1>4, <1>5, <1>6 DEF Next

LEMMA SpaceHolds == Spec /\ []TablesAreAllocated => []SpaceInv
<1>1. QED
  BY SpaceInit, SpaceNext, StructuresHold, PTL DEF Spec

\* virtual_mgr.avidocs: as long as every page table is in a frame of the physical
\* manager, no frame is two tables and no page of a client shows a table.
THEOREM TablesStayApart == Spec /\ []TablesAreAllocated => []TablesExclusive
<1>1. StructuresInv /\ SpaceInv => TablesExclusive
  <2> SUFFICES ASSUME StructuresInv, SpaceInv PROVE TablesExclusive
    OBVIOUS
  <2>1. \A d, e \in Index \ {ETABLE_DIR} :
          d # e /\ page_etable[d] = page_etable[e] => page_etable[d] = NotPresent
    BY DEF SpaceInv, Separated, HasTable, page_etable, TableIndex
  <2>2. ASSUME NEW v \in ClientPages PROVE Translation(v) \notin TableFrames
    <3>1. v \in Pages /\ v[1] \in TableIndex \ {0, KERNEL_DIR} /\ v[2] \in Index
      BY ClientAssumption DEF TableIndex, Pages
    <3>2. Translation(v) = IF Running THEN Content(v[1], v[2]) ELSE NotPresent
      BY <3>1, Walks DEF StructuresInv, WalksEnd, Reached, TableIndex
    <3>3. Content(v[1], v[2]) \notin TableFrames
      BY <3>1 DEF SpaceInv, ClientsApart
    <3>4. QED
      BY <3>2, <3>3 DEF TableFrames
  <2>3. QED
    BY <2>1, <2>2 DEF TablesExclusive
<1>2. QED
  BY <1>1, StructuresHold, SpaceHolds, PTL

\* map and initialize (invlpg, the reload of cr3): what the TLB holds is what a
\* walk would find, as long as page tables are in frames that were allocated.
THEOREM TlbNeverStale == Spec /\ []TablesAreAllocated => []TlbCoherent
<1>1. SpaceInv => TlbCoherent
  BY DEF SpaceInv
<1>2. QED
  BY <1>1, SpaceHolds, PTL

-----------------------------------------------------------------------------
(* The refinement *)

UserTranslation == [v \in UserPages |-> Translation(v)]

LEMMA SpaceStep ==
  /\ StructuresInv /\ SpaceInv /\ TablesAreAllocated /\ TablesAreAllocated'
  /\ [Next]_vars
  => [Space!Next]_UserTranslation
<1> SUFFICES ASSUME StructuresInv, SpaceInv, TablesAreAllocated, TablesAreAllocated',
                    [Next]_vars
             PROVE  [Space!Next]_UserTranslation
  OBVIOUS
<1>1. CASE \E v \in ClientPages : MapNewFrame(v) \/ MapDevice(v)
  <2>1. PICK v \in ClientPages, p \in Frames :
          \A u \in UserPages : Translation(u)' = IF u = v THEN p ELSE Translation(u)
    BY <1>1, ClientKeepsSpace
  <2>2. UserTranslation' = [UserTranslation EXCEPT ![v] = p]
    BY <2>1 DEF UserTranslation
  <2>3. Space!Map(v, p)
    BY <2>2 DEF Space!Map, UserTranslation
  <2>4. QED
    BY <2>3 DEF Space!Next
<1>2. ASSUME \A u \in UserPages : Translation(u)' = Translation(u)
      PROVE  UNCHANGED UserTranslation
  BY <1>2 DEF UserTranslation
<1>3. CASE InitEtable
  BY <1>2, <1>3, InitEtableKeepsSpace
<1>4. CASE MapKernel \/ MapIdentity
  BY <1>2, <1>4, MapRangeKeepsSpace
<1>5. CASE SwitchDirectory
  BY <1>2, <1>5, SwitchKeepsSpace
<1>6. CASE \E v \in Pages : TlbFill(v) \/ TlbEvict(v)
  BY <1>2, <1>6, TlbKeepsSpace
<1>7. CASE UNCHANGED vars
  <2>1. \A u \in UserPages : Translation(u)' = Translation(u)
    BY <1>7 DEF vars, Translation, Walk
  <2>2. QED
    BY <1>2, <2>1
<1>8. QED
  BY <1>1, <1>3, <1>4, <1>5, <1>6, <1>7 DEF Next

LEMMA SpaceStart == Init => Space!Init
<1> SUFFICES ASSUME Init PROVE Space!Init
  OBVIOUS
<1>1. StructuresInv /\ ~Running
  BY StructuresInit DEF Init, Running
<1>2. \A v \in UserPages :
        Translation(v) = IF v[1] \in {0, KERNEL_DIR} THEN v[2] ELSE NotPresent
  BY <1>1, Walks DEF StructuresInv, WalksEnd, Reached, UserPages
<1>3. QED
  BY <1>2 DEF Space!Init

\* virtual_mgr.h: creating page tables, switching directories and the TLB are
\* invisible, and map changes the page it is asked to map and no other.
THEOREM AddressSpaceKept == Spec /\ []TablesAreAllocated => ImplementsAddressSpace
<1>1. QED
  BY SpaceStart, SpaceStep, StructuresHold, SpaceHolds, PTL
     DEF Spec, ImplementsAddressSpace, Space!Spec, UserTranslation
=============================================================================
