-------------------------------- MODULE Heap --------------------------------
(***************************************************************************)
(* The kernel heap, src/kernel/mm/heap: a doubly linked list of holes kept *)
(* inside the holes themselves, first-fit malloc that splits a hole, free  *)
(* that inserts and merges, and extension by whole pages.                  *)
(*                                                                         *)
(* Addresses and sizes are in bytes.  The memory is a function from the    *)
(* address of a chunk or hole to the three words found there: the size     *)
(* word, and the links of a hole.                                          *)
(***************************************************************************)
EXTENDS Integers, FiniteSets

CONSTANTS
    HEAP_START,     \* HEAP_START_ADDR
    PAGE_SIZE,
    HEADER,         \* sizeof(heap_hole_header)
    WORD,           \* sizeof(size_t)
    Sizes,          \* what callers of malloc and realloc ask for
    FRAMES,         \* free frames PhysicalMgr has when the heap starts
    LOW_WORD,       \* the word at physical address 0, a vector of the firmware
    MaxLastPage,    \* bound: where last_page may get to by extending
    MaxLive         \* bound: chunks in use at a time

NULL == 0
UserData == -1      \* a word that the owner of a chunk has written

ASSUME HeapAssumption ==
    /\ HEAP_START \in Nat /\ HEAP_START > HEADER
    /\ WORD \in Nat \ {0} /\ HEADER \in Nat /\ HEADER >= WORD
    /\ PAGE_SIZE \in Nat /\ PAGE_SIZE > HEADER
    /\ Sizes \subseteq Nat
    /\ FRAMES \in Nat \ {0}
    /\ LOW_WORD \in Nat \ {0} /\ LOW_WORD \notin HEAP_START .. MaxLastPage + PAGE_SIZE
    /\ MaxLastPage \in Nat /\ MaxLastPage >= HEAP_START /\ MaxLive \in Nat

VARIABLES
    list,       \* [head, tail, mem]: holes_list_head, holes_list_tail, the memory
    last_page,
    frames,     \* frames PhysicalMgr still has
    pages,      \* the pages mapped for the heap
    live        \* auxiliary: address of a chunk in use -> the size asked for

vars == <<list, last_page, frames, pages, live>>

-----------------------------------------------------------------------------
(* The list of holes.  These operators take the list before a call and     *)
(* give the list after it; address NULL is ordinary memory, for the first  *)
(* 4 MB are identity mapped.                                               *)

\* f with v at a, which may be new to its domain.
Put(f, a, v) == [b \in DOMAIN f \cup {a} |-> IF b = a THEN v ELSE f[b]]

Size(l, a) == l.mem[a].size
NextOf(l, a) == l.mem[a].next
PrevOf(l, a) == l.mem[a].prev

SetSize(l, a, v) == [l EXCEPT !.mem[a].size = v]
\* Links are also stored at NULL, over the words at 4 and 8; nobody reads them.
SetNext(l, a, v) == IF a = NULL THEN l ELSE [l EXCEPT !.mem[a].next = v]
SetPrev(l, a, v) == IF a = NULL THEN l ELSE [l EXCEPT !.mem[a].prev = v]

\* The first three words at a: the size is set, the links are not.
PutHeader(l, a, size) ==
    [l EXCEPT !.mem = Put(@, a, [size |-> size, next |-> UserData, prev |-> UserData])]

\* The nodes in the order in which a loop over the list meets them.
NodeAt(l) ==
    LET at[n \in 0 .. Cardinality(DOMAIN l.mem)] ==
          IF n = 0 THEN l.head
          ELSE IF at[n - 1] = NULL THEN NULL ELSE NextOf(l, at[n - 1])
    IN  at

Holes(l) == {NodeAt(l)[n] : n \in DOMAIN NodeAt(l)} \ {NULL}

\* The first node of the list that satisfies P, NULL if there is none.
FirstNode(l, P(_)) ==
    LET at    == NodeAt(l)
        found == {n \in DOMAIN at : at[n] # NULL /\ P(at[n])}
    IN  IF found = {} THEN NULL
        ELSE at[CHOOSE n \in found : \A m \in found : n <= m]

InsertToHolesList(l, hole) ==
    LET node == FirstNode(l, LAMBDA n : hole < n)
        Linked(m, prev, next) == SetNext(SetPrev(m, hole, prev), hole, next)
    IN  IF l.tail = NULL
        THEN Linked([l EXCEPT !.head = hole, !.tail = hole], NULL, NULL)
        ELSE IF node = l.head
        THEN SetPrev(Linked([l EXCEPT !.head = hole], NULL, node), node, hole)
        ELSE IF node = NULL
        THEN Linked(SetNext([l EXCEPT !.tail = hole], l.tail, hole), l.tail, NULL)
        ELSE LET prev == PrevOf(l, node)
             IN  Linked(SetPrev(SetNext(l, prev, hole), node, hole), prev, node)

\* Mutant: removing the last hole leaves holes_list_tail on it.
RemoveFromHolesList_KeepsTail(l, hole) ==
    LET next == NextOf(l, hole)
        prev == PrevOf(l, hole)
    IN  IF prev = NULL /\ next = NULL
        THEN [l EXCEPT !.head = NULL, !.tail = NULL]
        ELSE IF hole = l.head THEN SetPrev([l EXCEPT !.head = next], next, NULL)
        ELSE SetPrev(SetNext(l, prev, next), next, prev)

RemoveFromHolesList(l, hole) ==
    LET next == NextOf(l, hole)
        prev == PrevOf(l, hole)
    IN  IF prev = NULL /\ next = NULL
        THEN [l EXCEPT !.head = NULL, !.tail = NULL]
        ELSE IF hole = l.head THEN SetPrev([l EXCEPT !.head = next], next, NULL)
        ELSE IF hole = l.tail THEN SetNext([l EXCEPT !.tail = prev], prev, NULL)
        ELSE SetPrev(SetNext(l, prev, next), next, prev)

MergePrevious(l, hole) ==
    LET prev == PrevOf(l, hole)
    IN  RemoveFromHolesList(SetSize(l, prev, Size(l, prev) + Size(l, hole)), hole)

\* Mutant: the size of the next hole is not added.
MergeNext_SizeStays(l, hole) == RemoveFromHolesList(l, NextOf(l, hole))

MergeNext(l, hole) ==
    LET next == NextOf(l, hole)
    IN  RemoveFromHolesList(SetSize(l, hole, Size(l, hole) + Size(l, next)), next)

EndsAt(l, hole, a) == hole + Size(l, hole) = a

\* Both conditions look at the header of the hole that was freed, also after
\* merge_previous has made it part of the hole before it.
Merge(l, hole) ==
    LET merged == IF EndsAt(l, PrevOf(l, hole), hole)
                  THEN MergePrevious(l, hole) ELSE l
    IN  IF EndsAt(merged, hole, NextOf(merged, hole))
        THEN MergeNext(merged, hole) ELSE merged

-----------------------------------------------------------------------------
(* malloc *)

\* Mutant: the new hole gets the size of the whole old one.
Split_WholeSize(l, hole, required) ==
    IF Size(l, hole) - required > HEADER
    THEN LET offset   == IF required > HEADER THEN required ELSE HEADER
             new_hole == hole + offset
             rest     == PutHeader(l, new_hole, Size(l, hole))
         IN  [list |-> RemoveFromHolesList(InsertToHolesList(rest, new_hole), hole),
              size |-> offset]
    ELSE [list |-> RemoveFromHolesList(l, hole), size |-> Size(l, hole)]

\* Mutant: a hole is split however little is left of it.
Split_Always(l, hole, required) ==
    LET offset   == IF required > HEADER THEN required ELSE HEADER
        new_hole == hole + offset
        rest     == PutHeader(l, new_hole, Size(l, hole) - offset)
    IN  [list |-> RemoveFromHolesList(InsertToHolesList(rest, new_hole), hole),
         size |-> offset]

\* The chunk at hole is taken for required bytes, the rest of the hole becomes
\* a hole of its own when it is larger than a header.
Split(l, hole, required) ==
    IF Size(l, hole) - required > HEADER
    THEN LET offset   == IF required > HEADER THEN required ELSE HEADER
             new_hole == hole + offset
             rest     == PutHeader(l, new_hole, Size(l, hole) - offset)
         IN  [list |-> RemoveFromHolesList(InsertToHolesList(rest, new_hole), hole),
              size |-> offset]
    ELSE [list |-> RemoveFromHolesList(l, hole), size |-> Size(l, hole)]

FirstFit(l, required) == FirstNode(l, LAMBDA n : Size(l, n) >= required)

\* The state after a call: what malloc changes, and the start of the chunk it
\* took, NULL for none.  The caller then writes its data over the links.
Taken(s, required) ==
    LET hole  == FirstFit(s.list, required)
        split == Split(s.list, hole, required)
    IN  [s EXCEPT !.list = PutHeader(split.list, hole, split.size), !.chunk = hole]

\* Mutant: the number of pages is rounded down.
PagesFor_RoundedDown(size) == (size + HEADER) \div PAGE_SIZE

\* extend_heap: last_page moves one page on, then over the pages that could be
\* mapped.  With no frame at all the new hole is put at address NULL.
PagesFor(size) == (size + HEADER) \div PAGE_SIZE + 1
PagesDone(s, size) == IF PagesFor(size) <= s.frames THEN PagesFor(size) ELSE s.frames

ExtendHeap(s, size) ==
    LET done   == PagesDone(s, size)
        first  == s.last_page + PAGE_SIZE
        header == IF done = 0 THEN NULL ELSE first
        filled == IF header = NULL THEN SetSize(s.list, NULL, 0)
                  ELSE PutHeader(s.list, header, done * PAGE_SIZE)
    IN  [s EXCEPT !.list = InsertToHolesList(filled, header),
                  !.last_page = first + done * PAGE_SIZE,
                  !.frames = @ - done,
                  !.pages = @ \cup {first + k * PAGE_SIZE : k \in 0 .. done - 1}]

\* Mutant: no room is asked for the size word.
MallocFrom_NoSizeWord(s, size) ==
    IF FirstFit(s.list, size) # NULL THEN Taken(s, size)
    ELSE IF PagesDone(s, size) < PagesFor(size) THEN ExtendHeap(s, size)
    ELSE Taken(ExtendHeap(s, size), size)

\* One extension is enough (ExtensionServes), so the repeated call finds a hole.
MallocFrom(s, size) ==
    LET required == size + WORD
    IN  IF FirstFit(s.list, required) # NULL THEN Taken(s, required)
        ELSE IF PagesDone(s, required) < PagesFor(required) THEN ExtendHeap(s, required)
        ELSE Taken(ExtendHeap(s, required), required)

State == [list |-> list, last_page |-> last_page, frames |-> frames,
          pages |-> pages, chunk |-> NULL]

\* A header is not written over what lies behind its hole or chunk.  Where one
\* is (see RoomForHeader) the memory is corrupt and the model ends.
HeadersFit(l, used) == \A a \in used \cup Holes(l) : Size(l, a) >= HEADER

Becomes(s) ==
    /\ HeadersFit(list, DOMAIN live)
    /\ s.last_page <= MaxLastPage
    /\ list' = s.list
    /\ last_page' = s.last_page
    /\ frames' = s.frames
    /\ pages' = s.pages

\* The caller gets the address after the size word of a new chunk, or NULL; the
\* model names a chunk by the address of that word.
Malloc(size) ==
    /\ size # 0
    /\ Cardinality(DOMAIN live) < MaxLive
    /\ LET s == MallocFrom(State, size)
       IN  /\ Becomes(s)
           /\ live' = IF s.chunk = NULL THEN live ELSE Put(live, s.chunk, size)

\* malloc(0) returns NULL.
MallocZero == 0 \in Sizes /\ UNCHANGED vars

-----------------------------------------------------------------------------
(* free and realloc *)

\* The headers a merge has made part of a larger hole are forgotten.
Forget(l, gone) ==
    [l EXCEPT !.mem = [a \in DOMAIN @ \ gone |-> @[a]]]

FreeFrom(l, chunk) ==
    LET inserted == InsertToHolesList(l, chunk)
        merged   == Merge(inserted, chunk)
    IN  Forget(merged, (Holes(inserted) \ Holes(merged)) \ {merged.tail})

Without(f, a) == [b \in DOMAIN f \ {a} |-> f[b]]

Free(chunk) ==
    /\ HeadersFit(list, DOMAIN live)
    /\ list' = FreeFrom(list, chunk)
    /\ live' = Without(live, chunk)
    /\ UNCHANGED <<last_page, frames, pages>>

\* The new chunk is taken while the old one, copied from, is still in use; a
\* failure leaves the old one alone.  realloc(ptr, 0) is free(ptr).
Realloc(chunk, size) ==
    /\ size # 0
    /\ LET s == MallocFrom(State, size)
           t == [s EXCEPT !.list = FreeFrom(@, chunk)]
           used == Put(live, s.chunk, size)
       IN  IF s.chunk = NULL THEN Becomes(s) /\ live' = live
           ELSE IF HeadersFit(s.list, DOMAIN used)
           THEN Becomes(t) /\ live' = Without(used, chunk)
           ELSE Becomes(s) /\ live' = used

\* Heap::initialize: one page, one hole.
Init ==
    /\ list = [head |-> HEAP_START, tail |-> HEAP_START,
               mem |-> [a \in {NULL, HEAP_START} |->
                          IF a = NULL
                          THEN [size |-> LOW_WORD, next |-> UserData, prev |-> UserData]
                          ELSE [size |-> PAGE_SIZE, next |-> NULL, prev |-> NULL]]]
    /\ last_page = HEAP_START
    /\ frames = FRAMES - 1
    /\ pages = {HEAP_START}
    /\ live = <<>>

Next ==
    \/ \E size \in Sizes : Malloc(size)
    \/ MallocZero
    \/ \E chunk \in DOMAIN live : Free(chunk)
    \/ \E chunk \in DOMAIN live, size \in Sizes : Realloc(chunk, size)

Spec == Init /\ [][Next]_vars

-----------------------------------------------------------------------------
(* Properties *)

Extent(a) == [addr |-> a, size |-> Size(list, a)]
Chunks == {Extent(a) : a \in DOMAIN live}
Allocations == {[addr |-> a, size |-> Size(list, a), asked |-> live[a]] : a \in DOMAIN live}
ListedHoles == {Extent(a) : a \in Holes(list)}

Span(x) == x.addr .. x.addr + x.size - 1
MappedBytes == UNION {p .. p + PAGE_SIZE - 1 : p \in pages}
HoleBytes == UNION {Span(x) : x \in ListedHoles}

\* An extension that got no frame has put a hole of size 0 at address NULL.
OutOfMemory == Size(list, NULL) # LOW_WORD

\* Chunks in use and listed holes never share a byte and lie in mapped pages,
\* also after the memory has run out.
NoOverlap ==
    LET all == Chunks \cup ListedHoles
    IN  /\ \A x \in all : Span(x) \subseteq MappedBytes
        /\ \A x, y \in all : x # y => Span(x) \cap Span(y) = {}
        /\ DOMAIN live \cap Holes(list) = {}

\* heap.cpp: "We must preserve space for the heap header, so we will be able to
\* fill it when free".  Every hole and every chunk has room for a header, with
\* one exception: split compares what is left with the size asked for, and not
\* with the header's size it takes instead of a smaller one, so that the hole
\* behind a chunk asked for less than a header can be too small for its own.
RoomForHeader ==
    \A x \in Chunks \cup ListedHoles :
       x.size < HEADER =>
         /\ x \in ListedHoles
         /\ \E c \in Allocations : c.addr + HEADER = x.addr /\ c.asked + WORD < HEADER

\* Until memory has run out the list is sorted by address, its links agree in
\* both directions, and head and tail are its ends.
ListIntact ==
    ~ OutOfMemory =>
      LET holes == Holes(list)
      IN  /\ IF holes = {} THEN list.head = NULL /\ list.tail = NULL
             ELSE /\ list.head \in holes /\ \A h \in holes : list.head <= h
                  /\ list.tail \in holes /\ \A h \in holes : h <= list.tail
          /\ \A h \in holes :
                /\ NextOf(list, h) = FirstNode(list, LAMBDA n : h < n)
                /\ PrevOf(list, h) # NULL => NextOf(list, PrevOf(list, h)) = h
                /\ PrevOf(list, h) = NULL <=> h = list.head

\* malloc calls itself after a successful extension: the second search finds a
\* hole, so the recursion ends after one level.
ExtensionServes ==
    \A size \in Sizes \ {0} :
      LET required == size + WORD
          extended == ExtendHeap(State, required)
      IN  PagesDone(State, required) = PagesFor(required)
            => FirstFit(extended.list, required) # NULL

\* The heap implements what heap.h promises.
Promise == INSTANCE HeapPromise WITH live <- Allocations, mapped <- MappedBytes
ImplementsHeapPromise == Promise!Spec

\* A chunk with a hole on both sides, and the bytes of the hole behind it.
HoleBefore(c) == {x \in ListedHoles : x.addr + x.size = c.addr}
HoleBehind(c) == {x \in ListedHoles : x.addr = c.addr + c.size}
BetweenHoles(c) == HoleBefore(c) # {} /\ HoleBehind(c) # {}

\* heap.h, merge: "That is in oreder to transfer a few holes in a row into one
\* big hole."  Every byte stays in a chunk or in a hole of the list, whatever is
\* taken, split, freed, merged or moved, with two exceptions: a chunk that is
\* freed between two holes makes the one behind it disappear (merge goes on with
\* the header merge_previous has given away), and an extension that gets no
\* frame hides the list behind a hole at NULL.
OwnedBytes == HoleBytes \cup UNION {Span(x) : x \in Chunks}
LostOnlyBetweenHoles ==
    [][LET lost == OwnedBytes \ OwnedBytes'
       IN  \/ lost = {}
           \/ OutOfMemory'
           \/ \E a \in DOMAIN live \ DOMAIN live' :
                 /\ BetweenHoles(Extent(a))
                 /\ lost = UNION {Span(x) : x \in HoleBehind(Extent(a))}]_vars
=============================================================================
