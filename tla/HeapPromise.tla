---------------------------- MODULE HeapPromise -----------------------------
(***************************************************************************)
(* What the heap promises its callers (heap.h): malloc returns memory that *)
(* is mapped, large enough and part of no other allocation, or NULL; it    *)
(* stays so until it is freed.                                             *)
(***************************************************************************)
EXTENDS Naturals

CONSTANT WORD   \* bytes of the size word at the start of a chunk

VARIABLES
    live,    \* the allocations: their address, their extent, the size asked for
    mapped   \* the bytes that are backed by memory

vars == <<live, mapped>>

\* The bytes of a chunk, its size word included.
Bytes(c) == c.addr .. c.addr + c.size - 1

Init == live = {} /\ mapped \in SUBSET Nat

\* Memory that may be handed out as chunk c.
Suitable(c) ==
    /\ c.size >= c.asked + WORD
    /\ Bytes(c) \subseteq mapped'
    /\ \A d \in live : Bytes(c) \cap Bytes(d) = {}

Malloc(c) ==
    /\ Suitable(c)
    /\ mapped \subseteq mapped'
    /\ live' = live \cup {c}

\* A request that fails may have mapped more memory all the same.
MallocFails == mapped \subseteq mapped' /\ UNCHANGED live

Free(c) ==
    /\ live' = live \ {c}
    /\ UNCHANGED mapped

\* A new chunk takes the place of c, and is not on top of it.
Realloc(c, d) ==
    /\ Suitable(d)
    /\ mapped \subseteq mapped'
    /\ live' = (live \ {c}) \cup {d}

Next ==
    \/ \E c \in live' \ live : Malloc(c)
    \/ MallocFails
    \/ \E c \in live : Free(c)
    \/ \E c \in live, d \in live' \ live : Realloc(c, d)

Spec == Init /\ [][Next]_vars
=============================================================================
