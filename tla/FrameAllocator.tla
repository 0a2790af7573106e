--------------------------- MODULE FrameAllocator ---------------------------
(***************************************************************************)
(* What PhysicalMgr promises its callers (physical_mgr.h): a pool of       *)
(* physical frames that belong to nobody else, each handed to at most one  *)
(* owner at a time; a NULL answer only when the whole pool is owned.       *)
(***************************************************************************)
EXTENDS Naturals

Null == 0   \* the NULL address: frame 0 is never part of a pool

VARIABLES
    pool,   \* the frames that may be handed out, fixed at initialization
    owned,  \* the frames handed out and not freed
    ret     \* what the last allocation returned

vars == <<pool, owned, ret>>

Init ==
    /\ pool \in SUBSET (Nat \ {Null})
    /\ owned = {}
    /\ ret = Null

\* What an allocation may answer: a frame of the pool that nobody owns, or NULL
\* when there is none left.
Answers(frames, taken) == IF frames \subseteq taken THEN {Null} ELSE frames \ taken

\* The owned frames once f was answered.
Take(taken, f) == taken \cup ({f} \ {Null})

Alloc(f) ==
    /\ f \in Answers(pool, owned)
    /\ owned' = Take(owned, f)
    /\ ret' = f
    /\ UNCHANGED pool

Free(f) ==
    /\ f \in owned
    /\ owned' = owned \ {f}
    /\ UNCHANGED <<pool, ret>>

Next ==
    \/ \E f \in pool \cup {Null} : Alloc(f)
    \/ \E f \in owned : Free(f)

Spec == Init /\ [][Next]_vars
=============================================================================
