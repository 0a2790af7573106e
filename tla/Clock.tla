------------------------------- MODULE Clock --------------------------------
(***************************************************************************)
(* ClockDriver and Time: on_tick counts milliseconds in a 64-bit counter   *)
(* which sleep, on a 32-bit processor, loads in two halves and in between  *)
(* of which the clock may tick.  Which half is loaded first is up to the   *)
(* compiler.                                                               *)
(***************************************************************************)
EXTENDS Integers

CONSTANTS
    WORD,         \* values of half the counter, 2^32
    Times         \* for how long the kernel sleeps

ASSUME WordAssumption ==
    /\ WORD \in Nat \ {0, 1}
    /\ Times \subseteq Nat

VARIABLES
    counter_ms,   \* Time::counter_ms
    listener,     \* ClockDriver::listener is Time::on_tick
    low_first,    \* the order in which the compiler loads the halves
    at,           \* where sleep is: not in it, or about to load a half
    ms,           \* its parameter
    previous,     \* its local copy of the counter
    loaded,       \* the half it has loaded
    began,        \* auxiliary: the counter when it was called
    torn          \* auxiliary: a carry fell between its loads of the halves

clock == <<counter_ms, listener, low_first, at, ms, previous, loaded, began, torn>>

Half(n, low) == IF low THEN n % WORD ELSE n \div WORD
Join(first, second) ==
    IF low_first THEN first + WORD * second ELSE WORD * first + second

\* Called by the clock's handler; the counter is not split, for the handler is
\* not interrupted.
on_tick ==
    /\ IF listener THEN counter_ms' = counter_ms + 1 ELSE UNCHANGED counter_ms
    /\ torn' = (torn \/ (at \in {"previous2", "counter2"} /\ listener
                          /\ counter_ms % WORD = WORD - 1))
    /\ UNCHANGED <<listener, low_first, at, ms, previous, loaded, began>>

set_on_tick_listener ==
    /\ listener' = TRUE
    /\ UNCHANGED <<counter_ms, low_first, at, ms, previous, loaded, began, torn>>

sleep(time) ==
    /\ at = "awake"
    /\ at' = "previous1"
    /\ ms' = time /\ began' = counter_ms /\ torn' = FALSE
    /\ UNCHANGED <<counter_ms, listener, low_first, previous, loaded>>

LoadFirst(from, to) ==
    /\ at = from /\ at' = to
    /\ loaded' = Half(counter_ms, low_first)
    /\ UNCHANGED <<counter_ms, listener, low_first, ms, previous, began, torn>>

LoadPrevious ==
    \/ LoadFirst("previous1", "previous2")
    \/ /\ at = "previous2" /\ at' = "counter1"
       /\ previous' = Join(loaded, Half(counter_ms, ~low_first))
       /\ UNCHANGED <<counter_ms, listener, low_first, ms, loaded, began, torn>>

\* Mutant: the sleep ends one tick early.
Elapsed_OneShort(now) == previous + ms <= now + 1

\* Mutant: the sleep ends at one value of the counter only.
Elapsed_Exact(now) == previous + ms = now

Elapsed(now) == previous + ms <= now

LoadCounter ==
    \/ LoadFirst("counter1", "counter2")
    \/ /\ at = "counter2"
       /\ at' = IF Elapsed(Join(loaded, Half(counter_ms, ~low_first)))
                THEN "slept" ELSE "counter1"
       /\ UNCHANGED <<counter_ms, listener, low_first, ms, previous, loaded, began, torn>>

\* Control returns to the caller of sleep.
Wake ==
    /\ at = "slept" /\ at' = "awake"
    /\ ms' = 0 /\ previous' = 0 /\ loaded' = 0 /\ began' = 0 /\ torn' = FALSE
    /\ UNCHANGED <<counter_ms, listener, low_first>>

ClockInit ==
    /\ counter_ms = 0 /\ listener = FALSE /\ low_first \in BOOLEAN
    /\ at = "awake"
    /\ ms = 0 /\ previous = 0 /\ loaded = 0 /\ began = 0 /\ torn = FALSE
=============================================================================
