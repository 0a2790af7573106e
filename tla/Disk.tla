-------------------------------- MODULE Disk --------------------------------
(***************************************************************************)
(* What the users of StorageDriver take a drive for: an array of sectors,  *)
(* read and written run by run, one call at a time.  The two ways in which *)
(* the IDE driver falls short of it are stated here: a call that should    *)
(* start at sector s of drive d starts at seen[op][d][s], and a call in    *)
(* which something went wrong, a sector that the drive does not have       *)
(* included, ends like any other, so that its caller is not told.          *)
(***************************************************************************)
EXTENDS Integers, Sequences

VARIABLES
    media,        \* drive -> sector -> its content
    seen,         \* operation -> drive -> sector -> where a call that starts there starts
    call,         \* the call in progress: [op, drive, lba, buffer]
    done,         \* sectors of the call that are done with
    trouble       \* something went wrong in this call

vars == <<media, seen, call, done, trouble>>

Idle == [op |-> "none"]

Begin ==
    /\ call = Idle /\ call' # Idle
    /\ UNCHANGED <<media, seen, done, trouble>>

First == seen[call.op][call.drive][call.lba]
Sector == First + done
Existing == DOMAIN media[call.drive]
Window == (First .. First + Len(call.buffer) - 1) \cap Existing

ReadSector ==
    /\ call.op = "read" /\ done < Len(call.buffer)
    /\ done' = done + 1
    /\ call' = [call EXCEPT !.buffer[done + 1] = call'.buffer[done + 1]]
    /\ ~trouble => Sector \in Existing /\ call'.buffer[done + 1] = media[call.drive][Sector]
    /\ UNCHANGED <<media, seen, trouble>>

Put(s, i) == media' = [media EXCEPT ![call.drive][s] = call.buffer[i]]

\* In trouble, a sector is lost or lands elsewhere in the window of the call.
WriteSector ==
    /\ call.op = "write" /\ done < Len(call.buffer)
    /\ \/ ~trouble /\ Sector \in Existing /\ Put(Sector, done + 1)
       \/ trouble /\ UNCHANGED media
       \/ trouble /\ \E s \in Window, i \in DOMAIN call.buffer : Put(s, i)
    /\ done' = done + 1
    /\ UNCHANGED <<seen, call, trouble>>

Fail ==
    /\ call # Idle /\ trouble' = TRUE
    /\ UNCHANGED <<media, seen, call, done>>

Return ==
    /\ call # Idle /\ done = Len(call.buffer)
    /\ call' = Idle /\ done' = 0 /\ trouble' = FALSE
    /\ UNCHANGED <<media, seen>>

Init == call = Idle /\ done = 0 /\ trouble = FALSE

Next == Begin \/ ReadSector \/ WriteSector \/ Fail \/ Return

Spec == Init /\ [][Next]_vars
=============================================================================
