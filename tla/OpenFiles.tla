----------------------------- MODULE OpenFiles ------------------------------
(***************************************************************************)
(* What the VFS promises: an open file is known by a descriptor of its     *)
(* own, which keeps a position in it; reading and writing happen in the    *)
(* file that was opened, inside of it, if it was opened for that, and move *)
(* the position behind what was read or written.  Calls that fail are      *)
(* stutters.                                                               *)
(*                                                                         *)
(* It falls short of that in two ways, which are stated here.  A name that *)
(* is no file opens all the same: what is written there is forgotten,      *)
(* until its last part is found to name a file.  And the file systems may  *)
(* be lost, and then what is written to any file may be forgotten.         *)
(***************************************************************************)
EXTENDS Bytes, Sequences

CONSTANTS
    Accesses,   \* how a file may be opened: [read, write]
    Data        \* what callers write

VARIABLES
    content,   \* file -> its bytes
    open,      \* descriptor -> the open file
    lost       \* the file systems have been lost

vars == <<content, open, lost>>

OpenFile(f, access) ==
    [file |-> f, position |-> 0, read |-> access.read, write |-> access.write]

LastPart(name) == SubSeq(name, Len(name), Len(name))

Init == open = <<>> /\ lost = FALSE

Open(d) ==
    /\ d \notin DOMAIN open
    /\ \E access \in Accesses :
          open' = [e \in DOMAIN open \cup {d} |->
                     IF e = d THEN OpenFile(open'[d].file, access) ELSE open[e]]
    /\ UNCHANGED <<content, lost>>

Close(d) ==
    /\ open' = [e \in DOMAIN open \ {d} |-> open[e]]
    /\ UNCHANGED <<content, lost>>

\* d was opened on a file.
OnFile(d) == open[d].file \in DOMAIN content

\* count bytes of file f from offset at are in the file.
InFile(f, at, count) == at >= 0 /\ at + count <= Size(content[f])

MoveTo(d, at) == open' = [open EXCEPT ![d].position = at]

Read(d, at, count) ==
    /\ open[d].read
    /\ OnFile(d) => InFile(open[d].file, at, count)
    /\ MoveTo(d, at + count)
    /\ UNCHANGED <<content, lost>>

WriteIn(f, at, data) ==
    /\ f \in DOMAIN content
    /\ InFile(f, at, Size(data))
    /\ content' = [content EXCEPT ![f] = Overlay(@, at, data)]

Write(d, at, data) ==
    /\ open[d].write
    /\ \/ WriteIn(open[d].file, at, data)
       \/ ~ OnFile(d) /\ WriteIn(LastPart(open[d].file), at, data)
       \/ (lost \/ ~ OnFile(d)) /\ UNCHANGED content
    /\ MoveTo(d, at + Size(data))
    /\ UNCHANGED lost

\* The file systems are lost, or found again.
Lose == lost' # lost /\ UNCHANGED <<content, open>>

Next ==
    \/ \E d \in DOMAIN open' \ DOMAIN open : Open(d)
    \/ \E d \in DOMAIN open \ DOMAIN open' : Close(d)
    \/ \E d \in DOMAIN open \cap DOMAIN open' :
          \/ \E at \in 0 .. open'[d].position :
                open'[d].position > at /\ Read(d, at, open'[d].position - at)
          \/ \E data \in Data : Write(d, open'[d].position - Size(data), data)
    \/ Lose

Spec == Init /\ [][Next]_vars
=============================================================================
