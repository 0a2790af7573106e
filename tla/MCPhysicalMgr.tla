--------------------------- MODULE MCPhysicalMgr ----------------------------
(* Machines of 8 to 16 blocks of 2 bytes, cells of 4 blocks. *)
EXTENDS PhysicalMgr

Entry(a, l, av) == [addr |-> a, len |-> l, size |-> 2, available |-> av]

\* Low memory, a hole below the first megabyte (here 4), then the upper memory.
Typical(upper) ==
    [upper |-> upper,
     mmap |-> << Entry(0, 3, TRUE), Entry(3, 1, FALSE), Entry(4, upper, TRUE) >>,
     kernelStart |-> 4, kernelEnd |-> 7]

\* A second AVAILABLE entry above the tracked memory.
WithHighEntry ==
    [Typical(17) EXCEPT !.mmap = @ \o << Entry(21, 3, FALSE), Entry(24, 8, TRUE) >>]

\* A larger kernel, that leaves no room for the bitmap in the first entry.
SecondEntry ==
    [Typical(24) EXCEPT !.kernelEnd = 9,
                        !.mmap = << Entry(0, 3, TRUE), Entry(4, 8, TRUE),
                                    Entry(12, 16, TRUE) >>]

\* No entry is large enough: panic.
NoRoom ==
    [Typical(24) EXCEPT !.mmap = << Entry(0, 3, TRUE), Entry(4, 5, TRUE) >>]

MCMachines == {Typical(24), Typical(32), WithHighEntry, SecondEntry, NoRoom}
=============================================================================
