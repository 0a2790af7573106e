------------------------------ MODULE MCDevFS -------------------------------
(* Sectors of 2 bytes, groups of 2 sectors; three drives, two of which have *)
(* a name.                                                                  *)
EXTENDS DevFS

MCDrives == <<4, 1, 1>>
MCFills == {[i \in 0 .. 7 |-> IF i \in {1, 2, 4, 7} THEN 1 ELSE 0],
            [i \in 0 .. 7 |-> IF i \in {0, 3, 4, 5} THEN 1 ELSE 0]}
=============================================================================
