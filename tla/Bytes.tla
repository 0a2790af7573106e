-------------------------------- MODULE Bytes --------------------------------
(***************************************************************************)
(* Ranges of bytes, as fs.avidocs speaks of them: "read(Path path,         *)
(* uint64_t count, uint64_t offset, char* buf) - reads <count> bytes from  *)
(* file <path>, starting from <offset>", and write likewise.               *)
(*                                                                         *)
(* Bytes are functions from 0 .. n - 1.                                    *)
(***************************************************************************)
EXTENDS Integers, FiniteSets

Size(b) == Cardinality(DOMAIN b)

\* count bytes of b, from offset on.
Slice(b, offset, count) == [i \in 0 .. count - 1 |-> b[offset + i]]

\* b, with data put over it from offset on.
Overlay(b, offset, data) ==
    [a \in DOMAIN b |->
       IF a - offset \in DOMAIN data THEN data[a - offset] ELSE b[a]]
=============================================================================
