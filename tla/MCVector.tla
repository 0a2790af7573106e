------------------------------ MODULE MCVector ------------------------------
(* Vectors of paths, as in DevFS and VFS, that sort compares by their depth, *)
(* and a path on its own.  Neither looks at the other, so that the states of *)
(* one are not multiplied by those of the other: the vectors are used while  *)
(* the path is the root, the path while they are empty.                      *)
EXTENDS Vector, Path

CONSTANT MaxText   \* bound: characters of a text

MCTexts == UNION {[1 .. n -> Characters] : n \in 0 .. MaxText}

MCPaths == {PathOf(<<"/", "s">>), PathOf(<<"/", "d">>), PathOf(<<"/", "s", "/">>)}
MCBigger(p, q) == get_depth(p) > get_depth(q)

MCInit == VectorInit /\ PathInit

RootPath == MakePath(<<>>)
DropPath == path' = PathOf(<<>>) /\ meant' = Meaning(<<>>)

MCNext ==
    \/ RootPath /\ VectorNext /\ UNCHANGED pathVars
    \/ lists = Empty /\ (UsePath \/ DropPath) /\ UNCHANGED lists

MCSpec == MCInit /\ [][MCNext]_<<lists, pathVars>>
=============================================================================
