------------------------------- MODULE MCVFS --------------------------------
(* One drive of two bytes; a DevFS on /dev/, on / or on both.               *)
EXTENDS VFS

File(parts) == [parts |-> parts, folder |-> FALSE]
Folder(parts) == [parts |-> parts, folder |-> TRUE]

MCDrives == [f \in {<<"sda">>} |-> 2]
MCDriveNames == {<<"sda">>, <<"sdb">>}
MCMountPaths == {Folder(<<"dev">>), Root}
MCPaths == {File(<<"dev", "sda">>), File(<<"sda">>), File(<<"dev", "sdb">>),
            Folder(<<"dev">>)}
MCAccesses == {[read |-> TRUE, write |-> FALSE], [read |-> TRUE, write |-> TRUE]}
MCData == {[i \in 0 .. n - 1 |-> v] : n \in 1 .. 2, v \in 0 .. 1}
=============================================================================
