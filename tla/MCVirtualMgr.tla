---------------------------- MODULE MCVirtualMgr ----------------------------
(* Directories of 4 entries: identity, kernel, clients, page_etable. *)
EXTENDS VirtualMgr

MCClientPages == {<<2, 0>>, <<2, 3>>}
=============================================================================
