---------------------------- MODULE AddressSpace ----------------------------
(***************************************************************************)
(* What VirtualMgr promises the rest of the kernel: every page translates  *)
(* to one frame or to none, the first 4 MB are visible at 0 and at the     *)
(* base of the kernel from the first instruction on, and mapping a page    *)
(* changes the translation of that page and of no other.                   *)
(***************************************************************************)
CONSTANTS Pages, MappablePages, Frames, BootTranslation

VARIABLE translation

Init == translation = [v \in Pages |-> BootTranslation[v]]

Map(v, p) == translation' = [translation EXCEPT ![v] = p]

Next == \E v \in MappablePages, p \in Frames : Map(v, p)

Spec == Init /\ [][Next]_translation
=============================================================================
