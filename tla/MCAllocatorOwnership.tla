------------------------ MODULE MCAllocatorOwnership ------------------------
(* Three allocators (two to copy between and one to nest), three references to *)
(* two objects: an owner, an alias and a moved owner exist at the same time.   *)
EXTENDS AllocatorOwnership, TLC

CONSTANTS a1, a2, a3, r1, r2, r3, o1, o2

MCAlloc == {a1, a2, a3}
MCRef == {r1, r2, r3}
MCObj == {o1, o2}
MCSymmetry == Permutations(MCAlloc) \cup Permutations(MCRef) \cup Permutations(MCObj)
=============================================================================
