SPECIFICATION Spec
CONSTANTS
  a1 = a1
  a2 = a2
  a3 = a3
  r1 = r1
  r2 = r2
  r3 = r3
  o1 = o1
  o2 = o2
  Alloc <- MCAlloc
  Ref <- MCRef
  Obj <- MCObj
  NULL = NULL
  MaxCopies = 3
SYMMETRY MCSymmetry
INVARIANTS
  OwnedOnce
  ReflistsSound
CHECK_DEADLOCK FALSE
