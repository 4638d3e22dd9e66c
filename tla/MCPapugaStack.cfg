SPECIFICATION Spec
CONSTANTS
  e1 = e1
  e2 = e2
  Elem <- MCElem
  NULL = NULL
  Garbage = Garbage
  BufSize = 1
  NodeSize = 2
  MaxSize = 5
INVARIANTS
  ReadersCorrect
PROPERTY
  ImplementsLifo
