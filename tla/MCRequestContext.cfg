CONSTANTS
  t1 = t1
  t2 = t2
  c1 = c1
  c2 = c2
  c3 = c3
  k1 = k1
  k2 = k2
  x = x
  z = z
  _y = _y
  NULL = NULL
  Thread <- MCThread
  Ctx <- MCCtx
  Key <- MCKey
  Name = {x, z, _y}
  Local = {_y}
  MaxVars = 3
  MaxMaps = 3
  ReadersSynchronized = TRUE
SYMMETRY MCSymmetry
SPECIFICATION Spec
INVARIANTS SnapshotsLive MapsSound
PROPERTIES PublishedIsFrozen InheritTakesAll ImplementsRegistry
CHECK_DEADLOCK FALSE
CONSTRAINT FailuresBounded
