SPECIFICATION Spec
CONSTANTS
  k1 = k1
  k2 = k2
  c1 = c1
  c2 = c2
  Key <- OneKey
  Object <- ThreeObjects
  Client <- OneClient
  Limits <- Deletes
INVARIANTS DeletedStaysDown
CHECK_DEADLOCK FALSE
