SPECIFICATION Spec
CONSTANTS
  A = A
  B = B
  None = None
  Event <- Two
  Instance = {A, B}
  InstOf <- OneEach
  Planned <- NoEvents
  Lifecycle <- NoEvents
  Pairing <- Two
  Flight = {f1, f2}
  Slot = {s1, s2}
  TurnLimit = 1
  MaxAttempts = 1
  Limits <- OneError
SYMMETRY Symmetry
INVARIANTS OnePostPerInstance
CHECK_DEADLOCK FALSE
