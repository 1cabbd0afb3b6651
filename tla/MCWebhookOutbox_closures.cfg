SPECIFICATION SmallSpec
CONSTANTS
  A = A
  B = B
  None = None
  Event <- Two
  Instance = {A}
  InstOf <- AllOfA
  Planned <- NoEvents
  Lifecycle <- NoEvents
  Pairing <- NoEvents
  Flight = {f1, f2}
  Slot = {s1, s2}
  TurnLimit = 1
  MaxAttempts = 1
  Limits <- Closures
SYMMETRY Symmetry
INVARIANTS TypeOK ClosuresCancel LaneSerial
PROPERTIES NoPostAfterClose
CHECK_DEADLOCK FALSE
