SPECIFICATION Spec
CONSTANTS
  A = A
  B = B
  None = None
  Event <- Two
  Instance = {A}
  InstOf <- AllOfA
  Planned <- NoEvents
  Lifecycle <- NoEvents
  Pairing <- NoEvents
  Flight = {f1}
  Slot = {s1}
  TurnLimit = 1
  MaxAttempts = 1
  Limits <- OneReplay
INVARIANTS NoLoss
CHECK_DEADLOCK FALSE
