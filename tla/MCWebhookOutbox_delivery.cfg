SPECIFICATION DeliverySpec
CONSTANTS
  A = A
  B = B
  None = None
  Event <- Two
  Instance = {A}
  InstOf <- AllOfA
  Planned <- FirstEvent
  Lifecycle <- SecondEvent
  Pairing <- NoEvents
  Flight = {f1}
  Slot = {s1}
  TurnLimit = 1
  MaxAttempts = 2
  Limits <- Faults
PROPERTIES KeepsAccepted OrderedRetries EventuallySettled
CHECK_DEADLOCK FALSE
