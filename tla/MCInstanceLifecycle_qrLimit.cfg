SPECIFICATION Spec
CONSTANTS
  Ticket <- TwoTickets
  QrLimit = 0
  Limits <- Transport
PROPERTIES ReplacementSpared
CHECK_DEADLOCK FALSE
