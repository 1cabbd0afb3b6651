SPECIFICATION HistorySpec
CONSTANTS
  e1 = e1
  n1 = n1
  HistoryEvent <- OneRun
  Connection <- OneConnection
  ConnOf <- OfOne
  Happenings <- Afterwards
INVARIANTS BacklogSeen
CHECK_DEADLOCK FALSE
