SPECIFICATION FairSpec
CONSTANTS
  Ticket <- TwoTickets
  QrLimit = 1
  Limits <- Everything
INVARIANTS TypeOK ConnectsOnce ShownIsTrue NeverAbandoned RevokedNeverReused QuietAfterShutdown
PROPERTIES FormerSocketInert OpensOnSavedAuth Reconnects
CHECK_DEADLOCK FALSE
