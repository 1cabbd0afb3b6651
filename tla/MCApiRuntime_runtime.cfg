SPECIFICATION FairSpec
CONSTANTS
  k1 = k1
  k2 = k2
  c1 = c1
  c2 = c2
  Key <- TwoKeys
  Object <- ThreeObjects
  Client <- TwoClients
  Limits <- Stops
INVARIANTS NoOrphan DatabaseOutlivesUse StartAndStopAgree
PROPERTIES StopEnds RestoredAtLast
CHECK_DEADLOCK FALSE
