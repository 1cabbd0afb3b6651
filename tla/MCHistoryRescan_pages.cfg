SPECIFICATION FairSpec
CONSTANTS
  c1 = c1
  c2 = c2
  Kinds = 2
  Row <- ThreeRows
  Hidden <- FirstHidden
  PageSize = 2
  ChunkSize = 1
  Client <- OneClient
  Key <- OneKey
  Job <- OneJob
  MaxAttempts = 2
  PagesPerCycle = 2
  Tables <- FewTables
  Limits <- Troubles
INVARIANTS TypeOK SameIdentitySameContent CompletedExactly
PROPERTIES JobsEnd
CHECK_DEADLOCK FALSE
