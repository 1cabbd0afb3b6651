SPECIFICATION Spec
CONSTANTS
  c1 = c1
  c2 = c2
  Kinds = 1
  Row <- OneRow
  Hidden <- NoneHidden
  PageSize = 1
  ChunkSize = 1
  Client <- TwoClients
  Key <- TwoKeys
  Job <- TwoJobs
  MaxAttempts = 2
  PagesPerCycle = 2
  Tables <- AnyTable
  Limits <- Jobs
SYMMETRY Symmetry
INVARIANTS IdempotentKey
PROPERTIES EndedIsFinal BoundToConnection
CHECK_DEADLOCK FALSE
