SPECIFICATION ServicesSpec
CONSTANTS
  k1 = k1
  c1 = c1
  c2 = c2
  c3 = c3
  n1 = n1
  n2 = n2
  p1 = p1
  p2 = p2
  l1 = l1
  l2 = l2
  w1 = w1
  w2 = w2
  x1 = x1
  x2 = x2
  x3 = x3
  e1 = e1
  e2 = e2
  Creds = creds
  Key <- OneKey
  OldKey <- OneKey
  Limits <- Storage
  Caller <- Three
  Name <- TwoNames
  NoCall = NoCall
  Phone <- TwoPhones
  Lid <- TwoLids
  NoJid = NoJid
  ContactCall <- TwoWrites
  NoContact = NoContact
  Poll <- Three
  Contact <- TwoContacts
  NoPoll = NoPoll
  MaxRequests = 1
  MaxEpoch = 2
  Preview <- Three
  Link <- ThreeLinks
  ConnectionOf <- Of
  NoPreview = NoPreview
  Concurrency = 1
  MaxPending = 2
  MaxEntries = 2
  MaxEntriesPerConnection = 1
  Job <- FourJobs
  MaxWorkers = 2
  MaxQueued = 1
  Download <- Three
  MaxDownloads = 2
  MaxSockets = 2
  HistoryEvent <- TwoRuns
  Connection <- OneConnection
  ConnOf <- OfOne
  Happenings <- FewHappenings
  Space <- TwoSpaces
  Part <- OneQuery
  Listed <- ListsAll
  CatalogCall <- TwoWrites
  NoCatalog = NoCatalog
  LogSize = 3
  MaxChanges = 1
  MaxMishaps = 1
INVARIANTS
  AuthSafety OnePersonPlanned GateSafety PresenceSafety PreviewSafety MediaSafety IndexSafety
  CatalogSafety
PROPERTIES
  ServesInOrder NoWriteAfterDoubt PoolSafety
  ServicesLive
CHECK_DEADLOCK FALSE
