CONSTANTS
  b1 = b1
  b2 = b2
  x = x
  y = y
  Callers = {c1, c2, c3}
  Contents = {b1, b2}
  Size <- MCSize
  MaxChunks = 2
  ChosenIds = {}
  Requests <- MCRequests
  Retries = 1
  Nobody = Nobody
  NoFile = NoFile
  MaxRuns = 3
  m1 = m1
  m2 = m2
  m3 = m3
  d1 = d1
  d2 = d2
  Deploys = {d1, d2}
  Ids = {m1, m2, m3}
  Transactional = {m1, m3}
  Reversible = {m1, m2}
  Pasts <- MCPasts
  Orders <- MCOrders
  LockTtl = 1
  NoId = NoId
  NoBackup = 0
  Off <- MCOff
  Period <- MCPeriod
  Repositories <- MCRepositories
  Policies <- MCPolicies
  k1 = k1
  k2 = k2
  Writers = {c1, c2, c3}
  Keys = {k1, k2}
  Asks <- MCAsks
  NoRow = NoRow
  Batches = {x, y}
  MaxRebuilds = 2
  NoIndex = NoIndex
  Syncs = {c1, c2, c3}
  SyncAsks <- MCSyncAsks
  Auto <- MCAuto
  MaxAtOnce = 2
  MaxMishaps = 1
  NoLive = NoLive
  Rows = {1, 2, 3, 4}
  Values = {1, 2}
  Scopes = {"all", "part"}
  InScope <- MCInScope
  Limit = 2
  MaxMoves=1
  NoCursor = NoCursor
  NotRead = NotRead
SPECIFICATION StorageSpec
SYMMETRY StorageSymmetry
CHECK_DEADLOCK FALSE
INVARIANTS StorageTypeOK StoredWhole AppliedOnce OneMigrates RecordsTellAll KeepsPromised SyncsAgree LockTells NeverHalf WalksWhole
