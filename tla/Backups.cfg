CONSTANTS
  Runs = {r1, r2}
  Lease = 2
  Skew = 1
  Gone = Gone
  NoBackup = 0
  Off <- MCOff
  Period <- MCPeriod
  MaxId = 3
  PutTime = 1
  IncompleteAfter = 4
  Kinds = {"incremental", "differential", "full", "prune", "hold", "unhold"}
  Policies <- MCPolicies
  Repositories <- MCRepositories
  orders = orders
  reviews = reviews
  archive = archive
  Listing <- MCListing
  Filters <- MCFilters
  MaxEvents = 3
  MaxRestored = 1
  MaxBackups = 2
  Sources <- MCSources
  AskedFor <- MCAskedFor
  Lives <- MCLives
  NoColl = NoColl
  Files = {f, g}
  Contents = {a, b}
  Repos = {near, far}
  MaxBackup = 3
  MaxClock = 1
  Settled = 1
  Granule = 1
  MaxWrites = 1
  MaxMishaps = 1
  NoFileThere = NoFileThere
  NoBackupThere = NoBackupThere
  Damaged = Damaged
SPECIFICATION BackupsSpec
SYMMETRY Symmetric
CHECK_DEADLOCK FALSE
INVARIANTS Exclusion Restorable NeverAtOnce RestoresAsOf LandsSafely ReadsBack
