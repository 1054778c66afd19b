\* One job fought over by two workers that crash, close and lose replies; two jobs
\* in the two slots of a worker; and, in other behaviours, a file whose id two puts
\* share and adds under shared keys.
CONSTANTS
  j1 = j1
  j2 = j2
  w1 = w1
  w2 = w2
  None = None
  Jobs = {j1, j2}
  Workers = {w1, w2}
  Tokens = {1, 2, 3}
  Priority <- MCOnePriority
  Attempts = 2
  Lease = 1
  KeepAge = 0
  KeepCount = 1
  KeepFailed = 0
  ReclaimCap = 2
  PromoteCap = 2
  TrimCap = 2
  Concurrency = 2
  MaxWait = 1
  Delays = {0, 1}
  RetryDelays <- MCRetryDelays
  MaxTold = 1
  u1 = u1
  u2 = u2
  Putters = {u1, u2}
  Pieces <- MCPieces
  ChunkSizes <- MCChunkSizes
  Batch = 2
  Processes = {u1, u2}
  ProcessOf <- MCProcessOf
  Dropper = u2
  MaxUpsets = 1
  Ranges <- MCRanges
  NoFileYet = NoFileYet
  a1 = a1
  a2 = a2
  Calls = {a1, a2}
  Batches <- MCBatches
  MaxItems = 2
  ChunkSize = 1
  DebounceKey = "d"
  ThrottleKey = "t"
  GivenId = GivenId
  Wait = 1
  Grace = 1
  Window = 2
  MaxNow = 2
  MaxTroubles = 2
  NoJob = NoJob
  NotYet = NotYet
  MaxAttempts = 2
SYMMETRY ContentionSymmetry
SPECIFICATION ContentionSpec
INVARIANTS SlotsSound ServesAsked AddsKept
PROPERTIES NoTheft LifecycleSpec
