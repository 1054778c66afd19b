\* Two jobs of unlike priority and two workers that stay open: a claim
\* reclaims and promotes one job at most, so that a second claim must finish.
CONSTANTS
  j1 = j1
  j2 = j2
  w1 = w1
  w2 = w2
  None = None
  Jobs = {j1, j2}
  Workers = {w1, w2}
  Tokens = {1, 2, 3}
  Priority <- MCTwoPriorities
  Attempts = 1
  Lease = 1
  KeepAge <- MCKeepNothing
  KeepCount = 1
  KeepFailed = 0
  ReclaimCap = 1
  PromoteCap = 1
  TrimCap = 2
  Concurrency = 1
  MaxWait = 1
  Delays = {0, 1}
  RetryDelays <- MCNoRetry
  MaxTold = 1
SYMMETRY WorkerSymmetry
SPECIFICATION BatonSpec
INVARIANTS JobsInPlace TokenIsFence WorkHasWaker
