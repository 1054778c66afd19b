\* One worker stays up, the other may crash at any time; one job of three attempts.
CONSTANTS
  j1 = j1
  j2 = j2
  w1 = w1
  w2 = w2
  None = None
  Jobs = {j1}
  Workers = {w1, w2}
  Tokens = {1, 2, 3}
  Priority <- MCOnePriority
  Attempts = 3
  Lease = 2
  KeepAge <- MCKeepNothing
  KeepCount = 1
  KeepFailed = 0
  ReclaimCap = 2
  PromoteCap = 2
  TrimCap = 2
  Concurrency = 1
  MaxWait = 2
  Delays = {0, 1, 2}
  RetryDelays <- MCRetryDelays
  MaxTold = 1
SPECIFICATION LiveSpec
PROPERTIES JobsEnd
