CONSTANTS
  f1 = f1
  f2 = f2
  Runs = {r1, r2}
  Prints = {f1, f2}
  Requests <- MCRequests
  Lease = 1
  Ttl = 1
  MaxWait = 1
  MaxPipe = 1
  LosesConnection = FALSE
  NoRun = NoRun
SPECIFICATION Spec
CHECK_DEADLOCK FALSE
INVARIANTS GivenBack
