\* A stream may fail for good while a flush is under way.
CONSTANTS
  p1 = p1
  p2 = p2
  None = None
  Processes = {p1, p2}
  Steady = p1
  Reindexers = {p1}
  NumDocs = 2
  Lease = 1
  BatchSize = 2
  Kinds = {"shown", "hidden", "drop"}
  MaxLog = 2
  MaxUpsets = 2
  BreaksMidFlush = TRUE
SPECIFICATION Spec
CHECK_DEADLOCK FALSE
INVARIANTS LetGoAfterFlush
