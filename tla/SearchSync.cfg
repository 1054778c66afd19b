\* Two processes, two documents and any two changes, with two upsets.  The
\* upsets run out, and then everything may be at rest.
CONSTANTS
  p1 = p1
  p2 = p2
  None = None
  Processes = {p1, p2}
  Steady = p1
  Reindexers = {p1}
  NumDocs = 2
  Lease = 1
  BatchSize = 2
  Kinds = {"shown", "hidden", "drop"}
  MaxLog = 2
  MaxUpsets = 2
  BreaksMidFlush = FALSE
SPECIFICATION Spec
CHECK_DEADLOCK FALSE
INVARIANTS OneWriter NothingSkipped
PROPERTIES Converges
