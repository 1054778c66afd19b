CONSTANTS
  b1 = b1
  b2 = b2
  Callers = {c1, c2, c3, c4}
  Contents = {b1}
  Size <- MCSize
  MaxChunks = 2
  ChosenIds = {}
  Requests <- MCOnceAndDelete
  Retries = 1
  Nobody = Nobody
  NoFile = NoFile
SPECIFICATION GridSpec
SYMMETRY Symmetric
CHECK_DEADLOCK FALSE
INVARIANTS NeverShort
