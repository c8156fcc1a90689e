SPECIFICATION WALSpec
CONSTANTS
  k1 = k1
  kBig = kBig
  v1 = v1
  vBig = vBig
  Keys = {k1}
  Values = {}
  Durations = {1}
  KeySize <- MCKeySize
  ValueSize <- MCValueSize
  kMaxFieldSize = 3
  DoubleSize = 2
  SyncEveryN = 3
  MaxCells = 4
  MaxEpoch = 1
  Failures = {"power", "write", "open header", "ftruncate", "reset header", "fstat", "read", "recover ftruncate"}
INVARIANT GroupCommitInv
INVARIANT GroupCommitBound
