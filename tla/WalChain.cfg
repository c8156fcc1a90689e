SPECIFICATION WALSpec
CONSTANTS
  k1 = k1
  kBig = kBig
  v1 = v1
  vBig = vBig
  Keys = {k1, kBig}
  Values = {v1, vBig}
  Durations = {1}
  KeySize <- MCKeySize
  ValueSize <- MCValueSize
  kMaxFieldSize = 3
  DoubleSize = 2
  SyncEveryN = 2
  MaxCells = 3
  MaxEpoch = 0
  Failures = {"kill", "power", "write", "append fsync", "open header", "open fsync", "close fsync", "reset fsync", "ftruncate"}
INVARIANT WALTypeOK
INVARIANT ChainInv
INVARIANT OwnLogAccepted
INVARIANT CheckpointMatchesLog
PROPERTY RecoveryKeepsEntries
PROPERTY CallsReturn
