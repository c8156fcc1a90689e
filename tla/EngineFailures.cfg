SPECIFICATION EngineSpec
CONSTANTS
  k1 = k1
  k2 = k2
  v1 = v1
  Keys = {k1}
  Values = {v1}
  Durations = {1}
  KeySize <- MCKeySize
  ValueSize <- MCValueSize
  kMaxFieldSize = 3
  DoubleSize = 2
  SyncEveryN = 1
  m_maxHistoryPerKey = 1
  MaxOps = 1
  MaxEpoch = 2
  MaxCells = 3
  Failures = {"kill", "open header", "open fsync", "close fsync", "write", "partial write", "append fsync", "torn header", "reset fsync", "ftruncate", "reset header", "reset header fsync", "fstat", "read", "recover ftruncate"}
  SnapFailures = {"write", "fsync", "rename", "dirfsync", "load"}
PROPERTY EngineReturns
PROPERTY SnapshotHeals
