SPECIFICATION EngineSpec
CONSTANTS
  k1 = k1
  k2 = k2
  v1 = v1
  Keys = {k1, k2}
  Values = {v1}
  Durations = {1}
  KeySize <- MCKeySize
  ValueSize <- MCValueSize
  kMaxFieldSize = 3
  DoubleSize = 2
  SyncEveryN = 2
  m_maxHistoryPerKey = 2
  MaxOps = 3
  MaxEpoch = 2
  MaxCells = 5
  Failures = {"power", "write", "open header", "open fsync", "reset fsync", "ftruncate"}
  SnapFailures = {"write", "fsync", "rename"}
INVARIANT EngineTypeOK
INVARIANT DurabilityInv
INVARIANT LiveMatchesJournal
INVARIANT LiveIsRecoverable
INVARIANT PowerCutKeepsPromise
PROPERTY ImplementsDurableStore
