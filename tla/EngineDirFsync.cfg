SPECIFICATION EngineSpec
CONSTANTS
  k1 = k1
  k2 = k2
  v1 = v1
  Keys = {k1}
  Values = {v1}
  Durations = {1}
  KeySize <- MCKeySize
  ValueSize <- MCValueSize
  kMaxFieldSize = 3
  DoubleSize = 2
  SyncEveryN = 1
  m_maxHistoryPerKey = 0
  MaxOps = 2
  MaxEpoch = 1
  MaxCells = 5
  Failures = {}
  SnapFailures = {"dirfsync"}
INVARIANT LiveIsRecoverable
