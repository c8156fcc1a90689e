SPECIFICATION AuditSpec
CONSTANTS
  k1 = k1
  kBig = kBig
  Keys = {k1, kBig}
  Values = {}
  Durations = {1}
  KeySize <- MCKeySize
  ValueSize <- MCValueSize
  kMaxFieldSize = 3
  DoubleSize = 2
  SyncEveryN = 1
  MaxCells = 3
  MaxEpoch = 0
  Failures = {"kill"}
  Damages = {}
  ToolFailures = {}
INVARIANT OwnLogAccepted
