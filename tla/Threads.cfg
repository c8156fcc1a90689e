SPECIFICATION Spec
CONSTANTS
  t1 = t1
  t2 = t2
  t3 = t3
  k1 = k1
  kBig = kBig
  v1 = v1
  vBig = vBig
  NoThread = NoThread
  done = done
  threw = threw
  nullopt = nullopt
  Threads = {t1, t2}
  Keys = {k1, kBig}
  Values = {v1, vBig}
  Durations = {1}
  KeySize <- MCKeySize
  ValueSize <- MCValueSize
  kMaxFieldSize = 3
  DoubleSize = 2
  m_maxHistoryPerKey = 2
  MaxCalls = 3
  Failures = {"write", "partial write", "append fsync", "save", "dirfsync", "ftruncate", "reset header",
              "reset header fsync", "load", "fstat", "read", "recover ftruncate"}
INVARIANT TypeOK
INVARIANT LogGivesMap
INVARIANT HistoriesInClockOrder
INVARIANT TerminateLosesNothing
PROPERTY Linearizable
CHECK_DEADLOCK FALSE
PROPERTY CallsComeBack
