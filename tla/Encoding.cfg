SPECIFICATION EncodingSpec
CHECK_DEADLOCK FALSE
CONSTANTS
  SampleBytes <- MCSampleBytes
  MaxMessage = 4
  Byte <- MCByte
  Chunks = {1, 3, 32, 33}
  MaxHashed = 140
  PayloadSizes <- MCPayloadSizes
  Counts = {0, 1, 2, 9}
  Texts = {"a", "b"}
INVARIANT CRCIsStandard
INVARIANT StoredWordsReadBack
INVARIANT PaddingIsStandard
INVARIANT LoadStaysInBounds
INVARIANT LoadRefusesOnlyShort
INVARIANT LoadReadsWhatSaveWrites
