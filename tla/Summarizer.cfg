SPECIFICATION USpec
CONSTANTS
  MaxSegments = 4
  MaxLength = 3
  MaxChars = 2
  Overlaps = {0, 1, 2}
  MaxSingle = 4
  MaxItems = 1
  MaxQuoted = 3
CHECK_DEADLOCK FALSE
INVARIANTS CoversInOrder ChunksFit EveryPartMerged QuotesWereShown
