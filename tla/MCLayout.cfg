CONSTANTS
  MaxRev = 9
  a = a
  b = b
  c = c
  d = d
  Chunks <- MCChunks
  Size <- MCSize
  Blocks <- MCBlocks
  Capacity <- MCCapacity
  Wals <- MCWals
  Buffered = 2
  MaxPos = 20
  Mixes <- MCMixes
  RebuildAlone = TRUE
SPECIFICATION MCSpec
INVARIANTS NoSequenceTie RollbackPointKeptElsewhere EntriesReachable ReadsRight
PROPERTY ExpandsAtStart
CHECK_DEADLOCK FALSE
