SPECIFICATION Spec
CONSTANTS
  c1 = c1
  c2 = c2
  f = f
  r = r
  Setups <- CrashAndGc
INVARIANTS IndexPointsAtEntry AckedWritesSurvive HeadIsIndexed RepairSettles
SYMMETRY ChunkSymmetry
