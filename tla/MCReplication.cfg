SPECIFICATION Spec
CONSTANTS
  a = a
  b = b
  c = c
  Nodes = {a, b, c}
  FilePaths <- OneFile
  LinkPaths <- OneLink
  Values = {1, 2}
  Topologies <- ChainOrRounds
  MaxHashes = 1
  UnsafeGc = FALSE
INVARIANTS
  ReplicaHoldsBase
  RoundConverges
  
  
PROPERTIES
  Converges
CHECK_DEADLOCK FALSE
