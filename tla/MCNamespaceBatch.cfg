SPECIFICATION Spec
CONSTANTS
  val1 = val1
  val2 = val2
  snap1 = snap1
  snap2 = snap2
  Dirs <- OneDir
  FilePaths <- FileAtRoot
  LinkPaths <- NoPaths
  Contents = {val1}
  Targets = {val1}
  SnapshotNames = {}
  Forks = {}
  BatchDirs <- RootAndChild
  MkdirExisting = FALSE
  Moves = FALSE
  MaxOps = 2
  MaxCrashes = 0
INVARIANTS AckedReadable
