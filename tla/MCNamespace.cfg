SPECIFICATION Spec
CONSTANTS
  val1 = val1
  val2 = val2
  snap1 = snap1
  snap2 = snap2
  Dirs <- TwoDirs
  FilePaths <- FilesInBoth
  LinkPaths <- NoPaths
  Contents = {val1, val2}
  Targets = {}
  SnapshotNames = {}
  Forks = {}
  BatchDirs <- SameParent
  MkdirExisting = FALSE
  Moves = TRUE
  MaxOps = 4
  MaxCrashes = 1
SYMMETRY ContentSymmetry
INVARIANTS AckedReadable
PROPERTIES ListedSiblingsKept
