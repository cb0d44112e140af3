SPECIFICATION Spec
CONSTANTS
  val1 = val1
  val2 = val2
  snap1 = snap1
  snap2 = snap2
  Dirs <- OneDir
  FilePaths <- FilesInOne
  LinkPaths <- TwoLinks
  Contents = {val1}
  Targets = {val1}
  SnapshotNames = {snap1, snap2}
  Forks = {"f"}
  BatchDirs <- SameParent
  MkdirExisting = FALSE
  Moves = TRUE
  MaxOps = 6
  MaxCrashes = 0
SYMMETRY VersionSymmetry
INVARIANTS AckedReadable
