SPECIFICATION SSpec
CONSTANTS
  Files = {1, 2}
  Fields = {"m", "c"}
  MetaFields = {"m"}
  Clients = {"client"}
  NoIndex = NoIndex
  NoField = NoField
  NotCached = NotCached
  MaxVersion = 2
  InitialFiles = {1}
  MaxTasks = 2
  BatchSize = 1
  PruneMaxCount = 1
  NoTask = NoTask
  Nobody = Nobody
  Configs <- MCConfigs
  Workloads <- MCWorkloads
  WordBits = 4
  Buckets = 4
  Precision = 8
  Letters = 4
  Code <- MCCode
  Vocabulary <- MCVocabulary
  Documents <- MCFiles
  Root = "/"
  Sub = "/s"
  DirOf <- MCDirOf
  NameOf <- MCNameOf
  NoFile = NoFile
  Sessions <- MCSessions
  Readable = {1, 3}
  MaxDepth = 2
  NoCursor = NoCursor
INVARIANTS
   NeverLost CheckpointDurable
   
PROPERTIES EndedStaysEnded BackgroundWorkEnds
CHECK_DEADLOCK FALSE
