SPECIFICATION Spec
CONSTANTS
    MaxLeaf = 3
    MaxKeys = 3
    Threshold = 4
    Names <- MCManyNames
    SystemNames <- MCManySystem
    Versions = {1, 2}
    Writers = {1, 2}
    Tasks = {1}
    Batches <- MCBatches
    KeepPreGc = 1
    MaxCommits = 1
    Starts <- MCBuildStarts
INVARIANT
    NodesWellFormed
CHECK_DEADLOCK FALSE
