CONSTANTS
    Jobs = {j1, j2, j3}
    Nodes = {n1, n2}
    Followers = {}
    StepNames = {}
    MaxSteps = 1
    Keep = 1
    MaxAge = 1
    MaxNow = 3
    NoNode = NoNode
    NoJob = NoJob
SPECIFICATION Spec
SYMMETRY Symmetry
CHECK_DEADLOCK FALSE
INVARIANTS
    OneJobPerNode
    HistoryIsNewest
    CloseMeansIdle
