CONSTANTS
    Jobs = {j1}
    Nodes = {n1}
    Followers = {f1}
    StepNames = {s1, s2}
    MaxSteps = 2
    Keep = 1
    MaxAge = 1
    MaxNow = 0
    NoNode = NoNode
    NoJob = NoJob
SPECIFICATION FairSpec
CHECK_DEADLOCK FALSE
INVARIANTS
    FollowerCurrent
    FinalStateDelivered
    NoSecretShown
PROPERTIES
    FollowerReleased
