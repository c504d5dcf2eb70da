CONSTANTS
    Nodes = {n1}
    MaxHour = 2
    MaxBytes <- TwoThenOne
    MaxUpsets = 2
    Retention = 1
    NoNode = NoNode
SPECIFICATION FairSpec
INVARIANTS
    CountedExactly
    NothingLost
PROPERTIES
    NeverGivenBack
    EverythingSettles
CHECK_DEADLOCK FALSE
