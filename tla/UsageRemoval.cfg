CONSTANTS
    Nodes = {n1}
    MaxHour = 2
    MaxBytes <- TwoThenOne
    MaxUpsets = 1
    Retention = 1
    NoNode = NoNode
SPECIFICATION Spec
INVARIANTS
    CountedOnceEver
