SPECIFICATION Spec
CONSTANTS
    n1 = n1
    n2 = n2
    e1 = e1
    e2 = e2
    w = w
    Nodes <- MCNodes
    WithContext <- MCWithContext
    Emitters <- MCEmitters
    Workers <- MCWorkers
    ListHead = ListHead
    Null = Null
SYMMETRY MCSymmetry
INVARIANTS
    DeletedWhenUnused
    StandingSlotsInvokedOnce
CHECK_DEADLOCK FALSE
