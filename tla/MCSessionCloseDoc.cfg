SPECIFICATION Spec
CONSTANTS
    o1 = o1
    o2 = o2
    o3 = o3
    o4 = o4
    o5 = o5
    o6 = o6
    Ops = {o1}
    Kind <- Lister
    Starters = {s1}
    Closers = {c1}
    CloseTask = CloseTask
    NoOne = NoOne
    Secrets = 0
INVARIANTS
    CloseBeforeCancellation
CHECK_DEADLOCK FALSE
