SPECIFICATION Spec
CONSTANTS
    n1 = n1
    n2 = n2
    l1 = l1
    l2 = l2
    Prefix = {p1, p2}
    Same = {n1, n2}
    Class = {l1, l2}
    Allowed <- MCAllowed
    Watcher = {w1}
    Buffer = 2
    NONE = NONE
    Budget <- WatchInputs
INVARIANT WatchViewExact
CHECK_DEADLOCK FALSE
