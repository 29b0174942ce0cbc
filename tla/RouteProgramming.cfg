SPECIFICATION FairSpec
CONSTANTS
    n1 = n1
    n2 = n2
    l1 = l1
    l2 = l2
    Prefix = {p1, p2}
    Same = {n1, n2}
    Class = {l1, l2}
    Allowed <- MCAllowed
    Watcher = {w1}
    Buffer = 2
    NONE = NONE
    Budget <- ProgramInputs
INVARIANTS TypeOK KernelMirrorsRIB WatchView
PROPERTIES NoRepeatedEvents RoutesInstalled
CHECK_DEADLOCK FALSE
