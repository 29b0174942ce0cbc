SPECIFICATION Spec
CONSTANTS
    r1 = r1
    r2 = r2
    c1 = c1
    la = la
    lx = lx
    Node = {r1, r2}
    Circuit = {c1}
    P2P = {c1}
    LspId = {lx}
    Body = {b1}
    NONE = NONE
    Ends <- MCEnds
    Owner <- MCOwner
    Pseudonode <- MCPseudonode
    MaxSeq = 9
    MaxSend = 1
    EntryLimit = 0
    SeqBound = 2
    QueueBound = 1
    Budget <- DeliveryBudget
INVARIANT NoLostUpdate
SYMMETRY NodeSymmetry
