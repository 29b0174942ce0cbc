SPECIFICATION Spec
CONSTANTS
    r1 = r1
    r2 = r2
    r3 = r3
    c1 = c1
    la = la
    lb = lb
    lp = lp
    Node = {r1, r2}
    Circuit = {c1}
    P2P = {}
    LspId = {la, lb}
    Body = {b1, b2}
    NONE = NONE
    Ends <- MCEnds
    Owner <- MCOwner
    Pseudonode <- MCPseudonode
    Rank <- MCRank
    MaxSeq = 2
    MaxSend = 1
    EntryLimit = 1
    SeqBound = 1
    QueueBound = 1
    Budget <- LanFaultBudget
INVARIANTS TypeOK DatabaseBounded
PROPERTY NeverStepsBack
SYMMETRY FaultSymmetry
