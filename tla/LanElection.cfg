SPECIFICATION FairSpec
CONSTANTS
    r1 = r1
    r2 = r2
    r3 = r3
    c1 = c1
    la = la
    lb = lb
    lp = lp
    Node = {r1, r2, r3}
    Circuit = {c1}
    P2P = {}
    LspId = {}
    Body = {b1}
    NONE = NONE
    Ends <- MCEnds
    Owner <- MCOwner
    Pseudonode <- MCPseudonode
    Rank <- MCRank
    MaxSeq = 9
    MaxSend = 1
    EntryLimit = 0
    SeqBound = 1
    QueueBound = 0
    Budget <- ElectionBudget
PROPERTY OneDIS
