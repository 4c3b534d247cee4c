SPECIFICATION Spec
CONSTANTS
    Writers = {w1, w2}
    Workers = {g1, g2}
    Owner = owner
    NoThread = none
    MTSupport = TRUE
    Policies <- TimeThenNever
    OpenOutcomes = {TRUE}
    MoveOutcomes = {}
    MsgSizes = {1}
    PageSize = 2
    MaxMsgs = 2
    MaxDisk = 4
SYMMETRY WriterSymmetry
INVARIANTS
    RacePartners
    FlushAnnounced
    EnabledThreadRuns
    Conserved
