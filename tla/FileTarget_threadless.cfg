SPECIFICATION Spec
CONSTANTS
    Writers = {w1, w2}
    Workers = {g1}
    Owner = owner
    NoThread = none
    MTSupport = TRUE
    Policies <- ThreadlessPolicies
    OpenOutcomes = {TRUE}
    MoveOutcomes = {}
    MsgSizes = {1, 2}
    PageSize = 2
    MaxMsgs = 2
    MaxDisk = 4
INVARIANTS
    TypeOK
    ThreadlessInv
    NoDataRace
    BufferBounded
    AlwaysFlushed
    DestroyedComplete
PROPERTIES
    ImplementsLog
