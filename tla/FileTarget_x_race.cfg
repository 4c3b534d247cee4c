SPECIFICATION Spec
CONSTANTS
    Writers = {w1}
    Workers = {g1}
    Owner = owner
    NoThread = none
    MTSupport = FALSE
    Policies <- TimeOnly
    OpenOutcomes = {TRUE}
    MoveOutcomes = {}
    MsgSizes = {1}
    PageSize = 2
    MaxMsgs = 2
    MaxDisk = 4
INVARIANTS
    HandshakeProtects
