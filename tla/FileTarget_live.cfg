SPECIFICATION FairSpec
CONSTANTS
    Writers = {w1}
    Workers = {g1}
    Owner = owner
    NoThread = none
    MTSupport = TRUE
    Policies <- TimeOnly
    OpenOutcomes = {TRUE}
    MoveOutcomes = {TRUE}
    MsgSizes = {1}
    PageSize = 2
    MaxMsgs = 2
    MaxDisk = 2
PROPERTIES
    LogMessageReturns
    RenameReturns
    DestructorReturns
    BufferDrains
