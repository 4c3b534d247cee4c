SPECIFICATION Spec
CONSTANTS
    Bases <- OneBase
    NameContains <- OneContains
    NoFile = none
    Modes = {"file_size"}
    Limits = {4}
    Maxima = {3}
    DefaultMax = 3
    Truncations = {TRUE, FALSE}
    MsgSizes = {1,2,4}
    Calls = {}
    MaxLogged = 14
    MaxClock = 1
INVARIANTS
    NoLoss
    FilesWithinLimit
    FileCountBounded
