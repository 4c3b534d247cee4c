SPECIFICATION Spec
CONSTANTS
    Bases <- OneBase
    NameContains <- OneContains
    NoFile = none
    Modes = {"file_size"}
    Limits = {4}
    Maxima = {2}
    DefaultMax = 2
    Truncations = {FALSE}
    MsgSizes = {1, 2}
    Calls = {"flush"}
    MaxLogged = 9
    MaxClock = 1
INVARIANTS
    NoLoss
