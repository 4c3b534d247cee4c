SPECIFICATION Spec
CONSTANTS
    Bases <- OneBase
    NameContains <- OneContains
    NoFile = none
    Modes = {"file_size"}
    Limits = {4}
    Maxima = {1, 2}
    DefaultMax = 2
    Truncations = {TRUE, FALSE}
    MsgSizes = {1,3,4}
    Calls = {"flush", "rotate"}
    MaxLogged = 11
    MaxClock = 1
INVARIANTS
    BeliefExact
    LimitHeld
    FilesBelowTwice
