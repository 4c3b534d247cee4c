SPECIFICATION Spec
CONSTANTS
    Bases <- TwoBases
    NameContains <- TwoContain
    NoFile = none
    Modes = {"file_size", "interval"}
    Limits = {1}
    Maxima = {1, 2}
    DefaultMax = 2
    Truncations = {FALSE}
    MsgSizes = {0, 3}
    Calls = {"flush", "rotate", "rename", "enable", "reconfigure"}
    MaxLogged = 3
    MaxClock = 1
INVARIANTS
    TypeOK
PROPERTIES
    PreviousKept
