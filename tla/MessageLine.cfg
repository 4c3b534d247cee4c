SPECIFICATION Spec
CONSTANTS
    Instants <- MCInstants
    Patterns <- MCPatterns
    DefaultPattern <- MCDefaultPattern
    Names = {"base"}
    Messages <- MCMessages
    Refused = {"{"}
    LogLevels = {0, 3}
    ColourSettings <- MCColourSettings
    Consoles = {"std_out", "std_err"}
    Terminals = {"stdout"}
INVARIANTS
    FieldsFresh
    LineCurrent
    LineAsPattern
