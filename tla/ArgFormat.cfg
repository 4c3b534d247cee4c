SPECIFICATION Spec
CONSTANTS
    MaxArgCount = 25
    UtcOffsetHours = 2
    TZAbbrev <- Zone
    Grouping <- Thousands
    PlainLocale = TRUE
    Uses <- MCUses
INVARIANTS
    Accepts
    AsStdFormat
PROPERTIES
    EveryTurnAdvances
