SPECIFICATION Spec
CONSTANTS
    Texts <- MCTexts
    Malformed <- MCMalformed
    WCharSize = 2
    MaxConversions = 4
INVARIANTS
    TypeOK
    AsUnicode
    ReserveExact
PROPERTIES
    ConversionEnds
