SPECIFICATION Spec
CONSTANTS
    Saves <- MCSaves
    MaxThreads = 3
INVARIANTS
    TypeOK
    OwnToken
    CacheWhole
    NobodyWaits
    ActiveOrGivenUp
PROPERTIES
    DestructionReturns
    CacheFollowsClock
