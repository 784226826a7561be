SPECIFICATION FairSpec
CONSTANTS
    Byte = 8
    targetValue = 11
    Shortest = 9
    Rises = 4
    Fall = 2
    MaxResets = 2
INVARIANTS
    TypeOK
    BestMatch
    OncePerReset
    LastResetAnswered
PROPERTIES
    CalibrationEnds
    CalibrationAdvances
