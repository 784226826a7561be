SPECIFICATION FairSpec
CONSTANTS
    Byte = 256
    targetValue = 2284
    Shortest = 2283
    Rises = 0
    Fall = 0
    MaxResets = 1
PROPERTIES
    CalibrationEnds
