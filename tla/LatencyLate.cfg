SPECIFICATION Spec
CONSTANTS
    MIN_PERIOD = 3
    Wrap = 8
    BINS = 3
    Commands = {"t"}
    MaxMatches = 4
PROPERTY
    LateCounted
