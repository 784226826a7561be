SPECIFICATION Spec
CONSTANTS
    MIN_PERIOD = 3
    Wrap = 8
    BINS = 3
    Commands = {"t", "^C", "x"}
    MaxMatches = 4
INVARIANTS
    TypeOK
    ReportAddsUp
    ReportTrue
PROPERTY
    SamplesTrue
