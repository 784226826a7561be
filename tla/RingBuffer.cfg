SPECIFICATION Spec
CONSTANTS
    Size = 4
    Byte = 8
    Value = {a, b}
INVARIANTS
    TypeOK
PROPERTY
    ImplementsFifo
