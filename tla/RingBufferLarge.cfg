SPECIFICATION Spec
CONSTANTS
    Size = 129
    Byte = 256
    Value = {a}
INVARIANT
    InsertUsesFreeSlot
