SPECIFICATION Spec
CONSTANTS
    a = a
    b = b
    Keys <- SmallKeys
    Data = {a, b}
    Order = 4
    AliasPairs <- AcrossKey
    KeyPrefixes = {}
    Starts <- SmallStarts
    MaxOps = 3
PROPERTIES DeleteKeepsOthers
CHECK_DEADLOCK FALSE
