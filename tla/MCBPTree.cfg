SPECIFICATION Spec
CONSTANTS
    a = a
    b = b
    Keys <- MCKeys
    Data = {a, b}
    Order = 4
    AliasPairs <- NextToKey
    KeyPrefixes <- MCPrefixes
    Starts <- MCStarts
    MaxOps = 3
INVARIANTS Shape IterationComplete NothingLeaks
PROPERTIES RefinesMap
CHECK_DEADLOCK FALSE
