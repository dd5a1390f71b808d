CONSTANTS
    k1 = k1
    v1 = v1
    v2 = v2
    c1 = c1
    c2 = c2
    c3 = c3
    c4 = c4
    c5 = c5
    c6 = c6
    NULL = NULL
    Keys = {k1}
    Values = {v1, v2}
    Cells = {c1, c2, c3, c4, c5, c6}
    MaxCalls = 5

SPECIFICATION Spec

SYMMETRY Symmetry

INVARIANTS
    HeapSafe
    OneOwner
    EndsAsExpected
