CONSTANTS
    k1 = k1
    k2 = k2
    k3 = k3
    a = a
    b = b
    m1 = m1
    m2 = m2
    c1 = c1
    c2 = c2
    c3 = c3
    c4 = c4
    c5 = c5
    c6 = c6
    c7 = c7
    c8 = c8
    c9 = c9
    NULL = NULL
    Core = Core
    Keys = {k1, k2, k3}
    Items = {a, b}
    Cells = {c1, c2, c3, c4, c5, c6, c7, c8, c9}
    Values <- Stored
    MaxCalls = 12
    Exports <- MCExports

SPECIFICATION SyncSpec

CHECK_DEADLOCK FALSE

INVARIANTS
    LatestWins
    AddedStays
    OnlyAllowedWrites
    FailedSyncUndone

PROPERTIES
    RefinesStore
