CONSTANTS
    w1 = w1
    p1 = p1
    Workers = {w1}
    Payloads = {p1}
    MaxLane = 2
    ExecTimeout = "TERM"

SPECIFICATION FairSpec

INVARIANTS
    KillHitsOwnChild
    ListensWhileAlive
    ReceivedBeforeDestroy
    YieldNotLost
    ExitSignalSent

PROPERTIES
    YieldedIsReaped
    OrphanEnds

CHECK_DEADLOCK FALSE
