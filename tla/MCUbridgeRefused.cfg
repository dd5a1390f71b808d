CONSTANTS
    w1 = w1
    Workers = {w1}
    MaxLane = 3
    ExecTimeout = "none"
    Kinds = {"rejected", "plain"}
    Faults = {}

SPECIFICATION FairSpec

PROPERTY EveryClientAnswered

CHECK_DEADLOCK FALSE
