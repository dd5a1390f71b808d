CONSTANTS
    PrefixLen = 2
    CmdLen = 2
    HdrLen = 3
    ExtLen = 2
    Bodies = {0, 1, 3}
    MaxMessages = 3
    Capacity = 7

SPECIFICATION FairSpec

INVARIANTS
    DeliveredExactly
    EndIsTrue

PROPERTY AllArrive

CHECK_DEADLOCK FALSE
