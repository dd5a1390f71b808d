CONSTANTS
    w1 = w1
    Workers = {w1}
    MaxLane = 3
    ExecTimeout = "none"
    Kinds = {"scan", "resources", "plain", "rejected", "newer", "self"}
    Faults = {"fork", "accept", "conn", "exec", "sync", "tree", "crash", "main", "client", "stray"}

SPECIFICATION FairSpec

INVARIANTS
    AckBeforeReply
    FinMeansAllSent
    FewUnderWay
    WakeupFindsWaiter

PROPERTIES
    TimeoutIsFinal
    RefinesWorkerControl
    CommandEnds
    ClientAnswered
    ScanLeavesStageWait

CHECK_DEADLOCK FALSE
