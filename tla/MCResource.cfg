SPECIFICATION Spec
CONSTANTS
    Res = {1, 2, 3, 4, 5}
    Prios <- MCPrios
    FlagSets <- MCFlags
    Iters = {1}
    Sources = {1}
    SourceSpecs <- MCSources
    Unlimited = 7
    Starts <- MCStarts
    MaxOps = 5
INVARIANTS RefsExact NothingKeepsItself TreeSound WalkMissesNothing SearchesReach
CHECK_DEADLOCK FALSE
