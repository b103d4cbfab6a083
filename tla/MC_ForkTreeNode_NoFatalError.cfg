CONSTANTS
    Me = 0
    Others = {1}
    Sentinel = 3
    Attackers = {}
    IsAttacker = FALSE
    SelfishStats = TRUE
    Tolerance = 1
    DepthToKeep = 2
    MaxHeight = 4
SPECIFICATION Spec
INVARIANTS NoFatalError
CHECK_DEADLOCK FALSE
