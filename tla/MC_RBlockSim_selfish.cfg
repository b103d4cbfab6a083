CONSTANTS
    Nodes = {0, 1}
    Peers <- FullMesh
    Attackers = {0}
    SelfishMining = TRUE
    Depth = 2
    MaxMined <- MinedBound
    Fanout = 1
    Tolerance = 1
    DepthToKeep = 3
    MaxHeight = 3
    Sentinel = 9
    SelfishStats = TRUE
SPECIFICATION Spec
INVARIANTS TypeOK NoAncestorAbort StoresApplied StoresCountMined
PROPERTY HonestConverge
CHECK_DEADLOCK FALSE
