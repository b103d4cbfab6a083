CONSTANTS
    Nodes = {0, 1, 2}
    Peers <- Line
    Attackers = {}
    SelfishMining = FALSE
    Depth = 2
    MaxMined <- OneEach
    Fanout = 2
    Tolerance = 1
    DepthToKeep = 3
    MaxHeight = 3
    Sentinel = 9
    SelfishStats = FALSE
SPECIFICATION Spec
PROPERTY HonestConverge
CHECK_DEADLOCK FALSE
