CONSTANTS
    Nodes = {n1, n2}
    Node0 = n1
    MaxLatency = 2
    TxnNumber = 3
    MaxTime = 3
    MaxBlocks = 3
SPECIFICATION Spec
INVARIANTS NoDoubleInclusion
CHECK_DEADLOCK FALSE
