CONSTANTS
    Me = me
    Others = {o1, o2}
    Sentinel = sentinel
    Attackers = {}
    IsAttacker = FALSE
    SelfishStats = TRUE
    Tolerance = 1
    DepthToKeep = 3
    MaxHeight = 3
SPECIFICATION Spec
SYMMETRY OthersSymmetry
INVARIANTS TypeOK MainChainApplied HeadIsBest NoStrandedOrphan LinksConsistent
PROPERTY HonestHeadRefined
CHECK_DEADLOCK FALSE
