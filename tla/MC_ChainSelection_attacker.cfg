CONSTANTS
    Tolerance = 1
    MaxScore = 3
    MaxMined = 2
    MaxTime = 2
    MinerIds = {0, 1, 2}
SPECIFICATION Spec
INVARIANT AttackerTransitive
