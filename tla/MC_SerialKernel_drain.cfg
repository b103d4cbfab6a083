CONSTANTS
    LPs = {0, 1, 2, 3}
    Attackers = {3}
    HashPower <- Draws
    AttackPortion = 1
    Term = 3
    GenDelays = {1, 2, 3}
    NetDelays = {1}
    TieInitFirst = TRUE
SPECIFICATION Spec
INVARIANT NoGenerationLeft
CHECK_DEADLOCK FALSE
