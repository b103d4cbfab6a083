--------------------------- MODULE MC_SerialKernel ---------------------------
(* Hash-power draws for checking SerialKernel *)
EXTENDS SerialKernel

\* honest LPs 0, 1 and 2 with different raw hash power (attacker 3)
Draws == [l \in {0, 1, 2} |-> l + 1]
=============================================================================
