--------------------------- MODULE MC_ForkTreeNode ---------------------------
(* Node Me among the other miners.  Inside one store no two nodes share a  *)
(* timestamp, so chainNodeMax never reaches its miner-id tie-break and the *)
(* other miners, given as model values, are interchangeable.               *)
EXTENDS ForkTreeNode, TLC

OthersSymmetry == Permutations(Others)
=============================================================================
