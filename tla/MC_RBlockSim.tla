---------------------------- MODULE MC_RBlockSim ----------------------------
(* Model values and peer lists for checking RBlockSim *)
EXTENDS RBlockSim, TLC

\* every node gossips to every other (the topology is generated, not in src/)
FullMesh == [n \in Nodes |-> Nodes \ {n}]

\* nodes on a line: each gossips to its neighbours only
Line == [n \in Nodes |-> {m \in Nodes : m = n - 1 \/ m = n + 1}]

\* one block per node
OneEach == [n \in Nodes |-> 1]

\* node 0 may mine three blocks, the others two
MinedBound == [n \in Nodes |-> IF n = 0 THEN 3 ELSE 2]
=============================================================================
