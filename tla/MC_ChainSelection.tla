------------------------- MODULE MC_ChainSelection -------------------------
(***************************************************************************)
(* Bounded check of the fork-choice comparison over every triple of       *)
(* ChainNodes one store can hold at once: timestamps are distinct (each    *)
(* is the local insertion time of a different node) and no two nodes      *)
(* share both miner and score (score is the height, and a miner has one   *)
(* block per height).  A node's ancestorsMined never exceeds its score,   *)
(* since both count along the same path from genesis.                     *)
(***************************************************************************)
EXTENDS ChainSelection, Integers

CONSTANTS MaxScore, MaxMined, MaxTime, MinerIds

VARIABLES x, y, z

vars == <<x, y, z>>

NodeRecs == [score : 0..MaxScore, ancestorsMined : 0..MaxMined,
             timestamp : 0..MaxTime, miner : MinerIds]

Realistic(a) == a.ancestorsMined <= a.score

Distinct(a, b) ==
    /\ a.timestamp # b.timestamp
    /\ <<a.miner, a.score>> # <<b.miner, b.score>>

Init ==
    /\ x \in NodeRecs /\ y \in NodeRecs /\ z \in NodeRecs
    /\ Realistic(x) /\ Realistic(y) /\ Realistic(z)
    /\ Distinct(x, y) /\ Distinct(y, z) /\ Distinct(x, z)

Next == UNCHANGED vars

Spec == Init /\ [][Next]_vars

(* The attacker comparison is transitive: if it prefers x to y and y to z *)
(* it prefers x to z.  Without this there is no "best tip" for the        *)
(* attacker, and which tip becomes its head depends on arrival order.     *)
AttackerTransitive ==
    (Prefers(TRUE, x, y) /\ Prefers(TRUE, y, z)) => Prefers(TRUE, x, z)
=============================================================================
