--------------------------- MODULE ChainSelection ---------------------------
(***************************************************************************)
(* The fork-choice comparison of RBlockSim: chainNodeMax and its honest    *)
(* and attacker variants (src/RBlockSim/src/Block.c).  A ChainNode is a    *)
(* record with the four fields the comparison reads:                       *)
(*   score          -- chain score, equal to the height in this code       *)
(*   ancestorsMined -- ancestors (self included) mined by the local node   *)
(*   timestamp      -- local insertion time of the node                    *)
(*   miner          -- id of the miner, compared as an integer             *)
(* Each operator returns one of its two arguments, as the C functions      *)
(* return one of their two pointers.                                       *)
(***************************************************************************)
EXTENDS Integers

CONSTANT Tolerance   \* attackConfig.{fiftyOne,selfish}.catchupTolerance

ASSUME Tolerance \in Nat

\* Mutant: the timestamp tie-break prefers the later node.
ChainNodeMaxHonestLateTs(a, b) ==
    CASE a.score > b.score -> a
      [] a.score < b.score -> b
      [] a.ancestorsMined > b.ancestorsMined -> a
      [] a.ancestorsMined < b.ancestorsMined -> b
      [] a.timestamp > b.timestamp -> a
      [] a.timestamp < b.timestamp -> b
      [] OTHER -> IF a.miner <= b.miner THEN a ELSE b

(* chainNodeMaxHonest: lexicographic on higher score, more ancestors       *)
(* mined, earlier timestamp, lower miner id.                               *)
ChainNodeMaxHonest(a, b) ==
    CASE a.score > b.score -> a
      [] a.score < b.score -> b
      [] a.ancestorsMined > b.ancestorsMined -> a
      [] a.ancestorsMined < b.ancestorsMined -> b
      [] a.timestamp < b.timestamp -> a
      [] a.timestamp > b.timestamp -> b
      [] OTHER -> IF a.miner <= b.miner THEN a ELSE b

(* chainNodeMaxAttacker: the node with more ancestors mined (A) wins when  *)
(* its score is not lower, or is lower by less than Tolerance; a deficit  *)
(* of exactly Tolerance falls through to timestamp and miner.              *)
ChainNodeMaxAttacker(a, b) ==
    IF a.ancestorsMined = b.ancestorsMined
    THEN ChainNodeMaxHonest(a, b)
    ELSE LET swap == a.ancestorsMined < b.ancestorsMined
             A == IF swap THEN b ELSE a
             B == IF swap THEN a ELSE b
             virtualScore == A.score + Tolerance
         IN  CASE A.score >= B.score -> A
               [] virtualScore > B.score -> A
               [] virtualScore < B.score -> B
               [] A.timestamp < B.timestamp -> A
               [] A.timestamp > B.timestamp -> B
               [] OTHER -> IF A.miner <= B.miner THEN A ELSE B

(* chainNodeMax: the variant is chosen by is_attacker(currentNode).        *)
ChainNodeMax(isAttacker, a, b) ==
    IF isAttacker THEN ChainNodeMaxAttacker(a, b) ELSE ChainNodeMaxHonest(a, b)

(* a is at least as good as b for the comparison in use *)
Prefers(isAttacker, a, b) == ChainNodeMax(isAttacker, a, b) = a

(* Reference, not code: the order spec.md gives for the honest choice,    *)
(* greatest on (score, ancestorsMined, -timestamp, -miner).               *)
LexGreater(a, b) ==
    \/ a.score > b.score
    \/ a.score = b.score /\ a.ancestorsMined > b.ancestorsMined
    \/ a.score = b.score /\ a.ancestorsMined = b.ancestorsMined
       /\ a.timestamp < b.timestamp
    \/ a.score = b.score /\ a.ancestorsMined = b.ancestorsMined
       /\ a.timestamp = b.timestamp /\ a.miner < b.miner
=============================================================================
