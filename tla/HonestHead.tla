------------------------------ MODULE HonestHead ------------------------------
(***************************************************************************)
(* What the blockchain store of an honest node promises, with the store    *)
(* itself abstracted away: the node knows a set of linked blocks that only *)
(* grows (a linked block is never unlinked or rewritten), and its          *)
(* main-chain head is always the best of them in the order spec.md gives  *)
(* for chainNodeMaxHonest (ChainSelection!LexGreater).  A block is seen    *)
(* here through the fields the order reads.                                *)
(***************************************************************************)
EXTENDS ChainSelection

CONSTANT Root   \* the genesis block

VARIABLES linked, head

IsBest(b, S) == b \in S /\ \A x \in S \ {b} : ~LexGreater(x, b)

Init == linked = {Root} /\ head = Root

(* one event: some blocks become linked, and the head is the best block   *)
Link == linked \subseteq linked' /\ IsBest(head', linked')

Spec == Init /\ [][Link]_<<linked, head>>
=============================================================================
