------------------------------ MODULE ForkTree ------------------------------
(***************************************************************************)
(* The per-node blockchain store of RBlockSim (src/RBlockSim/src/Block.c): *)
(* the sliding window of ChainLevels, addBlock with orphan linking,        *)
(* unorphanBlocks, maybeSwitchChains/switchChains and the apply/revert of  *)
(* ChainNodes on the transaction state and the statistics.                 *)
(*                                                                         *)
(* Everything here is an operator over a store record; the modules that    *)
(* hold stores in variables (ForkTreeNode, RBlockSim) call them, one call  *)
(* per event handler.                                                      *)
(*                                                                         *)
(* Abstractions:                                                           *)
(*  - old_levels/current_levels are one function from absolute height to   *)
(*    ChainLevel; getChainLevel's mapping is a bijection inside the window,*)
(*    so indexing by height is the same, and moveChainForward empties the  *)
(*    DepthToKeep oldest heights and raises min_height.                    *)
(*  - A ChainLevel is a sequence of ChainNodes (index 1 is C index 0).      *)
(*  - A ChainNode's transactionData is abstracted to the node itself: the  *)
(*    TransactionState ("txns") is the set of [pos, miner] of the nodes    *)
(*    whose transactions are marked executed.  (Payloads of                *)
(*    blocks on one chain are disjoint; module TxLedger checks the bitmap   *)
(*    arithmetic itself.)                                                  *)
(*  - timestamps are local insertion ordinals: only their order within one *)
(*    store is ever compared.                                              *)
(*  - An access to a level outside the window (abort() in getChainLevel,   *)
(*    or an out-of-bounds index when the height is 2*DEPTH_TO_KEEP or more *)
(*    above min_height) ends the handler with fatal = TRUE.                *)
(***************************************************************************)
EXTENDS ChainSelection, Integers, Sequences, SequencesExt

CONSTANTS
    DepthToKeep,   \* DEPTH_TO_KEEP
    MaxHeight,     \* the highest height a block can have (model bound)
    Sentinel,      \* NODE_ID_MAX, miner of the genesis block
    Attackers,     \* is_attacker(): the attacker node ids
    SelfishStats   \* statsType = STATS_SELFISH (set whenever -a is given)

ASSUME DepthToKeep \in Nat \ {0} /\ MaxHeight \in Nat \ {0}
ASSUME SelfishStats \in BOOLEAN

(* handle_options (-c): a catch-up tolerance above DEPTH_TO_KEEP makes the *)
(* program exit (its message says "less than", the test is >); without -c *)
(* the attacker uses DEFAULT_CATCHUP_TOLERANCE.                            *)
AcceptedTolerances == 0..DepthToKeep

ASSUME Tolerance \in AcceptedTolerances

Heights == 0..MaxHeight

(* genesis_block *)
Genesis == [miner |-> Sentinel, height |-> 0, parent |-> Sentinel,
            orphan |-> FALSE, timestamp |-> -1, score |-> 0,
            ancestorsMined |-> 0]

(* initSelfishStatisticsState: the counters of the main chain's blocks    *)
(* (totalBlocksMined and switchesToSelfishChain live in RBlockSim)        *)
InitSelfishStats ==
    [attackerBlocksInMainChain |-> 0, totalBlocksInMainChain |-> 0,
     ownBlocksInMainChain |-> 0]

(* initBlockchain plus initTransactionState and initSelfishStatisticsState *)
InitStore ==
    [levels |-> [h \in Heights |-> IF h = 0 THEN <<Genesis>> ELSE <<>>],
     main_chain_index |-> 1, height |-> 0, max_height |-> 0, min_height |-> 0,
     txns |-> {},
     stats |-> InitSelfishStats]

(* getChainLevel neither aborts nor indexes past its arrays *)
InWindow(st, h) == st.min_height <= h /\ h < st.min_height + 2 * DepthToKeep

At(st, pos) == st.levels[pos[1]][pos[2]]

(* getMainChain *)
MainPos(st) == <<st.height, st.main_chain_index>>
MainChain(st) == At(st, MainPos(st))

ParentPos(st, pos) == <<pos[1] - 1, At(st, pos).parent>>

(* findChainNode: index of miner's node at height h, 0 if none *)
FindChainNode(st, miner, h) ==
    IF h > st.max_height THEN 0
    ELSE SelectInSeq(st.levels[h], LAMBDA n : n.miner = miner)

(* getChainLevel aborts on a height at most max_height but below min_height *)
LevelAborts(st, h) == h <= st.max_height /\ h < st.min_height

(* blockFromNode reads a linked node's parent through getChainNode, and   *)
(* getChainLevel aborts when the node sits at min_height above genesis:   *)
(* the level of its parent has been dropped by moveChainForward.          *)
ParentDropped(st, pos) == ~At(st, pos).orphan /\ 0 < pos[1] /\ pos[1] - 1 < st.min_height

(* retrieveBlock aborts: findChainNode finds the node, blockFromNode then *)
(* aborts on its parent                                                    *)
RetrieveAborts(st, miner, h) ==
    LET idx == FindChainNode(st, miner, h)
    IN  idx # 0 /\ ParentDropped(st, <<h, idx>>)

-----------------------------------------------------------------------------
(* mutant: a removal decrements ownBlocksInMainChain whoever mined it *)
StatsDeltaOwnAlways(stats, miner, me, d) ==
    IF ~SelfishStats THEN stats
    ELSE [stats EXCEPT
            !.totalBlocksInMainChain = @ + d,
            !.ownBlocksInMainChain = IF miner = me \/ d < 0 THEN @ + d ELSE @,
            !.attackerBlocksInMainChain = IF miner \in Attackers THEN @ + d ELSE @]

(* Statistics: statsAddBlockSelfish / statsRemoveBlockSelfish *)
StatsDelta(stats, miner, me, d) ==
    IF ~SelfishStats THEN stats
    ELSE [stats EXCEPT
            !.totalBlocksInMainChain = @ + d,
            !.ownBlocksInMainChain = IF miner = me THEN @ + d ELSE @,
            !.attackerBlocksInMainChain = IF miner \in Attackers THEN @ + d ELSE @]

(* applyChainNode *)
ApplyChainNode(st, pos, me) ==
    [st EXCEPT !.txns = @ \cup {[pos |-> pos, miner |-> At(st, pos).miner]},
               !.height = At(st, pos).height,
               !.stats = StatsDelta(@, At(st, pos).miner, me, 1)]

(* mutant: revert leaves main_chain_index at the reverted node's index *)
RevertKeepIndex(st, pos, me) ==
    [st EXCEPT !.txns = @ \ {[pos |-> pos, miner |-> At(st, pos).miner]},
               !.height = At(st, pos).height - 1,
               !.stats = StatsDelta(@, At(st, pos).miner, me, -1)]

(* revertAppliedChainNode *)
RevertAppliedChainNode(st, pos, me) ==
    [st EXCEPT !.txns = @ \ {[pos |-> pos, miner |-> At(st, pos).miner]},
               !.height = At(st, pos).height - 1,
               !.main_chain_index = At(st, pos).parent,
               !.stats = StatsDelta(@, At(st, pos).miner, me, -1)]

-----------------------------------------------------------------------------
(* switchChains, step 1: buffer the new chain down to the old height *)
RECURSIVE WalkNewChain(_, _, _)
WalkNewChain(st, walker, buf) ==
    IF walker[1] <= st.height THEN [walker |-> walker, buf |-> buf]
    ELSE WalkNewChain(st, ParentPos(st, walker), Append(buf, walker))

(* switchChains, step 2: revert the main chain down to the new height *)
RECURSIVE RevertDownTo(_, _, _)
RevertDownTo(st, h, me) ==
    IF st.height <= h THEN st
    ELSE RevertDownTo(RevertAppliedChainNode(st, MainPos(st), me), h, me)

(* switchChains, step 3: step both back until they meet.  A step below     *)
(* min_height is getChainLevel's abort.                                    *)
RECURSIVE WalkToCommon(_, _, _, _)
WalkToCommon(st, walker, buf, me) ==
    IF MainPos(st) = walker
    THEN [fatal |-> FALSE, st |-> st, buf |-> buf]
    ELSE IF walker[1] - 1 < st.min_height
         THEN [fatal |-> TRUE, st |-> st, buf |-> buf]
         ELSE WalkToCommon(RevertAppliedChainNode(st, MainPos(st), me),
                           ParentPos(st, walker), Append(buf, walker), me)

(* switchChains: revert the old branch, apply the new one ancestors first, *)
(* then point main_chain_index at the new tip.                             *)
SwitchChains(st, newPos, me) ==
    LET w == WalkNewChain(st, newPos, <<>>)
        c == WalkToCommon(RevertDownTo(st, newPos[1], me), w.walker, w.buf, me)
        applied == FoldRight(LAMBDA p, s : ApplyChainNode(s, p, me), c.buf, c.st)
    IN  [fatal |-> c.fatal,
         st |-> [applied EXCEPT !.main_chain_index = newPos[2]]]

(* mutant: the comparison is skipped and every candidate becomes the head *)
MaybeSwitchAlways(st, newPos, me, att) ==
    IF ~InWindow(st, st.height)
    THEN [fatal |-> TRUE, st |-> st]
    ELSE SwitchChains(st, newPos, me)

(* maybeSwitchChains *)
MaybeSwitchChains(st, newPos, me, att) ==
    IF ~InWindow(st, st.height)
    THEN [fatal |-> TRUE, st |-> st]
    ELSE IF ChainNodeMax(att, MainChain(st), At(st, newPos)) = At(st, newPos)
         THEN SwitchChains(st, newPos, me)
         ELSE [fatal |-> FALSE, st |-> st]

-----------------------------------------------------------------------------
NoNode == <<>>

(* The position of the better of two nodes: chainNodeMax(p, q) == q ? q : p *)
BetterPos(levels, att, p, q) ==
    LET np == levels[p[1]][p[2]]
        nq == levels[q[1]][q[2]]
    IN  IF ChainNodeMax(att, np, nq) = nq THEN q ELSE p

(* unorphanBlocks: link every orphan at height ch whose parentMinerId is   *)
(* the parent's miner, recurse into its children, and return the levels   *)
(* and the position of the best node linked (NoNode if none).             *)
(* mutant: link the orphan children only, not their descendants *)
RECURSIVE UnorphanLevelShallow(_, _, _, _, _, _, _, _)
UnorphanLevelShallow(levels, maxH, att, parent, pidx, ch, i, best) ==
    IF i > Len(levels[ch]) THEN [levels |-> levels, best |-> best]
    ELSE IF ~levels[ch][i].orphan \/ levels[ch][i].parent # parent.miner
    THEN UnorphanLevelShallow(levels, maxH, att, parent, pidx, ch, i + 1, best)
    ELSE LET child == [levels[ch][i] EXCEPT !.orphan = FALSE, !.parent = pidx,
                          !.ancestorsMined = parent.ancestorsMined,
                          !.score = parent.score + 1]
             lv1 == [levels EXCEPT ![ch][i] = child]
             b1 == IF best = NoNode THEN <<ch, i>>
                   ELSE BetterPos(lv1, att, best, <<ch, i>>)
         IN  UnorphanLevelShallow(lv1, maxH, att, parent, pidx, ch, i + 1, b1)

RECURSIVE UnorphanBlocks(_, _, _, _, _, _), UnorphanLevel(_, _, _, _, _, _, _, _)
UnorphanBlocks(levels, maxH, att, parent, pidx, ch) ==
    IF ch > maxH THEN [levels |-> levels, best |-> NoNode]
    ELSE UnorphanLevel(levels, maxH, att, parent, pidx, ch, 1, NoNode)

UnorphanLevel(levels, maxH, att, parent, pidx, ch, i, best) ==
    IF i > Len(levels[ch]) THEN [levels |-> levels, best |-> best]
    ELSE IF ~levels[ch][i].orphan \/ levels[ch][i].parent # parent.miner
    THEN UnorphanLevel(levels, maxH, att, parent, pidx, ch, i + 1, best)
    ELSE LET child == [levels[ch][i] EXCEPT !.orphan = FALSE, !.parent = pidx,
                          !.ancestorsMined = parent.ancestorsMined,
                          !.score = parent.score + 1]
             lv1 == [levels EXCEPT ![ch][i] = child]
             b1 == IF best = NoNode THEN <<ch, i>>
                   ELSE BetterPos(lv1, att, best, <<ch, i>>)
             sub == UnorphanBlocks(lv1, maxH, att, child, i, ch + 1)
             b2 == IF sub.best = NoNode THEN b1
                   ELSE BetterPos(sub.levels, att, b1, sub.best)
         IN  UnorphanLevel(sub.levels, maxH, att, parent, pidx, ch, i + 1, b2)

-----------------------------------------------------------------------------
(* moveChainForward: empty the oldest DepthToKeep levels, advance window *)
MoveChainForward(st) ==
    [st EXCEPT
        !.levels = [h \in Heights |->
                      IF st.min_height <= h /\ h < st.min_height + DepthToKeep
                      THEN <<>> ELSE @[h]],
        !.min_height = @ + DepthToKeep]

(* populateChainNode, timestamp overridden with the local time, then the  *)
(* parent search: the first node of the parent's miner at height - 1; an  *)
(* orphan parent stops the search.                                         *)
NewChainNode(st, blk, now) ==
    LET pl == st.levels[blk.height - 1]
        pi == SelectInSeq(pl, LAMBDA n : n.miner = blk.prevBlockMiner)
        found == pi # 0 /\ ~pl[pi].orphan
    IN  [miner |-> blk.miner, height |-> blk.height, timestamp |-> now,
         orphan |-> ~found,
         parent |-> IF found THEN pi ELSE blk.prevBlockMiner,
         score |-> IF found THEN pl[pi].score + 1 ELSE 0,
         ancestorsMined |-> IF found THEN pl[pi].ancestorsMined ELSE 0]

(* mutant: the candidate for maybeSwitchChains is always the new node *)
AddBlockIgnoreUnorphaned(st, blk, now, me, att) ==
    LET grown == blk.height > st.max_height
        s0 == IF grown THEN [st EXCEPT !.max_height = blk.height] ELSE st
        s1 == IF grown /\ blk.height >= st.min_height + 2 * DepthToKeep
              THEN MoveChainForward(s0) ELSE s0
        pos == <<blk.height, Len(s1.levels[blk.height]) + 1>>
        node == NewChainNode(s1, blk, now)
        s2 == [s1 EXCEPT !.levels[blk.height] = Append(@, node)]
        un == UnorphanBlocks(s2.levels, s2.max_height, att, node, pos[2],
                             blk.height + 1)
        sw == MaybeSwitchChains([s2 EXCEPT !.levels = un.levels], pos, me, att)
    IN  IF ~InWindow(s1, blk.height) \/ ~InWindow(s1, blk.height - 1)
        THEN [fatal |-> TRUE, st |-> st, pos |-> pos]
        ELSE IF node.orphan
        THEN [fatal |-> FALSE, st |-> s2, pos |-> pos]
        ELSE [fatal |-> sw.fatal, st |-> sw.st, pos |-> pos]

(* addBlock: returns the new store, the position of the inserted node and *)
(* whether the handler aborted.                                            *)
AddBlock(st, blk, now, me, att) ==
    LET grown == blk.height > st.max_height
        s0 == IF grown THEN [st EXCEPT !.max_height = blk.height] ELSE st
        s1 == IF grown /\ blk.height >= st.min_height + 2 * DepthToKeep
              THEN MoveChainForward(s0) ELSE s0
        idx == Len(s1.levels[blk.height]) + 1
        pos == <<blk.height, idx>>
        node == NewChainNode(s1, blk, now)
        s2 == [s1 EXCEPT !.levels[blk.height] = Append(@, node)]
        un == UnorphanBlocks(s2.levels, s2.max_height, att, node, idx,
                             blk.height + 1)
        s3 == [s2 EXCEPT !.levels = un.levels]
        best == IF un.best = NoNode THEN pos ELSE BetterPos(s3.levels, att, pos, un.best)
        sw == MaybeSwitchChains(s3, best, me, att)
    IN  IF ~InWindow(s1, blk.height) \/ ~InWindow(s1, blk.height - 1)
        THEN [fatal |-> TRUE, st |-> st, pos |-> pos]
        ELSE IF node.orphan
        THEN [fatal |-> FALSE, st |-> s2, pos |-> pos]
        ELSE [fatal |-> sw.fatal, st |-> sw.st, pos |-> pos]

(* The block generateBlock builds on the main-chain head *)
HeadBlock(st, me) ==
    [miner |-> me, height |-> MainChain(st).height + 1,
     prevBlockMiner |-> MainChain(st).miner]

(* mutant: the new node is not counted as mined by me *)
CountMinedNot(r) == r

(* newNode->ancestorsMined++ after a successful addBlock *)
CountMined(r) ==
    IF r.fatal THEN r
    ELSE [r EXCEPT !.st.levels[r.pos[1]][r.pos[2]].ancestorsMined = @ + 1]

(* generateBlock: getMainChain (aborting when the head has left the       *)
(* window), build the block on it, addBlock, then count the new node as    *)
(* mined.  The result carries the block in field blk.                     *)
MineOnHead(st, me, now, att) ==
    IF ~InWindow(st, st.height) THEN [fatal |-> TRUE, st |-> st, pos |-> NoNode, blk |-> NoNode]
    ELSE CountMined([blk |-> HeadBlock(st, me)] @@ AddBlock(st, HeadBlock(st, me), now, me, att))

-----------------------------------------------------------------------------
(* Derived views used by the properties *)

Positions(st) ==
    UNION {{<<h, i>> : i \in 1..Len(st.levels[h])} : h \in st.min_height..st.max_height}

(* the positions of the main chain, from the head down to min_height *)
RECURSIVE ChainBelow(_, _)
ChainBelow(st, pos) ==
    IF pos[1] = 0 \/ pos[1] - 1 < st.min_height THEN {pos}
    ELSE {pos} \cup ChainBelow(st, ParentPos(st, pos))

MainChainPositions(st) == ChainBelow(st, MainPos(st)) \ {<<0, 1>>}

(* The store of node me applies exactly its main chain: the executed      *)
(* transactions inside the window are the nodes on the path from the head,*)
(* one per height, and the selfish statistics count the same blocks.      *)
AppliedIsMainChain(st, me) ==
    LET inWin == {t \in st.txns : t.pos[1] >= st.min_height}
    IN  /\ {t.pos : t \in inWin} = MainChainPositions(st)
        /\ Cardinality(st.txns) = st.height
        /\ SelfishStats =>
             /\ st.stats.totalBlocksInMainChain = st.height
             /\ st.stats.ownBlocksInMainChain =
                    Cardinality({t \in st.txns : t.miner = me})
             /\ st.stats.attackerBlocksInMainChain =
                    Cardinality({t \in st.txns : t.miner \in Attackers})

(* Every linked node above min_height hangs below a linked parent, with   *)
(* score one more and ancestorsMined counting me's blocks on the path.    *)
PathCounted(st, me) ==
    \A p \in Positions(st) :
        LET n == At(st, p)
        IN  (~n.orphan /\ p[1] > st.min_height) =>
                /\ n.parent \in 1..Len(st.levels[p[1] - 1])
                /\ LET par == At(st, ParentPos(st, p))
                   IN  /\ ~par.orphan
                       /\ n.score = par.score + 1
                       /\ n.ancestorsMined =
                            par.ancestorsMined + (IF n.miner = me THEN 1 ELSE 0)
=============================================================================
