---------------------------- MODULE ForkTreeNode ----------------------------
(***************************************************************************)
(* One node's blockchain store driven by its two entry points in Block.c:  *)
(* receiveBlock (a block of another miner, not yet in the store, as        *)
(* ProcessEvent passes it after findChainNode) and generateBlock (a block  *)
(* mined by this node on its main-chain head).  The other miners are an    *)
(* environment that may send any block, in any order, subject only to the  *)
(* rules every miner follows: at most one block per height, and a block    *)
(* built on one of this node's blocks only after this node mined it.       *)
(***************************************************************************)
EXTENDS ForkTree, FiniteSets

CONSTANTS
    Me,          \* id of this node
    Others,      \* ids of the other miners
    IsAttacker   \* is_attacker(Me): selects the comparison variant

ASSUME Me \notin Others /\ Sentinel \notin Others \cup {Me}
ASSUME IsAttacker = (Me \in Attackers)

VARIABLES
    store,   \* BlockchainState.chain, TransactionState, StatsState of Me
    clock,   \* local time: one tick per ChainNode inserted
    sent,    \* ghost: the blocks the other miners have produced, by <<miner, height>>
    fatal    \* the simulation aborted in getChainLevel

vars == <<store, clock, sent, fatal>>

Miners == Others \cup {Me}

Init ==
    /\ store = InitStore
    /\ clock = 0
    /\ sent = [b \in {} |-> Sentinel]
    /\ fatal = FALSE

(* A block another miner can produce: parent at height - 1, the genesis    *)
(* sentinel at height 1; a parent of Me's must be a block Me has mined.    *)
EnvBlocks ==
    UNION { { [miner |-> m, height |-> h, prevBlockMiner |-> p] :
                m \in Others, p \in IF h = 1 THEN {Sentinel} ELSE Miners } :
            h \in 1..MaxHeight }

CanBeSent(blk) ==
    /\ <<blk.miner, blk.height>> \in DOMAIN sent =>
           sent[<<blk.miner, blk.height>>] = blk.prevBlockMiner
    /\ blk.prevBlockMiner = Me =>
           \E n \in Range(store.levels[blk.height - 1]) : n.miner = Me

Record(blk) ==
    sent' = [k \in DOMAIN sent \cup {<<blk.miner, blk.height>>} |->
                IF k = <<blk.miner, blk.height>> THEN blk.prevBlockMiner ELSE sent[k]]

(* RECEIVE_BLOCK reaching receiveBlock: findChainNode aborts below the     *)
(* window, otherwise the block is new and addBlock inserts it.             *)
ReceiveBlock(blk) ==
    /\ ~fatal
    /\ CanBeSent(blk)
    /\ Record(blk)
    /\ IF blk.height <= store.max_height /\ blk.height < store.min_height
       THEN fatal' = TRUE /\ UNCHANGED <<store, clock>>
       ELSE /\ FindChainNode(store, blk.miner, blk.height) = 0
            /\ LET r == AddBlock(store, blk, clock, Me, IsAttacker)
               IN  /\ fatal' = r.fatal
                   /\ store' = r.st
            /\ clock' = clock + 1

(* GENERATE_BLOCK reaching generateBlock, up to the height bound *)
GenerateBlock ==
    /\ ~fatal
    /\ InWindow(store, store.height) => MainChain(store).height < MaxHeight
    /\ LET r == MineOnHead(store, Me, clock, IsAttacker)
       IN  /\ fatal' = r.fatal
           /\ store' = r.st
    /\ clock' = IF InWindow(store, store.height) THEN clock + 1 ELSE clock
    /\ UNCHANGED sent

(* REQUEST_BLOCK from a node Me relayed a received block to (with sender *)
(* = me), asking for that block's parent: retrieveBlock aborts when       *)
(* findChainNode or blockFromNode reaches below min_height.  Otherwise    *)
(* the answer leaves the store as it is: a step of no node state.         *)
RequestBlock ==
    /\ ~fatal
    /\ \E k \in DOMAIN sent :
          LevelAborts(store, k[2] - 1) \/ RetrieveAborts(store, sent[k], k[2] - 1)
    /\ fatal' = TRUE
    /\ UNCHANGED <<store, clock, sent>>

Next ==
    \/ \E blk \in EnvBlocks : ReceiveBlock(blk)
    \/ GenerateBlock
    \/ RequestBlock

Spec == Init /\ [][Next]_vars

-----------------------------------------------------------------------------
NodeRec == [miner : Miners \cup {Sentinel}, height : Heights,
            parent : Nat \cup Miners \cup {Sentinel}, orphan : BOOLEAN,
            timestamp : Int, score : Nat, ancestorsMined : Nat]

TypeOK ==
    /\ store.levels \in [Heights -> Seq(NodeRec)]
    /\ store.min_height <= store.max_height /\ store.max_height <= MaxHeight
    /\ store.height \in Heights /\ store.main_chain_index \in Nat \ {0}
    /\ store.stats \in [{"attackerBlocksInMainChain", "totalBlocksInMainChain",
                         "ownBlocksInMainChain"} -> Nat]
    /\ store.txns \subseteq [pos : Heights \X (Nat \ {0}), miner : Miners]
    /\ fatal \in BOOLEAN

Nodes == {At(store, p) : p \in Positions(store)}

(* The process is alive and the main-chain head addressable; otherwise it  *)
(* has aborted or the next getMainChain aborts (runs of WindowBounds and   *)
(* NoFatalError).                                                          *)
HeadInWindow == ~fatal /\ InWindow(store, store.height)

(* After every addBlock, whatever reorganisation it did, the transactions  *)
(* marked executed are exactly those of the main chain: inside the window  *)
(* they are the nodes on the path from the head, and there is one per      *)
(* height up to the head.  The selfish statistics count the same blocks.   *)
MainChainApplied == HeadInWindow => AppliedIsMainChain(store, Me)

(* An honest node's head is at least as good as every linked node it      *)
(* stores, in the order spec.md gives (not the code's comparison): no      *)
(* arrival order of blocks and parents leaves it on a worse chain.         *)
HeadIsBest ==
    (~IsAttacker /\ HeadInWindow) =>
        \A n \in {x \in Nodes : ~x.orphan} \ {MainChain(store)} :
            ~LexGreater(n, MainChain(store))

(* A ChainNode as HonestHead sees it *)
Summary(n) == [miner |-> n.miner, score |-> n.score,
               ancestorsMined |-> n.ancestorsMined, timestamp |-> n.timestamp]

Abstract == INSTANCE HonestHead WITH
                Root <- Summary(Genesis),
                linked <- {Summary(x) : x \in {y \in Nodes : ~y.orphan}},
                head <- Summary(MainChain(store))

(* The store of an honest node implements HonestHead: addBlock, with its   *)
(* orphan linking and chain switches, only ever adds linked blocks and     *)
(* leaves the head on the best of them, whatever order blocks and parents  *)
(* arrive in.  (Checked where the window does not slide.)                  *)
HonestHeadRefined == Abstract!Spec

(* Orphan linking is complete: no node stays an orphan while a linked      *)
(* node of its parent's miner sits at the height below.                    *)
NoStrandedOrphan ==
    \A p \in Positions(store) :
        LET n == At(store, p)
        IN  (n.orphan /\ p[1] - 1 >= store.min_height) =>
                \A q \in Range(store.levels[p[1] - 1]) :
                    q.miner = n.parent => q.orphan

(* Every linked node above min_height points at a linked node at the      *)
(* height below, of the miner its block named, with score one more and    *)
(* ancestorsMined counting Me's blocks along the path.                    *)
LinksConsistent ==
    /\ PathCounted(store, Me)
    /\ \A p \in Positions(store) :
          LET n == At(store, p)
          IN  (~n.orphan /\ p[1] > store.min_height /\ n.miner # Me) =>
                  sent[<<n.miner, n.height>>] = At(store, ParentPos(store, p)).miner

(* spec.md 8.1: min_height <= height <= max_height < min_height + 2*DEPTH_TO_KEEP *)
WindowBounds ==
    /\ store.min_height <= store.height
    /\ store.height <= store.max_height
    /\ store.max_height < store.min_height + 2 * DepthToKeep

(* No handler aborts in getChainLevel *)
NoFatalError == ~fatal
=============================================================================
