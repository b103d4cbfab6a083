------------------------------ MODULE RBlockSim ------------------------------
(***************************************************************************)
(* The simulated network of RBlockSim: every node's ProcessEvent handler  *)
(* (src/RBlockSim/src/RBlockSim.c) over its own blockchain store (module  *)
(* ForkTree), with the events in flight between them.                     *)
(*                                                                         *)
(* Events.  GENERATE_BLOCK is the node's pending retractable event: it is *)
(* always there for a node with hash power, so Generate(n) may happen at  *)
(* any time.  RECEIVE_BLOCK and REQUEST_BLOCK events are scheduled with a *)
(* random positive delay, so they are delivered in any order: msgs is the *)
(* set of scheduled, unprocessed events.  Two identical events (same      *)
(* block, sender and receiver) are one element of the set; the second one *)
(* would find the block stored and change nothing but, for an orphan, ask *)
(* again for its parent.                                                   *)
(*                                                                         *)
(* Time.  Stores compare the timestamps of nodes they hold, so each node  *)
(* keeps a local clock ticking once per ChainNode inserted, which orders  *)
(* its insertions as simulation time does.  The attack start time is the  *)
(* one global instant the handlers test: "started" flips once.            *)
(***************************************************************************)
EXTENDS ForkTree, FiniteSets

CONSTANTS
    Nodes,          \* node ids 0..N_NODES-1
    Peers,          \* peer_lists: the peers each node gossips to
    Depth,          \* attackConfig.selfish.depth (-d: any size_t, 0 too)
    SelfishMining,  \* attackConfig.type = ATTACK_SELFISH_MINING (else FIFTY_ONE)
    MaxMined,       \* MaxMined[n]: blocks node n generates (model bound)
    Fanout          \* GOSSIP_FANOUT (0: forward to every peer)

ASSUME Sentinel \notin Nodes

(* initAttackers as main calls it: for a selfish or 51% attack one        *)
(* attacker, any id RandomU64(rng) % conf.lps, and the program exits when *)
(* that one is not fewer than the nodes; otherwise (ATTACK_NONE) none.    *)
AttackerSets(attack) ==
    IF ~attack THEN {{}}
    ELSE IF Cardinality(Nodes) <= 1 THEN {}
    ELSE {{a} : a \in Nodes}

ASSUME \E attack \in BOOLEAN : Attackers \in AttackerSets(attack)
ASSUME Peers \in [Nodes -> SUBSET Nodes] /\ \A n \in Nodes : n \notin Peers[n]
ASSUME Depth \in Nat /\ SelfishMining \in BOOLEAN /\ MaxMined \in [Nodes -> Nat]
ASSUME Fanout \in Nat

VARIABLES
    store,      \* store[n]: BlockchainState, TransactionState of node n
    clock,      \* clock[n]: local insertion time of node n
    msgs,       \* scheduled RECEIVE_BLOCK and REQUEST_BLOCK events
    lph,        \* lph[a]: attackerState->last_propagated_height
    selfish,    \* selfish[a]: attackerState->isSelfishMining
    started,    \* now >= attackConfig.selfish.startTime
    fatal,      \* "none", or where the simulation aborted
    switches    \* switches[n]: selfishStats.switchesToSelfishChain of node n
    \* ghosts
    , mined     \* mined[n]: the heights of the blocks n has generated, in order
                \* (Len(mined[n]) is selfishStats.totalBlocksMined)
    , released  \* the blocks a selfish attacker released tagged is_attack_block

vars == <<store, clock, msgs, lph, selfish, started, fatal, switches, mined, released>>

Honest == Nodes \ Attackers

Blocks == [miner : Nodes, height : 1..MaxHeight, prevBlockMiner : Nodes \cup {Sentinel}]

(* a RECEIVE_BLOCK event carrying a block, or a REQUEST_BLOCK event *)
BlockMsg(to, sender, blk, attack) ==
    [kind |-> "block", to |-> to, sender |-> sender, blk |-> blk, attack |-> attack]
ReqMsg(to, requester, miner, h) ==
    [kind |-> "request", to |-> to, requester |-> requester, miner |-> miner, height |-> h]

Init ==
    /\ store = [n \in Nodes |-> InitStore]
    /\ clock = [n \in Nodes |-> 0]
    /\ msgs = {}
    /\ lph = [a \in Attackers |-> 0]
    /\ selfish = [a \in Attackers |-> FALSE]
    /\ started = FALSE
    /\ fatal = "none"
    /\ switches = [n \in Nodes |-> 0]
    /\ mined = [n \in Nodes |-> <<>>]
    /\ released = {}

-----------------------------------------------------------------------------
(* statsSwitchToSelfishChain on node n when cond holds (a no-op unless    *)
(* the selfish statistics are kept)                                       *)
SwitchCounted(sw, n, cond) == [sw EXCEPT ![n] = IF cond /\ SelfishStats THEN @ + 1 ELSE @]

(* statsMineBlockSelfish: one more block mined by n (at height h) *)
MinedOne(mn, n, h) == [mn EXCEPT ![n] = Append(@, h)]

(* mutant: prevBlockMiner read from the union for a linked node too,    *)
(* yielding its parent_index                                               *)
BlockFromNodeUnion(st, pos) ==
    LET n == At(st, pos)
    IN  [miner |-> n.miner, height |-> n.height, prevBlockMiner |-> n.parent]

(* blockFromNode: the block a stored node stands for *)
BlockFromNode(st, pos) ==
    LET n == At(st, pos)
    IN  [miner |-> n.miner, height |-> n.height,
         prevBlockMiner |-> IF n.orphan THEN n.parent ELSE At(st, ParentPos(st, pos)).miner]

(* retrieveBlock: the block of miner's node at height h, none (NULL) if  *)
(* findChainNode finds no such node                                        *)
RetrieveBlock(st, miner, h) ==
    LET idx == FindChainNode(st, miner, h)
    IN  IF idx = 0 THEN {} ELSE {BlockFromNode(st, <<h, idx>>)}

(* gossipBlock: every peer when GOSSIP_FANOUT is 0, when the sender has   *)
(* no more peers than that, or when it mined the block itself; otherwise *)
(* GOSSIP_FANOUT distinct peers drawn by rejection sampling on a bitmap:  *)
(* any such subset.                                                       *)
GossipTargets(sender, blk) ==
    IF Fanout = 0 \/ Cardinality(Peers[sender]) <= Fanout \/ blk.miner = sender
    THEN {Peers[sender]}
    ELSE kSubset(Fanout, Peers[sender])

(* propagateBlock: the sets of RECEIVE_BLOCK events one call may schedule *)
Gossip(sender, blk, attack) ==
    {{BlockMsg(p, sender, blk, attack) : p \in T} : T \in GossipTargets(sender, blk)}

(* mutant: the request names the block's own miner, not its parent's *)
RequestParentWrongMiner(requester, m) ==
    ReqMsg(m.sender, requester, m.blk.miner, m.blk.height - 1)

(* mutant: the request names the block's own height *)
RequestParentSameHeight(requester, m) ==
    ReqMsg(m.sender, requester, m.blk.prevBlockMiner, m.blk.height)

(* requestParent: ask the block's sender for its parent *)
RequestParent(requester, m) ==
    ReqMsg(m.sender, requester, m.blk.prevBlockMiner, m.blk.height - 1)

(* propagateBlockAndNAncestors: the ancestors at heights                   *)
(* b.height - n + i, 0 < i < n, retrieved by (miner, height) from the      *)
(* store, then the block itself.  Heights are size_t: one below zero       *)
(* wraps above max_height, so retrieval fails and the loop aborts.         *)
AncestorHeights(b, n) == {b.height - n + i : i \in 1..(n - 1)}

AncestorsMissing(st, b, n) ==
    \E h \in AncestorHeights(b, n) :
        \/ h < 0 \/ LevelAborts(st, h)
        \/ FindChainNode(st, b.miner, h) = 0 \/ RetrieveAborts(st, b.miner, h)

PropagateWithAncestors(st, me, b, n) ==
    LET sends == {<<a, FALSE>> : a \in UNION {RetrieveBlock(st, b.miner, h) :
                                              h \in AncestorHeights(b, n)}}
                 \cup {<<b, TRUE>>}
        Out(s) == Gossip(me, s[1], s[2])
    IN  {UNION {pick[s] : s \in sends} :
           pick \in {f \in [sends -> UNION {Out(s) : s \in sends}] : \A s \in sends : f[s] \in Out(s)}}

-----------------------------------------------------------------------------
(* mutant: a chain switch does not end the running attack *)
SelfishReleaseNoReset(n, st, b) ==
    LET pIdx == FindChainNode(st, b.prevBlockMiner, b.height - 1)
        reset == FALSE
        s1 == selfish[n] /\ ~reset
        begin == started /\ ~s1
        s2 == s1 \/ begin
        l2 == IF begin THEN b.height - 1 ELSE lph[n]
        concealed == st.height - l2
        release == s2 /\ (concealed < 0 \/ concealed >= Depth)
    IN  IF release /\ (concealed < 0 \/ AncestorsMissing(st, b, concealed))
        THEN /\ fatal' = "ancestor"
             /\ UNCHANGED <<msgs, lph, selfish, switches, released>>
        ELSE /\ \E out \in IF release THEN PropagateWithAncestors(st, n, b, concealed) ELSE {{}} :
                   msgs' = msgs \cup out
             /\ lph' = [lph EXCEPT ![n] = IF release THEN b.height ELSE l2]
             /\ selfish' = [selfish EXCEPT ![n] = s2 /\ ~release]
             /\ switches' = SwitchCounted(switches, n, release)
             /\ released' = IF release THEN released \cup {b} ELSE released
             /\ UNCHANGED fatal

(* GENERATE_BLOCK, selfish attacker after generateBlock: a block built on *)
(* another miner's block ends the running attack (failed_attacks++); past *)
(* the start time an attack begins at the parent's height; once the       *)
(* concealed blocks, chain.height - last_propagated_height as size_t,     *)
(* reach Depth the block and its ancestors are released, the block tagged *)
(* is_attack_block, and statsSwitchToSelfishChain counts it.              *)
SelfishRelease(n, st, b) ==
    LET pIdx == FindChainNode(st, b.prevBlockMiner, b.height - 1)
        reset == selfish[n] /\ pIdx # 0 /\ At(st, <<b.height - 1, pIdx>>).miner # n
        s1 == selfish[n] /\ ~reset
        begin == started /\ ~s1
        s2 == s1 \/ begin
        l2 == IF begin THEN b.height - 1 ELSE lph[n]
        concealed == st.height - l2
        release == s2 /\ (concealed < 0 \/ concealed >= Depth)
    IN  IF release /\ (concealed < 0 \/ AncestorsMissing(st, b, concealed))
        THEN /\ fatal' = "ancestor"
             /\ UNCHANGED <<msgs, lph, selfish, switches, released>>
        ELSE /\ \E out \in IF release THEN PropagateWithAncestors(st, n, b, concealed) ELSE {{}} :
                   msgs' = msgs \cup out
             /\ lph' = [lph EXCEPT ![n] = IF release THEN b.height ELSE l2]
             /\ selfish' = [selfish EXCEPT ![n] = s2 /\ ~release]
             /\ switches' = SwitchCounted(switches, n, release)
             /\ released' = IF release THEN released \cup {b} ELSE released
             /\ UNCHANGED fatal

(* GENERATE_BLOCK after generateBlock returned r: the selfish attacker's  *)
(* decision, or propagateBlock; then statsMineBlockSelfish.               *)
Generated(n, r) ==
    /\ store' = [store EXCEPT ![n] = r.st]
    /\ IF r.fatal
       THEN /\ fatal' = "level"
            /\ UNCHANGED <<clock, msgs, lph, selfish, switches, mined, released>>
       ELSE /\ clock' = [clock EXCEPT ![n] = @ + 1]
            /\ mined' = MinedOne(mined, n, r.blk.height)
            /\ IF n \in Attackers /\ SelfishMining
               THEN SelfishRelease(n, r.st, r.blk)
               ELSE /\ \E out \in Gossip(n, r.blk, FALSE) : msgs' = msgs \cup out
                    /\ UNCHANGED <<lph, selfish, fatal, switches, released>>

(* GENERATE_BLOCK.  Mining stops at the height and block bounds.          *)
Generate(n) ==
    /\ fatal = "none"
    /\ Len(mined[n]) < MaxMined[n]
    /\ InWindow(store[n], store[n].height) => MainChain(store[n]).height < MaxHeight
    /\ Generated(n, MineOnHead(store[n], n, clock[n], n \in Attackers))
    /\ UNCHANGED started

(* mutant: a received block is not relayed *)
ReceivedNoRelay(m, r) ==
    LET n == m.to
        updated == r.st.height # store[n].height
                   \/ r.st.main_chain_index # store[n].main_chain_index
    IN  /\ store' = [store EXCEPT ![n] = r.st]
        /\ clock' = [clock EXCEPT ![n] = @ + 1]
        /\ IF r.fatal
           THEN fatal' = "level" /\ UNCHANGED <<msgs, lph, switches>>
           ELSE /\ msgs' = (msgs \ {m})
                           \cup (IF At(r.st, r.pos).orphan THEN {RequestParent(n, m)} ELSE {})
                /\ switches' = SwitchCounted(switches, n, updated /\ m.attack)
                /\ lph' = IF updated /\ n \in Attackers
                          THEN [lph EXCEPT ![n] = m.blk.height] ELSE lph
                /\ UNCHANGED fatal

(* RECEIVE_BLOCK of a block not yet stored, after addBlock returned r:    *)
(* requestParent when it stays an orphan, relay it with sender = me, and  *)
(* for an attacker whose main chain changed (receiveBlock's               *)
(* updatedMainChain), statsSwitchToSelfishChain if the block is tagged    *)
(* is_attack_block and, for an attacker, last_propagated_height = b.height.*)
Received(m, r) ==
    LET n == m.to
        updated == r.st.height # store[n].height
                   \/ r.st.main_chain_index # store[n].main_chain_index
    IN  /\ store' = [store EXCEPT ![n] = r.st]
        /\ clock' = [clock EXCEPT ![n] = @ + 1]
        /\ IF r.fatal
           THEN fatal' = "level" /\ UNCHANGED <<msgs, lph, switches>>
           ELSE /\ \E out \in Gossip(n, m.blk, m.attack) :
                   msgs' = (msgs \ {m})
                           \cup (IF At(r.st, r.pos).orphan THEN {RequestParent(n, m)} ELSE {})
                           \cup out
                /\ switches' = SwitchCounted(switches, n, updated /\ m.attack)
                /\ lph' = IF updated /\ n \in Attackers
                          THEN [lph EXCEPT ![n] = m.blk.height] ELSE lph
                /\ UNCHANGED fatal

ReceiveNew(m) ==
    Received(m, AddBlock(store[m.to], m.blk, clock[m.to], m.to, m.to \in Attackers))

(* RECEIVE_BLOCK: findChainNode first; a stored block is dropped, after   *)
(* asking again for its parent if it is still an orphan.                  *)
Receive(m) ==
    /\ fatal = "none"
    /\ m.kind = "block"
    /\ LET st == store[m.to]
           idx == FindChainNode(st, m.blk.miner, m.blk.height)
       IN  CASE LevelAborts(st, m.blk.height) ->
                    /\ fatal' = "level"
                    /\ UNCHANGED <<store, clock, msgs, lph, switches>>
             [] idx # 0 ->
                    /\ msgs' = (msgs \ {m}) \cup
                         (IF At(st, <<m.blk.height, idx>>).orphan
                          THEN {RequestParent(m.to, m)} ELSE {})
                    /\ UNCHANGED <<store, clock, lph, fatal, switches>>
             [] OTHER -> ReceiveNew(m)
    /\ UNCHANGED <<selfish, started, mined, released>>

(* REQUEST_BLOCK: retrieveBlock by (miner, height) and send it back with  *)
(* sender = me; nothing when it is not stored; an abort when findChainNode *)
(* or blockFromNode reaches below min_height.                              *)
Request(m) ==
    /\ fatal = "none"
    /\ m.kind = "request"
    /\ LET st == store[m.to]
       IN  IF LevelAborts(st, m.height) \/ RetrieveAborts(st, m.miner, m.height)
           THEN fatal' = "level" /\ UNCHANGED msgs
           ELSE /\ msgs' = (msgs \ {m}) \cup
                     {BlockMsg(m.requester, m.to, b, FALSE) :
                      b \in RetrieveBlock(st, m.miner, m.height)}
                /\ UNCHANGED fatal
    /\ UNCHANGED <<store, clock, lph, selfish, started, switches, mined, released>>

(* simulation time passes attackConfig.selfish.startTime *)
Start ==
    /\ Attackers # {} /\ SelfishMining
    /\ ~started
    /\ started' = TRUE
    /\ UNCHANGED <<store, clock, msgs, lph, selfish, fatal, switches, mined, released>>

(* one event of the queue, in any order *)
Deliver == \E m \in msgs : Receive(m) \/ Request(m)

Next ==
    \/ \E n \in Nodes : Generate(n)
    \/ Deliver
    \/ Start

(* Every handler accepts any event, so an event can be processed whenever *)
(* one is scheduled and the simulation has not aborted: ENABLED Deliver.   *)
CanDeliver == fatal = "none" /\ msgs # {}

(* The simulator processes every scheduled event: delivery is weakly fair *)
(* (WF_vars(Deliver), with its enabling condition written out); mining    *)
(* need not go on.                                                        *)
Fairness == []<>~CanDeliver \/ []<><<Deliver>>_vars

Spec == Init /\ [][Next]_vars /\ Fairness

-----------------------------------------------------------------------------
TypeOK ==
    /\ \A m \in msgs :
          \/ /\ m.kind = "block" /\ m.to \in Nodes /\ m.sender \in Nodes
             /\ m.blk \in Blocks /\ m.attack \in BOOLEAN
          \/ /\ m.kind = "request" /\ m.to \in Nodes /\ m.requester \in Nodes
             /\ m.miner \in Nodes \cup {Sentinel} /\ m.height \in Heights
    /\ clock \in [Nodes -> Nat]
    /\ lph \in [Attackers -> Heights] /\ selfish \in [Attackers -> BOOLEAN]
    /\ started \in BOOLEAN /\ fatal \in {"none", "level", "ancestor"}
    /\ switches \in [Nodes -> Nat]
    /\ mined \in [Nodes -> Seq(1..MaxHeight)]

(* Linked nodes of a store, as the blocks they stand for *)
LinkedBlocks(st) ==
    {BlockFromNode(st, p) : p \in {q \in Positions(st) \ {<<0, 1>>} : ~At(st, q).orphan}}

(* propagateBlockAndNAncestors never aborts: when a selfish attacker       *)
(* releases its concealed blocks, each is found in its store by (attacker, *)
(* height), whatever it received while concealing them.                    *)
NoAncestorAbort == fatal # "ancestor"

(* Every store, the attacker's too, applies exactly its main chain after  *)
(* every handler: the chain switches that receiveBlock and generateBlock  *)
(* make while blocks arrive out of order, and the attacker's own fork     *)
(* choice, never leave an abandoned block's transactions or statistics    *)
(* applied.                                                               *)
StoresApplied ==
    fatal = "none" =>
        \A n \in Nodes : InWindow(store[n], store[n].height) => AppliedIsMainChain(store[n], n)

(* In every store each linked node's score and ancestorsMined extend its   *)
(* parent's: generateBlock's increment of ancestorsMined after addBlock    *)
(* and the relinking of orphans keep the counts the attacker compares.    *)
StoresCountMined ==
    fatal = "none" => \A n \in Nodes : PathCounted(store[n], n)

(* Once mining has stopped and every event is processed, the honest nodes *)
(* agree: each holds the same linked blocks, no orphan, and main chains of *)
(* one height.  Gossip relays every block a node stores, and requestParent *)
(* fetches every missing parent, in any delivery order.                    *)
HonestAgree ==
    \A n, m \in Honest :
        /\ LinkedBlocks(store[n]) = LinkedBlocks(store[m])
        /\ \A p \in Positions(store[n]) : ~At(store[n], p).orphan
        /\ store[n].height = store[m].height

HonestConverge == <>[]HonestAgree

(* the store's main chain holds the block b *)
InMainChain(st, b) ==
    \E p \in MainChainPositions(st) : p[1] = b.height /\ At(st, p).miner = b.miner

(* spec.md 4.6/4.7: the released burst reaches the network ancestors      *)
(* first, and a node whose main chain moves on receiving an               *)
(* is_attack_block counts one switch to the selfish chain.  So an honest  *)
(* node whose main chain comes to hold a released block has counted a     *)
(* switch (RECEIVE_BLOCK's statsSwitchToSelfishChain).                    *)
SelfishSwitchCounted ==
    \A n \in Honest :
        (InWindow(store[n], store[n].height) /\ \E b \in released : InMainChain(store[n], b))
            => switches[n] >= 1
=============================================================================
