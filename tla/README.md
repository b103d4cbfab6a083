# TLA+ models of RBlockSim

RBlockSim (`src/RBlockSim/src/`) is a discrete-event simulator of a
proof-of-work blockchain network. It runs on the ROOT-Sim kernel. Each
simulated node is a logical process with these parts:

- **Fork tree** (`Block.c`). A per-node store of every block the node has
  seen. It has these pieces:
  - **Levels.** A sliding window of `ChainLevel`s covering heights
    `[min_height, min_height + 2*DEPTH_TO_KEEP)`.
  - **Orphan linking.** Orphans are blocks whose parent has not arrived yet.
  - **Main chain.** A head (`height`, `main_chain_index`) selected by
    `chainNodeMax`.
- **Fork choice** (`chainNodeMaxHonest`, `chainNodeMaxAttacker`). Honest
  nodes order tips lexicographically. The attacker favours chains with more
  of its own blocks, within a catch-up tolerance.
- **Transaction state** (`Transaction.c`). A bitmap of the transactions
  included in the main chain, plus a `[low, high)` window. The bitmap is
  updated when blocks are applied to or reverted from the main chain.
- **Statistics** (`Statistics.c`). Counters of main-chain blocks kept in
  step with apply and revert (the selfish-mining statistics).
- **Event handlers** (`RBlockSim.c`, `ProcessEvent`):
  - GENERATE_BLOCK mines on the head. The selfish attacker conceals blocks
    and releases them in bursts.
  - RECEIVE_BLOCK deduplicates, inserts, requests a missing parent and
    re-gossips.
  - REQUEST_BLOCK answers a parent request.
- **Network** (`Network.c`). Gossip to a random subset of peers, each
  message with an independent random delay, so any reordering is possible.
- **Kernel** (`src/ROOT-Sim_core/src/serial/serial.c`). The sequential
  ROOT-Sim engine. It delivers LP_INIT to every LP, then processes a
  timestamp-ordered heap of events. Each LP's next GENERATE_BLOCK waits in
  a separate retractable slot.

The components interact only through messages: blocks and parent requests.
Inside one node, each handler runs to completion. So the hard behaviours are:

- the arrival order of blocks, including children before parents;
- reorganisations that revert and re-apply chains;
- the sliding window dropping state that later events still need;
- the attacker's concealment logic.

## Inventory

| Component | State | Operations | Correctness properties |
|---|---|---|---|
| Fork choice | none (pure) | `chainNodeMaxHonest`, `chainNodeMaxAttacker`, `chainNodeMax` | the attacker order should be transitive (it is not) |
| Fork tree | levels, `min_height`, `max_height`, `height`, `main_chain_index` | `initBlockchain`, `addBlock`, `unorphanBlocks`, `maybeSwitchChains`/`switchChains`, `apply`/`revertAppliedChainNode`, `moveChainForward`, `findChainNode`, `retrieveBlock`, `blockFromNode` | see the list below |
| Transactions | bitmap, `low`, `high` | `generateTransactions`, `getTransactionDeliveryTime`, `deliverNewTransactions`, `generateTransactionData`, `applyBlockTransactions`, `revertAppliedBlockTransactions` | bitmap = transactions of the main chain; no transaction twice on a chain; `[0, low)` set; `[high, T)` clear |
| Statistics | selfish counters | `initSelfishStatisticsState`, `statsAdd`/`RemoveBlockSelfish`, `statsMineBlockSelfish`, `statsSwitchToSelfishChain` | counters = counts over the main chain; every switch onto a released selfish block is counted (it is not) |
| Node handlers | per-node store; attacker: `last_propagated_height`, `isSelfishMining`, counters | GENERATE_BLOCK, RECEIVE_BLOCK, REQUEST_BLOCK | no abort; no release aborts; honest nodes converge once mining stops |
| Attacker selection | `is_attacker_bitmap` | `initAttackers` | one attacker for a selfish or 51% attack |
| Network | in-flight events | `gossipBlock`, `sendSingleBlock`, `requestParent`, `propagateBlockAndNAncestors` | parent requests and relaying bring every block everywhere |
| Kernel | heap, retractable slots, `totalHashPower`, `MiningState` | init loop, run loop, LP_INIT, RBLOCKSIM_INIT | every portion divides by the complete total; no generation is left pending at the end (it is) |

The fork tree's correctness properties are:

- main-chain transactions and statistics equal the main chain;
- the head is the best linked node, and the store refines `HonestHead`;
- orphans are linked as soon as their parent is linked;
- parent links, score and `ancestorsMined` are consistent;
- the window invariants.

## Modules

| Module | Models | State and actions |
|---|---|---|
| `ChainSelection` | `chainNodeMaxHonest`, `chainNodeMaxAttacker`, `chainNodeMax` (`Block.c` 235-307) | pure operators over ChainNode records |
| `ForkTree` | the store of `Block.c` and the selfish counters of `Statistics.c` | operators over a store record, one per C function; see below |
| `ForkTreeNode` | one node's store driven by `receiveBlock` (as `ProcessEvent` calls it) and `generateBlock` | variables `store`, `clock`, `sent`, `fatal`; actions `ReceiveBlock(blk)`, `GenerateBlock`, `RequestBlock` |
| `HonestHead` | what an honest store promises | variables `linked` (a growing set of blocks), `head`; one action `Link`: more blocks linked, head the best of them |
| `TxLedger` | `Transaction.c`: timestamps, senders and delivery times, the bitmap, `low`/`high`, `TransactionData` | variables `now`, `latency`, `bitmap`, `low`, `high`, `chain`, `mined`; actions `Mine(n)` (generateBlock: generateTransactionData with its delivery, then apply), `Switch(n, m)` (switchChains: revert head-first, apply ancestors-first), `Tick` |
| `RBlockSim` | `ProcessEvent` of every node (`RBlockSim.c`), `gossipBlock`/`sendSingleBlock` (`Network.c`), `requestParent`, `propagateBlockAndNAncestors`, `initAttackers` | variables `store`, `clock` (per node), `msgs` (scheduled events), `lph`, `selfish` (per attacker), `started`, `fatal`, `switches`, ghosts `mined`, `released`; actions `Generate(n)`, `Deliver` (`Receive(m)` or `Request(m)`), `Start` |
| `SerialKernel` | `serial.c` with the LP_INIT and RBLOCKSIM_INIT handlers | variables `queue` (a bag), `root`, `slot` (per LP), `i`, `stopped`, `total`, `mining`, `inits`; actions `InitLP` (one turn of the init loop), `RunStep` (one turn of the run loop), `Drained` |
| `MC_*` | instances for TLC | model values, peer lists, mining bounds and hash-power draws |

### How `ForkTree` matches the code

- **Levels.** `old_levels`/`current_levels` become one function from height
  to a sequence of nodes. `getChainLevel` maps heights inside the window
  one-to-one onto the two arrays. So indexing by height is the same, and
  `moveChainForward` empties the oldest `DEPTH_TO_KEEP` heights.
- **Out-of-window accesses.** Two accesses make a handler end with
  `fatal` set and no further step:
  - an access below `min_height`, which is the `abort()` in `getChainLevel`;
  - an access at or above `min_height + 2*DEPTH_TO_KEEP`, which indexes
    past the arrays in a release build.
- **`addBlock`.** It is modelled whole:
  - the `max_height` update and the slide;
  - the append of the node, with the local time as its timestamp;
  - the parent search, where an orphan parent ends the search;
  - the orphan return;
  - `unorphanBlocks`: mutually recursive `UnorphanBlocks`/`UnorphanLevel`,
    which return the best linked descendant exactly as the C loop picks it;
  - the choice of the candidate and `maybeSwitchChains`.
- **`switchChains`.** It is modelled as its three walks (`WalkNewChain`,
  `RevertDownTo`, `WalkToCommon`), then the re-application of the buffer
  ancestors first, then the new `main_chain_index`.
- **Transaction payloads.** A block's `transactionData` is abstracted to the
  node itself. `txns` is the set of nodes (position, miner) whose
  transactions are currently applied. The bitmap arithmetic is checked in
  `TxLedger`.
- **Timestamps.** They are local insertion ordinals. The code overwrites
  the block's timestamp with the local `now`, and only the order of two
  timestamps in one store is ever compared.

### The environment of `ForkTreeNode`

- **What the other miners do.** Each other miner produces at most one block
  per height. A block's parent is any miner's block at the height below, or
  genesis at height 1. A block can be built on one of this node's blocks
  only after this node mined it.
- **Delivery.** Blocks arrive in any order, and any block may never arrive.
  This covers gossip to a random subset of peers with random delays.
- **The `RECEIVE_BLOCK` guard.** A block already stored (`findChainNode`)
  does not reach `receiveBlock`; a late block below `min_height` makes
  `findChainNode` abort.
- **Parent requests.** A peer that received one of this node's relays as an
  orphan asks this node (`sender = me`) for its parent. `RequestBlock` is
  that REQUEST_BLOCK when it aborts: `retrieveBlock` reaches below
  `min_height`, or finds the block at `min_height` and `blockFromNode`
  (`Block.c` 222) reads its dropped parent. An answer that does not abort
  leaves this node's store unchanged, so it is not a step of this model.
- **Mining.** `GenerateBlock` mines on the head whenever the retractable
  GENERATE_BLOCK event fires. `ancestorsMined++` happens after `addBlock`,
  as in the code.

### Refinement: `ForkTreeNode` implements `HonestHead`

`ForkTreeNode` instantiates `HonestHead` with `linked` the set of linked
(non-orphan) nodes of the store and `head` the main chain's node, each
seen through the fields the fork choice reads. `HonestHeadRefined` is the
abstract `Spec` as a property of the honest run: every `addBlock`, with
its orphan linking and chain switches, only adds linked blocks, never
unlinks or rewrites one, and leaves the head on the best of them.

### How `RBlockSim` matches the code

- **Nodes.** Each node has its own `ForkTree` store and local clock. The
  handlers call the same `ForkTree` operators as `ForkTreeNode`.
- **Attackers.** The constant `Attackers` must be a set `initAttackers`
  can produce (`AttackerSets`): none, or one node for a selfish or 51%
  attack.
- **Options.** `Tolerance` must be one `handle_options` accepts
  (`AcceptedTolerances`, in `ForkTree`). `-c` rejects only a value above
  `DEPTH_TO_KEEP`, although its message says "less than". `Depth` may be
  any natural number, 0 included, as `-d` allows.
- **Gossip.** `GossipTargets` is `gossipBlock`'s choice of receivers. It
  sends to every peer when `Fanout` (`GOSSIP_FANOUT`) is 0, when the
  sender has no more peers than that, or when the sender mined the block.
  Otherwise it sends to any `Fanout` distinct peers, since the rejection
  sampling can pick any such subset. `Gossip` is one `propagateBlock`
  call: its possible sets of RECEIVE_BLOCK events. The relay in
  RECEIVE_BLOCK is the only call whose block another node mined.
  `propagateBlockAndNAncestors` releases the attacker's own blocks, so
  they always go to every peer.
- **Events.** `msgs` holds the scheduled RECEIVE_BLOCK and REQUEST_BLOCK
  events as records. `Deliver` picks any of them, because delays are
  random and positive. Identical events are one set element: a second
  copy would only find the block stored and, for an orphan, request the
  parent again. GENERATE_BLOCK is the retractable event every node with
  hash power has pending, so `Generate(n)` may fire in any state.
- **GENERATE_BLOCK.** `Generate(n)` runs `generateBlock` and counts the
  mined block, then either gossips it (honest or 51% node), or runs
  `SelfishRelease`, the whole of lines 189-226: reset on a foreign parent,
  start past the start time, `concealed_blocks` as an unsigned difference,
  and `propagateBlockAndNAncestors`, which retrieves each ancestor with
  `retrieveBlock` and aborts on a missing one.
- **RECEIVE_BLOCK.** `Receive(m)` runs `findChainNode` (which aborts below
  the window); for a stored block a parent request if it is an orphan;
  otherwise `receiveBlock`, `requestParent` to `b->sender` when no parent
  was found, the relay with `sender = me`, the attacker's
  `last_propagated_height` update and the `statsSwitchToSelfishChain`
  count.
- **REQUEST_BLOCK.** `Request(m)` runs `retrieveBlock` by (miner, height)
  and answers with the block, or drops the request. It aborts when the
  height is below `min_height`, or when the block is linked at
  `min_height` above genesis: `blockFromNode` reads its parent one level
  below the window.
- **Start time.** `Start` is simulation time passing
  `attackConfig.selfish.startTime`.

### How `SerialKernel` matches the code

`InitLP` is one turn of the init loop (`serial.c` 39-59): insert LP_INIT,
process it, extract the root. `RunStep` is one turn of the run loop
(95-125): take the earliest of the heap root and the retractable events,
stop when the GVT timer has elapsed and the event is at or past
`termination_time`, otherwise process it. `Drained` is the loop condition
failing on an empty heap. The handlers are `HandleLPInit` (LP_INIT,
including the hash-power draw and the shared `totalHashPower`),
`HandleRBInit` (RBLOCKSIM_INIT: the portion, then
`scheduleNextBlockGeneration`) and `HandleBlock`, reduced to the events
it schedules. `heap.h`, `msg_is_before` and the retractable library are
not in the repository: the heap is a bag whose root is displaced only by
a strictly earlier insert, and the order of events of equal time is the
constant `TieInitFirst`.

## Runs

| Run | Config | Expect | What it shows |
|---|---|---|---|
| `attacker_fork_choice_cycle` | `MC_ChainSelection_attacker.cfg` | violation | `chainNodeMaxAttacker` has preference cycles, so the attacker's head depends on arrival order |
| `honest_store` | `MC_ForkTreeNode.cfg` | pass | `TypeOK`, `MainChainApplied`, `HeadIsBest`, `NoStrandedOrphan`, `LinksConsistent` and `HonestHeadRefined` for an honest node among two other miners |
| `honest_store_window_slide` | `MC_ForkTreeNode_slide.cfg` | pass | the same invariants across `moveChainForward` (`DEPTH_TO_KEEP = 2`) |
| `window_bounds` | `MC_ForkTreeNode_WindowBounds.cfg` | violation | spec invariant 1 (`min_height <= height`) fails: a far-ahead orphan slides the window past the head |
| `no_abort` | `MC_ForkTreeNode_NoFatalError.cfg` | violation | an ordinary message sequence makes `getChainLevel` abort, in the receiver or in the node answering a parent request |
| `ledger_matches_chain` | `MC_TxLedger.cfg` | pass | `TypeOK`, `BitmapIsMainChain`, `WindowInvariant` through mining and chain switches of two nodes |
| `ledger_double_inclusion` | `MC_TxLedger_double.cfg` | violation | a transaction is included by two blocks of one chain (`generateTransactionData` range bug) |
| `network_line` | `MC_RBlockSim_line.cfg` | pass | three honest nodes on a line: relaying and parent requests bring every block everywhere (`HonestConverge`) |
| `network_selfish` | `MC_RBlockSim_selfish.cfg` | pass | a selfish attacker and an honest node: `TypeOK`, `NoAncestorAbort`, `StoresApplied`, `StoresCountMined`, `HonestConverge` |
| `selfish_switch_count` | `MC_RBlockSim_switches.cfg` | violation | a switch onto a released selfish block goes uncounted when the burst arrives out of order |
| `serial_kernel` | `MC_SerialKernel.cfg` | pass | `InitBarrier` and `AllPortionsSet` under the serial engine |
| `serial_kernel_drain` | `MC_SerialKernel_drain.cfg` | violation | the serial engine stops with every GENERATE_BLOCK still pending |

### What the properties say

- **`MainChainApplied`, `StoresApplied`.** The applied set equals the main
  chain after every `addBlock`, whatever reorganisation it did: the applied
  nodes inside the window are exactly the path from the head, one per
  height, and the three selfish counters count the same blocks.
  `StoresApplied` says it of every store of the network, the attacker's
  (with its own fork choice) included.
- **`HeadIsBest`.** An honest head is preferred to every linked node in the
  store, for any arrival order.
- **`HonestHeadRefined`.** See the refinement above. It relates each state
  to the next: a linked block may never become an orphan again or change.
- **`NoStrandedOrphan`.** No orphan remains whose parent's miner has a
  linked node at the height below (the recursion of `unorphanBlocks`).
- **`LinksConsistent`, `StoresCountMined`.** Each linked node points at an
  in-bounds linked parent; its `score` is the parent's plus one, and its
  `ancestorsMined` is the parent's plus one exactly when this node mined it
  (`PathCounted`). `LinksConsistent` also checks that the parent is the
  miner the block names.
- **`BitmapIsMainChain`.** Each node's bitmap is exactly the union of the
  ids its main chain's blocks mark (`included ∩ [low, high)`).
- **`WindowInvariant`** (spec, TransactionState). `[0, low)` is all set,
  `[high, T)` all clear, and `low <= high`.
- **`NoAncestorAbort`.** A selfish release finds each concealed ancestor by
  (attacker, height). It holds because a chain switch to another miner's
  block resets the attack before `concealed_blocks` is computed.
  With one honest node it also relies on the attacker never mining twice at
  one height, which holds there: see "Not modelled" for the three-node case.
- **`HonestConverge`** (liveness). Once mining has stopped and every event
  is processed, all honest nodes hold the same linked blocks, no orphans,
  and main chains of one height.
- **`InitBarrier`.** Every LP runs LP_INIT once, and every honest
  RBLOCKSIM_INIT divides by the complete `totalHashPower`. It depends on
  every LP_INIT (all at time 0) being processed before any RBLOCKSIM_INIT
  (also at time 0).
- **`AllPortionsSet`** (liveness). Every LP eventually turns its hash power
  into a portion.

The store invariants are checked only while the node is alive and its head
is inside the window. Otherwise the next `getMainChain` aborts, and the
violation runs cover that.

### Bounds

- **`honest_store`.** Three miners (this node and two others),
  `MaxHeight = 3`, `DEPTH_TO_KEEP = 3` (no slide). This covers forks
  between all three miners, children before parents, orphan chains of
  length two and reorganisations of depth two. The other miners are model
  values under symmetry. This is sound because timestamps inside one store
  are distinct, so the miner-id tie-break of `chainNodeMax` is never
  reached.
- **`honest_store_window_slide`.** Two miners, `MaxHeight = 4`,
  `DEPTH_TO_KEEP = 2`. The slide happens at height 4, with forks and orphans
  on both sides of it.
- **`ledger_matches_chain`.** Two nodes, three transactions, clock 0..3,
  chains of up to three blocks, every latency of one or two increments to
  each node. Every transaction's sender is node 0, as the code makes it.
  Three ids are enough for a block to include a proper subset of the
  window, for two nodes to include the same id in rival blocks, and for
  reverts that lower `low` below ids still set.
- **`network_*`.** Two nodes in a full mesh (or three on a line), heights up
  to 3, `DEPTH_TO_KEEP = 3`. `MaxMined` bounds the blocks each node mines:
  three for node 0 and two for the other, or one each on the line. That is
  enough for an honest node to be out-mined and reorganise, and for the
  attacker to mine before its start, begin an attack, conceal (depth 2),
  release and be reset.
- **`serial_kernel`.** Four LPs, one of them the attacker, hash-power draws
  1, 2, 3, termination time 3, generation delays 1-3. Four LPs give
  interleavings in which some LP_INITs come after the first RBLOCKSIM_INIT
  would, were the tie order different.

### Fairness and deadlock

- **`RBlockSim`** assumes weak fairness of `Deliver`, written out as
  `[]<>~CanDeliver \/ []<><<Deliver>>_vars`: an event that stays scheduled
  is processed. The simulator processes every scheduled event in timestamp
  order, and every handler accepts any event. Mining has no fairness,
  because a node may stop mining at any time. (`WF_vars(Deliver)` states
  the same, but TLC checks the written-out form far faster here.)
- **`SerialKernel`** assumes `WF_vars(Next)`: the engine is one loop that
  keeps taking steps until it stops.
- All runs are `CHECK_DEADLOCK FALSE`, because the simulation really stops:
  at `abort()` (`fatal`), at `termination_time` (the model's height or
  mining bounds), or when the serial engine's heap is empty.

## Findings

- **The attacker fork choice is not transitive.** With tolerance 1,
  `x` = (score 2, mined 1, ts 0, miner 0), `y` = (score 3, mined 0, ts 1,
  miner 0) and `z` = (score 2, mined 2, ts 2, miner 1): `x` beats `y`, `y`
  beats `z`, and `z` beats `x`. The spec's "head is the maximum over all
  tips" is undefined for the attacker.
- **The window slide ignores the head.** A block reaching
  `min_height + 2*DEPTH_TO_KEEP` slides the window even when the head is
  more than `DEPTH_TO_KEEP` behind, against spec invariant 1.
- **A transaction can be included twice on one chain.**
  `generateTransactionData` (`Transaction.c` 104-110) gives a block whose
  only included transaction is the one at `low` the empty range
  `[low, low)`.
- **Ordinary message sequences abort the simulation.** A late block makes
  `findChainNode` abort; a reorganisation whose fork point has been dropped
  aborts too; and a node asked for the block at the bottom of its window
  (the parent of an orphan it relayed) aborts in `blockFromNode`, which
  reads that block's parent one level below `min_height`.
- **Uncounted switches to the selfish chain.** `RECEIVE_BLOCK` counts a
  switch only when the block just received is tagged and moved the main
  chain. The burst's random delays let the tagged tip arrive before its
  untagged ancestor; the switch then happens on the ancestor.
- **The serial engine drains.** `serial_simulation_run` loops while the
  heap is non-empty, but the retractable GENERATE_BLOCK events are kept
  outside it: after RBLOCKSIM_INIT the loop ends and no block is mined.

## Not modelled, and why

- **The fork tree inside `TxLedger`.** It is abstracted to one main chain
  per node: a switch adopts another node's longer chain. `ForkTree` checks
  the walk itself.
- **Convergence under the random-subset relay.** The subset branch is
  modelled, but every run keeps each relay within `Fanout`: the line run
  uses `Fanout = 2`, and the two-node runs have one peer per node. With
  `Fanout = 1` on the line, TLC finds `HonestConverge` violated. The middle
  node relays a block back towards its source, and the far node never
  receives it once mining stops. With 40 to 120 peers and a fanout of 80,
  this is unlikely but possible, so no run asserts convergence for that
  branch.
- **An attacker mining twice at one height.** `Block.h` says no miner
  mines at one height twice, and `findChainNode`, `retrieveBlock` and the
  parent requests rely on it. The attacker's fork choice can break it, but
  only with two honest miners. Node 2 mines x3 and N4 on the attacker's
  A1 A2, while node 1 mines h1 to P4. N4 reaches the attacker as an orphan.
  The attacker moves to P4 and mines M5. Then x3 arrives and links N4. N4's
  virtual score (score plus tolerance 1) ties M5, and its earlier timestamp
  wins (Block.c:282-287), so the attacker mines at height 5 again.
  With one honest miner the attacker's head never falls back this way, so
  `network_selfish` cannot reach it. The three-node, height-5 instance is
  beyond an exhaustive run of this model, so no run asserts the property.
- **Statistics output, attack counters and LP_FINI.** Output only, as are
  `failed_attacks` and `successful_conceals`. LP_FINI also adds
  `mined_by_me` to `tot_mined`. Under the serial engine that total is 0,
  because no GENERATE_BLOCK fires there. The detailed and 51%
  statistics modes are never selected by `main`.
- **Window slides in the network model.** `DEPTH_TO_KEEP` is above the
  height bound there. `ForkTreeNode` covers slides.
- **Random numbers.** The RNG, the exponential delays and the hash-power
  draws become nondeterminism over small sets.
- **I/O.** Option parsing, result folders, JSON output and detailed
  statistics. Only the ranges of accepted option values constrain the
  constants (see Options above).
- **The parallel engine.** Only `serial.c` of ROOT-Sim is in the
  repository; `heap.h`, `msg_is_before` and the retractable library are
  abstracted as described above.
- **Blocks after the drain.** Because the serial engine stops before any
  GENERATE_BLOCK fires, the block handlers inside `SerialKernel` are
  reduced to the events they schedule; `RBlockSim` checks them in full as
  if the retractable events were processed.
