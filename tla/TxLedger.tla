------------------------------ MODULE TxLedger ------------------------------
(***************************************************************************)
(* The TransactionState of RBlockSim (src/RBlockSim/src/Transaction.c):    *)
(* the bitmap of transactions included in the main chain, the window       *)
(* [low, high), and the TransactionData a mined block carries.             *)
(*                                                                         *)
(* Nodes mine on their main chain (generateBlock: generateTransactionData, *)
(* then applyChainNode of the new head) and switch to a longer chain of    *)
(* another node (switchChains: revert the abandoned blocks from the head   *)
(* down, apply the new ones ancestors first).  The fork tree itself is     *)
(* abstracted to one main chain per node; module ForkTree checks the walk. *)
(*                                                                         *)
(* Time: transaction i has timestamp i * increment (generateTransactions), *)
(* so the integer clock "now" counts increments.  getTransactionDelivery-  *)
(* Time adds the fixed latency from the sender's region to the receiver's *)
(* (getTransmissionDelay without an rng), a positive number of increments *)
(* chosen once in Init.                                                    *)
(***************************************************************************)
EXTENDS Integers, Sequences, SequencesExt, FiniteSets

CONSTANTS
    Nodes,      \* the simulated nodes
    TxnNumber,  \* TXN_NUMBER
    MaxTime,    \* last clock value (model bound)
    Node0,      \* node id 0
    MaxLatency, \* largest latency, in increments (model bound)
    MaxBlocks   \* longest main chain (model bound)

ASSUME TxnNumber \in Nat \ {0} /\ MaxTime \in Nat /\ MaxBlocks \in Nat
ASSUME Node0 \in Nodes /\ MaxLatency \in Nat \ {0}

Txns == 0..(TxnNumber - 1)

VARIABLES
    now,      \* simulation time, in transaction intervals
    latency,  \* LATENCIES from the transactions' sender to each node
    bitmap,   \* transactions_bitmap, as the set of ids whose bit is 1
    low,      \* TransactionState.low
    high,     \* TransactionState.high
    chain,    \* main chain of each node, genesis excluded
    mined     \* blocks mined by each node (mined_by_me), for block identity

vars == <<now, latency, bitmap, low, high, chain, mined>>

(* initTransactionState *)
Init ==
    /\ now = 0
    /\ latency \in [Nodes -> 1..MaxLatency]
    /\ bitmap = [n \in Nodes |-> {}]
    /\ low = [n \in Nodes |-> 0]
    /\ high = [n \in Nodes |-> 0]
    /\ chain = [n \in Nodes |-> <<>>]
    /\ mined = [n \in Nodes |-> 0]

-----------------------------------------------------------------------------
(* generateTransactions: timestamp i * increment, and sender              *)
(* (node_id_t) Random(rng) * conf.lps, where the cast of a draw in [0, 1)  *)
(* comes first: every sender is node 0.                                    *)
Timestamp(i) == i
TxnSender(i) == Node0

(* the condition of generateTransactionData's loop on the delivery:        *)
(* getTransactionDeliveryTime(i, n) = timestamp + latency, before now     *)
Includable(n, i, t) == TxnSender(i) = n \/ Timestamp(i) + latency[n] < t

(* deliverNewTransactions: advance low over included ids (the bit is read  *)
(* before low < TXN_NUMBER is tested, so bit TXN_NUMBER is read, past the  *)
(* bitmap; the test then stops the loop whatever it held), and advance     *)
(* high over the ids whose timestamp is not after now.                     *)
NewLow(bm, l) == Min({j \in l..TxnNumber : j \notin bm})

NewHigh(h, t) == Min({j \in h..TxnNumber : j = TxnNumber \/ Timestamp(j) > t})

(* generateTransactionData: after delivery, include every id in [low,high) *)
(* not in the bitmap and includable now; high is the last included id,    *)
(* plus one unless it is still equal to low.  No data (NULL) when the     *)
(* window is empty: the block then carries a zeroed TransactionData.      *)
TxnData(n, bm, l, h, t) ==
    IF h <= l THEN [low |-> 0, high |-> 0, incl |-> {}]
    ELSE LET incl == {i \in l..(h - 1) : i \notin bm /\ Includable(n, i, t)}
             last == IF incl = {} THEN l ELSE Max(incl)
         IN  [low |-> l, high |-> IF last # l THEN last + 1 ELSE last, incl |-> incl]

(* the ids applyBlockTransactions and revertAppliedBlockTransactions touch *)
Marked(d) == d.incl \cap d.low..(d.high - 1)

(* mutant: revert leaves the bits of the block set *)
RevertKeepBits(bm, d) == bm

(* revertAppliedBlockTransactions: clear the block's bits *)
RevertBits(bm, d) == bm \ Marked(d)

(* mutant: revert does not lower low to the block's low *)
RevertLowKept(l, d) == l

(* revertAppliedBlockTransactions: low = min(low, data->low) *)
RevertLow(l, d) == Min({l, d.low})

(* applyBlockTransactions: set the block's bits, high = max(high, data->high) *)
ApplyBits(bm, d) == bm \cup Marked(d)

(* mutant: high taken as the last included id, then incremented again *)
ApplyHighPastLast(h, d) == Max({h, d.high + 1})

ApplyHigh(h, d) == Max({h, d.high})

-----------------------------------------------------------------------------
(* generateBlock on node n: generateTransactionData (with its delivery),   *)
(* then addBlock makes the block the head and applyChainNode applies it.   *)
Mine(n) ==
    /\ Len(chain[n]) < MaxBlocks
    /\ LET l1 == NewLow(bitmap[n], low[n])
           h1 == NewHigh(high[n], now)
           d == TxnData(n, bitmap[n], l1, h1, now)
       IN  /\ chain' = [chain EXCEPT ![n] = Append(@, [id |-> <<n, mined[n]>>, data |-> d])]
           /\ bitmap' = [bitmap EXCEPT ![n] = ApplyBits(@, d)]
           /\ low' = [low EXCEPT ![n] = l1]
           /\ high' = [high EXCEPT ![n] = ApplyHigh(h1, d)]
    /\ mined' = [mined EXCEPT ![n] = @ + 1]
    /\ UNCHANGED <<now, latency>>

(* switchChains on node n to the longer main chain of node m: revert n's  *)
(* blocks above the common prefix, head first, then apply m's blocks above *)
(* it, ancestors first.                                                    *)
Switch(n, m) ==
    /\ Len(chain[m]) > Len(chain[n])
    /\ LET k == Len(LongestCommonPrefix({chain[n], chain[m]}))
           old == SubSeq(chain[n], k + 1, Len(chain[n]))
           new == SubSeq(chain[m], k + 1, Len(chain[m]))
           rb == FoldRight(LAMBDA b, bm : RevertBits(bm, b.data), old, bitmap[n])
           rl == FoldRight(LAMBDA b, l : RevertLow(l, b.data), old, low[n])
       IN  /\ bitmap' = [bitmap EXCEPT ![n] = FoldLeft(LAMBDA bm, b : ApplyBits(bm, b.data), rb, new)]
           /\ low' = [low EXCEPT ![n] = rl]
           /\ high' = [high EXCEPT ![n] = FoldLeft(LAMBDA h, b : ApplyHigh(h, b.data), @, new)]
           /\ chain' = [chain EXCEPT ![n] = chain[m]]
    /\ UNCHANGED <<now, latency, mined>>

(* simulated time passes *)
Tick ==
    /\ now < MaxTime
    /\ now' = now + 1
    /\ UNCHANGED <<latency, bitmap, low, high, chain, mined>>

Next ==
    \/ Tick
    \/ \E n \in Nodes : Mine(n)
    \/ \E n, m \in Nodes : n # m /\ Switch(n, m)

Spec == Init /\ [][Next]_vars

-----------------------------------------------------------------------------
TypeOK ==
    /\ \A n \in Nodes : bitmap[n] \subseteq Txns
    /\ low \in [Nodes -> 0..TxnNumber] /\ high \in [Nodes -> 0..TxnNumber]

(* The bitmap is exactly the transactions the main chain's blocks mark,   *)
(* after any sequence of mining and chain switches (apply and revert of   *)
(* TransactionData on one node, of blocks mined on other nodes).          *)
BitmapIsMainChain ==
    \A n \in Nodes : bitmap[n] = UNION {Marked(b.data) : b \in Range(chain[n])}

(* spec.md TransactionState invariant: every id below low is included, no *)
(* id at or above high is, and the window is not inverted.                 *)
WindowInvariant ==
    \A n \in Nodes :
        /\ 0..(low[n] - 1) \subseteq bitmap[n]
        /\ bitmap[n] \cap high[n]..(TxnNumber - 1) = {}
        /\ low[n] <= high[n]

(* A transaction is included by at most one block of a main chain:        *)
(* generateTransactionData only offers ids not yet in the bitmap.          *)
NoDoubleInclusion ==
    \A n \in Nodes : \A i, j \in DOMAIN chain[n] :
        i < j => chain[n][i].data.incl \cap chain[n][j].data.incl = {}
=============================================================================
