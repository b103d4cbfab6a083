---------------------------- MODULE SerialKernel ----------------------------
(***************************************************************************)
(* The sequential engine of ROOT-Sim (src/ROOT-Sim_core/src/serial/        *)
(* serial.c) running RBlockSim's ProcessEvent (src/RBlockSim/src/          *)
(* RBlockSim.c): the init loop that delivers LP_INIT to every LP, the     *)
(* event loop over the timestamp-ordered heap `queue`, and the per-LP      *)
(* retractable slot that holds the next GENERATE_BLOCK.                    *)
(*                                                                         *)
(* Of the handlers, LP_INIT and RBLOCKSIM_INIT are modelled in full: the   *)
(* shared totalHashPower accumulator, the MiningState union that holds    *)
(* the raw hash power until RBLOCKSIM_INIT turns it into a portion, and    *)
(* scheduleNextBlockGeneration.  GENERATE_BLOCK, RECEIVE_BLOCK and         *)
(* REQUEST_BLOCK (module RBlockSim) are reduced to what the kernel sees:   *)
(* the events they schedule and whether they re-arm the retractable slot. *)
(*                                                                         *)
(* heap.h, msg_is_before and the retractable library are not in the       *)
(* repository.  The heap is a bag with a root: an insert displaces the    *)
(* root only when it is strictly before it, and after an extract any      *)
(* earliest event may become the root.  How msg_is_before orders events   *)
(* of equal time is the constant TieInitFirst.  Times are integers; the   *)
(* exponential delays are drawn from small sets.                          *)
(***************************************************************************)
EXTENDS Integers, Bags, FiniteSetsExt

CONSTANTS
    LPs,           \* 0..conf.lps-1
    Attackers,     \* is_attacker(): the attacker LPs
    HashPower,     \* the (uint_fast64_t) NormalExpanded draw of each honest LP
    AttackPortion, \* attackConfig.*.hashPowerPortion > 0 (1) or = 0 (0)
    Term,          \* conf.termination_time
    GenDelays,     \* values getNextGenDelay can draw
    NetDelays,     \* values getTransmissionDelay can draw
    TieInitFirst   \* msg_is_before puts an LP_INIT before other events of its time

ASSUME LPs \subseteq Nat /\ Attackers \subseteq LPs /\ Term \in Nat
ASSUME HashPower \in [LPs \ Attackers -> Nat] /\ AttackPortion \in {0, 1}
ASSUME GenDelays \subseteq Nat \ {0} /\ NetDelays \subseteq Nat \ {0}

NoEvent == [lp |-> -1, t |-> -1, type |-> "none"]   \* heap_min of an empty heap
NoSlot == -1                                         \* no retractable pending

Types == {"LP_INIT", "RBLOCKSIM_INIT", "GENERATE_BLOCK", "RECEIVE_BLOCK"}
Event(l, t, type) == [lp |-> l, t |-> t, type |-> type]

\* an rs_malloc'ed MiningState no handler has written
Garbage == [raw |-> "garbage"]

VARIABLES
    queue,    \* the heap: a bag of events
    root,     \* heap_min(queue), or NoEvent when it is empty
    slot,     \* time of each LP's pending retractable GENERATE_BLOCK, or NoSlot
    i,        \* serial_simulation_init's loop index
    stopped,  \* serial_simulation_run has left its loop
    total,    \* totalHashPower.hashpower
    mining,   \* each LP's MiningState: [raw |-> hashPower] or portion [num |-> _, den |-> _]
    inits     \* LP_INIT handlers each LP has run (NodeStates it allocated)

vars == <<queue, root, slot, i, stopped, total, mining, inits>>

Honest == LPs \ Attackers
TotalHashPower == MapThenSumSet(LAMBDA l : HashPower[l], Honest)

(* msg_is_before *)
Before(a, b) ==
    \/ a.t < b.t
    \/ a.t = b.t /\ TieInitFirst /\ a.type = "LP_INIT" /\ b.type # "LP_INIT"

(* the roots heap_insert of the events es, in any order, can leave *)
InsertRoots(r, es) ==
    LET first == {e \in es : \A x \in es : ~Before(x, e)}
    IN  IF r # NoEvent /\ \A e \in es : ~Before(e, r) THEN {r} ELSE first

(* the roots heap_extract can leave after removing the root of q *)
ExtractRoots(q) ==
    LET s == BagToSet(q)
    IN  IF s = {} THEN {NoEvent} ELSE {e \in s : \A x \in s : ~Before(x, e)}

(* scheduleNextBlockGeneration(now): the new slot, or the old one when the *)
(* portion is not positive.  A MiningState still holding the raw hash     *)
(* power is read as a subnormal double: the draw lands past termination.  *)
(* Garbage may hold any value.                                            *)
Armed(m, s, now) ==
    LET later == {now + d : d \in GenDelays}
    IN  CASE m = Garbage     -> later \cup {s}
          [] "raw" \in DOMAIN m -> IF m.raw > 0 THEN {Term + 1} ELSE {s}
          [] OTHER           -> IF m.num > 0 THEN later ELSE {s}

(* The possible effects of ProcessEvent: the events it schedules (es), the *)
(* LP's slot, totalHashPower, its MiningState and its LP_INIT count.       *)
Effect(es, s, tot, m, n) == [es |-> es, slot |-> s, total |-> tot, mining |-> m, inits |-> n]

(* initBlockchainState draws the hash power into the MiningState and adds *)
(* it to totalHashPower; attackerInitBlockchainState writes neither.       *)
InitMining(l) == IF l \in Honest THEN [raw |-> HashPower[l]] ELSE Garbage
AddedPower(l) == IF l \in Honest THEN total + HashPower[l] ELSE total

(* afterInitBlockchainState: hashPower / totalHashPower (then scaled by    *)
(* 1 - the attacker's portion); a union already holding a portion reads   *)
(* back as some positive integer.  attackerAfterInitBlockchainState: the   *)
(* configured portion.                                                     *)
Portion(l, m) ==
    IF l \in Honest
    THEN [num |-> IF "raw" \in DOMAIN m THEN m.raw ELSE 1, den |-> total]
    ELSE [num |-> AttackPortion, den |-> 1]

(* LP_INIT: a fresh NodeState, its blockchain state, and RBLOCKSIM_INIT   *)
(* scheduled for now                                                       *)
HandleLPInit(e, s) ==
    {Effect({Event(e.lp, e.t, "RBLOCKSIM_INIT")}, s, AddedPower(e.lp), InitMining(e.lp),
            inits[e.lp] + 1)}

(* RBLOCKSIM_INIT: the portion, then scheduleNextBlockGeneration *)
HandleRBInit(e, s) ==
    LET p == Portion(e.lp, mining[e.lp])
    IN  {Effect({}, s2, total, p, inits[e.lp]) : s2 \in Armed(p, s, e.t)}

(* GENERATE_BLOCK and RECEIVE_BLOCK as the kernel sees them (module       *)
(* RBlockSim has their detail): a generated block goes to every peer       *)
(* unless a selfish attacker conceals it, and the slot is re-armed; a      *)
(* received block is dropped, or relayed and, when the main chain moved,   *)
(* the slot re-armed.                                                      *)
HandleBlock(e, s) ==
    LET l == e.lp
        m == mining[l]
        Gossip(d) == {Event(p, e.t + d, "RECEIVE_BLOCK") : p \in LPs \ {l}}
    IN  IF e.type = "GENERATE_BLOCK"
        THEN {Effect(es, s2, total, m, inits[l]) :
                 es \in {Gossip(d) : d \in NetDelays} \cup (IF l \in Attackers THEN {{}} ELSE {}),
                 s2 \in Armed(m, s, e.t)}
        ELSE {Effect({}, s, total, m, inits[l])}
             \cup {Effect(Gossip(d), s2, total, m, inits[l]) :
                     d \in NetDelays, s2 \in Armed(m, s, e.t) \cup {s}}

(* ProcessEvent: every event but LP_FINI past termination_time is dropped *)
Handle(e, s) ==
    IF e.t > Term THEN {Effect({}, s, total, mining[e.lp], inits[e.lp])}
    ELSE CASE e.type = "LP_INIT"        -> HandleLPInit(e, s)
           [] e.type = "RBLOCKSIM_INIT" -> HandleRBInit(e, s)
           [] OTHER                     -> HandleBlock(e, s)

-----------------------------------------------------------------------------
Init ==
    /\ queue = EmptyBag /\ root = NoEvent
    /\ slot = [l \in LPs |-> NoSlot]
    /\ i = 0 /\ stopped = FALSE
    /\ total = 0
    /\ mining = [l \in LPs |-> Garbage]
    /\ inits = [l \in LPs |-> 0]

(* Apply the effect o of the handler of LP l, with the heap already holding *)
(* q and root r, then, when extract holds, let heap_extract remove the root.*)
Processed(l, o, q, r, extract) ==
    \E r2 \in InsertRoots(r, o.es) :
        LET q2 == q (+) SetToBag(o.es)
            q3 == IF extract THEN q2 (-) SetToBag({r2}) ELSE q2
        IN  /\ queue' = q3
            /\ root' \in IF extract THEN ExtractRoots(q3) ELSE {r2}
            /\ slot' = [slot EXCEPT ![l] = o.slot]
            /\ total' = o.total
            /\ mining' = [mining EXCEPT ![l] = o.mining]
            /\ inits' = [inits EXCEPT ![l] = o.inits]

(* mutant: the init loop does not free the extracted root *)
InitLPKeepMsg ==
    /\ i \in LPs
    /\ LET e == Event(i, 0, "LP_INIT")
       IN  \E r1 \in InsertRoots(root, {e}) :
           \E o \in Handle(e, slot[i]) :
               Processed(i, o, queue (+) SetToBag({e}), r1, FALSE)
    /\ i' = i + 1
    /\ UNCHANGED stopped

(* One iteration of serial_simulation_init's loop: insert LP_INIT for LP i *)
(* at time 0, process that message, re-arm the retractable, and free the   *)
(* heap's extracted root.                                                  *)
InitLP ==
    /\ i \in LPs
    /\ LET e == Event(i, 0, "LP_INIT")
       IN  \E r1 \in InsertRoots(root, {e}) :
           \E o \in Handle(e, slot[i]) :
               Processed(i, o, queue (+) SetToBag({e}), r1, TRUE)
    /\ i' = i + 1
    /\ UNCHANGED stopped

(* The retractable LPs retractable_is_before(t) finds: the earliest slot,  *)
(* when it is before t.                                                    *)
Retractable(t) ==
    {l \in LPs : /\ slot[l] # NoSlot /\ slot[l] < t
                 /\ \A k \in LPs : slot[k] # NoSlot => slot[l] <= slot[k]}

(* mutant: the loop breaks whenever the GVT timer expires *)
RunStepNoTermCheck ==
    /\ i \notin LPs /\ ~stopped /\ root # NoEvent
    /\ \E elapsed \in BOOLEAN :
       LET Finish(e, l, s) ==
               /\ \E o \in Handle(e, s) :
                     Processed(l, o, queue, root, ~elapsed /\ e = root)
               /\ stopped' = elapsed
       IN  \/ /\ Retractable(root.t) = {}
              /\ Finish(root, root.lp, slot[root.lp])
           \/ \E l \in Retractable(root.t) :
              Finish(Event(l, slot[l], "GENERATE_BLOCK"), l, NoSlot)
    /\ UNCHANGED i

(* One iteration of serial_simulation_run's loop while the heap is not     *)
(* empty: the root, or the retractable GENERATE_BLOCK before it (its slot  *)
(* emptied), is processed and the retractable re-armed; CanEnd never       *)
(* commits; when the GVT timer has expired (elapsed, a wall-clock fact) at *)
(* an event at or past termination the loop breaks before extracting;     *)
(* otherwise a non-retractable event is extracted from the heap.           *)
RunStep ==
    /\ i \notin LPs /\ ~stopped /\ root # NoEvent
    /\ \E elapsed \in BOOLEAN :
       LET Finish(e, l, s) ==
               /\ \E o \in Handle(e, s) :
                     Processed(l, o, queue, root, ~(elapsed /\ e.t >= Term) /\ e = root)
               /\ stopped' = (elapsed /\ e.t >= Term)
       IN  \/ /\ Retractable(root.t) = {}
              /\ Finish(root, root.lp, slot[root.lp])
           \/ \E l \in Retractable(root.t) :
              Finish(Event(l, slot[l], "GENERATE_BLOCK"), l, NoSlot)
    /\ UNCHANGED i

(* serial_simulation_run's loop ends when the heap is empty *)
Drained ==
    /\ i \notin LPs /\ ~stopped /\ root = NoEvent
    /\ stopped' = TRUE
    /\ UNCHANGED <<queue, root, slot, i, total, mining, inits>>

Next == InitLP \/ RunStep \/ Drained

(* The engine is one thread running its loop while it has an event to      *)
(* process: its steps are weakly fair.                                     *)
Spec == Init /\ [][Next]_vars /\ WF_vars(Next)

-----------------------------------------------------------------------------
(* spec.md 5, shared resource: every LP_INIT of an honest LP adds its hash *)
(* power once, and every RBLOCKSIM_INIT divides by the complete total:     *)
(* each LP has run LP_INIT at most once, and each honest portion's         *)
(* denominator is the sum of all honest hash powers.                       *)
InitBarrier ==
    \A l \in LPs :
        /\ inits[l] <= 1
        /\ (l \in Honest /\ "den" \in DOMAIN mining[l]) => mining[l].den = TotalHashPower

(* Every LP eventually runs RBLOCKSIM_INIT and holds its hash-power        *)
(* portion, whatever order the heap gives the events of time 0.           *)
AllPortionsSet == <>(\A l \in LPs : "den" \in DOMAIN mining[l])

(* spec.md 3/5: a retractable GENERATE_BLOCK fires at its time, and only   *)
(* events past termination_time are dropped: when the engine stops, no LP  *)
(* has a block generation pending at or before termination_time.           *)
NoGenerationLeft ==
    stopped => \A l \in LPs : slot[l] = NoSlot \/ slot[l] > Term
=============================================================================
