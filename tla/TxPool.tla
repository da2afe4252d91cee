------------------------------- MODULE TxPool -------------------------------
(***************************************************************************)
(* The transaction pool (client/core/txpool): admission of local and       *)
(* remote transactions, pending and queued lists, virtual nonces, size     *)
(* limits, the price threshold, eviction, the journal, and the background  *)
(* reorganisation runs that scheduleReorgLoop merges and launches.         *)
(*                                                                         *)
(* Every section of the code that holds pool.mu is one step; what the code *)
(* does before taking the lock, and the requests that travel to the loop,  *)
(* are steps of their own.                                                 *)
(*                                                                         *)
(* Abstractions.  Every transaction takes one slot, is a legacy one (no    *)
(* base fee: London is not scheduled on the R5 networks) and fits the gas  *)
(* limit of a block.  Heartbeats are not kept: the order truncateQueue     *)
(* takes the accounts in, and the moment an account grows old, are free.   *)
(* Of the priced list only what holds whatever the two heaps look like is  *)
(* used: Discard may return any remote transactions.                       *)
(***************************************************************************)
EXTENDS Integers, Sequences, FiniteSets, FiniteSetsExt, SequencesExt

CONSTANTS
    Addr,           \* accounts
    Tx,             \* transactions
    Sender, Nonce, Price, Cost,    \* of each transaction
    Block, Genesis, BlockParent,   \* the tree of blocks the chain may adopt
    BlockTxs,       \* the sequence of transactions of each block
    Balance,        \* Balance[b][a]: balance of a in the state of b
    None,
    GlobalSlots, GlobalQueue, AccountSlots, AccountQueue, PriceBump,   \* Config
    ReorgLimit,     \* difference in height past which reset reinjects nothing
    Prices,         \* thresholds SetGasPrice is called with, the first one included
    MaxHeads,       \* bound: chain head events
    MaxRewinds,     \* bound: rewinds of the chain
    MaxPriceSets,   \* bound: calls of SetGasPrice
    MaxCalls        \* bound: calls of addTxs

\* What pool.mu protects (see EmptyPool), and a run of runReorg: the heads of
\* its reset, the accounts to promote, the events to send.
Pools == [pending : SUBSET Tx, queue : SUBSET Tx, remotes : SUBSET Tx,
          locals : SUBSET Tx, accts : SUBSET Addr, nonces : [Addr -> Nat],
          state : Block, changes : Nat]
Resets == {None} \cup [old : Block, new : Block]
Runs  == [phase : {"run", "send", "panic"}, reset : Resets, dirty : SUBSET Addr, events : SUBSET Tx]

ASSUME PoolAssumption ==
    /\ None \notin Block /\ None \notin Pools /\ None \notin Runs
    /\ IsFiniteSet(Tx) /\ IsFiniteSet(Block) /\ Genesis \in Block
    /\ BlockParent \in [Block \ {Genesis} -> Block]
    /\ BlockTxs \in [Block -> Seq(Tx)] /\ BlockTxs[Genesis] = << >>
    /\ Balance \in [Block -> [Addr -> Nat]]
    /\ Sender \in [Tx -> Addr] /\ Nonce \in [Tx -> Nat]
    /\ Price \in [Tx -> Nat] /\ Cost \in [Tx -> Nat]
    /\ {GlobalSlots, GlobalQueue, AccountSlots, AccountQueue, PriceBump, ReorgLimit,
        MaxHeads, MaxRewinds, MaxPriceSets, MaxCalls} \subseteq Nat
    /\ Prices \subseteq Nat /\ Prices # {}

VARIABLES
    pool,       \* what pool.mu protects
    gasPrice,   \* the price threshold
    journal,    \* transactions in the journal file
    inflight,   \* calls of addTxs past their checks, before the lock
    requests,   \* dirty accounts of calls that have released the lock
    next,       \* the run scheduleReorgLoop is collecting
    cur,        \* the run of runReorg in progress
    head,       \* the head the main loop saw last
    missing,    \* blocks a rewind has removed from the chain database
    announced,  \* transactions sent on txFeed
    heads, rewinds, priceSets, calls

vars == <<pool, gasPrice, journal, inflight, requests, next, cur, head, missing,
          announced, heads, rewinds, priceSets, calls>>
\* The process is alive: no run has panicked.
Running == ~(cur # None /\ cur.phase = "panic")

boundVars == <<heads, rewinds, priceSets, calls>>
loopVars  == <<next, cur, head, missing, announced>>

-----------------------------------------------------------------------------
(* The chain *)

Lineage[b \in Block] == IF b = Genesis THEN {b} ELSE {b} \cup Lineage[BlockParent[b]]
BlockNumber == [b \in Block |-> Cardinality(Lineage[b]) - 1]
InBlocks(S) == {t \in Tx : \E b \in S : \E k \in DOMAIN BlockTxs[b] : BlockTxs[b][k] = t}

\* currentState.GetNonce
StateNonce == [b \in Block |->
    [a \in Addr |-> Cardinality({t \in InBlocks(Lineage[b]) : Sender[t] = a})]]

\* The blocks left, newest first (there is one such order), and the transactions
\* of the blocks gained: what reset discards and includes.
Discarded(old, new) ==
    LET left == {b \in Block : b \in Lineage[old] /\ b \notin Lineage[new]}
    IN {order \in SetToSeqs(left) :
          \A i, j \in DOMAIN order : i < j => BlockNumber[order[i]] > BlockNumber[order[j]]}
Included(old, new) == InBlocks(Lineage[new] \ Lineage[old])

-----------------------------------------------------------------------------
(* Lists *)

Of(S, a) == {t \in S : Sender[t] = a}
SameSlot(t, u) == Sender[t] = Sender[u] /\ Nonce[t] = Nonce[u]
Slot(S, t) == {u \in S : SameSlot(u, t)}
TotalCost(S) == MapThenSumSet(LAMBDA t : Cost[t], S)
Highest(S, k) == {t \in S : Cardinality({u \in S : Nonce[u] > Nonce[t]}) < k}

\* list.Add accepts t in place of old.
Outbids(t, old) ==
    Price[t] > Price[old] /\ Price[t] >= (Price[old] * (100 + PriceBump)) \div 100

\* sortedMap.Ready: the run of consecutive nonces at the front of the list,
\* when it starts at or below start.
Ready(S, start) ==
    {t \in S : /\ Min({Nonce[u] : u \in S}) <= start
               /\ \A n \in Min({Nonce[u] : u \in S})..Nonce[t] : \E u \in S : Nonce[u] = n}

-----------------------------------------------------------------------------
(* The pool.  remotes and locals are the two halves of the lookup, accts the *)
(* local accounts, state the block whose state is current.                   *)

EmptyPool(b) ==
    [pending |-> {}, queue |-> {}, remotes |-> {}, locals |-> {}, accts |-> {},
     nonces |-> StateNonce[b], state |-> b, changes |-> 0]

All(p) == p.remotes \cup p.locals
Forget(p, S) == [p EXCEPT !.remotes = @ \ S, !.locals = @ \ S]

\* enqueueTx without addAll, for transactions of distinct nonces: one that meets
\* a better queued transaction stays in the lookup but in no list.
Shuffle(p, S) ==
    LET moved == {t \in S : \A u \in Slot(p.queue, t) : Outbids(t, u)}
        olds  == {u \in p.queue : \E t \in moved : SameSlot(t, u)}
    IN [Forget(p, olds) EXCEPT !.queue = (@ \ olds) \cup moved]

\* removeTx: the lists are searched by nonce, pending first; what was pending
\* behind the removed transaction goes back to the queue.
RemoveTx(p, t) ==
    IF t \notin All(p) THEN p
    ELSE LET q       == Forget(p, {t})
             behind  == {u \in Of(p.pending, Sender[t]) : Nonce[u] > Nonce[t]}
         IN IF Slot(p.pending, t) # {}
            THEN LET r == Shuffle([q EXCEPT !.pending = @ \ (Slot(@, t) \cup behind)], behind)
                 IN [r EXCEPT !.nonces[Sender[t]] = Min({@, Nonce[t]})]
            ELSE [q EXCEPT !.queue = @ \ Slot(@, t)]

RemoveAll(p, S) == FoldSet(LAMBDA t, q : RemoveTx(q, t), p, S)

\* removeTx as add uses it, counting what left the pending list.
KickOut(p, S) ==
    FoldSet(LAMBDA t, q :
              LET r == RemoveTx(q, t)
              IN [r EXCEPT !.changes = @ + Cardinality(q.pending \ r.pending)], p, S)

-----------------------------------------------------------------------------
(* Admission *)

\* validateTxBasics, run without the lock; isLocal is the caller's flag.
ValidateTxBasics(t, isLocal) == isLocal \/ Price[t] >= gasPrice

ValidateTx(p, t) ==
    LET a    == Sender[t]
        list == Of(p.pending, a)
        sum  == TotalCost((list \ Slot(list, t)) \cup {t})
    IN /\ StateNonce[p.state][a] <= Nonce[t]
       /\ Balance[p.state][a] >= Cost[t]
       /\ list = {} \/ Balance[p.state][a] >= sum

IsGapped(p, t) ==
    LET start == p.nonces[Sender[t]]
        queued == Of(p.queue, Sender[t])
    IN /\ Nonce[t] # start
       /\ \/ queued = {}
          \/ \E n \in start..(Nonce[t] - 1) : \A u \in queued : Nonce[u] # n

Underpriced(p, t) == p.remotes # {} /\ \A u \in p.remotes : Price[u] >= Price[t]

Outcome(p, ok, dirty, event) == [pool |-> p, ok |-> ok, dirty |-> dirty, event |-> event]
Refused(p) == Outcome(p, FALSE, FALSE, FALSE)

\* A full pool: what room can be made for t.  None stands for a refusal; the
\* priced list picks the transactions to drop among the remote ones, all of
\* them if a local transaction needs more than there are.
MakeRoom(p, t, isLocal) ==
    LET excess == Cardinality(All(p)) + 1 - (GlobalSlots + GlobalQueue)
        size   == IF isLocal THEN Min({excess, Cardinality(p.remotes)}) ELSE excess
        drops  == {S \in SUBSET p.remotes : Cardinality(S) = size}
        churns(D) == ~isLocal /\ IsGapped(p, t) /\ \E u \in D : Slot(p.pending, u) # {}
    IN IF excess <= 0 THEN {p}
       ELSE IF \/ ~isLocal /\ Underpriced(p, t)
               \/ p.changes > GlobalSlots \div 4
               \/ drops = {}
            THEN {None}
       ELSE {IF churns(D) THEN None ELSE KickOut(p, D) : D \in drops}

\* The last part of add: replace a pending transaction, or enter the queue and
\* mark the sender of a local transaction.
Insert(p, t, local, isLocal) ==
    LET a   == Sender[t]
        old == Slot(p.pending, t) \cup Slot(p.queue, t)
        q   == Forget(p, old)
        r   == IF isLocal THEN [q EXCEPT !.locals = @ \cup {t}] ELSE [q EXCEPT !.remotes = @ \cup {t}]
    IN IF \E u \in IF Slot(p.pending, t) # {} THEN Slot(p.pending, t) ELSE Slot(p.queue, t) :
             ~Outbids(t, u)
       THEN Refused(p)
       ELSE IF Slot(p.pending, t) # {}
       THEN Outcome([r EXCEPT !.pending = (@ \ old) \cup {t}], TRUE, FALSE, TRUE)
       ELSE LET s == [r EXCEPT !.queue = (@ \ old) \cup {t}]
            IN Outcome(IF local /\ a \notin s.accts
                       THEN [s EXCEPT !.accts = @ \cup {a},
                                      !.remotes = @ \ Of(@, a), !.locals = @ \cup Of(s.remotes, a)]
                       ELSE s,
                       TRUE, old = {}, FALSE)

\* add: the outcomes it can have.
Add(p, t, local) ==
    LET isLocal == local \/ Sender[t] \in p.accts IN
    IF t \in All(p) \/ ~ValidateTx(p, t) THEN {Refused(p)}
    ELSE {IF q = None THEN Refused(p) ELSE Insert(q, t, local, isLocal) :
            q \in MakeRoom(p, t, isLocal)}

\* addTxsLocked on the reinjected transactions, those of the blocks that are not
\* in kept: the pools that can result, each with the transactions announced and
\* journaled on the way.
AddReinjectedTx(results, t) ==
    UNION {{[pool   |-> o.pool,
             events |-> IF o.event THEN r.events \cup {t} ELSE r.events,
             logged |-> IF o.ok /\ Sender[t] \in o.pool.accts
                        THEN r.logged \cup {t} ELSE r.logged]
             : o \in Add(r.pool, t, FALSE)} : r \in results}
AddReinjectedBlock(results, b, kept) ==
    FoldLeft(LAMBDA acc, t : IF t \in kept THEN acc ELSE AddReinjectedTx(acc, t),
             results, BlockTxs[b])
AddReinjected(p, blocks, kept) ==
    FoldLeft(LAMBDA acc, b : AddReinjectedBlock(acc, b, kept),
             {[pool |-> p, events |-> {}, logged |-> {}]}, blocks)

-----------------------------------------------------------------------------
(* The parts of runReorg *)

\* reset looks at the blocks between the heads: the new one does not just
\* extend the old one, and they are not too far apart.
LooksBack(old, new) ==
    /\ ~(new # Genesis /\ BlockParent[new] = old)
    /\ BlockNumber[old] - BlockNumber[new] <= ReorgLimit
    /\ BlockNumber[new] - BlockNumber[old] <= ReorgLimit

\* It then uses the new block without checking that the chain still has it.
NewHeadLost(old, new) == LooksBack(old, new) /\ old \notin missing /\ new \in missing

\* reset, from head old to head new.
Reset(p, old, new) ==
    LET moved == [p EXCEPT !.state = new, !.nonces = StateNonce[new]]
        result(q) == {[pool |-> q, events |-> {}, logged |-> {}]}
    IN IF ~LooksBack(old, new) THEN result(moved)
       ELSE IF old \in missing
       THEN IF BlockNumber[new] >= BlockNumber[old] THEN result(p) ELSE result(moved)
       ELSE UNION {AddReinjected(moved, blocks, Included(old, new)) :
                     blocks \in Discarded(old, new)}

\* The transactions promoteTx moves to pending for account a, and those of the
\* queue of a that promoteExecutables removes from the pool.
Payable(p, a) == {t \in Of(p.queue, a) : /\ Nonce[t] >= StateNonce[p.state][a]
                                         /\ Cost[t] <= Balance[p.state][a]}
Promotable(p, a) ==
    IF Payable(p, a) = {} THEN {} ELSE Ready(Payable(p, a), p.nonces[a])
Promoted(p, a) == {t \in Promotable(p, a) : \A u \in Slot(p.pending, t) : Outbids(t, u)}

\* promoteExecutables
PromoteExecutables(p, accts) ==
    LET won  == UNION {Promoted(p, a) : a \in accts}
        olds == {u \in p.pending : \E t \in won : SameSlot(t, u)}
        over(S) == Highest(S, Cardinality(S) - AccountQueue)
        keep(a) == LET S == Payable(p, a) \ Promotable(p, a)
                   IN IF a \in p.accts THEN S ELSE S \ over(S)
        rest == UNION {IF a \notin accts THEN Of(p.queue, a) ELSE keep(a) : a \in Addr}
    IN [Forget(p, (p.queue \ (rest \cup won)) \cup olds) EXCEPT
           !.pending = (@ \ olds) \cup won,
           !.queue   = rest,
           !.nonces  = [a \in Addr |-> IF a \in accts /\ Promoted(p, a) # {}
                                       THEN Max({Nonce[t] : t \in Promoted(p, a)}) + 1
                                       ELSE p.nonces[a]]]

\* Mutant: mined transactions leave the list but not the lookup.
DemoteKeepsMined(p) ==
    [p EXCEPT !.pending = {t \in @ : Nonce[t] >= StateNonce[p.state][Sender[t]]}]

\* demoteUnexecutables
DemoteUnexecutables(p) ==
    LET olds    == {t \in p.pending : Nonce[t] < StateNonce[p.state][Sender[t]]}
        drops   == {t \in p.pending \ olds : Cost[t] > Balance[p.state][Sender[t]]}
        left    == p.pending \ (olds \cup drops)
        invalid == {t \in left : \E d \in drops : Sender[d] = Sender[t] /\ Nonce[d] < Nonce[t]}
        gapped  == {t \in left \ invalid :
                      \A u \in Of(left \ invalid, Sender[t]) : Nonce[u] # StateNonce[p.state][Sender[t]]}
    IN Shuffle([Forget(p, olds \cup drops) EXCEPT !.pending = left \ (invalid \cup gapped)],
               invalid \cup gapped)

\* Mutant: the nonces are left at what the new state says.
KeepStateNonces(p) == p

\* pendingNonces.setAll after a reset.
SetAllNonces(p) ==
    [p EXCEPT !.nonces = [a \in Addr |->
        IF Of(p.pending, a) = {} THEN StateNonce[p.state][a]
        ELSE Max({Nonce[t] : t \in Of(p.pending, a)}) + 1]]

\* Mutant: local accounts are cut as well.
TruncateEveryone(p) ==
    LET cut(a) == Highest(Of(p.pending, a), Cardinality(Of(p.pending, a)) - AccountSlots)
    IN IF Cardinality(p.pending) <= GlobalSlots THEN p
       ELSE [Forget(p, UNION {cut(a) : a \in Addr}) EXCEPT
               !.pending = @ \ UNION {cut(a) : a \in Addr},
               !.nonces = [a \in Addr |-> Min({p.nonces[a]} \cup {Nonce[t] : t \in cut(a)})]]

\* truncatePending: round by round, the accounts with the longest lists lose
\* their last transaction, until the total fits or AccountSlots is reached.  The
\* result is the highest common level that fits.
TruncatePending(p) ==
    LET size(a)  == Cardinality(Of(p.pending, a))
        spammers == {a \in Addr \ p.accts : size(a) > AccountSlots}
        total(m) == Cardinality(p.pending)
                      - MapThenSumSet(LAMBDA a : Max({0, size(a) - m}), spammers)
        fits     == {m \in AccountSlots..Cardinality(p.pending) : total(m) <= GlobalSlots}
        level    == IF fits = {} THEN AccountSlots ELSE Max(fits)
        cut(a)   == IF a \in spammers THEN Highest(Of(p.pending, a), size(a) - level) ELSE {}
        gone     == UNION {cut(a) : a \in Addr}
    IN IF Cardinality(p.pending) <= GlobalSlots THEN p
       ELSE [Forget(p, gone) EXCEPT
               !.pending = @ \ gone,
               !.nonces  = [a \in Addr |-> Min({p.nonces[a]} \cup {Nonce[t] : t \in cut(a)})]]

\* Mutant: the queue is left over its limit.
TruncateNothing(p) == {p}

\* truncateQueue: remote accounts lose their queued transactions, one account
\* after the other in the order of their heartbeats, until the total fits.
TruncateQueue(p) ==
    LET accts  == {a \in Addr \ p.accts : Of(p.queue, a) # {}}
        excess == Cardinality(p.queue) - GlobalQueue
        taken(order, k) == MapThenSumSet(LAMBDA j : Cardinality(Of(p.queue, order[j])), 1..(k - 1))
        lost(order) == UNION {Highest(Of(p.queue, order[k]), excess - taken(order, k)) :
                                k \in {j \in 1..Len(order) : taken(order, j) < excess}}
    IN IF excess <= 0 THEN {p}
       ELSE {RemoveAll(p, lost(order)) : order \in SetToSeqs(accts)}

-----------------------------------------------------------------------------
(* Calls into the pool *)

\* addTxs before the lock: known transactions and those that fail the basic
\* checks are filtered out.
CheckTx(t, local) ==
    /\ Running /\ calls < MaxCalls
    /\ t \notin All(pool) /\ ValidateTxBasics(t, local)
    /\ inflight' = inflight \cup {[tx |-> t, local |-> local]}
    /\ calls' = calls + 1
    /\ UNCHANGED <<pool, gasPrice, journal, requests, loopVars, heads, rewinds, priceSets>>

\* An event replaces an earlier one of the same account and nonce.
PutEvents(S, T) == {u \in S : Slot(T, u) = {}} \cup T

\* addTxsLocked; the dirty account is then offered to scheduleReorgLoop.
AddTx(c) ==
    /\ Running /\ c \in inflight
    /\ \E o \in Add(pool, c.tx, c.local) :
          /\ pool' = o.pool
          /\ journal' = IF o.ok /\ Sender[c.tx] \in o.pool.accts
                        THEN journal \cup {c.tx} ELSE journal
          /\ requests' = requests \cup {IF o.dirty THEN {Sender[c.tx]} ELSE {}}
          /\ next' = IF o.event THEN [next EXCEPT !.events = PutEvents(@, {c.tx})] ELSE next
    /\ inflight' = inflight \ {c}
    /\ UNCHANGED <<gasPrice, cur, head, missing, announced, boundVars>>

\* SetGasPrice: a higher threshold drops the remote transactions below it.
SetGasPrice(price) ==
    /\ Running /\ priceSets < MaxPriceSets /\ price # gasPrice
    /\ gasPrice' = price /\ priceSets' = priceSets + 1
    /\ pool' = IF price > gasPrice
               THEN RemoveAll(pool, {t \in pool.remotes : Price[t] < price}) ELSE pool
    /\ UNCHANGED <<journal, inflight, requests, loopVars, heads, rewinds, calls>>

-----------------------------------------------------------------------------
(* The main loop *)

\* A chain head event becomes a reset request, merged with one still waiting.
RequestReset(b) ==
    /\ Running
    /\ head' = b
    /\ next' = [next EXCEPT !.launch = TRUE,
                  !.reset = IF @ = None THEN [old |-> head, new |-> b] ELSE [@ EXCEPT !.new = b]]
    /\ UNCHANGED <<pool, gasPrice, journal, inflight, requests, cur, announced, priceSets, calls>>

\* The chain has adopted b, a new block or the head of another branch.
NewHead(b) ==
    /\ heads < MaxHeads /\ b \notin Lineage[head]
    /\ missing' = missing \ Lineage[b] /\ heads' = heads + 1 /\ UNCHANGED rewinds
    /\ RequestReset(b)

\* The chain was rewound to b: everything above it is deleted.
RewindTo(b) ==
    /\ rewinds < MaxRewinds /\ b \in Lineage[head] \ {head}
    /\ missing' = missing \cup {c \in Block : BlockNumber[c] > BlockNumber[b]}
    /\ rewinds' = rewinds + 1 /\ UNCHANGED heads
    /\ RequestReset(b)

\* The eviction ticker finds the queue of a remote account too old.
Evict(a) ==
    /\ Running /\ a \notin pool.accts /\ Of(pool.queue, a) # {}
    /\ pool' = RemoveAll(pool, Of(pool.queue, a))
    /\ UNCHANGED <<gasPrice, journal, inflight, requests, loopVars, boundVars>>

\* The journal ticker rewrites the file with what the local accounts have.
RotateJournal ==
    /\ Running
    /\ journal' = {t \in pool.pending \cup pool.queue : Sender[t] \in pool.accts}
    /\ journal' # journal
    /\ UNCHANGED <<pool, gasPrice, inflight, requests, loopVars, boundVars>>

-----------------------------------------------------------------------------
(* scheduleReorgLoop and runReorg *)

EmptyRun == [launch |-> FALSE, reset |-> None, dirty |-> {}, events |-> {}]

\* Mutant: a second request replaces the first.
ReceivePromoteOverwrites(dirty) ==
    /\ Running /\ dirty \in requests
    /\ requests' = requests \ {dirty}
    /\ next' = [next EXCEPT !.launch = TRUE, !.dirty = dirty]
    /\ UNCHANGED <<pool, gasPrice, journal, inflight, cur, head, missing, announced, boundVars>>

\* The loop receives a promotion request and merges it into the next run.
ReceivePromote(dirty) ==
    /\ Running /\ dirty \in requests
    /\ requests' = requests \ {dirty}
    /\ next' = [next EXCEPT !.launch = TRUE, !.dirty = @ \cup dirty]
    /\ UNCHANGED <<pool, gasPrice, journal, inflight, cur, head, missing, announced, boundVars>>

\* Mutant: the events collected so far are not handed to the run.
LaunchReorgSilently ==
    /\ cur = None /\ next.launch
    /\ cur' = [phase |-> "run", reset |-> next.reset, dirty |-> next.dirty, events |-> {}]
    /\ next' = EmptyRun
    /\ UNCHANGED <<pool, gasPrice, journal, inflight, requests, head, missing, announced, boundVars>>

\* One run at a time is in progress.
LaunchReorg ==
    /\ cur = None /\ next.launch
    /\ cur' = [phase |-> "run", reset |-> next.reset, dirty |-> next.dirty, events |-> next.events]
    /\ next' = EmptyRun
    /\ UNCHANGED <<pool, gasPrice, journal, inflight, requests, head, missing, announced, boundVars>>

\* The part of runReorg that holds the lock.
RunReorg ==
    /\ cur # None /\ cur.phase = "run"
    /\ ~(cur.reset # None /\ NewHeadLost(cur.reset.old, cur.reset.new))
    /\ LET resetting == cur.reset # None
           starts == IF resetting THEN Reset(pool, cur.reset.old, cur.reset.new)
                     ELSE {[pool |-> pool, events |-> {}, logged |-> {}]}
       IN \E r \in starts :
            LET accts == IF resetting THEN {a \in Addr : Of(r.pool.queue, a) # {}} ELSE cur.dirty
                fresh == IF resetting
                         THEN {t \in cur.events : Nonce[t] >= r.pool.nonces[Sender[t]]} ELSE cur.events
                new   == UNION {Promoted(r.pool, a) : a \in accts}
                p     == PromoteExecutables(r.pool, accts)
                q     == IF resetting THEN SetAllNonces(DemoteUnexecutables(p)) ELSE p
            IN /\ \E z \in TruncateQueue(TruncatePending(q)) : pool' = [z EXCEPT !.changes = 0]
               /\ cur' = [cur EXCEPT !.phase = "send", !.events = PutEvents(fresh, new)]
               /\ next' = [next EXCEPT !.events = PutEvents(@, r.events)]
               /\ journal' = journal \cup r.logged
    /\ UNCHANGED <<gasPrice, inflight, requests, head, missing, announced, boundVars>>

\* The run dereferences a nil block and takes the process with it.
ResetPanics ==
    /\ cur # None /\ cur.phase = "run" /\ cur.reset # None
    /\ NewHeadLost(cur.reset.old, cur.reset.new)
    /\ cur' = [cur EXCEPT !.phase = "panic"]
    /\ UNCHANGED <<pool, gasPrice, journal, inflight, requests, next, head, missing,
                   announced, boundVars>>

\* Without the lock, the new transactions are announced and the run is over.
FinishReorg ==
    /\ cur # None /\ cur.phase = "send"
    /\ announced' = announced \cup cur.events
    /\ cur' = None
    /\ UNCHANGED <<pool, gasPrice, journal, inflight, requests, next, head, missing, boundVars>>

-----------------------------------------------------------------------------
Init ==
    /\ pool = EmptyPool(Genesis) /\ gasPrice = Min(Prices)
    /\ journal = {} /\ inflight = {} /\ requests = {}
    /\ next = EmptyRun /\ cur = None /\ head = Genesis /\ missing = {}
    /\ announced = {} /\ heads = 0 /\ rewinds = 0 /\ priceSets = 0 /\ calls = 0

LoopStep ==
    \/ \E d \in requests : ReceivePromote(d)
    \/ LaunchReorg \/ RunReorg \/ ResetPanics \/ FinishReorg

Next ==
    \/ \E t \in Tx, local \in BOOLEAN : CheckTx(t, local)
    \/ \E c \in inflight : AddTx(c)
    \/ \E price \in Prices : SetGasPrice(price)
    \/ \E b \in Block : NewHead(b)
    \/ \E b \in Block : RewindTo(b)
    \/ \E a \in Addr : Evict(a)
    \/ RotateJournal
    \/ LoopStep

Spec == Init /\ [][Next]_vars

\* scheduleReorgLoop keeps receiving and launching, and every run it launches
\* comes to its end: the lock is only held for finite work, and the subscribers
\* of txFeed keep receiving.  Behaviours in which a run panics are left out.
FairSpec ==
    /\ Spec
    /\ WF_vars(\E d \in requests : ReceivePromote(d))
    /\ WF_vars(LaunchReorg)
    /\ []<>(cur = None)

-----------------------------------------------------------------------------
(* Properties *)

\* The pool's fields hold what they are declared to hold.
TypeOK ==
    /\ pool \in Pools /\ cur \in Runs \cup {None}
    /\ next \in [launch : BOOLEAN, reset : Resets, dirty : SUBSET Addr, events : SUBSET Tx]
    /\ gasPrice \in Prices /\ journal \subseteq Tx /\ announced \subseteq Tx
    /\ inflight \subseteq [tx : Tx, local : BOOLEAN] /\ requests \subseteq SUBSET Addr
    /\ head \in Block /\ missing \subseteq Block

\* The lookup holds exactly the pending and the queued transactions, once each,
\* and no two of them compete for the same nonce: removeTx searches the lists by
\* nonce and would otherwise take out the wrong transaction, and a demoted one
\* would be lost in the lookup (validatePoolInternals of the tests).
LookupMatchesLists ==
    /\ pool.pending \cup pool.queue = All(pool)
    /\ pool.pending \cap pool.queue = {} /\ pool.remotes \cap pool.locals = {}
    /\ \A t, u \in All(pool) : SameSlot(t, u) => t = u

\* Pending transactions are processable: those of an account follow one another
\* from the nonce of the state, and the virtual nonce is the next one.
PendingIsProcessable ==
    cur = None /\ next.reset = None =>
        \A a \in Addr :
            LET n == StateNonce[pool.state][a]
                k == Cardinality(Of(pool.pending, a))
            IN /\ {Nonce[t] : t \in Of(pool.pending, a)} = n..(n + k - 1)
               /\ pool.nonces[a] = n + k

\* A transaction of a local account is never dropped for its price or for lack
\* of room: it leaves only when the chain has passed its nonce, when the account
\* cannot pay for it, or when another one of the same nonce replaces it.
LocalsAreKept ==
    [][\A t \in All(pool) \ All(pool') :
          \/ Sender[t] \notin pool.accts
          \/ Nonce[t] < StateNonce[pool'.state][Sender[t]]
          \/ Cost[t] > Balance[pool'.state][Sender[t]]
          \/ \E u \in All(pool') : SameSlot(t, u)]_vars

WithinLimits(p) ==
    /\ Cardinality({t \in p.queue : Sender[t] \notin p.accts}) <= GlobalQueue
    /\ \/ Cardinality(p.pending) <= GlobalSlots
       \/ \A a \in Addr \ p.accts : Cardinality(Of(p.pending, a)) <= AccountSlots

\* A run that does not panic leaves the pool within its limits: the queue of
\* remote accounts within GlobalQueue, and pending within GlobalSlots unless only
\* local accounts and accounts within their guaranteed slots are left.
LimitsRestored ==
    [][cur # None /\ cur.phase = "run" /\ cur' # cur /\ Running' => WithinLimits(pool')]_vars

\* When no run is in progress, every pending transaction has been announced to
\* the network and the miner, or is in the set the next run will announce.  A
\* chain that was rewound is left out: the reset that then returns early (see
\* PoolFollowsHead) drops the run's events by the nonces of the old state.
PendingIsAnnounced ==
    rewinds = 0 /\ cur = None =>
        pool.pending \subseteq announced \cup next.events

\* A queued transaction that the state of the head would execute next does not
\* stay in the queue: some run promotes it, or it leaves the pool, however
\* promotion requests and resets were merged.
NextOnStateIsPromoted ==
    \A t \in Tx :
        (t \in pool.queue /\ Nonce[t] = StateNonce[pool.state][Sender[t]]) ~>
            ~(t \in pool.queue /\ Nonce[t] = StateNonce[pool.state][Sender[t]])

\* The queue holds "queued but non-processable transactions": one that follows
\* the last pending transaction of its account does not stay there.
ProcessableIsPromoted ==
    \A t \in Tx :
        (t \in pool.queue /\ Nonce[t] = pool.nonces[Sender[t]]) ~>
            ~(t \in pool.queue /\ Nonce[t] = pool.nonces[Sender[t]])

\* "Unrooted new chain seen by tx pool": a reset whose new blocks have left the
\* chain by the time it runs reports that and returns.
ResetSurvivesRewind == Running

\* SetGasPrice "drops all transactions below this threshold": no remote
\* transaction of the pool is below it.
ThresholdHolds == \A t \in pool.remotes : Price[t] >= gasPrice

\* "If a newly added transaction is marked as local, its sending account will be
\* added to the allowlist": a call with the local flag that succeeds leaves its
\* account local.
LocalCallMarksAccount ==
    [][\A c \in inflight \ inflight' :
          c.local /\ c.tx \in All(pool') \ All(pool) => Sender[c.tx] \in pool'.accts]_vars

\* "We still need to update the current state": once the loop is at rest, the
\* pool works on the state of the chain head.
PoolFollowsHead == cur = None /\ ~next.launch => pool.state = head

=============================================================================
