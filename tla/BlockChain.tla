----------------------------- MODULE BlockChain -----------------------------
(***************************************************************************)
(* The block chain of a full node (client/core/blockchain.go): import of   *)
(* chain segments, fork choice, reorganisation, side chains on pruned      *)
(* state, rewinding, garbage collection of state tries, the queue of       *)
(* future blocks, and recovery after a clean stop or a crash.              *)
(*                                                                         *)
(* All writers hold chainmu, so at most one operation, op, is in progress. *)
(* Each database batch the code writes is one step of it, the in-memory    *)
(* head markers another: a crash, or a look by a concurrent reader, can    *)
(* fall between any two.                                                   *)
(*                                                                         *)
(* Abstractions.  A block stands for its hash, header, body, receipts and  *)
(* total difficulty, which the code writes in one batch; every block has   *)
(* a state root of its own.  Snapshots, the ancient store and snap sync    *)
(* are off, and the terminal total difficulty is unset, as in              *)
(* MainnetChainConfig.                                                     *)
(***************************************************************************)
EXTENDS Integers, Sequences, FiniteSets, Functions

CONSTANTS
    Block,          \* every block that can exist, a tree rooted at Genesis
    Genesis,
    None,           \* no block (a nil pointer, a missing database entry)
    Parent,         \* parent of each block but Genesis
    Number,         \* height of each block
    TD,             \* total difficulty of each block
    Time,           \* timestamp of each block
    Tx,             \* transactions
    Txs,            \* the transactions of each block
    BadHeader,      \* blocks that fail header or body validation
    BadState,       \* blocks that fail execution or state validation
    TriesInMemory,  \* number of recent states kept in memory
    AllowedFuture,  \* allowedFutureBlockTimeSeconds
    MaxTimeFuture,  \* maxTimeFutureBlocks
    MaxChain,       \* bound: blocks in one imported segment
    MaxCrashes,     \* bound: crashes
    MaxStops,       \* bound: clean shutdowns
    MaxRewinds,     \* bound: calls of SetHead
    MaxClock        \* bound: the wall clock

\* The blocks, finitely many as their hashes are, form a tree in which number,
\* difficulty and time grow; the genesis block holds no transactions.
ASSUME TreeAssumption ==
    /\ IsFiniteSet(Block) /\ Genesis \in Block /\ None \notin Block
    /\ Parent \in [Block \ {Genesis} -> Block]
    /\ Number \in [Block -> Nat] /\ TD \in [Block -> Nat] /\ Time \in [Block -> Nat]
    /\ Number[Genesis] = 0 /\ Time[Genesis] = 0
    /\ \A b \in Block \ {Genesis} :
          /\ Number[b] = Number[Parent[b]] + 1
          /\ TD[b] > TD[Parent[b]]
          /\ Time[b] > Time[Parent[b]]
    /\ Txs \in [Block -> SUBSET Tx] /\ Txs[Genesis] = {}
    /\ BadHeader \subseteq Block \ {Genesis} /\ BadState \subseteq Block \ {Genesis}

ASSUME BoundAssumption ==
    /\ TriesInMemory \in Nat \ {0}
    /\ {AllowedFuture, MaxTimeFuture, MaxChain, MaxCrashes, MaxStops, MaxRewinds,
        MaxClock} \subseteq Nat

VARIABLES
    \* the database
    stored,     \* blocks with header, body and td
    canon,      \* number -> canonical hash
    txIndex,    \* transaction -> number of the block it is looked up in
    db,         \* persisted markers: LastBlock, LastHeader, LastFast
    disk,       \* blocks whose state is on disk
    \* memory
    mem,        \* currentBlock, currentHeader, currentSnapBlock
    triegc,     \* blocks whose state is in memory, awaiting garbage collection
    future,     \* futureBlocks
    procQueue,  \* what the running procFutureBlocks still has to insert
    op,         \* the operation that holds chainmu
    up,         \* whether the chain is running
    interrupt,  \* procInterrupt
    \* environment
    clock, crashes, stops, rewinds

dbVars  == <<stored, canon, txIndex, db, disk>>
envVars == <<clock, crashes, stops, rewinds>>
vars == <<stored, canon, txIndex, db, disk, mem, triegc, future, procQueue, op,
          up, interrupt, clock, crashes, stops, rewinds>>

-----------------------------------------------------------------------------
(* The block tree *)

Numbers == {Number[b] : b \in Block}

ParentClosed(S) == \A b \in S \ {Genesis} : Parent[b] \in S

\* The chain of each block down to Genesis: the least set that holds the block
\* and the parent of every block in it.
Ancestors ==
    [b \in Block |-> {a \in Block :
        \A S \in SUBSET Block : b \in S /\ ParentClosed(S) => a \in S}]

\* The block of b's own chain at height n.
AncestorAt(b, n) == CHOOSE a \in Ancestors[b] : Number[a] = n

\* Highest block that both chains share.
CommonBlock(a, b) ==
    CHOOSE c \in Ancestors[a] \cap Ancestors[b] :
        \A d \in Ancestors[a] \cap Ancestors[b] : Number[d] <= Number[c]

\* The blocks above the common one, lowest first.
Branch(from, b) ==
    LET base == Number[CommonBlock(from, b)]
    IN [k \in 1..(Number[b] - base) |-> AncestorAt(b, base + k)]

\* Contiguous segments, the only ones that pass the sanity check of InsertChain.
Segments ==
    UNION {{s \in [1..k -> Block \ {Genesis}] :
              \A j \in 2..k : Parent[s[j]] = s[j - 1]} : k \in 1..MaxChain}

-----------------------------------------------------------------------------
(* Reads *)

HasState(b) == b \in disk \cup triegc
HasBlockAndState(b) == b \in stored /\ HasState(b)

\* Mutant: the longest chain wins, not the heaviest.
ReorgToLonger(current, extern) == {Number[extern] > Number[current]}

\* ForkChoice.ReorgNeeded.  A block at the height of the head is never chosen,
\* so the coin toss between equal heights at its end cannot be reached.
ReorgNeeded(current, extern) ==
    IF Number[current] = Number[extern] THEN {FALSE}
    ELSE IF TD[extern] # TD[current] THEN {TD[extern] > TD[current]}
    ELSE {Number[extern] < Number[current]}

\* The result of verifyHeaderWorker for the k-th block of a segment: only the
\* first block needs a parent in the database, the others follow each other.
HeaderVerdict(chain, k) ==
    IF k = 1 /\ Parent[chain[k]] \notin stored THEN "unknown"
    ELSE IF Time[chain[k]] > op.now + AllowedFuture THEN "future"
    ELSE "ok"

\* The error insertIterator.next reports: that of the header, then that of
\* ValidateBody.
Verdict(chain, k) ==
    LET b == chain[k] IN
    IF HeaderVerdict(chain, k) # "ok" THEN HeaderVerdict(chain, k)
    ELSE IF HasBlockAndState(b) THEN "known"
    ELSE IF b \in BadHeader THEN "invalid"
    ELSE IF Parent[b] \notin stored THEN "unknown"
    ELSE IF ~HasState(Parent[b]) THEN "pruned"
    ELSE "ok"

-----------------------------------------------------------------------------
(* Shapes of the operation in progress *)

Idle == [pc |-> "idle"]

\* A new run of insertChain; start is the head when the lock was taken, or the
\* known block the main loop has met since, now the time against which
\* VerifyHeaders checks the whole segment.
InsertOp(chain, start) ==
    [pc |-> "first", chain |-> chain, i |-> 1, start |-> start, now |-> clock, tgt |-> None,
     old |-> None, todo |-> << >>, ret |-> "exec", dirty |-> None]

\* Mutant: the iterator is not advanced.
ContinueSameBlock(o) ==
    CASE o.ret = "done"  -> Idle
      [] o.ret = "known" -> [o EXCEPT !.pc = "known"]
      [] OTHER           -> [o EXCEPT !.pc = "exec", !.ret = "exec"]

\* The step after block i has been dealt with: the next block, or the end.
Continue(o) ==
    CASE o.ret = "done"  -> Idle
      [] o.ret = "known" -> [o EXCEPT !.pc = "known", !.i = @ + 1]
      [] OTHER           -> [o EXCEPT !.pc = "exec", !.i = @ + 1, !.ret = "exec"]

\* Mutant: the new head is written without reorganising the chain below it.
SetHeadWithoutReorg(o, b) == [o EXCEPT !.pc = "head", !.tgt = b]

\* Make b the head, reorganising first unless b extends the current head.  The
\* blocks of the new branch below b are written as heads one after the other.
StartSetHead(o, b) ==
    IF Parent[b] = mem.block
    THEN [o EXCEPT !.pc = "head", !.tgt = b]
    ELSE LET path == Branch(mem.block, b) IN
         [o EXCEPT !.pc = "reorg", !.tgt = b, !.old = mem.block,
                   !.todo = SubSeq(path, 1, Len(path) - 1)]

-----------------------------------------------------------------------------
(* insertChain *)

Importing(pcs) == op.pc \in pcs /\ op.i <= Len(op.chain)
NextVerdict == Verdict(op.chain, op.i)
OnlyOp == UNCHANGED <<dbVars, mem, triegc, future, procQueue, up, interrupt, envVars>>

\* InsertChain after its sanity check; nothing is imported while terminating.
InsertChain(chain) ==
    /\ up /\ ~interrupt /\ op = Idle
    /\ op' = InsertOp(chain, mem.block)
    /\ OnlyOp

\* Left trim: a known block is skipped, unless the fork choice wants it and it
\* is not already on the canonical chain.
TrimKnown ==
    /\ Importing({"first"}) /\ NextVerdict = "known"
    /\ LET b == op.chain[op.i] IN
       \E reorg \in ReorgNeeded(mem.block, b) :
          op' = IF reorg /\ (Number[b] > Number[mem.block] \/ canon[Number[b]] # b)
                THEN [op EXCEPT !.pc = "known"]
                ELSE [op EXCEPT !.i = @ + 1]
    /\ OnlyOp

\* writeKnownBlock: for the known block the fork choice wanted and the known
\* ones after it, and for a known block met in the middle of the main loop.
WriteKnown ==
    /\ Importing({"known", "exec"}) /\ NextVerdict = "known"
    /\ LET b == op.chain[op.i] IN
       \/ /\ op.pc = "known"
          /\ op' = StartSetHead([op EXCEPT !.ret = "known"], b)
       \/ /\ op.pc = "exec" /\ ~interrupt
          /\ op' = StartSetHead([op EXCEPT !.ret = "skip", !.start = b], b)
    /\ OnlyOp

\* The blocks addFutureBlock accepts from index k on: the loop ends at the
\* first one too far ahead or whose error is no longer an unknown ancestor.
QueuedFrom(chain, k) ==
    {chain[j] : j \in {m \in k..Len(chain) :
        \A l \in k..m : /\ Time[chain[l]] <= clock + MaxTimeFuture
                        /\ l = k \/ Verdict(chain, l) = "unknown"}}

\* The first block left is a future one, or follows a queued one.
Postpone ==
    /\ Importing({"first", "known"})
    /\ \/ NextVerdict = "future"
       \/ NextVerdict = "unknown" /\ Parent[op.chain[1]] \in future
    /\ future' = IF op.i = 1 \/ NextVerdict = "unknown"
                 THEN future \cup QueuedFrom(op.chain, op.i) ELSE future
    /\ op' = Idle
    /\ UNCHANGED <<dbVars, mem, triegc, procQueue, up, interrupt, envVars>>

\* Any other error of the first block left: it is reported and forgotten.
Reject ==
    /\ Importing({"first", "known"})
    /\ \/ NextVerdict = "invalid"
       \/ NextVerdict = "unknown" /\ Parent[op.chain[1]] \notin future
    /\ future' = future \ {op.chain[op.i]}
    /\ op' = Idle
    /\ UNCHANGED <<dbVars, mem, triegc, procQueue, up, interrupt, envVars>>

\* No error: the main loop starts with this block.
EnterLoop ==
    /\ Importing({"first", "known"}) /\ NextVerdict = "ok"
    /\ op' = [op EXCEPT !.pc = "exec", !.ret = "exec"]
    /\ OnlyOp

\* The main loop executes a block on the state of its parent and, when the
\* result validates, writes block, receipts and td in one batch.
Execute ==
    /\ Importing({"exec"}) /\ NextVerdict = "ok" /\ ~interrupt
    /\ LET b == op.chain[op.i] IN
       IF b \in BadState
       THEN op' = Idle /\ UNCHANGED stored
       ELSE op' = [op EXCEPT !.pc = "state", !.tgt = b] /\ stored' = stored \cup {b}
    /\ UNCHANGED <<canon, txIndex, db, disk, mem, triegc, future, procQueue, up, interrupt, envVars>>

\* The main loop ends: at the end of the segment, at an error, or because the
\* chain is terminating.  Future blocks left over are queued.
LeaveLoop ==
    /\ \/ op.pc \in {"first", "known", "exec"} /\ op.i > Len(op.chain)
       \/ Importing({"exec"}) /\ (interrupt \/ NextVerdict \notin {"ok", "known"})
    /\ future' = IF op.i <= Len(op.chain) /\ NextVerdict = "future"
                 THEN future \cup QueuedFrom(op.chain, op.i) ELSE future
    /\ op' = Idle
    /\ UNCHANGED <<dbVars, mem, triegc, procQueue, up, interrupt, envVars>>

-----------------------------------------------------------------------------
(* writeBlockWithState and writeBlockAndSetHead *)

\* WriteBlockAndSetHead by the miner: the block carries its own new state.  It
\* was built on the state of its parent, and work more than staleThreshold
\* blocks old, far fewer than TriesInMemory, is dropped by the worker.
WriteMined(b) ==
    /\ up /\ op = Idle
    /\ b \notin stored \cup BadHeader \cup BadState /\ HasBlockAndState(Parent[b])
    /\ stored' = stored \cup {b}
    /\ op' = [InsertOp(<<b>>, mem.block) EXCEPT !.pc = "state", !.tgt = b, !.ret = "done"]
    /\ UNCHANGED <<canon, txIndex, db, disk, mem, triegc, future, procQueue, up, interrupt, envVars>>

\* The state is committed to memory.  Past TriesInMemory, some older states may
\* be flushed by the memory limit, the canonical one at the edge by the time
\* limit, and everything at or below the edge is dereferenced.
CommitState(b, capped, timeUp) ==
    LET edge  == Number[b] - TriesInMemory
        aged  == IF edge > 0 /\ timeUp /\ edge \in DOMAIN canon
                 THEN {canon[edge]} \cap triegc ELSE {}
    IN /\ disk'   = IF edge > 0 THEN disk \cup capped \cup aged ELSE disk
       /\ triegc' = {x \in triegc \cup {b} : edge > 0 => Number[x] > edge}

\* Commit the state, then let the fork choice decide whether b becomes the head.
DecideHead ==
    /\ op.pc = "state"
    /\ \E capped \in SUBSET triegc, timeUp \in BOOLEAN :
          CommitState(op.tgt, capped, timeUp)
    /\ \E reorg \in ReorgNeeded(mem.block, op.tgt) :
          IF reorg
          THEN op' = StartSetHead(op, op.tgt) /\ UNCHANGED future
          ELSE op' = Continue(op) /\ future' = future \ {op.tgt}
    /\ UNCHANGED <<stored, canon, txIndex, db, mem, procQueue, up, interrupt, envVars>>

\* The batch of writeHeadBlock.
HeadBatch(b) ==
    /\ canon'   = [canon EXCEPT ![Number[b]] = b]
    /\ txIndex' = [t \in Tx |-> IF t \in Txs[b] THEN Number[b] ELSE txIndex[t]]
    /\ db'      = [block |-> b, header |-> b, snap |-> b]
    /\ UNCHANGED <<stored, disk>>

\* reorg: the next block of the new branch, head excluded, becomes canonical.
ReorgWrite ==
    /\ op.pc = "reorg" /\ op.dirty = None /\ op.todo # << >>
    /\ HeadBatch(Head(op.todo))
    /\ op' = [op EXCEPT !.todo = Tail(@), !.dirty = Head(op.todo)]
    /\ UNCHANGED <<mem, triegc, future, procQueue, up, interrupt, envVars>>

\* Mutant: the lookups of all transactions of the old branch are deleted.
AllOldTxs(old, new) == UNION {Txs[b] : b \in Ancestors[old] \ Ancestors[new]}

\* The transactions of the old branch that the new one, head excluded, lacks.
DeletedTxs(old, new) ==
    LET dropped == Ancestors[old] \ Ancestors[new]
        added   == (Ancestors[new] \ Ancestors[old]) \ {new}
    IN (UNION {Txs[b] : b \in dropped}) \ UNION {Txs[b] : b \in added}

\* Mutant: canonical hashes above the new head are left in place.
NothingMarked(n) == {}

\* The numbers from n on that have a canonical hash, up to the first gap.
MarkedFrom(n) == {m \in DOMAIN canon : m >= n /\ \A k \in n..m : canon[k] # None}

\* reorg: the batch that deletes the lookups of the dropped transactions and
\* the canonical hashes from the new head on.
ReorgIndexes ==
    /\ op.pc = "reorg" /\ op.dirty = None /\ op.todo = << >>
    /\ LET gone   == DeletedTxs(op.old, op.tgt)
           number == IF op.tgt \in Ancestors[op.old] THEN Number[op.tgt] ELSE Number[op.tgt] - 1
       IN /\ txIndex' = [t \in Tx |-> IF t \in gone THEN -1 ELSE txIndex[t]]
          /\ canon' = [n \in DOMAIN canon |->
                         IF n \in MarkedFrom(number + 1) THEN None ELSE canon[n]]
    /\ op' = [op EXCEPT !.pc = "head"]
    /\ UNCHANGED <<stored, db, disk, mem, triegc, future, procQueue, up, interrupt, envVars>>

\* writeHeadBlock for the new head itself.
WriteHead ==
    /\ op.pc = "head"
    /\ HeadBatch(op.tgt)
    /\ op' = [op EXCEPT !.pc = "mark", !.dirty = op.tgt]
    /\ UNCHANGED <<mem, triegc, future, procQueue, up, interrupt, envVars>>

\* The in-memory markers, the last thing writeHeadBlock does.
StoreMarkers ==
    /\ op.pc \in {"reorg", "mark"} /\ op.dirty # None
    /\ mem' = [block |-> op.dirty, header |-> op.dirty, snap |-> op.dirty]
    /\ IF op.pc = "mark"
       THEN /\ op' = Continue([op EXCEPT !.dirty = None, !.old = None])
            /\ future' = IF op.ret \in {"exec", "done"} THEN future \ {op.tgt} ELSE future
       ELSE op' = [op EXCEPT !.dirty = None] /\ UNCHANGED future
    /\ UNCHANGED <<dbVars, triegc, procQueue, up, interrupt, envVars>>

-----------------------------------------------------------------------------
(* insertSideChain *)

\* The first block's parent has lost its state: switch to side chain mode.
EnterSideChain ==
    /\ Importing({"first", "known"}) /\ NextVerdict = "pruned"
    /\ op' = [op EXCEPT !.pc = "side", !.tgt = op.chain[op.i]]
    /\ OnlyOp

\* One block of the side chain is written without state, unless it is canonical
\* or already there.
SideBlock ==
    /\ Importing({"side"}) /\ NextVerdict = "pruned"
    /\ LET b == op.chain[op.i]
           isCanon == Number[b] <= Number[mem.block] /\ canon[Number[b]] = b
       IN CASE isCanon ->
                 op' = [op EXCEPT !.i = @ + 1] /\ UNCHANGED stored
            [] ~isCanon /\ b \notin stored /\ interrupt ->
                 op' = Idle /\ UNCHANGED stored
            [] OTHER ->
                 op' = [op EXCEPT !.i = @ + 1, !.tgt = b] /\ stored' = stored \cup {b}
    /\ UNCHANGED <<canon, txIndex, db, disk, mem, triegc, future, procQueue, up, interrupt, envVars>>

\* Mutant: the state of the block itself is taken for granted.
AssumeState(b) == b

\* The closest ancestor of b whose state is available.
NearestWithState(b) ==
    CHOOSE a \in Ancestors[b] : HasState(a) /\
        \A c \in Ancestors[b] : HasState(c) => Number[c] <= Number[a]

\* All side blocks are written.  If the last one wins, the blocks without state
\* up to the last one looked at are imported again, this time with execution.
SideChainEnd ==
    /\ op.pc = "side"
    /\ ~(op.i <= Len(op.chain) /\ NextVerdict = "pruned")
    /\ LET last == op.chain[op.i - 1]
           base == Number[NearestWithState(last)]
           missing == [k \in 1..(Number[last] - base) |-> AncestorAt(last, base + k)]
       IN \E reorg \in ReorgNeeded(mem.block, op.tgt) :
             op' = IF reorg /\ missing # << >> /\ ~interrupt
                   THEN InsertOp(missing, op.start) ELSE Idle
    /\ OnlyOp

-----------------------------------------------------------------------------
(* Rewinding *)

LoadLastState(d, blocks) ==
    [block  |-> d.block,
     header |-> IF d.header \in blocks THEN d.header ELSE d.block,
     snap   |-> IF d.snap \in blocks THEN d.snap ELSE d.block]

SetHead(n) ==
    /\ up /\ op = Idle /\ rewinds < MaxRewinds
    /\ op' = [pc |-> "rewind", target |-> n, del |-> {}]
    /\ rewinds' = rewinds + 1
    /\ UNCHANGED <<dbVars, mem, triegc, future, procQueue, up, interrupt, clock, crashes, stops>>

\* Mutant: leftovers above the unwound header are not wiped.
NoLeftovers(n) == {}

\* The numbers right above n at which the database holds any block.
LeftoversAbove(n) ==
    {m \in Numbers : m > n /\ \A k \in (n + 1)..m : \E b \in stored : Number[b] = k}

\* One header is unwound: the markers go down before any data is deleted, the
\* block marker to an ancestor that has its state.
RewindHeader ==
    /\ op.pc = "rewind" /\ Number[mem.header] > op.target
    /\ LET hdr == mem.header
           par == Parent[hdr]
           block == IF Number[par] <= Number[mem.block] THEN NearestWithState(par) ELSE mem.block
           snap  == IF Number[par] < Number[mem.snap] THEN par ELSE mem.snap
       IN /\ mem' = [block |-> block, header |-> par, snap |-> snap]
          /\ db'  = [block  |-> IF Number[par] <= Number[mem.block] THEN block ELSE db.block,
                     header |-> par,
                     snap   |-> IF Number[par] < Number[mem.snap] THEN par ELSE db.snap]
          /\ op'  = [op EXCEPT !.del = @ \cup {Number[hdr]} \cup 
                               (IF @ = {} THEN LeftoversAbove(Number[hdr]) ELSE {})]
    /\ UNCHANGED <<stored, canon, txIndex, disk, triegc, future, procQueue, up, interrupt, envVars>>

\* The accumulated deletions, side chains included, go out in one batch; the
\* caches are purged and the markers read back.
RewindFlush ==
    /\ op.pc = "rewind" /\ Number[mem.header] <= op.target
    /\ stored' = {b \in stored : Number[b] \notin op.del}
    /\ canon'  = [n \in DOMAIN canon |-> IF n \in op.del THEN None ELSE canon[n]]
    /\ future' = {}
    /\ mem' = LoadLastState(db, stored')
    /\ op'  = Idle
    /\ UNCHANGED <<txIndex, db, disk, triegc, procQueue, up, interrupt, envVars>>

-----------------------------------------------------------------------------
(* Stopping, crashing and restarting *)

StopInsert ==
    /\ up /\ ~interrupt /\ stops < MaxStops
    /\ interrupt' = TRUE /\ stops' = stops + 1
    /\ UNCHANGED <<dbVars, mem, triegc, future, procQueue, op, up, clock, crashes, rewinds>>

GoDown ==
    /\ up' = FALSE /\ interrupt' = FALSE /\ op' = Idle
    /\ mem' = [block |-> None, header |-> None, snap |-> None]
    /\ triegc' = {} /\ future' = {} /\ procQueue' = << >>

\* Stop waits for the lock, then writes the states of HEAD, HEAD-1 and
\* HEAD-(TriesInMemory-1).
Stop ==
    /\ up /\ interrupt /\ op = Idle
    /\ LET head == Number[mem.block]
           recent == {canon[head - o] : o \in {x \in {0, 1, TriesInMemory - 1} : head > x}}
       IN disk' = disk \cup (recent \cap triegc)
    /\ GoDown
    /\ UNCHANGED <<stored, canon, txIndex, db, envVars>>

Crash ==
    /\ up /\ crashes < MaxCrashes
    /\ crashes' = crashes + 1
    /\ GoDown
    /\ UNCHANGED <<dbVars, clock, stops, rewinds>>

\* NewBlockChain: load the markers; if the state of the head is missing, move
\* the head block back to an ancestor that has one.
Restart ==
    /\ ~up
    /\ LET m == LoadLastState(db, stored)
           block == NearestWithState(m.block)
           snap  == IF block # m.block /\ Number[m.block] < Number[m.snap]
                    THEN m.block ELSE db.snap
       IN /\ db'  = [db EXCEPT !.block = block, !.snap = snap]
          /\ mem' = LoadLastState(db', stored)
    /\ up' = TRUE
    /\ UNCHANGED <<stored, canon, txIndex, disk, triegc, future, procQueue, op, interrupt, envVars>>

-----------------------------------------------------------------------------
(* Future blocks *)

\* procFutureBlocks takes a snapshot of the queue, ordered by number.
ProcFutureBlocks ==
    /\ up /\ procQueue = << >> /\ future # {}
    /\ procQueue' \in {s \in [1..Cardinality(future) -> future] :
          /\ Range(s) = future
          /\ \A j, k \in DOMAIN s : j < k => Number[s[j]] <= Number[s[k]]}
    /\ UNCHANGED <<dbVars, mem, triegc, future, op, up, interrupt, envVars>>

\* Mutant: only the first block of the snapshot is tried.
ProcFirstOnly ==
    /\ up /\ op = Idle /\ procQueue # << >>
    /\ procQueue' = << >>
    /\ op' = IF interrupt THEN Idle ELSE InsertOp(<<Head(procQueue)>>, mem.block)
    /\ UNCHANGED <<dbVars, mem, triegc, future, up, interrupt, envVars>>

\* ... and inserts the blocks one by one, taking the lock for each.
ProcNext ==
    /\ up /\ op = Idle /\ procQueue # << >>
    /\ procQueue' = Tail(procQueue)
    /\ op' = IF interrupt THEN Idle ELSE InsertOp(<<Head(procQueue)>>, mem.block)
    /\ UNCHANGED <<dbVars, mem, triegc, future, up, interrupt, envVars>>

Tick ==
    /\ clock < MaxClock
    /\ clock' = clock + 1
    /\ UNCHANGED <<dbVars, mem, triegc, future, procQueue, op, up, interrupt, crashes, stops, rewinds>>

-----------------------------------------------------------------------------
Init ==
    /\ stored = {Genesis} /\ disk = {Genesis}
    /\ canon = [n \in Numbers |-> IF n = 0 THEN Genesis ELSE None]
    /\ txIndex = [t \in Tx |-> -1]
    /\ db  = [block |-> Genesis, header |-> Genesis, snap |-> Genesis]
    /\ mem = [block |-> Genesis, header |-> Genesis, snap |-> Genesis]
    /\ triegc = {} /\ future = {} /\ procQueue = << >> /\ op = Idle
    /\ up = TRUE /\ interrupt = FALSE
    /\ clock = 0 /\ crashes = 0 /\ stops = 0 /\ rewinds = 0

\* The steps of the operation that holds the lock.
OpStep ==
    \/ TrimKnown \/ WriteKnown \/ Postpone \/ Reject \/ EnterLoop \/ Execute \/ LeaveLoop
    \/ DecideHead \/ ReorgWrite \/ ReorgIndexes \/ WriteHead \/ StoreMarkers
    \/ EnterSideChain \/ SideBlock \/ SideChainEnd
    \/ RewindHeader \/ RewindFlush

Next ==
    \/ OpStep
    \/ \E chain \in Segments : InsertChain(chain)
    \/ \E b \in Block \ {Genesis} : WriteMined(b)
    \/ \E n \in Numbers : SetHead(n)
    \/ StopInsert \/ Stop \/ Crash \/ Restart
    \/ ProcFutureBlocks \/ ProcNext \/ Tick

Spec == Init /\ [][Next]_vars

\* Progress of the lock holder and of the node before and after a shutdown, of
\* which only one is enabled at a time, and of the goroutine that retries future
\* blocks.
Fairness ==
    /\ WF_vars(OpStep \/ Stop \/ Restart)
    /\ WF_vars(ProcFutureBlocks) /\ SF_vars(ProcNext) /\ WF_vars(Tick)

FairSpec == Spec /\ Fairness

-----------------------------------------------------------------------------
(* Properties *)

Markers(S) == [block : S, header : S, snap : S]

\* The variables hold what the code's fields and database entries can hold.
TypeOK ==
    /\ stored \subseteq Block /\ disk \subseteq Block /\ triegc \subseteq Block
    /\ future \subseteq Block
    /\ canon \in [Numbers -> Block \cup {None}]
    /\ txIndex \in [Tx -> Numbers \cup {-1}]
    /\ db \in Markers(Block)
    /\ mem \in Markers(IF up THEN Block ELSE {None})
    /\ up \in BOOLEAN /\ interrupt \in BOOLEAN
    /\ clock \in 0..MaxClock /\ crashes \in 0..MaxCrashes
    /\ stops \in 0..MaxStops /\ rewinds \in 0..MaxRewinds

\* No stored block ever loses its parent, and the persisted markers always name
\* stored blocks, through rewinds that delete whole heights and crashes between
\* their batches: the "invalid new chain", "missing block in the middle" and
\* "Head block missing" paths of the code stay unreachable.
NoDanglingBlocks ==
    /\ ParentClosed(stored)
    /\ Genesis \in stored
    /\ {db.block, db.header, db.snap} \subseteq stored

\* Up to the persisted head, the canonical hashes are exactly the chain of that
\* head: during a reorg, after a rewind and after a crash at any point of them.
\* Between the two last batches of a reorg the old head may have lost its
\* hashes, which is stated separately.
CanonicalChain ==
    op.pc # "head" =>
        \A n \in 0..Number[db.block] : canon[n] = AncestorAt(db.block, n)

\* Whenever no operation is in progress, the canonical hashes up to the head
\* are the chain of the head: what every lookup by number relies on, and what
\* a restart must find again.
CanonicalChainWhenIdle ==
    up /\ op = Idle =>
        \A n \in 0..Number[db.block] : canon[n] = AncestorAt(db.block, n)

\* Every transaction of the canonical chain up to the head can be looked up, in
\* the block that holds it.
CanonicalTxsIndexed ==
    \A n \in 0..Number[db.block] :
        canon[n] # None => \A t \in Txs[canon[n]] : txIndex[t] = n

\* As long as the head has not been moved back by a rewind or a repair, nothing
\* above it is marked canonical once an operation is over.
NothingCanonicalAboveHead ==
    up /\ op = Idle /\ crashes = 0 /\ stops = 0 /\ rewinds = 0 =>
        \A n \in DOMAIN canon : n > Number[mem.block] => canon[n] = None

\* Between operations the state of the head is available, so that the pool and
\* the miner can work on it, unless a side chain outgrew the head by as many
\* blocks as states are kept.
HeadHasState ==
    up /\ op = Idle =>
        \/ HasState(mem.block)
        \/ \E b \in stored : Number[b] >= Number[mem.block] + TriesInMemory

\* An import does not leave the node on a lighter head than it started from,
\* whatever intermediate heads the reorganisations went through, with one
\* exception: a known block that the main loop meets, above one whose state was
\* dereferenced, becomes the head without a word of the fork choice.  From then
\* on the same holds of that block.
ImportKeepsTotalDifficulty ==
    [][op.pc \notin {"idle", "rewind"} /\ op'.pc = "idle" /\ up' =>
         TD[mem'.block] >= TD[op.start]]_vars

\* "Impossible reorg, please file an issue": reorg is only called with at least
\* one block to add.
ReorgAddsABlock == op.pc = "reorg" => op.tgt \notin Ancestors[op.old]

\* The new head is chosen if the corresponding total difficulty is higher: no
\* fully imported block is heavier than the head.
HeaviestBlockIsHead ==
    up /\ op = Idle => \A b \in stored : HasState(b) => TD[b] <= TD[mem.block]

\* procFutureBlocks leaves no block behind whose time has come: not so above a
\* block that fails to execute.
DueBlocksDrain ==
    <>[](future \cap {b \in Block \ BadState : Time[b] <= MaxClock + AllowedFuture}
           \subseteq stored)

\* "First block is future, shove it (and all children) to the future queue":
\* with the first block of a segment, the rest of it is queued too.
ChildrenPostponedToo ==
    [][op.pc = "first" /\ op'.pc = "idle" /\ op.chain[1] \in future' \ future =>
         \A k \in DOMAIN op.chain :
            Time[op.chain[k]] <= clock + MaxTimeFuture => op.chain[k] \in future']_vars

\* Every operation that takes the lock gives it back: the loops of the import,
\* of the reorganisation and of the side chain re-import all end.
LockIsReleased == (op # Idle) ~> (op = Idle)

\* Queued blocks whose time comes, the bad ones, and those above a block that
\* fails to execute, left aside: a failed Process does not take its block out of
\* the queue, so that it and what is queued above it are retried for ever.
Drainable ==
    {b \in Block : Time[b] <= MaxClock + AllowedFuture /\ Ancestors[b] \cap BadState = {}}

\* From some time on every such block that is still queued is stored: it was
\* imported, dropped, or stored beside the chain if the state of its parent is
\* gone, whatever the order in which its ancestors arrived.
FutureBlocksDrain == <>[](future \cap Drainable \subseteq stored)

=============================================================================
