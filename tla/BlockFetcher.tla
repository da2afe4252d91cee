---------------------------- MODULE BlockFetcher ----------------------------
(***************************************************************************)
(* The block fetcher (eth/fetcher/block_fetcher.go) of a full node: hashes *)
(* that peers announce are asked for by header, then by body, and blocks   *)
(* assembled that way or broadcast whole wait in a queue until they fit on *)
(* the chain.                                                              *)
(*                                                                         *)
(* loop serves one event at a time, and before it waits for the next it    *)
(* forgets expired fetches and starts the imports that are due: every      *)
(* action of the loop ends in LoopTop.  Imports are goroutines that report *)
(* back through done; the chain also grows behind the fetcher's back.      *)
(*                                                                         *)
(* Abstractions.  Time is the order in which an announcement becomes ripe  *)
(* (older than arriveTimeout) and a fetch becomes old (fetchTimeout).  The *)
(* number an announcement claims is not kept: whether the header bears it  *)
(* out is decided when the header arrives.  A peer that was asked may      *)
(* answer, more than once, or never.  dropPeer ends in the peer set, which *)
(* never tells the fetcher.                                                *)
(***************************************************************************)
EXTENDS Integers, FiniteSets, SequencesExt

CONSTANTS
    Peer,
    Block,         \* hashes of the blocks above the genesis
    Heard,         \* bound: those that peers announce or broadcast
    Number,        \* block -> number
    Parent,        \* block -> parent, or Genesis
    EmptyBlock,    \* blocks without transactions and uncles
    Genesis, NoPeer,
    hashLimit, blockLimit, maxUncleDist, maxQueueDist,
    MaxWaiting     \* bound: announcements waiting at a time

ASSUME BlockFetcherAssumption ==
    /\ Heard \subseteq Block /\ IsFiniteSet(Heard) /\ EmptyBlock \subseteq Block
    /\ Genesis \notin Block /\ NoPeer \notin Peer
    /\ Number \in [Block -> Nat \ {0}] /\ Parent \in [Block -> Block \cup {Genesis}]
    /\ {hashLimit, blockLimit, maxUncleDist, maxQueueDist, MaxWaiting} \subseteq Nat

VARIABLES
    f,             \* the fetcher: its maps, timers and import goroutines
    known          \* blocks in the chain

blockFetcherVars == <<f, known>>

Height == Max({0} \cup {Number[b] : b \in known \ {Genesis}})

\* The blocks with an entry in a map.
Keys(m) == {h \in Heard : m[h] # NoPeer}
Announced(g) == {h \in Heard : \E p \in Peer : g.announced[h][p] > 0}

\* The announcements of peer p that wait to be asked for.
Waiting(p) == MapThenSumSet(LAMBDA h : f.announced[h][p], Heard)

InRange(number) == number - Height \in (-maxUncleDist)..maxQueueDist

-----------------------------------------------------------------------------
(* Forgetting *)

\* Mutant: announcements that were not the one asked for are not given back.
TracesOfFetches(g, h, p) ==
    Cardinality({m \in {"fetching", "fetched", "completing"} : g[m][h] = p})

\* What is recorded of the announcements of peer p for a hash, in all stages.
Traces(g, h, p) ==
    g.announced[h][p] + Cardinality({m \in {"fetching", "fetched", "completing"} : g[m][h] = p})

\* forgetHash: the counters go down once for every trace and stop at zero.
ForgetHash(g, h) ==
    [g EXCEPT !.announces = [p \in Peer |-> Max({0, @[p] - Traces(g, h, p)})],
              !.announced[h] = [p \in Peer |-> 0],
              !.fetching[h] = NoPeer, !.fetched[h] = NoPeer, !.completing[h] = NoPeer,
              !.ripe = @ \ {h}, !.old = @ \ {h}]

ForgetHashes(g, hashes) == FoldSet(LAMBDA h, acc : ForgetHash(acc, h), g, hashes)

ForgetBlock(g, h) ==
    IF g.queued[h] = NoPeer THEN g
    ELSE [g EXCEPT !.queues[g.queued[h]] = @ - 1, !.queued[h] = NoPeer]

ForgetBlocks(g, hashes) == FoldSet(LAMBDA h, acc : ForgetBlock(acc, h), g, hashes)

\* Mutant: the peer is charged for a block that was queued already.
EnqueueCharged(g, p, h) ==
    IF g.queues[p] + 1 > blockLimit \/ ~InRange(Number[h])
    THEN ForgetHash(g, h)
    ELSE [g EXCEPT !.queues[p] = @ + 1,
                   !.queued[h] = IF @ = NoPeer THEN p ELSE @,
                   !.queue = IF g.queued[h] = NoPeer THEN @ \cup {h} ELSE @]

\* enqueue: the block of a peer that has queued too many, or one out of range,
\* is forgotten; one that is queued already is left alone.
Enqueue(g, p, h) ==
    IF g.queues[p] + 1 > blockLimit \/ ~InRange(Number[h])
    THEN ForgetHash(g, h)
    ELSE IF g.queued[h] # NoPeer THEN g
         ELSE [g EXCEPT !.queues[p] = @ + 1, !.queued[h] = p, !.queue = @ \cup {h}]

\* What loop does before it waits: expired fetches are forgotten, and the
\* queued blocks that fit are imported unless stale or known.
LoopTop(g) ==
    LET fresh == ForgetHashes(g, g.old)
        height == Height
        due == {h \in g.queue : Number[h] <= height + 1}
        useless == {h \in due : Number[h] + maxUncleDist < height \/ h \in known}
    IN [ForgetBlocks(fresh, useless) EXCEPT !.queue = @ \ due, !.importing = @ \cup (due \ useless)]

-----------------------------------------------------------------------------
(* Events of the loop *)

\* An announcement of a hash, claiming a number, that is not dropped.
NotifyBlock(p, h, number) ==
    /\ f.announces[p] + 1 <= hashLimit
    /\ number # 0 /\ InRange(number)
    /\ f.fetching[h] = NoPeer /\ f.completing[h] = NoPeer
    /\ MapThenSumSet(LAMBDA q : Waiting(q), Peer) < MaxWaiting
    /\ LET g == [f EXCEPT !.announces[p] = @ + 1, !.announced[h][p] = @ + 1]
       IN f' = LoopTop([g EXCEPT !.fetchTimer = @ \/ Cardinality(Announced(g)) = 1])
    /\ UNCHANGED known

\* An announcement that is dropped, or an answer that matches nothing asked
\* for, changes nothing but wakes the loop.
Ignored == f' = LoopTop(f) /\ UNCHANGED known

\* A broadcast block.
Inject(p, h) == f' = LoopTop(Enqueue(f, p, h)) /\ UNCHANGED known

\* An import reports that it has ended.
ImportDone(h) ==
    /\ h \in f.finished
    /\ LET g == [f EXCEPT !.finished = @ \ {h}]
       IN f' = LoopTop(ForgetBlock(ForgetHash(g, h), h))
    /\ UNCHANGED known

\* Mutant: the timer is not set again for the announcements that are not ripe.
FetchTimerOnce(origin) ==
    /\ f.fetchTimer
    /\ \A h \in f.ripe : f.announced[h][origin[h]] > 0
    /\ LET g == ForgetHashes(f, f.ripe)
       IN f' = LoopTop([g EXCEPT
                 !.fetching = [h \in Heard |-> IF h \in f.ripe \ known THEN origin[h] ELSE @[h]],
                 !.fetchTimer = FALSE])
    /\ UNCHANGED known

\* fetchTimer: every ripe hash is asked of one of its announcers, origin, and
\* all its announcements are forgotten.
FetchTimer(origin) ==
    /\ f.fetchTimer
    /\ \A h \in f.ripe : f.announced[h][origin[h]] > 0
    /\ LET g == ForgetHashes(f, f.ripe)
       IN f' = LoopTop([g EXCEPT
                 !.fetching = [h \in Heard |-> IF h \in f.ripe \ known THEN origin[h] ELSE @[h]],
                 !.fetchTimer = Announced(g) # {}])
    /\ UNCHANGED known

\* completeTimer: the bodies of all fetched headers are asked for.
CompleteTimer ==
    /\ f.completeTimer
    /\ LET ready == Keys(f.fetched)
       IN f' = LoopTop([ForgetHashes(f, ready) EXCEPT
                 !.completing = [h \in Heard |-> IF h \in ready \ known THEN f.fetched[h] ELSE @[h]],
                 !.completeTimer = FALSE])
    /\ UNCHANGED known

\* A header that was asked for arrives.  promised tells whether its number is
\* the one announced.
AnswerHeader(p, h, promised) ==
    /\ f.fetching[h] = p
    /\ f.fetched[h] = NoPeer /\ f.completing[h] = NoPeer /\ f.queued[h] = NoPeer
    /\ LET timed   == [f EXCEPT !.old = @ \ {h}]
           fetched == [timed EXCEPT !.fetched[h] = p]
       IN f' = LoopTop(
            CASE ~promised \/ h \in known -> ForgetHash(f, h)
              [] promised /\ h \notin known /\ h \in EmptyBlock ->
                   Enqueue([timed EXCEPT !.completing[h] = p], p, h)
              [] OTHER ->
                   [fetched EXCEPT !.completeTimer = @ \/ Cardinality(Keys(fetched.fetched)) = 1])
    /\ UNCHANGED known

\* Bodies that were asked for arrive, matched in the order given.
AnswerBodies(p, order) ==
    /\ \A h \in ToSet(order) : f.completing[h] = p /\ f.queued[h] = NoPeer
    /\ LET g == ForgetHashes(f, ToSet(order) \cap known)
           queueing(acc, h) == IF h \in known THEN acc ELSE Enqueue(acc, p, h)
       IN f' = LoopTop(FoldLeft(queueing, g, order))
    /\ UNCHANGED known

-----------------------------------------------------------------------------
(* Imports, the rest of the node, and time *)

\* importBlocks' goroutine: a block whose parent is known may be inserted, or
\* refused by verifyHeader, insertChain or the handler's inserter.
Import(h) ==
    /\ h \in f.importing
    /\ f' = [f EXCEPT !.importing = @ \ {h}, !.finished = @ \cup {h}]
    /\ \/ Parent[h] \in known /\ known' = known \cup {h}
       \/ UNCHANGED known

\* The downloader or the miner extends the chain.
ChainGrows(b) ==
    /\ b \notin known /\ Parent[b] \in known
    /\ known' = known \cup {b}
    /\ UNCHANGED f

\* The first announcement of a hash becomes older than arriveTimeout.
Ripen(h) ==
    /\ h \in Announced(f) \ f.ripe
    /\ f' = [f EXCEPT !.ripe = @ \cup {h}]
    /\ UNCHANGED known

\* The announcement a fetch was made from becomes older than fetchTimeout.
Age(h) ==
    /\ f.fetching[h] # NoPeer /\ h \notin f.old
    /\ f' = [f EXCEPT !.old = @ \cup {h}]
    /\ UNCHANGED known

-----------------------------------------------------------------------------
BlockFetcherInit ==
    LET empty == [h \in Heard |-> NoPeer]
        zero == [p \in Peer |-> 0]
    IN /\ f = [announces |-> zero, announced |-> [h \in Heard |-> zero], fetching |-> empty,
               fetched |-> empty, completing |-> empty, queue |-> {}, queues |-> zero,
               queued |-> empty, fetchTimer |-> FALSE, completeTimer |-> FALSE,
               importing |-> {}, finished |-> {}, ripe |-> {}, old |-> {}]
       /\ known = {Genesis}

Timers ==
    \/ \E origin \in [f.ripe -> Peer] : FetchTimer(origin)
    \/ CompleteTimer

BlockFetcherNext ==
    \/ \E p \in Peer, h \in Heard : \E n \in {Number[h], Height + 1} : NotifyBlock(p, h, n)
    \/ Ignored
    \/ \E p \in Peer, h \in Heard : Inject(p, h)
    \/ \E h \in Heard : ImportDone(h)
    \/ Timers
    \/ \E p \in Peer, h \in Heard, promised \in BOOLEAN : AnswerHeader(p, h, promised)
    \/ \E p \in Peer, s \in SUBSET Heard \ {{}} : \E order \in SetToSeqs(s) : AnswerBodies(p, order)
    \/ \E h \in Heard : Import(h) \/ Ripen(h) \/ Age(h)
    \/ \E b \in Block : ChainGrows(b)

(***************************************************************************)
(* Timers that are set fire, the loop takes what they send, and time       *)
(* passes.  Peers, imports and the rest of the node owe nothing.           *)
(***************************************************************************)
BlockFetcherFairness ==
    /\ WF_blockFetcherVars(\E origin \in [f.ripe -> Peer] : FetchTimer(origin))
    /\ WF_blockFetcherVars(CompleteTimer)
    /\ \A h \in Heard : WF_blockFetcherVars(Ripen(h))

BlockFetcherSpec == BlockFetcherInit /\ [][BlockFetcherNext]_blockFetcherVars /\ BlockFetcherFairness

-----------------------------------------------------------------------------
(* Properties *)

(***************************************************************************)
(* A block that was queued is waiting, being imported or reporting back,   *)
(* in one of the three and once, and charged to the one peer that brought  *)
(* it, whatever was broadcast, answered or forgotten meanwhile: no block   *)
(* is imported twice at a time, and no peer's share of the queue leaks or  *)
(* is exceeded.                                                            *)
(***************************************************************************)
QueuedOnce ==
    /\ Keys(f.queued) = f.queue \cup f.importing \cup f.finished
    /\ f.queue \cap f.importing = {} /\ (f.queue \cup f.importing) \cap f.finished = {}
    /\ \A p \in Peer :
          f.queues[p] = Cardinality({h \in Heard : f.queued[h] = p}) /\ f.queues[p] <= blockLimit

(***************************************************************************)
(* A peer is never charged for more announcements than are still waiting,  *)
(* however its hashes were fetched, completed, imported or dropped: once   *)
(* they are dealt with, all of its allowance has come back.                *)
(***************************************************************************)
AllowanceReturns ==
    \A p \in Peer : f.announces[p] <= Waiting(p)

(***************************************************************************)
(* Every hash that is announced is asked for or forgotten in the end, and  *)
(* so is the body of every header fetched: one timer for all of them,      *)
(* which is set when the first arrives, never leaves one behind.           *)
(***************************************************************************)
AnnouncedIsRequested ==
    \A h \in Heard :
       /\ []<>(h \notin Announced(f))
       /\ []<>(f.fetched[h] = NoPeer)

(***************************************************************************)
(* What the comment on the timeout of a body request says: the request was *)
(* already rescheduled.  Then a hash would not stay in completing.         *)
(***************************************************************************)
CompletionsEnd ==
    \A h \in Heard : []<>(f.completing[h] = NoPeer)

(***************************************************************************)
(* What the comment on hashLimit says: a bound on what a peer may have     *)
(* announced.                                                              *)
(***************************************************************************)
AnnouncesWithinLimit ==
    \A p \in Peer : Waiting(p) <= hashLimit

=============================================================================
