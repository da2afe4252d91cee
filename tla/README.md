# A TLA+ verification of R5 Core

R5 Core is a proof-of-work node, a fork of go-ethereum 1.11 with its own emission
schedule and difficulty rules (`client/`), three Solidity contracts of the protocol
(`zknet/`, `wrapped/`, `subnet/`) and a set of Python command-line tools. This
directory holds TLA+ models of the parts of it that are hard to test, the TLC
configurations that check them on small instances, and TLAPS proofs of what holds for
every instance. `PROJECT.json` is the index: components, runs, the source lines behind
every definition, the hazards the properties are aimed at, the disagreements found
between code and comments, and the theorems.

## 1. Inventory

| Component | State it keeps | Operations | Interacts with |
|---|---|---|---|
| Emission (`consensus/ethash/consensus.go`) | none of its own: balances in the state of each block | `Finalize` credits `calculateBlockReward`, `CalculateCirculatingSupply` | every block executed or mined; `eth_getSupply` |
| Header rules (`consensus/ethash`, `consensus/misc`) | none: parent and header | `CalcDifficulty` and its 256-bit variants, `verifyHeader`, `VerifyUncles`, `Prepare` | chain import, miner |
| Block chain (`core/blockchain.go`, `headerchain.go`, `forkchoice.go`) | database: blocks, canonical hashes, transaction lookups, head markers, states on disk; memory: head markers, recent states, future blocks | `InsertChain`, `insertSideChain`, `reorg`, `WriteBlockAndSetHead`, `SetHead`, `Stop`, start with repair, `procFutureBlocks` | called by fetchers, downloader, miner, RPC; emits head events |
| Transaction pool (`core/txpool`) | pending and queued lists, lookup, price heaps, virtual nonces, local accounts, journal | `addTxs`, `SetGasPrice`, `reset`, promote, demote, truncate, evict, rotate | head events of the chain; feeds miner and broadcaster |
| Miner (`miner/worker.go`) and sealer (`ethash/sealer.go`) | current environment, pending tasks, works of remote miners | four loops connected by channels, interrupt flag | pool, chain, engine |
| Transaction and block fetchers (`eth/fetcher`) | announcements in several stages, timers, per-peer counts | notify, request, deliver, time out, drop peer | peers, pool, chain |
| Freezer (`core/rawdb`) | index and data files of each table, number of frozen blocks, key-value store | background thread, batches, roll-back, truncation, repair on opening | `SetHead` of the chain, start of the node |
| Downloader and syncer (`eth/downloader`, `eth/sync.go`) | queues of headers, bodies and receipts, result store | reserve, deliver, expire, cancel | peers, chain |
| zkNet (`zknet/R5zkNet.sol`) | internal accounts, wallet to account | create, deposit, transfer in and out, destroy | wallets |
| Wrapped R5 (`wrapped/WrappedR5.sol`) | balances, allowances, native balance | deposit, withdraw, approve, transfer | wallets |
| Subnet registry (`subnet/R5SubnetRegistry.sol`) | subnets, list per owner, counter, stakes | register, update, stake, withdraw | wallets |
| EVM, tries, snapshots, p2p, RPC, light client, clique and beacon engines, accounts | | | below or beside the above; upstream code |
| Relayer, proxy, wallet, console, scdev, devtools | none | start the node, call its RPC | node |

What is hard in them, and what makes each correct:

* **Emission.** The reward of a block and the supply that decides it are computed by two
  separate pieces of code with six boundaries each. Correct: the closed form equals the
  balances credited, the cap is never passed, issuance ends.
* **Block chain.** One mutex serialises writers, but every operation is several database
  batches with crashes and readers in between; states exist only for recent blocks; the
  fork choice is consulted repeatedly while the import itself moves the head. Correct:
  canonical hashes, markers and lookups describe one chain; no block without its parent;
  the head has its state; imports end, and lose difficulty by one known step only; future
  blocks that execute are imported in the end.
* **Transaction pool.** Checks before the lock, requests merged while a run is in
  progress, and five data structures that must agree. Correct: lookup and lists agree,
  pending is executable, limits hold after each run, local transactions are kept,
  everything pending is announced, nothing executable stays queued.
* **Contracts.** Long sequences of legal calls, self-transfers, refused payments, native
  balance that grows without a call. Correct: money owed equals money held, accounts and
  indexes correspond.
* **Header rules.** The same rules exist on big integers and on machine words, and a
  miner assembles headers and uncles with code of its own that nobody on its node
  verifies. Correct: all variants agree, what is mined is accepted, no uncle counts
  twice.
* **Miner.** Five goroutines connected by channels, a user and a downloader that start
  and stop them, and results that arrive after their work was replaced. Correct: the
  worker runs exactly when it should, fresh results find their task, work catches up with
  the head.
* **Fetchers, downloader.** Late, partial and duplicate answers, timeouts, dropped peers.
  Correct: a hash is in one stage, counters match, nothing is asked for twice or for ever.
* **Freezer.** Blocks move between two stores while the chain is rewound, over files
  that lose different parts in a crash. Correct: every canonical block can be read, the
  tables have the same items, the database opens.

## 2. Modules

| Module | Models | Modules beside it |
|---|---|---|
| `Emission` | the schedule, `Finalize`, rewinds | `EngineProofs` |
| `HeaderRules` | difficulty, gas limit and header checks, as operators | `EngineProofs` |
| `Engine` | a tree of blocks with uncles, peers and a miner, composed of the two above | `MCEngine`, `EngineProofs` |
| `BlockChain` | the chain of a full node | `MCBlockChain` (block trees), `BlockChainProofs` |
| `TxPool` | the pool and its background runs | `MCTxPool` (accounts, transactions, chains), `TxPoolProofs` |
| `TxFetcher` | the loop of the transaction fetcher | `TxRetrieval` (what it promises), `FetcherProofs` |
| `BlockFetcher` | the loop of the block fetcher, its timers and imports | `MCBlockFetcher`, `FetcherProofs` |
| `Miner` | update loop, worker loops, local and remote sealer | `MinerProofs` |
| `FreezerTable` | one table: files, batches, crash, repair | |
| `ChainFreezer` | the freezer thread, `SetHead`, faults and opening, over tables | `MCChainFreezer`, `ChainFreezerProofs` |
| `Wallets` | what callers of contracts own, and totals of balances | |
| `R5zkNet` | the zkNet contract, over `Wallets` | |
| `WrappedR5` | the WR5 token, over `Wallets` | `MCWrappedR5`, `ContractsProofs` |
| `R5SubnetRegistry` | the registry, over `Wallets` | |
| `Contracts` | zkNet and registry on one chain, paid from one balance | `MCContracts`, `ContractsProofs` |
| `FoldLemmas` | no code: what a fold over a set or a sequence keeps, least and greatest elements | used by `FetcherProofs`, `TxPoolProofs`, `ChainFreezerProofs` |

**Emission.** Amounts are counted in 1/32 R5, the smallest reward. `supplyAt[n]` is the
total balance in the state of canonical block `n`; `Finalize` appends a block,
`Rewind` goes back to any earlier one. The reward of block `n` is decided, as in the
code, against the closed-form supply *after* block `n`.

**HeaderRules and Engine.** `HeaderRules` holds the pure rules: `calcDifficultyFrontier`
and `calcDifficultyHomestead` on integers, their 256-bit variants and
`DynamicDifficulty` modulo the word sizes, `VerifyGaslimit`, `verifyHeader`, and
`CalcGasLimit` and `prepareHeader`, the miner's side. `Engine` extends it and `Emission`:
`blocks` is a tree, `PeerBlock` adds any block that passes `verifyHeader` and
`VerifyUncles`, `PrepareWork`, `ReceiveSide` and `Sealed` are the miner, whose block is
inserted unverified. A block that extends the head is Emission's `Finalize`; a reorg
replaces the canonical states by those along the other branch (`Switch`). Roots, extra
data, gas used and the seal are left out. The genesis of the scaled schedule and a block
shortly before its final block are the two starting points.

**BlockChain.** `op` is the operation that holds `chainmu`, with the point it has
reached (`pc`); every database batch is one step of it, the in-memory markers another.
`stored`, `canon`, `txIndex`, `db` and `disk` survive a crash, the other variables do
not. `Verdict` is the error that header verification and `ValidateBody` report for a
block; `TrimKnown`, `WriteKnown`, `Postpone`, `Reject`, `EnterSideChain`, `EnterLoop`
are the cases of `insertChain` before its main loop, `Execute`, `DecideHead`,
`ReorgWrite`, `ReorgIndexes`, `WriteHead`, `StoreMarkers` the loop and what it calls,
`SideBlock`, `SideChainEnd` the side chain, `RewindHeader`, `RewindFlush` a rewind.
Which states the memory limit flushes, and whether the flush interval has passed, is a
free choice at every commit. A block stands for header, body, receipts and total
difficulty, which the code writes in one batch; states are identified with blocks.

**TxPool.** `pool` is what `pool.mu` protects, changed by one step per critical section.
`inflight` are calls of `addTxs` between their unlocked checks and the lock, `requests`
those between the lock and `scheduleReorgLoop`, `next` the run being collected, `cur`
the run in progress (under the lock, then announcing). `Reset`, `PromoteExecutables`,
`DemoteUnexecutables`, `SetAllNonces`, `TruncatePending`, `TruncateQueue` are the parts
of `runReorg`. The two price heaps are abstracted: when the pool is full, any remote
transactions of the right number may be discarded. `missing` holds blocks a rewind has
deleted, because `reset` looks its heads up in the chain database.

**TxFetcher and TxRetrieval.** One action per case of the `select` of `loop`; the peers'
handlers, the timers and failing requests only decide which case comes next. The clock is
reduced to which hashes have waited long enough (`waited`) and which requests are too old
(`overdue`); whether a timer is armed is kept, because a pass that forgets to arm it
strands the hashes. `TxRetrieval` is the promise without timers, slots and requests;
`TxFetcher` maps its stages to it with `INSTANCE`, and `ImplementsRetrieval` is the
abstract specification, liveness included.

**BlockFetcher.** `f` is the fetcher with its maps, timers and import goroutines; one
action per case of the `select` of `loop`, each ending in `LoopTop`, the clean-up and the
start of imports before the loop waits again. Two of the four announcement maps overlap in
the code and do here: a hash whose header has come is in `fetching` and `fetched`, an empty
block in `fetching` and `completing`. `Import` is a goroutine that may insert the block or
fail; `ChainGrows` is everybody else who extends the chain. Numbers that peers claim are
checked for range and not kept; whether a header bears them out is a free choice. Answers
are not tied to single requests: a peer that was asked may answer, again, or never. Its
`Init`, `Next` and `Spec` bear the module's name, so that `FetcherProofs` can extend both
fetchers.

**Miner.** A group of actions per goroutine, a variable per channel; sending on an
unbuffered channel is one step of both ends. A task is its parent, transactions and
uncles, which is what its seal hash covers. `commitWork` is three steps of the main loop,
`ReceiveWork`, `FillTransactions` and `CommitFull`: the last waits for room in
`resubmitAdjustCh`, and while it does the loop receives nothing. The chain is external to
this module: blocks arrive, extend or replace the head, and a sealed block on the head
becomes it. Searches may succeed at any time; results of replaced tasks are on their way
for a while (`late`).

**FreezerTable and ChainFreezer.** A table is a value (index file, numbered data files,
each with the length that is on stable storage), and `FreezerTable` the operators on it.
`ChainFreezer` has the thread of `chain_freezer.go` as a program with one step per commit,
sync, read of the hashes at a number (`ReadSides`, `ReadDangling`) and batch of deletions
(`WipeCanonical`, `WipeSides`, `WipeDangling`), `SetHead` as another, and both race for
the freezer. A side block is verified in one step and written in a later one
(`VerifySide`, `WriteSide`), under the chain's lock, which the thread does not take: both
may fall between the thread's reads and its batch. `late` is a history variable, the
blocks that were written when the thread had read their number already, on a parent in its
batch or gone. Faults: a crash at any step keeps of every file what was synced and any
part of the rest, independently per file; a write may fail, with `TornWrites` after a part
of its data. Truncations, removals and batches of the key-value store are durable at once.
Opening runs `Repair` on each table, cuts all to the shortest, and checks for a gap
between the two stores; the code refuses to open with one (`refused`).

**Contracts.** One action per function; a call that fails a `require`, or whose payment
is refused (wallets outside `Payee`), reverts and is no step. `Reward` is a block reward
paid to the contract as coinbase: native balance without a call. `WrappedR5` carries two
history variables, the last approval and what was spent of it. `Contracts` lets the same
wallets call zkNet and the registry; a block passes for both at once.

## 3. Runs

Passing runs:

| Run | Configuration | Question | Bounds |
|---|---|---|---|
| `engine` | `Engine.cfg` | supply along every branch; are mined blocks accepted, uncles unique, calculators equal | five blocks on either of two roots, uncle window 3, epochs of 1 to 6 blocks, words of 7 and 12 bits, delays 0, 1, 12 |
| `chain_segments` | `BlockChainSegments.cfg` | do fork choice, reorg and indexes agree for segments up to 2; do imports end, without loss of difficulty, and are queued blocks imported | six blocks in three branches, the state of one block in memory, a block that fails to execute below another, three blocks ahead of the clock, clock 0 to 2 |
| `chain_crash` | `BlockChainCrash.cfg` | what survives a crash between any two batches | two equal branches of 3, an invalid block, states of 2 blocks in memory, one crash, one stop, one rewind |
| `pool_limits` | `TxPoolLimits.cfg` | limits and local accounts of a crowded pool | six transactions of two accounts, 2 + 1 slots, four calls, one change of threshold |
| `pool_reorgs` | `TxPoolReorgs.cfg` | consistency and promotion under reorgs | four transactions, a fork, two head events, one rewind, two calls |
| `tx_fetcher` | `TxFetcher.cfg` | stages, slots, progress, refinement of `TxRetrieval` | two peers, two hashes, limits of 2; no bound on events |
| `block_fetcher` | `BlockFetcher.cfg` | queue, counters, timers | two peers, two blocks heard of and one not, limits of 1 announcement and 1 block, two announcements waiting, range 0 to 2; no bound on events |
| `miner` | `Miner.cfg` | running, results, catching up | three events of the environment, one transaction, one late result, room for one adjustment and two results, stale threshold 1 |
| `chain_freezer` | `ChainFreezer.cfg` | what survives faults and rewinds during freezing | two tables, files of 3, buffers of 2, batches of 2, four blocks, one rewind, two side blocks, one fault |
| `contracts` | `Contracts.cfg` | accounts, balances, solvency; index and stakes | two wallets, two salts, two subnets, two blocks, 2 R5 each, minimum stake 1 |
| `wrapped` | `WrappedR5.cfg` | backing and approvals | two users, 2 R5 each, allowances 0, 1, large, infinite |

The bounds are chosen so that the interesting cases happen. In `chain_crash`, with two
states in memory, a branch of three blocks loses the state of its first block, so that
repairs walk back; two branches of three allow a reorg and one back. In `chain_segments`
only the state of the head's own height is in memory, and the tree has light blocks `a1`,
`a2`, heavier `b1`, and `c2` on `a1`, heavier than `b1`. So a block whose parent's state is
gone occurs in every order: a side chain is stored and loses, or wins and is imported again
by the nested `insertChain`, over lighter intermediate heads; a known block is met in the
main loop above one that lost its state, once as a lighter head than the import began with;
`b1` replaces `a2` as a lower but heavier head. `b2` fails to execute and `b3` stands on it,
both queued; `c2` is queued and executes. All of 795,122 distinct states are explored, 1.1
million for the miner. The pool has fewer slots than transactions, a
replacement for a transaction in the middle of a list, an account at its guaranteed
slots and one above, and a fork that includes transactions in another order. The
engine's window of three blocks is shorter than its chains of five, so uncles fall out of
it; delays of 12 reach the cut of the difficulty factor and delay 0 a clock behind the
parent; its numbers stay within the scaled words as the real ones stay within theirs. The
transaction fetcher's limits equal the number of hashes, so that both are reached; the
block fetcher's are one, and its three blocks are, with the chain at the genesis, due, too
early and too far, and the first of those heard of is stale at the end. Items of the
freezer's tables straddle files and buffers, and its two side blocks may be one on the other.
The miner has room for one adjustment, where the code has ten, and for two results: with
three events both channels are met full, and the loops do block each other over the first.
The contracts have one user who refuses payments. The passing runs together reach every
action and every disjunct of the next-state relations; one run alone need not, as
`chain_segments` has no crash and `chain_crash` no block ahead of the clock.

Deadlock is checked except where a model is legitimately at rest once its bounded events
are used up: the pool, the engine, the miner and the freezer. What must not stop there is
stated as a liveness property instead.

One run shows a disagreement between the code and what a comment says of it:
`emission_mainnet`, with the mainnet constants: issuance ends 400,000 blocks before the
cap, at 66,325,199.97 R5, while the reported supply jumps to 66,337,700. The finding in
`PROJECT.json` quotes the lines.

Modelling met more places where the code does not do what a comment, or the caller,
expects. Each has a property, stated with the others at the end of its module, and a
configuration in which TLC finds it violated; they are kept for whoever changes that code:

| Configuration | Property | What TLC shows |
|---|---|---|
| `BlockChainKnown.cfg` | `ReorgAddsABlock` | re-importing a segment whose states are partly pruned runs the "impossible" reorg of `blockchain.go:2151` and moves the head to its own ancestor |
| `BlockChainChildren.cfg` | `ChildrenPostponedToo` | of a future segment only the first block is queued (`blockchain.go:1631`; the comment at `:1629` says "and all children") |
| `BlockChainHeavyCrash.cfg` | `CanonicalChainWhenIdle` | a crash between the last two batches of a reorg to a lower head (`blockchain.go:2186` and `:1447`) leaves the old head without canonical hashes, and the restart does not notice |
| `BlockChainStuck.cfg` | `DueBlocksDrain` | a queued block that fails to execute is not taken out of `futureBlocks` (`blockchain.go:1751-1764`): it is tried again for ever, and what is queued on top of it is postponed for ever, until the cache of 256 entries evicts them; `FutureBlocksDrain` is the side that holds |
| `TxPoolOverdraft.cfg` | `PendingIsProcessable` | after a reorg to a poorer state pending can hold a gap (`txpool.go:676`, `:262`); with sufficient balances it cannot, as `pool_reorgs` shows |
| `TxPoolMerged.cfg` | `ProcessableIsPromoted` | a promotion merged with a reset can leave a transaction that follows the pending ones queued (`txpool.go:1378`, `:263`); `NextOnStateIsPromoted` is the side that holds |
| `TxPoolHeads.cfg` | `PoolFollowsHead` | a rewind merged with new heads leaves the pool on an old state (`txpool.go:1328`) |
| `TxFetcherLimit.cfg` | `AnnounceLimit` | an announcement beyond the limit is cut to the number by which it passes it, not to the room left (`tx_fetcher.go:386`) |
| `BlockFetcherStuck.cfg` | `CompletionsEnd` | a body request that is not answered leaves its hash in `completing`, and every later announcement of the hash is dropped, until the block comes another way (`block_fetcher.go:543`; the comment at `:545` says "The request was already rescheduled at this point", which holds for headers) |
| `MinerStopped.cfg` | `StoppedMeansIdle` | threads told to stop while nobody reads the update channel go on (`sealer.go:113`) |
| `MinerJam.cfg` | `NeverJammed` | `mainLoop` waits for room in `resubmitAdjustCh` (`worker.go:1136`) while `newWorkLoop` waits for it to take a request (`worker.go:472`); `select` has to favour other channels for two requests more than there is room, three here, twelve in the code; `WorkFollowsHead` is the side that holds |
| `ChainFreezerOrphans.cfg` | `NoOrphans` | a side block written between the thread's reads and its batch, on a block the batch deletes, stays without its parent (`chain_freezer.go:181-231`); `OnlyLateOrphans` is the side that holds |
| `ChainFreezerTorn.cfg` | `TablesAgree` | a failing write that left a part of its data is not rolled back in a table without new items (`freezer.go:248`) |
| `ChainFreezerExtra.cfg` | `NoExtraAncients` | after a crash between `SetHead`'s markers and its truncation the old frozen blocks stay and hide the new ones (`blockchain.go:330`) |
| `WrappedR5Supply.cfg` | `TotalSupplyIsCirculation` | `totalSupply` counts native R5 nobody wrapped (`WrappedR5.sol:44`) |

More are found when another property is put in the place of the one a configuration names.
In `BlockChainHeavyCrash.cfg`, `HeaviestBlockIsHead` fails: a heavier block at the height of
the head is never chosen (`forkchoice.go:91`; the doc at `:70` says higher total difficulty
wins) and the branch for equal heights below is dead. In `TxPoolHeads.cfg`,
`ResetSurvivesRewind` fails: a rewind that removes the new head of a launched run makes
`reset` use a nil block (`txpool.go:1339`). In `TxPoolLimits.cfg`,
`LocalCallMarksAccount` fails (a local transaction that replaces a pending one does not make
its account local, `txpool.go:794`, doc at `:688`), and so does `ThresholdHolds` (a
transaction below a threshold raised in the meantime enters the pool, `:989`, doc at `:450`).
In `TxFetcher.cfg`, `DropLeavesNoTrace` fails: a dropped peer stays an alternate for hashes
others are fetching (`tx_fetcher.go:668`); the request to it fails, so nothing is stranded. In
`BlockFetcher.cfg`, `AnnouncesWithinLimit` fails: forgetting a hash lowers the counter for
traces that never raised it (`block_fetcher.go:899`), so that a peer may have more announced
than `hashLimit`. With `DeepRaces = TRUE` in `ChainFreezer.cfg`, `ChainReadable` fails: a
rewind below the batch being frozen, more than 90,000 blocks deep, loses hashes of the new
chain (`chain_freezer.go:184`).

Three more properties of `Miner` are violated when put in the place of the one in
`MinerStopped.cfg`: `RemoteFollows` (a restarted search pushes an old block to the remote
miners), `NothingWrittenWhileSyncing` (a sync stops the worker, not the threads), and, with
`MaxTxs = 0` and `MaxEvents = 4`, `AcceptedHasTask` (a remote solution accepted for a task
already cleared). `WorkFollowsHead` fails there with `ResultCap = 1`: a dropped result leaves
nobody searching until the next head.

`CanonicalChain` of `chain_crash` is the other side of `CanonicalChainWhenIdle`: with
branches of equal difficulty the new head of a reorg is never lower than the old one,
and then no crash loses the hashes of the persisted head. `PendingIsAnnounced` holds
without rewinds only: the early return shown by `TxPoolHeads.cfg` leaves the virtual
nonces of the old state, against which the event of a replacement looks stale.
`FutureBlocksDrain` says of queued blocks, those that fail to execute and those on top of
one left aside, that they are stored in the end; one whose parent lost its state is stored
by the side chain, without being the head, and retried until the cache evicts it.
`ImportKeepsTotalDifficulty` compares the head an import leaves with the one it began with,
or with the last known block its main loop has met: that block, above one whose state was
dereferenced, becomes the head without a word of the fork choice (`blockchain.go:1692-1714`)
and may be lighter.

Every property of a passing run has a mutant: a changed definition, kept next to the
original and commented as such, that breaks the code the way a plausible bug would and
makes TLC report the property.

### Fairness

* `BlockChain`: weak fairness of the steps of the lock holder (the code between two
  batches never waits for anybody), of `Stop` and `Restart` (a node told to stop does, and
  is started again), in one condition since at most one of them is possible at a time; of
  the ticker that starts `procFutureBlocks`; and of the clock. `ProcNext` gets strong
  fairness because it competes for the lock: Go's mutex hands the lock to a waiter that has
  starved.
* `TxPool`: weak fairness of `scheduleReorgLoop` receiving each request and launching,
  and every run comes to its end. Behaviours in which a run panics (`ResetSurvivesRewind`) are
  left out of the liveness run.
* `TxFetcher`: weak fairness of time (every wait and every request grows old) and of the
  two cases of the loop that an armed timer enables. Nothing is assumed of peers.
* `BlockFetcher`: weak fairness of the two timers that are set, and of time. Nothing is
  assumed of peers, imports or the chain.
* `Miner`: weak fairness of each loop taking what it can receive, of the update loop
  sending, and of the sealing goroutine noticing a new thread count. None of finding a
  block: the search may go on for ever.
* `ChainFreezer`: weak fairness of the thread, which wakes by a timer, and of a `SetHead`
  in progress.
* Contracts, emission and engine promise nothing that must eventually happen.

## 4. Proofs

TLAPS proves the following for all values of the constants that satisfy the named
assumptions of the modules.

* `BlockChainProofs`. Assumptions: the blocks are finitely many and form a tree in which
  heights grow by one, with no transactions in the genesis block (`TreeAssumption`), and
  the bounds are natural numbers. All results are for every tree and any number of
  crashes, stops and rewinds, where the runs have one of each. The tree facts (a chain
  reaches Genesis, has one block at every height, shares a highest block with another
  chain, has a nearest block with state) are derived from a least-number principle for
  sets of naturals (`NatMin`); `Ancestors` is defined as a least closed set so that this
  needs no induction over a recursive definition. Each result has its own invariant on
  top of the first, preserved action by action:
  * `ChainInvariant`, and from it `BlocksKeepTheirParents` (`NoDanglingBlocks`) and
    `TypeCorrect`. `NoDanglingBlocks` is not inductive: a rewind deletes whole heights of
    all forks in one batch, so that parents survive depends on which heights, where the
    markers are by then, and how they got there. `IndInv` adds that the markers in memory
    equal the persisted ones except inside `writeHeadBlock` (`MarkersOK`), that the target
    and the pending branch of a reorganisation are stored (`ImportOK`), that a rewind's
    deletions start right above the header it has reached, hold with a height every
    stored height that follows it, and leave all markers below (`RewindOK`), and the
    shape of the operation (`ControlOK`).
  * `CanonicalHashesFollowHead` (`CanonicalChain`). `CanonInv` says how far a
    reorganisation has come: the hashes are the chain of its target up to a height, and
    the blocks still to be written are those from there on; the head block is on the
    chain of the head header. The theorem excludes one step, a crash between the last
    two batches of a reorganisation that has not written a head of its branch yet
    (`CrashInWindow`), which is what `BlockChainHeavyCrash.cfg` shows to break it.
  * `NothingLeftAboveHead` (`NothingCanonicalAboveHead`). The deletion after a
    reorganisation stops at the first height without a hash, so the invariant needs that
    the hashes have no gaps. Its hypothesis, a node never stopped or rewound, is the
    property's own.
  * `HeadChainIsValid`: no block with an invalid header or state is ever an ancestor of
    the head or has its state kept (`OnlyValidBlocks`), by any of the ways a block becomes
    the head. No run checks it.
  * `HeadStateKept` (`HeadHasState`), for a node never rewound, or a tree in which a chain
    longer by `TriesInMemory` blocks is heavier. Without one of them a long light side
    chain dereferences the state of the head, and a rewind may later delete that chain.
  * `ImportsGetHeavier` (`ImportKeepsTotalDifficulty`), for every behaviour. The invariant
    follows the target through a side chain and a reorganisation: whatever heads lie in
    between, what an import is on its way to is no lighter than what it began with, or than
    the known block it has met.
  * `LookupsFollowHead` (`CanonicalTxsIndexed`), if no valid chain has a transaction twice
    (`TxsOnce`; nonces see to that), outside the window of the crash above.
* `EngineProofs`, first issuance. Assumptions: the epochs follow one another, the last has begun
  before `FinalBlock`, and the schedule is below the cap at `FinalBlock - 1`
  (`ScheduleAssumption`, `CapAssumption`; both hold of the code's constants, TLC
  evaluates them in `emission_mainnet`). The inductive invariant `IssuanceInv` says that
  `supplyAt[n]` is the closed form below the final block and the closed form of
  `FinalBlock - 1` afterwards. The properties alone are not inductive: the cap at block
  `n + 1` needs the exact supply at `n`. The core is a lemma that the closed form grows
  by exactly `EpochReward(n + 1)` from `n` to `n + 1`, split by epoch. From it:
  `CapNeverExceeded`, `ReportedSupplyCorrect`, `IssuanceEnds`, `TypeCorrect`.
* `EngineProofs`, then the header rules. Assumptions: what the literals of the code
  satisfy (`RulesAssumption`), and, where words could overflow, that the parent's
  difficulty raised by the largest step fits (`RoomFor`). Every calculator is shown to be
  one step (`CalculatorsAreSteps`): the parent's difficulty moved by a factor between -99
  and 2, not below the minimum. Equality of the variants
  (`CalculatorsGiveOneDifficulty`), that a slower block is never harder
  (`LaterIsNotHarder`), and the bounds (`DifficultyInBounds`) follow from that. The prover
  has no theory of division: what is needed of quotients is derived from `Division` in a
  few lemmas. `GasLimitVerifies` gives the miner's gas limit, and with it
  `PreparedHeaderVerifies`: whatever the clock and the ceiling, the header `prepareWork`
  assembles passes `verifyHeader`.
* `EngineProofs`, last the tree of blocks, for every tree that peers and the miner build
  (`EngineAssumption`: the miner looks back as far as the verification, gas limits are
  legal, times fit 64 bits). `EngineInv` says that the chain a block carries agrees with
  its ancestors' at every place, that every block verifies, and that the miner's work
  would verify as it stands, also after side blocks were added to it. Hence
  `MinedBlocksAccepted`. `UnclesRewardedOnce` follows from places: two blocks of a chain
  that name one uncle both lie within the window above it, so the later one looked at the
  earlier one and would have refused. `CalculatorsAgreeOnTree` needs the newest block to
  leave room (`NewestHasRoom`). `SupplyOnEveryBranch` carries the exact supply to every
  block of the tree (`SupplyInv`), so that the cap and the reported supply hold on
  whichever branch a reorganisation makes canonical.
* `ContractsProofs`. For zkNet, `Accountable` says that an account that exists belongs to
  the wallet in its address, which points back to it, a wallet points only to an account
  that exists and bears its name, and an account that does not exist holds nothing: hence
  `AccountsBelongToWallets`. `ZkNetSolvent` and `EveryStakeBacked` are about totals over
  all accounts: a total is the number of units held (`Wallets`), so that credit, debit
  and transfer are statements on the cardinality of a finite set and need no recursion.
  `IndexAgreesWithOwners` is inductive with the types. All hold with both contracts paid
  from one balance. For the WR5 token, `EveryTokenBacked` (`Backed`) by the same totals, and
  `ApprovalsAreLimits` (`SpendingWithinApproval`), for which the invariant says that what
  is left of a finite allowance is what was granted less what was drawn.
* `FetcherProofs`, first the transaction fetcher. `Sound` is a predicate on the maps as a record, because the handlers
  of the loop build such records one after the other: a waiting hash is in no other
  stage, a fetched one has alternates and exactly one peer whose request covers it, and
  announcements lie within the offers. `StagesAreExclusive`, `SlotsAreAccounted` and
  `TypeCorrect` follow, and `RefinesRetrieval`: initial states and steps of the fetcher
  are initial states and steps of `TxRetrieval` under the mapping.
* `FetcherProofs`, then the block fetcher. Assumption: the blocks heard of are finitely many
  (`BlockFetcherAssumption`). The fetcher forgets and enqueues with folds, and what is
  proved of them is what one step keeps: `FoldExists` (`FoldLemmas`) gives the function a
  fold computes with, built up by the size of the subset, and `SubsetInduction` carries a
  set of fetcher states that one step does not leave through the fold (both from
  `LeastNumber`). The
  invariant has three parts: `Placed` (a queued block is in one of queue, imports and
  reports), `Charged` (`queues` counts the queued blocks of each peer) and `Allowed`
  (`announces` is at most what waits). `Charged` and `Allowed` hold between any two
  changes an event makes, `Placed` only at its end: a finished block is still queued when
  it has left the reports. `AllowancesReturn` rests on `WaitingChange`, that the number
  waiting changes by what one hash changes, and on `forgetHash` lowering a counter at
  least once for every announcement it removes. From them `BlocksQueuedOnce` (`QueuedOnce`)
  and `AllowancesReturn` (`AllowanceReturns`).
* `TxPoolProofs`. Assumptions: finitely many transactions and blocks, with types
  (`PoolAssumption`). Every section under `pool.mu` is a function from pools to pools, so
  the lemmas are about pools. `Tidy` is `LookupMatchesLists` of any pool, with the fact
  that the lookup counts no transaction of a local account as remote: removing by nonce
  finds the right transaction only in a tidy pool, and `Discard`, `SetGasPrice` and
  eviction spare local accounts only because of that fact. `Shrinks`, `Added`, `Results`
  and `Trims` say what removing, adding, reinjecting and the parts of `runReorg` do to a
  tidy pool; folds of removals and reinjections, one inside the other, keep them by the
  lemmas of `FoldLemmas`. `Kept` is why a transaction of a local account may be gone; it
  is stronger than `LocalsAreKept`, since a chain of replacements must end in one the
  account can pay for (`KeptMore`). `PendingIsAnnounced` alone is not inductive: `Announced`
  follows the events into the run in progress, through the filter of stale ones, which
  loses nothing because `Reset` lowers the nonces to the new state first. Hence
  `TypeCorrect`, `ListsMatchLookup`, `PendingAnnounced` and `LocalsKept`. `LimitsKept`
  (`LimitsRestored`) counts: `Cap` takes as many transactions as asked, or all
  (`HighestTakes`), the sums of `truncatePending` and `truncateQueue` are at most the sizes
  of the disjoint sets they take (`SumAtMost`), and the first account of `truncateQueue`'s
  order that keeps something shows that the whole excess is gone. A run that panics is
  excluded by the property.
* `MinerProofs`. `WorkerRunsWhenWanted` (`RunsWhenWanted`) from the agreement of the update
  loop's flags (`RunInv`). For `FreshSealsHaveTasks` (`FreshResultsHaveTasks`), `Live(t)`
  says that a result for task `t` may still come: it is being sealed, restarted, found by
  a goroutine of a replaced task, known to remote miners or among the results.
  `FreshInv`, that every live task that is not stale is pending, is preserved because a
  step makes no task live that was not live or pending (`Steady`), because the head never
  falls, and because no number in `chainHeadCh` is above it, so that `newWorkLoop` clears
  only what is stale for the head. `TypeCorrect` also shows that every number of a block
  is within the blocks made.

* `ChainFreezerProofs`. Hypotheses: `~DeepRaces` (a rewind spares the blocks of the
  thread's batch, and no crash cuts short one that reaches frozen blocks: what is excluded
  takes a rewind by more than 90,000 blocks) and `~TornWrites` (a write that fails leaves
  nothing); without them `ChainFreezerExtra.cfg` and `ChainFreezerTorn.cfg` show what goes
  wrong. The sizes, limits, tables and lengths are arbitrary, but for items
  that fit a file (2 GB in the code); the bound on the number of files (`LastFile`) is the
  one an item per file needs. Crashes keep any part of what was
  not synced and may come at every step, as often as `MaxFaults` says.
  * One table. `TableOK(t, z, V)` says that each item has `z` units and starts where the
    one before ends or a file begins (`Chained`), that index entries move forwards through
    the files (`Ordered`), that the units of item `n` are those of version `V[n]` of its
    block (`HoldsAll`), that the head file ends with the last item or is new and empty
    (`HeadFits`), and that older files are synced (`OldFilesSynced`), which is why
    `advanceHead` syncs. `Safe(t, d)` says that the first `d` items survive a crash.
    `AppendOK`, `TruncateOK`, `SyncOK` and `RepairOK` say what each operation keeps of
    them; the last, that the items dropped by the loop of `repair` are exactly those whose
    data did not reach the disk, is the longest: an index that is on disk further than its
    data, data further than the index, and a loop that slips back over a file boundary.
  * The two stores. The tables and their write batch hold the numbers below `Total`, those
    below `Kept` survive a crash, and from `Wiped` on the key-value store has the chain
    (`StoreInv`); `Wiped <= Kept <= Total` at every step of `freezeRange` is what makes the
    order of commit, sync and deletion right. `V`, the versions the tables hold, is the
    chain below `Total` (`FrozenIsChain`). From this `ChainAlwaysReadable`
    (`ChainReadable`), `TablesAlwaysAgree` (`TablesAgree`), `DatabaseAlwaysOpens`
    (`AlwaysOpens`) and `NoAncientsAboveHead`, the promise that `ChainFreezerExtra.cfg`
    breaks.
  * Side chains. `ParentInv`: until something fails, a stored block has its parent frozen,
    or stored and not in the thread's batch, or is in that batch itself, or about to be
    found on top of it (`Attached`), or is one that a rewind is about to delete, or was
    written too late. It needs that a stored block on the chain has the chain's parent
    (`VersionInv`) and that the thread puts in its batch only blocks that are not on the
    chain and never will be again (`SideInv`, `OffChain`), whatever is imported or rewound
    while it reads. Hence `OrphansAreLate` (`OnlyLateOrphans`): a block left without its
    parent is one whose number had been read. That there are such blocks is shown by
    `ChainFreezerOrphans.cfg`.

Only model-checked. Liveness under fairness is out of this prover's reach: the temporal
properties of `BlockChain`, `TxPool`, `TxFetcher` (with it the liveness part of
`TxRetrieval`), `BlockFetcher`, `Miner` and `ChainFreezer`. What a fold computes for
every input needs induction over data, of which only the part used for `BlockFetcher` and
`TxPool` is available, that a fold keeps what its steps keep, and induction over the
natural numbers for a given set (`AllNumbers`). Of `TxPool`,
`PendingIsProcessable` does not hold for all constants (with balances that shrink in a
reorg it fails, `TxPoolOverdraft.cfg`) and is left to TLC, with its bounds. The freezer
with `DeepRaces` or `TornWrites` is only explored by runs. Type invariants are theorems for
eight specifications and the token.

## 5. Not modelled, and why

* EVM, state transition, cryptography, hashimoto: whether a block verifies and executes
  is an input of `BlockChain` (`BadHeader`, `BadState`); `Engine` has no seal.
* Tries and snapshots: below the batches of `BlockChain`, abstracted to the sets of
  blocks whose state is in memory and on disk.
* Freezer: deletion from the tail (nothing calls it), table migration, read-only mode,
  compression, metadata files. Truncations that a power failure undoes.
* Snap sync, header-only import, the engine API's entry points: other ways into the same
  chain, of which only the first is used on an R5 network.
* Pool: the order of the price heaps and their stale counter (`list.go:541`), transactions
  of several slots, gas limits, dynamic fees (London is not scheduled), loading the
  journal, and a crash during its rotation (`journal.go:129`).
* Transaction fetcher: the underpriced set and the pool lookup that filter announcements
  before the loop.
* Miner: payloads and `getWork` of the engine API, the length of the recommit interval,
  the unconfirmed ring (logging), failing writes, hash rates and HTTP notifications of
  the remote sealer.
* Block fetcher: the light mode, which imports headers, and the rewinds of the chain, which
  it never hears of.
* Downloader, protocol handler: see the plan.
* p2p, RPC, light client, accounts, clique, beacon: upstream code the protocol's own
  logic does not depend on. Python tools: sequential programs without state.

## 6. Plan

The index keeps one run per distinct question and no more than a dozen: as components are
added, runs that ask related questions of one module are joined.

1. `Downloader`: queue and result store with reservation, expiry, cancellation.
2. `PricedList`: the two heaps, the stale counter and `Reheap`, checked against the set
   of remote transactions; then compose with `TxPool` in place of the free choice. The
   journal across crashes.
3. `ChainAbstract`: what a reader may rely on (a head, a chain, a lookup), with
   `BlockChain` shown to implement it outside the window of `BlockChainHeavyCrash.cfg`.
4. Proofs: of `ChainFreezer` the steps that hold even with `DeepRaces`, with the window of
   `ChainFreezerExtra.cfg` excluded instead.
