-------------------------------- MODULE Miner --------------------------------
(***************************************************************************)
(* Block production: the update loop of the miner, the four loops of its   *)
(* worker and ethash's local and remote sealing (client/miner/miner.go,    *)
(* client/miner/worker.go, client/consensus/ethash/sealer.go).             *)
(*                                                                         *)
(* Each goroutine is a group of actions, each channel a variable: an       *)
(* unbuffered one is a step of both ends.  A block is its number and an    *)
(* identity.  A task is what its seal hash covers, the parent, the         *)
(* transactions and the uncles, but for the time.  Transactions are        *)
(* reduced to the version of the pool they were taken from.  The chain is  *)
(* external: blocks arrive, extend the head or replace it, and a sealed    *)
(* block that extends the head becomes the head.                           *)
(***************************************************************************)
EXTENDS Naturals, Sequences, FiniteSets

CONSTANTS
    StaleThreshold,   \* staleThreshold: 7
    MaxUncles,        \* uncles of a block: 2
    AdjustCap,        \* resubmitAdjustChanSize: 10
    ResultCap,        \* resultQueueSize: 10
    MaxTxs,           \* bound: transactions
    MaxLate,          \* bound: results of replaced tasks on their way
    MaxEvents,        \* bound: blocks, results, calls, syncs and transactions
    None

ASSUME MinerAssumption ==
    /\ {StaleThreshold, AdjustCap, ResultCap} \subseteq Nat \ {0}
    /\ {MaxUncles, MaxTxs, MaxLate, MaxEvents} \subseteq Nat
    /\ None \notin {"search", "restart"}

VARIABLES
    head,         \* the chain's current block
    made,         \* how many blocks were made beyond the first
    headCh,       \* chainHeadCh: numbers of new heads
    sideCh,       \* chainSideCh: blocks beside the chain
    pool,         \* transactions that have arrived in the pool
    syncing,      \* between StartEvent and DoneEvent or FailedEvent
    subscribed,   \* does the update loop listen to the downloader?
    canStart, shouldStart,
    starting,     \* the update loop is sending to startCh
    running,      \* worker.running
    startCh,      \* is there something in startCh (of size 1)?
    timer,        \* is the recommit timer armed?
    newTxs,       \* newTxs: any transactions since the last request?
    req,          \* the request newWorkLoop is sending to newWorkCh, or None
    signal,       \* interrupt of the request the main loop is working on
    adjustCh,     \* how many adjustments are in resubmitAdjustCh
    step,         \* where the main loop is: "select", "fill" or "adjust"
    work,         \* the work it is building
    current,      \* w.current; the snapshot of the pending block is always its copy
    uncles,       \* localUncles and remoteUncles
    prev,         \* the last task of the task loop
    pendingTasks,
    threads,      \* does the engine use local threads?
    sealing,      \* goroutine of the local Seal of prev: its phase, or None
    mining,       \* did that Seal start threads?
    late,         \* goroutines of replaced tasks: about to restart, or with a nonce found
    works,        \* the remote sealer's works
    currentBlock, \* the remote sealer's current work
    resultCh,
    calls,        \* how often the user, the downloader or the pool have acted
    wanted        \* ghost: was the user's last call a Start?

chainVars  == <<head, made, headCh, sideCh>>
updateVars == <<syncing, subscribed, canStart, shouldStart, starting, running, wanted>>
loopVars   == <<startCh, timer, newTxs, req, signal, adjustCh>>
mainVars   == <<step, work, current, uncles>>
sealVars   == <<sealing, mining, late, works, currentBlock>>
taskVars   == <<prev, pendingTasks, sealVars>>
vars == <<chainVars, pool, updateVars, loopVars, mainVars, taskVars, threads, resultCh,
          calls>>

Block  == [num : 0 .. MaxEvents, id : 0 .. MaxEvents]
Task   == [parent : Block, txs : 0 .. MaxTxs, uncles : SUBSET Block]

(***************************************************************************)
(* The bound on the behaviours that TLC explores.                          *)
(***************************************************************************)
Room == made + Len(resultCh) + calls < MaxEvents

Number(task) == task.parent.num + 1
Genesis == [num |-> 0, id |-> 0]

TypeOK ==
    /\ head \in Block /\ made \in 0 .. MaxEvents
    /\ headCh \in Seq(0 .. MaxEvents) /\ sideCh \in Seq(Block)
    /\ pool \in 0 .. MaxTxs
    /\ {syncing, subscribed, canStart, shouldStart, starting, running, wanted} \subseteq BOOLEAN
    /\ {startCh, timer, newTxs} \subseteq BOOLEAN
    /\ req \in [noempty : BOOLEAN] \cup {None}
    /\ signal \in {"none", "newHead", "resubmit"}
    /\ adjustCh \in 0 .. AdjustCap
    /\ step \in {"select", "fill", "adjust"}
    /\ {work, current, prev, currentBlock} \subseteq Task \cup {None}
    /\ uncles \subseteq Block
    /\ pendingTasks \subseteq Task
    /\ sealing \in {"search", "restart", None}
    /\ {threads, mining} \subseteq BOOLEAN
    /\ late \subseteq [task : Task, restart : BOOLEAN]
    /\ works \subseteq Task
    /\ resultCh \in Seq(Task) /\ Len(resultCh) <= ResultCap
    /\ calls \in 0 .. MaxEvents

(***************************************************************************)
(* newWorker puts the first request into startCh; the node may have called *)
(* Start right away.                                                       *)
(***************************************************************************)
Init ==
    /\ head = Genesis /\ made = 0 /\ headCh = <<>> /\ sideCh = <<>>
    /\ pool = 0
    /\ syncing = FALSE /\ subscribed = TRUE /\ canStart = TRUE
    /\ wanted \in BOOLEAN
    /\ shouldStart = wanted /\ starting = wanted /\ running = wanted
    /\ startCh = TRUE /\ timer = FALSE /\ newTxs = FALSE
    /\ req = None /\ signal = "none"
    /\ adjustCh = 0
    /\ step = "select" /\ work = None /\ current = None /\ uncles = {}
    /\ prev = None /\ pendingTasks = {} /\ threads = TRUE
    /\ sealing = None /\ mining = FALSE /\ late = {} /\ works = {} /\ currentBlock = None
    /\ resultCh = <<>>
    /\ calls = 0

-----------------------------------------------------------------------------
(***************************************************************************)
(* The chain and the pool (external)                                       *)
(***************************************************************************)

(***************************************************************************)
(* The chain adopts block b; a head that b does not extend is left beside  *)
(* the chain.                                                              *)
(***************************************************************************)
Adopt(b, extends) ==
    /\ head' = b
    /\ headCh' = Append(headCh, b.num)
    /\ sideCh' = IF extends THEN sideCh ELSE Append(sideCh, head)

Fresh(n) == [num |-> n, id |-> made + 1]

ImportBlock ==
    /\ Room
    /\ made' = made + 1
    /\ \/ Adopt(Fresh(head.num + 1), TRUE)
       \/ head.num > 0 /\ Adopt(Fresh(head.num), FALSE)
    /\ UNCHANGED <<pool, updateVars, loopVars, mainVars, taskVars, threads, resultCh, calls>>

-----------------------------------------------------------------------------
(***************************************************************************)
(* Miner.update                                                            *)
(***************************************************************************)

(***************************************************************************)
(* worker.start: the flag, then startCh, where the loop may have to wait.  *)
(***************************************************************************)
Start == running' = TRUE /\ starting' = TRUE
StopWorker == running' = FALSE /\ UNCHANGED starting
LeaveWorker == UNCHANGED <<running, starting>>

StartEvent ==
    /\ syncing' = TRUE /\ canStart' = FALSE
    /\ shouldStart' = (shouldStart \/ running)
    /\ StopWorker
    /\ UNCHANGED <<subscribed, wanted>>

(***************************************************************************)
(* The end of a sync; after a successful one the loop listens no more.     *)
(***************************************************************************)
EndEvent(done) ==
    /\ syncing' = FALSE /\ canStart' = TRUE
    /\ subscribed' = ~done
    /\ IF shouldStart THEN Start ELSE LeaveWorker
    /\ UNCHANGED <<shouldStart, wanted>>

StartCh ==
    /\ IF canStart THEN Start ELSE LeaveWorker
    /\ shouldStart' = TRUE /\ wanted' = TRUE
    /\ UNCHANGED <<syncing, subscribed, canStart>>

\* Mutant: Stop during a sync is forgotten.
StopChForgotten ==
    /\ shouldStart' = (shouldStart /\ ~canStart) /\ wanted' = FALSE
    /\ StopWorker
    /\ UNCHANGED <<syncing, subscribed, canStart>>

StopCh ==
    /\ shouldStart' = FALSE /\ wanted' = FALSE
    /\ StopWorker
    /\ UNCHANGED <<syncing, subscribed, canStart>>

(***************************************************************************)
(* Start, Stop and the downloader's events, in any order that makes sense. *)
(***************************************************************************)
Update ==
    /\ ~starting
    /\ \/ /\ Room /\ calls' = calls + 1
          /\ StartCh \/ StopCh \/ (subscribed /\ ~syncing /\ StartEvent)
       \/ syncing /\ (\E done \in BOOLEAN : EndEvent(done)) /\ UNCHANGED calls
    /\ UNCHANGED <<chainVars, pool, loopVars, mainVars, taskVars, threads, resultCh>>

SendStart ==
    /\ starting /\ ~startCh
    /\ startCh' = TRUE /\ starting' = FALSE
    /\ UNCHANGED <<chainVars, pool, syncing, subscribed, canStart, shouldStart, running,
                   wanted, timer, newTxs, req, signal, adjustCh, mainVars, taskVars, threads,
                   resultCh, calls>>

-----------------------------------------------------------------------------
(***************************************************************************)
(* newWorkLoop                                                             *)
(***************************************************************************)

\* Mutant: tasks for the block after the next are dropped as well.
ClearPendingEarly(number) == {t \in pendingTasks : Number(t) + StaleThreshold > number + 1}

ClearPending(number) == {t \in pendingTasks : Number(t) + StaleThreshold > number}

\* Mutant: a request is dropped while the main loop is busy.
CommitIfIdle(noempty, s) ==
    /\ signal' = IF step = "fill" THEN s ELSE "none"
    /\ req' = IF step = "select" THEN [noempty |-> noempty] ELSE None

(***************************************************************************)
(* commit: interrupt the work in progress and offer a new request.         *)
(***************************************************************************)
Commit(noempty, s) ==
    /\ signal' = IF step = "fill" THEN s ELSE "none"
    /\ req' = [noempty |-> noempty]

NewRound(number) ==
    /\ pendingTasks' = ClearPending(number)
    /\ Commit(FALSE, "newHead")

NewWorkLoop(action) ==
    /\ req = None
    /\ action
    /\ UNCHANGED <<head, made, sideCh, pool, updateVars, mainVars, prev, sealVars,
                   threads, resultCh, calls>>

ReceiveStart == NewWorkLoop(
    /\ startCh
    /\ NewRound(head.num)
    /\ startCh' = FALSE
    /\ UNCHANGED <<headCh, timer, newTxs, adjustCh>>)

ReceiveHead == NewWorkLoop(
    /\ headCh # <<>>
    /\ NewRound(Head(headCh))
    /\ headCh' = Tail(headCh)
    /\ UNCHANGED <<startCh, timer, newTxs, adjustCh>>)

(***************************************************************************)
(* The recommit timer: new transactions cause a request without an empty   *)
(* block; a worker that does not run lets the timer rest.                  *)
(***************************************************************************)
Tick == NewWorkLoop(
    /\ timer
    /\ IF ~running
       THEN timer' = FALSE /\ UNCHANGED <<req, signal>>
       ELSE newTxs /\ UNCHANGED timer /\ Commit(TRUE, "resubmit")
    /\ UNCHANGED <<startCh, headCh, newTxs, adjustCh, pendingTasks>>)

ReceiveAdjust == NewWorkLoop(
    /\ adjustCh > 0
    /\ adjustCh' = adjustCh - 1
    /\ UNCHANGED <<startCh, headCh, timer, newTxs, req, signal, pendingTasks>>)

-----------------------------------------------------------------------------
(***************************************************************************)
(* taskLoop and Seal                                                       *)
(***************************************************************************)

(***************************************************************************)
(* The goroutine that seals the last task may miss that it is stopped: it  *)
(* has left its select to restart, or it finds a result and the stop ready *)
(* and takes the result.                                                   *)
(***************************************************************************)
Leftovers ==
    CASE sealing = "restart" -> {{[task |-> prev, restart |-> TRUE]}}
      [] mining /\ Room /\ Cardinality(late) < MaxLate -> {{}, {[task |-> prev, restart |-> FALSE]}}
      [] OTHER -> {{}}

(***************************************************************************)
(* A new task: the sealing of the last one is stopped, the task is         *)
(* remembered and handed to the remote sealer, and local threads start.    *)
(***************************************************************************)
SealTask(t) ==
    /\ prev' = t
    /\ pendingTasks' = pendingTasks \cup {t}
    /\ sealing' = "search" /\ mining' = threads
    /\ \E ls \in Leftovers : late' = late \cup ls
    /\ works' = works \cup {t} /\ currentBlock' = t

(***************************************************************************)
(* worker.commit while running: a task with the seal hash of the last one  *)
(* is ignored.  Equal tasks may still differ in their time.                *)
(***************************************************************************)
CommitTask(t) ==
    \/ running /\ SealTask(t)
    \/ (~running \/ t = prev) /\ UNCHANGED taskVars

-----------------------------------------------------------------------------
(***************************************************************************)
(* mainLoop                                                                *)
(***************************************************************************)
MainUnchanged == UNCHANGED <<head, made, headCh, updateVars, startCh, threads,
                             resultCh, calls>>

(***************************************************************************)
(* The uncles a block on top of parent may have: whether a side block is a *)
(* valid uncle depends on the ancestors, but it is older than the block.   *)
(***************************************************************************)
UncleSets(parent) ==
    {us \in SUBSET {u \in uncles : u.num <= parent.num} : Cardinality(us) <= MaxUncles}

(***************************************************************************)
(* A request: prepareWork reads the head, and the empty block is sealed in *)
(* advance unless the request says otherwise.  newWorkLoop resets its      *)
(* timer and the count of transactions.                                    *)
(***************************************************************************)
ReceiveWork ==
    /\ step = "select" /\ req # None
    /\ \E us \in UncleSets(head) :
          LET env == [parent |-> head, txs |-> 0, uncles |-> us]
          IN  /\ work' = env
              /\ IF req.noempty THEN UNCHANGED taskVars ELSE CommitTask(env)
    /\ step' = "fill"
    /\ req' = None /\ signal' = "none" /\ timer' = TRUE /\ newTxs' = FALSE
    /\ UNCHANGED <<pool, sideCh, adjustCh, current, uncles>>
    /\ MainUnchanged

(***************************************************************************)
(* fillTransactions ends with the work filled with some transactions; an   *)
(* interrupt is only looked at between transactions, and means nothing     *)
(* from then on.                                                           *)
(***************************************************************************)
FillTransactions ==
    /\ step = "fill"
    /\ \E n \in (IF signal = "resubmit" THEN 0 .. pool ELSE {pool}) :
          work' = [work EXCEPT !.txs = n]
    /\ step' = "adjust" /\ signal' = "none"
    /\ UNCHANGED <<pool, sideCh, timer, newTxs, req, adjustCh, current, uncles, taskVars>>
    /\ MainUnchanged

(***************************************************************************)
(* newWorkLoop is told how it went: while resubmitAdjustCh is full, the    *)
(* main loop waits, and receives no request.  Then the block is sealed and *)
(* becomes the current work.                                               *)
(***************************************************************************)
CommitFull ==
    /\ step = "adjust"
    /\ adjustCh < AdjustCap
    /\ adjustCh' = adjustCh + 1
    /\ CommitTask(work) /\ current' = work
    /\ work' = None /\ step' = "select"
    /\ UNCHANGED <<pool, sideCh, timer, newTxs, req, signal, uncles>>
    /\ MainUnchanged

(***************************************************************************)
(* A block interrupted by a new head is discarded.                         *)
(***************************************************************************)
DiscardWork ==
    /\ step = "fill" /\ pool > 0 /\ signal = "newHead"
    /\ work' = None /\ step' = "select" /\ signal' = "none"
    /\ UNCHANGED <<pool, sideCh, timer, newTxs, req, adjustCh, current, uncles, taskVars>>
    /\ MainUnchanged

(***************************************************************************)
(* A block beside the chain becomes a possible uncle, and an uncle of the  *)
(* current work if that has room for it and it is valid.                   *)
(***************************************************************************)
ReceiveSide ==
    /\ step = "select" /\ sideCh # <<>>
    /\ sideCh' = Tail(sideCh)
    /\ LET u == Head(sideCh)
           better == [current EXCEPT !.uncles = @ \cup {u}]
       IN  /\ uncles' = uncles \cup {u}
           /\ \/ /\ running /\ u \notin uncles /\ current # None
                 /\ Cardinality(current.uncles) < MaxUncles /\ u.num <= current.parent.num
                 /\ u \notin current.uncles
                 /\ CommitTask(better)
                 /\ current' = better
              \/ UNCHANGED <<current, taskVars>>
    /\ UNCHANGED <<pool, timer, newTxs, req, signal, adjustCh, step, work>>
    /\ MainUnchanged

CleanTicker ==
    /\ step = "select"
    /\ uncles' = {u \in uncles : u.num + StaleThreshold > head.num}
    /\ uncles' # uncles
    /\ UNCHANGED <<pool, sideCh, timer, newTxs, req, signal, adjustCh, step, work, current, taskVars>>
    /\ MainUnchanged

(***************************************************************************)
(* New transactions go into the pending block of a worker at rest.         *)
(***************************************************************************)
ReceiveTxs ==
    /\ step = "select"
    /\ pool < MaxTxs /\ pool' = pool + 1
    /\ Room /\ calls' = calls + 1
    /\ newTxs' = TRUE
    /\ IF ~running /\ current # None
       THEN \E n \in {current.txs, pool'} :
               current' = [current EXCEPT !.txs = n]
       ELSE UNCHANGED current
    /\ UNCHANGED <<sideCh, timer, req, signal, adjustCh, step, work, uncles, taskVars>>
    /\ UNCHANGED <<head, made, headCh, updateVars, startCh, threads, resultCh>>

-----------------------------------------------------------------------------
(***************************************************************************)
(* The sealing                                                             *)
(***************************************************************************)
SealUnchanged == UNCHANGED <<chainVars, pool, updateVars, loopVars, mainVars, prev, pendingTasks>>

Offer(t) == resultCh' = IF Len(resultCh) < ResultCap THEN Append(resultCh, t) ELSE resultCh

(***************************************************************************)
(* A local thread finds a nonce, which ends the search.  The result is     *)
(* dropped when nobody reads the results.                                  *)
(***************************************************************************)
FindSeal ==
    /\ mining
    /\ Room
    /\ sealing' = None /\ mining' = FALSE
    /\ Offer(prev)
    /\ UNCHANGED <<late, works, currentBlock, threads, calls>>
    /\ SealUnchanged

(***************************************************************************)
(* SetThreads tells the goroutine, unless that has not yet reached its     *)
(* select.                                                                 *)
(***************************************************************************)
SetThreads(on) ==
    /\ Room /\ calls' = calls + 1
    /\ threads' = on
    /\ \/ sealing = "search" /\ sealing' = "restart" /\ mining' = FALSE
       \/ UNCHANGED <<sealing, mining>>
    /\ UNCHANGED <<late, works, currentBlock, resultCh>>
    /\ SealUnchanged

(***************************************************************************)
(* The goroutine calls Seal again, which hands the task to the remote      *)
(* sealer once more.                                                       *)
(***************************************************************************)
RestartSeal ==
    /\ sealing = "restart"
    /\ sealing' = "search" /\ mining' = threads
    /\ works' = works \cup {prev} /\ currentBlock' = prev
    /\ UNCHANGED <<late, threads, resultCh, calls>>
    /\ SealUnchanged

(***************************************************************************)
(* A goroutine of a replaced task goes on: it delivers its result, or      *)
(* calls Seal again, which hands the old task to the remote sealer.        *)
(***************************************************************************)
LateSeal(l) ==
    /\ late' = late \ {l}
    /\ IF l.restart
       THEN works' = works \cup {l.task} /\ currentBlock' = l.task /\ UNCHANGED resultCh
       ELSE Room /\ Offer(l.task) /\ UNCHANGED <<works, currentBlock>>
    /\ UNCHANGED <<sealing, mining, threads, calls>>
    /\ SealUnchanged

(***************************************************************************)
(* A remote miner's solution is accepted: for one of the works, not too    *)
(* old for the current one, and the results are read.  (The same solution  *)
(* submitted twice is a block the chain has: nothing happens.)             *)
(***************************************************************************)
SubmitWork(t) ==
    /\ Room
    /\ Number(t) + StaleThreshold > Number(currentBlock)
    /\ Len(resultCh) < ResultCap
    /\ Offer(t)
    /\ UNCHANGED <<sealVars, threads, calls>>
    /\ SealUnchanged

(***************************************************************************)
(* The remote sealer's ticker forgets old works.                           *)
(***************************************************************************)
ClearWorks ==
    /\ currentBlock # None
    /\ works' = {t \in works : Number(t) + StaleThreshold > Number(currentBlock)}
    /\ works' # works
    /\ UNCHANGED <<sealing, mining, late, currentBlock, threads, resultCh, calls>>
    /\ SealUnchanged

-----------------------------------------------------------------------------
(***************************************************************************)
(* resultLoop: a result that the chain has, or whose task was cleared, is  *)
(* dropped; any other is written.  It is the new head if it extends the    *)
(* head; otherwise that is up to the fork choice, which needs a higher     *)
(* block.                                                                  *)
(***************************************************************************)
ReceiveResult ==
    /\ resultCh # <<>>
    /\ resultCh' = Tail(resultCh)
    /\ LET t == Head(resultCh)
           b == Fresh(Number(t))
       IN  IF t \notin pendingTasks
           THEN UNCHANGED chainVars
           ELSE /\ made' = made + 1
                /\ \/ t.parent = head /\ Adopt(b, TRUE)
                   \/ t.parent # head /\ b.num > head.num /\ Adopt(b, FALSE)
                   \/ /\ t.parent # head
                      /\ sideCh' = Append(sideCh, b)
                      /\ UNCHANGED <<head, headCh>>
    /\ UNCHANGED <<pool, updateVars, loopVars, mainVars, taskVars, threads, calls>>

-----------------------------------------------------------------------------
MainLoop ==
    \/ ReceiveWork \/ FillTransactions \/ CommitFull \/ DiscardWork
    \/ ReceiveSide \/ CleanTicker \/ ReceiveTxs

Next ==
    \/ ImportBlock
    \/ Update \/ SendStart
    \/ ReceiveStart \/ ReceiveHead \/ Tick \/ ReceiveAdjust
    \/ MainLoop
    \/ FindSeal \/ RestartSeal \/ ClearWorks
    \/ \E on \in BOOLEAN : SetThreads(on)
    \/ \E t \in works : SubmitWork(t)
    \/ \E l \in late : LateSeal(l)
    \/ ReceiveResult

(***************************************************************************)
(* Every goroutine that can take a step takes one in the end; a ticker     *)
(* does not count as one.  Nothing is assumed of the network, the user or  *)
(* the luck of the miners, nor of the order in which a select serves its   *)
(* channels.                                                               *)
(***************************************************************************)
Fairness ==
    /\ WF_vars(SendStart)
    /\ WF_vars(ReceiveStart \/ ReceiveHead \/ ReceiveAdjust)
    /\ WF_vars(ReceiveWork \/ FillTransactions \/ CommitFull \/ DiscardWork)
    /\ WF_vars(RestartSeal)
    /\ WF_vars(ReceiveResult)

Spec == Init /\ [][Next]_vars /\ Fairness

-----------------------------------------------------------------------------
(***************************************************************************)
(* Whatever the order of Start, Stop and the downloader's events, the      *)
(* worker runs exactly when the user's last call was Start and no sync     *)
(* that the update loop listens to is in progress.                         *)
(***************************************************************************)
RunsWhenWanted == running <=> wanted /\ ~syncing

(***************************************************************************)
(* A sealed block that is less than StaleThreshold behind the head finds   *)
(* its task when resultLoop looks for it, although newWorkLoop clears the  *)
(* pending tasks while local and remote sealers deliver late: only blocks  *)
(* too old to matter are lost.                                             *)
(***************************************************************************)
FreshResultsHaveTasks ==
    \A k \in DOMAIN resultCh :
       Number(resultCh[k]) + StaleThreshold > head.num => resultCh[k] \in pendingTasks

(***************************************************************************)
(* newWorkLoop waits for the main loop to receive a request, the main loop *)
(* waits for newWorkLoop to receive an adjustment: neither ever goes on.   *)
(* select chooses at random among the channels that are ready, so that     *)
(* AdjustCap + 2 requests in a row, with no adjustment received, suffice.  *)
(***************************************************************************)
Jammed == req # None /\ step = "adjust" /\ adjustCh = AdjustCap

(***************************************************************************)
(* As long as local mining is never switched off, and unless the loops jam *)
(* as above: once the chain rests, the pending block builds on the head,   *)
(* and if the worker runs, so does the last task, and the threads are      *)
(* searching.  No request that matters is lost between interrupts,         *)
(* recommits, side blocks, duplicates and a main loop that waits for room  *)
(* in resubmitAdjustCh, there is no other way for the loops to wait for    *)
(* each other, and after a block found, a block lost or a Stop and a Start *)
(* somebody starts the threads again.                                      *)
(***************************************************************************)
WorkFollowsHead ==
    []threads =>
       <>[](\/ Jammed
            \/ /\ current # None /\ current.parent = head
               /\ running => mining /\ prev.parent = head)

(***************************************************************************)
(* Some statements that do not hold of this code.                          *)
(*                                                                         *)
(* The loops never wait for each other.                                    *)
(***************************************************************************)
NeverJammed == ~Jammed

(***************************************************************************)
(* StopMining "terminates the miner, both at the consensus engine level as *)
(* well as at the block creation level": switching the threads off stops a *)
(* search in the end.  SetThreads does not wait, and a Seal that has read  *)
(* the number of threads but has not reached its select misses it.         *)
(***************************************************************************)
StoppedMeansIdle == <>[](~threads => ~mining)

(***************************************************************************)
(* "Mining aborted due to sync": no own block is written during a sync.    *)
(* worker.stop leaves the sealers alone and resultLoop does not ask.       *)
(***************************************************************************)
NothingWrittenWhileSyncing ==
    [][ReceiveResult /\ ~canStart => UNCHANGED made]_vars

(***************************************************************************)
(* A solution reported to a remote miner as accepted finds its task.  The  *)
(* remote sealer measures staleness against its current work, newWorkLoop  *)
(* against the head.                                                       *)
(***************************************************************************)
AcceptedHasTask ==
    [][\A t \in works : SubmitWork(t) => t \in pendingTasks]_vars

(***************************************************************************)
(* Remote miners get the last task in the end.  A restart of a replaced    *)
(* task overwrites it.                                                     *)
(***************************************************************************)
RemoteFollows == <>[](currentBlock = prev)

=============================================================================
