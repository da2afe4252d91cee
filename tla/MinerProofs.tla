---------------------------- MODULE MinerProofs ----------------------------
(***************************************************************************)
(* Proofs about Miner: types, when the worker runs, and that a sealed      *)
(* block that is not stale finds its task, for every bound, threshold and  *)
(* size of the channels.                                                   *)
(***************************************************************************)
EXTENDS Miner, SequenceTheorems, TLAPS

-----------------------------------------------------------------------------
(* The inductive invariant *)

\* Blocks and tasks that exist when n blocks were made and p transactions
\* have arrived.
BlockTo(n) == [num : 0 .. n, id : 0 .. n]
TaskTo(n, p) == [parent : BlockTo(n), txs : 0 .. p, uncles : SUBSET BlockTo(n)]
Tasks == TaskTo(made, pool)

\* The update loop keeps what the user wants and whether it may start.
RunInv ==
    /\ {syncing, subscribed, canStart, shouldStart, starting, running, wanted} \subseteq BOOLEAN
    /\ canStart = ~syncing /\ shouldStart = wanted /\ RunsWhenWanted

\* The head only rises: no number on its way to newWorkLoop is above it.
ChainOK ==
    /\ made \in Nat /\ calls \in Nat /\ pool \in 0 .. MaxTxs
    /\ head \in BlockTo(made) /\ headCh \in Seq(0 .. head.num) /\ sideCh \in Seq(BlockTo(made))

LoopOK ==
    /\ {startCh, timer, newTxs} \subseteq BOOLEAN
    /\ req \in [noempty : BOOLEAN] \cup {None} /\ signal \in {"none", "newHead", "resubmit"}
    /\ adjustCh \in 0 .. AdjustCap /\ step \in {"select", "fill", "adjust"}

MainOK ==
    /\ {work, current} \subseteq Tasks \cup {None} /\ uncles \subseteq BlockTo(made)
    /\ step \in {"fill", "adjust"} => work \in Tasks

\* A goroutine is sealing the last task.
Sealing == mining \/ sealing \in {"search", "restart"}

SealOK ==
    /\ {prev, currentBlock} \subseteq Tasks \cup {None} /\ pendingTasks \subseteq Tasks
    /\ sealing \in {"search", "restart", None} /\ {threads, mining} \subseteq BOOLEAN
    /\ Sealing => prev \in Tasks
    /\ works \subseteq Tasks /\ late \subseteq [task : Tasks, restart : BOOLEAN]

ResultOK ==
    /\ resultCh \in Seq(Tasks) /\ Len(resultCh) <= ResultCap
    /\ made + Len(resultCh) + calls <= MaxEvents

TypeInv == ChainOK /\ LoopOK /\ MainOK /\ SealOK /\ ResultOK

\* Tasks whose result may still come: being sealed, restarted or found by a
\* goroutine, known to remote miners, or among the results.
Live(t) ==
    \/ Sealing /\ t = prev
    \/ t \in works
    \/ \E l \in late : l.task = t
    \/ \E k \in DOMAIN resultCh : resultCh[k] = t

\* Every such task that is not stale is pending.
FreshInv == \A t : Live(t) /\ Number(t) + StaleThreshold > head.num => t \in pendingTasks

-----------------------------------------------------------------------------
(* The update loop *)

\* Start, Stop and the events of a sync keep the loop's flags in agreement.
LEMMA UpdateRuns ==
  ASSUME RunInv, Update
  PROVE  RunInv'
<1> USE DEF RunInv, RunsWhenWanted
<1>1. CASE StartCh
  BY <1>1 DEF StartCh, Start, LeaveWorker
<1>2. CASE StopCh
  BY <1>2 DEF StopCh, StopWorker
<1>3. CASE ~syncing /\ StartEvent
  BY <1>3 DEF StartEvent, StopWorker
<1>4. ASSUME NEW done \in BOOLEAN, syncing, EndEvent(done) PROVE RunInv'
  BY <1>4 DEF EndEvent, Start, LeaveWorker
<1>5. QED
  BY <1>1, <1>2, <1>3, <1>4 DEF Update

LEMMA InitRuns ==
  ASSUME Init
  PROVE  RunInv
<1>1. /\ wanted \in BOOLEAN /\ shouldStart = wanted /\ starting = wanted /\ running = wanted
      /\ syncing = FALSE /\ subscribed = TRUE /\ canStart = TRUE
  BY DEF Init
<1>2. CASE wanted = TRUE
  BY <1>1, <1>2 DEF RunInv, RunsWhenWanted
<1>3. CASE wanted = FALSE
  BY <1>1, <1>3 DEF RunInv, RunsWhenWanted
<1>4. QED
  BY <1>1, <1>2, <1>3

LEMMA NextRuns ==
  ASSUME RunInv, [Next]_vars
  PROVE  RunInv'
<1>1. CASE Update
  BY <1>1, UpdateRuns
<1>2. CASE SendStart
  BY <1>2 DEF SendStart, RunInv, RunsWhenWanted
<1>3. CASE UNCHANGED updateVars
  BY <1>3 DEF updateVars, RunInv, RunsWhenWanted
<1>4. ImportBlock \/ ReceiveResult => UNCHANGED updateVars
  BY DEF ImportBlock, ReceiveResult
<1>5. ReceiveStart \/ ReceiveHead \/ Tick \/ ReceiveAdjust => UNCHANGED updateVars
  BY DEF ReceiveStart, ReceiveHead, Tick, ReceiveAdjust, NewWorkLoop
<1>6. MainLoop => UNCHANGED updateVars
  BY DEF MainLoop, ReceiveWork, FillTransactions, CommitFull, DiscardWork, ReceiveSide,
         CleanTicker, ReceiveTxs, MainUnchanged
<1>7. FindSeal \/ RestartSeal \/ ClearWorks => UNCHANGED updateVars
  BY DEF FindSeal, RestartSeal, ClearWorks, SealUnchanged
<1>8. (\E on \in BOOLEAN : SetThreads(on)) \/ (\E t \in works : SubmitWork(t))
         \/ (\E l \in late : LateSeal(l)) => UNCHANGED updateVars
  BY DEF SetThreads, SubmitWork, LateSeal, SealUnchanged
<1>9. UNCHANGED vars => UNCHANGED updateVars
  BY DEF vars
<1>10. QED
  BY <1>1, <1>2, <1>3, <1>4, <1>5, <1>6, <1>7, <1>8, <1>9 DEF Next

\* Whatever the order of Start, Stop and the downloader's events, the worker
\* runs exactly when the user's last call was Start and no sync is in progress.
THEOREM WorkerRunsWhenWanted == Spec => []RunsWhenWanted
<1>1. Init => RunInv
  BY InitRuns
<1>2. RunInv /\ [Next]_vars => RunInv'
  BY NextRuns
<1>3. RunInv => RunsWhenWanted
  BY DEF RunInv
<1>4. QED
  BY <1>1, <1>2, <1>3, PTL DEF Spec

-----------------------------------------------------------------------------
(* Types *)

\* Blocks and tasks that exist go on existing.
LEMMA Grow ==
  ASSUME NEW m \in Nat, NEW n \in Nat, NEW p \in Nat, NEW q \in Nat, m <= n, p <= q
  PROVE  BlockTo(m) \subseteq BlockTo(n) /\ TaskTo(m, p) \subseteq TaskTo(n, q)
<1>1. 0 .. m \subseteq 0 .. n /\ 0 .. p \subseteq 0 .. q
  OBVIOUS
<1>2. BlockTo(m) \subseteq BlockTo(n)
  BY <1>1 DEF BlockTo
<1>3. TaskTo(m, p) \subseteq TaskTo(n, q)
  BY <1>1, <1>2 DEF TaskTo
<1>4. QED
  BY <1>2, <1>3

LEMMA SeqGrows ==
  ASSUME NEW S, NEW T, S \subseteq T, NEW s \in Seq(S)
  PROVE  s \in Seq(T)
OBVIOUS

\* What the loops hold keeps its type while blocks are made and transactions
\* arrive.
LEMMA Keep ==
  ASSUME MainOK, SealOK, ChainOK, made' \in Nat, pool' \in Nat, made <= made', pool <= pool',
         UNCHANGED <<mainVars, taskVars, threads>>
  PROVE  MainOK' /\ SealOK' /\ Tasks \subseteq Tasks' /\ BlockTo(made) \subseteq BlockTo(made')
<1>1. Tasks \subseteq Tasks' /\ BlockTo(made) \subseteq BlockTo(made')
  <2>1. made \in Nat /\ pool \in Nat
    BY MinerAssumption DEF ChainOK
  <2>2. QED
    BY <2>1, Grow DEF Tasks
<1>2. /\ UNCHANGED <<step, work, current, uncles>>
      /\ UNCHANGED <<prev, pendingTasks, sealing, mining, late, works, currentBlock, threads>>
  BY DEF mainVars, taskVars, sealVars
<1>3. MainOK'
  BY <1>1, <1>2 DEF MainOK
<1>4. SealOK'
  <2>1. [task : Tasks, restart : BOOLEAN] \subseteq [task : Tasks', restart : BOOLEAN]
    BY <1>1
  <2>2. QED
    BY <1>1, <1>2, <2>1 DEF SealOK, Sealing
<1>5. QED
  BY <1>1, <1>3, <1>4

\* A committed task.
LEMMA CommitKeeps ==
  ASSUME SealOK, NEW t \in Tasks, CommitTask(t), UNCHANGED <<made, pool, threads>>
  PROVE  SealOK'
<1>1. Tasks' = Tasks
  BY DEF Tasks
<1>2. CASE UNCHANGED taskVars
  BY <1>1, <1>2 DEF SealOK, Sealing, taskVars, sealVars
<1>3. CASE SealTask(t)
  <2>1. PICK ls \in Leftovers : late' = late \cup ls
    BY <1>3 DEF SealTask
  <2>2. ls \subseteq [task : Tasks, restart : BOOLEAN]
    <3>1. CASE ls = {}
      BY <3>1
    <3>2. CASE Sealing /\ ls = {[task |-> prev, restart |-> TRUE]}
      BY <3>2 DEF SealOK
    <3>3. CASE Sealing /\ ls = {[task |-> prev, restart |-> FALSE]}
      BY <3>3 DEF SealOK
    <3>4. QED
      BY <2>1, <3>1, <3>2, <3>3 DEF Leftovers, Sealing
  <2>3. QED
    BY <1>1, <1>3, <2>1, <2>2 DEF SealTask, SealOK, Sealing
<1>4. QED
  BY <1>2, <1>3 DEF CommitTask

\* The chain adopts a block made now.
LEMMA AdoptKeeps ==
  ASSUME ChainOK, NEW n \in Nat, n >= head.num, n <= made + 1, made' = made + 1,
         NEW extends \in BOOLEAN, Adopt(Fresh(n), extends), UNCHANGED <<pool, calls>>
  PROVE  ChainOK' /\ head.num <= head'.num
<1> DEFINE b == Fresh(n)
<1>1. made \in Nat /\ made' \in Nat /\ made <= made' /\ pool \in Nat
  BY MinerAssumption DEF ChainOK
<1>2. b \in BlockTo(made') /\ b.num = n
  BY <1>1 DEF Fresh, BlockTo
<1>3. BlockTo(made) \subseteq BlockTo(made')
  BY <1>1, Grow
<1>4. head.num \in Nat /\ head \in BlockTo(made)
  BY <1>1 DEF ChainOK, BlockTo
<1> HIDE DEF b
<1>5. head' = b /\ headCh' = Append(headCh, n)
      /\ sideCh' = IF extends THEN sideCh ELSE Append(sideCh, head)
  BY <1>2 DEF Adopt, b
<1>6. 0 .. head.num \subseteq 0 .. n /\ n \in 0 .. n
  BY <1>4
<1>7. headCh' \in Seq(0 .. head'.num)
  <2>1. headCh \in Seq(0 .. n)
    BY <1>6, SeqGrows DEF ChainOK
  <2>2. QED
    BY <1>2, <1>5, <1>6, <2>1
<1>8. sideCh' \in Seq(BlockTo(made'))
  <2>1. sideCh \in Seq(BlockTo(made')) /\ head \in BlockTo(made')
    BY <1>3, <1>4, SeqGrows DEF ChainOK
  <2>2. Append(sideCh, head) \in Seq(BlockTo(made'))
    BY <2>1
  <2>3. QED
    BY <1>5, <2>1, <2>2
<1>9. QED
  BY <1>1, <1>2, <1>5, <1>7, <1>8 DEF ChainOK

LEMMA ImportTypes ==
  ASSUME TypeInv, ImportBlock
  PROVE  TypeInv' /\ head.num <= head'.num
<1>1. /\ made' = made + 1 /\ Room /\ made \in Nat /\ calls \in Nat /\ pool \in Nat
      /\ UNCHANGED <<pool, loopVars, mainVars, taskVars, threads, resultCh, calls>>
      /\ head.num \in 0 .. made
  BY MinerAssumption DEF ImportBlock, TypeInv, ChainOK, BlockTo
<1>2. made' \in Nat /\ made <= made' /\ head.num \in Nat /\ head.num <= made
  BY <1>1
<1>3. /\ MainOK' /\ SealOK' /\ Tasks \subseteq Tasks'
  BY <1>1, <1>2, Keep DEF TypeInv
<1>4. ChainOK' /\ head.num <= head'.num
  <2>1. CASE Adopt(Fresh(head.num + 1), TRUE)
    <3>1. /\ head.num + 1 \in Nat /\ head.num + 1 >= head.num /\ head.num + 1 <= made + 1
          /\ TRUE \in BOOLEAN
      BY <1>1, <1>2
    <3>2. QED
      BY <1>1, <2>1, <3>1, AdoptKeeps DEF TypeInv
  <2>2. CASE Adopt(Fresh(head.num), FALSE)
    <3>1. head.num >= head.num /\ head.num <= made + 1 /\ FALSE \in BOOLEAN
      BY <1>1, <1>2
    <3>2. QED
      BY <1>1, <1>2, <2>2, <3>1, AdoptKeeps DEF TypeInv
  <2>3. QED
    BY <2>1, <2>2 DEF ImportBlock
<1>5. ResultOK'
  <2>1. resultCh \in Seq(Tasks) /\ Len(resultCh) \in Nat
    BY DEF TypeInv, ResultOK
  <2>2. resultCh' = resultCh /\ resultCh \in Seq(Tasks')
    BY <1>1, <1>3, <2>1, SeqGrows
  <2>3. made' + Len(resultCh) + calls <= MaxEvents
    BY <1>1, <2>1, MinerAssumption DEF Room
  <2>4. QED
    BY <1>1, <2>2, <2>3 DEF TypeInv, ResultOK
<1>6. LoopOK'
  BY <1>1 DEF TypeInv, LoopOK, loopVars, mainVars
<1>7. QED
  BY <1>3, <1>4, <1>5, <1>6 DEF TypeInv

LEMMA ResultTypes ==
  ASSUME TypeInv, ReceiveResult
  PROVE  TypeInv' /\ head.num <= head'.num
<1> DEFINE t == Head(resultCh)
<1>1. /\ resultCh # <<>> /\ resultCh' = Tail(resultCh)
      /\ UNCHANGED <<pool, updateVars, loopVars, mainVars, taskVars, threads, calls>>
  BY DEF ReceiveResult
<1>2. /\ resultCh \in Seq(Tasks) /\ Len(resultCh) <= ResultCap
      /\ made + Len(resultCh) + calls <= MaxEvents
      /\ made \in Nat /\ calls \in Nat /\ pool \in Nat /\ MaxEvents \in Nat /\ ResultCap \in Nat
      /\ head.num \in 0 .. made
  BY MinerAssumption DEF TypeInv, ResultOK, ChainOK, BlockTo
<1>3. /\ t \in Tasks /\ Tail(resultCh) \in Seq(Tasks)
      /\ Len(resultCh) \in Nat /\ Len(Tail(resultCh)) = Len(resultCh) - 1 /\ Len(resultCh) > 0
  BY <1>1, <1>2
<1>4. t.parent.num \in 0 .. made /\ Number(t) = t.parent.num + 1
  BY <1>3 DEF Tasks, TaskTo, BlockTo, Number
<1>5. Number(t) \in Nat /\ Number(t) <= made + 1 /\ head.num \in Nat
  BY <1>2, <1>4
<1>6. CASE UNCHANGED chainVars
  <2>1. UNCHANGED <<head, made, headCh, sideCh>>
    BY <1>6 DEF chainVars
  <2>2. made' \in Nat /\ made <= made' /\ pool' \in Nat /\ pool <= pool'
    BY <1>1, <1>2, <2>1
  <2>3. MainOK' /\ SealOK' /\ Tasks' = Tasks
    BY <1>1, <2>1, <2>2, Keep DEF TypeInv, Tasks
  <2>4. ResultOK'
    <3>1. Len(Tail(resultCh)) <= ResultCap /\ made + Len(Tail(resultCh)) + calls <= MaxEvents
      BY <1>2, <1>3
    <3>2. QED
      BY <1>1, <1>3, <2>1, <2>3, <3>1 DEF ResultOK
  <2>5. ChainOK' /\ LoopOK' /\ head.num <= head'.num
    BY <1>1, <1>5, <2>1 DEF TypeInv, ChainOK, LoopOK, loopVars, mainVars
  <2>6. QED
    BY <2>3, <2>4, <2>5 DEF TypeInv
<1>7. CASE /\ made' = made + 1
           /\ \/ t.parent = head /\ Adopt(Fresh(Number(t)), TRUE)
              \/ t.parent # head /\ Fresh(Number(t)).num > head.num
                 /\ Adopt(Fresh(Number(t)), FALSE)
              \/ /\ sideCh' = Append(sideCh, Fresh(Number(t)))
                 /\ UNCHANGED <<head, headCh>>
  <2>1. made' \in Nat /\ made <= made' /\ pool' \in Nat /\ pool <= pool'
    BY <1>1, <1>2, <1>7
  <2>2. MainOK' /\ SealOK' /\ Tasks \subseteq Tasks' /\ BlockTo(made) \subseteq BlockTo(made')
    BY <1>1, <2>1, Keep DEF TypeInv
  <2>3. ResultOK'
    <3>1. Len(Tail(resultCh)) <= ResultCap /\ made' + Len(Tail(resultCh)) + calls <= MaxEvents
      BY <1>2, <1>3, <1>7
    <3>2. Tail(resultCh) \in Seq(Tasks')
      BY <1>3, <2>2, SeqGrows
    <3>3. QED
      BY <1>1, <3>1, <3>2 DEF ResultOK
  <2>4. LoopOK'
    BY <1>1 DEF TypeInv, LoopOK, loopVars, mainVars
  <2>5. Fresh(Number(t)).num = Number(t) /\ Fresh(Number(t)) \in BlockTo(made')
    BY <1>2, <1>5, <1>7 DEF Fresh, BlockTo
  <2>6. CASE t.parent = head /\ Adopt(Fresh(Number(t)), TRUE)
    <3>1. Number(t) >= head.num
      BY <1>4, <1>5, <2>6
    <3>2. ChainOK' /\ head.num <= head'.num
      <4>1. TRUE \in BOOLEAN
        OBVIOUS
      <4>2. QED
        BY <1>1, <1>5, <1>7, <2>6, <3>1, <4>1, AdoptKeeps DEF TypeInv
    <3>3. QED
      BY <2>2, <2>3, <2>4, <3>2 DEF TypeInv
  <2>7. CASE Fresh(Number(t)).num > head.num /\ Adopt(Fresh(Number(t)), FALSE)
    <3>1. Number(t) >= head.num
      BY <1>5, <2>5, <2>7
    <3>2. ChainOK' /\ head.num <= head'.num
      <4>1. FALSE \in BOOLEAN
        OBVIOUS
      <4>2. QED
        BY <1>1, <1>5, <1>7, <2>7, <3>1, <4>1, AdoptKeeps DEF TypeInv
    <3>3. QED
      BY <2>2, <2>3, <2>4, <3>2 DEF TypeInv
  <2>8. CASE sideCh' = Append(sideCh, Fresh(Number(t))) /\ UNCHANGED <<head, headCh>>
    <3>1. sideCh \in Seq(BlockTo(made')) /\ head \in BlockTo(made')
      BY <2>2, SeqGrows DEF TypeInv, ChainOK
    <3>2. sideCh' \in Seq(BlockTo(made'))
      BY <2>5, <2>8, <3>1
    <3>3. ChainOK'
      BY <1>1, <2>1, <2>8, <3>1, <3>2 DEF TypeInv, ChainOK
    <3>4. QED
      BY <1>5, <2>2, <2>3, <2>4, <2>8, <3>3 DEF TypeInv
  <2>9. QED
    BY <1>7, <2>6, <2>7, <2>8
<1>8. QED
  BY <1>6, <1>7 DEF ReceiveResult

\* newWorkLoop: a request is offered, and at most pending tasks are dropped.
LEMMA LoopTypes ==
  ASSUME TypeInv, ReceiveStart \/ ReceiveHead \/ Tick \/ ReceiveAdjust
  PROVE  TypeInv' /\ head.num <= head'.num
<1>1. UNCHANGED <<head, made, sideCh, pool, mainVars, prev, sealVars, threads, resultCh, calls>>
  BY DEF ReceiveStart, ReceiveHead, Tick, ReceiveAdjust, NewWorkLoop
<1>2. UNCHANGED <<step, work, current, uncles, sealing, mining, late, works, currentBlock>>
  BY <1>1 DEF mainVars, sealVars
<1>3. Tasks' = Tasks
  BY <1>1 DEF Tasks
<1>4. headCh' \in Seq(0 .. head.num) /\ pendingTasks' \subseteq pendingTasks
  <2>1. headCh \in Seq(0 .. head.num)
    BY DEF TypeInv, ChainOK
  <2>2. headCh # <<>> => Tail(headCh) \in Seq(0 .. head.num)
    BY <2>1
  <2>3. CASE ReceiveHead
    BY <2>2, <2>3 DEF ReceiveHead, NewWorkLoop, NewRound, ClearPending
  <2>4. CASE ReceiveStart
    BY <2>1, <2>4 DEF ReceiveStart, NewWorkLoop, NewRound, ClearPending
  <2>5. CASE Tick \/ ReceiveAdjust
    BY <2>1, <2>5 DEF Tick, ReceiveAdjust, NewWorkLoop
  <2>6. QED
    BY <2>3, <2>4, <2>5
<1>5. LoopOK'
  <2>1. TRUE \in BOOLEAN /\ FALSE \in BOOLEAN
    OBVIOUS
  <2>2. /\ [noempty |-> TRUE] \in [noempty : BOOLEAN]
        /\ [noempty |-> FALSE] \in [noempty : BOOLEAN]
    OBVIOUS
  <2>3. adjustCh \in 0 .. AdjustCap /\ AdjustCap \in Nat
    BY MinerAssumption DEF TypeInv, LoopOK
  <2>4. adjustCh > 0 => adjustCh - 1 \in 0 .. AdjustCap
    BY <2>3
  <2>5. CASE ReceiveStart \/ ReceiveHead
    BY <1>2, <2>1, <2>2, <2>5
    DEF ReceiveStart, ReceiveHead, NewWorkLoop, NewRound, Commit, TypeInv, LoopOK
  <2>6. CASE Tick
    BY <1>2, <2>1, <2>2, <2>6 DEF Tick, NewWorkLoop, Commit, TypeInv, LoopOK
  <2>7. CASE ReceiveAdjust
    BY <1>2, <2>4, <2>7 DEF ReceiveAdjust, NewWorkLoop, TypeInv, LoopOK
  <2>8. QED
    BY <2>5, <2>6, <2>7
<1>6. ChainOK' /\ head.num <= head'.num
  <2>1. head.num \in Nat
    BY DEF TypeInv, ChainOK, BlockTo
  <2>2. QED
    BY <1>1, <1>4, <2>1 DEF TypeInv, ChainOK
<1>7. MainOK' /\ SealOK' /\ ResultOK'
  BY <1>1, <1>2, <1>3, <1>4 DEF TypeInv, MainOK, SealOK, Sealing, ResultOK
<1>8. QED
  BY <1>5, <1>6, <1>7 DEF TypeInv

\* A request is taken: the work builds on the head.
LEMMA ReceiveWorkTypes ==
  ASSUME TypeInv, ReceiveWork
  PROVE  TypeInv' /\ head.num <= head'.num
<1>1. PICK us \in UncleSets(head) :
        LET env == [parent |-> head, txs |-> 0, uncles |-> us]
        IN  /\ work' = env
            /\ IF req.noempty THEN UNCHANGED taskVars ELSE CommitTask(env)
  BY DEF ReceiveWork
<1> DEFINE env == [parent |-> head, txs |-> 0, uncles |-> us]
<1>2. us \subseteq BlockTo(made)
  BY DEF UncleSets, TypeInv, MainOK
<1>3. env \in Tasks
  <2>1. head \in BlockTo(made) /\ 0 \in 0 .. pool
    BY MinerAssumption DEF TypeInv, ChainOK
  <2>2. QED
    BY <1>2, <2>1 DEF Tasks, TaskTo
<1>4. work' = env /\ (UNCHANGED taskVars \/ CommitTask(env))
  BY <1>1
<1> HIDE DEF env
<1>5. /\ UNCHANGED <<pool, sideCh, adjustCh, current, uncles>>
      /\ UNCHANGED <<head, made, headCh, startCh, threads, resultCh, calls>>
      /\ step' = "fill" /\ req' = None /\ signal' = "none" /\ timer' = TRUE /\ newTxs' = FALSE
  BY DEF ReceiveWork, MainUnchanged
<1>6. Tasks' = Tasks
  BY <1>5 DEF Tasks
<1>7. SealOK'
  <2>1. CASE UNCHANGED taskVars
    BY <1>5, <1>6, <2>1 DEF TypeInv, SealOK, Sealing, taskVars, sealVars
  <2>2. CASE CommitTask(env)
    BY <1>3, <1>5, <2>2, CommitKeeps DEF TypeInv
  <2>3. QED
    BY <1>4, <2>1, <2>2
<1>8. LoopOK' /\ MainOK' /\ ResultOK'
  BY <1>3, <1>4, <1>5, <1>6 DEF TypeInv, LoopOK, MainOK, ResultOK
<1>9. ChainOK' /\ head.num <= head'.num
  BY <1>5 DEF TypeInv, ChainOK, BlockTo
<1>10. QED
  BY <1>7, <1>8, <1>9 DEF TypeInv

\* The work is filled with transactions of the pool.
LEMMA FillTypes ==
  ASSUME TypeInv, FillTransactions
  PROVE  TypeInv' /\ head.num <= head'.num
<1>1. /\ UNCHANGED <<pool, sideCh, timer, newTxs, req, adjustCh, current, uncles, taskVars>>
      /\ UNCHANGED <<head, made, headCh, startCh, threads, resultCh, calls>>
      /\ step = "fill" /\ step' = "adjust" /\ signal' = "none"
  BY DEF FillTransactions, MainUnchanged
<1>2. PICK n \in 0 .. pool : work' = [work EXCEPT !.txs = n]
  <2>1. PICK n \in (IF signal = "resubmit" THEN 0 .. pool ELSE {pool}) :
          work' = [work EXCEPT !.txs = n]
    BY DEF FillTransactions
  <2>2. pool \in Nat
    BY MinerAssumption DEF TypeInv, ChainOK
  <2>3. n \in 0 .. pool
    BY <2>2
  <2>4. QED
    BY <2>1, <2>3
<1>3. work' \in Tasks
  <2>1. work \in Tasks
    BY <1>1 DEF TypeInv, MainOK
  <2>2. QED
    BY <1>2, <2>1 DEF Tasks, TaskTo
<1>4. Tasks' = Tasks
  BY <1>1 DEF Tasks
<1>5. LoopOK' /\ MainOK' /\ ResultOK'
  BY <1>1, <1>3, <1>4 DEF TypeInv, LoopOK, MainOK, ResultOK
<1>6. SealOK'
  BY <1>1, <1>4 DEF TypeInv, SealOK, Sealing, taskVars, sealVars
<1>7. ChainOK' /\ head.num <= head'.num
  BY <1>1 DEF TypeInv, ChainOK, BlockTo
<1>8. QED
  BY <1>5, <1>6, <1>7 DEF TypeInv

\* The work is sealed, and becomes the current one.
LEMMA CommitFullTypes ==
  ASSUME TypeInv, CommitFull
  PROVE  TypeInv' /\ head.num <= head'.num
<1>1. /\ UNCHANGED <<pool, sideCh, timer, newTxs, req, signal, uncles>>
      /\ UNCHANGED <<head, made, headCh, startCh, threads, resultCh, calls>>
      /\ work' = None /\ step' = "select" /\ CommitTask(work) /\ current' = work
      /\ adjustCh < AdjustCap /\ adjustCh' = adjustCh + 1
  BY DEF CommitFull, MainUnchanged
<1>2. work \in Tasks
  BY DEF CommitFull, TypeInv, MainOK
<1>3. Tasks' = Tasks
  BY <1>1 DEF Tasks
<1>4. SealOK'
  BY <1>1, <1>2, CommitKeeps DEF TypeInv
<1>5. adjustCh' \in 0 .. AdjustCap
  <2>1. adjustCh \in 0 .. AdjustCap /\ AdjustCap \in Nat
    BY MinerAssumption DEF TypeInv, LoopOK
  <2>2. QED
    BY <1>1, <2>1
<1>6. LoopOK' /\ MainOK' /\ ResultOK'
  BY <1>1, <1>2, <1>3, <1>5 DEF TypeInv, LoopOK, MainOK, ResultOK
<1>7. ChainOK' /\ head.num <= head'.num
  BY <1>1 DEF TypeInv, ChainOK, BlockTo
<1>8. QED
  BY <1>4, <1>6, <1>7 DEF TypeInv

\* A side block becomes a possible uncle, perhaps of the current work.
LEMMA SideTypes ==
  ASSUME TypeInv, ReceiveSide
  PROVE  TypeInv' /\ head.num <= head'.num
<1> DEFINE u == Head(sideCh)
           better == [current EXCEPT !.uncles = @ \cup {u}]
<1>1. /\ UNCHANGED <<pool, timer, newTxs, req, signal, adjustCh, step, work>>
      /\ UNCHANGED <<head, made, headCh, startCh, threads, resultCh, calls>>
      /\ sideCh # <<>> /\ sideCh' = Tail(sideCh) /\ uncles' = uncles \cup {u}
      /\ \/ current # None /\ CommitTask(better) /\ current' = better
         \/ UNCHANGED <<current, taskVars>>
  BY DEF ReceiveSide, MainUnchanged
<1>2. Tasks' = Tasks
  BY <1>1 DEF Tasks
<1>3. u \in BlockTo(made) /\ Tail(sideCh) \in Seq(BlockTo(made))
  BY <1>1 DEF TypeInv, ChainOK
<1> HIDE DEF u
<1>4. current # None => better \in Tasks
  <2>1. current # None => current \in Tasks
    BY DEF TypeInv, MainOK
  <2>2. QED
    BY <1>3, <2>1 DEF Tasks, TaskTo
<1> HIDE DEF better
<1>5. SealOK' /\ current' \in Tasks \cup {None}
  <2>1. CASE current # None /\ CommitTask(better) /\ current' = better
    BY <1>1, <1>4, <2>1, CommitKeeps DEF TypeInv
  <2>2. CASE UNCHANGED <<current, taskVars>>
    BY <1>1, <1>2, <2>2 DEF TypeInv, MainOK, SealOK, Sealing, taskVars, sealVars
  <2>3. QED
    BY <1>1, <2>1, <2>2
<1>6. MainOK'
  BY <1>1, <1>2, <1>3, <1>5 DEF TypeInv, MainOK
<1>7. LoopOK' /\ ResultOK'
  BY <1>1, <1>2 DEF TypeInv, LoopOK, ResultOK
<1>8. ChainOK' /\ head.num <= head'.num
  BY <1>1, <1>3 DEF TypeInv, ChainOK, BlockTo
<1>9. QED
  BY <1>5, <1>6, <1>7, <1>8 DEF TypeInv

LEMMA DiscardTypes ==
  ASSUME TypeInv, DiscardWork \/ CleanTicker
  PROVE  TypeInv' /\ head.num <= head'.num
<1>1. /\ UNCHANGED <<pool, sideCh, timer, newTxs, req, adjustCh, current, taskVars>>
      /\ UNCHANGED <<head, made, headCh, startCh, threads, resultCh, calls>>
      /\ uncles' \subseteq uncles
      /\ \/ work' = None /\ step' = "select" /\ signal' = "none"
         \/ UNCHANGED <<work, step, signal>>
  BY DEF DiscardWork, CleanTicker, MainUnchanged
<1>2. Tasks' = Tasks
  BY <1>1 DEF Tasks
<1>3. LoopOK' /\ MainOK' /\ ResultOK'
  BY <1>1, <1>2 DEF TypeInv, LoopOK, MainOK, ResultOK
<1>4. SealOK'
  BY <1>1, <1>2 DEF TypeInv, SealOK, Sealing, taskVars, sealVars
<1>5. ChainOK' /\ head.num <= head'.num
  BY <1>1 DEF TypeInv, ChainOK, BlockTo
<1>6. QED
  BY <1>3, <1>4, <1>5 DEF TypeInv

\* Transactions arrive, and a worker at rest adds them to its pending block.
LEMMA TxsTypes ==
  ASSUME TypeInv, ReceiveTxs
  PROVE  TypeInv' /\ head.num <= head'.num
<1>1. /\ UNCHANGED <<sideCh, timer, req, signal, adjustCh, step, work, uncles, taskVars>>
      /\ UNCHANGED <<head, made, headCh, startCh, threads, resultCh>>
      /\ pool < MaxTxs /\ pool' = pool + 1 /\ Room /\ calls' = calls + 1 /\ newTxs' = TRUE
      /\ \/ current # None
            /\ \E n \in {current.txs, pool'} : current' = [current EXCEPT !.txs = n]
         \/ UNCHANGED current
  BY DEF ReceiveTxs
<1>2. /\ made \in Nat /\ calls \in Nat /\ pool \in 0 .. MaxTxs /\ MaxTxs \in Nat
      /\ MaxEvents \in Nat /\ resultCh \in Seq(Tasks)
  BY MinerAssumption DEF TypeInv, ChainOK, ResultOK
<1>3. /\ pool \in Nat /\ pool' \in 0 .. MaxTxs /\ pool' \in Nat /\ pool <= pool' /\ made <= made'
      /\ calls' \in Nat
  BY <1>1, <1>2
<1>4. Tasks \subseteq Tasks'
  BY <1>1, <1>2, <1>3, Grow DEF Tasks
<1>5. current' \in Tasks' \cup {None}
  <2>1. CASE UNCHANGED current
    BY <1>4, <2>1 DEF TypeInv, MainOK
  <2>2. ASSUME current # None, NEW n \in {current.txs, pool'},
               current' = [current EXCEPT !.txs = n]
        PROVE  current' \in Tasks'
    <3>1. current \in TaskTo(made, pool')
      BY <1>1, <1>4, <2>2 DEF TypeInv, MainOK, Tasks
    <3>2. n \in 0 .. pool'
      <4>1. current.txs \in 0 .. pool' /\ pool' \in 0 .. pool'
        BY <1>3, <3>1 DEF TaskTo
      <4>2. QED
        BY <4>1
    <3>3. [current EXCEPT !.txs = n] \in TaskTo(made, pool')
      BY <3>1, <3>2 DEF TaskTo
    <3>4. QED
      BY <1>1, <2>2, <3>3 DEF Tasks
  <2>3. QED
    BY <1>1, <2>1, <2>2
<1>6. MainOK'
  BY <1>1, <1>4, <1>5 DEF TypeInv, MainOK
<1>7. SealOK'
  <2>1. [task : Tasks, restart : BOOLEAN] \subseteq [task : Tasks', restart : BOOLEAN]
    BY <1>4
  <2>2. QED
    BY <1>1, <1>4, <2>1 DEF TypeInv, SealOK, Sealing, taskVars, sealVars
<1>8. ResultOK'
  <2>1. resultCh \in Seq(Tasks') /\ Len(resultCh) \in Nat
    BY <1>2, <1>4, SeqGrows
  <2>2. made + Len(resultCh) + (calls + 1) <= MaxEvents
    BY <1>1, <1>2, <2>1 DEF Room
  <2>3. QED
    BY <1>1, <2>1, <2>2 DEF TypeInv, ResultOK
<1>9. LoopOK'
  BY <1>1 DEF TypeInv, LoopOK
<1>10. ChainOK' /\ head.num <= head'.num
  BY <1>1, <1>3 DEF TypeInv, ChainOK, BlockTo
<1>11. QED
  BY <1>6, <1>7, <1>8, <1>9, <1>10 DEF TypeInv

\* A result is offered to resultLoop.
LEMMA OfferKeeps ==
  ASSUME TypeInv, NEW t \in Tasks, Room, Offer(t), UNCHANGED <<made, pool, calls>>
  PROVE  ResultOK'
<1>1. /\ resultCh \in Seq(Tasks) /\ Len(resultCh) \in Nat /\ Len(resultCh) <= ResultCap
      /\ made \in Nat /\ calls \in Nat /\ MaxEvents \in Nat /\ ResultCap \in Nat
      /\ made + Len(resultCh) + calls <= MaxEvents
  BY MinerAssumption DEF TypeInv, ResultOK, ChainOK
<1>2. Tasks' = Tasks
  BY DEF Tasks
<1>3. CASE Len(resultCh) < ResultCap /\ resultCh' = Append(resultCh, t)
  <2>1. Append(resultCh, t) \in Seq(Tasks) /\ Len(Append(resultCh, t)) = Len(resultCh) + 1
    BY <1>1
  <2>2. Len(resultCh) + 1 <= ResultCap /\ made + (Len(resultCh) + 1) + calls <= MaxEvents
    BY <1>1, <1>3 DEF Room
  <2>3. QED
    BY <1>2, <1>3, <2>1, <2>2 DEF ResultOK
<1>4. CASE resultCh' = resultCh
  BY <1>1, <1>2, <1>4 DEF ResultOK
<1>5. QED
  BY <1>3, <1>4 DEF Offer

\* The sealers.
LEMMA SealerTypes ==
  ASSUME TypeInv,
         \/ FindSeal \/ RestartSeal \/ ClearWorks
         \/ \E on \in BOOLEAN : SetThreads(on)
         \/ \E t \in works : SubmitWork(t)
         \/ \E l \in late : LateSeal(l)
  PROVE  TypeInv' /\ head.num <= head'.num
<1>1. /\ UNCHANGED <<head, made, headCh, sideCh, pool, loopVars, mainVars, prev, pendingTasks>>
      /\ \/ UNCHANGED calls
         \/ UNCHANGED resultCh /\ Room /\ calls' = calls + 1
  BY DEF FindSeal, RestartSeal, ClearWorks, SetThreads, SubmitWork, LateSeal, SealUnchanged,
         chainVars
<1>2. Tasks' = Tasks
  BY <1>1 DEF Tasks
<1>3. LoopOK' /\ MainOK'
  BY <1>1, <1>2 DEF TypeInv, LoopOK, MainOK, loopVars, mainVars
<1>4. ChainOK' /\ head.num <= head'.num
  <2>1. calls' \in Nat /\ head.num \in Nat
    BY <1>1 DEF TypeInv, ChainOK, BlockTo
  <2>2. QED
    BY <1>1, <2>1 DEF TypeInv, ChainOK
<1>5. SealOK' /\ ResultOK'
  <2>1. CASE FindSeal
    <3>1. prev \in Tasks
      BY <2>1 DEF FindSeal, TypeInv, SealOK, Sealing
    <3>2. ResultOK'
      BY <1>1, <2>1, <3>1, OfferKeeps DEF FindSeal
    <3>3. SealOK'
      BY <1>1, <1>2, <2>1, MinerAssumption DEF FindSeal, TypeInv, SealOK, Sealing
    <3>4. QED
      BY <3>2, <3>3
  <2>2. CASE RestartSeal
    BY <1>1, <1>2, <2>2 DEF RestartSeal, TypeInv, SealOK, Sealing, ResultOK
  <2>3. CASE ClearWorks
    BY <1>1, <1>2, <2>3 DEF ClearWorks, TypeInv, SealOK, Sealing, ResultOK
  <2>4. ASSUME NEW on \in BOOLEAN, SetThreads(on) PROVE SealOK' /\ ResultOK'
    <3>1. SealOK'
      <4>1. CASE sealing = "search" /\ sealing' = "restart" /\ mining' = FALSE
        BY <1>1, <1>2, <2>4, <4>1 DEF SetThreads, TypeInv, SealOK, Sealing
      <4>2. CASE UNCHANGED <<sealing, mining>>
        BY <1>1, <1>2, <2>4, <4>2 DEF SetThreads, TypeInv, SealOK, Sealing
      <4>3. QED
        BY <2>4, <4>1, <4>2 DEF SetThreads
    <3>2. resultCh' = resultCh /\ Room /\ calls' = calls + 1
      BY <2>4 DEF SetThreads
    <3>3. made + Len(resultCh) + (calls + 1) <= MaxEvents
      <4>1. made \in Nat /\ calls \in Nat /\ MaxEvents \in Nat /\ Len(resultCh) \in Nat
        BY MinerAssumption DEF TypeInv, ChainOK, ResultOK
      <4>2. QED
        BY <3>2, <4>1 DEF Room
    <3>4. QED
      BY <1>1, <1>2, <3>1, <3>2, <3>3 DEF TypeInv, ResultOK
  <2>5. ASSUME NEW t \in works, SubmitWork(t) PROVE SealOK' /\ ResultOK'
    <3>1. t \in Tasks
      BY DEF TypeInv, SealOK
    <3>2. ResultOK'
      BY <1>1, <2>5, <3>1, OfferKeeps DEF SubmitWork
    <3>3. SealOK'
      BY <1>1, <1>2, <2>5 DEF SubmitWork, sealVars, TypeInv, SealOK, Sealing
    <3>4. QED
      BY <3>2, <3>3
  <2>6. ASSUME NEW l \in late, LateSeal(l) PROVE SealOK' /\ ResultOK'
    <3>1. l.task \in Tasks
      BY DEF TypeInv, SealOK
    <3>2. CASE l.restart
      BY <1>1, <1>2, <2>6, <3>1, <3>2 DEF LateSeal, TypeInv, SealOK, Sealing, ResultOK
    <3>3. CASE ~l.restart
      <4>1. ResultOK'
        BY <1>1, <2>6, <3>1, <3>3, OfferKeeps DEF LateSeal
      <4>2. SealOK'
        BY <1>1, <1>2, <2>6, <3>3 DEF LateSeal, TypeInv, SealOK, Sealing
      <4>3. QED
        BY <4>1, <4>2
    <3>4. QED
      BY <3>2, <3>3
  <2>7. QED
    BY <2>1, <2>2, <2>3, <2>4, <2>5, <2>6
<1>6. QED
  BY <1>3, <1>4, <1>5 DEF TypeInv

\* The update loop touches the channel of start requests only.
LEMMA UpdateTypes ==
  ASSUME TypeInv, Update \/ SendStart
  PROVE  TypeInv' /\ head.num <= head'.num
<1>1. /\ UNCHANGED <<head, made, headCh, sideCh, pool, timer, newTxs, req, signal, adjustCh>>
      /\ UNCHANGED <<mainVars, taskVars, threads, resultCh>>
      /\ startCh' = startCh \/ startCh' = TRUE
      /\ calls' = calls \/ (Room /\ calls' = calls + 1)
  BY DEF Update, SendStart, chainVars, loopVars
<1>2. Tasks' = Tasks
  BY <1>1 DEF Tasks
<1>3. LoopOK'
  <2>1. TRUE \in BOOLEAN
    OBVIOUS
  <2>2. QED
    BY <1>1, <2>1 DEF TypeInv, LoopOK, mainVars
<1>4. MainOK' /\ SealOK'
  BY <1>1, <1>2 DEF TypeInv, MainOK, SealOK, Sealing, mainVars, taskVars, sealVars
<1>5. made \in Nat /\ calls \in Nat /\ MaxEvents \in Nat /\ Len(resultCh) \in Nat /\ head.num \in Nat
  BY MinerAssumption DEF TypeInv, ChainOK, ResultOK, BlockTo
<1>6. made + Len(resultCh) + calls' <= MaxEvents /\ calls' \in Nat
  BY <1>1, <1>5 DEF Room, TypeInv, ResultOK
<1>7. ResultOK'
  BY <1>1, <1>2, <1>6 DEF TypeInv, ResultOK
<1>8. ChainOK' /\ head.num <= head'.num
  BY <1>1, <1>5, <1>6 DEF TypeInv, ChainOK
<1>9. QED
  BY <1>3, <1>4, <1>7, <1>8 DEF TypeInv

LEMMA InitTypes ==
  ASSUME Init
  PROVE  TypeInv
<1>1. {MaxTxs, MaxEvents, AdjustCap, ResultCap} \subseteq Nat
  BY MinerAssumption
<1>2. head \in BlockTo(0) /\ head.num = 0
  BY DEF Init, Genesis, BlockTo
<1>3. ChainOK
  BY <1>1, <1>2 DEF Init, ChainOK
<1>4. LoopOK
  <2>1. startCh \in BOOLEAN /\ timer \in BOOLEAN /\ newTxs \in BOOLEAN
    BY DEF Init
  <2>2. QED
    BY <1>1, <2>1 DEF Init, LoopOK
<1>5. MainOK
  BY DEF Init, MainOK
<1>6. SealOK
  BY MinerAssumption DEF Init, SealOK, Sealing
<1>7. ResultOK
  BY <1>1 DEF Init, ResultOK
<1>8. QED
  BY <1>3, <1>4, <1>5, <1>6, <1>7 DEF TypeInv

\* Every step keeps the types, and the head never falls.
LEMMA NextTypes ==
  ASSUME TypeInv, [Next]_vars
  PROVE  TypeInv' /\ head.num <= head'.num
<1>1. CASE UNCHANGED vars
  <2>1. /\ UNCHANGED <<head, made, headCh, sideCh, pool, calls, resultCh, threads>>
        /\ UNCHANGED <<startCh, timer, newTxs, req, signal, adjustCh>>
        /\ UNCHANGED <<step, work, current, uncles, prev, pendingTasks>>
        /\ UNCHANGED <<sealing, mining, late, works, currentBlock>>
    BY <1>1 DEF vars, chainVars, loopVars, mainVars, taskVars, sealVars
  <2>2. Tasks' = Tasks
    BY <2>1 DEF Tasks
  <2>3. ChainOK' /\ head.num <= head'.num
    BY <2>1 DEF TypeInv, ChainOK, BlockTo
  <2>4. LoopOK' /\ MainOK' /\ ResultOK'
    BY <2>1, <2>2 DEF TypeInv, LoopOK, MainOK, ResultOK
  <2>5. SealOK'
    BY <2>1, <2>2 DEF TypeInv, SealOK, Sealing
  <2>6. QED
    BY <2>3, <2>4, <2>5 DEF TypeInv
<1>2. CASE MainLoop
  BY <1>2, ReceiveWorkTypes, FillTypes, CommitFullTypes, DiscardTypes, SideTypes, TxsTypes
  DEF MainLoop
<1>3. QED
  BY <1>1, <1>2, ImportTypes, UpdateTypes, LoopTypes, SealerTypes, ResultTypes DEF Next

\* The miner's variables keep their types: in particular no number of a block
\* outgrows the blocks made, and the results never overflow their channel.
THEOREM TypeCorrect == Spec => []TypeOK
<1>1. Init => RunInv /\ TypeInv
  BY InitRuns, InitTypes
<1>2. RunInv /\ TypeInv /\ [Next]_vars => RunInv' /\ TypeInv'
  BY NextRuns, NextTypes
<1>3. RunInv /\ TypeInv => TypeOK
  <2> SUFFICES ASSUME RunInv, TypeInv PROVE TypeOK
    OBVIOUS
  <2>1. /\ made \in Nat /\ calls \in Nat /\ pool \in Nat /\ MaxEvents \in Nat /\ MaxTxs \in Nat
        /\ Len(resultCh) \in Nat /\ made + Len(resultCh) + calls <= MaxEvents
        /\ pool \in 0 .. MaxTxs
    BY MinerAssumption DEF TypeInv, ChainOK, ResultOK
  <2>2. made <= MaxEvents /\ pool <= MaxTxs /\ calls \in 0 .. MaxEvents /\ made \in 0 .. MaxEvents
    BY <2>1
  <2>3. BlockTo(made) \subseteq Block /\ Tasks \subseteq Task
    <3>1. Block = BlockTo(MaxEvents) /\ Task = TaskTo(MaxEvents, MaxTxs)
      BY DEF Block, Task, BlockTo, TaskTo
    <3>2. QED
      BY <2>1, <2>2, <3>1, Grow DEF Tasks
  <2>4. head.num \in 0 .. made
    BY DEF TypeInv, ChainOK, BlockTo
  <2>5. 0 .. head.num \subseteq 0 .. MaxEvents
    BY <2>1, <2>2, <2>4
  <2>6. headCh \in Seq(0 .. MaxEvents) /\ sideCh \in Seq(Block) /\ resultCh \in Seq(Task)
    BY <2>3, <2>5, SeqGrows DEF TypeInv, ChainOK, ResultOK
  <2>7. [task : Tasks, restart : BOOLEAN] \subseteq [task : Task, restart : BOOLEAN]
    BY <2>3
  <2>8. head \in Block /\ uncles \subseteq Block
    BY <2>3 DEF TypeInv, ChainOK, MainOK
  <2>9. {work, current, prev, currentBlock} \subseteq Task \cup {None}
    BY <2>3 DEF TypeInv, MainOK, SealOK
  <2>10. pendingTasks \subseteq Task /\ works \subseteq Task
         /\ late \subseteq [task : Task, restart : BOOLEAN]
    BY <2>3, <2>7 DEF TypeInv, SealOK
  <2>11. QED
    BY <2>1, <2>2, <2>6, <2>8, <2>9, <2>10
    DEF TypeOK, RunInv, TypeInv, LoopOK, SealOK, ResultOK
<1>4. QED
  BY <1>1, <1>2, <1>3, PTL DEF Spec

-----------------------------------------------------------------------------
(* Results that are not stale *)

\* What a step may do to the tasks: a task whose result may come had one
\* coming before or is pending now, and only stale tasks stop being pending.
Steady ==
    /\ \A t : Live(t)' => Live(t) \/ t \in pendingTasks'
    /\ \A t \in pendingTasks :
          Number(t) + StaleThreshold > head.num => t \in pendingTasks'

\* A live task is one of the tasks.
LEMMA LiveTyped ==
  ASSUME TypeInv, NEW t, Live(t)
  PROVE  t \in Tasks
BY DEF Live, TypeInv, SealOK, ResultOK

\* A steady step keeps the invariant.
LEMMA SteadyFresh ==
  ASSUME TypeInv, FreshInv, Steady, TypeInv', head.num <= head'.num
  PROVE  FreshInv'
<1> SUFFICES ASSUME NEW t, Live(t)', Number(t) + StaleThreshold > head'.num
             PROVE  t \in pendingTasks'
  BY DEF FreshInv, Number
<1>1. CASE Live(t)
  <2>1. t \in Tasks
    BY <1>1, LiveTyped
  <2>2. t.parent.num \in 0 .. made /\ made \in Nat /\ StaleThreshold \in Nat
    BY <2>1, MinerAssumption DEF Tasks, TaskTo, BlockTo, TypeInv, ChainOK
  <2>3. head.num \in Nat /\ head'.num \in Nat
    BY DEF TypeInv, ChainOK, BlockTo
  <2>4. Number(t) + StaleThreshold > head.num
    BY <2>2, <2>3 DEF Number
  <2>5. QED
    BY <1>1, <2>4 DEF FreshInv, Steady
<1>2. QED
  BY <1>1 DEF Steady

\* Steps that leave the tasks and the results alone.
LEMMA QuietSteady ==
  ASSUME UNCHANGED <<taskVars, resultCh>>
  PROVE  Steady
BY DEF Steady, Live, Sealing, taskVars, sealVars

\* A committed task replaces the last one and is pending.
LEMMA CommitSteady ==
  ASSUME NEW t, CommitTask(t), UNCHANGED resultCh
  PROVE  Steady
<1>1. CASE UNCHANGED taskVars
  BY <1>1, QuietSteady
<1>2. CASE SealTask(t)
  <2>1. PICK ls \in Leftovers : late' = late \cup ls
    BY <1>2 DEF SealTask
  <2>2. \A l \in ls : Sealing /\ l.task = prev
    BY <2>1 DEF Leftovers, Sealing
  <2>3. /\ prev' = t /\ pendingTasks' = pendingTasks \cup {t} /\ works' = works \cup {t}
    BY <1>2 DEF SealTask
  <2>4. ASSUME NEW s, Live(s)' PROVE Live(s) \/ s \in pendingTasks'
    <3>1. CASE s = prev' \/ s \in works'
      BY <2>3, <3>1 DEF Live
    <3>2. CASE \E l \in late' : l.task = s
      BY <2>1, <2>2, <3>2 DEF Live
    <3>3. CASE \E k \in DOMAIN resultCh' : resultCh'[k] = s
      BY <3>3 DEF Live
    <3>4. QED
      BY <2>4, <3>1, <3>2, <3>3 DEF Live
  <2>5. QED
    BY <2>3, <2>4 DEF Steady
<1>3. QED
  BY <1>1, <1>2 DEF CommitTask

\* newWorkLoop clears tasks that are stale for the head or for an older one.
LEMMA LoopSteady ==
  ASSUME TypeInv, ReceiveStart \/ ReceiveHead \/ Tick \/ ReceiveAdjust
  PROVE  Steady
<1>1. UNCHANGED <<prev, sealing, mining, late, works, resultCh>>
  BY DEF ReceiveStart, ReceiveHead, Tick, ReceiveAdjust, NewWorkLoop, sealVars
<1>2. \A t : Live(t)' => Live(t)
  BY <1>1 DEF Live, Sealing
<1>3. ASSUME NEW t \in pendingTasks, Number(t) + StaleThreshold > head.num
      PROVE  t \in pendingTasks'
  <2>1. CASE ReceiveStart
    BY <1>3, <2>1 DEF ReceiveStart, NewWorkLoop, NewRound, ClearPending
  <2>2. CASE ReceiveHead
    <3>1. headCh # <<>> /\ headCh \in Seq(0 .. head.num) /\ head.num \in Nat
      BY <2>2 DEF ReceiveHead, NewWorkLoop, TypeInv, ChainOK, BlockTo
    <3>2. Head(headCh) \in 0 .. head.num
      BY <3>1
    <3>3. t.parent.num \in 0 .. made /\ made \in Nat /\ StaleThreshold \in Nat
      BY MinerAssumption DEF TypeInv, SealOK, ChainOK, Tasks, TaskTo, BlockTo
    <3>4. Number(t) + StaleThreshold > Head(headCh)
      BY <1>3, <3>1, <3>2, <3>3 DEF Number
    <3>5. QED
      BY <2>2, <3>4 DEF ReceiveHead, NewWorkLoop, NewRound, ClearPending
  <2>3. CASE Tick \/ ReceiveAdjust
    BY <2>3 DEF Tick, ReceiveAdjust, NewWorkLoop
  <2>4. QED
    BY <2>1, <2>2, <2>3
<1>4. QED
  BY <1>2, <1>3 DEF Steady

LEMMA MainSteady ==
  ASSUME MainLoop
  PROVE  Steady
<1>1. UNCHANGED resultCh
  BY DEF MainLoop, ReceiveWork, FillTransactions, CommitFull, DiscardWork, ReceiveSide,
         CleanTicker, ReceiveTxs, MainUnchanged
<1>2. UNCHANGED taskVars \/ \E t : CommitTask(t)
  <2>1. CASE ReceiveWork
    BY <2>1 DEF ReceiveWork
  <2>2. CASE CommitFull
    BY <2>2 DEF CommitFull
  <2>3. CASE ReceiveSide
    BY <2>3 DEF ReceiveSide
  <2>4. CASE FillTransactions \/ DiscardWork \/ CleanTicker \/ ReceiveTxs
    BY <2>4 DEF FillTransactions, DiscardWork, CleanTicker, ReceiveTxs
  <2>5. QED
    BY <2>1, <2>2, <2>3, <2>4 DEF MainLoop
<1>3. QED
  BY <1>1, <1>2, QuietSteady, CommitSteady

\* An offered result is the task of one that was live.
LEMMA OfferLive ==
  ASSUME TypeInv, NEW t, Live(t), Offer(t), NEW k \in DOMAIN resultCh'
  PROVE  Live(resultCh'[k])
<1>1. resultCh \in Seq(Tasks) /\ t \in Tasks
  BY LiveTyped DEF TypeInv, ResultOK
<1>2. CASE resultCh' = Append(resultCh, t)
  <2>1. resultCh'[k] = t \/ (k \in DOMAIN resultCh /\ resultCh'[k] = resultCh[k])
    BY <1>1, <1>2
  <2>2. QED
    BY <2>1 DEF Live
<1>3. CASE resultCh' = resultCh
  BY <1>3 DEF Live
<1>4. QED
  BY <1>2, <1>3 DEF Offer

\* The sealers only hand on what is live.
LEMMA SealerSteady ==
  ASSUME TypeInv,
         \/ FindSeal \/ RestartSeal \/ ClearWorks
         \/ \E on \in BOOLEAN : SetThreads(on)
         \/ \E t \in works : SubmitWork(t)
         \/ \E l \in late : LateSeal(l)
  PROVE  Steady
<1>1. UNCHANGED <<prev, pendingTasks>>
  BY DEF FindSeal, RestartSeal, ClearWorks, SetThreads, SubmitWork, LateSeal, SealUnchanged
<1>2. Sealing' => Sealing
  BY MinerAssumption DEF FindSeal, RestartSeal, ClearWorks, SetThreads, SubmitWork, LateSeal,
     Sealing, sealVars
<1>3. late' \subseteq late
  BY DEF FindSeal, RestartSeal, ClearWorks, SetThreads, SubmitWork, LateSeal, sealVars
<1>4. \A t \in works' : Live(t)
  BY DEF FindSeal, RestartSeal, ClearWorks, SetThreads, SubmitWork, LateSeal, sealVars, Live,
     Sealing
<1>5. ASSUME NEW k \in DOMAIN resultCh' PROVE Live(resultCh'[k])
  <2>1. CASE UNCHANGED resultCh
    BY <2>1 DEF Live
  <2>2. CASE \E t : Live(t) /\ Offer(t)
    BY <2>2, OfferLive
  <2>3. UNCHANGED resultCh \/ \E t : Live(t) /\ Offer(t)
    BY DEF FindSeal, RestartSeal, ClearWorks, SetThreads, SubmitWork, LateSeal, Live, Sealing
  <2>4. QED
    BY <2>1, <2>2, <2>3
<1>6. \A t : Live(t)' => Live(t)
  BY <1>1, <1>2, <1>3, <1>4, <1>5 DEF Live
<1>7. QED
  BY <1>1, <1>6 DEF Steady

LEMMA ResultSteady ==
  ASSUME TypeInv, ReceiveResult
  PROVE  Steady
<1>1. /\ resultCh # <<>> /\ resultCh' = Tail(resultCh) /\ resultCh \in Seq(Tasks)
      /\ UNCHANGED taskVars
  BY DEF ReceiveResult, TypeInv, ResultOK
<1>2. \A k \in DOMAIN resultCh' : k + 1 \in DOMAIN resultCh /\ resultCh'[k] = resultCh[k + 1]
  BY <1>1
<1>3. \A t : Live(t)' => Live(t)
  BY <1>1, <1>2 DEF Live, Sealing, taskVars, sealVars
<1>4. QED
  BY <1>1, <1>3 DEF Steady, taskVars

LEMMA NextSteady ==
  ASSUME TypeInv, [Next]_vars
  PROVE  Steady
<1>1. CASE ImportBlock \/ Update \/ SendStart \/ UNCHANGED vars
  BY <1>1, QuietSteady DEF ImportBlock, Update, SendStart, vars
<1>2. QED
  BY <1>1, LoopSteady, MainSteady, SealerSteady, ResultSteady DEF Next

\* A sealed block less than StaleThreshold behind the head finds its task,
\* however late the sealers deliver it and whatever newWorkLoop has cleared.
THEOREM FreshSealsHaveTasks == Spec => []FreshResultsHaveTasks
<1>1. Init => TypeInv /\ FreshInv
  <2>1. Init => FreshInv
    BY MinerAssumption DEF Init, FreshInv, Live, Sealing
  <2>2. QED
    BY <2>1, InitTypes
<1>2. TypeInv /\ FreshInv /\ [Next]_vars => TypeInv' /\ FreshInv'
  BY NextTypes, NextSteady, SteadyFresh
<1>3. FreshInv => FreshResultsHaveTasks
  BY DEF FreshInv, FreshResultsHaveTasks, Live
<1>4. QED
  BY <1>1, <1>2, <1>3, PTL DEF Spec

=============================================================================
