----------------------------- MODULE ChainFreezer -----------------------------
(***************************************************************************)
(* The freezer and the key-value store that together hold the chain: the   *)
(* background thread that moves old blocks from one to the other, SetHead, *)
(* faults, and what opening the database checks and repairs               *)
(* (client/core/rawdb/chain_freezer.go, freezer.go, database.go, and       *)
(* setHead in client/core/headerchain.go).                                 *)
(*                                                                         *)
(* The canonical chain is the sequence of the versions of its blocks above *)
(* the genesis block: a rewind starts a new version.  The markers of the   *)
(* head are its end, written with the batch that moves it.  Batches of the *)
(* key-value store are atomic and durable.  Headers, bodies, receipts and  *)
(* difficulties are reduced to a few tables with items of different sizes. *)
(***************************************************************************)
EXTENDS FreezerTable

CONSTANTS
    Kind,          \* names of the tables
    Size,          \* size of the items of each table
    Threshold,     \* threshold: 90000
    BatchLimit,    \* freezerBatchLimit: 30000
    DeepRaces,     \* may a rewind reach blocks of the thread's batch, or a crash
                   \* interrupt one that reaches frozen blocks?
    TornWrites,    \* may a failing write leave a part of its data?
    MaxHead,       \* bound: height of the chain
    MaxRewinds,    \* bound: rewinds
    MaxSides,      \* bound: side blocks
    MaxFaults,     \* bound: crashes and failing writes
    None

Version == 0 .. MaxRewinds + MaxSides
Block   == [num : 1 .. MaxHead, ver : Version, pver : Version]
Rewinds == [target : 0 .. MaxHead, phase : {"marker", "delete"}, nums : SUBSET (1 .. MaxHead)]

ASSUME FreezerAssumption ==
    /\ Kind # {} /\ Size \in [Kind -> 1 .. MaxFileSize]
    /\ {Threshold, BatchLimit, MaxHead, MaxRewinds, MaxSides, MaxFaults} \subseteq Nat
    /\ LastFile >= MaxHead   \* an item needs at most one new file
    /\ None \notin Version /\ None \notin Rewinds /\ None \notin Block
    /\ DeepRaces \in BOOLEAN /\ TornWrites \in BOOLEAN

VARIABLES
    chain,      \* versions of the canonical blocks 1, 2, ...
    canon,      \* canonical hashes in the key-value store
    stored,     \* blocks in the key-value store
    tables,     \* the tables of the freezer
    frozen,     \* f.frozen
    pc,         \* where the thread is
    first,      \* first number of its batch
    limit,      \* last number of its batch
    ancients,   \* hashes it has read for its batch
    batches,    \* the write batch, by table
    upto,       \* f.frozen as the thread reloaded it
    next,       \* number whose hashes it reads next
    doomed,     \* side blocks in its write batch
    dangling,   \* those of them that it found at the number before next
    importing,  \* side block whose parent was found, not yet written, or None
    late,       \* history: blocks that were written too late to be found, and
                \* whose parent goes or is gone
    rewind,     \* SetHead in progress: its target and pending deletions, or None
    rewinds, sides, faults,
    refused     \* did opening the database fail?

chainVars  == <<chain, canon, stored>>
wipeVars   == <<upto, next, doomed, dangling>>
threadVars == <<pc, first, limit, ancients, batches, wipeVars>>
importVars == <<importing, late>>
counters   == <<rewinds, sides, faults>>
vars == <<chainVars, tables, frozen, threadVars, importVars, rewind, counters, refused>>

HeadNumber == Len(chain)

VersionAt(n) == IF n = 0 THEN 0 ELSE chain[n]

TypeOK ==
    /\ chain \in Seq(Version) /\ HeadNumber <= MaxHead
    /\ canon \in [1 .. MaxHead -> Version \cup {None}]
    /\ stored \subseteq Block
    /\ \A k \in Kind : tables[k].headId \in FileId
    /\ frozen \in 0 .. MaxHead + 1
    /\ pc \in {"idle", "freeze", "sync", "wipe", "reload", "sides", "dangling"}
    /\ first \in 0 .. MaxHead /\ limit \in 0 .. MaxHead
    /\ ancients \in Seq(Version)
    /\ upto \in 0 .. MaxHead + 1 /\ next \in 0 .. MaxHead + 2
    /\ doomed \subseteq Block /\ dangling \subseteq Block
    /\ importing \in Block \cup {None} /\ late \subseteq Block
    /\ rewind \in Rewinds \cup {None}
    /\ rewinds \in 0 .. MaxRewinds /\ sides \in 0 .. MaxSides /\ faults \in 0 .. MaxFaults
    /\ refused \in BOOLEAN

NoBatches == [k \in Kind |-> EmptyBatch]

(***************************************************************************)
(* A database with the genesis block, which stays in the key-value store.  *)
(***************************************************************************)
Init ==
    /\ chain = <<>> /\ canon = [n \in 1 .. MaxHead |-> None] /\ stored = {}
    /\ tables = [k \in Kind |-> EmptyTable] /\ frozen = 0
    /\ pc = "idle" /\ first = 0 /\ limit = 0 /\ ancients = <<>>
    /\ batches = NoBatches
    /\ upto = 0 /\ next = 0 /\ doomed = {} /\ dangling = {}
    /\ importing = None /\ late = {}
    /\ rewind = None
    /\ rewinds = 0 /\ sides = 0 /\ faults = 0
    /\ refused = FALSE

-----------------------------------------------------------------------------
(***************************************************************************)
(* Imports (client/core/blockchain.go, reduced to their batches).  chainmu *)
(* keeps them and SetHead apart; the freezer's thread does not take it.    *)
(***************************************************************************)
ChainFree == rewind = None /\ importing = None /\ ~refused

ImportBlock ==
    /\ ChainFree
    /\ HeadNumber < MaxHead
    /\ LET b == [num |-> HeadNumber + 1, ver |-> rewinds, pver |-> VersionAt(HeadNumber)]
       IN  /\ chain' = Append(chain, b.ver)
           /\ canon' = [canon EXCEPT ![b.num] = b.ver]
           /\ stored' = stored \cup {b}
    /\ UNCHANGED <<tables, frozen, threadVars, importVars, rewind, counters, refused>>

IsParent(p, b) == p.num = b.num - 1 /\ p.ver = b.pver

(***************************************************************************)
(* A block beside the chain is verified on top of any block that is stored *)
(* or on the chain, and written later, whatever has become of its parent.  *)
(***************************************************************************)
VerifySide(n, pver) ==
    /\ ChainFree
    /\ sides < MaxSides /\ sides' = sides + 1
    /\ n <= HeadNumber
    /\ LET b == [num |-> n, ver |-> MaxRewinds + sides', pver |-> pver]
       IN  /\ pver = VersionAt(n - 1) \/ \E p \in stored : IsParent(p, b)
           /\ importing' = b
    /\ UNCHANGED <<chainVars, tables, frozen, threadVars, late, rewind, rewinds, faults, refused>>

(***************************************************************************)
(* The parent of b stays, or the freezer has yet to read the hashes at the *)
(* number of b and will find b there.                                      *)
(***************************************************************************)
InTime(b) ==
    \/ b.pver = VersionAt(b.num - 1)
    \/ \E p \in stored \ doomed : IsParent(p, b)
    \/ b.num = next /\ \E p \in dangling : IsParent(p, b)

WriteSide ==
    /\ importing # None /\ ~refused
    /\ stored' = stored \cup {importing}
    /\ late' = IF InTime(importing) THEN late ELSE late \cup {importing}
    /\ importing' = None
    /\ UNCHANGED <<chain, canon, tables, frozen, threadVars, rewind, counters, refused>>

-----------------------------------------------------------------------------
(***************************************************************************)
(* The background thread: freeze and freezeRange                           *)
(***************************************************************************)
ThreadStep(from) ==
    pc = from /\ ~refused /\ UNCHANGED <<importVars, rewind, counters, refused>>

(***************************************************************************)
(* Does the rewind in progress leave the blocks up to n alone?             *)
(***************************************************************************)
RewindSpares(n) == rewind # None => n <= rewind.target

MayOverlap(spared) == ~DeepRaces => spared

\* Mutant: waits until a whole batch can be frozen.
StartFullFreeze ==
    /\ ThreadStep("idle")
    /\ HeadNumber >= Threshold /\ HeadNumber - Threshold >= frozen + BatchLimit
    /\ first' = frozen /\ limit' = frozen + BatchLimit
    /\ MayOverlap(RewindSpares(limit'))
    /\ ancients' = <<>> /\ batches' = NoBatches
    /\ pc' = "freeze"
    /\ UNCHANGED <<chainVars, tables, frozen, wipeVars>>

(***************************************************************************)
(* The thread looks at the head and takes a batch of blocks that are at    *)
(* least Threshold below it; ModifyAncients takes the lock of the freezer. *)
(***************************************************************************)
StartFreeze ==
    /\ ThreadStep("idle")
    /\ HeadNumber >= Threshold /\ HeadNumber - Threshold > frozen
    /\ first' = frozen
    /\ limit' = Min({HeadNumber - Threshold, frozen + BatchLimit})
    /\ MayOverlap(RewindSpares(limit'))
    /\ ancients' = <<>> /\ batches' = NoBatches
    /\ pc' = "freeze"
    /\ UNCHANGED <<chainVars, tables, frozen, wipeVars>>

Number == first + Len(ancients)

(***************************************************************************)
(* The version of the canonical block at n in the key-value store, if the  *)
(* hash and the block are both there.                                      *)
(***************************************************************************)
Canonical(n) ==
    IF n = 0 THEN 0
    ELSE IF \E b \in stored : b.num = n /\ b.ver = canon[n] THEN canon[n] ELSE None

Item(k, n, ver) == [i \in 1 .. Size[k] |-> [num |-> n, ver |-> ver]]

(***************************************************************************)
(* One block of the batch is read and appended to every table.             *)
(***************************************************************************)
FreezeBlock ==
    /\ ThreadStep("freeze") /\ Number <= limit
    /\ LET ver == Canonical(Number)
           app == [k \in Kind |-> AppendItem(tables[k], batches[k], Item(k, Number, ver))]
       IN  /\ ver # None
           /\ tables' = [k \in Kind |-> app[k].table]
           /\ batches' = [k \in Kind |-> app[k].batch]
           /\ ancients' = Append(ancients, ver)
    /\ UNCHANGED <<chainVars, frozen, pc, first, limit, wipeVars>>

(***************************************************************************)
(* A block of the batch is missing, or writing the buffer of table k fails *)
(* after n units, when it is full or at the end: ModifyAncients goes back  *)
(* to the items it began with.                                             *)
(***************************************************************************)
BlockMissing == Number <= limit /\ Canonical(Number) = None

WriteOut(k) ==
    LET item == Item(k, Number, Canonical(Number))
        more == Buffered(tables[k], batches[k], item)
    IN  IF Number > limit \/ ~Fits(tables[k], batches[k], item) THEN batches[k].data
        ELSE IF Full(more) THEN more.data
        ELSE <<>>

WriteFails(k, n) ==
    /\ faults < MaxFaults
    /\ n < Len(WriteOut(k)) /\ (n > 0 => TornWrites)

Aborts(k, n) == IF BlockMissing THEN n = 0 ELSE WriteFails(k, n)

RollBack(k, n) ==
    /\ pc = "freeze" /\ ~refused
    /\ Aborts(k, n)
    /\ tables' = [j \in Kind |->
                     TruncateHead(IF j = k THEN TornCommit(tables[k], SubSeq(WriteOut(k), 1, n))
                                           ELSE tables[j],
                                  frozen)]
    /\ batches' = NoBatches
    /\ pc' = "idle"
    /\ faults' = IF BlockMissing THEN faults ELSE faults + 1
    /\ UNCHANGED <<chainVars, frozen, first, limit, ancients, wipeVars, importVars,
                   rewind, rewinds, sides, refused>>

(***************************************************************************)
(* The batch is committed to all tables and the lock released.             *)
(***************************************************************************)
CommitFreeze ==
    /\ ThreadStep("freeze") /\ Number > limit
    /\ tables' = [k \in Kind |-> CommitBatch(tables[k], batches[k])]
    /\ batches' = NoBatches
    /\ frozen' = Number
    /\ pc' = "sync"
    /\ UNCHANGED <<chainVars, first, limit, ancients, wipeVars>>

\* Mutant: the frozen blocks are wiped without a sync.
SyncFreezeSkipped ==
    /\ ThreadStep("sync")
    /\ pc' = "wipe"
    /\ UNCHANGED <<chainVars, tables, frozen, first, limit, ancients, batches, wipeVars>>

SyncFreeze ==
    /\ ThreadStep("sync")
    /\ tables' = [k \in Kind |-> SyncTable(tables[k])]
    /\ pc' = "wipe"
    /\ UNCHANGED <<chainVars, frozen, first, limit, ancients, batches, wipeVars>>

(***************************************************************************)
(* The frozen blocks leave the key-value store, the genesis block excepted.*)
(***************************************************************************)
WipeCanonical ==
    /\ ThreadStep("wipe")
    /\ LET gone == {n \in first .. first + Len(ancients) - 1 : n # 0}
       IN  /\ stored' = {b \in stored : ~(b.num \in gone /\ b.ver = ancients[b.num - first + 1])}
           /\ canon' = [n \in DOMAIN canon |-> IF n \in gone THEN None ELSE canon[n]]
    /\ pc' = "reload"
    /\ UNCHANGED <<chain, tables, frozen, first, limit, ancients, batches, wipeVars>>

(***************************************************************************)
(* Then everything else at their numbers.  frozen is reloaded; the hashes  *)
(* at one number after the other are read and put in a batch; the batch is *)
(* written.  Imports and SetHead go on in between.                         *)
(***************************************************************************)
ReloadFrozen ==
    /\ ThreadStep("reload")
    /\ upto' = frozen /\ next' = first
    /\ pc' = "sides"
    /\ UNCHANGED <<chainVars, tables, frozen, first, limit, ancients, batches, doomed, dangling>>

AllHashes(n) == {b \in stored : b.num = n}

ReadSides ==
    /\ ThreadStep("sides") /\ next < upto
    /\ dangling' = AllHashes(next)
    /\ doomed' = doomed \cup AllHashes(next)
    /\ next' = next + 1
    /\ UNCHANGED <<chainVars, tables, frozen, pc, first, limit, ancients, batches, upto>>

WriteBatch == stored' = stored \ doomed /\ doomed' = {}

WipeSides ==
    /\ ThreadStep("sides") /\ next >= upto
    /\ WriteBatch
    /\ next' = upto
    /\ pc' = "dangling"
    /\ UNCHANGED <<chain, canon, tables, frozen, first, limit, ancients, batches, upto, dangling>>

(***************************************************************************)
(* And the blocks on top of the side blocks at the last frozen number, one *)
(* number after the other until nothing is found; again all are deleted by *)
(* one batch at the end.  A hash whose header SetHead deletes before it is *)
(* looked up is skipped; nothing is left on top of it.                     *)
(***************************************************************************)
Children(bs) == {c \in AllHashes(next) : \E b \in bs : IsParent(b, c)}

\* Mutant: blocks on top of the side blocks stay.
ReadDanglingNone ==
    /\ ThreadStep("dangling") /\ dangling # {}
    /\ dangling' = {} /\ doomed' = doomed
    /\ next' = next + 1
    /\ UNCHANGED <<chainVars, tables, frozen, pc, first, limit, ancients, batches, upto>>

ReadDangling ==
    /\ ThreadStep("dangling") /\ dangling # {}
    /\ dangling' = Children(dangling)
    /\ doomed' = doomed \cup Children(dangling)
    /\ next' = next + 1
    /\ UNCHANGED <<chainVars, tables, frozen, pc, first, limit, ancients, batches, upto>>

WipeDangling ==
    /\ ThreadStep("dangling") /\ dangling = {}
    /\ WriteBatch
    /\ upto' = 0 /\ next' = 0 /\ ancients' = <<>>
    /\ pc' = "idle"
    /\ UNCHANGED <<chain, canon, tables, frozen, first, limit, batches, dangling>>

-----------------------------------------------------------------------------
(***************************************************************************)
(* SetHead                                                                 *)
(***************************************************************************)
StartRewind(target) ==
    /\ ChainFree
    /\ rewinds < MaxRewinds /\ rewinds' = rewinds + 1
    /\ target < HeadNumber
    /\ MayOverlap(pc # "idle" => limit <= target)
    /\ rewind' = [target |-> target, phase |-> "marker", nums |-> {}]
    /\ UNCHANGED <<chainVars, tables, frozen, threadVars, importVars, sides, faults, refused>>

(***************************************************************************)
(* The markers move to the parent of the head.  The first round also takes *)
(* whatever is stored above, number by number without a gap.               *)
(***************************************************************************)
LeftoversAbove(num) ==
    {n \in num + 1 .. MaxHead : \A m \in num + 1 .. n : \E b \in stored : b.num = m}

RewindMarker ==
    /\ rewind # None /\ rewind.phase = "marker" /\ HeadNumber > rewind.target
    /\ chain' = SubSeq(chain, 1, HeadNumber - 1)
    /\ rewind' = [rewind EXCEPT !.phase = "delete",
                    !.nums = @ \cup {HeadNumber}
                               \cup IF @ = {} THEN LeftoversAbove(HeadNumber) ELSE {}]
    /\ UNCHANGED <<canon, stored, tables, frozen, threadVars, importVars, counters, refused>>

(***************************************************************************)
(* A frozen block is truncated at once, with the lock of the freezer; all  *)
(* other deletions wait for the end.                                       *)
(***************************************************************************)
RewindDelete ==
    /\ rewind # None /\ rewind.phase = "delete"
    /\ LET num == HeadNumber + 1
       IN  IF num + 1 <= frozen
           THEN /\ pc # "freeze"
                /\ tables' = [k \in Kind |-> TruncateHead(tables[k], num)]
                /\ frozen' = num
           ELSE UNCHANGED <<tables, frozen>>
    /\ rewind' = [rewind EXCEPT !.phase = "marker"]
    /\ UNCHANGED <<chainVars, threadVars, importVars, counters, refused>>

FinishRewind ==
    /\ rewind # None /\ rewind.phase = "marker" /\ HeadNumber = rewind.target
    /\ stored' = {b \in stored : b.num \notin rewind.nums}
    /\ canon' = [n \in DOMAIN canon |-> IF n \in rewind.nums THEN None ELSE canon[n]]
    /\ rewind' = None
    /\ UNCHANGED <<chain, tables, frozen, threadVars, importVars, counters, refused>>

-----------------------------------------------------------------------------
(***************************************************************************)
(* Crash and restart                                                       *)
(***************************************************************************)

(***************************************************************************)
(* Freezer.repair: all tables are cut to the shortest.                     *)
(***************************************************************************)
RepairTables(ts) ==
    LET head == Min({Items(ts[k]) : k \in Kind})
    IN  [k \in Kind |-> TruncateHead(ts[k], head)]

(***************************************************************************)
(* NewDatabaseWithFreezer refuses a gap between freezer and key-value      *)
(* store, and an empty freezer whose first block is gone.                  *)
(***************************************************************************)
Gap(items) ==
    IF items > 0
    THEN HeadNumber >= items /\ canon[items] = None
    ELSE HeadNumber > 0 /\ canon[1] = None

Reopened(k) == {Repair(t) : t \in Crashed(tables[k])}

(***************************************************************************)
(* A crash loses what was not synced.  If the freezer reaches above the    *)
(* head, NewBlockChain calls SetHead with the number of the head, which    *)
(* finds nothing to do.                                                    *)
(***************************************************************************)
CrashAndRestart ==
    /\ ~refused
    /\ faults < MaxFaults /\ faults' = faults + 1
    /\ MayOverlap(frozen > 0 => RewindSpares(frozen - 1))
    /\ \E ts \in [Kind -> UNION {Reopened(k) : k \in Kind}] :
          /\ \A k \in Kind : ts[k] \in Reopened(k)
          /\ tables' = RepairTables(ts)
    /\ frozen' = Min({Items(tables'[k]) : k \in Kind})
    /\ refused' = Gap(frozen')
    /\ pc' = "idle" /\ first' = 0 /\ limit' = 0 /\ ancients' = <<>>
    /\ batches' = NoBatches
    /\ upto' = 0 /\ next' = 0 /\ doomed' = {} /\ dangling' = {}
    /\ importing' = None
    /\ rewind' = None
    /\ UNCHANGED <<chainVars, late, rewinds, sides>>

-----------------------------------------------------------------------------
Thread ==
    \/ StartFreeze \/ FreezeBlock \/ CommitFreeze
    \/ \E k \in Kind, n \in 0 .. MaxFileSize : RollBack(k, n)
    \/ SyncFreeze \/ WipeCanonical \/ ReloadFrozen
    \/ ReadSides \/ WipeSides \/ ReadDangling \/ WipeDangling

SetHead == RewindMarker \/ RewindDelete \/ FinishRewind

Next ==
    \/ ImportBlock
    \/ \E n \in 1 .. MaxHead, pver \in Version : VerifySide(n, pver)
    \/ WriteSide
    \/ Thread
    \/ \E target \in 0 .. MaxHead : StartRewind(target)
    \/ SetHead
    \/ CrashAndRestart

(***************************************************************************)
(* The thread wakes up by a timer, and SetHead runs to its end.            *)
(***************************************************************************)
Fairness == WF_vars(Thread) /\ WF_vars(SetHead)

Spec == Init /\ [][Next]_vars /\ Fairness

-----------------------------------------------------------------------------
(***************************************************************************)
(* Reading the canonical chain by number, the freezer first.               *)
(***************************************************************************)
Frozen(n, ver) ==
    \A k \in Kind :
       /\ Items(tables[k]) > n
       /\ tables[k].index.cur[n + 1].off <= Len(tables[k].data[tables[k].index.cur[n + 1].file].cur)
       /\ Retrieve(tables[k], n) = Item(k, n, ver)

(***************************************************************************)
(* Every block of the chain can be read, from the freezer or else from the *)
(* key-value store, and is the right one, at any moment and after a crash  *)
(* at any moment: no block is deleted before it is safe elsewhere.         *)
(***************************************************************************)
ChainReadable ==
    \A n \in 1 .. HeadNumber :
       IF n < frozen THEN Frozen(n, VersionAt(n)) ELSE Canonical(n) = VersionAt(n)

(***************************************************************************)
(* Unless a batch is being written, all tables end with the same item, and *)
(* each item of each table reads as it was appended: index and data, file  *)
(* changes, truncations, torn writes and repairs fit together.             *)
(***************************************************************************)
TablesAgree ==
    pc # "freeze" =>
       /\ \A k \in Kind : Items(tables[k]) = frozen
       /\ \A n \in 0 .. frozen - 1 : \E ver \in Version : Frozen(n, ver)

(***************************************************************************)
(* The database always opens after a crash: freezer and key-value store    *)
(* never have a gap between them.                                          *)
(***************************************************************************)
AlwaysOpens == ~refused

(***************************************************************************)
(* What NewBlockChain promises after a crash in SetHead: the freezer does  *)
(* not reach above the head.                                               *)
(***************************************************************************)
NoExtraAncients == rewind = None => frozen <= HeadNumber + 1

(***************************************************************************)
(* While nothing has failed and the thread is idle, a stored block without *)
(* its parent, stored or frozen, is one that was written too late: side    *)
(* chains that the freezer cut off are gone entirely, but for blocks that  *)
(* were imported after their number was read, on a parent that was in the  *)
(* batch or already gone (chain_freezer.go:181-231, without chainmu).      *)
(***************************************************************************)
Quiet == pc = "idle" /\ faults = 0 /\ rewind = None

HasParent(b) ==
    \/ b.num = 1
    \/ \E p \in stored : IsParent(p, b)
    \/ b.num - 1 < frozen /\ Frozen(b.num - 1, b.pver)

OnlyLateOrphans == Quiet => \A b \in stored : HasParent(b) \/ b \in late

(***************************************************************************)
(* "Wipe out side chains also and track dangling side chains": without     *)
(* the exception.  An import between the reads and the write breaks it.    *)
(***************************************************************************)
NoOrphans == Quiet => \A b \in stored : HasParent(b)

(***************************************************************************)
(* Blocks that are old enough are frozen in the end, whatever was rolled   *)
(* back or lost before.                                                    *)
(***************************************************************************)
FreezerCatchesUp == <>[](HeadNumber <= frozen + Threshold)

=============================================================================
