------------------------------- MODULE Engine -------------------------------
(***************************************************************************)
(* The ethash engine between a miner and the other nodes: peers and the    *)
(* miner of this node extend a tree of blocks, each verified by the header *)
(* and uncle rules, and rewarded as Emission says; the miner prepares its  *)
(* block with code of its own (prepareWork, makeEnv, commitUncle), and     *)
(* this node does not verify it again (WriteBlockAndSetHead).              *)
(*                                                                         *)
(* Blocks are numbered in the order they appear, 0 being the block the     *)
(* behaviour starts from.  Every block stands for one verified when it is  *)
(* no longer from the future.                                              *)
(***************************************************************************)
EXTENDS Emission, HeaderRules, Sequences, FiniteSets

CONSTANTS
    maxUncles,        \* 2, in VerifyUncles and in prepareWork
    UncleDepth,       \* 7: ancestors VerifyUncles looks at
    FamilyDepth,      \* 7: ancestors makeEnv looks at
    GasCeil, PeerCeil,       \* the gas limits the miner and the peers aim at
    RootNumber, RootDifficulty, RootGasLimit,   \* choices for block 0
    Delays,           \* seconds between the time of a parent and the clock
    MaxBlocks,        \* bound: blocks besides block 0
    MaxTime,          \* bound: time of a block
    None

\* The miner looks back as far as the verification, the gas limits are legal, and
\* the times of the model stay within 64 bits.
ASSUME EngineAssumption ==
    /\ {maxUncles, UncleDepth, MaxBlocks, MaxTime} \subseteq Nat /\ FamilyDepth = UncleDepth
    /\ RootNumber \subseteq BaseBlock..(Horizon - MaxBlocks) /\ Delays \subseteq Nat
    /\ RootDifficulty \in Nat /\ RootGasLimit \in MinGasLimit..MaxGasLimit
    /\ {GasCeil, PeerCeil} \subseteq 0..MaxGasLimit
    /\ 2 * MaxTime + 1 < Word64 /\ None \notin Nat

VARIABLES
    blocks,     \* the tree: a block for every number in use
    head,       \* the current block of this node
    side,       \* blocks announced in a ChainSideEvent
    current     \* the environment the miner works on

treeVars == <<blocks, head, side, current>>

-----------------------------------------------------------------------------
(* The tree *)

Ids == DOMAIN blocks
Chain(b) == {blocks[b].chain[k] : k \in DOMAIN blocks[b].chain}

\* The bounds on the tree; no work is prepared that could not be sealed.
Room == Cardinality(Ids) <= MaxBlocks
DelaysAfter(b) == {d \in Delays : blocks[b].time + d <= MaxTime}

\* GetBlocksFromHash, and the loops over GetHeader: the block and its ancestors,
\* n in all.
GetBlocksFromHash(b, n) ==
    LET c == blocks[b].chain IN {c[k] : k \in {i \in DOMAIN c : i > Len(c) - n}}

UnclesOf(b) == {blocks[b].uncles[k] : k \in DOMAIN blocks[b].uncles}

\* Mutant: uncles of earlier blocks are not remembered.
VerifyUnclesForgets(parent, us) ==
    LET ancestors == GetBlocksFromHash(parent, UncleDepth)
    IN  /\ Len(us) <= maxUncles
        /\ \A k \in DOMAIN us :
              /\ us[k] \notin {us[j] : j \in 1..(k - 1)}
              /\ us[k] \notin ancestors
              /\ blocks[us[k]].parent \in ancestors \ {parent}

\* VerifyUncles for a block on top of parent: each uncle is new in the chain and
\* in the block, no ancestor, a child of an ancestor other than the parent, and
\* a valid header.
VerifyUncles(parent, us) ==
    LET ancestors == GetBlocksFromHash(parent, UncleDepth)
        past == UNION {UnclesOf(a) : a \in ancestors}
    IN  /\ Len(us) <= maxUncles
        /\ \A k \in DOMAIN us :
              /\ us[k] \notin past \cup {us[j] : j \in 1..(k - 1)}
              /\ us[k] \notin ancestors
              /\ blocks[us[k]].parent \in ancestors \ {parent}
              /\ verifyHeader(blocks[us[k]], blocks[blocks[us[k]].parent], TRUE, 0)

\* ReorgNeeded of the fork choice; the coin toss at its end is never reached.
ReorgNeeded(current_, extern) ==
    IF current_.number = extern.number THEN FALSE
    ELSE IF extern.td # current_.td THEN extern.td > current_.td
    ELSE extern.number < current_.number

\* The canonical states after a reorg to a branch that ends in block b.
Switch(b) ==
    /\ number' = b.number
    /\ supplyAt' = [n \in BaseBlock..b.number |->
                      IF n < blocks[0].number THEN supplyAt[n]
                      ELSE blocks'[b.chain[n - blocks[0].number + 1]].supply]

\* A block with header h is executed, which credits its coinbase, and written.
\* If the fork choice prefers it it becomes the head and the blocks a reorg
\* drops are announced as side blocks, otherwise the block itself is.
Insert(h, parent, us, local) ==
    LET id == Cardinality(Ids)
        b == [number |-> h.number, time |-> h.time, difficulty |-> h.difficulty,
              gasLimit |-> h.gasLimit, hasUncles |-> us # << >>,
              parent |-> parent, uncles |-> us, local |-> local,
              chain |-> Append(blocks[parent].chain, id),
              td |-> blocks[parent].td + h.difficulty,
              supply |-> blocks[parent].supply + accumulateRewards(h.number)]
    IN  /\ blocks' = [x \in Ids \cup {id} |-> IF x = id THEN b ELSE blocks[x]]
        /\ IF ReorgNeeded(blocks[head], b)
           THEN /\ head' = id /\ side' = side \cup (Chain(head) \ Chain(parent))
                /\ IF parent = head THEN Finalize ELSE Switch(b)
           ELSE /\ side' = side \cup {id}
                /\ UNCHANGED <<head, vars>>

-----------------------------------------------------------------------------
(* Peers *)

\* The lists of uncles a peer tries; their order makes no difference.
UncleLists ==
    {us \in UNION {[1..n -> Ids] : n \in 0..maxUncles} :
        \A j, k \in DOMAIN us : j < k => us[j] <= us[k]}

\* InsertChain of a peer's block on any block of the tree.
PeerBlock(parent, delay, us) ==
    LET p == blocks[parent]
        h == [number |-> p.number + 1, time |-> p.time + delay,
              difficulty |-> CalcDifficulty(p.time + delay, p),
              gasLimit |-> CalcGasLimit(p.gasLimit, PeerCeil)]
    IN  /\ VerifyUncles(parent, us)
        /\ verifyHeader(h, p, FALSE, h.time)
        /\ Insert(h, parent, us, FALSE)
        /\ UNCHANGED current

-----------------------------------------------------------------------------
(* The miner *)

\* Mutant: uncles of ancestors are not part of the family.
FamilyOfBlocks(parent) == GetBlocksFromHash(parent, FamilyDepth)

\* makeEnv: the blocks that cannot be uncles any more.
Family(parent) ==
    LET ancestors == GetBlocksFromHash(parent, FamilyDepth)
    IN  ancestors \cup UNION {UnclesOf(a) : a \in ancestors}

\* commitUncle: whether u can join the uncles us of a block on top of parent.
commitUncle(parent, us, u) ==
    /\ \A k \in DOMAIN us : us[k] # u
    /\ blocks[u].parent # parent
    /\ blocks[u].parent \in GetBlocksFromHash(parent, FamilyDepth)
    /\ u \notin Family(parent)

\* The uncles prepareWork finds for a block on top of parent: up to two side
\* blocks.  Which of them mainLoop has received is left open here.
UncleChoices(parent) ==
    {us \in UncleLists :
        \A k \in DOMAIN us : us[k] \in side /\ commitUncle(parent, SubSeq(us, 1, k - 1), us[k])}

\* prepareWork on the head, with the clock delay seconds after its time.
PrepareWork(delay) ==
    /\ Room
    /\ \E us \in UncleChoices(head) :
          current' = [header |-> prepareHeader(blocks[head], blocks[head].time + delay, GasCeil),
                      parent |-> head, uncles |-> us]
    /\ UNCHANGED <<blocks, head, side, vars>>

\* mainLoop receives a side event: the block joins the current work if there is
\* room.
ReceiveSide(u) ==
    /\ Room /\ current # None /\ Len(current.uncles) < maxUncles
    /\ commitUncle(current.parent, current.uncles, u)
    /\ current' = [current EXCEPT !.uncles = Append(@, u)]
    /\ UNCHANGED <<blocks, head, side, vars>>

\* resultLoop writes the sealed block without verifying it, unless it has it.
Sealed ==
    /\ current # None /\ Room
    /\ \A b \in Ids : blocks[b].local =>
          <<blocks[b].parent, blocks[b].time, blocks[b].uncles>> #
             <<current.parent, current.header.time, current.uncles>>
    /\ Insert(current.header, current.parent, current.uncles, TRUE)
    /\ UNCHANGED current

-----------------------------------------------------------------------------
\* Block 0 is any block of a chain that has followed the schedule.
EngineInit ==
    \E n \in RootNumber :
       LET issued == [m \in BaseBlock..n |->
                        ScheduledSupply(IF m < FinalBlock THEN m ELSE FinalBlock - 1)]
       IN  /\ number = n /\ supplyAt = issued
           /\ blocks = [x \in {0} |->
                         [number |-> n, time |-> 0, difficulty |-> RootDifficulty,
                          gasLimit |-> RootGasLimit, hasUncles |-> FALSE,
                          parent |-> None, uncles |-> << >>, local |-> FALSE,
                          chain |-> <<0>>, td |-> RootDifficulty, supply |-> issued[n]]]
           /\ head = 0 /\ side = {} /\ current = None

EngineNext ==
    \/ /\ Room
       /\ \E p \in Ids : \E us \in UncleLists : \E d \in DelaysAfter(p) : PeerBlock(p, d, us)
    \/ \E d \in DelaysAfter(head) : PrepareWork(d)
    \/ \E u \in side : ReceiveSide(u)
    \/ Sealed

EngineSpec == EngineInit /\ [][EngineNext]_<<vars, treeVars>>

-----------------------------------------------------------------------------
(* Properties *)

\* Every other node accepts what this miner seals, although it is assembled by
\* code of its own and changed while it is sealed: each block of the tree
\* passes the header rules and VerifyUncles on its own chain.
MinedBlocksVerify ==
    \A b \in Ids \ {0} :
       /\ verifyHeader(blocks[b], blocks[blocks[b].parent], FALSE, blocks[b].time)
       /\ VerifyUncles(blocks[b].parent, blocks[b].uncles)

\* "Make sure every uncle is rewarded only once": on no chain is a block named
\* twice as an uncle, or an uncle of the chain it belongs to, however far apart,
\* although VerifyUncles looks back a few blocks only.
UnclesOnce ==
    \A b \in Ids :
       \A x \in Chain(b) : \A u \in UnclesOf(x) :
          /\ u \notin Chain(b)
          /\ \A y \in Chain(b) \ {x} : u \notin UnclesOf(y)

\* The big-integer calculators and their 256-bit variants give a child of any
\* block, which was once the newest, the same difficulty, whenever it is found.
CalculatorsAgree ==
    LET p == blocks[Cardinality(Ids) - 1] IN \A d \in 1..MaxTime : SameDifficulty(p.time + d, p)

=============================================================================
