-------------------------- MODULE BlockChainProofs --------------------------
(***************************************************************************)
(* Proofs about BlockChain, for every block tree and any number of crashes *)
(* and rewinds: types, that no stored block ever loses its parent, what    *)
(* the canonical hashes and the transaction lookups are, that the chain of *)
(* the head is valid, has the state of its head, and gets heavier.         *)
(***************************************************************************)
EXTENDS BlockChain, FiniteSetTheorems, SequenceTheorems, WellFoundedInduction, TLAPS

-----------------------------------------------------------------------------
(* The inductive invariant *)

ImportPCs == {"first", "known", "exec", "state", "reorg", "head", "mark", "side"}

ImportOps ==
    [pc : ImportPCs, chain : Seq(Block \ {Genesis}), i : Nat \ {0}, start : Block,
     now : Nat, tgt : Block \cup {None}, old : Block \cup {None}, todo : Seq(Block),
     ret : {"exec", "known", "skip", "done"}, dirty : Block \cup {None}]

RewindOps == [pc : {"rewind"}, target : Nat, del : SUBSET Nat]

MarkersAt(b) == [block |-> b, header |-> b, snap |-> b]

\* What is queued, and the operation in progress, are well formed; only a
\* running node has an operation.
ControlOK ==
    /\ op \in {Idle} \cup ImportOps \cup RewindOps
    /\ future \subseteq Block \ {Genesis} /\ procQueue \in Seq(Block \ {Genesis})
    /\ Genesis \in disk
    /\ up \/ op = Idle

\* Between the batch of writeHeadBlock and its last step.
MarkersBehind == op.pc \in {"reorg", "mark"} /\ op.dirty # None

\* The markers in memory name stored blocks and are the persisted ones, except
\* inside writeHeadBlock.
MarkersOK ==
    up => /\ {mem.block, mem.header, mem.snap} \subseteq stored
          /\ IF MarkersBehind THEN db = MarkersAt(op.dirty) ELSE mem = db

\* The blocks an import is about to make canonical are stored.
ImportOK ==
    /\ op.pc \in {"state", "reorg", "head", "mark"} => op.tgt \in stored \ {Genesis}
    /\ op.pc = "reorg" => \A k \in DOMAIN op.todo : op.todo[k] \in stored
    /\ op.pc = "mark" => op.dirty = op.tgt
    /\ op.pc \in ImportPCs \ {"reorg", "mark"} => op.dirty = None
    /\ op.pc = "side" =>
          /\ op.tgt \in Block /\ op.i <= Len(op.chain) + 1
          /\ op.i = 1 => op.i <= Len(op.chain) /\ NextVerdict = "pruned"

\* What a rewind is about to delete lies above the header it has reached, and
\* above every number it deletes it deletes everything.
RewindOK ==
    op.pc = "rewind" /\ op.del # {} =>
        /\ \A n \in op.del : n > Number[mem.header]
        /\ Number[mem.header] + 1 \in op.del
        /\ Number[mem.block] <= Number[mem.header] /\ Number[mem.snap] <= Number[mem.header]
        /\ \A b \in stored \ {Genesis} : Number[Parent[b]] \in op.del => Number[b] \in op.del

IndInv == TypeOK /\ NoDanglingBlocks /\ ControlOK /\ MarkersOK /\ ImportOK /\ RewindOK

-----------------------------------------------------------------------------
(* The block tree *)

\* Least-number principle, for a set of naturals: what induction over heights
\* rests on in this module.
LEMMA NatMin ==
    ASSUME NEW T, T \subseteq Nat, T # {}
    PROVE  \E n \in T : \A m \in T : n <= m
<1>1. \E n \in T : \A m \in T : ~ (<<m, n>> \in OpToRel(<, Nat))
  BY NatLessThanWellFounded, WFMin, Zenon
<1>2. \A m \in Nat : \A n \in Nat : m < n => <<m, n>> \in OpToRel(<, Nat)
  BY DEF OpToRel
<1>3. \E n \in T : \A m \in T : ~ (m < n)
  <2>1. \A m \in T : m \in Nat
    OBVIOUS
  <2>2. QED
    BY <2>1, <1>1, <1>2, Zenon
<1>4. QED
  BY <1>3

\* A nonempty set of blocks that holds the parents of its blocks goes down to
\* Genesis.
LEMMA ClosedHasGenesis ==
    ASSUME NEW S \in SUBSET Block, S # {}, ParentClosed(S)
    PROVE  Genesis \in S
<1> DEFINE T == {Number[b] : b \in S}
<1>1. T \subseteq Nat /\ T # {}
  BY TreeAssumption
<1>2. PICK n \in T : \A m \in T : n <= m
  <2> HIDE DEF T
  <2> QED BY <1>1, NatMin
<1>3. PICK b \in S : Number[b] = n
  BY <1>2
<1>4. ASSUME b # Genesis PROVE FALSE
  <2>1. Parent[b] \in S /\ Number[b] = Number[Parent[b]] + 1 /\ Number[Parent[b]] \in Nat
    BY <1>4, TreeAssumption DEF ParentClosed
  <2>2. QED
    BY <1>2, <1>3, <2>1
<1>5. QED
  BY <1>3, <1>4

\* The chain of a block: it starts there, is within every closed set that holds
\* the block, is itself closed, ends at Genesis and never goes up.
LEMMA AncestorsOK ==
    ASSUME NEW b \in Block
    PROVE  /\ Ancestors[b] \subseteq Block /\ b \in Ancestors[b]
           /\ \A S \in SUBSET Block : b \in S /\ ParentClosed(S) => Ancestors[b] \subseteq S
           /\ ParentClosed(Ancestors[b]) /\ Genesis \in Ancestors[b]
           /\ \A a \in Ancestors[b] : Number[a] <= Number[b]
<1>1. /\ Ancestors[b] \subseteq Block /\ b \in Ancestors[b]
      /\ \A S \in SUBSET Block : b \in S /\ ParentClosed(S) => Ancestors[b] \subseteq S
  BY Zenon DEF Ancestors
<1>2. ParentClosed(Ancestors[b])
  <2>1. ASSUME NEW a \in Ancestors[b], a # Genesis PROVE Parent[a] \in Ancestors[b]
    <3>1. ASSUME NEW S \in SUBSET Block, b \in S, ParentClosed(S) PROVE Parent[a] \in S
      BY <2>1, <3>1, <1>1 DEF ParentClosed
    <3>2. Parent[a] \in Block
      BY <2>1, <1>1, TreeAssumption
    <3>3. QED
      BY <3>1, <3>2, Zenon DEF Ancestors
  <2>2. QED
    BY <2>1 DEF ParentClosed
<1>3. Genesis \in Ancestors[b]
  BY <1>1, <1>2, ClosedHasGenesis
<1>4. \A a \in Ancestors[b] : Number[a] <= Number[b]
  <2> DEFINE S == {x \in Block : Number[x] <= Number[b]}
  <2>1. b \in S /\ ParentClosed(S)
    BY TreeAssumption DEF ParentClosed
  <2>2. QED
    BY <1>1, <2>1
<1>5. QED
  BY <1>1, <1>2, <1>3, <1>4

\* A chain has a block at every height below its own.
LEMMA AncestorAtOK ==
    ASSUME NEW b \in Block, NEW n \in Nat, n <= Number[b]
    PROVE  AncestorAt(b, n) \in Ancestors[b] /\ Number[AncestorAt(b, n)] = n
<1>1. ASSUME \A a \in Ancestors[b] : Number[a] # n PROVE FALSE
  <2> DEFINE S == {x \in Ancestors[b] : Number[x] > n}
  <2>1. b \in S /\ S \in SUBSET Block
    BY <1>1, AncestorsOK, TreeAssumption
  <2>2. ParentClosed(S)
    <3>1. ASSUME NEW x \in S, x # Genesis PROVE Parent[x] \in S
      <4>1. x \in Block /\ Parent[x] \in Ancestors[b]
        BY <3>1, AncestorsOK DEF ParentClosed
      <4>2. Number[x] = Number[Parent[x]] + 1 /\ Number[Parent[x]] \in Nat /\ Number[x] > n
        BY <4>1, <3>1, TreeAssumption
      <4>3. Number[Parent[x]] # n
        BY <4>1, <1>1
      <4>4. QED
        BY <4>1, <4>2, <4>3
    <3>2. QED
      BY <3>1 DEF ParentClosed
  <2>3. Genesis \in S
    BY <2>1, <2>2, ClosedHasGenesis
  <2>4. QED
    BY <2>3, TreeAssumption
<1>2. \E a \in Ancestors[b] : Number[a] = n
  BY <1>1
<1>3. QED
  BY <1>2 DEF AncestorAt

\* Blocks of bounded height have a highest one among them.
LEMMA HighestExists ==
    ASSUME NEW S \in SUBSET Block, S # {}, NEW n \in Nat, \A b \in S : Number[b] <= n
    PROVE  \E b \in S : \A c \in S : Number[c] <= Number[b]
<1> DEFINE T == {n - Number[b] : b \in S}
<1>1. T \subseteq Nat /\ T # {}
  BY TreeAssumption
<1>2. PICK m \in T : \A k \in T : m <= k
  <2> HIDE DEF T
  <2> QED BY <1>1, NatMin
<1>3. PICK b \in S : m = n - Number[b]
  BY <1>2
<1>4. ASSUME NEW c \in S PROVE Number[c] <= Number[b]
  <2>1. n - Number[b] <= n - Number[c]
    BY <1>2, <1>3
  <2>2. Number[b] \in Nat /\ Number[c] \in Nat
    BY TreeAssumption
  <2>3. QED
    BY <2>1, <2>2
<1>5. QED
  BY <1>4

\* Two chains share a highest block.
LEMMA CommonBlockOK ==
    ASSUME NEW a \in Block, NEW b \in Block
    PROVE  CommonBlock(a, b) \in Ancestors[a] \cap Ancestors[b]
<1> DEFINE S == Ancestors[a] \cap Ancestors[b]
<1>1. S \in SUBSET Block /\ S # {} /\ \A c \in S : Number[c] <= Number[a]
  BY AncestorsOK
<1>2. Number[a] \in Nat
  BY TreeAssumption
<1>3. \E c \in S : \A d \in S : Number[d] <= Number[c]
  <2> HIDE DEF S
  <2> QED BY <1>1, <1>2, HighestExists
<1>4. QED
  BY <1>3 DEF CommonBlock

\* The branch of a block is a sequence of its ancestors.
LEMMA BranchOK ==
    ASSUME NEW a \in Block, NEW b \in Block
    PROVE  Branch(a, b) \in Seq(Ancestors[b])
<1> DEFINE base == Number[CommonBlock(a, b)]
<1>1. base \in Nat /\ base <= Number[b] /\ Number[b] \in Nat
  BY CommonBlockOK, AncestorsOK, TreeAssumption
<1> HIDE DEF base
<1>2. ASSUME NEW k \in 1..(Number[b] - base) PROVE AncestorAt(b, base + k) \in Ancestors[b]
  <2>1. base + k \in Nat /\ base + k <= Number[b]
    BY <1>1
  <2>2. QED
    BY <2>1, AncestorAtOK
<1>3. [k \in 1..(Number[b] - base) |-> AncestorAt(b, base + k)] \in Seq(Ancestors[b])
  <2>1. Number[b] - base \in Nat
    BY <1>1
  <2>2. QED
    BY <2>1, <1>2, IsASeq
<1>4. QED
  BY <1>3 DEF Branch, base

\* The walk back to a block with state ends on the block's own chain, at Genesis
\* at the latest.
LEMMA NearestOK ==
    ASSUME NEW b \in Block, Genesis \in disk
    PROVE  NearestWithState(b) \in Ancestors[b] /\ HasState(NearestWithState(b))
<1> DEFINE S == {a \in Ancestors[b] : HasState(a)}
<1>1. S \in SUBSET Block /\ S # {} /\ \A c \in S : Number[c] <= Number[b]
  BY AncestorsOK DEF HasState
<1>2. Number[b] \in Nat
  BY TreeAssumption
<1>3. \E a \in S : \A c \in S : Number[c] <= Number[a]
  <2> HIDE DEF S
  <2> QED BY <1>1, <1>2, HighestExists
<1>4. \E a \in Ancestors[b] : HasState(a) /\
          \A c \in Ancestors[b] : HasState(c) => Number[c] <= Number[a]
  BY <1>3
<1>5. QED
  BY <1>4 DEF NearestWithState

-----------------------------------------------------------------------------
(* Steps that leave the markers alone *)

\* An import between two database batches, whose targets are in S.
GoodImport(o, S) ==
    /\ o \in ImportOps /\ o.dirty = None /\ o.pc \notin {"mark", "side"}
    /\ o.pc \in {"state", "reorg", "head"} => o.tgt \in S \ {Genesis}
    /\ o.pc = "reorg" => \A k \in DOMAIN o.todo : o.todo[k] \in S

\* Blocks and states may be added, the indexes change, and the operation go on
\* to any point between two writes of the markers.
LEMMA SettledStep ==
    ASSUME IndInv, up, mem' = db,
           stored \subseteq stored', stored' \subseteq Block, ParentClosed(stored'),
           canon' \in [Numbers -> Block \cup {None}], txIndex' \in [Tx -> Numbers \cup {-1}],
           disk \subseteq disk', disk' \subseteq Block, triegc' \subseteq Block,
           future' \subseteq Block \ {Genesis}, procQueue' \in Seq(Block \ {Genesis}),
           UNCHANGED <<db, up, interrupt, envVars>>,
           \/ op' = Idle \/ GoodImport(op', stored')
           \/ op' \in ImportOps /\ op'.pc = "side" /\ ImportOK'
    PROVE  IndInv'
<1> USE DEF IndInv
<1>1. TypeOK'
  BY DEF TypeOK, envVars
<1>2. NoDanglingBlocks'
  BY DEF NoDanglingBlocks
<1>3. ControlOK'
  BY DEF ControlOK, GoodImport
<1>4. ~MarkersBehind'
  BY DEF MarkersBehind, GoodImport, Idle
<1>5. MarkersOK'
  BY <1>2, <1>4 DEF MarkersOK, NoDanglingBlocks
<1>6. ImportOK'
  BY DEF ImportOK, GoodImport, Idle, ImportPCs
<1>7. RewindOK'
  BY DEF RewindOK, GoodImport, ImportOps, ImportPCs, Idle
<1>8. QED
  BY <1>1, <1>2, <1>3, <1>5, <1>6, <1>7

\* The special case in which markers and indexes stay as they are.
LEMMA PlainStep ==
    ASSUME IndInv, up, ~MarkersBehind,
           stored \subseteq stored', stored' \subseteq Block, ParentClosed(stored'),
           disk \subseteq disk', disk' \subseteq Block, triegc' \subseteq Block,
           future' \subseteq Block \ {Genesis}, procQueue' \in Seq(Block \ {Genesis}),
           UNCHANGED <<canon, txIndex, db, mem, up, interrupt, envVars>>,
           \/ op' = Idle \/ GoodImport(op', stored')
           \/ op' \in ImportOps /\ op'.pc = "side" /\ ImportOK'
    PROVE  IndInv'
<1>1. mem' = db
  BY DEF IndInv, MarkersOK
<1>2. /\ canon' \in [Numbers -> Block \cup {None}]
      /\ txIndex' \in [Tx -> Numbers \cup {-1}]
  BY DEF IndInv, TypeOK
<1>3. QED
  BY <1>1, <1>2, SettledStep

\* An operation with a program counter of insertChain is an import of a running
\* node.
LEMMA ImportShape ==
    ASSUME IndInv, op.pc \in ImportPCs
    PROVE  up /\ op \in ImportOps /\ mem \in Markers(Block)
           /\ {mem.block, mem.header, mem.snap} \subseteq stored /\ stored \subseteq Block
<1>1. op \in ImportOps /\ op # Idle
  BY DEF IndInv, ControlOK, Idle, RewindOps, ImportPCs
<1>2. up
  BY <1>1 DEF IndInv, ControlOK
<1>3. QED
  BY <1>1, <1>2 DEF IndInv, TypeOK, MarkersOK

\* Outside writeHeadBlock an import has no pending markers.
LEMMA NotBehind ==
    ASSUME IndInv, op.pc \in ImportPCs \ {"reorg", "mark"}
    PROVE  ~MarkersBehind /\ op.dirty = None
BY DEF IndInv, MarkersBehind, ImportOK

LEMMA InsertOpOK ==
    ASSUME IndInv, NEW chain \in Seq(Block \ {Genesis}), NEW start \in Block, NEW S
    PROVE  GoodImport(InsertOp(chain, start), S)
<1>1. clock \in Nat
  BY BoundAssumption DEF IndInv, TypeOK
<1>2. << >> \in Seq(Block)
  OBVIOUS
<1>3. QED
  BY <1>1, <1>2 DEF GoodImport, InsertOp, ImportOps, ImportPCs

LEMMA ContinueOK ==
    ASSUME NEW o \in ImportOps, o.dirty = None, NEW S
    PROVE  Continue(o) = Idle \/ GoodImport(Continue(o), S)
<1>1. /\ o.ret \in {"exec", "known", "skip", "done"} /\ o.i + 1 \in Nat \ {0}
      /\ {"exec", "known"} \subseteq ImportPCs
  BY DEF ImportOps, ImportPCs
<1>2. CASE o.ret = "known"
  <2>1. Continue(o) = [o EXCEPT !.pc = "known", !.i = o.i + 1]
    BY <1>2 DEF Continue
  <2>2. [o EXCEPT !.pc = "known", !.i = o.i + 1] \in ImportOps
    BY <1>1 DEF ImportOps
  <2>3. QED
    BY <2>1, <2>2 DEF GoodImport, ImportOps
<1>3. CASE o.ret \notin {"known", "done"}
  <2>1. Continue(o) = [o EXCEPT !.pc = "exec", !.i = o.i + 1, !.ret = "exec"]
    BY <1>3 DEF Continue
  <2>2. [o EXCEPT !.pc = "exec", !.i = o.i + 1, !.ret = "exec"] \in ImportOps
    BY <1>1 DEF ImportOps
  <2>3. QED
    BY <2>1, <2>2 DEF GoodImport, ImportOps
<1>4. QED
  BY <1>2, <1>3 DEF Continue

\* Everything a reorganisation to a stored block will write is stored.
LEMMA StartSetHeadOK ==
    ASSUME stored \subseteq Block, ParentClosed(stored), mem.block \in Block,
           NEW o \in ImportOps, o.dirty = None, NEW b \in stored \ {Genesis}
    PROVE  GoodImport(StartSetHead(o, b), stored)
<1>1. CASE Parent[b] = mem.block
  BY <1>1 DEF GoodImport, StartSetHead, ImportOps, ImportPCs
<1>2. CASE Parent[b] # mem.block
  <2> DEFINE path == Branch(mem.block, b)
             todo == SubSeq(path, 1, Len(path) - 1)
  <2>1. path \in Seq(Ancestors[b]) /\ Ancestors[b] \subseteq stored
    BY BranchOK, AncestorsOK
  <2> HIDE DEF path
  <2>2. todo \in Seq(stored)
    <3>1. path \in Seq(stored)
      BY <2>1, SeqMonotonic
    <3>2. Len(path) \in Nat /\ \A k \in 1..(Len(path) - 1) : path[k] \in stored
      BY <3>1
    <3>3. QED
      BY <3>2, SubSeqProperties
  <2>3. todo \in Seq(Block) /\ \A k \in DOMAIN todo : todo[k] \in stored
    BY <2>2
  <2>4. StartSetHead(o, b) = [o EXCEPT !.pc = "reorg", !.tgt = b, !.old = mem.block, !.todo = todo]
    BY <1>2 DEF StartSetHead, path
  <2> HIDE DEF todo
  <2>5. [o EXCEPT !.pc = "reorg", !.tgt = b, !.old = mem.block, !.todo = todo] \in ImportOps
    BY <2>3 DEF ImportOps, ImportPCs
  <2>6. QED
    BY <2>3, <2>4, <2>5 DEF GoodImport, ImportOps
<1>3. QED
  BY <1>1, <1>2

LEMMA InsertChainStep ==
    ASSUME IndInv, NEW chain \in Segments, InsertChain(chain)
    PROVE  IndInv'
<1>1. chain \in Seq(Block \ {Genesis})
  BY BoundAssumption DEF Segments
<1>2. up /\ op = Idle /\ mem.block \in Block /\ ~MarkersBehind
  BY DEF IndInv, TypeOK, Markers, InsertChain, MarkersBehind, Idle
<1>3. GoodImport(op', stored)
  BY <1>1, <1>2, InsertOpOK DEF InsertChain
<1>4. QED
  BY <1>2, <1>3, PlainStep
     DEF InsertChain, OnlyOp, dbVars, IndInv, TypeOK, NoDanglingBlocks, ControlOK

LEMMA ProcNextStep ==
    ASSUME IndInv, ProcNext
    PROVE  IndInv'
<1>1. /\ procQueue' \in Seq(Block \ {Genesis})
      /\ <<Head(procQueue)>> \in Seq(Block \ {Genesis})
  BY HeadTailProperties DEF ProcNext, IndInv, ControlOK
<1>2. up /\ op = Idle /\ mem.block \in Block /\ ~MarkersBehind
  BY DEF IndInv, TypeOK, Markers, ProcNext, MarkersBehind, Idle
<1>3. op' = Idle \/ GoodImport(op', stored)
  BY <1>1, <1>2, InsertOpOK DEF ProcNext
<1>4. QED
  BY <1>1, <1>2, <1>3, PlainStep
     DEF ProcNext, dbVars, IndInv, TypeOK, NoDanglingBlocks, ControlOK

\* The blocks of a segment that are queued are blocks of the segment.
LEMMA QueuedOK ==
    ASSUME IndInv, op \in ImportOps
    PROVE  QueuedFrom(op.chain, op.i) \subseteq Block \ {Genesis}
<1>1. op.chain \in Seq(Block \ {Genesis}) /\ op.i \in Nat \ {0}
  BY DEF ImportOps
<1>2. \A k \in op.i..Len(op.chain) : op.chain[k] \in Block \ {Genesis}
  BY <1>1
<1>3. QED
  BY <1>2 DEF QueuedFrom

\* The steps of insertChain that write nothing.
LEMMA ImportPlainSteps ==
    ASSUME IndInv,
           TrimKnown \/ WriteKnown \/ Postpone \/ Reject \/ EnterLoop \/ LeaveLoop
    PROVE  IndInv'
<1>1. op.pc \in {"first", "known", "exec"}
  BY DEF TrimKnown, WriteKnown, Postpone, Reject, EnterLoop, LeaveLoop, Importing
<1>2. /\ up /\ op \in ImportOps /\ mem \in Markers(Block) /\ stored \subseteq Block
      /\ ~MarkersBehind /\ op.dirty = None
  BY <1>1, ImportShape, NotBehind DEF ImportPCs
<1>3. /\ future \subseteq Block \ {Genesis} /\ procQueue \in Seq(Block \ {Genesis})
      /\ ParentClosed(stored) /\ disk \subseteq Block /\ triegc \subseteq Block
  BY DEF IndInv, TypeOK, ControlOK, NoDanglingBlocks
<1>4. CASE TrimKnown
  <2>1. op' = [op EXCEPT !.pc = "known"] \/ op' = [op EXCEPT !.i = op.i + 1]
    BY <1>4 DEF TrimKnown
  <2>2. op' \in ImportOps
    BY <2>1, <1>2 DEF ImportOps, ImportPCs
  <2>3. op.pc = "first"
    BY <1>4 DEF TrimKnown, Importing
  <2>4. GoodImport(op', stored)
    BY <1>2, <2>1, <2>2, <2>3 DEF GoodImport, ImportOps
  <2>5. QED
    BY <2>4, <1>2, <1>3, <1>4, PlainStep DEF TrimKnown, OnlyOp, dbVars
<1>5. CASE WriteKnown
  <2> DEFINE b == op.chain[op.i]
             o == IF op.pc = "known" THEN [op EXCEPT !.ret = "known"]
                  ELSE [op EXCEPT !.ret = "skip", !.start = b]
  <2>1. b \in stored \ {Genesis}
    <3>1. op.i \in 1..Len(op.chain)
      BY <1>2, <1>5 DEF WriteKnown, Importing, ImportOps
    <3>2. b \in Block \ {Genesis}
      BY <3>1, <1>2 DEF ImportOps
    <3>3. NextVerdict = "known"
      BY <1>5 DEF WriteKnown
    <3>4. b \in stored
      BY <3>3 DEF NextVerdict, Verdict, HeaderVerdict, HasBlockAndState
    <3>5. QED
      BY <3>2, <3>4
  <2>2. o \in ImportOps /\ o.dirty = None
    <3>1. op \in ImportOps /\ op.dirty = None /\ b \in Block
      BY <1>2, <2>1 DEF IndInv, TypeOK
    <3> HIDE DEF b
    <3> QED BY <3>1 DEF ImportOps
  <2>3. op' = StartSetHead(o, b)
    BY <1>5 DEF WriteKnown
  <2>4. GoodImport(op', stored)
    <3> HIDE DEF o, b
    <3> QED BY <1>2, <1>3, <2>1, <2>2, <2>3, StartSetHeadOK DEF Markers
  <2>5. QED
    BY <2>4, <1>2, <1>3, <1>5, PlainStep DEF WriteKnown, OnlyOp, dbVars
<1>6. CASE Postpone
  BY <1>2, <1>3, <1>6, QueuedOK, PlainStep DEF Postpone, dbVars
<1>7. CASE Reject
  BY <1>2, <1>3, <1>7, PlainStep DEF Reject, dbVars
<1>8. CASE EnterLoop
  <2>1. GoodImport(op', stored)
    BY <1>2, <1>8 DEF EnterLoop, GoodImport, ImportOps, ImportPCs
  <2>2. QED
    BY <2>1, <1>2, <1>3, <1>8, PlainStep DEF EnterLoop, OnlyOp, dbVars
<1>9. CASE LeaveLoop
  BY <1>2, <1>3, <1>9, QueuedOK, PlainStep DEF LeaveLoop, dbVars
<1>10. QED
  BY <1>4, <1>5, <1>6, <1>7, <1>8, <1>9

\* A block whose parent is stored can be stored.
LEMMA AddBlockOK ==
    ASSUME NEW b \in Block \ {Genesis}, Parent[b] \in stored, ParentClosed(stored)
    PROVE  ParentClosed(stored \cup {b})
BY DEF ParentClosed

LEMMA ChainBlockOK ==
    ASSUME op \in ImportOps, op.i <= Len(op.chain)
    PROVE  op.chain[op.i] \in Block \ {Genesis}
BY DEF ImportOps

\* The batch of writeBlockWithState.
LEMMA ExecuteStep ==
    ASSUME IndInv, Execute
    PROVE  IndInv'
<1> DEFINE b == op.chain[op.i]
<1>1. op.pc = "exec" /\ op.i <= Len(op.chain) /\ NextVerdict = "ok"
  BY DEF Execute, Importing
<1>2. /\ up /\ op \in ImportOps /\ stored \subseteq Block
      /\ ~MarkersBehind /\ op.dirty = None
  BY <1>1, ImportShape, NotBehind DEF ImportPCs
<1>3. b \in Block \ {Genesis}
  BY <1>1, <1>2, ChainBlockOK
<1>4. Parent[b] \in stored
  BY <1>1 DEF NextVerdict, Verdict, HeaderVerdict
<1>5. ParentClosed(stored)
  BY DEF IndInv, NoDanglingBlocks
<1>6. ParentClosed(stored')
  BY <1>3, <1>4, <1>5, AddBlockOK DEF Execute
<1>7. op' = Idle \/ GoodImport(op', stored')
  <2>1. [op EXCEPT !.pc = "state", !.tgt = b] \in ImportOps
    BY <1>2, <1>3 DEF ImportOps, ImportPCs
  <2>2. QED
    BY <1>2, <1>3, <2>1 DEF Execute, GoodImport, ImportOps
<1>8. stored \subseteq stored' /\ stored' \subseteq Block
  BY <1>2, <1>3 DEF Execute
<1>9. QED
  BY <1>2, <1>6, <1>7, <1>8, PlainStep DEF Execute, IndInv, TypeOK, ControlOK

LEMMA WriteMinedStep ==
    ASSUME IndInv, NEW b \in Block \ {Genesis}, WriteMined(b)
    PROVE  IndInv'
<1>1. up /\ op = Idle /\ mem.block \in Block /\ stored \subseteq Block /\ ~MarkersBehind
  BY DEF IndInv, TypeOK, Markers, WriteMined, MarkersBehind, Idle
<1>2. ParentClosed(stored')
  BY AddBlockOK DEF WriteMined, HasBlockAndState, IndInv, NoDanglingBlocks
<1>3. GoodImport(op', stored')
  <2> DEFINE o == InsertOp(<<b>>, mem.block)
  <2>1. o \in ImportOps /\ o.dirty = None
    <3>1. <<b>> \in Seq(Block \ {Genesis})
      OBVIOUS
    <3>2. QED
      BY <1>1, <3>1, InsertOpOK DEF GoodImport
  <2> HIDE DEF o
  <2>2. [o EXCEPT !.pc = "state", !.tgt = b, !.ret = "done"] \in ImportOps
    BY <2>1 DEF ImportOps, ImportPCs
  <2>3. op' = [o EXCEPT !.pc = "state", !.tgt = b, !.ret = "done"] /\ b \in stored'
    BY DEF WriteMined, o
  <2>4. QED
    BY <2>1, <2>2, <2>3 DEF GoodImport, ImportOps
<1>4. QED
  BY <1>1, <1>2, <1>3, PlainStep DEF WriteMined, IndInv, TypeOK, ControlOK

\* Garbage collection of states, and the decision whether the block is a head.
LEMMA DecideHeadStep ==
    ASSUME IndInv, DecideHead
    PROVE  IndInv'
<1>1. op.pc = "state"
  BY DEF DecideHead
<1>2. /\ up /\ op \in ImportOps /\ mem \in Markers(Block) /\ stored \subseteq Block
      /\ ~MarkersBehind /\ op.dirty = None
  BY <1>1, ImportShape, NotBehind DEF ImportPCs
<1>3. /\ op.tgt \in stored \ {Genesis} /\ ParentClosed(stored)
      /\ future \subseteq Block \ {Genesis} /\ procQueue \in Seq(Block \ {Genesis})
      /\ disk \subseteq Block /\ triegc \subseteq Block
  BY <1>1 DEF IndInv, ImportOK, NoDanglingBlocks, ControlOK, TypeOK
<1>4. disk \subseteq disk' /\ disk' \subseteq Block /\ triegc' \subseteq Block
  BY <1>2, <1>3 DEF DecideHead, CommitState
<1>5. op' = Idle \/ GoodImport(op', stored)
  <2>1. op' = StartSetHead(op, op.tgt) \/ op' = Continue(op)
    BY DEF DecideHead
  <2>2. GoodImport(StartSetHead(op, op.tgt), stored)
    BY <1>2, <1>3, StartSetHeadOK DEF Markers
  <2>3. QED
    BY <1>2, <2>1, <2>2, ContinueOK
<1>6. future' \subseteq Block \ {Genesis}
  BY <1>3 DEF DecideHead
<1>7. QED
  BY <1>2, <1>3, <1>4, <1>5, <1>6, PlainStep DEF DecideHead

LEMMA EnterSideChainStep ==
    ASSUME IndInv, EnterSideChain
    PROVE  IndInv'
<1>1. /\ op.pc \in {"first", "known"} /\ op.i <= Len(op.chain) /\ NextVerdict = "pruned"
      /\ op' = [op EXCEPT !.pc = "side", !.tgt = op.chain[op.i]]
  BY DEF EnterSideChain, Importing
<1>2. /\ up /\ op \in ImportOps /\ stored \subseteq Block
      /\ ~MarkersBehind /\ op.dirty = None
  BY <1>1, ImportShape, NotBehind DEF ImportPCs
<1>3. op.chain[op.i] \in Block \ {Genesis}
  BY <1>1, <1>2, ChainBlockOK
<1>4. /\ op' \in ImportOps /\ op'.pc = "side" /\ op'.tgt \in Block /\ op'.dirty = None
      /\ op'.chain = op.chain /\ op'.i = op.i /\ op'.now = op.now
  BY <1>1, <1>2, <1>3 DEF ImportOps, ImportPCs
<1>5. NextVerdict' = NextVerdict
  BY <1>4 DEF EnterSideChain, OnlyOp, dbVars, NextVerdict, Verdict, HeaderVerdict,
              HasBlockAndState, HasState
<1>6. Len(op.chain) \in Nat /\ op.i \in Nat
  BY <1>2 DEF ImportOps
<1>7. ImportOK'
  BY <1>1, <1>4, <1>5, <1>6 DEF ImportOK
<1>8. QED
  BY <1>2, <1>4, <1>7, PlainStep
     DEF EnterSideChain, OnlyOp, dbVars, IndInv, TypeOK, ControlOK, NoDanglingBlocks

LEMMA SideBlockStep ==
    ASSUME IndInv, SideBlock
    PROVE  IndInv'
<1> DEFINE b == op.chain[op.i]
<1>1. op.pc = "side" /\ op.i <= Len(op.chain) /\ NextVerdict = "pruned"
  BY DEF SideBlock, Importing
<1>2. /\ up /\ op \in ImportOps /\ stored \subseteq Block
      /\ ~MarkersBehind /\ op.dirty = None
  BY <1>1, ImportShape, NotBehind DEF ImportPCs
<1>3. b \in Block \ {Genesis} /\ Parent[b] \in stored
  BY <1>1, <1>2, ChainBlockOK DEF NextVerdict, Verdict, HeaderVerdict
<1>4. /\ ParentClosed(stored) /\ ParentClosed(stored \cup {b})
      /\ op.tgt \in Block /\ op.i \in Nat \ {0} /\ Len(op.chain) \in Nat
  BY <1>1, <1>2, <1>3, AddBlockOK DEF IndInv, NoDanglingBlocks, ImportOK, ImportOps
<1>5. stored' = stored \/ stored' = stored \cup {b}
  BY DEF SideBlock
<1>6. \/ op' = Idle \/ op' = [op EXCEPT !.i = op.i + 1]
      \/ op' = [op EXCEPT !.i = op.i + 1, !.tgt = b]
  BY DEF SideBlock
<1>7. ASSUME op' # Idle PROVE op' \in ImportOps /\ op'.pc = "side" /\ ImportOK'
  <2>1. op' \in ImportOps
    <3>1. op.i + 1 \in Nat \ {0}
      BY <1>4
    <3> HIDE DEF b
    <3>2. CASE op' = [op EXCEPT !.i = op.i + 1]
      BY <1>2, <3>1, <3>2 DEF ImportOps
    <3>3. CASE op' = [op EXCEPT !.i = op.i + 1, !.tgt = b]
      BY <1>2, <1>3, <3>1, <3>3 DEF ImportOps
    <3>4. QED
      BY <1>6, <1>7, <3>2, <3>3
  <2>2. /\ op'.pc = "side" /\ op'.tgt \in Block /\ op'.dirty = None
        /\ op'.chain = op.chain /\ op'.i = op.i + 1
    BY <1>1, <1>2, <1>3, <1>4, <1>6, <1>7 DEF ImportOps
  <2>3. QED
    BY <1>1, <1>4, <2>1, <2>2 DEF ImportOK
<1>8. /\ stored \subseteq stored' /\ stored' \subseteq Block /\ ParentClosed(stored')
  BY <1>2, <1>3, <1>4, <1>5
<1>9. QED
  BY <1>2, <1>7, <1>8, PlainStep DEF SideBlock, IndInv, TypeOK, ControlOK

LEMMA SideChainEndStep ==
    ASSUME IndInv, SideChainEnd
    PROVE  IndInv'
<1> DEFINE last == op.chain[op.i - 1]
           base == Number[NearestWithState(last)]
           missing == [k \in 1..(Number[last] - base) |-> AncestorAt(last, base + k)]
<1>1. op.pc = "side" /\ ~(op.i <= Len(op.chain) /\ NextVerdict = "pruned")
  BY DEF SideChainEnd
<1>2. /\ up /\ op \in ImportOps /\ stored \subseteq Block
      /\ ~MarkersBehind /\ op.dirty = None
  BY <1>1, ImportShape, NotBehind DEF ImportPCs
<1>3. op.i - 1 \in 1..Len(op.chain)
  <2>1. op.i \in Nat \ {0} /\ Len(op.chain) \in Nat
    BY <1>2 DEF ImportOps
  <2>2. op.i <= Len(op.chain) + 1 /\ op.i # 1
    BY <1>1 DEF IndInv, ImportOK
  <2>3. QED
    BY <2>1, <2>2
<1>4. last \in Block /\ op.start \in Block
  BY <1>2, <1>3 DEF ImportOps
<1> HIDE DEF last
<1>5. base \in Nat /\ base <= Number[last] /\ Number[last] \in Nat
  BY <1>4, NearestOK, AncestorsOK, TreeAssumption DEF IndInv, ControlOK
<1> HIDE DEF base
<1>6. missing \in Seq(Block \ {Genesis})
  <2>1. ASSUME NEW k \in 1..(Number[last] - base)
        PROVE  AncestorAt(last, base + k) \in Block \ {Genesis}
    <3>1. base + k \in Nat /\ base + k <= Number[last] /\ base + k # 0
      BY <1>5
    <3>2. /\ AncestorAt(last, base + k) \in Ancestors[last]
          /\ Number[AncestorAt(last, base + k)] = base + k
      BY <1>4, <3>1, AncestorAtOK
    <3>3. QED
      BY <1>4, <3>1, <3>2, AncestorsOK, TreeAssumption
  <2>2. Number[last] - base \in Nat
    BY <1>5
  <2>3. QED
    BY <2>1, <2>2, IsASeq
<1> HIDE DEF missing
<1>7. op' = Idle \/ GoodImport(op', stored)
  <2>1. op' = Idle \/ op' = InsertOp(missing, op.start)
    BY DEF SideChainEnd, missing, base, last
  <2>2. QED
    BY <1>4, <1>6, <2>1, InsertOpOK
<1>8. QED
  BY <1>2, <1>7, PlainStep
     DEF SideChainEnd, OnlyOp, dbVars, IndInv, TypeOK, ControlOK, NoDanglingBlocks

-----------------------------------------------------------------------------
(* Steps that write the indexes and the markers *)

\* The batch of writeHeadBlock keeps the types and moves all three markers.
LEMMA HeadBatchOK ==
    ASSUME IndInv, NEW b \in Block, HeadBatch(b)
    PROVE  /\ canon' \in [Numbers -> Block \cup {None}]
           /\ txIndex' \in [Tx -> Numbers \cup {-1}]
           /\ db' = MarkersAt(b) /\ db' \in Markers(Block)
           /\ UNCHANGED <<stored, disk>>
<1>1. Number[b] \in Numbers
  BY DEF Numbers
<1>2. QED
  BY <1>1 DEF IndInv, TypeOK, HeadBatch, MarkersAt, Markers

\* Within writeHeadBlock: the batch is written, the markers in memory are not.
LEMMA BatchStep ==
    ASSUME IndInv, up, NEW b \in stored, HeadBatch(b),
           op' \in ImportOps, op'.pc \in {"reorg", "mark"}, op'.dirty = b,
           op'.tgt \in stored \ {Genesis}, op'.pc = "mark" => op'.tgt = b,
           op'.pc = "reorg" => \A k \in DOMAIN op'.todo : op'.todo[k] \in stored,
           UNCHANGED <<mem, triegc, future, procQueue, up, interrupt, envVars>>
    PROVE  IndInv'
<1>1. b \in Block /\ b # None
  BY TreeAssumption DEF IndInv, TypeOK
<1>2. /\ canon' \in [Numbers -> Block \cup {None}]
      /\ txIndex' \in [Tx -> Numbers \cup {-1}]
      /\ db' = MarkersAt(b) /\ db' \in Markers(Block)
      /\ UNCHANGED <<stored, disk>>
  BY <1>1, HeadBatchOK
<1> USE DEF IndInv
<1>3. TypeOK'
  BY <1>2 DEF TypeOK, envVars
<1>4. NoDanglingBlocks'
  BY <1>2 DEF NoDanglingBlocks, MarkersAt
<1>5. ControlOK'
  BY <1>2 DEF ControlOK
<1>6. MarkersOK'
  BY <1>1, <1>2 DEF MarkersOK, MarkersBehind
<1>7. ImportOK' /\ RewindOK'
  BY <1>2 DEF ImportOK, RewindOK
<1>8. QED
  BY <1>3, <1>4, <1>5, <1>6, <1>7

LEMMA ReorgWriteStep ==
    ASSUME IndInv, ReorgWrite
    PROVE  IndInv'
<1>1. op.pc = "reorg" /\ op.dirty = None /\ op.todo # << >>
  BY DEF ReorgWrite
<1>2. up /\ op \in ImportOps /\ op.todo \in Seq(Block)
  BY <1>1, ImportShape DEF ImportPCs, ImportOps
<1>3. op.tgt \in stored \ {Genesis} /\ \A k \in DOMAIN op.todo : op.todo[k] \in stored
  BY <1>1 DEF IndInv, ImportOK
<1>4. Head(op.todo) \in stored /\ Head(op.todo) \in Block
  BY <1>1, <1>2, <1>3
<1>5. Tail(op.todo) \in Seq(Block) /\ \A k \in DOMAIN Tail(op.todo) : Tail(op.todo)[k] \in stored
  BY <1>1, <1>2, <1>3
<1>6. op' = [op EXCEPT !.todo = Tail(op.todo), !.dirty = Head(op.todo)]
  BY DEF ReorgWrite
<1>7. op' \in ImportOps
  BY <1>2, <1>4, <1>5, <1>6 DEF ImportOps
<1>8. /\ op'.pc = "reorg" /\ op'.dirty = Head(op.todo) /\ op'.tgt = op.tgt
      /\ op'.todo = Tail(op.todo)
  BY <1>1, <1>2, <1>6 DEF ImportOps
<1>9. QED
  BY <1>2, <1>3, <1>4, <1>5, <1>7, <1>8, BatchStep DEF ReorgWrite

LEMMA WriteHeadStep ==
    ASSUME IndInv, WriteHead
    PROVE  IndInv'
<1>1. op.pc = "head"
  BY DEF WriteHead
<1>2. up /\ op \in ImportOps /\ stored \subseteq Block
  BY <1>1, ImportShape DEF ImportPCs
<1>3. op.tgt \in stored \ {Genesis}
  BY <1>1 DEF IndInv, ImportOK
<1>4. op' = [op EXCEPT !.pc = "mark", !.dirty = op.tgt]
  BY DEF WriteHead
<1>5. op' \in ImportOps /\ op'.pc = "mark" /\ op'.dirty = op.tgt /\ op'.tgt = op.tgt
  BY <1>2, <1>3, <1>4 DEF ImportOps, ImportPCs
<1>6. QED
  BY <1>2, <1>3, <1>5, BatchStep DEF WriteHead

LEMMA ReorgIndexesStep ==
    ASSUME IndInv, ReorgIndexes
    PROVE  IndInv'
<1>1. op.pc = "reorg" /\ op.dirty = None /\ op' = [op EXCEPT !.pc = "head"]
  BY DEF ReorgIndexes
<1>2. up /\ op \in ImportOps /\ ~MarkersBehind
  BY <1>1, ImportShape DEF ImportPCs, MarkersBehind
<1>3. GoodImport(op', stored)
  <2>1. op' \in ImportOps
    BY <1>1, <1>2 DEF ImportOps, ImportPCs
  <2>2. op.tgt \in stored \ {Genesis}
    BY <1>1 DEF IndInv, ImportOK
  <2>3. QED
    BY <1>1, <1>2, <2>1, <2>2 DEF GoodImport, ImportOps
<1>4. /\ canon' \in [Numbers -> Block \cup {None}]
      /\ txIndex' \in [Tx -> Numbers \cup {-1}]
  BY DEF ReorgIndexes, IndInv, TypeOK
<1>5. mem' = db
  BY <1>2 DEF IndInv, MarkersOK, ReorgIndexes
<1>6. QED
  BY <1>2, <1>3, <1>4, <1>5, SettledStep
     DEF ReorgIndexes, IndInv, TypeOK, ControlOK, NoDanglingBlocks

LEMMA StoreMarkersStep ==
    ASSUME IndInv, StoreMarkers
    PROVE  IndInv'
<1>1. op.pc \in {"reorg", "mark"} /\ op.dirty # None /\ MarkersBehind
  BY DEF StoreMarkers, MarkersBehind
<1>2. up /\ op \in ImportOps
  BY <1>1, ImportShape DEF ImportPCs
<1>3. mem' = db
  BY <1>1, <1>2 DEF IndInv, MarkersOK, MarkersAt, StoreMarkers
<1>4. op' = Idle \/ GoodImport(op', stored)
  <2>1. CASE op.pc = "mark"
    <3> DEFINE o == [op EXCEPT !.dirty = None, !.old = None]
    <3>1. o \in ImportOps /\ o.dirty = None
      BY <1>2 DEF ImportOps
    <3>2. op' = Continue(o)
      BY <2>1 DEF StoreMarkers
    <3> HIDE DEF o
    <3>3. QED
      BY <3>1, <3>2, ContinueOK
  <2>2. CASE op.pc = "reorg"
    <3>1. op' = [op EXCEPT !.dirty = None]
      BY <2>2 DEF StoreMarkers
    <3>2. op' \in ImportOps
      BY <1>2, <3>1 DEF ImportOps
    <3>3. op.tgt \in stored \ {Genesis} /\ \A k \in DOMAIN op.todo : op.todo[k] \in stored
      BY <2>2 DEF IndInv, ImportOK
    <3>4. QED
      BY <1>2, <2>2, <3>1, <3>2, <3>3 DEF GoodImport, ImportOps
  <2>3. QED
    BY <1>1, <2>1, <2>2
<1>5. future' \subseteq Block \ {Genesis}
  BY DEF StoreMarkers, IndInv, ControlOK
<1>6. QED
  BY <1>2, <1>3, <1>4, <1>5, SettledStep
     DEF StoreMarkers, dbVars, IndInv, TypeOK, ControlOK, NoDanglingBlocks

-----------------------------------------------------------------------------
(* Rewinding *)

\* A rewind in progress, with the markers in memory as persisted.
LEMMA RewindShape ==
    ASSUME IndInv, op.pc = "rewind"
    PROVE  /\ up /\ op \in RewindOps /\ mem = db /\ mem \in Markers(Block)
           /\ {mem.block, mem.header, mem.snap} \subseteq stored /\ stored \subseteq Block
<1>1. op \in RewindOps /\ op # Idle
  BY DEF IndInv, ControlOK, Idle, ImportOps, ImportPCs
<1>2. up
  BY <1>1 DEF IndInv, ControlOK
<1>3. QED
  BY <1>1, <1>2 DEF IndInv, TypeOK, MarkersOK, MarkersBehind

LEMMA SetHeadStep ==
    ASSUME IndInv, NEW n \in Numbers, SetHead(n)
    PROVE  IndInv'
<1>1. n \in Nat
  BY TreeAssumption DEF Numbers
<1>2. up /\ op = Idle /\ op' = [pc |-> "rewind", target |-> n, del |-> {}]
  BY DEF SetHead
<1>3. op' \in RewindOps /\ op'.pc = "rewind" /\ op'.del = {}
  BY <1>1, <1>2 DEF RewindOps
<1>4. mem = db
  BY <1>2 DEF IndInv, MarkersOK, MarkersBehind, Idle
<1> USE DEF IndInv
<1>5. TypeOK'
  BY BoundAssumption DEF TypeOK, SetHead, dbVars
<1>6. NoDanglingBlocks' /\ ControlOK'
  BY <1>2, <1>3 DEF NoDanglingBlocks, ControlOK, SetHead, dbVars
<1>7. MarkersOK'
  BY <1>2, <1>3, <1>4 DEF MarkersOK, MarkersBehind, SetHead, dbVars
<1>8. ImportOK' /\ RewindOK'
  BY <1>3 DEF ImportOK, RewindOK, ImportPCs
<1>9. QED
  BY <1>5, <1>6, <1>7, <1>8

\* Above the first header unwound, the leftovers reach up to a height at which
\* nothing is stored.
LEMMA LeftoversOK ==
    ASSUME stored \subseteq Block, NEW n \in Nat, NEW b \in stored \ {Genesis},
           Number[Parent[b]] = n \/ Number[Parent[b]] \in LeftoversAbove(n)
    PROVE  Number[b] \in LeftoversAbove(n)
<1>1. /\ Number[b] \in Numbers /\ Number[b] = Number[Parent[b]] + 1
      /\ Number[Parent[b]] \in Nat
  BY TreeAssumption DEF Numbers
<1>2. Number[Parent[b]] >= n
  BY <1>1 DEF LeftoversAbove
<1>3. ASSUME NEW k \in (n + 1)..Number[b] PROVE \E c \in stored : Number[c] = k
  <2>1. CASE k = Number[b]
    BY <2>1
  <2>2. CASE k # Number[b]
    <3>1. k \in (n + 1)..Number[Parent[b]]
      BY <1>1, <2>2
    <3>2. Number[Parent[b]] \in LeftoversAbove(n)
      BY <1>1, <3>1
    <3>3. QED
      BY <3>1, <3>2 DEF LeftoversAbove
  <2>3. QED
    BY <2>1, <2>2
<1>4. Number[b] > n
  BY <1>1, <1>2
<1>5. QED
  BY <1>1, <1>3, <1>4 DEF LeftoversAbove

LEMMA RewindHeaderStep ==
    ASSUME IndInv, RewindHeader
    PROVE  IndInv'
<1> DEFINE hdr == mem.header
           par == Parent[hdr]
           block == IF Number[par] <= Number[mem.block] THEN NearestWithState(par) ELSE mem.block
           snap  == IF Number[par] < Number[mem.snap] THEN par ELSE mem.snap
           del   == op.del \cup {Number[hdr]} \cup
                    (IF op.del = {} THEN LeftoversAbove(Number[hdr]) ELSE {})
<1>1. op.pc = "rewind" /\ Number[hdr] > op.target
  BY DEF RewindHeader
<1>2. /\ up /\ op \in RewindOps /\ mem = db /\ mem \in Markers(Block)
      /\ {mem.block, mem.header, mem.snap} \subseteq stored /\ stored \subseteq Block
  BY <1>1, RewindShape
<1>3. ParentClosed(stored) /\ Genesis \in disk
  BY DEF IndInv, NoDanglingBlocks, ControlOK
<1>4. /\ hdr \in Block \ {Genesis} /\ par \in stored /\ par \in Block
      /\ Number[hdr] = Number[par] + 1 /\ Number[par] \in Nat
      /\ Number[mem.block] \in Nat /\ Number[mem.snap] \in Nat
  <2>1. op.target \in Nat
    BY <1>2 DEF RewindOps
  <2>2. hdr \in stored /\ hdr # Genesis
    BY <1>1, <1>2, <2>1, TreeAssumption
  <2>3. QED
    BY <1>2, <1>3, <2>2, TreeAssumption DEF ParentClosed
<1>5. block \in stored /\ Number[block] <= Number[par]
  <2>1. NearestWithState(par) \in Ancestors[par]
    BY <1>3, <1>4, NearestOK
  <2>2. NearestWithState(par) \in stored /\ Number[NearestWithState(par)] <= Number[par]
    BY <1>2, <1>3, <1>4, <2>1, AncestorsOK
  <2>3. QED
    BY <1>2, <1>4, <2>2
<1>6. snap \in stored /\ Number[snap] <= Number[par]
  BY <1>2, <1>4
<1>7. mem' = [block |-> block, header |-> par, snap |-> snap]
  BY DEF RewindHeader
<1>8. db' = mem'
  BY <1>2, <1>7 DEF RewindHeader
<1>9. op' = [op EXCEPT !.del = del]
  BY DEF RewindHeader
<1>10. del \subseteq Nat /\ \A n \in del : n > Number[par]
  <2>1. \A n \in LeftoversAbove(Number[hdr]) : n \in Nat /\ n > Number[hdr]
    BY TreeAssumption DEF LeftoversAbove, Numbers
  <2>2. op.del \subseteq Nat /\ \A n \in op.del : n > Number[hdr]
    BY <1>1, <1>2 DEF RewindOps, IndInv, RewindOK
  <2>3. QED
    BY <1>4, <2>1, <2>2
<1>11. ASSUME NEW b \in stored \ {Genesis}, Number[Parent[b]] \in del
       PROVE  Number[b] \in del
  <2>1. Number[b] = Number[Parent[b]] + 1 /\ Number[hdr] \in Nat
    BY <1>2, <1>4, TreeAssumption
  <2>2. CASE op.del = {}
    <3>1. Number[Parent[b]] = Number[hdr] \/ Number[Parent[b]] \in LeftoversAbove(Number[hdr])
      BY <1>11, <2>2
    <3>2. Number[b] \in LeftoversAbove(Number[hdr])
      BY <1>2, <2>1, <3>1, LeftoversOK
    <3>3. QED
      BY <2>2, <3>2
  <2>3. CASE op.del # {}
    <3>1. /\ Number[hdr] + 1 \in op.del
          /\ Number[Parent[b]] \in op.del => Number[b] \in op.del
      BY <1>1, <2>3 DEF IndInv, RewindOK
    <3>2. QED
      BY <1>11, <2>1, <2>3, <3>1
  <2>4. QED
    BY <2>2, <2>3
<1>12. /\ mem'.block = block /\ mem'.header = par /\ mem'.snap = snap
       /\ mem' \in Markers(Block)
  BY <1>2, <1>4, <1>5, <1>6, <1>7 DEF Markers
<1>13. Number[par] + 1 \in del
  BY <1>4
<1> HIDE DEF block, snap, par, hdr, del
<1>14. op' \in RewindOps /\ op'.pc = "rewind" /\ op'.del = del
  BY <1>1, <1>2, <1>9, <1>10 DEF RewindOps
<1>15. UNCHANGED <<stored, canon, txIndex, disk, triegc, future, procQueue, up, interrupt, envVars>>
  BY DEF RewindHeader
<1> USE DEF IndInv
<1>16. TypeOK'
  BY <1>2, <1>8, <1>12, <1>15 DEF TypeOK, envVars
<1>17. NoDanglingBlocks'
  BY <1>4, <1>5, <1>6, <1>8, <1>12, <1>15 DEF NoDanglingBlocks
<1>18. ControlOK'
  BY <1>2, <1>14, <1>15 DEF ControlOK
<1>19. MarkersOK'
  BY <1>4, <1>5, <1>6, <1>8, <1>12, <1>14, <1>15 DEF MarkersOK, MarkersBehind
<1>20. ImportOK'
  BY <1>14 DEF ImportOK, ImportPCs
<1>21. RewindOK'
  BY <1>5, <1>6, <1>10, <1>11, <1>12, <1>13, <1>14, <1>15 DEF RewindOK
<1>22. QED
  BY <1>16, <1>17, <1>18, <1>19, <1>20, <1>21

\* With everything above the header deleted, the parents of what is left stay.
LEMMA RewindFlushStep ==
    ASSUME IndInv, RewindFlush
    PROVE  IndInv'
<1>1. op.pc = "rewind" /\ op' = Idle
  BY DEF RewindFlush
<1>2. /\ up /\ op \in RewindOps /\ mem = db /\ mem \in Markers(Block)
      /\ {mem.block, mem.header, mem.snap} \subseteq stored /\ stored \subseteq Block
  BY <1>1, RewindShape
<1>3. stored' = {b \in stored : Number[b] \notin op.del} /\ db' = db
  BY DEF RewindFlush
<1>4. ASSUME NEW b \in stored' \ {Genesis} PROVE Parent[b] \in stored'
  <2>1. b \in stored /\ Number[b] \notin op.del /\ Parent[b] \in stored
    BY <1>3, <1>4 DEF IndInv, NoDanglingBlocks, ParentClosed
  <2>2. Number[Parent[b]] \notin op.del
    BY <1>1, <1>4, <2>1 DEF IndInv, RewindOK
  <2>3. QED
    BY <1>3, <2>1, <2>2
<1>5. {Genesis, db.block, db.header, db.snap} \subseteq stored'
  <2>1. \A b \in Block : Number[b] <= Number[mem.header] => Number[b] \notin op.del
    <3>1. \A b \in Block : Number[b] \in Nat
      BY TreeAssumption
    <3>2. mem.header \in Block
      BY <1>2
    <3>3. QED
      BY <1>1, <3>1, <3>2 DEF IndInv, RewindOK
  <2>2. CASE op.del = {}
    BY <1>2, <1>3, <2>2 DEF IndInv, NoDanglingBlocks
  <2>3. CASE op.del # {}
    <3>1. Number[mem.block] <= Number[mem.header] /\ Number[mem.snap] <= Number[mem.header]
      BY <1>1, <2>3 DEF IndInv, RewindOK
    <3>2. Number[Genesis] <= Number[mem.header] /\ Number[mem.header] <= Number[mem.header]
      BY <1>2, TreeAssumption
    <3>3. Genesis \in stored
      BY DEF IndInv, NoDanglingBlocks
    <3>4. QED
      BY <1>2, <1>3, <2>1, <3>1, <3>2, <3>3
  <2>4. QED
    BY <2>2, <2>3
<1>6. mem' = db
  <2>1. mem' = [block |-> db.block, header |-> db.header, snap |-> db.snap]
    BY <1>5 DEF RewindFlush, LoadLastState
  <2>2. QED
    BY <1>2, <2>1 DEF Markers
<1> USE DEF IndInv
<1>7. TypeOK'
  BY <1>2, <1>3, <1>6 DEF TypeOK, RewindFlush, envVars
<1>8. NoDanglingBlocks'
  BY <1>3, <1>4, <1>5 DEF NoDanglingBlocks, ParentClosed
<1>9. ControlOK'
  BY <1>1 DEF ControlOK, RewindFlush
<1>10. MarkersOK'
  BY <1>1, <1>3, <1>5, <1>6 DEF MarkersOK, MarkersBehind, Idle
<1>11. ImportOK' /\ RewindOK'
  BY <1>1 DEF ImportOK, RewindOK, Idle, ImportPCs
<1>12. QED
  BY <1>7, <1>8, <1>9, <1>10, <1>11

-----------------------------------------------------------------------------
(* Stopping, crashing, restarting, and steps beside the lock holder *)

LEMMA DownStep ==
    ASSUME IndInv, Stop \/ Crash
    PROVE  IndInv'
<1>1. GoDown /\ UNCHANGED <<stored, canon, txIndex, db>>
  BY DEF Stop, Crash, dbVars
<1>2. disk \subseteq disk' /\ disk' \subseteq Block
  BY DEF Stop, Crash, dbVars, IndInv, TypeOK
<1>3. clock' = clock /\ crashes' \in 0..MaxCrashes /\ stops' = stops /\ rewinds' = rewinds
  BY BoundAssumption DEF Stop, Crash, envVars, IndInv, TypeOK
<1>4. << >> \in Seq(Block \ {Genesis})
  OBVIOUS
<1> USE DEF IndInv
<1>5. TypeOK'
  BY <1>1, <1>2, <1>3 DEF TypeOK, GoDown, Markers
<1>6. NoDanglingBlocks' /\ ControlOK'
  BY <1>1, <1>2, <1>4 DEF NoDanglingBlocks, ControlOK, GoDown
<1>7. MarkersOK' /\ ImportOK' /\ RewindOK'
  BY <1>1 DEF MarkersOK, ImportOK, RewindOK, GoDown, Idle, ImportPCs
<1>8. QED
  BY <1>5, <1>6, <1>7

LEMMA RestartStep ==
    ASSUME IndInv, Restart
    PROVE  IndInv'
<1> DEFINE m == LoadLastState(db, stored)
           block == NearestWithState(m.block)
           snap  == IF block # m.block /\ Number[m.block] < Number[m.snap]
                    THEN m.block ELSE db.snap
<1>1. /\ stored \subseteq Block /\ ParentClosed(stored) /\ db \in Markers(Block)
      /\ {db.block, db.header, db.snap} \subseteq stored /\ Genesis \in disk
  BY DEF IndInv, TypeOK, NoDanglingBlocks, ControlOK
<1>2. m.block = db.block
  BY DEF LoadLastState
<1>3. block \in stored
  BY <1>1, <1>2, NearestOK, AncestorsOK
<1>4. snap \in stored
  BY <1>1, <1>2
<1>5. db' = [db EXCEPT !.block = block, !.snap = snap]
  BY DEF Restart
<1> HIDE DEF block, snap, m
<1>6. /\ db' \in Markers(Block) /\ {db'.block, db'.header, db'.snap} \subseteq stored
  BY <1>1, <1>3, <1>4, <1>5 DEF Markers
<1>7. mem' = db'
  <2>1. mem' = [block |-> db'.block, header |-> db'.header, snap |-> db'.snap]
    BY <1>6 DEF Restart, LoadLastState
  <2>2. QED
    BY <1>6, <2>1 DEF Markers
<1>8. /\ up' /\ op = Idle /\ up' \in BOOLEAN
      /\ UNCHANGED <<stored, canon, txIndex, disk, triegc, future, procQueue, op, interrupt, envVars>>
  BY DEF Restart, IndInv, ControlOK
<1> USE DEF IndInv
<1>9. TypeOK'
  BY <1>6, <1>7, <1>8 DEF TypeOK, envVars
<1>10. NoDanglingBlocks' /\ ControlOK'
  BY <1>6, <1>8 DEF NoDanglingBlocks, ControlOK
<1>11. MarkersOK' /\ ImportOK' /\ RewindOK'
  BY <1>6, <1>7, <1>8 DEF MarkersOK, MarkersBehind, ImportOK, RewindOK, Idle, ImportPCs
<1>12. QED
  BY <1>9, <1>10, <1>11

\* Steps that do not touch the chain.
LEMMA BesideStep ==
    ASSUME IndInv, StopInsert \/ ProcFutureBlocks \/ Tick \/ UNCHANGED vars
    PROVE  IndInv'
<1>1. UNCHANGED <<stored, canon, txIndex, db, disk, mem, triegc, future, op, up>>
  BY DEF StopInsert, ProcFutureBlocks, Tick, dbVars, vars
<1>2. /\ interrupt' \in BOOLEAN /\ clock' \in 0..MaxClock /\ crashes' \in 0..MaxCrashes
      /\ stops' \in 0..MaxStops /\ rewinds' \in 0..MaxRewinds
  <2>1. /\ interrupt \in BOOLEAN /\ clock \in 0..MaxClock /\ crashes \in 0..MaxCrashes
        /\ stops \in 0..MaxStops /\ rewinds \in 0..MaxRewinds
    BY DEF IndInv, TypeOK
  <2>2. CASE StopInsert
    BY <2>1, <2>2, BoundAssumption DEF StopInsert
  <2>3. CASE ProcFutureBlocks
    BY <2>1, <2>3 DEF ProcFutureBlocks, envVars
  <2>4. CASE Tick
    BY <2>1, <2>4, BoundAssumption DEF Tick
  <2>5. CASE UNCHANGED vars
    BY <2>1, <2>5 DEF vars
  <2>6. QED
    BY <2>2, <2>3, <2>4, <2>5
<1>3. procQueue' \in Seq(Block \ {Genesis})
  <2>1. CASE ProcFutureBlocks
    <3>1. IsFiniteSet(future) /\ future \subseteq Block \ {Genesis}
      BY FS_Subset, TreeAssumption DEF IndInv, ControlOK, TypeOK
    <3>2. Cardinality(future) \in Nat
      BY <3>1, FS_CardinalityType
    <3>3. procQueue' \in [1..Cardinality(future) -> future]
      BY <2>1 DEF ProcFutureBlocks
    <3>4. procQueue' \in Seq(future)
      BY <3>2, <3>3
    <3>5. QED
      BY <3>1, <3>4, SeqMonotonic
  <2>2. QED
    BY <2>1 DEF StopInsert, Tick, vars, IndInv, ControlOK
<1>4. NextVerdict' = NextVerdict
  BY <1>1 DEF NextVerdict, Verdict, HeaderVerdict, HasBlockAndState, HasState
<1> USE DEF IndInv
<1>5. TypeOK'
  BY <1>1, <1>2 DEF TypeOK
<1>6. NoDanglingBlocks' /\ ControlOK' /\ MarkersOK' /\ RewindOK'
  BY <1>1, <1>3 DEF NoDanglingBlocks, ControlOK, MarkersOK, MarkersBehind, RewindOK
<1>7. ImportOK'
  BY <1>1, <1>4 DEF ImportOK
<1>8. QED
  BY <1>5, <1>6, <1>7

-----------------------------------------------------------------------------
(* Theorems *)

LEMMA InitOK == Init => IndInv
<1> SUFFICES ASSUME Init PROVE IndInv
  OBVIOUS
<1>1. Genesis \in Block /\ Number[Genesis] = 0 /\ 0 \in Numbers
  BY TreeAssumption DEF Numbers
<1>2. << >> \in Seq(Block \ {Genesis})
  OBVIOUS
<1>3. TypeOK
  BY <1>1, BoundAssumption DEF Init, TypeOK, Markers
<1>4. NoDanglingBlocks /\ ControlOK
  BY <1>2 DEF Init, NoDanglingBlocks, ParentClosed, ControlOK
<1>5. MarkersOK /\ ImportOK /\ RewindOK
  BY DEF Init, MarkersOK, MarkersBehind, ImportOK, RewindOK, Idle, ImportPCs
<1>6. QED
  BY <1>3, <1>4, <1>5 DEF IndInv

LEMMA StepOK == IndInv /\ [Next]_vars => IndInv'
<1> SUFFICES ASSUME IndInv, [Next]_vars PROVE IndInv'
  OBVIOUS
<1>1. CASE OpStep
  BY <1>1, ImportPlainSteps, ExecuteStep, DecideHeadStep, ReorgWriteStep, ReorgIndexesStep,
     WriteHeadStep, StoreMarkersStep, EnterSideChainStep, SideBlockStep, SideChainEndStep,
     RewindHeaderStep, RewindFlushStep, Zenon DEF OpStep
<1>2. CASE \E chain \in Segments : InsertChain(chain)
  BY <1>2, InsertChainStep
<1>3. CASE \E b \in Block \ {Genesis} : WriteMined(b)
  BY <1>3, WriteMinedStep
<1>4. CASE \E n \in Numbers : SetHead(n)
  BY <1>4, SetHeadStep
<1>5. CASE Stop \/ Crash
  BY <1>5, DownStep
<1>6. CASE Restart
  BY <1>6, RestartStep
<1>7. CASE ProcNext
  BY <1>7, ProcNextStep
<1>8. CASE StopInsert \/ ProcFutureBlocks \/ Tick \/ UNCHANGED vars
  BY <1>8, BesideStep
<1>9. QED
  BY <1>1, <1>2, <1>3, <1>4, <1>5, <1>6, <1>7, <1>8, Zenon DEF Next

\* Everything the two properties below rest on holds in every reachable state:
\* the persisted and the in-memory markers agree outside writeHeadBlock, what an
\* import or a reorg is about to make canonical is stored, and a rewind deletes
\* upward-closed sets of heights above the header it has reached.
THEOREM ChainInvariant == Spec => []IndInv
BY InitOK, StepOK, PTL DEF Spec

\* The database entries, markers and queues of the chain keep their types, for
\* every finite block tree and all bounds.
THEOREM TypeCorrect == Spec => []TypeOK
<1>1. IndInv => TypeOK
  BY DEF IndInv
<1>2. QED
  BY <1>1, ChainInvariant, PTL

\* For every finite block tree and any number of crashes, stops and rewinds, no
\* stored block loses its parent and no persisted marker names a deleted block.
THEOREM BlocksKeepTheirParents == Spec => []NoDanglingBlocks
<1>1. IndInv => NoDanglingBlocks
  BY DEF IndInv
<1>2. QED
  BY <1>1, ChainInvariant, PTL

-----------------------------------------------------------------------------
(* Chains as lines of blocks *)

\* The chain of a block is the block and the chain of its parent.
LEMMA ChainOfChild ==
    ASSUME NEW b \in Block \ {Genesis}
    PROVE  Ancestors[b] = {b} \cup Ancestors[Parent[b]]
<1>1. Parent[b] \in Block
  BY TreeAssumption
<1>2. {b} \cup Ancestors[Parent[b]] \in SUBSET Block /\ ParentClosed({b} \cup Ancestors[Parent[b]])
  BY <1>1, AncestorsOK DEF ParentClosed
<1>3. Ancestors[b] \subseteq {b} \cup Ancestors[Parent[b]]
  BY <1>2, AncestorsOK
<1>4. Parent[b] \in Ancestors[b] /\ b \in Ancestors[b] /\ ParentClosed(Ancestors[b])
      /\ Ancestors[b] \in SUBSET Block
  BY AncestorsOK DEF ParentClosed
<1>5. Ancestors[Parent[b]] \subseteq Ancestors[b]
  BY <1>1, <1>4, AncestorsOK
<1> QED BY <1>3, <1>4, <1>5

\* A chain has one block at each height.
LEMMA OneBlockPerHeight ==
    ASSUME NEW b \in Block, NEW a \in Ancestors[b], NEW c \in Ancestors[b], Number[a] = Number[c]
    PROVE  a = c
<1> DEFINE Split(x) == \E y, z \in Ancestors[x] : Number[y] = Number[z] /\ y # z
           T == {Number[x] : x \in {w \in Block : Split(w)}}
<1>1. ASSUME T # {} PROVE FALSE
  <2>1. T \subseteq Nat
    BY TreeAssumption
  <2>2. PICK n \in T : \A m \in T : n <= m
    <3> HIDE DEF T
    <3> QED BY <1>1, <2>1, NatMin
  <2>3. PICK x \in Block : Split(x) /\ Number[x] = n
    BY <2>2
  <2>4. PICK y \in Ancestors[x], z \in Ancestors[x] : Number[y] = Number[z] /\ y # z
    BY <2>3
  <2>5. CASE x = Genesis
    <3>1. {Genesis} \in SUBSET Block /\ Genesis \in {Genesis} /\ ParentClosed({Genesis})
      BY TreeAssumption DEF ParentClosed
    <3>2. Ancestors[Genesis] \subseteq {Genesis}
      BY <3>1, AncestorsOK
    <3> QED BY <2>4, <2>5, <3>2
  <2>6. CASE x # Genesis
    <3>1. /\ Parent[x] \in Block /\ Number[x] = Number[Parent[x]] + 1
          /\ Number[Parent[x]] \in Nat
      BY <2>6, TreeAssumption
    <3>2. Ancestors[x] = {x} \cup Ancestors[Parent[x]]
      BY <2>6, ChainOfChild
    <3>3. \A w \in Ancestors[Parent[x]] : Number[w] <= Number[Parent[x]] /\ Number[w] \in Nat
      BY <3>1, AncestorsOK, TreeAssumption
    <3>4. y # x /\ z # x
      BY <2>4, <3>1, <3>2, <3>3
    <3>5. Split(Parent[x])
      BY <2>4, <3>2, <3>4
    <3>6. Number[Parent[x]] \in T
      BY <3>1, <3>5
    <3>7. n <= Number[Parent[x]]
      BY <2>2, <3>6
    <3> QED BY <2>3, <3>1, <3>7
  <2> QED BY <2>5, <2>6
<1>2. ~Split(b)
  BY <1>1
<1> QED BY <1>2

\* Within a chain: a block's own chain is a part of it, and is the part at or
\* below the block's height.
LEMMA ChainBelow ==
    ASSUME NEW b \in Block, NEW a \in Ancestors[b]
    PROVE  /\ a \in Block /\ Ancestors[a] \subseteq Ancestors[b]
           /\ \A n \in 0..Number[a] : AncestorAt(a, n) = AncestorAt(b, n)
           /\ \A c \in Ancestors[b] : Number[c] <= Number[a] => c \in Ancestors[a]
           /\ AncestorAt(b, Number[a]) = a
<1>1. a \in Block /\ Number[a] \in Nat /\ Number[b] \in Nat /\ Number[a] <= Number[b]
  BY AncestorsOK, TreeAssumption
<1>2. Ancestors[b] \in SUBSET Block /\ ParentClosed(Ancestors[b])
  BY AncestorsOK
<1>3. Ancestors[a] \subseteq Ancestors[b]
  BY <1>1, <1>2, AncestorsOK
<1>4. ASSUME NEW n \in 0..Number[a] PROVE AncestorAt(a, n) = AncestorAt(b, n)
  <2>1. n \in Nat /\ n <= Number[a] /\ n <= Number[b]
    BY <1>1
  <2>2. AncestorAt(a, n) \in Ancestors[a] /\ Number[AncestorAt(a, n)] = n
    BY <1>1, <2>1, AncestorAtOK
  <2>3. AncestorAt(b, n) \in Ancestors[b] /\ Number[AncestorAt(b, n)] = n
    BY <2>1, AncestorAtOK
  <2> QED BY <1>3, <2>2, <2>3, OneBlockPerHeight
<1>5. ASSUME NEW c \in Ancestors[b], Number[c] <= Number[a] PROVE c \in Ancestors[a]
  <2>1. Number[c] \in Nat
    BY <1>2, TreeAssumption
  <2>2. AncestorAt(a, Number[c]) \in Ancestors[a] /\ Number[AncestorAt(a, Number[c])] = Number[c]
    BY <1>1, <1>5, <2>1, AncestorAtOK
  <2> QED BY <1>3, <2>2, OneBlockPerHeight
<1>6. AncestorAt(b, Number[a]) = a
  <2>1. AncestorAt(b, Number[a]) \in Ancestors[b] /\ Number[AncestorAt(b, Number[a])] = Number[a]
    BY <1>1, AncestorAtOK
  <2> QED BY <2>1, OneBlockPerHeight
<1> QED BY <1>1, <1>3, <1>4, <1>5, <1>6

\* Every height up to that of a block is the height of some block.
LEMMA HeightsBelow ==
    ASSUME NEW b \in Block, NEW n \in 0..Number[b]
    PROVE  n \in Numbers
<1>1. n \in Nat /\ n <= Number[b]
  BY TreeAssumption
<1> QED BY <1>1, AncestorAtOK, AncestorsOK DEF Numbers

-----------------------------------------------------------------------------
(* The canonical chain *)

\* The canonical hashes up to height n are the chain of b.
CanonUpTo(b, n) == \A k \in 0..n : canon[k] = AncestorAt(b, k)

\* A reorganisation has made the chain of its target canonical up to a height,
\* and the blocks to be written are the ones from there to the target.
ReorgReady ==
    op.pc = "reorg" =>
        LET done == Number[op.tgt] - 1 - Len(op.todo)
        IN  /\ done \in Nat
            /\ \A j \in DOMAIN op.todo : op.todo[j] = AncestorAt(op.tgt, done + j)
            /\ CanonUpTo(op.tgt, done)

\* When the head is written, everything below it is its chain already.
HeadReady == op.pc = "head" => CanonUpTo(op.tgt, Number[op.tgt] - 1)

\* The head block is on the chain of the head header: a repair or a rewind may
\* leave it behind, never beside.
HeaderAhead == db.block \in Ancestors[db.header]

CanonInv == CanonicalChain /\ ReorgReady /\ HeadReady /\ HeaderAhead

\* A crash between the last two batches of a reorganisation none of whose
\* blocks has been written as a head: the persisted head is still the old one,
\* the hashes from the height of the new one on are gone.
CrashInWindow == op.pc = "head" /\ db.block # Parent[op.tgt] /\ ~up'

\* Steps that touch neither the canonical hashes nor the persisted markers.
LEMMA CanonFrame ==
    ASSUME CanonInv, UNCHANGED <<canon, db>>,
           \/ op.pc # "head" /\ op'.pc \notin {"reorg", "head"}
           \/ op' = op
    PROVE  CanonInv'
BY DEF CanonInv, CanonicalChain, ReorgReady, HeadReady, HeaderAhead, CanonUpTo

LEMMA ContinuePC ==
    ASSUME NEW o \in ImportOps
    PROVE  Continue(o).pc \in {"idle", "known", "exec"}
<1>1. CASE o.ret = "done"
  BY <1>1 DEF Continue, Idle
<1>2. CASE o.ret = "known"
  BY <1>2 DEF Continue, ImportOps
<1>3. CASE o.ret \notin {"done", "known"}
  BY <1>3 DEF Continue, ImportOps
<1> QED BY <1>1, <1>2, <1>3

\* All of a sequence but its last element.
LEMMA AllButLast ==
    ASSUME NEW S, NEW s \in Seq(S), NEW t, t = SubSeq(s, 1, Len(s) - 1)
    PROVE  /\ Len(t) = IF Len(s) = 0 THEN 0 ELSE Len(s) - 1
           /\ DOMAIN t = 1..Len(t)
           /\ \A j \in 1..Len(t) : t[j] = s[j]
<1>1. Len(s) \in Nat /\ \A i \in 1..(Len(s) - 1) : s[i] \in S
  OBVIOUS
<1>2. /\ t \in Seq(S)
      /\ Len(t) = IF 1 <= Len(s) - 1 THEN (Len(s) - 1) - 1 + 1 ELSE 0
      /\ \A i \in 1..((Len(s) - 1) - 1 + 1) : t[i] = s[1 + i - 1]
  <2>1. 1 \in Int /\ Len(s) - 1 \in Int
    BY <1>1
  <2> QED BY <1>1, <2>1, SubSeqProperties
<1>3. Len(t) = IF Len(s) = 0 THEN 0 ELSE Len(s) - 1
  BY <1>1, <1>2
<1>4. ASSUME NEW j \in 1..Len(t) PROVE t[j] = s[j]
  <2>1. j \in 1..((Len(s) - 1) - 1 + 1) /\ 1 + j - 1 = j
    BY <1>1, <1>3
  <2> QED BY <1>2, <2>1
<1> QED BY <1>2, <1>3, <1>4

\* The branch to be written starts right above what both chains share.
LEMMA StartSetHeadCanon ==
    ASSUME IndInv, CanonInv, up, mem = db, op.pc # "head", UNCHANGED <<canon, db>>,
           NEW o \in ImportOps, NEW b \in stored \ {Genesis}, op' = StartSetHead(o, b)
    PROVE  CanonInv'
<1>1. /\ b \in Block \ {Genesis} /\ mem.block \in Block /\ Parent[b] \in Block
      /\ Number[b] = Number[Parent[b]] + 1 /\ Number[Parent[b]] \in Nat /\ Number[b] \in Nat
      /\ Number[mem.block] \in Nat
  BY TreeAssumption DEF IndInv, TypeOK, Markers
<1>2. CanonUpTo(mem.block, Number[mem.block])
  BY DEF CanonInv, CanonicalChain, CanonUpTo
<1>3. HeaderAhead'
  BY DEF CanonInv, HeaderAhead
<1>4. CASE Parent[b] = mem.block
  <2>1. op'.pc = "head" /\ op'.tgt = b
    BY <1>4 DEF StartSetHead, ImportOps
  <2>2. CanonUpTo(b, Number[b] - 1)
    <3>1. mem.block \in Ancestors[b] /\ Number[b] - 1 = Number[mem.block]
      BY <1>1, <1>4, ChainOfChild, AncestorsOK
    <3> QED BY <1>1, <1>2, <3>1, ChainBelow DEF CanonUpTo
  <2> QED BY <1>3, <2>1, <2>2 DEF CanonInv, CanonicalChain, ReorgReady, HeadReady, CanonUpTo
<1>5. CASE Parent[b] # mem.block
  <2> DEFINE c == CommonBlock(mem.block, b)
             base == Number[c]
             path == Branch(mem.block, b)
             todo == SubSeq(path, 1, Len(path) - 1)
             done == Number[b] - 1 - Len(todo)
  <2>1. c \in Ancestors[mem.block] /\ c \in Ancestors[b] /\ c \in Block
    BY <1>1, CommonBlockOK, AncestorsOK
  <2>2. base \in Nat /\ base <= Number[b] /\ base <= Number[mem.block]
    BY <1>1, <2>1, AncestorsOK, TreeAssumption
  <2>3. path = [k \in 1..(Number[b] - base) |-> AncestorAt(b, base + k)]
    BY DEF Branch
  <2> HIDE DEF c, base, path
  <2>4. /\ Len(path) = Number[b] - base
        /\ \A k \in 1..(Number[b] - base) : path[k] = AncestorAt(b, base + k)
    BY <1>1, <2>2, <2>3
  <2>5. path \in Seq(Block)
    BY <1>1, BranchOK, AncestorsOK, SeqMonotonic DEF path
  <2>6. op'.pc = "reorg" /\ op'.tgt = b /\ op'.todo = todo
    BY <1>5 DEF StartSetHead, ImportOps, path
  <2>7. /\ Len(todo) = IF Len(path) = 0 THEN 0 ELSE Len(path) - 1
        /\ \A j \in 1..Len(todo) : todo[j] = path[j]
        /\ DOMAIN todo = 1..Len(todo)
    BY <2>5, AllButLast
  <2> HIDE DEF todo
  <2>8. /\ done \in Nat /\ done <= base /\ (Len(todo) > 0 => done = base)
        /\ Len(todo) <= Number[b] - base
    <3> DEFINE n == Number[b]
               l == Len(todo)
    <3>1. n \in Nat /\ n # 0 /\ base \in Nat /\ base <= n
      BY <1>1, <2>2
    <3>2. l = IF n - base = 0 THEN 0 ELSE n - base - 1
      BY <2>4, <2>7
    <3>3. n - 1 - l \in Nat /\ n - 1 - l <= base /\ (l > 0 => n - 1 - l = base) /\ l <= n - base
      <4> HIDE DEF n, l
      <4> QED BY <3>1, <3>2
    <3> QED BY <3>3
  <2>9. ASSUME NEW j \in DOMAIN todo PROVE todo[j] = AncestorAt(b, done + j)
    <3> DEFINE n == Number[b] - base
               l == Len(todo)
    <3>1. j \in 1..l /\ l <= n /\ n \in Int
      BY <1>1, <2>2, <2>7, <2>8
    <3>2. l \in Int
      BY <1>1, <2>2, <2>4, <2>7
    <3>3. j \in 1..l /\ j \in 1..n /\ l > 0
      <4> HIDE DEF n, l
      <4> QED BY <3>1, <3>2
    <3> QED BY <2>4, <2>7, <2>8, <3>3
  <2>10. CanonUpTo(b, done)
    <3>1. ASSUME NEW k \in 0..done PROVE canon[k] = AncestorAt(b, k)
      <4>1. k \in 0..Number[c] /\ k \in 0..Number[mem.block]
        <5> HIDE DEF done
        <5> QED BY <1>1, <2>2, <2>8 DEF base
      <4>2. AncestorAt(c, k) = AncestorAt(b, k) /\ AncestorAt(c, k) = AncestorAt(mem.block, k)
        BY <1>1, <2>1, <4>1, ChainBelow
      <4> QED BY <1>2, <4>1, <4>2 DEF CanonUpTo
    <3> QED BY <3>1 DEF CanonUpTo
  <2>11. ReorgReady'
    BY <2>6, <2>8, <2>9, <2>10 DEF ReorgReady, CanonUpTo
  <2>12. HeadReady' /\ CanonicalChain'
    BY <2>6 DEF HeadReady, CanonicalChain, CanonInv
  <2> QED BY <1>3, <2>11, <2>12 DEF CanonInv
<1> QED BY <1>4, <1>5

\* The batch of writeHeadBlock for a block all of whose ancestors are canonical.
LEMMA HeadBatchCanon ==
    ASSUME IndInv, NEW b \in Block, HeadBatch(b), CanonUpTo(b, Number[b] - 1)
    PROVE  /\ \A n \in 0..Number[b] : canon'[n] = AncestorAt(b, n)
           /\ db'.block = b /\ db'.header = b
<1>1. Number[b] \in Nat /\ b \in Ancestors[b]
  BY TreeAssumption, AncestorsOK
<1>2. ASSUME NEW n \in 0..Number[b] PROVE canon'[n] = AncestorAt(b, n)
  <2>1. n \in Numbers /\ canon \in [Numbers -> Block \cup {None}]
    BY HeightsBelow DEF IndInv, TypeOK
  <2>2. CASE n = Number[b]
    BY <1>1, <2>1, <2>2, ChainBelow DEF HeadBatch
  <2>3. CASE n # Number[b]
    BY <1>1, <2>1, <2>3 DEF HeadBatch, CanonUpTo
  <2> QED BY <2>2, <2>3
<1> QED BY <1>2 DEF HeadBatch

\* A sequence as its first element and the others.
LEMMA FirstAndRest ==
    ASSUME NEW S, NEW s \in Seq(S), s # << >>
    PROVE  /\ Len(s) \in Nat \ {0} /\ DOMAIN s = 1..Len(s) /\ Head(s) = s[1]
           /\ Tail(s) \in Seq(S) /\ Len(Tail(s)) = Len(s) - 1
           /\ \A j \in DOMAIN Tail(s) : j \in Nat /\ j + 1 \in DOMAIN s /\ Tail(s)[j] = s[j + 1]
<1>1. Len(s) \in Nat \ {0} /\ DOMAIN s = 1..Len(s) /\ Head(s) = s[1]
  OBVIOUS
<1>2. /\ Tail(s) \in Seq(S) /\ Len(Tail(s)) = Len(s) - 1
      /\ \A j \in 1..Len(Tail(s)) : Tail(s)[j] = s[j + 1]
  BY HeadTailProperties
<1>3. DOMAIN Tail(s) = 1..(Len(s) - 1)
  BY <1>2
<1> QED BY <1>1, <1>2, <1>3

\* The next block of the branch to be written lies right above what is canonical
\* of it.
LEMMA ReorgWriteBase ==
    ASSUME IndInv, CanonInv, ReorgWrite
    PROVE  LET done == Number[op.tgt] - 1 - Len(op.todo)
               b == Head(op.todo)
           IN  /\ done + 1 \in Nat /\ Number[b] = done + 1
               /\ b \in Ancestors[op.tgt] /\ b \in Block
               /\ \A n \in 0..(done + 1) : AncestorAt(b, n) = AncestorAt(op.tgt, n)
               /\ CanonUpTo(b, Number[b] - 1)
<1> DEFINE done == Number[op.tgt] - 1 - Len(op.todo)
           b == Head(op.todo)
<1>1. op.pc = "reorg" /\ op.todo # << >> /\ HeadBatch(b)
  BY DEF ReorgWrite
<1>2. op \in ImportOps /\ op.todo \in Seq(Block) /\ op.tgt \in stored /\ stored \subseteq Block
  BY <1>1, ImportShape DEF ImportPCs, ImportOps, IndInv, ImportOK
<1>3. /\ done \in Nat /\ CanonUpTo(op.tgt, done)
      /\ \A j \in DOMAIN op.todo : op.todo[j] = AncestorAt(op.tgt, done + j)
  BY <1>1 DEF CanonInv, ReorgReady
<1>4. /\ Len(op.todo) \in Nat \ {0} /\ DOMAIN op.todo = 1..Len(op.todo)
      /\ b = op.todo[1] /\ Len(Tail(op.todo)) = Len(op.todo) - 1
      /\ \A j \in DOMAIN Tail(op.todo) :
            j \in Nat /\ j + 1 \in DOMAIN op.todo /\ Tail(op.todo)[j] = op.todo[j + 1]
  BY <1>1, <1>2, FirstAndRest
<1>5. done + 1 \in Nat /\ done + 1 <= Number[op.tgt]
  <2> DEFINE n == Number[op.tgt]
             l == Len(op.todo)
  <2>1. n \in Nat /\ l \in Nat \ {0} /\ n - 1 - l \in Nat
    BY <1>2, <1>3, <1>4, TreeAssumption
  <2>2. n - 1 - l + 1 \in Nat /\ n - 1 - l + 1 <= n
    <3> HIDE DEF n, l
    <3> QED BY <2>1
  <2> QED BY <2>2
<1>6. b = AncestorAt(op.tgt, done + 1) /\ b \in Ancestors[op.tgt] /\ Number[b] = done + 1
      /\ b \in Block
  <2>1. b = AncestorAt(op.tgt, done + 1)
    BY <1>3, <1>4
  <2> QED BY <1>2, <1>5, <2>1, AncestorAtOK, AncestorsOK
<1>7. \A n \in 0..(done + 1) : AncestorAt(b, n) = AncestorAt(op.tgt, n)
  BY <1>2, <1>6, ChainBelow
<1>8. CanonUpTo(b, Number[b] - 1)
  <2>1. Number[b] - 1 = done /\ \A n \in 0..done : n \in 0..(done + 1)
    BY <1>3, <1>6
  <2> QED BY <1>3, <1>7, <2>1 DEF CanonUpTo
<1> QED BY <1>5, <1>6, <1>7, <1>8

\* Writing it keeps the canonical hashes the chain of the head.
LEMMA ReorgWriteCanon ==
    ASSUME IndInv, CanonInv, ReorgWrite
    PROVE  CanonInv'
<1> DEFINE done == Number[op.tgt] - 1 - Len(op.todo)
           b == Head(op.todo)
<1>1. op.pc = "reorg" /\ op.todo # << >> /\ HeadBatch(b)
  BY DEF ReorgWrite
<1>2. op \in ImportOps /\ op.todo \in Seq(Block) /\ op.tgt \in stored /\ stored \subseteq Block
  BY <1>1, ImportShape DEF ImportPCs, ImportOps, IndInv, ImportOK
<1>3. /\ done \in Nat /\ CanonUpTo(op.tgt, done)
      /\ \A j \in DOMAIN op.todo : op.todo[j] = AncestorAt(op.tgt, done + j)
  BY <1>1 DEF CanonInv, ReorgReady
<1>4. /\ Len(op.todo) \in Nat \ {0} /\ DOMAIN op.todo = 1..Len(op.todo)
      /\ b = op.todo[1] /\ Len(Tail(op.todo)) = Len(op.todo) - 1
      /\ \A j \in DOMAIN Tail(op.todo) :
            j \in Nat /\ j + 1 \in DOMAIN op.todo /\ Tail(op.todo)[j] = op.todo[j + 1]
  BY <1>1, <1>2, FirstAndRest
<1>5. /\ done + 1 \in Nat /\ Number[b] = done + 1 /\ b \in Ancestors[op.tgt] /\ b \in Block
      /\ \A n \in 0..(done + 1) : AncestorAt(b, n) = AncestorAt(op.tgt, n)
      /\ CanonUpTo(b, Number[b] - 1)
  BY ReorgWriteBase
<1>6. (\A n \in 0..Number[b] : canon'[n] = AncestorAt(b, n)) /\ db'.block = b /\ db'.header = b
  BY <1>1, <1>5, HeadBatchCanon
<1>7. op'.pc = "reorg" /\ op'.tgt = op.tgt /\ op'.todo = Tail(op.todo)
  BY <1>1, <1>2 DEF ReorgWrite, ImportOps
<1>8. CanonicalChain' /\ HeadReady' /\ HeaderAhead'
  BY <1>5, <1>6, <1>7, AncestorsOK DEF CanonicalChain, HeadReady, HeaderAhead
<1>9. ReorgReady'
  <2>1. Number[op.tgt] - 1 - Len(Tail(op.todo)) = done + 1
    <3>1. Number[op.tgt] \in Nat
      BY <1>2, TreeAssumption
    <3> QED BY <1>4, <3>1
  <2>2. ASSUME NEW j \in DOMAIN Tail(op.todo)
        PROVE  Tail(op.todo)[j] = AncestorAt(op.tgt, done + 1 + j)
    <3>1. j + 1 \in DOMAIN op.todo /\ Tail(op.todo)[j] = op.todo[j + 1]
      BY <1>4
    <3>2. j \in Int /\ done + (j + 1) = done + 1 + j
      BY <1>3, <1>4
    <3> QED BY <1>3, <3>1, <3>2
  <2>3. \A n \in 0..(done + 1) : canon'[n] = AncestorAt(op.tgt, n)
    BY <1>5, <1>6
  <2> HIDE DEF done
  <2> QED BY <1>5, <1>7, <2>1, <2>2, <2>3 DEF ReorgReady, CanonUpTo
<1> QED BY <1>8, <1>9 DEF CanonInv

\* The deletions of canonical hashes start at the target's height or above.
LEMMA ReorgIndexesCanon ==
    ASSUME IndInv, CanonInv, ReorgIndexes
    PROVE  CanonInv'
<1>1. op.pc = "reorg" /\ op.todo = << >> /\ op' = [op EXCEPT !.pc = "head"] /\ db' = db
  BY DEF ReorgIndexes
<1>2. op \in ImportOps /\ op.tgt \in Block \ {Genesis} /\ Number[op.tgt] \in Nat
      /\ canon \in [Numbers -> Block \cup {None}]
  BY <1>1, ImportShape, TreeAssumption DEF ImportPCs, IndInv, ImportOK, TypeOK
<1>3. op'.pc = "head" /\ op'.tgt = op.tgt
  BY <1>1, <1>2 DEF ImportOps
<1>4. CanonUpTo(op.tgt, Number[op.tgt] - 1)
  <2>1. Number[op.tgt] - 1 - Len(op.todo) = Number[op.tgt] - 1
    BY <1>1, <1>2
  <2> QED BY <1>1, <2>1 DEF CanonInv, ReorgReady
<1>5. ASSUME NEW n \in 0..(Number[op.tgt] - 1) PROVE canon'[n] = canon[n]
  <2>1. n \in Numbers
    BY <1>2, HeightsBelow
  <2>2. \A m \in {Number[op.tgt], Number[op.tgt] - 1} : n \notin MarkedFrom(m + 1)
    BY <1>2 DEF MarkedFrom
  <2> QED BY <1>2, <2>1, <2>2 DEF ReorgIndexes
<1>6. HeadReady'
  BY <1>3, <1>4, <1>5 DEF HeadReady, CanonUpTo
<1> QED BY <1>1, <1>3, <1>6 DEF CanonInv, CanonicalChain, ReorgReady, HeaderAhead

LEMMA WriteHeadCanon ==
    ASSUME IndInv, CanonInv, WriteHead
    PROVE  CanonInv'
<1>1. op.pc = "head" /\ HeadBatch(op.tgt) /\ op' = [op EXCEPT !.pc = "mark", !.dirty = op.tgt]
  BY DEF WriteHead
<1>2. op \in ImportOps /\ op.tgt \in Block
  BY <1>1, ImportShape DEF ImportPCs, IndInv, ImportOK, TypeOK
<1>3. op'.pc = "mark"
  BY <1>1, <1>2 DEF ImportOps
<1>4. CanonUpTo(op.tgt, Number[op.tgt] - 1)
  BY <1>1 DEF CanonInv, HeadReady
<1>5. /\ \A n \in 0..Number[op.tgt] : canon'[n] = AncestorAt(op.tgt, n)
      /\ db'.block = op.tgt /\ db'.header = op.tgt
  BY <1>1, <1>2, <1>4, HeadBatchCanon
<1> QED BY <1>2, <1>3, <1>5, AncestorsOK
        DEF CanonInv, CanonicalChain, ReorgReady, HeadReady, HeaderAhead

\* A lower head on the same chain keeps its part of the canonical hashes.
LEMMA LowerHeadCanon ==
    ASSUME NEW a \in Block, NEW b \in Ancestors[a], CanonUpTo(a, Number[a])
    PROVE  CanonUpTo(b, Number[b])
<1>1. b \in Block /\ Number[b] \in Nat /\ Number[a] \in Nat /\ Number[b] <= Number[a]
  BY AncestorsOK, TreeAssumption
<1>2. \A n \in 0..Number[b] : n \in 0..Number[a] /\ AncestorAt(b, n) = AncestorAt(a, n)
  BY <1>1, ChainBelow
<1> QED BY <1>2 DEF CanonUpTo

LEMMA RewindHeaderCanon ==
    ASSUME IndInv, CanonInv, RewindHeader
    PROVE  CanonInv'
<1> DEFINE hdr == mem.header
           par == Parent[hdr]
<1>1. op.pc = "rewind" /\ Number[hdr] > op.target
  BY DEF RewindHeader
<1>2. /\ op \in RewindOps /\ mem = db /\ mem \in Markers(Block) /\ Genesis \in disk
  BY <1>1, RewindShape DEF IndInv, ControlOK
<1>3. /\ hdr \in Block \ {Genesis} /\ par \in Block /\ mem.block \in Block
      /\ Number[hdr] = Number[par] + 1 /\ Number[par] \in Nat /\ Number[mem.block] \in Nat
  <2>1. op.target \in Nat
    BY <1>2 DEF RewindOps
  <2>2. hdr \in Block /\ hdr # Genesis
    BY <1>1, <1>2, <2>1, TreeAssumption DEF Markers
  <2> QED BY <1>2, <2>2, TreeAssumption DEF Markers
<1>4. mem.block \in Ancestors[hdr] /\ CanonUpTo(mem.block, Number[mem.block])
  BY <1>1, <1>2 DEF CanonInv, CanonicalChain, HeaderAhead, CanonUpTo
<1>5. op'.pc = "rewind" /\ canon' = canon /\ db'.header = par
  BY <1>1, <1>2 DEF RewindHeader, RewindOps
<1>6. Ancestors[hdr] = {hdr} \cup Ancestors[par] /\ par \in Ancestors[hdr]
  BY <1>3, ChainOfChild, AncestorsOK
<1>7. CASE Number[par] <= Number[mem.block]
  <2> DEFINE block == NearestWithState(par)
  <2>1. db'.block = block
    BY <1>7 DEF RewindHeader
  <2>2. block \in Ancestors[par]
    BY <1>2, <1>3, NearestOK
  <2>3. par \in Ancestors[mem.block]
    BY <1>3, <1>4, <1>6, <1>7, ChainBelow
  <2>4. block \in Ancestors[mem.block]
    BY <1>3, <2>2, <2>3, ChainBelow
  <2> HIDE DEF block
  <2>5. CanonUpTo(block, Number[block])
    BY <1>3, <1>4, <2>4, LowerHeadCanon
  <2> QED BY <1>5, <2>1, <2>2, <2>5
          DEF CanonInv, CanonicalChain, ReorgReady, HeadReady, HeaderAhead, CanonUpTo
<1>8. CASE ~(Number[par] <= Number[mem.block])
  <2>1. db'.block = mem.block
    BY <1>2, <1>8 DEF RewindHeader
  <2>2. mem.block \in Ancestors[par]
    BY <1>3, <1>4, <1>6, <1>8
  <2> QED BY <1>4, <1>5, <2>1, <2>2
          DEF CanonInv, CanonicalChain, ReorgReady, HeadReady, HeaderAhead, CanonUpTo
<1> QED BY <1>7, <1>8

\* The heights a rewind deletes are above the header, and the head block below.
LEMMA RewindFlushCanon ==
    ASSUME IndInv, CanonInv, RewindFlush
    PROVE  CanonInv'
<1>1. op.pc = "rewind" /\ op' = Idle /\ db' = db
  BY DEF RewindFlush
<1>2. mem = db /\ mem \in Markers(Block) /\ canon \in [Numbers -> Block \cup {None}]
  BY <1>1, RewindShape DEF IndInv, TypeOK
<1>3. db.block \in Block /\ db.header \in Block /\ Number[db.block] \in Nat
      /\ Number[db.header] \in Nat
  BY <1>2, TreeAssumption DEF Markers
<1>4. ASSUME NEW n \in 0..Number[db.block] PROVE canon'[n] = canon[n]
  <2>1. n \in Numbers
    BY <1>3, HeightsBelow
  <2>2. n \notin op.del
    BY <1>1, <1>2, <1>3 DEF IndInv, RewindOK
  <2> QED BY <1>2, <2>1, <2>2 DEF RewindFlush
<1>5. \A n \in 0..Number[db.block] : canon[n] = AncestorAt(db.block, n)
  BY <1>1 DEF CanonInv, CanonicalChain
<1> QED BY <1>1, <1>4, <1>5
        DEF CanonInv, CanonicalChain, ReorgReady, HeadReady, HeaderAhead, Idle

\* The repair moves the head block down its own chain.
LEMMA RestartCanon ==
    ASSUME IndInv, CanonInv, Restart
    PROVE  CanonInv'
<1> DEFINE block == NearestWithState(db.block)
<1>1. op = Idle /\ op' = op /\ canon' = canon
  BY DEF Restart, IndInv, ControlOK
<1>2. db \in Markers(Block) /\ Genesis \in disk
  BY DEF IndInv, TypeOK, ControlOK
<1>3. db.block \in Block /\ db.header \in Block /\ block \in Ancestors[db.block]
  BY <1>2, NearestOK DEF Markers
<1>4. db'.block = block /\ db'.header = db.header
  BY <1>2 DEF Restart, LoadLastState, Markers
<1> HIDE DEF block
<1>5. CanonUpTo(block, Number[block])
  BY <1>1, <1>3, LowerHeadCanon DEF CanonInv, CanonicalChain, CanonUpTo, Idle
<1>6. block \in Ancestors[db.header]
  BY <1>3, ChainBelow DEF CanonInv, HeaderAhead
<1> QED BY <1>1, <1>4, <1>5, <1>6
        DEF CanonInv, CanonicalChain, ReorgReady, HeadReady, HeaderAhead, CanonUpTo, Idle

\* A crash outside the window: what is canonical is the chain of the persisted
\* head, also right before the batch of the new head.
LEMMA CrashCanon ==
    ASSUME IndInv, CanonInv, Crash, ~CrashInWindow
    PROVE  CanonInv'
<1>1. canon' = canon /\ db' = db /\ op' = Idle /\ ~up'
  BY DEF Crash, GoDown, dbVars
<1>2. CASE op.pc # "head"
  BY <1>1, <1>2, CanonFrame DEF Idle
<1>3. CASE op.pc = "head"
  <2>1. db.block = Parent[op.tgt]
    BY <1>1, <1>3 DEF CrashInWindow
  <2>2. op.tgt \in Block \ {Genesis} /\ Parent[op.tgt] \in Block
        /\ Number[op.tgt] = Number[Parent[op.tgt]] + 1 /\ Number[Parent[op.tgt]] \in Nat
    BY <1>3, TreeAssumption DEF IndInv, ImportOK, TypeOK
  <2>3. db.block \in Ancestors[op.tgt]
    BY <2>1, <2>2, ChainOfChild, AncestorsOK
  <2>4. \A n \in 0..Number[db.block] :
            n \in 0..(Number[op.tgt] - 1) /\ AncestorAt(db.block, n) = AncestorAt(op.tgt, n)
    BY <2>1, <2>2, <2>3, ChainBelow
  <2>5. \A n \in 0..Number[db.block] : canon[n] = AncestorAt(db.block, n)
    BY <1>3, <2>4 DEF CanonInv, HeadReady, CanonUpTo
  <2> QED BY <1>1, <2>5
          DEF CanonInv, CanonicalChain, ReorgReady, HeadReady, HeaderAhead, Idle
<1> QED BY <1>2, <1>3

\* The steps of an import that leave indexes and persisted markers alone.
ImportMove ==
    \/ TrimKnown \/ WriteKnown \/ Postpone \/ Reject \/ EnterLoop \/ Execute \/ LeaveLoop
    \/ DecideHead \/ StoreMarkers \/ EnterSideChain \/ SideBlock \/ SideChainEnd

OutsideReorg == {"idle", "first", "known", "exec", "state", "side"}

\* Such a step leads to a point outside reorganisations, goes on in one, or
\* starts one for a stored block that has its state.
Leaves ==
    op.pc # "reorg" /\ op'.pc \in OutsideReorg /\ (op'.pc = "state" => Execute)
GoesOn ==
    op.pc = "reorg" /\ op'.pc = "reorg" /\ op'.tgt = op.tgt /\ op'.todo = op.todo
Starts(b) ==
    /\ op.pc \in {"known", "exec", "state"} /\ mem = db
    /\ \E o \in ImportOps : op' = StartSetHead(o, b)
    /\ b \in disk' \cup triegc'

LEMMA ImportMoves ==
    ASSUME IndInv, ImportMove
    PROVE  /\ up /\ op \in ImportOps /\ op.pc # "head" /\ UNCHANGED <<canon, db>>
           /\ Leaves \/ GoesOn \/ \E b \in stored \ {Genesis} : Starts(b)
<1>1. UNCHANGED <<canon, db>>
  BY DEF ImportMove, TrimKnown, WriteKnown, Postpone, Reject, EnterLoop, Execute, LeaveLoop,
         DecideHead, StoreMarkers, EnterSideChain, SideBlock, SideChainEnd, OnlyOp, dbVars
<1>2. op.pc \in {"first", "known", "exec", "state", "reorg", "mark", "side"}
  BY DEF ImportMove, TrimKnown, WriteKnown, Postpone, Reject, EnterLoop, Execute, LeaveLoop,
         DecideHead, StoreMarkers, EnterSideChain, SideBlock, SideChainEnd, Importing
<1>3. up /\ op \in ImportOps
  BY <1>2, ImportShape DEF ImportPCs
<1> USE DEF OutsideReorg
<1>4. CASE TrimKnown
  <2>1. op.pc = "first" /\ (op' = [op EXCEPT !.pc = "known"] \/ op' = [op EXCEPT !.i = op.i + 1])
    BY <1>4 DEF TrimKnown, Importing
  <2>2. op'.pc \in {"first", "known"}
    BY <1>3, <2>1 DEF ImportOps
  <2> QED BY <1>1, <1>3, <2>1, <2>2 DEF Leaves
<1>5. CASE WriteKnown
  <2> DEFINE b == op.chain[op.i]
             o == IF op.pc = "known" THEN [op EXCEPT !.ret = "known"]
                  ELSE [op EXCEPT !.ret = "skip", !.start = b]
  <2>1. op.pc \in {"known", "exec"} /\ op.i <= Len(op.chain) /\ NextVerdict = "known"
    BY <1>5 DEF WriteKnown, Importing
  <2>2. b \in stored \ {Genesis} /\ HasState(b)
    BY <1>3, <2>1, ChainBlockOK DEF NextVerdict, Verdict, HeaderVerdict, HasBlockAndState
  <2>3. o \in ImportOps
    <3>1. op \in ImportOps /\ b \in Block
      BY <1>3, <2>1, ChainBlockOK
    <3> HIDE DEF b
    <3> QED BY <3>1 DEF ImportOps
  <2>4. op' = StartSetHead(o, b) /\ UNCHANGED <<disk, triegc>>
    BY <1>5 DEF WriteKnown, OnlyOp, dbVars
  <2>5. mem = db
    BY <1>3, <2>1, NotBehind DEF IndInv, MarkersOK, ImportPCs
  <2> HIDE DEF o, b
  <2>6. Starts(b)
    BY <2>1, <2>2, <2>3, <2>4, <2>5 DEF Starts, HasState
  <2> QED BY <1>1, <1>3, <2>1, <2>2, <2>6
<1>6. CASE Postpone \/ Reject \/ LeaveLoop
  <2>1. op.pc \in {"first", "known", "exec"} /\ op' = Idle
    BY <1>6 DEF Postpone, Reject, LeaveLoop, Importing
  <2> QED BY <1>1, <1>3, <2>1 DEF Leaves, Idle
<1>7. CASE EnterLoop
  <2>1. op.pc \in {"first", "known"} /\ op'.pc = "exec"
    BY <1>3, <1>7 DEF EnterLoop, Importing, ImportOps
  <2> QED BY <1>1, <1>3, <2>1 DEF Leaves
<1>8. CASE Execute
  <2> DEFINE b == op.chain[op.i]
  <2>1. op.pc = "exec" /\ (op' = Idle \/ op' = [op EXCEPT !.pc = "state", !.tgt = b])
    BY <1>8 DEF Execute, Importing
  <2> HIDE DEF b
  <2>2. op'.pc \in {"idle", "state"}
    <3>1. CASE op' = Idle
      BY <3>1 DEF Idle
    <3>2. CASE op' = [op EXCEPT !.pc = "state", !.tgt = b]
      BY <1>3, <3>2 DEF ImportOps
    <3> QED BY <2>1, <3>1, <3>2
  <2> QED BY <1>1, <1>3, <1>8, <2>1, <2>2 DEF Leaves
<1>9. CASE DecideHead
  <2>1. op.pc = "state" /\ (op' = StartSetHead(op, op.tgt) \/ op' = Continue(op))
    BY <1>9 DEF DecideHead
  <2>2. CASE op' = Continue(op)
    BY <1>1, <1>3, <2>1, <2>2, ContinuePC DEF Leaves
  <2>3. CASE op' = StartSetHead(op, op.tgt)
    <3>1. mem = db /\ op.tgt \in stored \ {Genesis} /\ op.tgt \in Block
      BY <1>3, <2>1, NotBehind DEF IndInv, MarkersOK, ImportOK, ImportPCs, TypeOK
    <3>2. op.tgt \in triegc'
      <4>1. PICK capped \in SUBSET triegc, timeUp \in BOOLEAN :
                CommitState(op.tgt, capped, timeUp)
        BY <1>9 DEF DecideHead
      <4>2. Number[op.tgt] > Number[op.tgt] - TriesInMemory
        BY <3>1, TreeAssumption, BoundAssumption
      <4> QED BY <4>1, <4>2 DEF CommitState
    <3>3. Starts(op.tgt)
      BY <1>3, <2>1, <2>3, <3>1, <3>2 DEF Starts, HasState
    <3> QED BY <1>1, <1>3, <2>1, <3>1, <3>3
  <2> QED BY <2>1, <2>2, <2>3
<1>10. CASE StoreMarkers
  <2>1. CASE op.pc = "mark"
    <3> DEFINE o == [op EXCEPT !.dirty = None, !.old = None]
    <3>1. o \in ImportOps
      BY <1>3 DEF ImportOps
    <3>2. op' = Continue(o)
      BY <1>10, <2>1 DEF StoreMarkers
    <3> HIDE DEF o
    <3> QED BY <1>1, <1>3, <2>1, <3>1, <3>2, ContinuePC DEF Leaves
  <2>2. CASE op.pc # "mark"
    <3>1. op.pc = "reorg" /\ op' = [op EXCEPT !.dirty = None]
      BY <1>10, <2>2 DEF StoreMarkers
    <3>2. op'.pc = "reorg" /\ op'.tgt = op.tgt /\ op'.todo = op.todo
      BY <1>3, <3>1 DEF ImportOps
    <3> QED BY <1>1, <1>3, <3>1, <3>2 DEF GoesOn
  <2> QED BY <2>1, <2>2
<1>11. CASE EnterSideChain
  <2>1. op.pc \in {"first", "known"} /\ op'.pc = "side"
    BY <1>3, <1>11 DEF EnterSideChain, Importing, ImportOps
  <2> QED BY <1>1, <1>3, <2>1 DEF Leaves
<1>12. CASE SideBlock
  <2> DEFINE b == op.chain[op.i]
             k == op.i + 1
  <2>1. op' = Idle \/ op' = [op EXCEPT !.i = k] \/ op' = [op EXCEPT !.i = k, !.tgt = b]
    BY <1>12 DEF SideBlock
  <2> HIDE DEF b, k
  <2>2. op.pc = "side"
    BY <1>12 DEF SideBlock, Importing
  <2>3. op'.pc \in {"idle", "side"}
    <3>1. CASE op' = Idle
      BY <3>1 DEF Idle
    <3>2. CASE op' # Idle
      BY <1>3, <2>1, <2>2, <3>2 DEF ImportOps
    <3> QED BY <3>1, <3>2
  <2> QED BY <1>1, <1>3, <2>2, <2>3 DEF Leaves
<1>13. CASE SideChainEnd
  <2>1. op.pc = "side" /\ (op' = Idle \/ \E c : op' = InsertOp(c, op.start))
    BY <1>13 DEF SideChainEnd
  <2>2. op'.pc \in {"idle", "first"}
    BY <2>1 DEF InsertOp, Idle
  <2> QED BY <1>1, <1>3, <2>1, <2>2 DEF Leaves
<1> QED BY <1>4, <1>5, <1>6, <1>7, <1>8, <1>9, <1>10, <1>11, <1>12, <1>13 DEF ImportMove

LEMMA ImportMoveCanon ==
    ASSUME IndInv, CanonInv, ImportMove
    PROVE  CanonInv'
<1>1. /\ up /\ op.pc # "head" /\ UNCHANGED <<canon, db>>
      /\ Leaves \/ GoesOn \/ \E b \in stored \ {Genesis} : Starts(b)
  BY ImportMoves
<1>2. CASE Leaves
  BY <1>1, <1>2, CanonFrame DEF Leaves, OutsideReorg
<1>3. CASE GoesOn
  BY <1>1, <1>3
     DEF GoesOn, CanonInv, CanonicalChain, ReorgReady, HeadReady, HeaderAhead, CanonUpTo
<1>4. CASE \E b \in stored \ {Genesis} : Starts(b)
  BY <1>1, <1>4, StartSetHeadCanon DEF Starts
<1> QED BY <1>1, <1>2, <1>3, <1>4

LEMMA CanonStep ==
    ASSUME IndInv, CanonInv, [Next]_vars, ~CrashInWindow
    PROVE  CanonInv'
<1>1. CASE OpStep
  BY <1>1, ImportMoveCanon, ReorgWriteCanon, ReorgIndexesCanon, WriteHeadCanon,
     RewindHeaderCanon, RewindFlushCanon, Zenon DEF OpStep, ImportMove
<1>2. CASE \/ \E chain \in Segments : InsertChain(chain)
           \/ \E b \in Block \ {Genesis} : WriteMined(b)
           \/ \E n \in Numbers : SetHead(n)
           \/ ProcNext
  <2>1. op = Idle /\ UNCHANGED <<canon, db>>
    BY <1>2 DEF InsertChain, WriteMined, SetHead, ProcNext, OnlyOp, dbVars
  <2>2. op'.pc \in {"first", "state", "rewind", "idle"}
    <3>1. CASE \E b \in Block \ {Genesis} : WriteMined(b)
      <4>1. PICK b \in Block \ {Genesis} : WriteMined(b)
        BY <3>1
      <4> QED BY <4>1 DEF WriteMined, InsertOp
    <3> QED BY <1>2, <3>1 DEF InsertChain, SetHead, ProcNext, InsertOp, Idle
  <2> QED BY <2>1, <2>2, CanonFrame DEF Idle
<1>3. CASE Stop
  BY <1>3, CanonFrame DEF Stop, GoDown, Idle
<1>4. CASE Crash
  BY <1>4, CrashCanon
<1>5. CASE Restart
  BY <1>5, RestartCanon
<1>6. CASE StopInsert \/ ProcFutureBlocks \/ Tick \/ UNCHANGED vars
  BY <1>6, CanonFrame DEF StopInsert, ProcFutureBlocks, Tick, dbVars, vars
<1> QED BY <1>1, <1>2, <1>3, <1>4, <1>5, <1>6, Zenon DEF Next

LEMMA InitCanon == Init => CanonInv
<1> SUFFICES ASSUME Init PROVE CanonInv
  OBVIOUS
<1>1. Genesis \in Block /\ Number[Genesis] = 0 /\ 0 \in Numbers /\ Genesis \in Ancestors[Genesis]
  BY TreeAssumption, AncestorsOK DEF Numbers
<1>2. AncestorAt(Genesis, 0) = Genesis
  BY <1>1, ChainBelow
<1>3. db.block = Genesis /\ db.header = Genesis /\ canon[0] = Genesis /\ op.pc = "idle"
  BY <1>1 DEF Init, Idle
<1> QED BY <1>1, <1>2, <1>3 DEF CanonInv, CanonicalChain, ReorgReady, HeadReady, HeaderAhead

\* Up to the persisted head the canonical hashes are the chain of that head, for
\* every block tree, through reorganisations, repairs and rewinds and crashes at
\* any of their points but one: as long as no crash falls between the last two
\* batches of a reorganisation whose blocks below the new head are none.
THEOREM CanonicalHashesFollowHead == Spec /\ [][~CrashInWindow]_vars => []CanonicalChain
<1>1. Init => CanonInv
  BY InitCanon
<1>2. IndInv /\ CanonInv /\ [Next]_vars /\ [~CrashInWindow]_vars => CanonInv'
  <2> SUFFICES ASSUME IndInv, CanonInv, [Next]_vars, [~CrashInWindow]_vars PROVE CanonInv'
    OBVIOUS
  <2>1. CASE ~CrashInWindow
    BY <2>1, CanonStep
  <2>2. CASE UNCHANGED vars
    BY <2>2, CanonFrame DEF vars
  <2> QED BY <2>1, <2>2
<1>3. CanonInv => CanonicalChain
  BY DEF CanonInv
<1> QED BY <1>1, <1>2, <1>3, ChainInvariant, PTL DEF Spec

-----------------------------------------------------------------------------
(* Nothing canonical above the head *)

\* The node has run since it was set up and was never rewound.
Undisturbed == crashes = 0 /\ stops = 0 /\ rewinds = 0

\* Above height n nothing is canonical.
NoneAbove(n) == \A k \in Numbers : k > n => canon[k] = None

\* The canonical hashes have no gaps, so that the deletion of a reorganisation,
\* which stops at the first one, leaves nothing behind.
NoGaps == \A n \in Numbers : canon[n] # None => \A k \in 0..n : canon[k] # None

AboveInv ==
    Undisturbed =>
        /\ up /\ ~interrupt /\ op.pc # "rewind" /\ CanonInv /\ NoGaps
        /\ op.pc \notin {"reorg", "head"} => NoneAbove(Number[db.block])
        /\ op.pc = "head" => NoneAbove(Number[op.tgt])

\* Writing a hash right above canonical ones makes no gap.
LEMMA HeadBatchNoGaps ==
    ASSUME IndInv, NoGaps, NEW b \in Block, HeadBatch(b), CanonUpTo(b, Number[b] - 1)
    PROVE  NoGaps'
<1>1. /\ canon \in [Numbers -> Block \cup {None}] /\ Number[b] \in Nat /\ Number[b] \in Numbers
      /\ Numbers \subseteq Nat
  BY TreeAssumption DEF IndInv, TypeOK, Numbers
<1>2. \A k \in 0..Number[b] : canon'[k] # None
  <2> SUFFICES ASSUME NEW k \in 0..Number[b] PROVE canon'[k] # None
    OBVIOUS
  <2>1. k \in Nat /\ k <= Number[b] /\ canon'[k] = AncestorAt(b, k)
    BY <1>1, HeadBatchCanon
  <2>2. AncestorAt(b, k) \in Block
    BY <2>1, AncestorAtOK, AncestorsOK
  <2> QED BY <2>1, <2>2, TreeAssumption
<1>3. ASSUME NEW n \in Numbers, canon'[n] # None, NEW k \in 0..n PROVE canon'[k] # None
  <2>1. CASE n <= Number[b]
    BY <1>1, <1>2, <2>1
  <2>2. CASE ~(n <= Number[b])
    <3>1. canon[n] # None
      BY <1>1, <1>3, <2>2 DEF HeadBatch
    <3>2. canon[k] # None
      BY <3>1 DEF NoGaps
    <3>3. k \in Numbers
      <4>1. PICK c \in Block : Number[c] = n
        BY DEF Numbers
      <4> QED BY <4>1, HeightsBelow
    <3> QED BY <1>1, <1>2, <3>2, <3>3 DEF HeadBatch
  <2> QED BY <2>1, <2>2
<1> QED BY <1>3 DEF NoGaps

\* Without gaps, MarkedFrom finds every canonical hash from a height on.
LEMMA ReorgIndexesAbove ==
    ASSUME IndInv, NoGaps, ReorgIndexes
    PROVE  NoGaps' /\ NoneAbove(Number[op.tgt])'
<1>1. op.pc = "reorg" /\ op' = [op EXCEPT !.pc = "head"]
  BY DEF ReorgIndexes
<1>2. op \in ImportOps /\ op.tgt \in Block /\ Number[op.tgt] \in Nat
      /\ canon \in [Numbers -> Block \cup {None}] /\ Numbers \subseteq Nat
  BY <1>1, ImportShape, TreeAssumption DEF ImportPCs, IndInv, ImportOK, TypeOK, Numbers
<1>3. op'.tgt = op.tgt
  BY <1>1, <1>2 DEF ImportOps
<1> DEFINE number == IF op.tgt \in Ancestors[op.old] THEN Number[op.tgt] ELSE Number[op.tgt] - 1
<1>4. number \in Int /\ number + 1 >= 0 /\ number <= Number[op.tgt]
  BY <1>2
<1>5. canon' = [n \in Numbers |-> IF n \in MarkedFrom(number + 1) THEN None ELSE canon[n]]
  BY <1>2 DEF ReorgIndexes
<1> HIDE DEF number
<1>6. ASSUME NEW n \in Numbers, n > number PROVE canon'[n] = None
  <2>1. CASE canon[n] = None
    BY <1>5, <2>1
  <2>2. CASE canon[n] # None
    <3>1. \A k \in (number + 1)..n : canon[k] # None
      BY <1>2, <1>4, <2>2 DEF NoGaps
    <3>2. n >= number + 1
      BY <1>2, <1>4, <1>6
    <3>3. n \in MarkedFrom(number + 1)
      BY <1>2, <3>1, <3>2 DEF MarkedFrom
    <3> QED BY <1>5, <3>3
  <2> QED BY <2>1, <2>2
<1>7. ASSUME NEW n \in Numbers, canon'[n] # None, NEW k \in 0..n PROVE canon'[k] # None
  <2>1. n <= number /\ k <= number /\ n \in Nat /\ k \in Nat
    BY <1>2, <1>4, <1>6, <1>7
  <2>2. canon[n] # None
    BY <1>5, <1>7
  <2>3. canon[k] # None
    BY <2>2 DEF NoGaps
  <2>4. k \in Numbers
    <3>1. PICK c \in Block : Number[c] = n
      BY DEF Numbers
    <3> QED BY <3>1, HeightsBelow
  <2>5. k \notin MarkedFrom(number + 1)
    BY <1>4, <2>1 DEF MarkedFrom
  <2> QED BY <1>5, <2>3, <2>4, <2>5
<1>8. ASSUME NEW k \in Numbers, k > Number[op.tgt] PROVE canon'[k] = None
  BY <1>2, <1>4, <1>6, <1>8
<1> QED BY <1>3, <1>7, <1>8 DEF NoGaps, NoneAbove

\* Nothing above the written head stays canonical.
LEMMA WriteHeadAbove ==
    ASSUME IndInv, NoneAbove(Number[op.tgt]), WriteHead
    PROVE  NoneAbove(Number[db.block])'
<1>1. op.pc = "head" /\ HeadBatch(op.tgt)
  BY DEF WriteHead
<1>2. op.tgt \in Block /\ Number[op.tgt] \in Nat /\ Numbers \subseteq Nat
      /\ canon \in [Numbers -> Block \cup {None}]
  BY <1>1, TreeAssumption DEF IndInv, ImportOK, TypeOK, Numbers
<1>3. db'.block = op.tgt
  BY <1>1 DEF HeadBatch
<1>4. ASSUME NEW k \in Numbers, k > Number[op.tgt] PROVE canon'[k] = None
  BY <1>1, <1>2, <1>4 DEF HeadBatch, NoneAbove
<1> QED BY <1>3, <1>4 DEF NoneAbove

\* A step after which the node is still undisturbed is no crash, stop or rewind.
LEMMA StillUndisturbed ==
    ASSUME IndInv, AboveInv, [Next]_vars, Undisturbed'
    PROVE  /\ Undisturbed /\ ~CrashInWindow
           /\ \/ OpStep \/ (\E chain \in Segments : InsertChain(chain))
              \/ (\E b \in Block \ {Genesis} : WriteMined(b))
              \/ ProcFutureBlocks \/ ProcNext \/ Tick \/ UNCHANGED vars
<1>1. crashes \in Nat /\ stops \in Nat /\ rewinds \in Nat
  BY BoundAssumption DEF IndInv, TypeOK
<1>2. ~Crash /\ ~StopInsert /\ ~(\E n \in Numbers : SetHead(n))
  BY <1>1 DEF Undisturbed, Crash, StopInsert, SetHead
<1>3. CASE Stop \/ Restart
  <2>1. UNCHANGED envVars /\ (interrupt \/ ~up)
    BY <1>3 DEF Stop, Restart
  <2> QED BY <2>1 DEF AboveInv, Undisturbed, envVars
<1>4. CASE OpStep
  <2>1. UNCHANGED <<up, envVars>>
    BY <1>4 DEF OpStep, TrimKnown, WriteKnown, Postpone, Reject, EnterLoop, Execute, LeaveLoop,
           DecideHead, ReorgWrite, ReorgIndexes, WriteHead, StoreMarkers, EnterSideChain,
           SideBlock, SideChainEnd, RewindHeader, RewindFlush, OnlyOp
  <2> QED BY <1>4, <2>1 DEF AboveInv, Undisturbed, envVars, CrashInWindow
<1>5. CASE \/ \E chain \in Segments : InsertChain(chain)
           \/ \E b \in Block \ {Genesis} : WriteMined(b)
           \/ ProcFutureBlocks \/ ProcNext \/ Tick \/ UNCHANGED vars
  <2>1. UNCHANGED <<up, crashes, stops, rewinds>>
    BY <1>5 DEF InsertChain, WriteMined, ProcFutureBlocks, ProcNext, Tick, OnlyOp, envVars, vars
  <2> QED BY <1>5, <2>1 DEF AboveInv, Undisturbed, CrashInWindow
<1> QED BY <1>2, <1>3, <1>4, <1>5 DEF Next

LEMMA ImportMoveAbove ==
    ASSUME IndInv, AboveInv, Undisturbed, ImportMove
    PROVE  /\ op'.pc # "rewind" /\ NoGaps'
           /\ op'.pc \notin {"reorg", "head"} => NoneAbove(Number[db.block])'
           /\ op'.pc = "head" => NoneAbove(Number[op.tgt])'
<1>1. /\ up /\ op.pc # "head" /\ UNCHANGED <<canon, db>>
      /\ Leaves \/ GoesOn \/ \E b \in stored \ {Genesis} : Starts(b)
  BY ImportMoves
<1>2. NoGaps'
  BY <1>1 DEF AboveInv, NoGaps
<1>3. CASE Leaves
  BY <1>1, <1>2, <1>3 DEF Leaves, OutsideReorg, AboveInv, NoneAbove
<1>4. CASE GoesOn
  BY <1>2, <1>4 DEF GoesOn
<1>5. CASE \E b \in stored \ {Genesis} : Starts(b)
  <2>1. PICK b \in stored \ {Genesis} : Starts(b)
    BY <1>5
  <2>2. PICK o \in ImportOps : op' = StartSetHead(o, b)
    BY <2>1 DEF Starts
  <2>3. op.pc \in {"known", "exec", "state"} /\ mem = db
    BY <2>1 DEF Starts
  <2>4. b \in Block \ {Genesis} /\ stored \subseteq Block
    BY DEF IndInv, TypeOK
  <2>5. CASE Parent[b] = mem.block
    <3>1. op'.pc = "head" /\ op'.tgt = b
      BY <2>2, <2>5 DEF StartSetHead, ImportOps
    <3>2. Number[b] = Number[db.block] + 1 /\ Number[db.block] \in Nat /\ Numbers \subseteq Nat
      BY <2>3, <2>4, <2>5, TreeAssumption DEF Numbers
    <3>3. NoneAbove(Number[db.block])
      BY <2>3 DEF AboveInv
    <3>4. \A k \in Numbers : k > Number[b] => canon[k] = None
      BY <3>2, <3>3 DEF NoneAbove
    <3>5. NoneAbove(Number[op.tgt])'
      BY <1>1, <3>1, <3>4 DEF NoneAbove
    <3> QED BY <1>2, <3>1, <3>5
  <2>6. CASE Parent[b] # mem.block
    <3>1. op'.pc = "reorg"
      BY <2>2, <2>6 DEF StartSetHead, ImportOps
    <3> QED BY <1>2, <3>1
  <2> QED BY <2>5, <2>6
<1> QED BY <1>1, <1>3, <1>4, <1>5

LEMMA AboveStep ==
    ASSUME IndInv, AboveInv, [Next]_vars
    PROVE  AboveInv'
<1> SUFFICES ASSUME Undisturbed' PROVE AboveInv'
  BY DEF AboveInv
<1>1. /\ Undisturbed /\ ~CrashInWindow
      /\ \/ OpStep \/ (\E chain \in Segments : InsertChain(chain))
         \/ (\E b \in Block \ {Genesis} : WriteMined(b))
         \/ ProcFutureBlocks \/ ProcNext \/ Tick \/ UNCHANGED vars
  BY StillUndisturbed
<1>2. up /\ ~interrupt /\ op.pc # "rewind" /\ CanonInv /\ NoGaps
  BY <1>1 DEF AboveInv
<1>3. CanonInv'
  BY <1>1, <1>2, CanonStep
<1>4. up' /\ ~interrupt'
  <2>1. CASE OpStep
    <3>1. UNCHANGED <<up, interrupt>>
      BY <2>1 DEF OpStep, TrimKnown, WriteKnown, Postpone, Reject, EnterLoop, Execute, LeaveLoop,
         DecideHead, ReorgWrite, ReorgIndexes, WriteHead, StoreMarkers, EnterSideChain,
         SideBlock, SideChainEnd, RewindHeader, RewindFlush, OnlyOp
    <3> QED BY <1>2, <3>1
  <2>2. CASE ~OpStep
    <3>1. UNCHANGED <<up, interrupt>>
      BY <1>1, <2>2 DEF InsertChain, WriteMined, ProcFutureBlocks, ProcNext, Tick, OnlyOp, vars
    <3> QED BY <1>2, <3>1
  <2> QED BY <2>1, <2>2
<1> DEFINE Goal == /\ op'.pc # "rewind" /\ NoGaps'
                   /\ op'.pc \notin {"reorg", "head"} => NoneAbove(Number[db.block])'
                   /\ op'.pc = "head" => NoneAbove(Number[op.tgt])'
<1> SUFFICES Goal
  BY <1>3, <1>4 DEF AboveInv
<1>5. CASE ImportMove
  BY <1>1, <1>5, ImportMoveAbove
<1>6. CASE ReorgWrite
  <2> DEFINE b == Head(op.todo)
  <2>1. op.pc = "reorg" /\ op.todo # << >> /\ HeadBatch(b)
    BY <1>6 DEF ReorgWrite
  <2>2. op \in ImportOps
    BY <2>1, ImportShape DEF ImportPCs
  <2>3. op'.pc = "reorg"
    BY <1>6, <2>1, <2>2 DEF ReorgWrite, ImportOps
  <2>4. b \in Block /\ CanonUpTo(b, Number[b] - 1)
    BY <1>2, <1>6, ReorgWriteBase
  <2>5. NoGaps'
    BY <1>2, <2>1, <2>4, HeadBatchNoGaps
  <2> QED BY <2>3, <2>5
<1>7. CASE ReorgIndexes
  <2>1. op.pc = "reorg" /\ op' = [op EXCEPT !.pc = "head"]
    BY <1>7 DEF ReorgIndexes
  <2>2. op \in ImportOps
    BY <2>1, ImportShape DEF ImportPCs
  <2>3. op'.pc = "head"
    BY <2>1, <2>2 DEF ImportOps
  <2> QED BY <1>2, <1>7, <2>3, ReorgIndexesAbove
<1>8. CASE WriteHead
  <2>1. op.pc = "head" /\ HeadBatch(op.tgt)
    BY <1>8 DEF WriteHead
  <2>2. op \in ImportOps /\ op.tgt \in Block
    BY <2>1, ImportShape DEF ImportPCs, IndInv, ImportOK, TypeOK
  <2>3. op'.pc = "mark"
    BY <1>8, <2>2 DEF WriteHead, ImportOps
  <2>4. NoGaps'
    BY <1>2, <2>1, <2>2, HeadBatchNoGaps DEF CanonInv, HeadReady
  <2>5. NoneAbove(Number[db.block])'
    BY <1>1, <1>8, <2>1, WriteHeadAbove DEF AboveInv
  <2> QED BY <2>3, <2>4, <2>5
<1>9. CASE RewindHeader \/ RewindFlush
  BY <1>2, <1>9 DEF RewindHeader, RewindFlush
<1>10. CASE \/ \E chain \in Segments : InsertChain(chain)
            \/ \E b \in Block \ {Genesis} : WriteMined(b)
            \/ ProcNext
  <2>1. op = Idle /\ UNCHANGED <<canon, db>>
    BY <1>10 DEF InsertChain, WriteMined, ProcNext, OnlyOp, dbVars
  <2>2. op'.pc \in {"first", "state", "idle"}
    <3>1. CASE \E b \in Block \ {Genesis} : WriteMined(b)
      <4>1. PICK b \in Block \ {Genesis} : WriteMined(b)
        BY <3>1
      <4> QED BY <4>1 DEF WriteMined, InsertOp
    <3> QED BY <1>10, <3>1 DEF InsertChain, ProcNext, InsertOp, Idle
  <2> QED BY <1>1, <2>1, <2>2 DEF AboveInv, NoGaps, NoneAbove, Idle
<1>11. CASE ProcFutureBlocks \/ Tick \/ UNCHANGED vars
  <2>1. UNCHANGED <<op, canon, db>>
    BY <1>11 DEF ProcFutureBlocks, Tick, dbVars, vars
  <2> QED BY <1>1, <2>1 DEF AboveInv, NoGaps, NoneAbove
<1> HIDE DEF Goal
<1> QED BY <1>1, <1>5, <1>6, <1>7, <1>8, <1>9, <1>10, <1>11, Zenon DEF OpStep, ImportMove

\* In a node that was never stopped or rewound, nothing above the head is marked
\* canonical between two operations, for every block tree: the deletions of a
\* reorganisation to a lower head leave no hash behind.
THEOREM NothingLeftAboveHead == Spec => []NothingCanonicalAboveHead
<1>1. Init => AboveInv
  <2> SUFFICES ASSUME Init PROVE AboveInv
    OBVIOUS
  <2>1. CanonInv /\ Number[Genesis] = 0 /\ Numbers \subseteq Nat
    BY InitCanon, TreeAssumption DEF Numbers
  <2>2. \A k \in Numbers : k # 0 => canon[k] = None
    BY DEF Init
  <2>3. NoGaps
    <3>1. ASSUME NEW n \in Numbers, canon[n] # None, NEW k \in 0..n PROVE canon[k] # None
      BY <2>1, <2>2, <3>1
    <3> QED BY <3>1 DEF NoGaps
  <2> QED BY <2>1, <2>2, <2>3 DEF AboveInv, NoneAbove, Init, Idle
<1>2. IndInv /\ AboveInv /\ [Next]_vars => AboveInv'
  BY AboveStep
<1>3. IndInv /\ AboveInv => NothingCanonicalAboveHead
  <2> SUFFICES ASSUME IndInv, AboveInv, up, op = Idle, Undisturbed,
                      NEW n \in DOMAIN canon, n > Number[mem.block]
               PROVE  canon[n] = None
    BY DEF NothingCanonicalAboveHead, Undisturbed
  <2>1. mem = db /\ DOMAIN canon = Numbers
    BY DEF IndInv, TypeOK, MarkersOK, MarkersBehind, Idle
  <2> QED BY <2>1 DEF AboveInv, NoneAbove, Idle
<1> QED BY <1>1, <1>2, <1>3, ChainInvariant, PTL DEF Spec

-----------------------------------------------------------------------------
(* Only valid blocks *)

\* Every block of b's chain passes header, body and state validation.
ValidChain(b) == Ancestors[b] \cap (BadHeader \cup BadState) = {}

\* The head, persisted or in memory, and every block whose state is there.
OnlyValidBlocks ==
    /\ ValidChain(db.block)
    /\ up => ValidChain(mem.block)
    /\ \A b \in disk \cup triegc : ValidChain(b)

GoodInv ==
    /\ OnlyValidBlocks
    /\ op.pc \in {"state", "reorg", "head", "mark"} => ValidChain(op.tgt)
    /\ op.pc = "reorg" => \A k \in DOMAIN op.todo : op.todo[k] \in Ancestors[op.tgt]

LEMMA ValidBelow ==
    ASSUME NEW b \in Block, ValidChain(b), NEW a \in Ancestors[b]
    PROVE  ValidChain(a)
<1>1. a \in Block /\ Ancestors[b] \in SUBSET Block /\ ParentClosed(Ancestors[b])
  BY AncestorsOK
<1>2. Ancestors[a] \subseteq Ancestors[b]
  BY <1>1, AncestorsOK
<1> QED BY <1>2 DEF ValidChain

LEMMA ValidChild ==
    ASSUME NEW b \in Block \ {Genesis}, ValidChain(Parent[b]), b \notin BadHeader \cup BadState
    PROVE  ValidChain(b)
BY ChainOfChild DEF ValidChain

\* The states after a step are among those before it and the one of the block
\* just executed.
LEMMA StatesStep ==
    ASSUME IndInv, GoodInv, [Next]_vars
    PROVE  \A b \in disk' \cup triegc' : ValidChain(b)
<1>1. CASE DecideHead
  <2>1. op.pc = "state"
    BY <1>1 DEF DecideHead
  <2>2. PICK capped \in SUBSET triegc, timeUp \in BOOLEAN : CommitState(op.tgt, capped, timeUp)
    BY <1>1 DEF DecideHead
  <2>3. disk' \subseteq disk \cup triegc /\ triegc' \subseteq triegc \cup {op.tgt}
    BY <2>2 DEF CommitState
  <2>4. ValidChain(op.tgt)
    BY <2>1 DEF GoodInv
  <2> QED BY <2>3, <2>4 DEF GoodInv, OnlyValidBlocks
<1>2. CASE Stop \/ Crash
  <2>1. disk' \subseteq disk \cup triegc /\ triegc' = {}
    BY <1>2 DEF Stop, Crash, GoDown, dbVars
  <2> QED BY <2>1 DEF GoodInv, OnlyValidBlocks
<1>3. CASE ~DecideHead /\ ~Stop /\ ~Crash
  <2>1. UNCHANGED <<disk, triegc>>
    <3>1. CASE OpStep
      BY <1>3, <3>1 DEF OpStep, TrimKnown, WriteKnown, Postpone, Reject, EnterLoop, Execute,
         LeaveLoop, ReorgWrite, ReorgIndexes, WriteHead, StoreMarkers, EnterSideChain,
         SideBlock, SideChainEnd, RewindHeader, RewindFlush, OnlyOp, HeadBatch, dbVars
    <3>2. CASE ~OpStep
      BY <1>3, <3>2 DEF Next, InsertChain, WriteMined, SetHead, StopInsert, Restart,
         ProcFutureBlocks, ProcNext, Tick, OnlyOp, dbVars, vars
    <3> QED BY <3>1, <3>2
  <2> QED BY <2>1 DEF GoodInv, OnlyValidBlocks
<1> QED BY <1>1, <1>2, <1>3

\* The blocks of a branch under construction lie on the chain of its target.
LEMMA StartSetHeadTodo ==
    ASSUME IndInv, up, NEW o \in ImportOps, NEW b \in Block \ {Genesis}
    PROVE  LET q == StartSetHead(o, b)
           IN  /\ q.tgt = b /\ q.pc \in {"reorg", "head"}
               /\ q.pc = "reorg" => \A k \in DOMAIN q.todo : q.todo[k] \in Ancestors[b]
<1>1. CASE Parent[b] = mem.block
  BY <1>1 DEF StartSetHead, ImportOps
<1>2. CASE Parent[b] # mem.block
  <2> DEFINE path == Branch(mem.block, b)
             todo == SubSeq(path, 1, Len(path) - 1)
  <2>1. mem.block \in Block
    BY DEF IndInv, TypeOK, Markers
  <2>2. path \in Seq(Ancestors[b])
    BY <2>1, BranchOK
  <2>3. \A k \in DOMAIN todo : todo[k] \in Ancestors[b]
    <3> HIDE DEF path
    <3> DEFINE t == todo
    <3>1. t = SubSeq(path, 1, Len(path) - 1)
      OBVIOUS
    <3> HIDE DEF t
    <3>2. /\ Len(t) = IF Len(path) = 0 THEN 0 ELSE Len(path) - 1
          /\ DOMAIN t = 1..Len(t)
          /\ \A j \in 1..Len(t) : t[j] = path[j]
      BY <2>2, <3>1, AllButLast
    <3>3. Len(path) \in Nat /\ \A j \in 1..Len(path) : path[j] \in Ancestors[b]
      BY <2>2
    <3>4. \A j \in 1..Len(t) : j \in 1..Len(path)
      BY <3>2, <3>3
    <3>5. \A k \in DOMAIN t : t[k] \in Ancestors[b]
      BY <3>2, <3>3, <3>4
    <3> QED BY <3>5 DEF t
  <2>4. StartSetHead(o, b).tgt = b /\ StartSetHead(o, b).pc = "reorg"
        /\ StartSetHead(o, b).todo = todo
    BY <1>2 DEF StartSetHead, ImportOps
  <2> HIDE DEF todo
  <2> QED BY <2>3, <2>4
<1> QED BY <1>1, <1>2

LEMMA GoodStep ==
    ASSUME IndInv, GoodInv, [Next]_vars
    PROVE  GoodInv'
<1>1. \A b \in disk' \cup triegc' : ValidChain(b)
  BY StatesStep
<1>2. /\ ValidChain(db.block) /\ (up => ValidChain(mem.block))
      /\ \A b \in disk \cup triegc : ValidChain(b)
  BY DEF GoodInv, OnlyValidBlocks
<1>3. stored \subseteq Block /\ Genesis \in disk /\ db \in Markers(Block)
      /\ (up => mem \in Markers(Block))
  BY DEF IndInv, TypeOK, ControlOK
<1> USE DEF OutsideReorg
<1>4. CASE ImportMove
  <2>1. /\ up /\ op \in ImportOps /\ op.pc # "head" /\ UNCHANGED <<canon, db>>
        /\ Leaves \/ GoesOn \/ \E b \in stored \ {Genesis} : Starts(b)
    BY <1>4, ImportMoves
  <2>2. ValidChain(mem'.block)
    <3>1. CASE StoreMarkers
      <4>1. db = MarkersAt(op.dirty) /\ mem'.block = op.dirty
        BY <2>1, <3>1 DEF StoreMarkers, IndInv, MarkersOK, MarkersBehind
      <4> QED BY <1>2, <4>1 DEF MarkersAt
    <3>2. CASE ~StoreMarkers
      <4>1. mem' = mem
        BY <1>4, <3>2 DEF ImportMove, TrimKnown, WriteKnown, Postpone, Reject, EnterLoop, Execute,
           LeaveLoop, DecideHead, EnterSideChain, SideBlock, SideChainEnd, OnlyOp
      <4> QED BY <1>2, <2>1, <4>1
    <3> QED BY <3>1, <3>2
  <2>3. OnlyValidBlocks'
    BY <1>1, <1>2, <2>1, <2>2 DEF OnlyValidBlocks
  <2>4. CASE Leaves
    <3>1. CASE op'.pc = "state"
      <4> DEFINE b == op.chain[op.i]
      <4>1. Execute
        BY <2>4, <3>1 DEF Leaves
      <4>2. op.i <= Len(op.chain) /\ NextVerdict = "ok"
        BY <4>1 DEF Execute, Importing
      <4>3. b \in Block \ {Genesis}
        BY <2>1, <4>2, ChainBlockOK
      <4>4. b \notin BadHeader /\ HasState(Parent[b])
        BY <4>2 DEF NextVerdict, Verdict, HeaderVerdict
      <4>5. b \notin BadState /\ op' = [op EXCEPT !.pc = "state", !.tgt = b]
        BY <3>1, <4>1 DEF Execute, Idle
      <4> HIDE DEF b
      <4>6. op'.tgt = b
        BY <2>1, <4>5 DEF ImportOps
      <4>7. ValidChain(b)
        BY <1>2, <4>3, <4>4, <4>5, ValidChild DEF HasState
      <4> QED BY <2>3, <3>1, <4>6, <4>7 DEF GoodInv
    <3>2. CASE op'.pc # "state"
      BY <2>3, <2>4, <3>2 DEF Leaves, GoodInv
    <3> QED BY <3>1, <3>2
  <2>5. CASE GoesOn
    BY <2>3, <2>5 DEF GoesOn, GoodInv
  <2>6. CASE \E b \in stored \ {Genesis} : Starts(b)
    <3>1. PICK b \in stored \ {Genesis} : Starts(b)
      BY <2>6
    <3>2. PICK o \in ImportOps : op' = StartSetHead(o, b)
      BY <3>1 DEF Starts
    <3>3. /\ op'.tgt = b /\ op'.pc \in {"reorg", "head"}
          /\ op'.pc = "reorg" => \A k \in DOMAIN op'.todo : op'.todo[k] \in Ancestors[b]
      BY <1>3, <2>1, <3>2, StartSetHeadTodo
    <3>4. ValidChain(b)
      BY <1>1, <3>1 DEF Starts
    <3> QED BY <2>3, <3>3, <3>4 DEF GoodInv
  <2> QED BY <2>1, <2>4, <2>5, <2>6
<1>5. CASE ReorgWrite
  <2> DEFINE b == Head(op.todo)
  <2>1. op.pc = "reorg" /\ op.todo # << >> /\ HeadBatch(b) /\ UNCHANGED <<mem, up>>
    BY <1>5 DEF ReorgWrite
  <2>2. up /\ op \in ImportOps /\ op.tgt \in Block /\ op.todo \in Seq(Block)
    BY <2>1, ImportShape DEF ImportPCs, IndInv, ImportOK, TypeOK, ImportOps
  <2>3. /\ op.todo[1] = b /\ 1 \in DOMAIN op.todo
        /\ \A j \in DOMAIN Tail(op.todo) : j + 1 \in DOMAIN op.todo /\ Tail(op.todo)[j] = op.todo[j + 1]
    BY <2>1, <2>2, FirstAndRest
  <2>4. ValidChain(op.tgt) /\ \A k \in DOMAIN op.todo : op.todo[k] \in Ancestors[op.tgt]
    BY <2>1 DEF GoodInv
  <2>5. ValidChain(b)
    BY <2>2, <2>3, <2>4, ValidBelow
  <2>6. op'.pc = "reorg" /\ op'.tgt = op.tgt /\ op'.todo = Tail(op.todo)
    BY <1>5, <2>1, <2>2 DEF ReorgWrite, ImportOps
  <2>7. OnlyValidBlocks'
    BY <1>1, <1>2, <2>1, <2>5 DEF OnlyValidBlocks, HeadBatch
  <2> QED BY <2>3, <2>4, <2>6, <2>7 DEF GoodInv
<1>6. CASE ReorgIndexes \/ WriteHead
  <2>1. /\ op.pc \in {"reorg", "head"} /\ UNCHANGED <<mem, up>>
        /\ db' = db \/ db'.block = op.tgt
        /\ op' = [op EXCEPT !.pc = "head"] \/ op' = [op EXCEPT !.pc = "mark", !.dirty = op.tgt]
    BY <1>6 DEF ReorgIndexes, WriteHead, HeadBatch
  <2>2. op \in ImportOps
    BY <2>1, ImportShape DEF ImportPCs
  <2>3. op'.pc \in {"head", "mark"} /\ op'.tgt = op.tgt
    BY <2>1, <2>2 DEF ImportOps
  <2>4. ValidChain(op.tgt)
    BY <2>1 DEF GoodInv
  <2>5. OnlyValidBlocks'
    BY <1>1, <1>2, <2>1, <2>4 DEF OnlyValidBlocks
  <2> QED BY <2>3, <2>4, <2>5 DEF GoodInv
<1>7. CASE RewindHeader
  <2> DEFINE par == Parent[mem.header]
  <2>1. op.pc = "rewind" /\ Number[mem.header] > op.target /\ UNCHANGED up
    BY <1>7 DEF RewindHeader
  <2>2. up /\ op \in RewindOps
    BY <2>1, RewindShape
  <2>3. mem.header \in Block \ {Genesis} /\ par \in Block
    BY <1>3, <2>1, <2>2, TreeAssumption DEF RewindOps, Markers
  <2>4. HasState(NearestWithState(par))
    BY <1>3, <2>3, NearestOK
  <2>5. ValidChain(NearestWithState(par))
    BY <1>2, <2>4 DEF HasState
  <2>6. ValidChain(mem'.block) /\ ValidChain(db'.block)
    BY <1>2, <1>7, <2>2, <2>5 DEF RewindHeader
  <2>7. op'.pc = "rewind"
    BY <1>7, <2>1, <2>2 DEF RewindHeader, RewindOps
  <2> QED BY <1>1, <2>6, <2>7 DEF GoodInv, OnlyValidBlocks
<1>8. CASE RewindFlush
  <2>1. op' = Idle /\ mem'.block = db.block /\ db' = db
    BY <1>8 DEF RewindFlush, LoadLastState
  <2> QED BY <1>1, <1>2, <2>1 DEF GoodInv, OnlyValidBlocks, Idle
<1>9. CASE \/ \E chain \in Segments : InsertChain(chain)
           \/ \E n \in Numbers : SetHead(n)
           \/ ProcNext
  <2>1. op'.pc \in {"first", "rewind", "idle"}
    BY <1>9 DEF InsertChain, SetHead, ProcNext, InsertOp, Idle
  <2>2. UNCHANGED <<mem, db, up>>
    BY <1>9 DEF InsertChain, SetHead, ProcNext, OnlyOp, dbVars
  <2> QED BY <1>1, <1>2, <2>1, <2>2 DEF GoodInv, OnlyValidBlocks
<1>10. CASE \E b \in Block \ {Genesis} : WriteMined(b)
  <2>1. PICK b \in Block \ {Genesis} : WriteMined(b)
    BY <1>10
  <2>2. op'.pc = "state" /\ op'.tgt = b
    BY <2>1 DEF WriteMined, InsertOp
  <2>3. UNCHANGED <<mem, db, up>>
    BY <2>1 DEF WriteMined
  <2>4. ValidChain(b)
    BY <1>2, <2>1, ValidChild DEF WriteMined, HasBlockAndState, HasState
  <2> QED BY <1>1, <1>2, <2>2, <2>3, <2>4 DEF GoodInv, OnlyValidBlocks
<1>11. CASE Stop \/ Crash
  <2>1. op' = Idle /\ ~up' /\ db' = db
    BY <1>11 DEF Stop, Crash, GoDown, dbVars
  <2> QED BY <1>1, <1>2, <2>1 DEF GoodInv, OnlyValidBlocks, Idle
<1>12. CASE Restart
  <2>1. op = Idle /\ op' = op
    BY <1>12 DEF Restart, IndInv, ControlOK
  <2>2. HasState(NearestWithState(db.block))
    BY <1>3, NearestOK DEF Markers
  <2>3. ValidChain(NearestWithState(db.block))
    BY <1>2, <2>2 DEF HasState
  <2>4. db'.block = NearestWithState(db.block) /\ mem'.block = db'.block
    BY <1>3, <1>12 DEF Restart, LoadLastState, Markers
  <2> QED BY <1>1, <2>1, <2>3, <2>4 DEF GoodInv, OnlyValidBlocks, Idle
<1>13. CASE StopInsert \/ ProcFutureBlocks \/ Tick \/ UNCHANGED vars
  <2>1. UNCHANGED <<op, mem, db, up>>
    BY <1>13 DEF StopInsert, ProcFutureBlocks, Tick, dbVars, vars
  <2> QED BY <1>1, <1>2, <2>1 DEF GoodInv, OnlyValidBlocks
<1> QED BY <1>4, <1>5, <1>6, <1>7, <1>8, <1>9, <1>10, <1>11, <1>12, <1>13, Zenon
        DEF Next, OpStep, ImportMove

LEMMA InitGood == Init => GoodInv
<1> SUFFICES ASSUME Init PROVE GoodInv
  OBVIOUS
<1>1. Genesis \in Block /\ ParentClosed({Genesis})
  BY TreeAssumption DEF ParentClosed
<1>2. Ancestors[Genesis] \subseteq {Genesis}
  BY <1>1, AncestorsOK
<1>3. ValidChain(Genesis)
  BY <1>2, TreeAssumption DEF ValidChain
<1> QED BY <1>3 DEF Init, GoodInv, OnlyValidBlocks, Idle

\* A block that fails header, body or state validation never gets into the chain
\* of the head, and no state is kept for it or for anything built on it: not
\* through a side chain stored before it is executed, a known block that is
\* not executed again, a rewind or a restart.
THEOREM HeadChainIsValid == Spec => []OnlyValidBlocks
<1>1. Init => GoodInv
  BY InitGood
<1>2. IndInv /\ GoodInv /\ [Next]_vars => GoodInv'
  BY GoodStep
<1>3. GoodInv => OnlyValidBlocks
  BY DEF GoodInv
<1> QED BY <1>1, <1>2, <1>3, ChainInvariant, PTL DEF Spec

-----------------------------------------------------------------------------
(* The state of the head *)

\* A chain longer by as many blocks as states are kept is also heavier.
LongerIsHeavier ==
    \A a, b \in Block : Number[a] >= Number[b] + TriesInMemory => TD[a] > TD[b]

\* The operation has chosen a new head and not yet installed it.
Switching == op.pc \in {"reorg", "head", "mark"}

\* The head's state is there, unless a longer and lighter chain outgrew it.
HeadKept ==
    \/ HasState(mem.block)
    \/ /\ ~LongerIsHeavier
       /\ \E b \in stored : Number[b] >= Number[mem.block] + TriesInMemory

StateInv ==
    /\ op.pc = "rewind" => rewinds # 0
    /\ Switching => HasState(op.tgt)
    /\ up /\ ~Switching /\ (rewinds = 0 \/ LongerIsHeavier) => HeadKept

\* The fork choice takes a heavier block of another height, and no lighter one.
LEMMA ForkChoice ==
    ASSUME NEW a \in Block, NEW b \in Block, NEW reorg \in ReorgNeeded(a, b)
    PROVE  /\ Number[a] # Number[b] /\ TD[b] > TD[a] => reorg
           /\ reorg => TD[b] >= TD[a]
<1>1. TD[a] \in Nat /\ TD[b] \in Nat
  BY TreeAssumption
<1>2. CASE Number[a] = Number[b]
  <2>1. reorg = FALSE
    BY <1>2 DEF ReorgNeeded
  <2> QED BY <1>2, <2>1
<1>3. CASE Number[a] # Number[b] /\ TD[b] # TD[a]
  <2>1. reorg = (TD[b] > TD[a])
    BY <1>3 DEF ReorgNeeded
  <2>2. TD[b] > TD[a] => TD[b] >= TD[a]
    BY <1>1
  <2> QED BY <2>1, <2>2, Zenon
<1>4. CASE TD[b] = TD[a]
  BY <1>1, <1>4
<1> QED BY <1>2, <1>3, <1>4

\* A head whose state is dereferenced when a block is committed, and which stays
\* the head, is lower than that block by TriesInMemory, and heavier.
LEMMA DecideHeadState ==
    ASSUME IndInv, StateInv, DecideHead, Leaves
    PROVE  rewinds = 0 \/ LongerIsHeavier => HeadKept'
<1> SUFFICES ASSUME rewinds = 0 \/ LongerIsHeavier PROVE HeadKept'
  OBVIOUS
<1>1. op.pc = "state" /\ UNCHANGED <<stored, mem, up>>
  BY DEF DecideHead
<1>2. up /\ op \in ImportOps /\ op.tgt \in stored /\ op.tgt \in Block /\ mem.block \in Block
  BY <1>1, ImportShape DEF ImportPCs, IndInv, ImportOK, TypeOK, Markers
<1>3. HeadKept
  BY <1>1, <1>2 DEF StateInv, Switching
<1>4. ~(Number[mem.block] # Number[op.tgt] /\ TD[op.tgt] > TD[mem.block])
  <2>1. PICK reorg \in ReorgNeeded(mem.block, op.tgt) :
            IF reorg THEN op' = StartSetHead(op, op.tgt) ELSE op' = Continue(op)
    BY DEF DecideHead
  <2>2. StartSetHead(op, op.tgt).pc \in {"head", "reorg"}
    BY <1>2 DEF StartSetHead, ImportOps
  <2>3. ~reorg
    BY <2>1, <2>2 DEF Leaves, OutsideReorg
  <2> QED BY <1>2, <2>3, ForkChoice
<1>5. CASE ~HasState(mem.block)
  BY <1>1, <1>3, <1>5 DEF HeadKept
<1>6. CASE HasState(mem.block)
  <2>1. PICK capped \in SUBSET triegc, timeUp \in BOOLEAN : CommitState(op.tgt, capped, timeUp)
    BY DEF DecideHead
  <2> DEFINE n == Number[mem.block]
             m == Number[op.tgt]
  <2>2. n \in Nat /\ m \in Nat /\ TriesInMemory \in Nat \ {0}
        /\ TD[mem.block] \in Nat /\ TD[op.tgt] \in Nat
    BY <1>2, TreeAssumption, BoundAssumption
  <2>3. CASE n > m - TriesInMemory
    <3>1. mem.block \in disk' \cup triegc'
      BY <1>6, <2>1, <2>3 DEF CommitState, HasState
    <3> QED BY <1>1, <3>1 DEF HeadKept, HasState
  <2>4. CASE ~(n > m - TriesInMemory)
    <3>1. m >= n + TriesInMemory /\ m # n
      <4> HIDE DEF n, m
      <4> QED BY <2>2, <2>4
    <3>2. ~LongerIsHeavier
      BY <1>2, <1>4, <3>1 DEF LongerIsHeavier
    <3> QED BY <1>1, <1>2, <3>1, <3>2 DEF HeadKept
  <2> QED BY <2>3, <2>4
<1> QED BY <1>5, <1>6

LEMMA StateStep ==
    ASSUME IndInv, StateInv, [Next]_vars
    PROVE  StateInv'
<1>1. stored \subseteq Block /\ Genesis \in disk /\ db \in Markers(Block)
      /\ (up => mem \in Markers(Block))
  BY DEF IndInv, TypeOK, ControlOK
<1>2. CASE ImportMove
  <2>1. /\ up /\ op \in ImportOps /\ op.pc # "head"
        /\ Leaves \/ GoesOn \/ \E b \in stored \ {Genesis} : Starts(b)
    BY <1>2, ImportMoves
  <2>2. UNCHANGED <<up, rewinds>> /\ stored \subseteq stored'
    BY <1>2 DEF ImportMove, TrimKnown, WriteKnown, Postpone, Reject, EnterLoop, Execute, LeaveLoop,
       DecideHead, StoreMarkers, EnterSideChain, SideBlock, SideChainEnd, OnlyOp, dbVars, envVars
  <2>3. CASE \E b \in stored \ {Genesis} : Starts(b)
    <3>1. PICK b \in stored \ {Genesis} : Starts(b)
      BY <2>3
    <3>2. PICK o \in ImportOps : op' = StartSetHead(o, b)
      BY <3>1 DEF Starts
    <3>3. op'.tgt = b /\ op'.pc \in {"reorg", "head"}
      BY <1>1, <2>1, <3>2, StartSetHeadTodo
    <3>4. b \in disk' \cup triegc'
      BY <3>1 DEF Starts
    <3> QED BY <3>3, <3>4 DEF StateInv, Switching, HasState
  <2>4. CASE StoreMarkers
    <3>1. op.pc \in {"reorg", "mark"} /\ UNCHANGED <<disk, triegc>> /\ mem'.block = op.dirty
      BY <2>4 DEF StoreMarkers, dbVars
    <3>2. op.tgt \in disk \cup triegc
      BY <3>1 DEF StateInv, Switching, HasState
    <3>3. CASE op.pc = "mark"
      <4>1. op.dirty = op.tgt
        BY <3>3 DEF IndInv, ImportOK
      <4>2. op'.pc \in OutsideReorg
        BY <2>1, <3>3, <3>1 DEF Leaves, GoesOn, Starts
      <4> QED BY <3>1, <3>2, <4>1, <4>2 DEF StateInv, Switching, HasState, HeadKept, OutsideReorg
    <3>4. CASE op.pc = "reorg"
      <4>1. op'.pc = "reorg" /\ op'.tgt = op.tgt
        BY <2>1, <3>4 DEF Leaves, GoesOn, Starts
      <4> QED BY <3>1, <3>2, <4>1 DEF StateInv, Switching, HasState
    <3> QED BY <3>1, <3>3, <3>4
  <2>5. CASE DecideHead /\ Leaves
    <3>1. op'.pc \in OutsideReorg
      BY <2>5 DEF Leaves
    <3>2. rewinds = 0 \/ LongerIsHeavier => HeadKept'
      BY <2>5, DecideHeadState
    <3> QED BY <2>2, <3>1, <3>2 DEF StateInv, Switching, OutsideReorg
  <2>6. CASE ~DecideHead /\ ~StoreMarkers /\ Leaves
    <3>1. UNCHANGED <<disk, triegc, mem>>
      BY <1>2, <2>6 DEF ImportMove, TrimKnown, WriteKnown, Postpone, Reject, EnterLoop, Execute,
         LeaveLoop, EnterSideChain, SideBlock, SideChainEnd, OnlyOp, dbVars
    <3>2. op.pc \in OutsideReorg
      BY <1>2, <2>6 DEF ImportMove, TrimKnown, WriteKnown, Postpone, Reject, EnterLoop, Execute,
         LeaveLoop, EnterSideChain, SideBlock, SideChainEnd, Importing, OutsideReorg
    <3>3. rewinds = 0 \/ LongerIsHeavier => HeadKept
      BY <2>1, <3>2 DEF StateInv, Switching, OutsideReorg
    <3>4. rewinds = 0 \/ LongerIsHeavier => HeadKept'
      BY <2>2, <3>1, <3>3 DEF HeadKept, HasState
    <3>5. op'.pc \in OutsideReorg
      BY <2>6 DEF Leaves
    <3> QED BY <2>2, <3>4, <3>5 DEF StateInv, Switching, OutsideReorg
  <2>7. GoesOn => StoreMarkers
    <3> SUFFICES ASSUME op.pc = "reorg" PROVE StoreMarkers
      BY DEF GoesOn
    <3> QED BY <1>2 DEF ImportMove, TrimKnown, WriteKnown, Postpone, Reject, EnterLoop, Execute,
         LeaveLoop, DecideHead, EnterSideChain, SideBlock, SideChainEnd, Importing
  <2> QED BY <2>1, <2>3, <2>4, <2>5, <2>6, <2>7
<1>3. CASE ReorgWrite \/ ReorgIndexes \/ WriteHead
  <2> DEFINE b == Head(op.todo)
             t == Tail(op.todo)
  <2>1. /\ op.pc \in {"reorg", "head"} /\ UNCHANGED <<disk, triegc>>
        /\ \/ op' = [op EXCEPT !.todo = t, !.dirty = b]
           \/ op' = [op EXCEPT !.pc = "head"]
           \/ op' = [op EXCEPT !.pc = "mark", !.dirty = op.tgt]
    BY <1>3 DEF ReorgWrite, ReorgIndexes, WriteHead, HeadBatch
  <2> HIDE DEF b, t
  <2>2. op \in ImportOps
    BY <2>1, ImportShape DEF ImportPCs
  <2>3. op'.pc \in {"reorg", "head", "mark"} /\ op'.tgt = op.tgt
    BY <2>1, <2>2 DEF ImportOps
  <2> QED BY <2>1, <2>3 DEF StateInv, Switching, HasState
<1>4. CASE RewindHeader
  <2> DEFINE par == Parent[mem.header]
  <2>1. op.pc = "rewind" /\ Number[mem.header] > op.target
        /\ UNCHANGED <<up, disk, triegc, rewinds>>
    BY <1>4 DEF RewindHeader, envVars
  <2>2. up /\ op \in RewindOps
    BY <2>1, RewindShape
  <2>3. mem.header \in Block \ {Genesis} /\ par \in Block
    BY <1>1, <2>1, <2>2, TreeAssumption DEF RewindOps, Markers
  <2>4. HasState(NearestWithState(par))
    BY <1>1, <2>3, NearestOK
  <2>5. mem'.block = NearestWithState(par) \/ mem'.block = mem.block
    BY <1>4 DEF RewindHeader
  <2>6. op'.pc = "rewind"
    BY <1>4, <2>1, <2>2 DEF RewindHeader, RewindOps
  <2>7. rewinds # 0 /\ (LongerIsHeavier => HasState(mem.block))
    BY <2>1, <2>2 DEF StateInv, Switching, HeadKept
  <2>8. LongerIsHeavier => HeadKept'
    BY <2>1, <2>4, <2>5, <2>7 DEF HeadKept, HasState
  <2> QED BY <2>1, <2>6, <2>7, <2>8 DEF StateInv, Switching
<1>5. CASE RewindFlush
  <2>1. op.pc = "rewind" /\ op' = Idle /\ mem'.block = db.block /\ UNCHANGED <<disk, triegc, rewinds>>
    BY <1>5 DEF RewindFlush, LoadLastState, envVars
  <2>2. up /\ mem = db
    BY <2>1, RewindShape
  <2>3. rewinds # 0 /\ (LongerIsHeavier => HasState(mem.block))
    BY <2>1, <2>2 DEF StateInv, Switching, HeadKept
  <2>4. LongerIsHeavier => HeadKept'
    BY <2>1, <2>2, <2>3 DEF HeadKept, HasState
  <2> QED BY <2>1, <2>3, <2>4 DEF StateInv, Switching, Idle
<1>6. CASE \E n \in Numbers : SetHead(n)
  <2>1. op'.pc = "rewind" /\ op = Idle /\ rewinds' = rewinds + 1 /\ up
        /\ UNCHANGED <<disk, triegc, mem>>
    BY <1>6 DEF SetHead, dbVars
  <2>2. rewinds' # 0
    BY <2>1, BoundAssumption DEF IndInv, TypeOK
  <2>3. LongerIsHeavier => HasState(mem.block)
    BY <2>1 DEF StateInv, Switching, HeadKept, Idle
  <2>4. LongerIsHeavier => HeadKept'
    BY <2>1, <2>3 DEF HeadKept, HasState
  <2> QED BY <2>1, <2>2, <2>4 DEF StateInv, Switching
<1>7. CASE \/ \E chain \in Segments : InsertChain(chain)
           \/ \E b \in Block \ {Genesis} : WriteMined(b)
           \/ ProcNext
  <2>1. op = Idle /\ UNCHANGED <<disk, triegc, mem, up, rewinds>> /\ stored \subseteq stored'
    BY <1>7 DEF InsertChain, WriteMined, ProcNext, OnlyOp, dbVars, envVars
  <2>2. op'.pc \in {"first", "state", "idle"}
    <3>1. CASE \E b \in Block \ {Genesis} : WriteMined(b)
      <4>1. PICK b \in Block \ {Genesis} : WriteMined(b)
        BY <3>1
      <4> QED BY <4>1 DEF WriteMined, InsertOp
    <3> QED BY <1>7, <3>1 DEF InsertChain, ProcNext, InsertOp, Idle
  <2>3. up /\ (rewinds = 0 \/ LongerIsHeavier) => HeadKept
    BY <2>1 DEF StateInv, Switching, Idle
  <2>4. up /\ (rewinds = 0 \/ LongerIsHeavier) => HeadKept'
    BY <2>1, <2>3 DEF HeadKept, HasState
  <2> QED BY <2>1, <2>2, <2>4 DEF StateInv, Switching
<1>8. CASE Stop \/ Crash
  <2>1. op' = Idle /\ ~up'
    BY <1>8 DEF Stop, Crash, GoDown
  <2> QED BY <2>1 DEF StateInv, Switching, Idle
<1>9. CASE Restart
  <2>1. op = Idle /\ op' = op /\ UNCHANGED <<disk, triegc>>
    BY <1>9 DEF Restart, IndInv, ControlOK
  <2>2. HasState(NearestWithState(db.block))
    BY <1>1, NearestOK DEF Markers
  <2>3. mem'.block = NearestWithState(db.block)
    BY <1>1, <1>9 DEF Restart, LoadLastState, Markers
  <2>4. HeadKept'
    BY <2>1, <2>2, <2>3 DEF HeadKept, HasState
  <2> QED BY <2>1, <2>4 DEF StateInv, Switching, Idle
<1>10. CASE StopInsert \/ ProcFutureBlocks \/ Tick \/ UNCHANGED vars
  <2>1. UNCHANGED <<op, mem, stored, disk, triegc, up, rewinds>>
    BY <1>10 DEF StopInsert, ProcFutureBlocks, Tick, dbVars, envVars, vars
  <2> QED BY <2>1 DEF StateInv, Switching, HeadKept, HasState
<1> QED BY <1>2, <1>3, <1>4, <1>5, <1>6, <1>7, <1>8, <1>9, <1>10, Zenon
        DEF Next, OpStep, ImportMove

\* Between operations the state of the head is there, or a chain longer by
\* TriesInMemory blocks dereferenced it: in a node that was never rewound, and,
\* rewinds or not, wherever no chain that much longer is lighter.
THEOREM HeadStateKept == Spec => [](rewinds = 0 \/ LongerIsHeavier => HeadHasState)
<1>1. Init => StateInv
  BY DEF Init, StateInv, Switching, HeadKept, HasState, Idle
<1>2. IndInv /\ StateInv /\ [Next]_vars => StateInv'
  BY StateStep
<1>3. StateInv => (rewinds = 0 \/ LongerIsHeavier => HeadHasState)
  BY DEF StateInv, Switching, HeadKept, HeadHasState, Idle
<1> QED BY <1>1, <1>2, <1>3, ChainInvariant, PTL DEF Spec

-----------------------------------------------------------------------------
(* Total difficulty *)

\* Each block of a segment is the parent of the next.
Line(c) == \A k \in 2..Len(c) : Parent[c[k]] = c[k - 1]

\* The head, or the one being installed, is at least as heavy as the head at the
\* start of the import, or as the known block met since.
TDInv ==
    op.pc \in ImportPCs =>
        /\ Line(op.chain)
        /\ op.pc \in {"exec", "state"} => op.ret # "known"
        /\ IF Switching
           THEN /\ TD[op.tgt] >= TD[op.start]
                /\ op.ret = "known" => op.i <= Len(op.chain) /\ op.tgt = op.chain[op.i]
           ELSE TD[mem.block] >= TD[op.start]
        /\ op.pc = "known" /\ op.i <= Len(op.chain) => TD[op.chain[op.i]] >= TD[mem.block]

\* A block's chain, read upwards from any height, is a line.
LEMMA AncestorsInLine ==
    ASSUME NEW b \in Block, NEW base \in Nat, base <= Number[b]
    PROVE  Line([k \in 1..(Number[b] - base) |-> AncestorAt(b, base + k)])
<1> DEFINE n == Number[b] - base
           c == [k \in 1..n |-> AncestorAt(b, base + k)]
<1>1. Number[b] \in Nat /\ n \in Nat
  BY TreeAssumption
<1>2. Len(c) = n
  <2> HIDE DEF n
  <2> QED BY <1>1
<1>3. ASSUME NEW k \in 2..n PROVE Parent[c[k]] = c[k - 1]
  <2>1. /\ k \in 1..n /\ k - 1 \in 1..n /\ base + k \in Nat /\ base + k # 0
        /\ base + (k - 1) \in Nat /\ base + k <= Number[b] /\ base + (k - 1) <= Number[b]
        /\ base + k - 1 = base + (k - 1)
    BY <1>1
  <2> DEFINE hi == AncestorAt(b, base + k)
             lo == AncestorAt(b, base + (k - 1))
  <2>2. hi \in Ancestors[b] /\ Number[hi] = base + k
    BY <2>1, AncestorAtOK
  <2>3. lo \in Ancestors[b] /\ Number[lo] = base + (k - 1)
    BY <2>1, AncestorAtOK
  <2>4. c[k] = hi /\ c[k - 1] = lo
    BY <2>1
  <2> HIDE DEF hi, lo, c, n
  <2>5. hi \in Block \ {Genesis}
    BY <2>1, <2>2, AncestorsOK, TreeAssumption
  <2>6. Number[Parent[hi]] \in Nat /\ Number[hi] = Number[Parent[hi]] + 1
    BY <2>5, TreeAssumption
  <2>7. Parent[hi] \in Ancestors[b]
    BY <2>2, <2>5, AncestorsOK DEF ParentClosed
  <2>8. Number[Parent[hi]] = base + (k - 1)
    BY <2>1, <2>2, <2>6
  <2> QED BY <2>3, <2>4, <2>7, <2>8, OneBlockPerHeight
<1> HIDE DEF c
<1> QED BY <1>2, <1>3 DEF Line, c

\* The import goes on with the same segment and the same head.
LEMMA PlainTD ==
    ASSUME TDInv, op.pc \in ImportPCs, ~Switching, mem' = mem,
           op'.chain = op.chain, op'.start = op.start,
           op'.pc \in {"first", "exec", "state", "side"},
           op'.pc \in {"exec", "state"} => op'.ret # "known"
    PROVE  TDInv'
BY DEF TDInv, Switching, Line

\* What an import does when it ends.
EndsHeavy == op'.pc = "idle" => TD[mem'.block] >= TD[op.start]

\* The head that the fork choice, or a known segment, has chosen.
LEMMA SwitchTD ==
    ASSUME IndInv, TDInv, op \in ImportOps, up, NEW o \in ImportOps, NEW b \in Block \ {Genesis},
           op' = StartSetHead(o, b), o.chain = op.chain, o.i = op.i,
           TD[b] >= TD[o.start], o.ret = "known" => o.i <= Len(o.chain) /\ b = o.chain[o.i]
    PROVE  TDInv' /\ EndsHeavy
<1>1. op'.pc \in {"reorg", "head"} /\ op'.tgt = b
  BY StartSetHeadTodo
<1>2. op'.chain = o.chain /\ op'.start = o.start /\ op'.i = o.i /\ op'.ret = o.ret
  BY DEF StartSetHead, ImportOps
<1>3. Line(op.chain)
  BY DEF TDInv, ImportOps
<1> QED BY <1>1, <1>2, <1>3 DEF TDInv, Switching, Line, EndsHeavy

LEMMA StoreMarkersTD ==
    ASSUME IndInv, TDInv, StoreMarkers
    PROVE  TDInv' /\ EndsHeavy
<1>1. op.pc \in {"reorg", "mark"} /\ mem'.block = op.dirty
  BY DEF StoreMarkers
<1>2. up /\ op \in ImportOps /\ op.pc \in ImportPCs
  BY <1>1, ImportShape DEF ImportPCs
<1>3. /\ Line(op.chain) /\ TD[op.tgt] >= TD[op.start]
      /\ op.ret = "known" => op.i <= Len(op.chain) /\ op.tgt = op.chain[op.i]
  BY <1>1, <1>2 DEF TDInv, Switching
<1>4. CASE op.pc = "reorg"
  <2>1. op' = [op EXCEPT !.dirty = None]
    BY <1>4 DEF StoreMarkers
  <2>2. op'.pc = "reorg" /\ op'.chain = op.chain /\ op'.start = op.start /\ op'.tgt = op.tgt
        /\ op'.ret = op.ret /\ op'.i = op.i
    BY <1>2, <1>4, <2>1 DEF ImportOps
  <2> QED BY <1>3, <2>2 DEF TDInv, EndsHeavy, Switching, Line
<1>5. CASE op.pc = "mark"
  <2> DEFINE o == [op EXCEPT !.dirty = None, !.old = None]
             k == op.i + 1
  <2>1. op' = Continue(o)
    BY <1>5 DEF StoreMarkers
  <2>2. o \in ImportOps /\ o.chain = op.chain /\ o.start = op.start /\ o.i = op.i /\ o.ret = op.ret
    BY <1>2 DEF ImportOps
  <2> HIDE DEF o
  <2>3. mem'.block = op.tgt
    BY <1>1, <1>5 DEF IndInv, ImportOK
  <2>4. CASE op.ret = "done"
    <3>1. op' = Idle
      BY <2>1, <2>2, <2>4 DEF Continue
    <3> QED BY <1>3, <2>3, <3>1 DEF TDInv, EndsHeavy, Idle, ImportPCs
  <2>5. CASE op.ret = "known"
    <3>1. op' = [o EXCEPT !.pc = "known", !.i = k]
      BY <2>1, <2>2, <2>5 DEF Continue
    <3>2. op'.pc = "known" /\ op'.chain = op.chain /\ op'.start = op.start /\ op'.i = k
      BY <2>2, <3>1 DEF ImportOps
    <3>3. ASSUME k <= Len(op.chain) PROVE TD[op.chain[k]] >= TD[op.tgt]
      <4>1. /\ op.i \in Nat \ {0} /\ Len(op.chain) \in Nat /\ op.chain \in Seq(Block \ {Genesis})
        BY <1>2 DEF ImportOps
      <4>2. k \in 2..Len(op.chain) /\ k \in 1..Len(op.chain) /\ k - 1 = op.i
        BY <3>3, <4>1
      <4>3. Parent[op.chain[k]] = op.tgt
        BY <1>3, <2>5, <4>2 DEF Line
      <4>4. op.chain[k] \in Block \ {Genesis}
        BY <4>1, <4>2
      <4>5. TD[op.chain[k]] > TD[op.tgt] /\ TD[op.chain[k]] \in Nat /\ TD[op.tgt] \in Nat
        BY <4>3, <4>4, TreeAssumption
      <4> QED BY <4>5
    <3> HIDE DEF k
    <3> QED BY <1>3, <2>3, <3>2, <3>3 DEF TDInv, EndsHeavy, Switching, Line
  <2>6. CASE op.ret \notin {"done", "known"}
    <3>1. op' = [o EXCEPT !.pc = "exec", !.i = k, !.ret = "exec"]
      BY <2>1, <2>2, <2>6 DEF Continue
    <3> HIDE DEF k
    <3>2. op'.pc = "exec" /\ op'.chain = op.chain /\ op'.start = op.start /\ op'.ret = "exec"
      BY <2>2, <3>1 DEF ImportOps
    <3> QED BY <1>3, <2>3, <3>2 DEF TDInv, EndsHeavy, Switching, Line
  <2> QED BY <2>4, <2>5, <2>6
<1> QED BY <1>1, <1>4, <1>5

LEMMA ImportMoveTD ==
    ASSUME IndInv, TDInv, ImportMove
    PROVE  TDInv' /\ EndsHeavy
<1>1. up /\ op \in ImportOps
  BY ImportMoves
<1>2. stored \subseteq Block /\ mem.block \in Block /\ op.start \in Block /\ op.pc \in ImportPCs
  BY <1>1 DEF IndInv, TypeOK, Markers, ImportOps
<1>3. TD[mem.block] \in Nat /\ TD[op.start] \in Nat
  BY <1>2, TreeAssumption
<1>4. ~Switching => TD[mem.block] >= TD[op.start]
  BY <1>2 DEF TDInv
<1>5. CASE TrimKnown
  <2> DEFINE b == op.chain[op.i]
             k == op.i + 1
  <2>1. op.pc = "first" /\ op.i <= Len(op.chain) /\ mem' = mem
    BY <1>5 DEF TrimKnown, Importing, OnlyOp
  <2>2. b \in Block
    BY <1>1, <2>1, ChainBlockOK
  <2>3. \E reorg \in ReorgNeeded(mem.block, b) :
            \/ reorg /\ op' = [op EXCEPT !.pc = "known"]
            \/ op' = [op EXCEPT !.i = k]
    BY <1>5 DEF TrimKnown
  <2>4. \/ TD[b] >= TD[mem.block] /\ op' = [op EXCEPT !.pc = "known"]
        \/ op' = [op EXCEPT !.i = k]
    BY <1>2, <2>2, <2>3, ForkChoice
  <2>5. CASE op' = [op EXCEPT !.i = k]
    <3> HIDE DEF k
    <3>1. op'.pc = "first" /\ op'.chain = op.chain /\ op'.start = op.start
      BY <1>1, <2>1, <2>5 DEF ImportOps
    <3> QED BY <1>2, <2>1, <3>1, PlainTD DEF EndsHeavy, Switching
  <2>6. CASE TD[b] >= TD[mem.block] /\ op' = [op EXCEPT !.pc = "known"]
    <3>1. op'.pc = "known" /\ op'.chain = op.chain /\ op'.start = op.start /\ op'.i = op.i
      BY <1>1, <2>1, <2>6 DEF ImportOps
    <3> QED BY <1>2, <1>4, <2>1, <2>6, <3>1 DEF TDInv, EndsHeavy, Switching, Line
  <2> QED BY <2>4, <2>5, <2>6
<1>6. CASE WriteKnown
  <2> DEFINE b == op.chain[op.i]
             o == IF op.pc = "known" THEN [op EXCEPT !.ret = "known"]
                  ELSE [op EXCEPT !.ret = "skip", !.start = b]
  <2>1. /\ op.pc \in {"known", "exec"} /\ op.i <= Len(op.chain)
        /\ op' = StartSetHead(o, b)
    BY <1>6 DEF WriteKnown, Importing
  <2>2. b \in Block \ {Genesis} /\ TD[b] \in Nat
    <3>1. b \in Block \ {Genesis}
      BY <1>1, <2>1, ChainBlockOK
    <3> QED BY <3>1, TreeAssumption
  <2>3. /\ o \in ImportOps /\ o.chain = op.chain /\ o.i = op.i
        /\ o.start = IF op.pc = "known" THEN op.start ELSE b
    <3> HIDE DEF b
    <3> QED BY <1>1, <2>2 DEF ImportOps
  <2>4. TD[b] >= TD[o.start]
    <3>1. CASE op.pc = "known"
      <4>1. TD[b] >= TD[mem.block] /\ TD[mem.block] >= TD[op.start]
        BY <1>2, <1>4, <2>1, <3>1 DEF TDInv, Switching
      <4>2. o.start = op.start
        BY <2>3, <3>1
      <4> HIDE DEF o, b
      <4> QED BY <1>3, <2>2, <4>1, <4>2
    <3>2. CASE op.pc # "known"
      <4>1. o.start = b
        BY <2>3, <3>2
      <4> HIDE DEF o, b
      <4> QED BY <2>2, <4>1
    <3> QED BY <3>1, <3>2
  <2>5. o.i <= Len(o.chain) /\ b = o.chain[o.i]
    BY <2>1, <2>3
  <2> HIDE DEF o, b
  <2> QED BY <1>1, <2>1, <2>2, <2>3, <2>4, <2>5, SwitchTD
<1>7. CASE Postpone \/ Reject \/ LeaveLoop
  <2>1. op.pc \in {"first", "known", "exec"} /\ op' = Idle /\ mem' = mem
    BY <1>7 DEF Postpone, Reject, LeaveLoop, Importing
  <2> QED BY <1>4, <2>1 DEF TDInv, EndsHeavy, Idle, Switching, ImportPCs
<1>8. CASE EnterLoop \/ EnterSideChain
  <2> DEFINE b == op.chain[op.i]
  <2>1. /\ op.pc \in {"first", "known"} /\ mem' = mem
        /\ \/ op' = [op EXCEPT !.pc = "exec", !.ret = "exec"]
           \/ op' = [op EXCEPT !.pc = "side", !.tgt = b]
    BY <1>8 DEF EnterLoop, EnterSideChain, Importing, OnlyOp
  <2> HIDE DEF b
  <2>2. /\ op'.pc \in {"exec", "side"} /\ op'.chain = op.chain /\ op'.start = op.start
        /\ op'.pc = "exec" => op'.ret # "known"
    BY <1>1, <2>1 DEF ImportOps
  <2> QED BY <1>2, <2>1, <2>2, PlainTD DEF EndsHeavy, Switching
<1>9. CASE Execute
  <2> DEFINE b == op.chain[op.i]
  <2>1. op.pc = "exec" /\ mem' = mem /\ (op' = Idle \/ op' = [op EXCEPT !.pc = "state", !.tgt = b])
    BY <1>9 DEF Execute, Importing
  <2> HIDE DEF b
  <2>2. CASE op' = Idle
    BY <1>4, <2>1, <2>2 DEF TDInv, EndsHeavy, Idle, Switching, ImportPCs
  <2>3. CASE op' = [op EXCEPT !.pc = "state", !.tgt = b]
    <3>1. op'.pc = "state" /\ op'.chain = op.chain /\ op'.start = op.start /\ op'.ret = op.ret
      BY <1>1, <2>3 DEF ImportOps
    <3>2. op.ret # "known"
      BY <1>2, <2>1 DEF TDInv
    <3> QED BY <1>2, <2>1, <3>1, <3>2, PlainTD DEF EndsHeavy, Switching
  <2> QED BY <2>1, <2>2, <2>3
<1>10. CASE DecideHead
  <2>1. op.pc = "state" /\ mem' = mem
    BY <1>10 DEF DecideHead
  <2>2. op.tgt \in Block \ {Genesis} /\ op.ret # "known"
    BY <1>2, <2>1 DEF IndInv, ImportOK, TDInv
  <2>3. \E reorg \in ReorgNeeded(mem.block, op.tgt) :
            \/ reorg /\ op' = StartSetHead(op, op.tgt)
            \/ op' = Continue(op)
    BY <1>10 DEF DecideHead
  <2>4. \/ TD[op.tgt] >= TD[mem.block] /\ op' = StartSetHead(op, op.tgt)
        \/ op' = Continue(op)
    BY <1>2, <2>2, <2>3, ForkChoice
  <2>5. CASE TD[op.tgt] >= TD[mem.block] /\ op' = StartSetHead(op, op.tgt)
    <3>1. TD[op.tgt] \in Nat
      BY <2>2, TreeAssumption
    <3>2. TD[op.tgt] >= TD[op.start]
      BY <1>3, <1>4, <2>1, <2>5, <3>1 DEF Switching
    <3> QED BY <1>1, <2>2, <2>5, <3>2, SwitchTD
  <2>6. CASE op' = Continue(op)
    <3>1. CASE op.ret = "done"
      <4>1. op' = Idle
        BY <2>6, <3>1 DEF Continue
      <4> QED BY <1>4, <2>1, <4>1 DEF TDInv, EndsHeavy, Idle, Switching, ImportPCs
    <3>2. CASE op.ret # "done"
      <4> DEFINE k == op.i + 1
      <4>1. op' = [op EXCEPT !.pc = "exec", !.i = k, !.ret = "exec"]
        BY <2>2, <2>6, <3>2 DEF Continue
      <4> HIDE DEF k
      <4>2. op'.pc = "exec" /\ op'.chain = op.chain /\ op'.start = op.start /\ op'.ret = "exec"
        BY <1>1, <4>1 DEF ImportOps
      <4> QED BY <1>2, <2>1, <4>2, PlainTD DEF EndsHeavy, Switching
    <3> QED BY <3>1, <3>2
  <2> QED BY <2>4, <2>5, <2>6
<1>11. CASE StoreMarkers
  BY <1>11, StoreMarkersTD
<1>12. CASE SideBlock
  <2> DEFINE b == op.chain[op.i]
             k == op.i + 1
  <2>1. /\ op.pc = "side" /\ mem' = mem
        /\ op' = Idle \/ op' = [op EXCEPT !.i = k] \/ op' = [op EXCEPT !.i = k, !.tgt = b]
    BY <1>12 DEF SideBlock, Importing
  <2> HIDE DEF b, k
  <2>2. CASE op' = Idle
    BY <1>4, <2>1, <2>2 DEF TDInv, EndsHeavy, Idle, Switching, ImportPCs
  <2>3. CASE op' # Idle
    <3>1. op'.pc = "side" /\ op'.chain = op.chain /\ op'.start = op.start
      BY <1>1, <2>1, <2>3 DEF ImportOps
    <3> QED BY <1>2, <2>1, <3>1, PlainTD DEF EndsHeavy, Switching
  <2> QED BY <2>2, <2>3
<1>13. CASE SideChainEnd
  <2> DEFINE last == op.chain[op.i - 1]
             base == Number[NearestWithState(last)]
             missing == [k \in 1..(Number[last] - base) |-> AncestorAt(last, base + k)]
  <2>1. op.pc = "side" /\ mem' = mem /\ ~(op.i <= Len(op.chain) /\ NextVerdict = "pruned")
    BY <1>13 DEF SideChainEnd, OnlyOp
  <2>2. op' = Idle \/ op' = InsertOp(missing, op.start)
    BY <1>13 DEF SideChainEnd
  <2>3. last \in Block
    <3>1. op.i \in Nat \ {0} /\ Len(op.chain) \in Nat /\ op.chain \in Seq(Block \ {Genesis})
      BY <1>1 DEF ImportOps
    <3>2. op.i <= Len(op.chain) + 1 /\ op.i # 1
      BY <2>1 DEF IndInv, ImportOK
    <3>3. op.i - 1 \in 1..Len(op.chain)
      BY <3>1, <3>2
    <3> QED BY <3>1, <3>3
  <2> HIDE DEF last
  <2>4. base \in Nat /\ base <= Number[last]
    BY <2>3, NearestOK, AncestorsOK, TreeAssumption DEF IndInv, ControlOK
  <2> HIDE DEF base
  <2>5. Line(missing)
    BY <2>3, <2>4, AncestorsInLine
  <2> HIDE DEF missing
  <2>6. CASE op' = Idle
    BY <1>4, <2>1, <2>6 DEF TDInv, EndsHeavy, Idle, Switching, ImportPCs
  <2>7. CASE op' = InsertOp(missing, op.start)
    <3>1. op'.pc = "first" /\ op'.chain = missing /\ op'.start = op.start
      BY <2>7 DEF InsertOp
    <3>2. Line(op'.chain)
      BY <2>5, <3>1
    <3>3. TD[mem'.block] >= TD[op'.start]
      BY <1>4, <2>1, <3>1 DEF Switching
    <3> QED BY <3>1, <3>2, <3>3 DEF TDInv, EndsHeavy, Switching, Line
  <2> QED BY <2>2, <2>6, <2>7
<1> QED BY <1>5, <1>6, <1>7, <1>8, <1>9, <1>10, <1>11, <1>12, <1>13 DEF ImportMove

LEMMA TDStep ==
    ASSUME IndInv, TDInv, [Next]_vars
    PROVE  /\ TDInv'
           /\ op.pc \in ImportPCs /\ up' => EndsHeavy
<1>1. CASE ImportMove
  BY <1>1, ImportMoveTD
<1>2. CASE ReorgWrite \/ ReorgIndexes \/ WriteHead
  <2> DEFINE b == Head(op.todo)
             t == Tail(op.todo)
  <2>1. /\ op.pc \in {"reorg", "head"}
        /\ \/ op' = [op EXCEPT !.todo = t, !.dirty = b]
           \/ op' = [op EXCEPT !.pc = "head"]
           \/ op' = [op EXCEPT !.pc = "mark", !.dirty = op.tgt]
    BY <1>2 DEF ReorgWrite, ReorgIndexes, WriteHead
  <2> HIDE DEF b, t
  <2>2. op \in ImportOps /\ op.pc \in ImportPCs
    BY <2>1, ImportShape DEF ImportPCs
  <2>3. op'.pc \in {"reorg", "head", "mark"} /\ op'.tgt = op.tgt /\ op'.chain = op.chain
        /\ op'.start = op.start /\ op'.ret = op.ret /\ op'.i = op.i
    BY <2>1, <2>2 DEF ImportOps
  <2> QED BY <2>1, <2>2, <2>3 DEF TDInv, Switching, Line, EndsHeavy
<1>3. CASE RewindHeader \/ RewindFlush
  <2>1. op.pc = "rewind"
    BY <1>3 DEF RewindHeader, RewindFlush
  <2>2. op \in RewindOps
    BY <2>1, RewindShape
  <2>3. op'.pc \in {"rewind", "idle"}
    BY <1>3, <2>1, <2>2 DEF RewindHeader, RewindFlush, RewindOps, Idle
  <2> QED BY <2>1, <2>3 DEF TDInv, ImportPCs
<1>4. CASE \/ \E chain \in Segments : InsertChain(chain)
           \/ ProcNext
           \/ \E b \in Block \ {Genesis} : WriteMined(b)
  <2>1. op = Idle /\ mem' = mem /\ mem.block \in Block
    BY <1>4 DEF InsertChain, ProcNext, WriteMined, OnlyOp, IndInv, TypeOK, Markers
  <2>2. TD[mem.block] >= TD[mem.block]
    BY <2>1, TreeAssumption
  <2>3. ASSUME NEW chain \in Segments, InsertChain(chain) PROVE TDInv'
    <3>1. op'.pc = "first" /\ op'.chain = chain /\ op'.start = mem.block
      BY <2>3 DEF InsertChain, InsertOp
    <3>2. Line(chain)
      BY BoundAssumption DEF Segments, Line
    <3> QED BY <2>1, <2>2, <3>1, <3>2 DEF TDInv, Switching, Line
  <2>4. ASSUME ProcNext PROVE TDInv'
    <3>1. CASE interrupt
      BY <2>4, <3>1 DEF ProcNext, TDInv, ImportPCs, Idle
    <3>2. CASE ~interrupt
      <4> DEFINE c == <<Head(procQueue)>>
      <4>1. op'.pc = "first" /\ op'.chain = c /\ op'.start = mem.block
        BY <2>4, <3>2 DEF ProcNext, InsertOp
      <4>2. Line(c)
        BY DEF Line
      <4> HIDE DEF c
      <4> QED BY <2>1, <2>2, <4>1, <4>2 DEF TDInv, Switching, Line
    <3> QED BY <3>1, <3>2
  <2>5. ASSUME NEW b \in Block \ {Genesis}, WriteMined(b) PROVE TDInv'
    <3>1. op'.pc = "state" /\ op'.chain = <<b>> /\ op'.start = mem.block /\ op'.ret = "done"
      BY <2>5 DEF WriteMined, InsertOp
    <3>2. Line(<<b>>)
      BY DEF Line
    <3> QED BY <2>1, <2>2, <3>1, <3>2 DEF TDInv, Switching, Line
  <2> QED BY <1>4, <2>1, <2>3, <2>4, <2>5 DEF ImportPCs, Idle
<1>5. CASE \E n \in Numbers : SetHead(n)
  BY <1>5 DEF SetHead, TDInv, ImportPCs, Idle
<1>6. CASE Stop \/ Crash
  BY <1>6 DEF Stop, Crash, GoDown, TDInv, ImportPCs, Idle
<1>7. CASE Restart
  BY <1>7 DEF Restart, IndInv, ControlOK, TDInv, ImportPCs, Idle
<1>8. CASE StopInsert \/ ProcFutureBlocks \/ Tick \/ UNCHANGED vars
  <2>1. UNCHANGED <<op, mem>>
    BY <1>8 DEF StopInsert, ProcFutureBlocks, Tick, vars
  <2> QED BY <2>1 DEF TDInv, Switching, Line, EndsHeavy, ImportPCs
<1> QED BY <1>1, <1>2, <1>3, <1>4, <1>5, <1>6, <1>7, <1>8, Zenon DEF Next, OpStep, ImportMove

\* An import ends on no lighter head than it started from, whatever the heads in
\* between, or on none lighter than the last known block that its main loop met:
\* one whose state is still there, above one whose state had been dereferenced,
\* is made the head without asking the fork choice.
THEOREM ImportsGetHeavier == Spec => ImportKeepsTotalDifficulty
<1> DEFINE Heavier == op.pc \notin {"idle", "rewind"} /\ op'.pc = "idle" /\ up' =>
                          TD[mem'.block] >= TD[op.start]
<1>1. Init => TDInv
  BY DEF Init, TDInv, ImportPCs, Idle
<1>2. IndInv /\ TDInv /\ [Next]_vars => TDInv'
  BY TDStep
<1>3. IndInv /\ TDInv /\ [Next]_vars => Heavier
  <2> SUFFICES ASSUME IndInv, TDInv, [Next]_vars,
                      op.pc \notin {"idle", "rewind"}, up'
               PROVE  EndsHeavy
    BY DEF EndsHeavy
  <2>1. op.pc \in ImportPCs
    BY DEF IndInv, ControlOK, ImportOps, RewindOps, Idle
  <2> QED BY <2>1, TDStep
<1>4. Spec => [][Heavier]_vars
  <2> HIDE DEF Heavier
  <2> QED BY <1>1, <1>2, <1>3, ChainInvariant, PTL DEF Spec
<1> QED BY <1>4 DEF ImportKeepsTotalDifficulty

-----------------------------------------------------------------------------
(* Transaction lookups *)

\* A valid chain holds a transaction at most once: the sender's nonce has moved
\* on.
TxsOnce ==
    \A b \in Block : ValidChain(b) =>
        \A a, c \in Ancestors[b] : a # c => Txs[a] \cap Txs[c] = {}

TxInv ==
    /\ CanonicalTxsIndexed
    /\ op.pc = "reorg" =>
          /\ op.old \in Block /\ ValidChain(op.old)
          /\ db.block = op.old \/ db.block \in Ancestors[op.tgt]
          /\ Number[db.block] >= Number[op.tgt] - 1 - Len(op.todo)
    /\ op.pc = "head" => Number[db.block] >= Number[op.tgt] - 1

\* The lookups are right up to height n of the canonical chain.
IndexedUpTo(n) == \A k \in 0..n : canon[k] # None => \A t \in Txs[canon[k]] : txIndex[t] = k

\* A branch, its last block excluded, starts no higher than the old head.
LEMMA BranchLength ==
    ASSUME NEW a \in Block, NEW b \in Block
    PROVE  LET path == Branch(a, b)
               todo == SubSeq(path, 1, Len(path) - 1)
           IN  Number[a] >= Number[b] - 1 - Len(todo)
<1> DEFINE c == CommonBlock(a, b)
           base == Number[c]
           path == Branch(a, b)
           todo == SubSeq(path, 1, Len(path) - 1)
           n == Number[b]
           l == Len(todo)
<1>1. c \in Ancestors[a] /\ c \in Ancestors[b]
  BY CommonBlockOK
<1>2. base \in Nat /\ base <= n /\ base <= Number[a] /\ n \in Nat /\ Number[a] \in Nat
  BY <1>1, AncestorsOK, TreeAssumption
<1>3. path = [k \in 1..(n - base) |-> AncestorAt(b, base + k)]
  BY DEF Branch
<1> HIDE DEF c, base, path
<1>4. Len(path) = n - base
  BY <1>2, <1>3
<1>5. path \in Seq(Ancestors[b])
  BY BranchOK DEF path
<1>6. l = IF Len(path) = 0 THEN 0 ELSE Len(path) - 1
  BY <1>5, AllButLast
<1>7. Number[a] >= n - 1 - l
  <2> DEFINE m == Number[a]
  <2>1. m \in Nat /\ base <= m
    BY <1>2
  <2>2. m >= n - 1 - l
    <3> HIDE DEF l, n, m
    <3> QED BY <1>2, <1>4, <1>6, <2>1
  <2> QED BY <2>2
<1> QED BY <1>7 DEF path

\* The batch of writeHeadBlock indexes the transactions of the new head and
\* leaves those below it alone.
LEMMA HeadBatchTxs ==
    ASSUME TxsOnce, IndInv, NEW b \in Block, ValidChain(b), HeadBatch(b),
           CanonUpTo(b, Number[b] - 1), IndexedUpTo(Number[b] - 1)
    PROVE  CanonicalTxsIndexed'
<1>1. (\A n \in 0..Number[b] : canon'[n] = AncestorAt(b, n)) /\ db'.block = b
  BY HeadBatchCanon
<1>2. Number[b] \in Nat /\ b \in Ancestors[b] /\ AncestorAt(b, Number[b]) = b
      /\ Txs \in [Block -> SUBSET Tx] /\ None \notin Block
  BY AncestorsOK, ChainBelow, TreeAssumption
<1>3. ASSUME NEW n \in 0..Number[b], NEW t \in Txs[AncestorAt(b, n)] PROVE txIndex'[t] = n
  <2> DEFINE a == AncestorAt(b, n)
  <2>1. n \in Nat /\ n <= Number[b]
    BY <1>2
  <2>2. a \in Ancestors[b] /\ a \in Block /\ Number[a] = n
    BY <2>1, AncestorAtOK, AncestorsOK
  <2>3. t \in Tx
    BY <1>2, <1>3, <2>2
  <2>4. CASE t \in Txs[b]
    <3>1. a = b
      BY <1>2, <1>3, <2>2, <2>4 DEF TxsOnce
    <3> QED BY <2>2, <2>3, <2>4, <3>1 DEF HeadBatch
  <2>5. CASE t \notin Txs[b]
    <3>1. a # b
      BY <1>3, <2>5
    <3>2. n # Number[b]
      BY <1>2, <3>1
    <3>3. n \in 0..(Number[b] - 1)
      BY <1>2, <3>2
    <3>4. canon[n] = a
      BY <3>3 DEF CanonUpTo
    <3>5. txIndex[t] = n
      BY <1>2, <1>3, <2>2, <3>3, <3>4 DEF IndexedUpTo
    <3> QED BY <2>3, <2>5, <3>5 DEF HeadBatch
  <2> QED BY <2>4, <2>5
<1> QED BY <1>1, <1>3 DEF CanonicalTxsIndexed

LEMMA DeletedTxsOK ==
    ASSUME NEW old, NEW new, NEW t \in DeletedTxs(old, new)
    PROVE  /\ \E d \in Ancestors[old] \ Ancestors[new] : t \in Txs[d]
           /\ \A b \in (Ancestors[new] \ Ancestors[old]) \ {new} : t \notin Txs[b]
<1> DEFINE dropped == Ancestors[old] \ Ancestors[new]
           added == (Ancestors[new] \ Ancestors[old]) \ {new}
<1>1. t \in UNION {Txs[b] : b \in dropped} /\ t \notin UNION {Txs[b] : b \in added}
  BY DEF DeletedTxs
<1> HIDE DEF dropped, added
<1>2. (\E d \in dropped : t \in Txs[d]) /\ \A b \in added : t \notin Txs[b]
  BY <1>1
<1> QED BY <1>2 DEF dropped, added

\* The lookups deleted at the end of a reorganisation are those of no block that
\* stays canonical.
LEMMA ReorgIndexesTxs ==
    ASSUME TxsOnce, IndInv, CanonInv, GoodInv, TxInv, ReorgIndexes
    PROVE  TxInv'
<1>1. op.pc = "reorg" /\ op.todo = << >> /\ op' = [op EXCEPT !.pc = "head"] /\ db' = db
  BY DEF ReorgIndexes
<1>2. op \in ImportOps /\ op.tgt \in Block /\ db.block \in Block /\ op.old \in Block
      /\ ValidChain(op.old)
  BY <1>1, ImportShape DEF ImportPCs, IndInv, ImportOK, TypeOK, Markers, TxInv
<1>3. /\ Number[op.tgt] \in Nat /\ Number[db.block] \in Nat /\ Numbers \subseteq Nat
      /\ canon \in [Numbers -> Block \cup {None}] /\ txIndex \in [Tx -> Numbers \cup {-1}]
      /\ Txs \in [Block -> SUBSET Tx] /\ None \notin Block
  BY <1>2, TreeAssumption DEF IndInv, TypeOK, Numbers
<1>4. op'.pc = "head" /\ op'.tgt = op.tgt
  BY <1>1, <1>2 DEF ImportOps
<1>5. Number[db.block] >= Number[op.tgt] - 1 /\ CanonUpTo(op.tgt, Number[op.tgt] - 1)
  <2>1. Number[op.tgt] - 1 - Len(op.todo) = Number[op.tgt] - 1
    BY <1>1, <1>3
  <2>2. Number[db.block] >= Number[op.tgt] - 1 - Len(op.todo)
    BY <1>1 DEF TxInv
  <2>3. CanonUpTo(op.tgt, Number[op.tgt] - 1 - Len(op.todo))
    BY <1>1 DEF CanonInv, ReorgReady
  <2> QED BY <2>1, <2>2, <2>3
<1>6. CanonUpTo(db.block, Number[db.block])
  BY <1>1 DEF CanonInv, CanonicalChain, CanonUpTo
<1> DEFINE gone == DeletedTxs(op.old, op.tgt)
           number == IF op.tgt \in Ancestors[op.old] THEN Number[op.tgt] ELSE Number[op.tgt] - 1
<1>7. /\ txIndex' = [t \in Tx |-> IF t \in gone THEN -1 ELSE txIndex[t]]
      /\ canon' = [n \in Numbers |-> IF n \in MarkedFrom(number + 1) THEN None ELSE canon[n]]
  BY <1>3 DEF ReorgIndexes
<1>8. ASSUME NEW n \in 0..Number[db.block], canon'[n] # None, NEW t \in Txs[canon'[n]]
      PROVE  txIndex'[t] = n
  <2>1. n \in Nat /\ n <= Number[db.block] /\ n \in Numbers
    BY <1>2, <1>3, HeightsBelow
  <2>2. canon'[n] = canon[n] /\ n \notin MarkedFrom(number + 1)
    BY <1>7, <1>8, <2>1
  <2>3. canon[n] \in Block /\ t \in Tx /\ txIndex[t] = n
    BY <1>1, <1>3, <1>8, <2>1, <2>2 DEF TxInv, CanonicalTxsIndexed
  <2>4. number \in Int /\ number + 1 >= 0 /\ number <= Number[op.tgt]
    BY <1>3
  <2>5. n <= number
    <3> SUFFICES ASSUME ~(n <= number) PROVE FALSE
      OBVIOUS
    <3> HIDE DEF number
    <3>1. ASSUME NEW k \in (number + 1)..n PROVE canon[k] # None
      <4>1. k \in Nat /\ k <= Number[db.block] /\ k \in 0..Number[db.block]
        BY <1>3, <2>1, <2>4
      <4>2. canon[k] = AncestorAt(db.block, k) /\ AncestorAt(db.block, k) \in Block
        BY <1>2, <1>6, <4>1, AncestorAtOK, AncestorsOK DEF CanonUpTo
      <4> QED BY <1>3, <4>2
    <3>2. n >= number + 1
      BY <2>1, <2>4
    <3> QED BY <1>3, <2>1, <2>2, <3>1, <3>2 DEF MarkedFrom
  <2>6. canon[n] \in Ancestors[op.tgt] /\ (canon[n] = op.tgt => op.tgt \in Ancestors[op.old])
    <3>1. CASE n = Number[op.tgt]
      <4>1. op.tgt \in Ancestors[op.old]
        BY <1>3, <2>5, <3>1
      <4>2. canon[n] = AncestorAt(db.block, n) /\ canon[n] \in Ancestors[db.block]
            /\ Number[canon[n]] = n
        BY <1>2, <1>6, <2>1, AncestorAtOK DEF CanonUpTo
      <4>3. CASE db.block = op.old
        BY <1>2, <3>1, <4>1, <4>2, <4>3, OneBlockPerHeight, AncestorsOK
      <4>4. CASE db.block \in Ancestors[op.tgt]
        <5>1. canon[n] \in Ancestors[op.tgt]
          BY <1>2, <4>2, <4>4, ChainBelow
        <5> QED BY <4>1, <5>1
      <4> QED BY <1>1, <4>3, <4>4 DEF TxInv
    <3>2. CASE n # Number[op.tgt]
      <4>1. n \in 0..(Number[op.tgt] - 1) /\ n <= Number[op.tgt]
        BY <1>3, <2>1, <2>4, <2>5, <3>2
      <4>2. canon[n] = AncestorAt(op.tgt, n)
        BY <1>5, <4>1 DEF CanonUpTo
      <4>3. canon[n] \in Ancestors[op.tgt] /\ Number[canon[n]] = n
        BY <1>2, <2>1, <4>1, <4>2, AncestorAtOK
      <4> QED BY <3>2, <4>3
    <3> QED BY <3>1, <3>2
  <2>7. t \notin gone
    <3> SUFFICES ASSUME t \in gone PROVE FALSE
      OBVIOUS
    <3>1. PICK d \in Ancestors[op.old] \ Ancestors[op.tgt] : t \in Txs[d]
      BY DeletedTxsOK
    <3>2. CASE canon[n] \in Ancestors[op.old]
      <4>1. canon[n] # d
        BY <2>6, <3>1
      <4>2. Txs[canon[n]] \cap Txs[d] = {}
        BY <1>2, <3>1, <3>2, <4>1 DEF TxsOnce
      <4> QED BY <1>8, <2>2, <3>1, <4>2
    <3>3. CASE canon[n] \notin Ancestors[op.old]
      <4>1. canon[n] \in (Ancestors[op.tgt] \ Ancestors[op.old]) \ {op.tgt}
        BY <2>6, <3>3
      <4>2. t \in Txs[canon[n]]
        BY <1>8, <2>2
      <4> QED BY <4>1, <4>2, DeletedTxsOK
    <3> QED BY <3>2, <3>3
  <2> QED BY <1>7, <2>3, <2>7
<1>9. CanonicalTxsIndexed'
  BY <1>1, <1>8 DEF CanonicalTxsIndexed
<1> QED BY <1>1, <1>4, <1>5, <1>9 DEF TxInv

LEMMA TxStep ==
    ASSUME TxsOnce, IndInv, CanonInv, GoodInv, TxInv, [Next]_vars
    PROVE  TxInv'
<1>1. /\ db \in Markers(Block) /\ Genesis \in disk /\ (up => mem \in Markers(Block))
  BY DEF IndInv, TypeOK, ControlOK
<1>2. db.block \in Block /\ Number[db.block] \in Nat
  BY <1>1, TreeAssumption DEF Markers
<1>3. \A n \in 0..Number[db.block] : canon[n] # None => \A t \in Txs[canon[n]] : txIndex[t] = n
  BY DEF TxInv, CanonicalTxsIndexed
<1>4. ASSUME UNCHANGED <<canon, db, txIndex>> PROVE CanonicalTxsIndexed'
  BY <1>3, <1>4 DEF CanonicalTxsIndexed
<1>5. ASSUME UNCHANGED <<canon, txIndex>>, db'.block \in Block, Number[db'.block] <= Number[db.block]
      PROVE  CanonicalTxsIndexed'
  <2>1. \A n \in 0..Number[db'.block] : n \in 0..Number[db.block]
    BY <1>2, <1>5, TreeAssumption
  <2> QED BY <1>3, <1>5, <2>1 DEF CanonicalTxsIndexed
<1>6. CASE ImportMove
  <2>1. /\ up /\ op.pc # "head" /\ UNCHANGED <<canon, db>>
        /\ Leaves \/ GoesOn \/ \E b \in stored \ {Genesis} : Starts(b)
    BY <1>6, ImportMoves
  <2>2. UNCHANGED txIndex
    BY <1>6 DEF ImportMove, TrimKnown, WriteKnown, Postpone, Reject, EnterLoop, Execute, LeaveLoop,
       DecideHead, StoreMarkers, EnterSideChain, SideBlock, SideChainEnd, OnlyOp, dbVars
  <2>3. CanonicalTxsIndexed'
    BY <1>4, <2>1, <2>2
  <2>4. CASE Leaves
    BY <2>3, <2>4 DEF Leaves, OutsideReorg, TxInv
  <2>5. CASE GoesOn
    <3>1. op'.old = op.old
      <4>1. StoreMarkers
        BY <1>6, <2>5 DEF GoesOn, ImportMove, TrimKnown, WriteKnown, Postpone, Reject, EnterLoop,
           Execute, LeaveLoop, DecideHead, EnterSideChain, SideBlock, SideChainEnd, Importing
      <4>2. op \in ImportOps
        BY <1>6, ImportMoves
      <4> QED BY <2>5, <4>1, <4>2 DEF GoesOn, StoreMarkers, ImportOps
    <3> QED BY <2>1, <2>3, <2>5, <3>1 DEF GoesOn, TxInv
  <2>6. CASE \E b \in stored \ {Genesis} : Starts(b)
    <3>1. PICK b \in stored \ {Genesis} : Starts(b)
      BY <2>6
    <3>2. PICK o \in ImportOps : op' = StartSetHead(o, b)
      BY <3>1 DEF Starts
    <3>3. mem = db /\ b \in Block \ {Genesis} /\ mem.block \in Block /\ ValidChain(mem.block)
      BY <2>1, <3>1 DEF Starts, IndInv, TypeOK, Markers, GoodInv, OnlyValidBlocks
    <3>4. CASE Parent[b] = mem.block
      <4>1. op'.pc = "head" /\ op'.tgt = b
        BY <3>2, <3>4 DEF StartSetHead, ImportOps
      <4>2. Number[b] = Number[db.block] + 1
        BY <3>3, <3>4, TreeAssumption
      <4>3. Number[db.block] >= Number[b] - 1
        BY <1>2, <4>2
      <4> QED BY <2>1, <2>3, <4>1, <4>3 DEF TxInv
    <3>5. CASE Parent[b] # mem.block
      <4> DEFINE path == Branch(mem.block, b)
                 todo == SubSeq(path, 1, Len(path) - 1)
      <4>1. op'.pc = "reorg" /\ op'.tgt = b /\ op'.old = mem.block /\ op'.todo = todo
        BY <3>2, <3>5 DEF StartSetHead, ImportOps
      <4>2. Number[mem.block] >= Number[b] - 1 - Len(todo)
        BY <3>3, BranchLength
      <4> HIDE DEF todo
      <4> QED BY <2>1, <2>3, <3>3, <4>1, <4>2 DEF TxInv
    <3> QED BY <3>4, <3>5
  <2> QED BY <2>1, <2>4, <2>5, <2>6
<1>7. CASE ReorgWrite
  <2> DEFINE b == Head(op.todo)
             done == Number[op.tgt] - 1 - Len(op.todo)
  <2>1. op.pc = "reorg" /\ op.todo # << >> /\ HeadBatch(b)
    BY <1>7 DEF ReorgWrite
  <2>2. op \in ImportOps /\ op.tgt \in Block /\ op.todo \in Seq(Block)
    BY <2>1, ImportShape DEF ImportPCs, ImportOps, IndInv, ImportOK, TypeOK
  <2>3. /\ done + 1 \in Nat /\ Number[b] = done + 1 /\ b \in Ancestors[op.tgt] /\ b \in Block
        /\ CanonUpTo(b, Number[b] - 1)
    BY <1>7, ReorgWriteBase
  <2>4. ValidChain(b)
    BY <2>1, <2>2, <2>3, ValidBelow DEF GoodInv
  <2>5. IndexedUpTo(Number[b] - 1)
    <3>1. Number[db.block] >= done
      BY <2>1 DEF TxInv
    <3>2. done \in Int /\ Number[b] - 1 = done
      <4>1. done \in Nat
        BY <2>1 DEF CanonInv, ReorgReady
      <4> HIDE DEF done
      <4> QED BY <2>3, <4>1
    <3> HIDE DEF done
    <3>3. \A n \in 0..done : n \in 0..Number[db.block]
      BY <1>2, <3>1, <3>2
    <3> QED BY <1>3, <3>2, <3>3 DEF IndexedUpTo
  <2>6. CanonicalTxsIndexed'
    BY <2>1, <2>3, <2>4, <2>5, HeadBatchTxs
  <2>7. op'.pc = "reorg" /\ op'.tgt = op.tgt /\ op'.old = op.old /\ op'.todo = Tail(op.todo)
    BY <1>7, <2>1, <2>2 DEF ReorgWrite, ImportOps
  <2>8. db'.block = b
    BY <2>1 DEF HeadBatch
  <2>9. Number[b] >= Number[op.tgt] - 1 - Len(Tail(op.todo))
    <3>1. Len(op.todo) \in Nat /\ Len(Tail(op.todo)) = Len(op.todo) - 1 /\ Number[op.tgt] \in Nat
      BY <2>1, <2>2, FirstAndRest, TreeAssumption
    <3>2. Number[op.tgt] - 1 - Len(Tail(op.todo)) = done + 1
      BY <3>1
    <3> HIDE DEF done
    <3> QED BY <2>3, <3>2
  <2>10. op.old \in Block /\ ValidChain(op.old)
    BY <2>1 DEF TxInv
  <2> HIDE DEF b
  <2> QED BY <2>3, <2>6, <2>7, <2>8, <2>9, <2>10 DEF TxInv
<1>8. CASE ReorgIndexes
  BY <1>8, ReorgIndexesTxs
<1>9. CASE WriteHead
  <2>1. op.pc = "head" /\ HeadBatch(op.tgt)
    BY <1>9 DEF WriteHead
  <2>2. op \in ImportOps /\ op.tgt \in Block /\ Number[op.tgt] \in Nat
    BY <2>1, ImportShape, TreeAssumption DEF ImportPCs, IndInv, ImportOK, TypeOK
  <2>3. CanonUpTo(op.tgt, Number[op.tgt] - 1) /\ ValidChain(op.tgt)
    BY <2>1 DEF CanonInv, HeadReady, GoodInv
  <2>4. IndexedUpTo(Number[op.tgt] - 1)
    <3>1. Number[db.block] >= Number[op.tgt] - 1
      BY <2>1 DEF TxInv
    <3>2. \A n \in 0..(Number[op.tgt] - 1) : n \in 0..Number[db.block]
      BY <1>2, <2>2, <3>1
    <3> QED BY <1>3, <3>2 DEF IndexedUpTo
  <2>5. CanonicalTxsIndexed'
    BY <2>1, <2>2, <2>3, <2>4, HeadBatchTxs
  <2>6. op'.pc = "mark"
    BY <1>9, <2>2 DEF WriteHead, ImportOps
  <2> QED BY <2>5, <2>6 DEF TxInv
<1>10. CASE RewindHeader
  <2> DEFINE par == Parent[mem.header]
             block == NearestWithState(par)
  <2>1. op.pc = "rewind" /\ Number[mem.header] > op.target /\ UNCHANGED <<canon, txIndex>>
    BY <1>10 DEF RewindHeader
  <2>2. up /\ op \in RewindOps /\ mem = db
    BY <2>1, RewindShape
  <2>3. mem.header \in Block \ {Genesis} /\ par \in Block
    BY <1>1, <2>1, <2>2, TreeAssumption DEF RewindOps, Markers
  <2>4. block \in Ancestors[par]
    BY <1>1, <2>3, NearestOK
  <2>5. block \in Block /\ Number[block] <= Number[par] /\ Number[block] \in Nat
        /\ Number[par] \in Nat
    BY <2>3, <2>4, AncestorsOK, TreeAssumption
  <2>6. db'.block = IF Number[par] <= Number[mem.block] THEN block ELSE db.block
    BY <1>10 DEF RewindHeader
  <2> HIDE DEF block
  <2>7. db'.block \in Block /\ Number[db'.block] <= Number[db.block]
    BY <1>2, <2>2, <2>5, <2>6
  <2>8. op'.pc = "rewind"
    BY <1>10, <2>1, <2>2 DEF RewindHeader, RewindOps
  <2> QED BY <1>5, <2>1, <2>7, <2>8 DEF TxInv
<1>11. CASE RewindFlush
  <2>1. op' = Idle /\ UNCHANGED <<db, txIndex>>
        /\ canon' = [n \in DOMAIN canon |-> IF n \in op.del THEN None ELSE canon[n]]
    BY <1>11 DEF RewindFlush
  <2>2. ASSUME NEW n \in 0..Number[db.block], canon'[n] # None
        PROVE  \A t \in Txs[canon'[n]] : txIndex'[t] = n
    <3>1. n \in DOMAIN canon
      BY <1>2, HeightsBelow DEF IndInv, TypeOK
    <3>2. canon'[n] = canon[n]
      BY <2>1, <2>2, <3>1
    <3> QED BY <1>3, <2>1, <2>2, <3>2
  <2> QED BY <2>1, <2>2 DEF TxInv, CanonicalTxsIndexed, Idle
<1>12. CASE Restart
  <2>1. op = Idle /\ op' = op /\ UNCHANGED <<canon, txIndex>>
    BY <1>12 DEF Restart, IndInv, ControlOK
  <2>2. db'.block = NearestWithState(db.block)
    BY <1>1, <1>12 DEF Restart, LoadLastState, Markers
  <2>3. NearestWithState(db.block) \in Ancestors[db.block]
    BY <1>1, <1>2, NearestOK
  <2>4. db'.block \in Block /\ Number[db'.block] <= Number[db.block]
    BY <1>2, <2>2, <2>3, AncestorsOK
  <2> QED BY <1>5, <2>1, <2>4 DEF TxInv, Idle
<1>13. CASE \/ \E chain \in Segments : InsertChain(chain)
            \/ \E b \in Block \ {Genesis} : WriteMined(b)
            \/ \E n \in Numbers : SetHead(n)
            \/ ProcNext
  <2>1. UNCHANGED <<canon, db, txIndex>>
    BY <1>13 DEF InsertChain, WriteMined, SetHead, ProcNext, OnlyOp, dbVars
  <2>2. op'.pc \in {"first", "state", "rewind", "idle"}
    <3>1. CASE \E b \in Block \ {Genesis} : WriteMined(b)
      <4>1. PICK b \in Block \ {Genesis} : WriteMined(b)
        BY <3>1
      <4> QED BY <4>1 DEF WriteMined, InsertOp
    <3> QED BY <1>13, <3>1 DEF InsertChain, SetHead, ProcNext, InsertOp, Idle
  <2> QED BY <1>4, <2>1, <2>2 DEF TxInv
<1>14. CASE Stop \/ Crash
  <2>1. op' = Idle /\ UNCHANGED <<canon, db, txIndex>>
    BY <1>14 DEF Stop, Crash, GoDown, dbVars
  <2> QED BY <1>4, <2>1 DEF TxInv, Idle
<1>15. CASE StopInsert \/ ProcFutureBlocks \/ Tick \/ UNCHANGED vars
  <2>1. UNCHANGED <<op, canon, db, txIndex>>
    BY <1>15 DEF StopInsert, ProcFutureBlocks, Tick, dbVars, vars
  <2> QED BY <1>4, <2>1 DEF TxInv
<1> QED BY <1>6, <1>7, <1>8, <1>9, <1>10, <1>11, <1>12, <1>13, <1>14, <1>15, Zenon
        DEF Next, OpStep, ImportMove

\* Every transaction of the canonical chain up to the head is looked up in the
\* block that holds it, for every block tree in which a valid chain holds a
\* transaction once: the lookups a reorganisation deletes are never those of a
\* block that stays canonical.  The crash that leaves holes in the canonical
\* hashes is excluded, as above.
THEOREM LookupsFollowHead ==
    ASSUME TxsOnce
    PROVE  Spec /\ [][~CrashInWindow]_vars => []CanonicalTxsIndexed
<1>1. Init => CanonInv /\ GoodInv /\ TxInv
  <2> SUFFICES ASSUME Init PROVE CanonInv /\ GoodInv /\ TxInv
    OBVIOUS
  <2>1. TxInv
    <3>1. /\ Number[Genesis] = 0 /\ 0 \in Numbers /\ db.block = Genesis /\ canon[0] = Genesis
          /\ Txs[Genesis] = {}
      BY TreeAssumption DEF Init, Numbers
    <3> QED BY <3>1 DEF TxInv, CanonicalTxsIndexed, Init, Idle
  <2> QED BY <2>1, InitCanon, InitGood
<1>2. IndInv /\ CanonInv /\ GoodInv /\ TxInv /\ [Next]_vars /\ [~CrashInWindow]_vars
        => CanonInv' /\ GoodInv' /\ TxInv'
  <2> SUFFICES ASSUME IndInv, CanonInv, GoodInv, TxInv, [Next]_vars, [~CrashInWindow]_vars
               PROVE  CanonInv' /\ GoodInv' /\ TxInv'
    OBVIOUS
  <2>1. CanonInv'
    <3>1. CASE UNCHANGED vars
      BY <3>1, CanonFrame DEF vars
    <3> QED BY <3>1, CanonStep
  <2> QED BY <2>1, GoodStep, TxStep
<1>3. TxInv => CanonicalTxsIndexed
  BY DEF TxInv
<1> QED BY <1>1, <1>2, <1>3, ChainInvariant, PTL DEF Spec

=============================================================================
