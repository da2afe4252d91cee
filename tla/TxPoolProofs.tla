---------------------------- MODULE TxPoolProofs ----------------------------
(***************************************************************************)
(* The transaction pool for any accounts, transactions, chain of blocks,   *)
(* limits and prices: the lookup and the lists agree, local transactions   *)
(* are kept, and what is pending was announced.                            *)
(*                                                                         *)
(* Every section under pool.mu is a function from pools to pools, so the   *)
(* proofs are about pools: which ones an operation may be applied to       *)
(* (Tidy), and what it may take away (Shrinks, Kept).                      *)
(***************************************************************************)
EXTENDS TxPool, FoldLemmas

-----------------------------------------------------------------------------
(* Pools *)

\* The lists partition the lookup, no two transactions share a slot, and the
\* lookup counts no transaction of a local account as remote: only then does
\* removing by nonce remove the right one.
Tidy(p) ==
    /\ p.pending \cup p.queue = All(p)
    /\ p.pending \cap p.queue = {} /\ p.remotes \cap p.locals = {}
    /\ \A t, u \in All(p) : SameSlot(t, u) => t = u
    /\ \A t \in p.remotes : Sender[t] \notin p.accts

TidyPools == {p \in Pools : Tidy(p)}

\* The states of the chain count transactions of finite sets.
LEMMA StateNonceType == StateNonce \in [Block -> [Addr -> Nat]]
<1> SUFFICES ASSUME NEW b \in Block, NEW a \in Addr
             PROVE  Cardinality({t \in InBlocks(Lineage[b]) : Sender[t] = a}) \in Nat
  BY DEF StateNonce
<1> DEFINE S == {t \in InBlocks(Lineage[b]) : Sender[t] = a}
<1>1. S \subseteq Tx
  BY DEF InBlocks
<1> HIDE DEF S
<1>2. Cardinality(S) \in Nat
  BY <1>1, PoolAssumption, FS_Subset, FS_CardinalityType
<1> QED BY <1>2 DEF S

\* The parts of a transaction, and the balances.
LEMMA Amounts ==
    /\ \A t \in Tx : Sender[t] \in Addr /\ Nonce[t] \in Nat /\ Cost[t] \in Nat
    /\ \A b \in Block, a \in Addr : Balance[b][a] \in Nat /\ StateNonce[b][a] \in Nat
BY PoolAssumption, StateNonceType

\* Subsets of the transactions are finite.
LEMMA FiniteTxs == \A S \in SUBSET Tx : IsFiniteSet(S) /\ Cardinality(S) \in Nat
BY PoolAssumption, FS_Subset, FS_CardinalityType

\* So are their nonces.
LEMMA FiniteNonces ==
    ASSUME NEW S \in SUBSET Tx PROVE IsFiniteSet({Nonce[t] : t \in S})
<1> DEFINE f == [t \in S |-> Nonce[t]]
           T == {Nonce[t] : t \in S}
<1>1. f \in Surjection(S, T)
  BY DEF Surjection
<1> HIDE DEF f, T
<1>2. IsFiniteSet(T)
  BY <1>1, FiniteTxs, FS_Surjection
<1> QED BY <1>2 DEF T

\* r has lost transactions of S only, and pending has gained none.
Shrinks(p, r, S) ==
    /\ All(p) \ S \subseteq All(r) /\ All(r) \subseteq All(p) /\ r.pending \subseteq p.pending
    /\ r.accts = p.accts /\ r.state = p.state
    /\ r.remotes \subseteq p.remotes
    /\ \A a \in Addr : r.nonces[a] <= p.nonces[a]

\* Losing nothing is losing at most S, and losses add up.
LEMMA ShrinksNone == \A p \in Pools : \A S : Shrinks(p, p, S)
BY DEF Shrinks, Pools, All

LEMMA ShrinksMore ==
    ASSUME NEW p \in Pools, NEW q \in Pools, NEW r \in Pools, NEW S,
           Shrinks(p, q, S), Shrinks(q, r, S)
    PROVE  Shrinks(p, r, S)
<1>1. \A a \in Addr : r.nonces[a] <= p.nonces[a]
  BY DEF Shrinks, Pools
<1> QED BY <1>1 DEF Shrinks

\* Transactions whose slots the queue does not hold enter it as they are.
LEMMA ShuffleTidy ==
    ASSUME NEW p \in Pools, NEW S, \A t \in S : Slot(p.queue, t) = {}
    PROVE  Shuffle(p, S) = [p EXCEPT !.queue = @ \cup S]
<1> DEFINE moved == {t \in S : \A u \in Slot(p.queue, t) : Outbids(t, u)}
           olds  == {u \in p.queue : \E t \in moved : SameSlot(t, u)}
<1>1. moved = S
  OBVIOUS
<1>2. olds = {}
  BY <1>1 DEF Slot, SameSlot
<1>3. Shuffle(p, S) = [Forget(p, olds) EXCEPT !.queue = (@ \ olds) \cup moved]
  BY DEF Shuffle
<1> HIDE DEF moved, olds
<1>4. Forget(p, {}) = p
  BY DEF Forget, Pools
<1> QED BY <1>1, <1>2, <1>3, <1>4

\* removeTx takes one transaction out of a tidy pool and keeps it tidy.
LEMMA RemoveTxTidy ==
    ASSUME NEW p \in TidyPools, NEW t \in Tx
    PROVE  /\ RemoveTx(p, t) \in TidyPools /\ Shrinks(p, RemoveTx(p, t), {t})
           /\ t \notin All(RemoveTx(p, t))
           /\ t \notin p.pending => RemoveTx(p, t).pending = p.pending
<1> DEFINE r == RemoveTx(p, t)
<1>0. p \in Pools /\ Tidy(p) /\ Sender[t] \in Addr /\ Nonce[t] \in Nat
  BY PoolAssumption DEF TidyPools
<1>1. CASE t \notin All(p)
  BY <1>0, <1>1, ShrinksNone DEF RemoveTx
<1>2. CASE t \in p.pending
  <2> DEFINE behind == {u \in Of(p.pending, Sender[t]) : Nonce[u] > Nonce[t]}
             n == Min({p.nonces[Sender[t]], Nonce[t]})
             s == [p EXCEPT !.remotes = @ \ {t}, !.locals = @ \ {t},
                            !.pending = @ \ ({t} \cup behind), !.queue = @ \cup behind,
                            !.nonces[Sender[t]] = n]
  <2>1. t \in All(p) /\ Slot(p.pending, t) = {t}
    BY <1>0, <1>2 DEF Tidy, Slot, SameSlot, All
  <2>2. n \in Nat /\ n <= p.nonces[Sender[t]]
    <3> DEFINE T == {p.nonces[Sender[t]], Nonce[t]}
    <3>1. T \subseteq Nat /\ T # {} /\ p.nonces[Sender[t]] \in T
      BY <1>0 DEF Pools
    <3> HIDE DEF T
    <3>2. Min(T) \in T /\ \A m \in T : Min(T) <= m
      BY <3>1, MinIsLeast
    <3> QED BY <3>1, <3>2 DEF T
  <2>3. \A u \in behind : Slot(p.queue, u) = {}
    BY <1>0 DEF Tidy, Slot, SameSlot, All, Of
  <2>4. r = s
    <3> DEFINE q == [Forget(p, {t}) EXCEPT !.pending = @ \ (Slot(@, t) \cup behind)]
    <3>1. q = [p EXCEPT !.remotes = @ \ {t}, !.locals = @ \ {t},
                        !.pending = @ \ ({t} \cup behind)]
      BY <1>0, <2>1 DEF Forget, Pools
    <3>2. q \in Pools /\ q.queue = p.queue
      <4> HIDE DEF behind, q
      <4>1. /\ q.remotes = p.remotes \ {t} /\ q.locals = p.locals \ {t} /\ q.queue = p.queue
            /\ q.pending = p.pending \ ({t} \cup behind)
            /\ q = [p EXCEPT !.remotes = q.remotes, !.locals = q.locals, !.pending = q.pending]
        BY <1>0, <3>1 DEF Pools
      <4>2. /\ q.remotes \in SUBSET Tx /\ q.locals \in SUBSET Tx /\ q.pending \in SUBSET Tx
        BY <1>0, <4>1 DEF Pools
      <4> QED BY <1>0, <4>1, <4>2 DEF Pools
    <3> HIDE DEF behind, q
    <3>3. Shuffle(q, behind) = [q EXCEPT !.queue = @ \cup behind]
      BY <2>3, <3>2, ShuffleTidy
    <3>4. Shuffle(q, behind) = [p EXCEPT !.remotes = @ \ {t}, !.locals = @ \ {t},
                        !.pending = @ \ ({t} \cup behind), !.queue = @ \cup behind]
      BY <1>0, <3>1, <3>3 DEF Pools
    <3>5. r = [Shuffle(q, behind) EXCEPT !.nonces[Sender[t]] = Min({@, Nonce[t]})]
      BY <2>1 DEF RemoveTx, q, behind
    <3>6. Shuffle(q, behind).nonces = p.nonces
      BY <1>0, <3>4 DEF Pools
    <3> HIDE DEF r, s
    <3> QED BY <1>0, <3>4, <3>5, <3>6 DEF Pools, s
  <2>5. behind \subseteq p.pending \ {t} /\ behind \subseteq Tx
    BY <1>0 DEF Of, Pools
  <2> HIDE DEF behind, n, r
  <2>6. s \in Pools
    BY <1>0, <2>2, <2>5 DEF Pools
  <2>7. All(s) = All(p) \ {t} /\ s.pending \cup s.queue = All(s)
        /\ s.pending \cap s.queue = {}
    BY <1>0, <1>2, <2>5 DEF Pools, Tidy, All
  <2>8. Tidy(s)
    BY <1>0, <2>7 DEF Tidy, Pools, All
  <2>9. Shrinks(p, s, {t})
    <3>1. \A a \in Addr : s.nonces[a] <= p.nonces[a]
      BY <1>0, <2>2 DEF Pools
    <3> QED BY <1>0, <2>7, <3>1 DEF Shrinks, Pools
  <2> QED BY <1>2, <2>4, <2>6, <2>7, <2>8, <2>9 DEF TidyPools, r
<1>3. CASE t \in p.queue
  <2> DEFINE s == [p EXCEPT !.remotes = @ \ {t}, !.locals = @ \ {t}, !.queue = @ \ {t}]
  <2>1. t \in All(p) /\ Slot(p.pending, t) = {} /\ Slot(p.queue, t) = {t}
    BY <1>0, <1>3 DEF Tidy, Slot, SameSlot, All
  <2>2. r = s
    BY <1>0, <2>1 DEF RemoveTx, Forget, Pools
  <2> HIDE DEF r
  <2>3. s \in Pools
    BY <1>0 DEF Pools
  <2>4. All(s) = All(p) \ {t} /\ s.pending \cup s.queue = All(s) /\ s.pending \cap s.queue = {}
    BY <1>0, <1>3 DEF Pools, Tidy, All
  <2>5. Tidy(s)
    BY <1>0, <2>4 DEF Tidy, Pools, All
  <2>6. Shrinks(p, s, {t}) /\ s.pending = p.pending
    BY <1>0, <2>4 DEF Shrinks, Pools
  <2> QED BY <2>2, <2>3, <2>4, <2>5, <2>6 DEF TidyPools, r
<1>4. All(p) = p.pending \cup p.queue
  BY <1>0 DEF Tidy
<1> QED BY <1>1, <1>2, <1>3, <1>4

-----------------------------------------------------------------------------
(* The folds of the pool *)

\* The pools that removing transactions goes through.
Removals(p, S, w) ==
    /\ RemoveAll(p, S) = w[S] /\ w[{}] = p
    /\ \A s \in SUBSET S : s # {} => w[s] = RemoveTx(w[s \ {AnElement(S)[s]}], AnElement(S)[s])

LEMMA RemoveAllFolds ==
    ASSUME NEW S, IsFiniteSet(S), NEW A, NEW p \in A,
           \A t \in S, q \in A : RemoveTx(q, t) \in A
    PROVE  \E w : Removals(p, S, w)
<1> DEFINE c == AnElement(S)
           step == [x \in S \X A |-> RemoveTx(x[2], x[1])]
           Rec(w) == w = [s \in SUBSET S |->
                           IF s = {} THEN p
                           ELSE RemoveTx(w[s \ {CHOOSE x \in s : TRUE}], CHOOSE x \in s : TRUE)]
           iter == CHOOSE w : Rec(w)
<1>1. Picks(S, c)
  BY AnElementPicks
<1>2. step \in [S \X A -> A]
  OBVIOUS
<1>3. PICK w : FoldsWith(S, A, c, p, step, w)
  <2> HIDE DEF c, step
  <2> QED BY <1>1, <1>2, FoldExists
<1>4. Rec(w)
  <2>1. ASSUME NEW s \in SUBSET S, s # {}
        PROVE  w[s] = RemoveTx(w[s \ {CHOOSE x \in s : TRUE}], CHOOSE x \in s : TRUE)
    <3> DEFINE x == CHOOSE x \in s : TRUE
    <3>1. c[s] = x /\ x \in S
      BY <1>1, <2>1 DEF AnElement, Picks
    <3>2. w[s \ {x}] \in A
      BY <1>3 DEF FoldsWith
    <3>3. w[s] = step[<<x, w[s \ {x}]>>]
      BY <1>3, <2>1, <3>1 DEF FoldsWith
    <3> HIDE DEF x
    <3>4. w[s] = RemoveTx(w[s \ {x}], x)
      BY <3>1, <3>2, <3>3
    <3> QED BY <3>4 DEF x
  <2> QED BY <1>3, <2>1 DEF FoldsWith
<1>5. Rec(iter)
  <2> HIDE DEF Rec
  <2> QED BY <1>4
<1>6. RemoveAll(p, S) = iter[S]
  BY DEF RemoveAll, FoldSet, MapThenFoldSet
<1> HIDE DEF iter
<1>7. iter[{}] = p
  BY <1>5
<1>8. ASSUME NEW s \in SUBSET S, s # {} PROVE iter[s] = RemoveTx(iter[s \ {c[s]}], c[s])
  BY <1>5, <1>8 DEF AnElement
<1> HIDE DEF c
<1>9. \A s \in SUBSET S : s # {} => iter[s] = RemoveTx(iter[s \ {c[s]}], c[s])
  BY <1>8
<1> QED BY <1>6, <1>7, <1>9 DEF c, Removals

\* One step of KickOut.
KickTx(q, t) ==
    LET r == RemoveTx(q, t) IN [r EXCEPT !.changes = @ + Cardinality(q.pending \ r.pending)]

\* What kicking a transaction out keeps, making room keeps.
LEMMA KickOutKeeps ==
    ASSUME NEW S, IsFiniteSet(S), NEW A, NEW p \in A,
           \A t \in S, q \in A : KickTx(q, t) \in A
    PROVE  KickOut(p, S) \in A
<1> DEFINE c == AnElement(S)
           step == [x \in S \X A |-> KickTx(x[2], x[1])]
           Rec(w) == w = [s \in SUBSET S |->
                           IF s = {} THEN p
                           ELSE KickTx(w[s \ {CHOOSE x \in s : TRUE}], CHOOSE x \in s : TRUE)]
           iter == CHOOSE w : Rec(w)
<1>1. Picks(S, c)
  BY AnElementPicks
<1>2. step \in [S \X A -> A]
  OBVIOUS
<1>3. PICK w : FoldsWith(S, A, c, p, step, w)
  <2> HIDE DEF c, step
  <2> QED BY <1>1, <1>2, FoldExists
<1>4. Rec(w)
  <2>1. ASSUME NEW s \in SUBSET S, s # {}
        PROVE  w[s] = KickTx(w[s \ {CHOOSE x \in s : TRUE}], CHOOSE x \in s : TRUE)
    <3> DEFINE x == CHOOSE x \in s : TRUE
    <3>1. c[s] = x /\ x \in S
      BY <1>1, <2>1 DEF AnElement, Picks
    <3>2. w[s \ {x}] \in A
      BY <1>3 DEF FoldsWith
    <3>3. w[s] = step[<<x, w[s \ {x}]>>]
      BY <1>3, <2>1, <3>1 DEF FoldsWith
    <3> HIDE DEF x
    <3>4. w[s] = KickTx(w[s \ {x}], x)
      BY <3>1, <3>2, <3>3
    <3> QED BY <3>4 DEF x
  <2> QED BY <1>3, <2>1 DEF FoldsWith
<1>5. Rec(iter)
  <2> HIDE DEF Rec
  <2> QED BY <1>4
<1>6. KickOut(p, S) = iter[S]
  BY DEF KickOut, KickTx, FoldSet, MapThenFoldSet
<1> HIDE DEF iter
<1> DEFINE P == {s \in SUBSET S : iter[s] \in A}
<1>7. {} \in P
  BY <1>5
<1>8. ASSUME NEW s \in SUBSET S, s # {}, s \ {c[s]} \in P PROVE s \in P
  <2>1. c[s] \in S /\ iter[s] = KickTx(iter[s \ {c[s]}], c[s])
    BY <1>1, <1>5, <1>8 DEF AnElement, Picks
  <2> QED BY <2>1, <1>8
<1> HIDE DEF P, c
<1>9. S \in P
  BY <1>1, <1>7, <1>8, SubsetInduction
<1> QED BY <1>6, <1>9 DEF P

\* One step of AddReinjectedBlock: included transactions are passed over.
Readd(results, t, kept) == IF t \in kept THEN results ELSE AddReinjectedTx(results, t)

\* What reinjecting a transaction keeps, reinjecting those of a block keeps.
LEMMA BlockKeeps ==
    ASSUME NEW b \in Block, NEW kept, NEW A, NEW base \in A,
           \A t \in Tx, q \in A : Readd(q, t, kept) \in A
    PROVE  AddReinjectedBlock(base, b, kept) \in A
<1> DEFINE n == Len(BlockTxs[b])
           c == Greatest(1..n)
           step == [x \in (1..n) \X A |-> Readd(x[2], BlockTxs[b][x[1]], kept)]
           Rec(w) == w = [s \in SUBSET (1..n) |->
                           IF s = {} THEN base
                           ELSE Readd(w[s \ {Max(s)}], BlockTxs[b][Max(s)], kept)]
           iter == CHOOSE w : Rec(w)
<1>n. n \in Nat /\ DOMAIN BlockTxs[b] = 1..n /\ \A k \in 1..n : BlockTxs[b][k] \in Tx
  BY PoolAssumption
<1> HIDE DEF n
<1>0. IsFiniteSet(1..n)
  BY <1>n, FS_Interval
<1>1. Picks(1..n, c)
  BY <1>n, GreatestPicks
<1>2. step \in [(1..n) \X A -> A]
  BY <1>n
<1>3. PICK w : FoldsWith(1..n, A, c, base, step, w)
  <2> HIDE DEF c, step
  <2> QED BY <1>0, <1>1, <1>2, FoldExists
<1>4. Rec(w)
  <2>1. ASSUME NEW s \in SUBSET (1..n), s # {}
        PROVE  w[s] = Readd(w[s \ {Max(s)}], BlockTxs[b][Max(s)], kept)
    <3> DEFINE x == Max(s)
    <3>1. c[s] = x /\ x \in 1..n
      BY <1>1, <2>1 DEF Greatest, Picks
    <3> HIDE DEF x
    <3>2. w[s \ {x}] \in A
      BY <1>3 DEF FoldsWith
    <3>3. w[s] = step[<<x, w[s \ {x}]>>]
      BY <1>3, <2>1, <3>1 DEF FoldsWith
    <3>4. w[s] = Readd(w[s \ {x}], BlockTxs[b][x], kept)
      BY <3>1, <3>2, <3>3
    <3> QED BY <3>4 DEF x
  <2> QED BY <1>3, <2>1 DEF FoldsWith
<1>5. Rec(iter)
  <2> HIDE DEF Rec
  <2> QED BY <1>4
<1>6. AddReinjectedBlock(base, b, kept) = iter[1..n]
  BY <1>n DEF AddReinjectedBlock, Readd, FoldLeft, MapThenFoldSet
<1> HIDE DEF iter
<1> DEFINE P == {s \in SUBSET (1..n) : iter[s] \in A}
<1>7. {} \in P
  BY <1>5
<1>8. ASSUME NEW s \in SUBSET (1..n), s # {}, s \ {c[s]} \in P PROVE s \in P
  <2>1. c[s] \in 1..n /\ iter[s] = Readd(iter[s \ {c[s]}], BlockTxs[b][c[s]], kept)
    BY <1>1, <1>5, <1>8 DEF Greatest, Picks
  <2> QED BY <1>n, <2>1, <1>8
<1> HIDE DEF P, c
<1>9. 1..n \in P
  BY <1>0, <1>1, <1>7, <1>8, SubsetInduction
<1> QED BY <1>6, <1>9 DEF P

\* What reinjecting a block keeps, reinjecting the blocks left keeps.
LEMMA BlocksKeep ==
    ASSUME NEW blocks \in Seq(Block), NEW kept, NEW p, NEW A, NEW base \in A,
           base = {[pool |-> p, events |-> {}, logged |-> {}]},
           \A t \in Block, q \in A : AddReinjectedBlock(q, t, kept) \in A
    PROVE  AddReinjected(p, blocks, kept) \in A
<1> DEFINE n == Len(blocks)
           c == Greatest(1..n)
           step == [x \in (1..n) \X A |-> AddReinjectedBlock(x[2], blocks[x[1]], kept)]
           Rec(w) == w = [s \in SUBSET (1..n) |->
                           IF s = {} THEN base
                           ELSE AddReinjectedBlock(w[s \ {Max(s)}], blocks[Max(s)], kept)]
           iter == CHOOSE w : Rec(w)
<1>n. n \in Nat /\ DOMAIN blocks = 1..n /\ \A k \in 1..n : blocks[k] \in Block
  BY PoolAssumption
<1> HIDE DEF n
<1>0. IsFiniteSet(1..n)
  BY <1>n, FS_Interval
<1>1. Picks(1..n, c)
  BY <1>n, GreatestPicks
<1>2. step \in [(1..n) \X A -> A]
  BY <1>n
<1>3. PICK w : FoldsWith(1..n, A, c, base, step, w)
  <2> HIDE DEF c, step
  <2> QED BY <1>0, <1>1, <1>2, FoldExists
<1>4. Rec(w)
  <2>1. ASSUME NEW s \in SUBSET (1..n), s # {}
        PROVE  w[s] = AddReinjectedBlock(w[s \ {Max(s)}], blocks[Max(s)], kept)
    <3> DEFINE x == Max(s)
    <3>1. c[s] = x /\ x \in 1..n
      BY <1>1, <2>1 DEF Greatest, Picks
    <3> HIDE DEF x
    <3>2. w[s \ {x}] \in A
      BY <1>3 DEF FoldsWith
    <3>3. w[s] = step[<<x, w[s \ {x}]>>]
      BY <1>3, <2>1, <3>1 DEF FoldsWith
    <3>4. w[s] = AddReinjectedBlock(w[s \ {x}], blocks[x], kept)
      BY <3>1, <3>2, <3>3
    <3> QED BY <3>4 DEF x
  <2> QED BY <1>3, <2>1 DEF FoldsWith
<1>5. Rec(iter)
  <2> HIDE DEF Rec
  <2> QED BY <1>4
<1>6. AddReinjected(p, blocks, kept) = iter[1..n]
  BY <1>n DEF AddReinjected, FoldLeft, MapThenFoldSet
<1> HIDE DEF iter
<1> DEFINE P == {s \in SUBSET (1..n) : iter[s] \in A}
<1>7. {} \in P
  BY <1>5
<1>8. ASSUME NEW s \in SUBSET (1..n), s # {}, s \ {c[s]} \in P PROVE s \in P
  <2>1. c[s] \in 1..n /\ iter[s] = AddReinjectedBlock(iter[s \ {c[s]}], blocks[c[s]], kept)
    BY <1>1, <1>5, <1>8 DEF Greatest, Picks
  <2> QED BY <1>n, <2>1, <1>8
<1> HIDE DEF P, c
<1>9. 1..n \in P
  BY <1>0, <1>1, <1>7, <1>8, SubsetInduction
<1> QED BY <1>6, <1>9 DEF P

-----------------------------------------------------------------------------
(* Removing and adding *)

\* Removing transactions takes them, and only them, out of a tidy pool; pending
\* stays as it is if none of them is pending.
LEMMA RemoveAllTidy ==
    ASSUME NEW p \in TidyPools, NEW S \in SUBSET Tx
    PROVE  /\ RemoveAll(p, S) \in TidyPools /\ Shrinks(p, RemoveAll(p, S), S)
           /\ All(RemoveAll(p, S)) \cap S = {}
           /\ S \cap p.pending = {} => RemoveAll(p, S).pending = p.pending
<1> DEFINE c == AnElement(S)
           Done(q, s) == /\ q \in TidyPools /\ Shrinks(p, q, S) /\ All(q) \cap s = {}
                         /\ S \cap p.pending = {} => q.pending = p.pending
<1>0. IsFiniteSet(S) /\ Picks(S, c)
  BY FiniteTxs, AnElementPicks
<1>1. PICK w : Removals(p, S, w)
  <2>1. \A t \in S, q \in TidyPools : RemoveTx(q, t) \in TidyPools
    BY RemoveTxTidy
  <2> QED BY <1>0, <2>1, RemoveAllFolds
<1> DEFINE P == {s \in SUBSET S : Done(w[s], s)}
<1>2. {} \in P
  BY <1>1, ShrinksNone DEF TidyPools, Removals
<1>3. ASSUME NEW s \in SUBSET S, s # {}, s \ {c[s]} \in P PROVE s \in P
  <2> DEFINE t == c[s]
             q == w[s \ {t}]
             r == RemoveTx(q, t)
  <2>1. t \in s /\ w[s] = r
    BY <1>0, <1>1, <1>3 DEF Picks, Removals
  <2>2. Done(q, s \ {t})
    BY <1>3
  <2> HIDE DEF c, t, q
  <2>3. /\ r \in TidyPools /\ Shrinks(q, r, {t}) /\ t \notin All(r)
        /\ t \notin q.pending => r.pending = q.pending
    BY <2>1, <2>2, RemoveTxTidy
  <2> HIDE DEF r
  <2>4. Shrinks(p, r, S)
    <3>1. Shrinks(q, r, S)
      BY <2>1, <2>3 DEF Shrinks
    <3> QED BY <2>2, <2>3, <3>1, ShrinksMore DEF TidyPools
  <2>5. All(r) \cap s = {}
    BY <2>2, <2>3 DEF Shrinks
  <2>6. S \cap p.pending = {} => r.pending = p.pending
    BY <2>1, <2>2, <2>3
  <2>7. Done(r, s)
    BY <2>3, <2>4, <2>5, <2>6
  <2> HIDE DEF Done
  <2> QED BY <2>1, <2>7
<1> HIDE DEF P, c, Done
<1>4. S \in P
  BY <1>0, <1>2, <1>3, SubsetInduction
<1> QED BY <1>1, <1>4 DEF P, Done, Removals

\* The same when room is made for another transaction.
LEMMA KickOutTidy ==
    ASSUME NEW p \in TidyPools, NEW S \in SUBSET Tx
    PROVE  KickOut(p, S) \in TidyPools /\ Shrinks(p, KickOut(p, S), S)
<1> DEFINE A == {r \in TidyPools : Shrinks(p, r, S)}
<1>1. p \in A
  BY ShrinksNone DEF TidyPools
<1>2. ASSUME NEW t \in S, NEW q \in A PROVE KickTx(q, t) \in A
  <2> DEFINE r == RemoveTx(q, t)
             k == Cardinality(q.pending \ r.pending)
  <2>1. r \in TidyPools /\ Shrinks(q, r, {t})
    BY RemoveTxTidy
  <2>2. Shrinks(q, r, S)
    BY <2>1 DEF Shrinks
  <2>3. r \in TidyPools /\ Shrinks(p, r, S)
    BY <2>1, <2>2, ShrinksMore DEF TidyPools
  <2>4. k \in Nat
    BY FiniteTxs DEF TidyPools, Pools
  <2>5. KickTx(q, t) = [r EXCEPT !.changes = @ + k]
    BY DEF KickTx
  <2> HIDE DEF r, k
  <2> QED BY <2>3, <2>4, <2>5 DEF TidyPools, Pools, Tidy, Shrinks, All
<1> HIDE DEF A
<1>3. KickOut(p, S) \in A
  BY <1>1, <1>2, FiniteTxs, KickOutKeeps
<1> QED BY <1>3 DEF A

\* What p had and r has not is remote, mined, too expensive for its account, or
\* replaced by one that the account can pay for.
Kept(p, r) ==
    /\ p.accts \subseteq r.accts /\ r.state = p.state
    /\ \A t \in All(p) \ All(r) :
          \/ Sender[t] \notin p.accts
          \/ Nonce[t] < StateNonce[p.state][Sender[t]]
          \/ Cost[t] > Balance[p.state][Sender[t]]
          \/ \E u \in All(r) : SameSlot(t, u) /\ Cost[u] <= Balance[p.state][Sender[u]]

\* Two steps that keep local transactions keep them together.
LEMMA KeptMore ==
    ASSUME NEW p \in Pools, NEW q \in Pools, NEW r \in Pools, Kept(p, q), Kept(q, r)
    PROVE  Kept(p, r)
<1> SUFFICES ASSUME NEW t \in All(p) \ All(r)
             PROVE  \/ Sender[t] \notin p.accts
                    \/ Nonce[t] < StateNonce[p.state][Sender[t]]
                    \/ Cost[t] > Balance[p.state][Sender[t]]
                    \/ \E u \in All(r) : SameSlot(t, u) /\ Cost[u] <= Balance[p.state][Sender[u]]
  BY DEF Kept
<1>1. CASE t \in All(q)
  BY <1>1 DEF Kept
<1>2. CASE \E u \in All(q) : SameSlot(t, u) /\ Cost[u] <= Balance[p.state][Sender[u]]
  <2>1. PICK u \in All(q) : SameSlot(t, u) /\ Cost[u] <= Balance[p.state][Sender[u]]
    BY <1>2
  <2>2. u \in Tx /\ Sender[u] = Sender[t] /\ Nonce[u] = Nonce[t] /\ q.state = p.state
        /\ p.accts \subseteq q.accts
    BY <2>1 DEF SameSlot, Kept, All, Pools
  <2>3. ~ (Cost[u] > Balance[q.state][Sender[u]])
    <3>1. Cost[u] \in Nat /\ Balance[p.state][Sender[u]] \in Nat
      BY <2>2, Amounts DEF Pools
    <3> QED BY <2>1, <2>2, <3>1
  <2>4. CASE u \in All(r)
    BY <2>1, <2>4
  <2>5. CASE u \notin All(r)
    <3>1. \/ Sender[u] \notin q.accts
          \/ Nonce[u] < StateNonce[q.state][Sender[u]]
          \/ \E v \in All(r) : SameSlot(u, v) /\ Cost[v] <= Balance[q.state][Sender[v]]
      BY <2>1, <2>3, <2>5 DEF Kept
    <3> QED BY <2>2, <3>1 DEF SameSlot
  <2> QED BY <2>4, <2>5
<1> QED BY <1>1, <1>2 DEF Kept

\* Losing only transactions of accounts that are not local keeps the local ones.
LEMMA ShrinksKept ==
    ASSUME NEW p, NEW r, NEW S, Shrinks(p, r, S), \A t \in S : Sender[t] \notin p.accts
    PROVE  Kept(p, r)
BY DEF Kept, Shrinks

\* What add does to the pool: the lists stay tidy, no nonce grows, and a new
\* pending transaction is the one added, in place of the one of its slot.
Added(p, o, t) ==
    /\ o.pool \in TidyPools /\ Kept(p, o.pool)
    /\ o.ok \in BOOLEAN /\ o.dirty \in BOOLEAN /\ o.event \in BOOLEAN
    /\ \A a \in Addr : o.pool.nonces[a] <= p.nonces[a]
    /\ o.event => o.pool.pending \subseteq (p.pending \ Slot(p.pending, t)) \cup {t}
    /\ ~o.event => o.pool.pending \subseteq p.pending

\* A refusal leaves the pool alone.
LEMMA RefusedAdds ==
    ASSUME NEW p \in TidyPools, NEW t PROVE Added(p, Refused(p), t)
BY DEF Added, Refused, Outcome, TidyPools, Pools, Kept

\* The last part of add, on a pool that does not know t.
LEMMA InsertAdds ==
    ASSUME NEW p \in TidyPools, NEW t \in Tx \ All(p), NEW local \in BOOLEAN,
           NEW isLocal \in BOOLEAN, isLocal = (local \/ Sender[t] \in p.accts),
           Cost[t] <= Balance[p.state][Sender[t]]
    PROVE  Added(p, Insert(p, t, local, isLocal), t)
<1> DEFINE a   == Sender[t]
           old == Slot(p.pending, t) \cup Slot(p.queue, t)
           q   == Forget(p, old)
           r   == IF isLocal THEN [q EXCEPT !.locals = @ \cup {t}]
                  ELSE [q EXCEPT !.remotes = @ \cup {t}]
           o   == Insert(p, t, local, isLocal)
<1>0. p \in Pools /\ Tidy(p) /\ a \in Addr
  BY PoolAssumption DEF TidyPools
<1>1. old \subseteq All(p) /\ \A u \in All(p) : SameSlot(u, t) <=> u \in old
  BY <1>0 DEF Tidy, Slot
<1>2. /\ r \in Pools /\ r.pending = p.pending /\ r.queue = p.queue /\ r.accts = p.accts
      /\ r.nonces = p.nonces /\ r.state = p.state
      /\ r.remotes = IF isLocal THEN p.remotes \ old ELSE (p.remotes \ old) \cup {t}
      /\ r.locals = IF isLocal THEN (p.locals \ old) \cup {t} ELSE p.locals \ old
  <2> HIDE DEF old
  <2> QED BY <1>0 DEF Forget, Pools
<1>3. \A u \in r.remotes : Sender[u] \notin p.accts
  <2> HIDE DEF old, r
  <2> QED BY <1>0, <1>2 DEF Tidy
<1>4. r.remotes \cap r.locals = {}
  <2> HIDE DEF old, r
  <2> QED BY <1>0, <1>2 DEF Tidy, All
<1>5. All(r) = (All(p) \ old) \cup {t}
  <2> HIDE DEF old, r
  <2> QED BY <1>2 DEF All
<1>6. \A u, v \in All(r) : SameSlot(u, v) => u = v
  <2>1. \A u \in All(p) \ old : ~SameSlot(u, t) /\ ~SameSlot(t, u)
    BY <1>1 DEF SameSlot
  <2> QED BY <1>0, <1>5, <2>1 DEF Tidy
<1>7. ASSUME NEW s \in Pools, All(s) = All(r), s.state = p.state, p.accts \subseteq s.accts
      PROVE  Kept(p, s)
  <2>1. \A u \in All(p) \ All(s) : u \in old
    BY <1>5, <1>7
  <2>2. \A u \in old : SameSlot(u, t)
    BY <1>1
  <2>3. t \in All(s)
    BY <1>5, <1>7
  <2> HIDE DEF old
  <2> QED BY <1>7, <2>1, <2>2, <2>3 DEF Kept
<1>8. \A b \in Addr : p.nonces[b] <= p.nonces[b]
  BY <1>0 DEF Pools
<1>9. CASE \E u \in IF Slot(p.pending, t) # {} THEN Slot(p.pending, t) ELSE Slot(p.queue, t) :
             ~Outbids(t, u)
  BY <1>9, RefusedAdds DEF Insert
<1>10. CASE /\ ~\E u \in IF Slot(p.pending, t) # {} THEN Slot(p.pending, t) ELSE Slot(p.queue, t) :
                  ~Outbids(t, u)
            /\ Slot(p.pending, t) # {}
  <2> DEFINE s == [r EXCEPT !.pending = (@ \ old) \cup {t}]
  <2>1. o = Outcome(s, TRUE, FALSE, TRUE)
    BY <1>10 DEF Insert
  <2>2. Slot(p.queue, t) = {} /\ old = Slot(p.pending, t)
    BY <1>0, <1>10 DEF Tidy, Slot, SameSlot, All
  <2>3. old \cap p.queue = {}
    BY <1>0, <2>2 DEF Tidy, Slot
  <2> HIDE DEF old, r, o
  <2>4. /\ s \in Pools /\ All(s) = All(r) /\ s.pending = (p.pending \ old) \cup {t}
        /\ s.queue = p.queue /\ s.accts = p.accts /\ s.state = p.state /\ s.nonces = p.nonces
        /\ s.remotes = r.remotes /\ s.locals = r.locals
    BY <1>2 DEF Pools, All
  <2> HIDE DEF s
  <2>5. s.pending \cup s.queue = All(s) /\ s.pending \cap s.queue = {}
    BY <1>0, <1>5, <2>3, <2>4 DEF Tidy, All
  <2>6. Tidy(s)
    BY <1>3, <1>4, <1>6, <2>4, <2>5 DEF Tidy
  <2>7. Kept(p, s)
    BY <1>7, <2>4
  <2>8. Added(p, o, t)
    BY <1>8, <2>1, <2>2, <2>4, <2>6, <2>7 DEF Added, Outcome, TidyPools
  <2> QED BY <2>8 DEF o
<1>11. CASE /\ ~\E u \in IF Slot(p.pending, t) # {} THEN Slot(p.pending, t) ELSE Slot(p.queue, t) :
                  ~Outbids(t, u)
            /\ Slot(p.pending, t) = {}
  <2> DEFINE s == [r EXCEPT !.queue = (@ \ old) \cup {t}]
             z == IF local /\ a \notin s.accts
                  THEN [s EXCEPT !.accts = @ \cup {a}, !.remotes = @ \ Of(@, a),
                                 !.locals = @ \cup Of(s.remotes, a)]
                  ELSE s
  <2>1. o = Outcome(z, TRUE, old = {}, FALSE)
    BY <1>11 DEF Insert
  <2>2. old \cap p.pending = {}
    BY <1>0, <1>11 DEF Tidy, Slot
  <2> HIDE DEF old, r, o
  <2>4. /\ s \in Pools /\ All(s) = All(r) /\ s.pending = p.pending
        /\ s.queue = (p.queue \ old) \cup {t} /\ s.accts = p.accts /\ s.state = p.state
        /\ s.nonces = p.nonces /\ s.remotes = r.remotes /\ s.locals = r.locals
    BY <1>2 DEF Pools, All
  <2> HIDE DEF s
  <2>5. s.pending \cup s.queue = All(s) /\ s.pending \cap s.queue = {}
    BY <1>0, <1>5, <2>2, <2>4 DEF Tidy, All
  <2>6. s \in TidyPools
    BY <1>3, <1>4, <1>6, <2>4, <2>5 DEF Tidy, TidyPools
  <2>7. z \in Pools /\ All(z) = All(s) /\ z.pending = s.pending /\ z.state = s.state
        /\ z.nonces = s.nonces /\ s.accts \subseteq z.accts
    BY <1>0, <2>4 DEF Pools, All, Of
  <2>8. Tidy(z)
    BY <1>0, <2>6 DEF TidyPools, Tidy, Pools, All, Of
  <2> HIDE DEF z
  <2>9. Kept(p, z)
    BY <1>7, <2>4, <2>7
  <2>10. Added(p, o, t)
    BY <1>8, <2>1, <2>4, <2>7, <2>8, <2>9 DEF Added, Outcome, TidyPools
  <2> QED BY <2>10 DEF o
<1> QED BY <1>9, <1>10, <1>11

\* add: whatever room is made and however it ends.
LEMMA AddAdds ==
    ASSUME NEW p \in TidyPools, NEW t \in Tx, NEW local \in BOOLEAN, NEW o \in Add(p, t, local)
    PROVE  Added(p, o, t)
<1> DEFINE isLocal == local \/ Sender[t] \in p.accts
<1>1. CASE t \in All(p) \/ ~ValidateTx(p, t)
  BY <1>1, RefusedAdds DEF Add
<1>2. CASE ~(t \in All(p) \/ ~ValidateTx(p, t))
  <2>1. PICK q \in MakeRoom(p, t, isLocal) :
          o = IF q = None THEN Refused(p) ELSE Insert(q, t, local, isLocal)
    BY <1>2 DEF Add
  <2>2. CASE q = None
    BY <2>1, <2>2, RefusedAdds
  <2>3. CASE q # None
    <3>1. q = p \/ \E D \in SUBSET p.remotes : q = KickOut(p, D)
      BY <2>3 DEF MakeRoom
    <3>2. \E D \in SUBSET p.remotes : q \in TidyPools /\ Shrinks(p, q, D)
      <4>1. CASE q = p
        BY <4>1, ShrinksNone DEF TidyPools
      <4>2. CASE \E D \in SUBSET p.remotes : q = KickOut(p, D)
        BY <4>2, KickOutTidy DEF TidyPools, Pools
      <4> QED BY <3>1, <4>1, <4>2
    <3>3. PICK D \in SUBSET p.remotes : q \in TidyPools /\ Shrinks(p, q, D)
      BY <3>2
    <3>4. p \in Pools /\ q \in Pools /\ Kept(p, q)
      BY <3>3, ShrinksKept DEF TidyPools, Tidy
    <3>5. t \notin All(q) /\ q.accts = p.accts /\ q.state = p.state
      BY <1>2, <3>3 DEF Shrinks
    <3>6. Cost[t] <= Balance[q.state][Sender[t]]
      <4>1. Cost[t] \in Nat /\ Balance[p.state][Sender[t]] \in Nat
        BY <3>4, Amounts DEF Pools
      <4>2. Balance[p.state][Sender[t]] >= Cost[t]
        BY <1>2 DEF ValidateTx
      <4> QED BY <3>5, <4>1, <4>2
    <3>7. Added(q, o, t)
      BY <2>1, <2>3, <3>3, <3>5, <3>6, InsertAdds
    <3>8. o.pool \in Pools /\ Kept(p, o.pool)
      BY <3>4, <3>7, KeptMore DEF Added, TidyPools
    <3>9. \A a \in Addr : o.pool.nonces[a] <= p.nonces[a]
      BY <3>3, <3>4, <3>7, <3>8 DEF Added, Shrinks, Pools
    <3>10. q.pending \subseteq p.pending
           /\ q.pending \ Slot(q.pending, t) \subseteq p.pending \ Slot(p.pending, t)
      BY <3>3 DEF Shrinks, Slot
    <3> QED BY <3>7, <3>8, <3>9, <3>10 DEF Added
  <2> QED BY <2>2, <2>3
<1> QED BY <1>1, <1>2

-----------------------------------------------------------------------------
(* The parts of runReorg *)

\* What reinjecting transactions into p can lead to.  A pending transaction that
\* is not announced by the way was pending before, and nothing that is announced
\* takes its slot.
Results(p) ==
    {r \in [pool : TidyPools, events : SUBSET Tx, logged : SUBSET Tx] :
        /\ Kept(p, r.pool) /\ \A a \in Addr : r.pool.nonces[a] <= p.nonces[a]
        /\ \A t \in r.pool.pending : t \in r.events \/ (t \in p.pending /\ Slot(r.events, t) = {})}

\* Nothing reinjected is a result.
LEMMA NoResult ==
    ASSUME NEW p \in TidyPools
    PROVE  [pool |-> p, events |-> {}, logged |-> {}] \in Results(p)
<1>1. p \in Pools /\ Kept(p, p)
  BY DEF TidyPools, Kept, Pools
<1>2. \A a \in Addr : p.nonces[a] <= p.nonces[a]
  BY <1>1 DEF Pools
<1> QED BY <1>1, <1>2 DEF Results, Slot

\* One more transaction.
LEMMA ReinjectTxResults ==
    ASSUME NEW p \in TidyPools, NEW results \in SUBSET Results(p), NEW t \in Tx
    PROVE  AddReinjectedTx(results, t) \in SUBSET Results(p)
<1> SUFFICES ASSUME NEW x \in AddReinjectedTx(results, t) PROVE x \in Results(p)
  OBVIOUS
<1> PICK r \in results : \E o \in Add(r.pool, t, FALSE) :
            x = [pool   |-> o.pool,
                 events |-> IF o.event THEN r.events \cup {t} ELSE r.events,
                 logged |-> IF o.ok /\ Sender[t] \in o.pool.accts
                            THEN r.logged \cup {t} ELSE r.logged]
  BY DEF AddReinjectedTx
<1> PICK o \in Add(r.pool, t, FALSE) :
            x = [pool   |-> o.pool,
                 events |-> IF o.event THEN r.events \cup {t} ELSE r.events,
                 logged |-> IF o.ok /\ Sender[t] \in o.pool.accts
                            THEN r.logged \cup {t} ELSE r.logged]
  OBVIOUS
<1>1. r \in Results(p) /\ r.pool \in TidyPools /\ r.events \in SUBSET Tx /\ r.logged \in SUBSET Tx
  BY DEF Results
<1>2. Added(r.pool, o, t)
  BY <1>1, AddAdds
<1>3. x \in [pool : TidyPools, events : SUBSET Tx, logged : SUBSET Tx]
  BY <1>1, <1>2 DEF Added
<1>4. Kept(p, x.pool)
  <2>1. p \in Pools /\ r.pool \in Pools /\ o.pool \in Pools
    BY <1>1, <1>2 DEF Added, TidyPools
  <2>2. Kept(p, r.pool) /\ Kept(r.pool, o.pool)
    BY <1>1, <1>2 DEF Added, Results
  <2> QED BY <2>1, <2>2, KeptMore
<1>5. \A a \in Addr : x.pool.nonces[a] <= p.nonces[a]
  BY <1>1, <1>2 DEF Added, Results, TidyPools, Pools
<1>6. ASSUME NEW u \in x.pool.pending
      PROVE  u \in x.events \/ (u \in p.pending /\ Slot(x.events, u) = {})
  <2>1. CASE o.event
    <3>1. u = t \/ (u \in r.pool.pending /\ ~SameSlot(u, t))
      BY <1>2, <1>6, <2>1 DEF Added, Slot
    <3>2. x.events = r.events \cup {t}
      BY <2>1
    <3>3. u \in r.pool.pending => u \in r.events \/ (u \in p.pending /\ Slot(r.events, u) = {})
      BY <1>1 DEF Results
    <3> QED BY <3>1, <3>2, <3>3 DEF Slot, SameSlot
  <2>2. CASE ~o.event
    BY <1>1, <1>2, <1>6, <2>2 DEF Added, Results
  <2> QED BY <2>1, <2>2
<1> HIDE DEF Results
<1> QED BY <1>3, <1>4, <1>5, <1>6 DEF Results

\* The transactions of the blocks left, minus the included ones.
LEMMA ReinjectResults ==
    ASSUME NEW p \in TidyPools, NEW blocks \in Seq(Block), NEW kept
    PROVE  AddReinjected(p, blocks, kept) \in SUBSET Results(p)
<1> DEFINE A == SUBSET Results(p)
           base == {[pool |-> p, events |-> {}, logged |-> {}]}
<1>1. base \in A
  BY NoResult
<1>2. \A t \in Tx, q \in A : Readd(q, t, kept) \in A
  BY ReinjectTxResults DEF Readd
<1> HIDE DEF A
<1>3. \A b \in Block, q \in A : AddReinjectedBlock(q, b, kept) \in A
  BY <1>2, BlockKeeps
<1>4. AddReinjected(p, blocks, kept) \in A
  <2> HIDE DEF base
  <2>1. base = {[pool |-> p, events |-> {}, logged |-> {}]}
    BY DEF base
  <2> QED BY <1>1, <1>3, <2>1, BlocksKeep
<1> QED BY <1>4 DEF A

\* reset starts from the pool as it is or from the pool on the new state, and
\* without a rewind from the latter.
LEMMA ResetResults ==
    ASSUME NEW p \in TidyPools, NEW old \in Block, NEW new \in Block, NEW r \in Reset(p, old, new)
    PROVE  \E q \in TidyPools :
              /\ r \in Results(q) /\ All(q) = All(p) /\ q.pending = p.pending /\ q.accts = p.accts
              /\ missing = {} => q.nonces = StateNonce[q.state]
<1> DEFINE moved == [p EXCEPT !.state = new, !.nonces = StateNonce[new]]
           result(q) == {[pool |-> q, events |-> {}, logged |-> {}]}
<1>1. p \in Pools /\ Tidy(p) /\ StateNonce[new] \in [Addr -> Nat]
  BY StateNonceType DEF TidyPools
<1>2. /\ moved \in Pools /\ All(moved) = All(p) /\ moved.pending = p.pending
      /\ moved.accts = p.accts /\ moved.nonces = StateNonce[moved.state]
      /\ moved.queue = p.queue /\ moved.remotes = p.remotes /\ moved.locals = p.locals
  BY <1>1 DEF Pools, All
<1>3. moved \in TidyPools
  <2> HIDE DEF moved
  <2> QED BY <1>1, <1>2 DEF Tidy, TidyPools
<1>4. CASE r \in result(moved)
  <2> HIDE DEF moved
  <2> QED BY <1>2, <1>3, <1>4, NoResult
<1>5. CASE r \in result(p) /\ old \in missing
  BY <1>5, NoResult
<1>6. ASSUME NEW blocks \in Discarded(old, new),
             r \in AddReinjected(moved, blocks, Included(old, new))
      PROVE  r \in Results(moved)
  <2> DEFINE left == {b \in Block : b \in Lineage[old] /\ b \notin Lineage[new]}
  <2>1. blocks \in [1..Cardinality(left) -> left]
    BY <1>6 DEF Discarded, SetToSeqs
  <2>2. left \in SUBSET Block
    OBVIOUS
  <2> HIDE DEF left, moved
  <2>3. Cardinality(left) \in Nat
    BY <2>2, PoolAssumption, FS_Subset, FS_CardinalityType
  <2>4. blocks \in Seq(Block)
    BY <2>1, <2>2, <2>3
  <2> QED BY <1>3, <1>6, <2>4, ReinjectResults
<1>7. \/ r \in result(moved)
      \/ r \in result(p) /\ old \in missing
      \/ \E blocks \in Discarded(old, new) : r \in AddReinjected(moved, blocks, Included(old, new))
  <2> HIDE DEF moved
  <2> QED BY DEF Reset, moved
<1> HIDE DEF moved, result
<1> QED BY <1>2, <1>3, <1>4, <1>5, <1>6, <1>7

\* What a part of runReorg may do to the pool.
Trims(p, r) == r \in TidyPools /\ Kept(p, r) /\ r.state = p.state

\* promoteExecutables: in a tidy pool nothing pending stands in the way of what
\* is promoted, and what leaves the pool is not local, or cannot be executed.
LEMMA PromoteTrims ==
    ASSUME NEW p \in TidyPools, NEW accts \in SUBSET Addr
    PROVE  /\ Trims(p, PromoteExecutables(p, accts))
           /\ PromoteExecutables(p, accts).pending =
                p.pending \cup UNION {Promoted(p, a) : a \in accts}
           /\ UNION {Promoted(p, a) : a \in accts} \subseteq p.queue
<1> DEFINE won  == UNION {Promoted(p, a) : a \in accts}
           olds == {u \in p.pending : \E t \in won : SameSlot(t, u)}
           over(S) == Highest(S, Cardinality(S) - AccountQueue)
           keep(a) == LET S == Payable(p, a) \ Promotable(p, a)
                      IN IF a \in p.accts THEN S ELSE S \ over(S)
           rest == UNION {IF a \notin accts THEN Of(p.queue, a) ELSE keep(a) : a \in Addr}
           lost == p.queue \ (rest \cup won)
           nonces == [a \in Addr |-> IF a \in accts /\ Promoted(p, a) # {}
                                       THEN Max({Nonce[t] : t \in Promoted(p, a)}) + 1
                                       ELSE p.nonces[a]]
           r == PromoteExecutables(p, accts)
<1>0. p \in Pools /\ Tidy(p) /\ p.queue \subseteq Tx /\ p.pending \subseteq Tx
  BY DEF TidyPools, Pools
<1>1. \A a \in Addr : Promotable(p, a) \subseteq Payable(p, a) /\ Payable(p, a) \subseteq Of(p.queue, a)
  BY DEF Promotable, Payable, Ready
<1>2. \A a \in Addr : Promoted(p, a) = Promotable(p, a)
  <2>1. \A t \in p.queue : Slot(p.pending, t) = {}
    BY <1>0 DEF Tidy, Slot, SameSlot, All
  <2> QED BY <1>1, <2>1 DEF Promoted, Of
<1>3. won \subseteq p.queue /\ \A t \in won : Sender[t] \in accts /\ t \in Promoted(p, Sender[t])
  BY <1>1, <1>2 DEF Of
<1>4. olds = {}
  BY <1>0, <1>3 DEF Tidy, SameSlot, All
<1>5. rest \subseteq p.queue
  <2> SUFFICES ASSUME NEW t \in rest PROVE t \in p.queue
    OBVIOUS
  <2>1. PICK a \in Addr : t \in IF a \notin accts THEN Of(p.queue, a) ELSE keep(a)
    OBVIOUS
  <2>2. keep(a) \subseteq Payable(p, a)
    OBVIOUS
  <2> QED BY <1>1, <2>1, <2>2 DEF Of
<1>6. rest \cap won = {}
  <2> SUFFICES ASSUME NEW t \in rest, t \in won PROVE FALSE
    OBVIOUS
  <2>1. PICK a \in Addr : t \in IF a \notin accts THEN Of(p.queue, a) ELSE keep(a)
    OBVIOUS
  <2>2. CASE a \notin accts
    BY <1>3, <2>1, <2>2 DEF Of
  <2>3. CASE a \in accts
    <3>1. t \in Payable(p, a) \ Promotable(p, a)
      BY <2>1, <2>3
    <3>2. Sender[t] = a
      BY <1>1, <3>1 DEF Of
    <3> QED BY <1>2, <1>3, <3>1, <3>2
  <2> QED BY <2>2, <2>3
<1>7. ASSUME NEW t \in lost
      PROVE  \/ Sender[t] \notin p.accts
             \/ Nonce[t] < StateNonce[p.state][Sender[t]]
             \/ Cost[t] > Balance[p.state][Sender[t]]
  <2> DEFINE a == Sender[t]
  <2>1. t \in Tx /\ a \in Addr /\ t \in Of(p.queue, a) /\ Nonce[t] \in Nat /\ Cost[t] \in Nat
        /\ StateNonce[p.state][a] \in Nat /\ Balance[p.state][a] \in Nat
    BY <1>0, Amounts DEF Of, Pools
  <2>2. a \in accts /\ t \notin keep(a)
    BY <2>1
  <2>3. t \notin Promotable(p, a)
    BY <1>2, <2>1, <2>2
  <2> HIDE DEF a
  <2>4. t \in Payable(p, a) => a \notin p.accts
    BY <2>2, <2>3
  <2>5. t \notin Payable(p, a) => Nonce[t] < StateNonce[p.state][a] \/ Cost[t] > Balance[p.state][a]
    BY <2>1 DEF Payable
  <2> QED BY <2>4, <2>5 DEF a
<1>8. nonces \in [Addr -> Nat]
  <2> SUFFICES ASSUME NEW a \in Addr, Promoted(p, a) # {}
               PROVE  Max({Nonce[t] : t \in Promoted(p, a)}) + 1 \in Nat
    BY <1>0 DEF Pools
  <2> DEFINE T == {Nonce[t] : t \in Promoted(p, a)}
  <2>1. Promoted(p, a) \in SUBSET Tx
    BY <1>0, <1>1, <1>2 DEF Of
  <2>2. T \subseteq Nat /\ T # {}
    BY <2>1, Amounts
  <2>4. IsFiniteSet(T)
    BY <2>1, FiniteNonces
  <2> HIDE DEF T
  <2>3. Max(T) \in Nat
    BY <2>2, <2>4, MaxIsGreatest
  <2> QED BY <2>3 DEF T
<1>9. r = [Forget(p, lost \cup olds) EXCEPT
               !.pending = (@ \ olds) \cup won, !.queue = rest, !.nonces = nonces]
  BY DEF PromoteExecutables
<1> HIDE DEF won, olds, rest, lost, nonces, r
<1>10. /\ r \in Pools /\ r.pending = p.pending \cup won /\ r.queue = rest
       /\ r.remotes = p.remotes \ lost /\ r.locals = p.locals \ lost
       /\ r.accts = p.accts /\ r.state = p.state
  <2>1. r = [p EXCEPT !.remotes = p.remotes \ lost, !.locals = p.locals \ lost,
                      !.pending = p.pending \cup won, !.queue = rest, !.nonces = nonces]
    BY <1>0, <1>4, <1>9 DEF Forget, Pools
  <2>2. /\ p.remotes \ lost \in SUBSET Tx /\ p.locals \ lost \in SUBSET Tx
        /\ p.pending \cup won \in SUBSET Tx /\ rest \in SUBSET Tx
    BY <1>0, <1>3, <1>5 DEF Pools
  <2>3. r \in Pools
    BY <1>0, <1>8, <2>1, <2>2 DEF Pools
  <2> QED BY <1>0, <2>1, <2>3 DEF Pools
<1>11. All(r) = All(p) \ lost /\ lost = p.queue \ (rest \cup won)
  BY <1>10 DEF All, lost
<1>12. r.pending \cup r.queue = All(r) /\ r.pending \cap r.queue = {}
  BY <1>0, <1>3, <1>5, <1>6, <1>10, <1>11 DEF Tidy
<1>13. Tidy(r)
  BY <1>0, <1>10, <1>11, <1>12 DEF Tidy
<1>14. Kept(p, r)
  BY <1>7, <1>10, <1>11 DEF Kept
<1>15. Trims(p, r) /\ r.pending = p.pending \cup won
  BY <1>10, <1>13, <1>14 DEF Trims, TidyPools
<1> QED BY <1>3, <1>15 DEF r, won

\* demoteUnexecutables: what stays pending is not mined.
LEMMA DemoteTrims ==
    ASSUME NEW p \in TidyPools
    PROVE  /\ Trims(p, DemoteUnexecutables(p))
           /\ \A t \in DemoteUnexecutables(p).pending :
                 t \in p.pending /\ Nonce[t] >= StateNonce[p.state][Sender[t]]
<1> DEFINE olds    == {t \in p.pending : Nonce[t] < StateNonce[p.state][Sender[t]]}
           drops   == {t \in p.pending \ olds : Cost[t] > Balance[p.state][Sender[t]]}
           left    == p.pending \ (olds \cup drops)
           invalid == {t \in left : \E d \in drops : Sender[d] = Sender[t] /\ Nonce[d] < Nonce[t]}
           gapped  == {t \in left \ invalid :
                         \A u \in Of(left \ invalid, Sender[t]) :
                            Nonce[u] # StateNonce[p.state][Sender[t]]}
           back == invalid \cup gapped
           gone == olds \cup drops
           q == [Forget(p, gone) EXCEPT !.pending = left \ back]
           r == DemoteUnexecutables(p)
<1>0. p \in Pools /\ Tidy(p) /\ p.pending \subseteq Tx
  BY DEF TidyPools, Pools
<1>1. gone \subseteq p.pending /\ left = p.pending \ gone /\ back \subseteq left
  OBVIOUS
<1>2. \A t \in gone : \/ Nonce[t] < StateNonce[p.state][Sender[t]]
                      \/ Cost[t] > Balance[p.state][Sender[t]]
  OBVIOUS
<1>3. ASSUME NEW t \in left PROVE Nonce[t] >= StateNonce[p.state][Sender[t]]
  <2>1. t \in Tx /\ Sender[t] \in Addr /\ Nonce[t] \in Nat /\ StateNonce[p.state][Sender[t]] \in Nat
    BY <1>0, <1>3, Amounts DEF Pools
  <2>2. ~ (Nonce[t] < StateNonce[p.state][Sender[t]])
    BY <1>3
  <2> QED BY <2>1, <2>2
<1>4. r = Shuffle(q, back)
  BY DEF DemoteUnexecutables
<1> HIDE DEF olds, drops, left, invalid, gapped, back, gone
<1>5. /\ q \in Pools /\ q.pending = left \ back /\ q.queue = p.queue
      /\ q.remotes = p.remotes \ gone /\ q.locals = p.locals \ gone
      /\ q.accts = p.accts /\ q.state = p.state
  BY <1>0, <1>1 DEF Forget, Pools
<1> HIDE DEF q, r
<1>6. \A t \in back : Slot(q.queue, t) = {}
  BY <1>0, <1>1, <1>5 DEF Tidy, Slot, SameSlot, All
<1>7. r = [q EXCEPT !.queue = @ \cup back]
  BY <1>4, <1>5, <1>6, ShuffleTidy
<1>8. /\ r \in Pools /\ r.pending = left \ back /\ r.queue = p.queue \cup back
      /\ r.remotes = p.remotes \ gone /\ r.locals = p.locals \ gone
      /\ r.accts = p.accts /\ r.state = p.state
  BY <1>0, <1>1, <1>5, <1>7 DEF Pools
<1>9. All(r) = All(p) \ gone
  BY <1>8 DEF All
<1>10. r.pending \cup r.queue = All(r) /\ r.pending \cap r.queue = {}
  BY <1>0, <1>1, <1>8, <1>9 DEF Tidy
<1>11. Tidy(r)
  BY <1>0, <1>8, <1>9, <1>10 DEF Tidy
<1>12. Kept(p, r)
  BY <1>2, <1>8, <1>9 DEF Kept
<1>13. Trims(p, r)
  BY <1>8, <1>11, <1>12 DEF Trims, TidyPools
<1>14. \A t \in r.pending : t \in p.pending /\ Nonce[t] >= StateNonce[p.state][Sender[t]]
  BY <1>1, <1>3, <1>8
<1> QED BY <1>13, <1>14 DEF r

\* setAll changes nothing but the nonces.
LEMMA NoncesTrim ==
    ASSUME NEW p \in TidyPools
    PROVE  Trims(p, SetAllNonces(p)) /\ SetAllNonces(p).pending = p.pending
<1> DEFINE n == [a \in Addr |->
                   IF Of(p.pending, a) = {} THEN StateNonce[p.state][a]
                   ELSE Max({Nonce[t] : t \in Of(p.pending, a)}) + 1]
           r == SetAllNonces(p)
<1>0. p \in Pools /\ Tidy(p)
  BY DEF TidyPools
<1>1. n \in [Addr -> Nat]
  <2> SUFFICES ASSUME NEW a \in Addr, Of(p.pending, a) # {}
               PROVE  Max({Nonce[t] : t \in Of(p.pending, a)}) + 1 \in Nat
    BY <1>0, Amounts DEF Pools
  <2> DEFINE T == {Nonce[t] : t \in Of(p.pending, a)}
  <2>1. Of(p.pending, a) \in SUBSET Tx
    BY <1>0 DEF Of, Pools
  <2>2. T \subseteq Nat /\ T # {}
    BY <2>1, Amounts
  <2>3. IsFiniteSet(T)
    BY <2>1, FiniteNonces
  <2> HIDE DEF T
  <2>4. Max(T) \in Nat
    BY <2>2, <2>3, MaxIsGreatest
  <2> QED BY <2>4 DEF T
<1>2. r = [p EXCEPT !.nonces = n]
  BY DEF SetAllNonces
<1> HIDE DEF n, r
<1>3. /\ r \in Pools /\ r.pending = p.pending /\ r.queue = p.queue /\ r.remotes = p.remotes
      /\ r.locals = p.locals /\ r.accts = p.accts /\ r.state = p.state
  BY <1>0, <1>1, <1>2 DEF Pools
<1>4. Trims(p, r)
  BY <1>0, <1>3 DEF Trims, TidyPools, Tidy, Kept, All
<1> QED BY <1>3, <1>4 DEF r

\* truncatePending takes transactions of remote accounts only.
LEMMA PendingTrims ==
    ASSUME NEW p \in TidyPools
    PROVE  Trims(p, TruncatePending(p)) /\ TruncatePending(p).pending \subseteq p.pending
<1>0. p \in Pools /\ Tidy(p) /\ Kept(p, p)
  BY DEF TidyPools, Kept
<1>1. CASE Cardinality(p.pending) <= GlobalSlots
  BY <1>0, <1>1 DEF TruncatePending, Trims
<1>2. CASE ~(Cardinality(p.pending) <= GlobalSlots)
  <2> DEFINE size(a)  == Cardinality(Of(p.pending, a))
             spammers == {a \in Addr \ p.accts : size(a) > AccountSlots}
             total(m) == Cardinality(p.pending)
                           - MapThenSumSet(LAMBDA a : Max({0, size(a) - m}), spammers)
             fits     == {m \in AccountSlots..Cardinality(p.pending) : total(m) <= GlobalSlots}
             level    == IF fits = {} THEN AccountSlots ELSE Max(fits)
             cut(a)   == IF a \in spammers THEN Highest(Of(p.pending, a), size(a) - level) ELSE {}
             gone     == UNION {cut(a) : a \in Addr}
             n == [a \in Addr |-> Min({p.nonces[a]} \cup {Nonce[t] : t \in cut(a)})]
             r == TruncatePending(p)
  <2>1. r = [Forget(p, gone) EXCEPT !.pending = @ \ gone, !.nonces = n]
    BY <1>2 DEF TruncatePending
  <2>2. \A a \in Addr : cut(a) \subseteq Of(p.pending, a) /\ (cut(a) # {} => a \notin p.accts)
    BY DEF Highest
  <2> HIDE DEF cut
  <2>3. gone \subseteq p.pending /\ \A t \in gone : Sender[t] \notin p.accts
    BY <2>2 DEF Of
  <2>4. n \in [Addr -> Nat]
    <3> SUFFICES ASSUME NEW a \in Addr PROVE Min({p.nonces[a]} \cup {Nonce[t] : t \in cut(a)}) \in Nat
      OBVIOUS
    <3> DEFINE T == {p.nonces[a]} \cup {Nonce[t] : t \in cut(a)}
    <3>1. T \subseteq Nat /\ T # {}
      BY <1>0, <2>2, Amounts DEF Of, Pools
    <3> HIDE DEF T
    <3>2. Min(T) \in Nat
      BY <3>1, MinIsLeast
    <3> QED BY <3>2 DEF T
  <2> HIDE DEF gone, n, r
  <2>5. /\ r \in Pools /\ r.pending = p.pending \ gone /\ r.queue = p.queue
        /\ r.remotes = p.remotes \ gone /\ r.locals = p.locals \ gone
        /\ r.accts = p.accts /\ r.state = p.state
    BY <1>0, <2>1, <2>4 DEF Forget, Pools
  <2>6. All(r) = All(p) \ gone
    BY <2>5 DEF All
  <2>7. r.pending \cup r.queue = All(r) /\ r.pending \cap r.queue = {}
    BY <1>0, <2>3, <2>5, <2>6 DEF Tidy
  <2>8. Tidy(r)
    BY <1>0, <2>5, <2>6, <2>7 DEF Tidy
  <2>9. Kept(p, r)
    BY <2>3, <2>5, <2>6 DEF Kept
  <2>10. Trims(p, r) /\ r.pending \subseteq p.pending
    BY <2>5, <2>8, <2>9 DEF Trims, TidyPools
  <2> QED BY <2>10 DEF r
<1> QED BY <1>1, <1>2

\* So does truncateQueue, whatever the order of the heartbeats.
LEMMA QueueTrims ==
    ASSUME NEW p \in TidyPools, NEW z \in TruncateQueue(p)
    PROVE  Trims(p, z) /\ z.pending \subseteq p.pending
<1> DEFINE accts  == {a \in Addr \ p.accts : Of(p.queue, a) # {}}
           excess == Cardinality(p.queue) - GlobalQueue
           taken(order, k) == MapThenSumSet(LAMBDA j : Cardinality(Of(p.queue, order[j])), 1..(k - 1))
           lost(order) == UNION {Highest(Of(p.queue, order[k]), excess - taken(order, k)) :
                                   k \in {j \in 1..Len(order) : taken(order, j) < excess}}
<1>0. p \in Pools /\ Kept(p, p)
  BY DEF TidyPools, Kept
<1>1. CASE excess <= 0
  BY <1>0, <1>1 DEF TruncateQueue, Trims
<1>2. CASE ~(excess <= 0)
  <2>1. PICK order \in SetToSeqs(accts) : z = RemoveAll(p, lost(order))
    BY <1>2 DEF TruncateQueue
  <2> DEFINE S == lost(order)
             n == Cardinality(accts)
  <2>2. order \in [1..n -> accts]
    BY <2>1 DEF SetToSeqs
  <2>3. n \in Nat
    <3> DEFINE f == [t \in p.queue |-> Sender[t]]
               T == {Sender[t] : t \in p.queue}
    <3>1. f \in Surjection(p.queue, T)
      BY DEF Surjection
    <3>2. accts \subseteq T
      BY DEF Of
    <3> HIDE DEF f, T, accts
    <3>3. IsFiniteSet(T)
      BY <1>0, <3>1, FiniteTxs, FS_Surjection DEF Pools
    <3> QED BY <3>2, <3>3, FS_Subset, FS_CardinalityType
  <2>4. \A k \in 1..Len(order) : order[k] \in accts
    <3> HIDE DEF accts, n
    <3>1. order \in Seq(accts) /\ Len(order) = n
      BY <2>2, <2>3
    <3> QED BY <2>2, <3>1
  <2>5. \A t \in S : t \in p.queue /\ Sender[t] \notin p.accts
    <3> SUFFICES ASSUME NEW k \in 1..Len(order), NEW m, NEW t \in Highest(Of(p.queue, order[k]), m)
                 PROVE  t \in p.queue /\ Sender[t] \notin p.accts
      OBVIOUS
    <3> QED BY <2>4 DEF Highest, Of
  <2>6. S \in SUBSET Tx
    BY <1>0, <2>5 DEF Pools
  <2> HIDE DEF S
  <2>7. z \in TidyPools /\ Shrinks(p, z, S)
    BY <2>1, <2>6, RemoveAllTidy DEF S
  <2>8. Kept(p, z)
    BY <2>5, <2>7, ShrinksKept
  <2> QED BY <2>7, <2>8 DEF Trims, Shrinks
<1> QED BY <1>1, <1>2

-----------------------------------------------------------------------------
(* The limits *)

\* Taking the k highest nonces takes k transactions, or all.
LEMMA HighestTakes ==
    ASSUME NEW S \in SUBSET Tx, NEW k \in Int
    PROVE  Highest(S, k) = S \/ Cardinality(Highest(S, k)) >= k
<1> DEFINE H == Highest(S, k)
           N == {Nonce[t] : t \in S \ H}
<1> SUFFICES ASSUME H # S, ~(Cardinality(H) >= k) PROVE FALSE
  OBVIOUS
<1>1. H \subseteq S
  BY DEF Highest
<1>2. N \subseteq Nat /\ N # {} /\ IsFiniteSet(N)
  <2> DEFINE f == [t \in S \ H |-> Nonce[t]]
  <2>1. f \in Surjection(S \ H, N)
    BY DEF Surjection
  <2>2. IsFiniteSet(S \ H)
    BY FiniteTxs
  <2>3. N \subseteq Nat /\ N # {}
    BY <1>1, Amounts
  <2> HIDE DEF f, N
  <2> QED BY <2>1, <2>2, <2>3, FS_Surjection
<1>3. Max(N) \in N /\ \A m \in N : m <= Max(N)
  <2> HIDE DEF N
  <2> QED BY <1>2, MaxIsGreatest
<1>4. PICK t \in S \ H : Nonce[t] = Max(N)
  BY <1>3
<1> DEFINE above == {u \in S : Nonce[u] > Nonce[t]}
<1>5. above \subseteq H
  <2> SUFFICES ASSUME NEW u \in S \ H, Nonce[u] > Nonce[t] PROVE FALSE
    OBVIOUS
  <2>1. Nonce[u] <= Nonce[t]
    BY <1>3, <1>4
  <2> QED BY <2>1, Amounts
<1>6. Cardinality(above) <= Cardinality(H) /\ Cardinality(above) \in Nat /\ Cardinality(H) \in Nat
  <2>1. IsFiniteSet(H) /\ above \in SUBSET Tx /\ H \in SUBSET Tx
    BY <1>1, FiniteTxs
  <2> HIDE DEF above, H
  <2> QED BY <1>5, <2>1, FiniteTxs, FS_Subset
<1>7. Cardinality(above) < k
  BY <1>6
<1> QED BY <1>4, <1>7 DEF Highest

\* The excess of accounts over m, as truncatePending adds it up.
Excess(p, m, S) ==
    MapThenSumSet(LAMBDA a : Max({0, Cardinality(Of(p.pending, a)) - m}), S)

LEMMA ExcessSums ==
    ASSUME NEW p, NEW m, NEW S, IsFiniteSet(S),
           NEW f \in [S -> Nat], \A a \in S : f[a] = Max({0, Cardinality(Of(p.pending, a)) - m})
    PROVE  \E w : Sums(S, f, w) /\ Excess(p, m, S) = w[S]
<1> DEFINE g(a) == Max({0, Cardinality(Of(p.pending, a)) - m})
           Rec(w) == w = [s \in SUBSET S |->
                           IF s = {} THEN 0
                           ELSE g(CHOOSE x \in s : TRUE) + w[s \ {CHOOSE x \in s : TRUE}]]
           iter == CHOOSE w : Rec(w)
<1>1. PICK w \in [SUBSET S -> Nat] : Sums(S, f, w)
  BY SumExists
<1>2. \A s \in SUBSET S : s # {} => /\ AnElement(S)[s] = CHOOSE x \in s : TRUE
                                    /\ f[AnElement(S)[s]] = g(CHOOSE x \in s : TRUE)
  BY DEF AnElement
<1>3. Excess(p, m, S) = iter[S]
  BY DEF Excess, MapThenSumSet, MapThenFoldSet
<1> HIDE DEF g
<1>4. Rec(w)
  <2> DEFINE R(s) == IF s = {} THEN 0
                    ELSE g(CHOOSE x \in s : TRUE) + w[s \ {CHOOSE x \in s : TRUE}]
  <2>1. w \in [SUBSET S -> Nat] /\ w[{}] = 0
    BY <1>1 DEF Sums
  <2>2. ASSUME NEW s \in SUBSET S PROVE w[s] = R(s)
    <3>1. CASE s = {}
      BY <2>1, <3>1
    <3>2. CASE s # {}
      BY <1>1, <1>2, <3>2 DEF Sums
    <3> QED BY <3>1, <3>2
  <2> HIDE DEF R
  <2>3. w = [s \in SUBSET S |-> R(s)]
    BY <2>1, <2>2
  <2> QED BY <2>3 DEF R
<1>5. Rec(iter)
  <2> HIDE DEF Rec
  <2> QED BY <1>4
<1> HIDE DEF iter
<1>6. Sums(S, f, iter)
  <2>1. iter[{}] = 0
    BY <1>5
  <2>2. ASSUME NEW s \in SUBSET S, s # {}
        PROVE  iter[s] = g(CHOOSE x \in s : TRUE) + iter[s \ {CHOOSE x \in s : TRUE}]
    BY <1>5, <2>2
  <2> HIDE DEF Rec
  <2> QED BY <1>2, <2>1, <2>2 DEF Sums
<1> QED BY <1>3, <1>6

\* The same for the queues of the first accounts of an order.
Before(p, order, S) == MapThenSumSet(LAMBDA j : Cardinality(Of(p.queue, order[j])), S)

LEMMA BeforeSums ==
    ASSUME NEW p, NEW order, NEW S, IsFiniteSet(S),
           NEW f \in [S -> Nat], \A j \in S : f[j] = Cardinality(Of(p.queue, order[j]))
    PROVE  \E w : Sums(S, f, w) /\ Before(p, order, S) = w[S]
<1> DEFINE g(j) == Cardinality(Of(p.queue, order[j]))
           Rec(w) == w = [s \in SUBSET S |->
                           IF s = {} THEN 0
                           ELSE g(CHOOSE x \in s : TRUE) + w[s \ {CHOOSE x \in s : TRUE}]]
           iter == CHOOSE w : Rec(w)
<1>1. PICK w \in [SUBSET S -> Nat] : Sums(S, f, w)
  BY SumExists
<1>2. \A s \in SUBSET S : s # {} => /\ AnElement(S)[s] = CHOOSE x \in s : TRUE
                                    /\ f[AnElement(S)[s]] = g(CHOOSE x \in s : TRUE)
  BY DEF AnElement
<1>3. Before(p, order, S) = iter[S]
  BY DEF Before, MapThenSumSet, MapThenFoldSet
<1> HIDE DEF g
<1>4. Rec(w)
  <2> DEFINE R(s) == IF s = {} THEN 0
                    ELSE g(CHOOSE x \in s : TRUE) + w[s \ {CHOOSE x \in s : TRUE}]
  <2>1. w \in [SUBSET S -> Nat] /\ w[{}] = 0
    BY <1>1 DEF Sums
  <2>2. ASSUME NEW s \in SUBSET S PROVE w[s] = R(s)
    <3>1. CASE s = {}
      BY <2>1, <3>1
    <3>2. CASE s # {}
      BY <1>1, <1>2, <3>2 DEF Sums
    <3> QED BY <3>1, <3>2
  <2> HIDE DEF R
  <2>3. w = [s \in SUBSET S |-> R(s)]
    BY <2>1, <2>2
  <2> QED BY <2>3 DEF R
<1>5. Rec(iter)
  <2> HIDE DEF Rec
  <2> QED BY <1>4
<1> HIDE DEF iter
<1>6. Sums(S, f, iter)
  <2>1. iter[{}] = 0
    BY <1>5
  <2>2. ASSUME NEW s \in SUBSET S, s # {}
        PROVE  iter[s] = g(CHOOSE x \in s : TRUE) + iter[s \ {CHOOSE x \in s : TRUE}]
    BY <1>5, <2>2
  <2> HIDE DEF Rec
  <2> QED BY <1>2, <2>1, <2>2 DEF Sums
<1> QED BY <1>3, <1>6

\* The accounts of finitely many transactions are finitely many.
LEMMA FiniteSenders ==
    ASSUME NEW S \in SUBSET Tx, NEW T, T \subseteq {Sender[t] : t \in S}
    PROVE  IsFiniteSet(T)
<1> DEFINE f == [t \in S |-> Sender[t]]
           R == {Sender[t] : t \in S}
<1>1. f \in Surjection(S, R)
  BY DEF Surjection
<1>2. IsFiniteSet(S)
  BY FiniteTxs
<1>3. T \subseteq R
  OBVIOUS
<1> HIDE DEF f, R
<1>4. IsFiniteSet(R)
  BY <1>1, <1>2, FS_Surjection
<1> QED BY <1>3, <1>4, FS_Subset

\* What is left of a set of transactions when a part of it is taken.
LEMMA TakenAway ==
    ASSUME NEW S \in SUBSET Tx, NEW T \in SUBSET S
    PROVE  /\ Cardinality(S) \in Nat /\ Cardinality(T) \in Nat /\ Cardinality(S \ T) \in Nat
           /\ Cardinality(S \ T) = Cardinality(S) - Cardinality(T)
<1>1. IsFiniteSet(S) /\ Cardinality(S) \in Nat
  BY FiniteTxs
<1>2. Cardinality(T) \in Nat /\ Cardinality(S \ T) \in Nat
  BY FiniteTxs
<1>3. Cardinality(S \ T) = Cardinality(S) - Cardinality(S \cap T)
  BY <1>1, FS_Difference
<1>4. S \cap T = T
  OBVIOUS
<1> QED BY <1>1, <1>2, <1>3, <1>4

\* The amount by which n exceeds m.
LEMMA MaxOfTwo == ASSUME NEW n \in Int PROVE Max({0, n}) \in Nat /\ (Max({0, n}) = 0 \/ Max({0, n}) = n)
                         /\ Max({0, n}) >= n
<1> DEFINE T == {0, n}
<1>1. \E x \in T : \A y \in T : x >= y
  OBVIOUS
<1>2. Max(T) \in T /\ \A y \in T : Max(T) >= y
  <2> HIDE DEF T
  <2> QED BY <1>1 DEF Max
<1> QED BY <1>2

\* truncatePending leaves at most GlobalSlots pending transactions, or no remote
\* account has more than AccountSlots.
LEMMA PendingWithin ==
    ASSUME NEW p \in TidyPools, NEW r, r = TruncatePending(p)
    PROVE  \/ Cardinality(r.pending) <= GlobalSlots
           \/ \A a \in Addr \ p.accts : Cardinality(Of(r.pending, a)) <= AccountSlots
<1>0. p \in Pools /\ p.pending \in SUBSET Tx /\ GlobalSlots \in Nat /\ AccountSlots \in Nat
  BY PoolAssumption DEF TidyPools, Pools
<1>1. CASE Cardinality(p.pending) <= GlobalSlots
  BY <1>1 DEF TruncatePending
<1>2. CASE ~(Cardinality(p.pending) <= GlobalSlots)
  <2> DEFINE size(a)  == Cardinality(Of(p.pending, a))
             spammers == {a \in Addr \ p.accts : size(a) > AccountSlots}
             total(m) == Cardinality(p.pending) - Excess(p, m, spammers)
             fits     == {m \in AccountSlots..Cardinality(p.pending) : total(m) <= GlobalSlots}
             level    == IF fits = {} THEN AccountSlots ELSE Max(fits)
             cut(a)   == IF a \in spammers THEN Highest(Of(p.pending, a), size(a) - level) ELSE {}
             gone     == UNION {cut(a) : a \in Addr}
  <2>1. r.pending = p.pending \ gone
    BY <1>0, <1>2 DEF TruncatePending, Excess, Forget, Pools
  <2>2. \A a \in Addr : /\ Of(p.pending, a) \in SUBSET Tx /\ size(a) \in Nat
                        /\ size(a) <= Cardinality(p.pending)
    <3> SUFFICES ASSUME NEW a \in Addr
                 PROVE  /\ Of(p.pending, a) \in SUBSET Tx /\ size(a) \in Nat
                        /\ size(a) <= Cardinality(p.pending)
      OBVIOUS
    <3>1. Of(p.pending, a) \in SUBSET Tx /\ Of(p.pending, a) \in SUBSET p.pending
      BY <1>0 DEF Of
    <3> QED BY <1>0, <3>1, FiniteTxs, FS_Subset
  <2>3. Cardinality(p.pending) \in Nat
    BY <1>0, FiniteTxs
  <2>4. fits \subseteq Nat /\ IsFiniteSet(fits)
    <3>1. fits \subseteq Nat /\ fits \subseteq AccountSlots..Cardinality(p.pending)
      BY <1>0, <2>3
    <3>2. IsFiniteSet(AccountSlots..Cardinality(p.pending))
      BY <1>0, <2>3, FS_Interval
    <3> HIDE DEF fits
    <3> QED BY <3>1, <3>2, FS_Subset
  <2>5. level \in Nat /\ (fits # {} => level \in fits)
    <3> HIDE DEF fits
    <3> QED BY <1>0, <2>4, MaxIsGreatest
  <2> HIDE DEF level
  <2>6. \A a \in spammers : /\ cut(a) \subseteq Of(p.pending, a)
                            /\ cut(a) = Of(p.pending, a) \/ Cardinality(cut(a)) >= size(a) - level
    <3> SUFFICES ASSUME NEW a \in spammers
                 PROVE  /\ cut(a) \subseteq Of(p.pending, a)
                        /\ cut(a) = Of(p.pending, a) \/ Cardinality(cut(a)) >= size(a) - level
      OBVIOUS
    <3> DEFINE O == Of(p.pending, a)
               k == size(a) - level
    <3>1. O \in SUBSET Tx /\ k \in Int /\ cut(a) = Highest(O, k)
      BY <2>2, <2>5
    <3> HIDE DEF O, k, cut
    <3>2. cut(a) \subseteq O /\ (cut(a) = O \/ Cardinality(cut(a)) >= k)
      BY <3>1, HighestTakes DEF Highest
    <3> QED BY <3>2 DEF O, k
  <2>7. CASE fits = {}
    <3>1. level = AccountSlots
      BY <2>7 DEF level
    <3>2. ASSUME NEW a \in Addr \ p.accts PROVE Cardinality(Of(r.pending, a)) <= AccountSlots
      <4>1. CASE a \in spammers
        <5> DEFINE O == Of(p.pending, a)
                   C == cut(a)
        <5>1. Of(r.pending, a) \in SUBSET (O \ C) /\ O \in SUBSET Tx /\ C \in SUBSET O
          <6>1. C \in SUBSET O /\ O \in SUBSET Tx
            BY <2>2, <2>6, <4>1
          <6>2. C \subseteq gone
            OBVIOUS
          <6> HIDE DEF C, gone
          <6> QED BY <2>1, <6>1, <6>2 DEF Of
        <5>2. C = O \/ Cardinality(C) >= Cardinality(O) - AccountSlots
          BY <2>6, <3>1, <4>1
        <5> HIDE DEF O, C
        <5>3. Cardinality(O \ C) <= AccountSlots
          <6>1. CASE C = O
            BY <1>0, <6>1, FS_EmptySet
          <6>2. CASE Cardinality(C) >= Cardinality(O) - AccountSlots
            BY <1>0, <5>1, <6>2, TakenAway
          <6> QED BY <5>2, <6>1, <6>2
        <5>4. Cardinality(Of(r.pending, a)) <= Cardinality(O \ C)
          <6>1. O \ C \in SUBSET Tx
            BY <5>1
          <6> QED BY <5>1, <6>1, FiniteTxs, FS_Subset
        <5>5. Cardinality(Of(r.pending, a)) \in Nat /\ Cardinality(O \ C) \in Nat
          BY <5>1, FiniteTxs
        <5> QED BY <1>0, <5>3, <5>4, <5>5
      <4>2. CASE a \notin spammers
        <5>1. Cardinality(Of(p.pending, a)) <= AccountSlots
          BY <1>0, <2>2, <4>2
        <5>2. Of(r.pending, a) \in SUBSET Of(p.pending, a) /\ Of(p.pending, a) \in SUBSET Tx
          BY <1>0, <2>1 DEF Of
        <5>3. Cardinality(Of(r.pending, a)) <= Cardinality(Of(p.pending, a))
          BY <5>2, FiniteTxs, FS_Subset
        <5>4. Cardinality(Of(r.pending, a)) \in Nat /\ Cardinality(Of(p.pending, a)) \in Nat
          BY <5>2, FiniteTxs
        <5> QED BY <1>0, <5>1, <5>3, <5>4
      <4> QED BY <4>1, <4>2
    <3> QED BY <3>2
  <2>8. CASE fits # {}
    <3> DEFINE f == [a \in spammers |-> Max({0, size(a) - level})]
               g == [a \in spammers |-> cut(a)]
               C == UNION {g[a] : a \in spammers}
    <3>1. f \in [spammers -> Nat] /\ g \in [spammers -> SUBSET p.pending]
      <4>1. \A a \in spammers : size(a) - level \in Int
        BY <2>2, <2>5
      <4>2. \A a \in spammers : cut(a) \in SUBSET p.pending
        BY <2>6 DEF Of
      <4> HIDE DEF spammers, cut, size
      <4> QED BY <4>1, <4>2, MaxOfTwo
    <3>2. IsFiniteSet(spammers)
      <4>1. spammers \subseteq {Sender[t] : t \in p.pending}
        <5> SUFFICES ASSUME NEW a \in spammers PROVE \E t \in p.pending : Sender[t] = a
          OBVIOUS
        <5>1. Of(p.pending, a) # {}
          BY <1>0, FS_EmptySet
        <5> QED BY <5>1 DEF Of
      <4> HIDE DEF spammers
      <4> QED BY <1>0, <4>1, FiniteSenders
    <3>3. \A a, b \in spammers : a # b => g[a] \cap g[b] = {}
      BY <2>6 DEF Of
    <3>4. \A a \in spammers : f[a] <= Cardinality(g[a])
      <4> SUFFICES ASSUME NEW a \in spammers PROVE Max({0, size(a) - level}) <= Cardinality(cut(a))
        OBVIOUS
      <4>1. size(a) \in Nat /\ size(a) - level \in Int
        BY <2>2, <2>5
      <4>2. Cardinality(cut(a)) \in Nat
        <5>1. cut(a) \in SUBSET Tx
          BY <2>2, <2>6
        <5> QED BY <5>1, FiniteTxs
      <4>3. Cardinality(cut(a)) = size(a) \/ Cardinality(cut(a)) >= size(a) - level
        BY <2>6
      <4> DEFINE x == Max({0, size(a) - level})
      <4>4. x = 0 \/ x = size(a) - level
        BY <4>1, MaxOfTwo
      <4> HIDE DEF x, cut, size
      <4>5. x <= Cardinality(cut(a))
        BY <2>5, <4>1, <4>2, <4>3, <4>4
      <4> QED BY <4>5 DEF x
    <3>5. PICK w : Sums(spammers, f, w) /\ Excess(p, level, spammers) = w[spammers]
      <4>1. \A a \in spammers : f[a] = Max({0, Cardinality(Of(p.pending, a)) - level})
        OBVIOUS
      <4> HIDE DEF f, spammers
      <4> QED BY <3>1, <3>2, <4>1, ExcessSums
    <3>6. Excess(p, level, spammers) \in Nat /\ Excess(p, level, spammers) <= Cardinality(C)
      <4>1. IsFiniteSet(p.pending)
        BY <1>0, FiniteTxs
      <4> HIDE DEF f, g, spammers
      <4> QED BY <3>1, <3>2, <3>3, <3>4, <3>5, <4>1, SumAtMost
    <3>7. C \in SUBSET gone /\ C \in SUBSET p.pending
      BY <2>6 DEF Of
    <3>8. total(level) <= GlobalSlots
      BY <2>5, <2>8
    <3> HIDE DEF C, spammers, gone
    <3>9. Cardinality(p.pending \ C) <= GlobalSlots
      BY <1>0, <3>6, <3>7, <3>8, TakenAway
    <3>10. Cardinality(r.pending) <= Cardinality(p.pending \ C)
      <4>1. r.pending \in SUBSET (p.pending \ C) /\ p.pending \ C \in SUBSET Tx
        BY <1>0, <2>1, <3>7
      <4> QED BY <4>1, FiniteTxs, FS_Subset
    <3>11. Cardinality(r.pending) \in Nat /\ Cardinality(p.pending \ C) \in Nat
      BY <1>0, <2>1, FiniteTxs
    <3> QED BY <1>0, <3>9, <3>10, <3>11
  <2> QED BY <2>7, <2>8
<1> QED BY <1>1, <1>2

\* Of the queue, a part of at least as many transactions as it is over its
\* limit is taken: what is left is within the limit.
LEMMA RestFits ==
    ASSUME NEW Q \in SUBSET Tx, NEW V \in SUBSET Q, NEW R \in SUBSET (Q \ V),
           Cardinality(V) >= Cardinality(Q) - GlobalQueue
    PROVE  Cardinality(R) <= GlobalQueue
<1>1. GlobalQueue \in Nat
  BY PoolAssumption
<1>2. Q \ V \in SUBSET Tx /\ R \in SUBSET Tx
  OBVIOUS
<1>3. Cardinality(R) <= Cardinality(Q \ V)
  BY <1>2, FiniteTxs, FS_Subset
<1>4. Cardinality(R) \in Nat /\ Cardinality(Q \ V) \in Nat
  BY <1>2, FiniteTxs
<1>5. Cardinality(Q \ V) <= GlobalQueue
  BY <1>1, TakenAway
<1> QED BY <1>1, <1>3, <1>4, <1>5

\* The accounts of an order are its elements.
LEMMA OrderCovers ==
    ASSUME NEW S, IsFiniteSet(S), NEW order \in SetToSeqs(S)
    PROVE  /\ Cardinality(S) \in Nat /\ Len(order) = Cardinality(S)
           /\ order \in [1..Cardinality(S) -> S]
           /\ \A a \in S : \E k \in 1..Cardinality(S) : order[k] = a
           /\ \A j, k \in 1..Cardinality(S) : j # k => order[j] # order[k]
<1> DEFINE n == Cardinality(S)
           D == 1..n
<1>1. n \in Nat
  BY FS_CardinalityType
<1>2. order \in [D -> S] /\ \A j, k \in D : j # k => order[j] # order[k]
  BY DEF SetToSeqs
<1>3. Len(order) = n
  <2> HIDE DEF n
  <2>1. order \in Seq(S)
    BY <1>1, <1>2
  <2> QED BY <1>1, <1>2, <2>1
<1>4. order \in Injection(D, S)
  <2> HIDE DEF D, n
  <2> QED BY <1>2 DEF Injection, IsInjective
<1>5. Cardinality(D) = n
  <2> HIDE DEF n
  <2> QED BY <1>1, FS_Interval
<1>6. order \in Surjection(D, S)
  <2> HIDE DEF D
  <2> QED BY <1>4, <1>5, FS_Injection
<1>7. \A a \in S : \E k \in D : order[k] = a
  <2> HIDE DEF D
  <2> QED BY <1>6 DEF Surjection
<1> QED BY <1>1, <1>2, <1>3, <1>7

\* truncateQueue leaves at most GlobalQueue queued transactions of accounts that
\* are not local, whatever the order of the heartbeats.  Look at the first
\* account of the order that keeps a transaction: everything of the accounts
\* before it is gone, and of its own the rest of the excess.
LEMMA QueueWithin ==
    ASSUME NEW p \in TidyPools, NEW z \in TruncateQueue(p)
    PROVE  Cardinality({t \in z.queue : Sender[t] \notin z.accts}) <= GlobalQueue
<1> DEFINE accts  == {a \in Addr \ p.accts : Of(p.queue, a) # {}}
           excess == Cardinality(p.queue) - GlobalQueue
           taken(order, k) == Before(p, order, 1..(k - 1))
           lost(order) == UNION {Highest(Of(p.queue, order[k]), excess - taken(order, k)) :
                                   k \in {j \in 1..Len(order) : taken(order, j) < excess}}
           R == {t \in z.queue : Sender[t] \notin z.accts}
<1>0. /\ p \in Pools /\ Tidy(p) /\ p.queue \in SUBSET Tx /\ GlobalQueue \in Nat
      /\ Cardinality(p.queue) \in Nat
  BY PoolAssumption, FiniteTxs DEF TidyPools, Pools
<1>1. CASE excess <= 0
  <2>1. z = p
    BY <1>1 DEF TruncateQueue
  <2>2. R \in SUBSET (p.queue \ {}) /\ {} \in SUBSET p.queue
    BY <2>1
  <2>3. Cardinality({}) >= Cardinality(p.queue) - GlobalQueue
    BY <1>0, <1>1, FS_EmptySet
  <2> HIDE DEF R
  <2>4. Cardinality(R) <= GlobalQueue
    BY <1>0, <2>2, <2>3, RestFits
  <2> QED BY <2>4 DEF R
<1>2. CASE ~(excess <= 0)
  <2>1. PICK order \in SetToSeqs(accts) : z = RemoveAll(p, lost(order))
    BY <1>2 DEF TruncateQueue, Before
  <2> DEFINE S == lost(order)
             n == Cardinality(accts)
             O(k) == Of(p.queue, order[k])
  <2>2. IsFiniteSet(accts)
    <3>1. accts \subseteq {Sender[t] : t \in p.queue}
      BY DEF Of
    <3> HIDE DEF accts
    <3> QED BY <1>0, <3>1, FiniteSenders
  <2>3. /\ n \in Nat /\ Len(order) = n /\ order \in [1..n -> accts]
        /\ \A a \in accts : \E k \in 1..n : order[k] = a
        /\ \A j, k \in 1..n : j # k => order[j] # order[k]
    <3> HIDE DEF accts
    <3> QED BY <2>2, OrderCovers
  <2> HIDE DEF n
  <2>4. \A k : O(k) \in SUBSET p.queue
    BY DEF Of
  <2>5. S \in SUBSET p.queue
    BY DEF Of, Highest
  <2>6. ASSUME NEW k \in 1..n, taken(order, k) < excess
        PROVE  Highest(O(k), excess - taken(order, k)) \subseteq S
    BY <2>3, <2>6
  <2> HIDE DEF S
  <2>7. z \in TidyPools /\ Shrinks(p, z, S) /\ All(z) \cap S = {} /\ z.pending = p.pending
    <3>1. S \in SUBSET Tx /\ S \cap p.pending = {} /\ z = RemoveAll(p, S)
      BY <1>0, <2>1, <2>5 DEF Tidy, S
    <3> QED BY <3>1, RemoveAllTidy
  <2>8. z.queue \subseteq p.queue \ S /\ z.accts = p.accts
    BY <1>0, <2>7 DEF Tidy, TidyPools, Shrinks
  <2>9. R \in SUBSET (p.queue \ S)
    BY <2>8
  <2>10. CASE \A k \in 1..n : O(k) \subseteq S
    <3>1. R = {}
      <4> SUFFICES ASSUME NEW t \in z.queue, Sender[t] \notin z.accts PROVE FALSE
        OBVIOUS
      <4>1. t \in p.queue /\ t \notin S /\ Sender[t] \in accts
        BY <1>0, <2>8, Amounts DEF Of
      <4>2. PICK k \in 1..n : order[k] = Sender[t]
        BY <2>3, <4>1
      <4> QED BY <2>10, <4>1, <4>2 DEF Of
    <3>2. Cardinality(R) = 0
      BY <3>1, FS_EmptySet
    <3> QED BY <1>0, <3>2
  <2>11. CASE ~ \A k \in 1..n : O(k) \subseteq S
    <3> DEFINE K == {k \in 1..n : ~(O(k) \subseteq S)}
    <3>1. PICK k \in K : \A m \in K : k <= m
      <4>1. K \subseteq Nat /\ K # {}
        BY <2>3, <2>11
      <4> HIDE DEF K
      <4> QED BY <4>1, LeastNumber
    <3> DEFINE I == 1..(k - 1)
               f == [j \in I |-> Cardinality(O(j))]
               g == [j \in I |-> O(j)]
               V == UNION {g[j] : j \in I}
               H == Highest(O(k), excess - taken(order, k))
    <3>2. I \subseteq 1..n /\ IsFiniteSet(I) /\ k \in 1..n /\ k \notin I
      BY <2>3, FS_Interval
    <3>3. \A j \in I : O(j) \subseteq S
      <4> SUFFICES ASSUME NEW j \in I, ~(O(j) \subseteq S) PROVE FALSE
        OBVIOUS
      <4>1. k <= j
        BY <3>1, <3>2
      <4> QED BY <2>3, <4>1
    <3>4. f \in [I -> Nat] /\ g \in [I -> SUBSET p.queue] /\ \A j \in I : f[j] <= Cardinality(g[j])
      <4>1. \A j \in I : Cardinality(O(j)) \in Nat
        BY <1>0, <2>4, FiniteTxs
      <4> HIDE DEF O, I
      <4> QED BY <2>4, <4>1
    <3>5. \A i, j \in I : i # j => g[i] \cap g[j] = {}
      BY <2>3, <3>2 DEF Of
    <3>6. PICK w : Sums(I, f, w) /\ Before(p, order, I) = w[I]
      <4>1. \A j \in I : f[j] = Cardinality(Of(p.queue, order[j]))
        OBVIOUS
      <4> HIDE DEF I, f, g
      <4>2. IsFiniteSet(I) /\ f \in [I -> Nat]
        BY <3>2, <3>4
      <4> QED BY ONLY <4>1, <4>2, BeforeSums
    <3>7. taken(order, k) \in Nat /\ taken(order, k) <= Cardinality(V)
      <4>1. IsFiniteSet(p.queue) /\ taken(order, k) = w[I]
        BY <1>0, <3>6, FiniteTxs
      <4>2. IsFiniteSet(I) /\ Sums(I, f, w)
        BY <3>2, <3>6
      <4> HIDE DEF I, f, g, taken
      <4>3. V \in SUBSET p.queue /\ g \in [I -> SUBSET V]
        BY <3>4
      <4>4. IsFiniteSet(V)
        BY <4>1, <4>3, FS_Subset
      <4> HIDE DEF V
      <4>5. w[I] \in Nat /\ w[I] <= Cardinality(V)
        BY <3>4, <3>5, <4>2, <4>3, <4>4, SumWithin
      <4> QED BY <4>1, <4>5
    <3>8. V \in SUBSET S /\ V \in SUBSET p.queue
      BY <2>5, <3>3
    <3>9. V \cap O(k) = {}
      BY <2>3, <3>2 DEF Of
    <3> HIDE DEF V, taken, excess, R, f, g, I, K
    <3>10. CASE taken(order, k) >= excess
      <4>1. R \in SUBSET (p.queue \ V)
        BY <2>9, <3>8
      <4>2. Cardinality(V) >= Cardinality(p.queue) - GlobalQueue
        <5>1. Cardinality(V) \in Nat
          BY <1>0, <3>8, FiniteTxs
        <5> QED BY <1>0, <3>7, <3>10, <5>1 DEF excess
      <4>3. Cardinality(R) <= GlobalQueue
        BY <1>0, <3>8, <4>1, <4>2, RestFits
      <4> QED BY <4>3 DEF R
    <3>11. CASE ~(taken(order, k) >= excess)
      <4>0. excess \in Int /\ O(k) \in SUBSET Tx
        BY <1>0, <2>4 DEF excess
      <4>1. H \in SUBSET S /\ H \in SUBSET O(k)
        <5>1. taken(order, k) < excess
          BY <3>7, <3>11, <4>0
        <5>2. H \subseteq O(k)
          BY DEF Highest
        <5> HIDE DEF H, O
        <5> QED BY <2>6, <3>2, <5>1, <5>2 DEF H
      <4>2. H # O(k)
        BY <3>1, <4>1 DEF K
      <4>3. Cardinality(H) >= excess - taken(order, k)
        <5>1. excess - taken(order, k) \in Int
          BY <3>7, <4>0
        <5> HIDE DEF O
        <5> QED BY <4>0, <4>2, <5>1, HighestTakes DEF H
      <4> HIDE DEF H, O
      <4>4. Cardinality(V \cup H) = Cardinality(V) + Cardinality(H)
        <5>1. IsFiniteSet(V) /\ IsFiniteSet(H) /\ V \cap H = {}
              /\ Cardinality(V) \in Nat /\ Cardinality(H) \in Nat
          BY <1>0, <3>8, <3>9, <4>0, <4>1, FiniteTxs
        <5>2. Cardinality(V \cup H) = Cardinality(V) + Cardinality(H) - Cardinality(V \cap H)
          BY <5>1, FS_Union
        <5>3. Cardinality(V \cap H) = 0
          BY <5>1, FS_EmptySet
        <5> QED BY <5>1, <5>2, <5>3
      <4>5. Cardinality(V) \in Nat /\ Cardinality(H) \in Nat
        BY <1>0, <3>8, <4>0, <4>1, FiniteTxs
      <4>6. Cardinality(V \cup H) >= Cardinality(p.queue) - GlobalQueue
        BY <1>0, <3>7, <4>3, <4>4, <4>5 DEF excess
      <4>7. V \cup H \in SUBSET p.queue /\ R \in SUBSET (p.queue \ (V \cup H))
        BY <2>5, <2>9, <3>8, <4>1
      <4>8. Cardinality(R) <= GlobalQueue
        BY <1>0, <4>6, <4>7, RestFits
      <4> QED BY <4>8 DEF R
    <3> QED BY <3>10, <3>11
  <2> QED BY <2>10, <2>11
<1> QED BY <1>1, <1>2

-----------------------------------------------------------------------------
(* The invariant *)

\* The events of the run in progress.
Sending == IF cur = None THEN {} ELSE cur.events

\* While nothing was rewound, a pending transaction was announced, or waits in
\* the run in progress or in the next one: what makes PendingIsAnnounced
\* inductive.
Announced ==
    rewinds = 0 => missing = {} /\ pool.pending \subseteq announced \cup next.events \cup Sending

IInv == TypeOK /\ Tidy(pool) /\ rewinds \in Nat /\ Announced

\* The same of the state after a step, and what LocalsAreKept says of the step.
LocalsStay ==
    \A t \in All(pool) \ All(pool') :
          \/ Sender[t] \notin pool.accts
          \/ Nonce[t] < StateNonce[pool'.state][Sender[t]]
          \/ Cost[t] > Balance[pool'.state][Sender[t]]
          \/ \E u \in All(pool') : SameSlot(t, u)

Good == IInv' /\ LocalsStay

\* The pool of a state of the invariant.
LEMMA PoolIsTidy == IInv => pool \in TidyPools
BY DEF IInv, TypeOK, TidyPools

\* A step that keeps the local transactions of the pool, on the same state.
LEMMA KeptStay == Kept(pool, pool') => LocalsStay
BY DEF Kept, LocalsStay

\* A step that leaves the pool alone.
LEMMA SamePoolStays == pool' = pool => LocalsStay
BY DEF LocalsStay

\* Init: nothing is there.
LEMMA InitIInv == Init => IInv
<1> SUFFICES ASSUME Init PROVE IInv
  OBVIOUS
<1>1. Genesis \in Block /\ StateNonce[Genesis] \in [Addr -> Nat]
  BY PoolAssumption, StateNonceType
<1>2. pool \in Pools /\ Tidy(pool) /\ pool.pending = {}
  BY <1>1 DEF Init, EmptyPool, Pools, Tidy, All
<1>3. gasPrice \in Prices
  BY PoolAssumption, MinIsLeast DEF Init
<1>4. TypeOK
  BY <1>1, <1>2, <1>3 DEF Init, TypeOK, EmptyRun, Resets
<1>5. Announced
  BY <1>2 DEF Init, Announced
<1> QED BY <1>2, <1>4, <1>5 DEF IInv, Init

\* addTxs before the lock.
LEMMA CheckTxStep ==
    ASSUME IInv, NEW t \in Tx, NEW local \in BOOLEAN, CheckTx(t, local)
    PROVE  Good
<1>1. TypeOK'
  BY DEF CheckTx, IInv, TypeOK, loopVars
<1>2. Announced'
  BY DEF CheckTx, IInv, Announced, Sending, loopVars
<1> QED BY <1>1, <1>2, SamePoolStays DEF CheckTx, IInv, Good, Tidy, All

\* addTxsLocked: a transaction that replaces a pending one is an event of the
\* next run.
LEMMA AddTxStep ==
    ASSUME IInv, NEW c \in inflight, AddTx(c)
    PROVE  Good
<1>0. c.tx \in Tx /\ c.local \in BOOLEAN /\ Sender[c.tx] \in Addr /\ pool \in TidyPools
  BY PoolIsTidy, Amounts DEF IInv, TypeOK
<1>1. PICK o \in Add(pool, c.tx, c.local) :
          /\ pool' = o.pool
          /\ journal' = IF o.ok /\ Sender[c.tx] \in o.pool.accts
                        THEN journal \cup {c.tx} ELSE journal
          /\ requests' = requests \cup {IF o.dirty THEN {Sender[c.tx]} ELSE {}}
          /\ next' = IF o.event THEN [next EXCEPT !.events = PutEvents(@, {c.tx})] ELSE next
  BY DEF AddTx
<1>2. Added(pool, o, c.tx)
  BY <1>0, AddAdds
<1>3. /\ next' \in [launch : BOOLEAN, reset : Resets, dirty : SUBSET Addr, events : SUBSET Tx]
      /\ next'.events = IF o.event THEN PutEvents(next.events, {c.tx}) ELSE next.events
  BY <1>0, <1>1 DEF IInv, TypeOK, PutEvents
<1>4. /\ gasPrice' = gasPrice /\ cur' = cur /\ head' = head /\ missing' = missing
      /\ announced' = announced /\ rewinds' = rewinds /\ inflight' = inflight \ {c}
  BY DEF AddTx, boundVars
<1>5. pool' \in Pools /\ Tidy(pool')
  BY <1>1, <1>2 DEF Added, TidyPools
<1>6. TypeOK'
  BY <1>0, <1>1, <1>3, <1>4, <1>5 DEF IInv, TypeOK
<1>7. Announced'
  <2>1. CASE o.event
    <3>1. pool'.pending \subseteq (pool.pending \ Slot(pool.pending, c.tx)) \cup {c.tx}
      BY <1>1, <1>2, <2>1 DEF Added
    <3>2. \A u \in next.events : u \in next'.events \/ SameSlot(u, c.tx)
      BY <1>3, <2>1 DEF PutEvents, Slot, SameSlot
    <3>3. c.tx \in next'.events
      BY <1>3, <2>1 DEF PutEvents
    <3>4. \A u \in pool'.pending : u = c.tx \/ (u \in pool.pending /\ ~SameSlot(u, c.tx))
      BY <3>1 DEF Slot
    <3> QED BY <1>4, <3>2, <3>3, <3>4 DEF IInv, Announced, Sending
  <2>2. CASE ~o.event
    BY <1>1, <1>2, <1>3, <1>4, <2>2 DEF Added, IInv, Announced, Sending
  <2> QED BY <2>1, <2>2
<1>8. LocalsStay
  BY <1>1, <1>2, KeptStay DEF Added
<1> QED BY <1>4, <1>5, <1>6, <1>7, <1>8 DEF Good, IInv, Tidy, All

\* Removing transactions of accounts that are not local.
LEMMA RemovalStep ==
    ASSUME IInv, NEW S \in SUBSET Tx, \A t \in S : Sender[t] \notin pool.accts,
           pool' = RemoveAll(pool, S), gasPrice' \in Prices,
           UNCHANGED <<journal, inflight, requests, next, cur, head, missing, announced, rewinds>>
    PROVE  Good
<1>1. pool' \in TidyPools /\ Shrinks(pool, pool', S)
  BY PoolIsTidy, RemoveAllTidy
<1>2. TypeOK'
  BY <1>1 DEF IInv, TypeOK, TidyPools
<1>3. Announced'
  BY <1>1 DEF IInv, Announced, Sending, Shrinks
<1>4. LocalsStay
  BY <1>1, ShrinksKept, KeptStay
<1> QED BY <1>1, <1>2, <1>3, <1>4 DEF Good, IInv, TidyPools, Tidy, All

\* A higher threshold.
LEMMA SetGasPriceStep ==
    ASSUME IInv, NEW price \in Prices, SetGasPrice(price)
    PROVE  Good
<1>1. /\ gasPrice' = price
      /\ UNCHANGED <<journal, inflight, requests, next, cur, head, missing, announced, rewinds>>
  BY DEF SetGasPrice, loopVars
<1>2. CASE price > gasPrice
  <2> DEFINE S == {t \in pool.remotes : Price[t] < price}
  <2>1. S \in SUBSET Tx /\ \A t \in S : Sender[t] \notin pool.accts
    BY DEF IInv, TypeOK, Pools, Tidy
  <2>2. pool' = RemoveAll(pool, S)
    BY <1>2 DEF SetGasPrice
  <2> HIDE DEF S
  <2> QED BY <1>1, <2>1, <2>2, RemovalStep
<1>3. CASE ~(price > gasPrice)
  <2>1. pool' = pool
    BY <1>3 DEF SetGasPrice
  <2>2. TypeOK' /\ Announced'
    BY <1>1, <2>1 DEF IInv, TypeOK, Announced, Sending
  <2> QED BY <1>1, <2>1, <2>2, SamePoolStays DEF Good, IInv, Tidy, All
<1> QED BY <1>2, <1>3

\* The eviction ticker.
LEMMA EvictStep ==
    ASSUME IInv, NEW a \in Addr, Evict(a)
    PROVE  Good
<1>1. Of(pool.queue, a) \in SUBSET Tx /\ \A t \in Of(pool.queue, a) : Sender[t] \notin pool.accts
  BY DEF IInv, TypeOK, Pools, Of, Evict
<1>2. /\ pool' = RemoveAll(pool, Of(pool.queue, a)) /\ gasPrice' \in Prices
      /\ UNCHANGED <<journal, inflight, requests, next, cur, head, missing, announced, rewinds>>
  BY DEF Evict, loopVars, boundVars, IInv, TypeOK
<1> QED BY <1>1, <1>2, RemovalStep

\* The journal ticker.
LEMMA RotateStep == ASSUME IInv, RotateJournal PROVE Good
<1>1. TypeOK'
  BY DEF RotateJournal, IInv, TypeOK, Pools, loopVars
<1>2. Announced'
  BY DEF RotateJournal, IInv, Announced, Sending, loopVars, boundVars
<1> QED BY <1>1, <1>2, SamePoolStays DEF RotateJournal, IInv, Good, Tidy, All, boundVars

\* Chain head events only fill the next run.
LEMMA RequestStep ==
    ASSUME IInv, NEW b \in Block, RequestReset(b), missing' \in SUBSET Block, rewinds' \in Nat,
           rewinds' = 0 => rewinds = 0 /\ missing' = {}
    PROVE  Good
<1>1. /\ next' \in [launch : BOOLEAN, reset : Resets, dirty : SUBSET Addr, events : SUBSET Tx]
      /\ next'.events = next.events
  <2> DEFINE reset == IF next.reset = None THEN [old |-> head, new |-> b]
                      ELSE [next.reset EXCEPT !.new = b]
  <2>1. reset \in Resets
    BY DEF IInv, TypeOK, Resets
  <2>2. next' = [next EXCEPT !.launch = TRUE, !.reset = reset]
    BY DEF RequestReset
  <2> HIDE DEF reset
  <2> QED BY <2>1, <2>2 DEF IInv, TypeOK
<1>2. TypeOK'
  BY <1>1 DEF RequestReset, IInv, TypeOK
<1>3. Announced'
  BY <1>1 DEF RequestReset, IInv, Announced, Sending
<1> QED BY <1>2, <1>3, SamePoolStays DEF RequestReset, IInv, Good, Tidy, All

\* The chain adopts a block.
LEMMA NewHeadStep == ASSUME IInv, NEW b \in Block, NewHead(b) PROVE Good
<1>1. missing' \in SUBSET Block /\ rewinds' = rewinds /\ (rewinds = 0 => missing' = {})
  BY DEF NewHead, IInv, TypeOK, Announced
<1>2. rewinds' \in Nat
  BY <1>1 DEF IInv
<1> QED BY <1>1, <1>2, RequestStep DEF NewHead

\* The chain is rewound.
LEMMA RewindStep == ASSUME IInv, NEW b \in Block, RewindTo(b) PROVE Good
<1>1. missing' \in SUBSET Block /\ rewinds' \in Nat /\ rewinds' # 0
  BY DEF RewindTo, IInv, TypeOK
<1> QED BY <1>1, RequestStep DEF RewindTo

\* Requests received and runs launched and ended.
LEMMA ReceiveStep == ASSUME IInv, NEW d \in requests, ReceivePromote(d) PROVE Good
<1>1. /\ next' \in [launch : BOOLEAN, reset : Resets, dirty : SUBSET Addr, events : SUBSET Tx]
      /\ next'.events = next.events
  BY DEF ReceivePromote, IInv, TypeOK
<1>2. TypeOK'
  BY <1>1 DEF ReceivePromote, IInv, TypeOK
<1>3. Announced'
  BY <1>1 DEF ReceivePromote, IInv, Announced, Sending, boundVars
<1> QED BY <1>2, <1>3, SamePoolStays DEF ReceivePromote, IInv, Good, Tidy, All, boundVars

\* The events collected go to the run.
LEMMA LaunchStep == ASSUME IInv, LaunchReorg PROVE Good
<1>1. cur' \in Runs /\ cur'.events = next.events /\ next' = EmptyRun
  BY DEF LaunchReorg, Runs, IInv, TypeOK
<1>2. Sending = {} /\ Sending' = next.events
  BY <1>1, PoolAssumption DEF LaunchReorg, Sending
<1>3. TypeOK'
  BY <1>1 DEF LaunchReorg, IInv, TypeOK, EmptyRun, Resets
<1>4. Announced'
  BY <1>2 DEF LaunchReorg, IInv, Announced, boundVars
<1> QED BY <1>3, <1>4, SamePoolStays DEF LaunchReorg, IInv, Good, Tidy, All, boundVars

\* A run that panics keeps its events, and no further step is taken.
LEMMA PanicStep == ASSUME IInv, ResetPanics PROVE Good
<1>1. cur \in Runs /\ cur' \in Runs /\ cur'.events = cur.events
  BY DEF ResetPanics, Runs, IInv, TypeOK
<1>2. Sending' = Sending
  BY <1>1, PoolAssumption DEF Sending
<1>3. TypeOK'
  BY <1>1 DEF ResetPanics, IInv, TypeOK
<1>4. Announced'
  BY <1>2 DEF ResetPanics, IInv, Announced, boundVars
<1> QED BY <1>3, <1>4, SamePoolStays DEF ResetPanics, IInv, Good, Tidy, All, boundVars

\* The run announces its events.
LEMMA FinishStep == ASSUME IInv, FinishReorg PROVE Good
<1>1. cur \in Runs /\ cur' = None /\ announced' = announced \cup cur.events
  BY DEF FinishReorg, IInv, TypeOK
<1>2. Sending = cur.events /\ Sending' = {}
  BY <1>1, PoolAssumption DEF Sending
<1>3. TypeOK'
  BY <1>1 DEF FinishReorg, IInv, TypeOK, Runs
<1>4. Announced'
  BY <1>1, <1>2 DEF FinishReorg, IInv, Announced, boundVars
<1> QED BY <1>3, <1>4, SamePoolStays DEF FinishReorg, IInv, Good, Tidy, All, boundVars

\* Steps of runReorg one after the other.
LEMMA TrimsMore ==
    ASSUME NEW p \in TidyPools, NEW q, NEW r, Trims(p, q), Trims(q, r)
    PROVE  Trims(p, r)
BY KeptMore DEF Trims, TidyPools

\* The locked part of runReorg.  A pending transaction was promoted now, or is
\* announced by a reinjection, or was pending already: then it was announced, or
\* its event is not dropped for its nonce, because a mined transaction is not
\* pending any more.
LEMMA RunStep == ASSUME IInv, RunReorg PROVE Good /\ WithinLimits(pool')
<1> DEFINE resetting == cur.reset # None
           starts == IF resetting THEN Reset(pool, cur.reset.old, cur.reset.new)
                     ELSE {[pool |-> pool, events |-> {}, logged |-> {}]}
           accts(r) == IF resetting THEN {a \in Addr : Of(r.pool.queue, a) # {}} ELSE cur.dirty
           fresh(r) == IF resetting
                       THEN {t \in cur.events : Nonce[t] >= r.pool.nonces[Sender[t]]} ELSE cur.events
           new(r) == UNION {Promoted(r.pool, a) : a \in accts(r)}
           p(r) == PromoteExecutables(r.pool, accts(r))
           q(r) == IF resetting THEN SetAllNonces(DemoteUnexecutables(p(r))) ELSE p(r)
<1>0. cur \in Runs /\ pool \in TidyPools /\ Sending = cur.events
  BY PoolIsTidy, PoolAssumption DEF RunReorg, IInv, TypeOK, Sending
<1>1. PICK r \in starts :
            /\ \E z \in TruncateQueue(TruncatePending(q(r))) : pool' = [z EXCEPT !.changes = 0]
            /\ cur' = [cur EXCEPT !.phase = "send", !.events = PutEvents(fresh(r), new(r))]
            /\ next' = [next EXCEPT !.events = PutEvents(@, r.events)]
            /\ journal' = journal \cup r.logged
  BY DEF RunReorg
<1>2. PICK z \in TruncateQueue(TruncatePending(q(r))) : pool' = [z EXCEPT !.changes = 0]
  BY <1>1
<1>3. PICK s \in TidyPools :
        /\ r \in Results(s) /\ All(s) = All(pool) /\ s.pending = pool.pending /\ s.accts = pool.accts
        /\ missing = {} /\ resetting => s.nonces = StateNonce[s.state]
  <2>1. CASE resetting
    <3>1. cur.reset.old \in Block /\ cur.reset.new \in Block
      BY <1>0, <2>1 DEF Runs, Resets
    <3>2. r \in Reset(pool, cur.reset.old, cur.reset.new)
      BY <2>1
    <3> QED BY <1>0, <3>1, <3>2, ResetResults
  <2>2. CASE ~resetting
    BY <1>0, <2>2, NoResult
  <2> QED BY <2>1, <2>2
<1>4. r.pool \in TidyPools /\ Kept(s, r.pool) /\ r.events \in SUBSET Tx /\ r.logged \in SUBSET Tx
  BY <1>3 DEF Results
<1>5. accts(r) \in SUBSET Addr
  BY <1>0 DEF Runs
<1> DEFINE A == accts(r)
           N == new(r)
           F == fresh(r)
           P == p(r)
           Q == q(r)
           T == TruncatePending(Q)
<1>6. Trims(r.pool, P) /\ P.pending = r.pool.pending \cup N /\ N \subseteq r.pool.queue
  <2> HIDE DEF accts
  <2> QED BY <1>4, <1>5, PromoteTrims
<1>7. /\ Trims(P, Q) /\ Q.pending \subseteq P.pending
      /\ resetting => \A t \in Q.pending : Nonce[t] >= StateNonce[P.state][Sender[t]]
  <2> HIDE DEF p
  <2>0. P \in TidyPools
    BY <1>6 DEF Trims
  <2>1. CASE resetting
    <3> DEFINE D == DemoteUnexecutables(P)
    <3>1. Trims(P, D) /\ \A t \in D.pending : /\ t \in P.pending
                                              /\ Nonce[t] >= StateNonce[P.state][Sender[t]]
      BY <2>0, DemoteTrims
    <3> HIDE DEF D
    <3>2. Trims(D, SetAllNonces(D)) /\ SetAllNonces(D).pending = D.pending
      BY <3>1, NoncesTrim DEF Trims
    <3>3. Q = SetAllNonces(D)
      BY <2>1 DEF D
    <3> QED BY <2>0, <3>1, <3>2, <3>3, TrimsMore
  <2>2. CASE ~resetting
    BY <2>0, <2>2 DEF Trims, Kept
  <2> QED BY <2>1, <2>2
<1>8. Trims(Q, T) /\ T.pending \subseteq Q.pending
  <2> HIDE DEF q
  <2> QED BY <1>7, PendingTrims DEF Trims
<1>9. Trims(T, z) /\ z.pending \subseteq T.pending
  <2>1. T \in TidyPools /\ z \in TruncateQueue(T)
    BY <1>2, <1>8 DEF Trims
  <2> HIDE DEF T
  <2> QED BY <2>1, QueueTrims
<1> HIDE DEF P, Q, T, N, F, A, p, q, accts, fresh
<1>10. Trims(r.pool, z)
  <2>1. P \in TidyPools /\ Q \in TidyPools /\ T \in TidyPools
    BY <1>6, <1>7, <1>8 DEF Trims
  <2>2. Trims(r.pool, Q)
    BY <1>4, <1>6, <1>7, TrimsMore
  <2>3. Trims(r.pool, T)
    BY <1>4, <1>8, <2>2, TrimsMore
  <2> QED BY <1>4, <1>9, <2>3, TrimsMore
<1>11. Kept(s, z) /\ z \in TidyPools /\ z \in Pools
  BY <1>4, <1>10, KeptMore DEF Trims, TidyPools
<1>12. /\ pool' \in Pools /\ pool'.pending = z.pending /\ pool'.queue = z.queue
       /\ pool'.remotes = z.remotes /\ pool'.locals = z.locals /\ pool'.accts = z.accts
       /\ pool'.state = z.state
  BY <1>2, <1>11 DEF Pools
<1>13. Tidy(pool') /\ All(pool') = All(z)
  BY <1>11, <1>12 DEF Tidy, TidyPools, All
<1>14. LocalsStay
  BY <1>3, <1>11, <1>12, <1>13 DEF Kept, LocalsStay
<1>15. /\ N \in SUBSET Tx /\ F \in SUBSET Tx
       /\ PutEvents(F, N) \in SUBSET Tx /\ PutEvents(next.events, r.events) \in SUBSET Tx
  BY <1>0, <1>4, <1>6 DEF PutEvents, IInv, TypeOK, TidyPools, Pools, Runs, F, fresh
<1>16. cur' \in Runs /\ cur'.events = PutEvents(F, N)
  BY <1>0, <1>1, <1>15 DEF Runs, F, N
<1>17. /\ next' \in [launch : BOOLEAN, reset : Resets, dirty : SUBSET Addr, events : SUBSET Tx]
       /\ next'.events = PutEvents(next.events, r.events)
  BY <1>1, <1>15 DEF IInv, TypeOK
<1>18. /\ gasPrice' = gasPrice /\ inflight' = inflight /\ requests' = requests /\ head' = head
       /\ missing' = missing /\ announced' = announced /\ rewinds' = rewinds
  BY DEF RunReorg, boundVars
<1>19. TypeOK'
  BY <1>1, <1>4, <1>12, <1>16, <1>17, <1>18 DEF IInv, TypeOK
<1>20. Sending' = PutEvents(F, N)
  BY <1>16, PoolAssumption DEF Sending
<1>21. ASSUME rewinds = 0, NEW t \in pool'.pending
       PROVE  t \in announced \/ t \in PutEvents(next.events, r.events) \/ t \in PutEvents(F, N)
  <2>1. t \in Q.pending /\ (t \in r.pool.pending \/ t \in N)
    BY <1>6, <1>7, <1>8, <1>9, <1>12, <1>21
  <2>2. CASE t \in N
    BY <2>2 DEF PutEvents
  <2>3. CASE t \in r.events
    BY <2>3 DEF PutEvents
  <2>4. CASE t \in r.pool.pending /\ t \notin r.events
    <3>1. t \in pool.pending /\ Slot(r.events, t) = {}
      BY <1>3, <2>4 DEF Results
    <3>2. t \in announced \/ t \in next.events \/ t \in cur.events
      BY <1>0, <1>21, <3>1 DEF IInv, Announced
    <3>3. CASE t \in next.events
      BY <3>1, <3>3 DEF PutEvents
    <3>4. CASE t \in cur.events
      <4>1. Slot(N, t) = {}
        BY <1>4, <1>6, <2>4 DEF TidyPools, Tidy, Slot, SameSlot, All
      <4>2. t \in F
        <5>1. CASE ~resetting
          BY <3>4, <5>1 DEF F, fresh
        <5>2. CASE resetting
          <6>1. s.nonces = StateNonce[s.state]
            BY <1>3, <1>21, <5>2 DEF IInv, Announced
          <6>2. r.pool.nonces[Sender[t]] <= s.nonces[Sender[t]] /\ Sender[t] \in Addr
            <7>1. t \in Tx
              BY <3>1 DEF IInv, TypeOK, Pools
            <7> QED BY <1>3, <7>1, Amounts DEF Results
          <6>3. P.state = s.state
            BY <1>4, <1>6 DEF Trims, Kept
          <6>4. Nonce[t] >= StateNonce[s.state][Sender[t]]
            BY <1>7, <2>1, <5>2, <6>3
          <6>5. Nonce[t] >= r.pool.nonces[Sender[t]]
            <7>1. Nonce[t] \in Nat /\ r.pool.nonces[Sender[t]] \in Nat /\ s.nonces[Sender[t]] \in Nat
              BY <1>4, <3>1, <6>2, Amounts DEF IInv, TypeOK, TidyPools, Pools
            <7> QED BY <6>1, <6>2, <6>4, <7>1
          <6> QED BY <3>4, <5>2, <6>5 DEF F, fresh
        <5> QED BY <5>1, <5>2
      <4> QED BY <4>1, <4>2 DEF PutEvents
    <3> QED BY <3>2, <3>3, <3>4
  <2> QED BY <2>1, <2>2, <2>3, <2>4
<1>22. Announced'
  BY <1>17, <1>18, <1>20, <1>21 DEF IInv, Announced
<1>23. Cardinality({t \in z.queue : Sender[t] \notin z.accts}) <= GlobalQueue
  <2>1. T \in TidyPools /\ z \in TruncateQueue(T)
    BY <1>2, <1>8 DEF Trims, T, Q
  <2> QED BY <2>1, QueueWithin
<1>24. \/ Cardinality(z.pending) <= GlobalSlots
       \/ \A a \in Addr \ z.accts : Cardinality(Of(z.pending, a)) <= AccountSlots
  <2>1. Q \in TidyPools /\ T \in TidyPools /\ Q.accts \subseteq z.accts
    BY <1>7, <1>8, <1>9 DEF Trims, Kept
  <2>2. \/ Cardinality(T.pending) <= GlobalSlots
        \/ \A a \in Addr \ Q.accts : Cardinality(Of(T.pending, a)) <= AccountSlots
    BY <2>1, PendingWithin DEF T
  <2>3. ASSUME NEW V \in SUBSET Tx, NEW W \in SUBSET V, NEW m \in Nat, Cardinality(V) <= m
        PROVE  Cardinality(W) <= m
    <3>1. Cardinality(W) <= Cardinality(V)
      BY FiniteTxs, FS_Subset
    <3>2. Cardinality(W) \in Nat /\ Cardinality(V) \in Nat
      BY FiniteTxs
    <3> QED BY <2>3, <3>1, <3>2
  <2>4. T.pending \in SUBSET Tx /\ z.pending \in SUBSET T.pending
        /\ GlobalSlots \in Nat /\ AccountSlots \in Nat
    BY <1>9, <2>1, PoolAssumption DEF TidyPools, Pools
  <2>5. \A a : Of(T.pending, a) \in SUBSET Tx /\ Of(z.pending, a) \in SUBSET Of(T.pending, a)
    BY <2>4 DEF Of
  <2>6. CASE Cardinality(T.pending) <= GlobalSlots
    BY <2>3, <2>4, <2>6
  <2>7. CASE \A a \in Addr \ Q.accts : Cardinality(Of(T.pending, a)) <= AccountSlots
    BY <2>1, <2>3, <2>4, <2>5, <2>7
  <2> QED BY <2>2, <2>6, <2>7
<1>25. WithinLimits(pool')
  BY <1>12, <1>23, <1>24 DEF WithinLimits
<1> QED BY <1>13, <1>14, <1>18, <1>19, <1>22, <1>25 DEF Good, IInv, Tidy, All

\* Every step keeps the invariant and the local transactions.
LEMMA NextGood == IInv /\ [Next]_vars => Good
<1> SUFFICES ASSUME IInv, [Next]_vars PROVE Good
  OBVIOUS
<1>1. CASE UNCHANGED vars
  <2>1. TypeOK' /\ Announced'
    BY <1>1 DEF vars, IInv, TypeOK, Announced, Sending
  <2> QED BY <1>1, <2>1, SamePoolStays DEF vars, IInv, Good, Tidy, All
<1>2. ASSUME NEW t \in Tx, NEW local \in BOOLEAN, CheckTx(t, local) PROVE Good
  BY <1>2, CheckTxStep
<1>3. ASSUME NEW c \in inflight, AddTx(c) PROVE Good
  BY <1>3, AddTxStep
<1>4. ASSUME NEW price \in Prices, SetGasPrice(price) PROVE Good
  BY <1>4, SetGasPriceStep
<1>5. ASSUME NEW b \in Block, NewHead(b) PROVE Good
  BY <1>5, NewHeadStep
<1>6. ASSUME NEW b \in Block, RewindTo(b) PROVE Good
  BY <1>6, RewindStep
<1>7. ASSUME NEW a \in Addr, Evict(a) PROVE Good
  BY <1>7, EvictStep
<1>8. CASE RotateJournal
  BY <1>8, RotateStep
<1>9. ASSUME NEW d \in requests, ReceivePromote(d) PROVE Good
  BY <1>9, ReceiveStep
<1>10. CASE LaunchReorg \/ RunReorg \/ ResetPanics \/ FinishReorg
  BY <1>10, LaunchStep, RunStep, PanicStep, FinishStep
<1> QED BY <1>1, <1>2, <1>3, <1>4, <1>5, <1>6, <1>7, <1>8, <1>9, <1>10 DEF Next, LoopStep

-----------------------------------------------------------------------------
(* The theorems *)

\* The pool's fields hold what they are declared to hold; its nonces are numbers
\* after any demotion, truncation and reset.
THEOREM TypeCorrect == Spec => []TypeOK
<1>1. IInv => TypeOK
  BY DEF IInv
<1>2. Good => IInv'
  BY DEF Good
<1> QED BY <1>1, <1>2, InitIInv, NextGood, PTL DEF Spec

\* The lookup holds exactly what the lists hold, one transaction a slot: after
\* any sequence of additions, replacements, evictions, promotions, demotions and
\* truncations, removing by nonce removes the right transaction.
THEOREM ListsMatchLookup == Spec => []LookupMatchesLists
<1>1. IInv => LookupMatchesLists
  BY DEF IInv, Tidy, LookupMatchesLists
<1>2. Good => IInv'
  BY DEF Good
<1> QED BY <1>1, <1>2, InitIInv, NextGood, PTL DEF Spec

\* Whenever no run is in progress, what is pending was announced or is an event
\* of the next run, however requests, resets and reinjections were merged.
THEOREM PendingAnnounced == Spec => []PendingIsAnnounced
<1>1. IInv => PendingIsAnnounced
  BY DEF IInv, Announced, Sending, PendingIsAnnounced
<1>2. Good => IInv'
  BY DEF Good
<1> QED BY <1>1, <1>2, InitIInv, NextGood, PTL DEF Spec

\* No step drops a transaction of a local account for its price or for lack of
\* room.
THEOREM LocalsKept == Spec => LocalsAreKept
<1> DEFINE Stay == \A t \in All(pool) \ All(pool') :
                      \/ Sender[t] \notin pool.accts
                      \/ Nonce[t] < StateNonce[pool'.state][Sender[t]]
                      \/ Cost[t] > Balance[pool'.state][Sender[t]]
                      \/ \E u \in All(pool') : SameSlot(t, u)
<1>1. Good => IInv' /\ Stay
  BY DEF Good, LocalsStay
<1>2. IInv /\ [Next]_vars => IInv' /\ [Stay]_vars
  BY <1>1, NextGood
<1>3. Spec => [][Stay]_vars
  <2> HIDE DEF Stay
  <2> QED BY <1>2, InitIInv, PTL DEF Spec
<1> QED BY <1>3 DEF LocalsAreKept

\* A run that does not panic leaves the pool within its limits, whatever it
\* promoted, demoted and reinjected: no other step ends the locked part of a run.
THEOREM LimitsKept == Spec => LimitsRestored
<1> DEFINE Ends == cur # None /\ cur.phase = "run" /\ cur' # cur /\ Running'
           Limits == Ends => WithinLimits(pool')
<1>1. ASSUME IInv, Next, Ends PROVE RunReorg
  <2>1. CASE RunReorg
    BY <2>1
  <2>2. CASE ResetPanics
    <3>1. cur \in Runs /\ cur' = [cur EXCEPT !.phase = "panic"]
      BY <1>1, <2>2 DEF IInv, TypeOK, ResetPanics
    <3>2. cur' \in Runs /\ cur'.phase = "panic"
      BY <3>1 DEF Runs
    <3> QED BY <1>1, <3>2, PoolAssumption DEF Running
  <2>3. CASE LaunchReorg \/ FinishReorg
    BY <1>1, <2>3 DEF LaunchReorg, FinishReorg
  <2>4. CASE cur' = cur
    BY <1>1, <2>4
  <2>5. RunReorg \/ ResetPanics \/ LaunchReorg \/ FinishReorg \/ cur' = cur
    BY <1>1 DEF Next, LoopStep, CheckTx, AddTx, SetGasPrice, NewHead, RewindTo, RequestReset,
                Evict, RotateJournal, ReceivePromote, loopVars
  <2> QED BY <2>1, <2>2, <2>3, <2>4, <2>5
<1>2. IInv /\ [Next]_vars => [Limits]_vars
  BY <1>1, RunStep
<1>3. Good => IInv'
  BY DEF Good
<1>4. Spec => [][Limits]_vars
  <2> HIDE DEF Limits
  <2> QED BY <1>2, <1>3, InitIInv, NextGood, PTL DEF Spec
<1> QED BY <1>4 DEF LimitsRestored

=============================================================================
