------------------------------ MODULE Emission ------------------------------
(***************************************************************************)
(* The R5 emission schedule: the supply cap, the super epochs, the reward  *)
(* credited by the ethash engine when a block is finalized, and the        *)
(* closed-form circulating supply the engine and the RPC compute from a    *)
(* block number (client/consensus/ethash/consensus.go).                    *)
(*                                                                         *)
(* Amounts are in units of 1/32 R5, the smallest reward of the schedule,   *)
(* so every amount the code handles here is a natural number.              *)
(***************************************************************************)
EXTENDS Integers

CONSTANTS
    E1, E2, E3, E4, E5, E6,   \* epoch1End .. epoch6End
    FinalBlock,               \* finalBlock
    PreminedSupply,           \* preminedSupply
    SupplyCap,                \* SupplyCap
    BaseBlock,                \* the canonical block the behaviour starts from
    Horizon                   \* bound: no block beyond this number is finalized

\* What the constants of the code satisfy: the epochs follow one another and
\* the last one has begun when the final block is reached.
ASSUME ScheduleAssumption ==
    /\ {E1, E2, E3, E4, E5, E6, FinalBlock, PreminedSupply, SupplyCap,
        BaseBlock, Horizon} \subseteq Nat
    /\ 1 <= E1 /\ E1 < E2 /\ E2 < E3 /\ E3 < E4 /\ E4 < E5 /\ E5 < E6
    /\ E6 < FinalBlock
    /\ BaseBlock < FinalBlock /\ BaseBlock <= Horizon

VARIABLES
    number,     \* number of the current head block
    supplyAt    \* supplyAt[n]: total balance in the state of canonical block n

vars == <<number, supplyAt>>

-----------------------------------------------------------------------------
\* Mutant: the last block of a finished epoch is not counted.
MinBlocksOffByOne(blockNum, start, end) ==
    IF blockNum < start THEN 0
    ELSE IF blockNum > end THEN end - start
    ELSE blockNum - start + 1

\* minBlocks: how many blocks of [start, end] are at or below blockNum.
MinBlocks(blockNum, start, end) ==
    IF blockNum < start THEN 0
    ELSE IF blockNum > end THEN end - start + 1
    ELSE blockNum - start + 1

\* The sum over the seven epochs, valid below FinalBlock.
ScheduledSupply(blockNum) ==
    PreminedSupply
      + 64 * MinBlocks(blockNum, 1, E1)
      + 32 * MinBlocks(blockNum, E1 + 1, E2)
      + 16 * MinBlocks(blockNum, E2 + 1, E3)
      +  8 * MinBlocks(blockNum, E3 + 1, E4)
      +  4 * MinBlocks(blockNum, E4 + 1, E5)
      +  2 * MinBlocks(blockNum, E5 + 1, E6)
      +  (IF blockNum > E6 THEN MinBlocks(blockNum, E6 + 1, blockNum) ELSE 0)

\* The comment on SupplyCap asks that the cap be validated against the final
\* block: the schedule has not passed it when the final block is reached.
ASSUME CapAssumption == ScheduledSupply(FinalBlock - 1) < SupplyCap

\* At or beyond the final block the code returns the literal 66,337,700 R5.
CalculateCirculatingSupply(blockNum) ==
    IF blockNum >= FinalBlock THEN SupplyCap ELSE ScheduledSupply(blockNum)

\* The reward of the super epoch a block lies in.
EpochReward(blockNumber) ==
    CASE blockNumber <= E1                      -> 64
      [] E1 < blockNumber /\ blockNumber <= E2  -> 32
      [] E2 < blockNumber /\ blockNumber <= E3  -> 16
      [] E3 < blockNumber /\ blockNumber <= E4  -> 8
      [] E4 < blockNumber /\ blockNumber <= E5  -> 4
      [] E5 < blockNumber /\ blockNumber <= E6  -> 2
      [] E6 < blockNumber                       -> 1

\* Mutant: the supply is not compared with the cap.
BlockRewardNoCap(blockNumber, totalSupply) == EpochReward(blockNumber)

\* The reward of a block, zero once the given supply has reached the cap.
calculateBlockReward(blockNumber, totalSupply) ==
    IF totalSupply >= SupplyCap THEN 0 ELSE EpochReward(blockNumber)

\* accumulateRewards: the amount credited to the coinbase of block n.  The
\* supply handed to calculateBlockReward is the one after block n itself.
accumulateRewards(n) ==
    calculateBlockReward(n, CalculateCirculatingSupply(n))

-----------------------------------------------------------------------------
Init ==
    /\ number = BaseBlock
    /\ supplyAt = [n \in {BaseBlock} |-> ScheduledSupply(BaseBlock)]

\* Finalize (also run by FinalizeAndAssemble): the next block is executed on
\* the state of its parent and its coinbase is credited.
Finalize ==
    /\ number < Horizon
    /\ number' = number + 1
    /\ supplyAt' = [n \in BaseBlock..(number + 1) |->
                       IF n = number + 1
                       THEN supplyAt[number] + accumulateRewards(n)
                       ELSE supplyAt[n]]

\* SetHead or a reorg: the head moves back to an ancestor and its state.
Rewind(n) ==
    /\ number' = n
    /\ supplyAt' = [m \in BaseBlock..n |-> supplyAt[m]]

Next ==
    \/ Finalize
    \/ \E n \in BaseBlock..(number - 1) : Rewind(n)

Spec == Init /\ [][Next]_vars

-----------------------------------------------------------------------------
\* The head lies in the modelled range and every canonical block has a state.
TypeOK ==
    /\ number \in BaseBlock..Horizon
    /\ supplyAt \in [BaseBlock..number -> Nat]

\* Below the final block, the supply the closed form reports for a block (used
\* by eth_getSupply and to decide the next reward) is exactly what the chain
\* has credited block by block, whatever rewinds happened on the way.
ReportedSupplyIsIssuedSupply ==
    \A n \in BaseBlock..number :
        n < FinalBlock => CalculateCirculatingSupply(n) = supplyAt[n]

\* The cap holds in the state of every block, the final block and beyond
\* included.
SupplyNeverExceedsCap == \A n \in BaseBlock..number : supplyAt[n] <= SupplyCap

\* Once the final block is on the chain no balance is ever minted again.
NoIssuanceAfterFinalBlock ==
    \A n \in BaseBlock..number :
        n >= FinalBlock => supplyAt[n] = supplyAt[FinalBlock - 1]

\* What the comment in CalculateCirculatingSupply says of the final block: the
\* rewards issued by then add up to the cap minus the premine.
FullIssuanceAtFinalBlock ==
    number >= FinalBlock => supplyAt[number] = SupplyCap

=============================================================================
