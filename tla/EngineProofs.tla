---------------------------- MODULE EngineProofs ----------------------------
(***************************************************************************)
(* Theorems about issuance and the ethash engine: the emission schedule,   *)
(* for every schedule that satisfies the assumptions of Emission; the      *)
(* header rules, for all parents, times and constants that satisfy         *)
(* RulesAssumption; and what holds of every tree of blocks that peers and  *)
(* the miner build.                                                        *)
(***************************************************************************)
EXTENDS Engine, FiniteSetTheorems, SequenceTheorems, TLAPS

-----------------------------------------------------------------------------
(* Issuance: the closed-form supply is what the chain has issued, and the  *)
(* cap is never exceeded.                                                  *)

\* The closed form yields a natural number for every block number.
LEMMA ScheduledSupplyType == \A n \in Nat : ScheduledSupply(n) \in Nat
  BY ScheduleAssumption DEF ScheduledSupply, MinBlocks

\* Every reward is a natural number: the epochs leave no block number out.
LEMMA RewardType == ASSUME NEW n \in Nat, NEW s PROVE calculateBlockReward(n, s) \in Nat
  BY ScheduleAssumption DEF calculateBlockReward, EpochReward

\* Going from one block to the next, the closed form grows by the reward of
\* the super epoch that calculateBlockReward selects, at every epoch boundary.
LEMMA ScheduleStep ==
  ASSUME NEW n \in Nat, NEW s \in Nat, s < SupplyCap
  PROVE  /\ calculateBlockReward(n + 1, s) \in Nat
         /\ ScheduledSupply(n + 1) =
              ScheduledSupply(n) + calculateBlockReward(n + 1, s)
<1> DEFINE last(k) == IF k > E6 THEN MinBlocks(k, E6 + 1, k) ELSE 0
<1>a. last(n + 1) = last(n) + (IF E6 < n + 1 THEN 1 ELSE 0) /\ last(n) \in Nat
  BY ScheduleAssumption DEF MinBlocks
<1>b. ~(s >= SupplyCap)
  BY ScheduleAssumption
<1> DEFINE in(lo, hi) == IF lo <= n + 1 /\ n + 1 <= hi THEN 1 ELSE 0
<1>c. /\ MinBlocks(n + 1, 1, E1) = MinBlocks(n, 1, E1) + in(1, E1)
      /\ MinBlocks(n + 1, E1 + 1, E2) = MinBlocks(n, E1 + 1, E2) + in(E1 + 1, E2)
      /\ MinBlocks(n + 1, E2 + 1, E3) = MinBlocks(n, E2 + 1, E3) + in(E2 + 1, E3)
      /\ MinBlocks(n + 1, E3 + 1, E4) = MinBlocks(n, E3 + 1, E4) + in(E3 + 1, E4)
      /\ MinBlocks(n + 1, E4 + 1, E5) = MinBlocks(n, E4 + 1, E5) + in(E4 + 1, E5)
      /\ MinBlocks(n + 1, E5 + 1, E6) = MinBlocks(n, E5 + 1, E6) + in(E5 + 1, E6)
  BY ScheduleAssumption DEF MinBlocks
<1>d. /\ MinBlocks(n, 1, E1) \in Nat
      /\ MinBlocks(n, E1 + 1, E2) \in Nat
      /\ MinBlocks(n, E2 + 1, E3) \in Nat
      /\ MinBlocks(n, E3 + 1, E4) \in Nat
      /\ MinBlocks(n, E4 + 1, E5) \in Nat
      /\ MinBlocks(n, E5 + 1, E6) \in Nat
  BY ScheduleAssumption DEF MinBlocks
<1>e. ScheduledSupply(n + 1) =
        ScheduledSupply(n) + 64 * in(1, E1) + 32 * in(E1 + 1, E2)
          + 16 * in(E2 + 1, E3) + 8 * in(E3 + 1, E4) + 4 * in(E4 + 1, E5)
          + 2 * in(E5 + 1, E6) + (IF E6 < n + 1 THEN 1 ELSE 0)
  <2> HIDE DEF last
  <2>1. /\ ScheduledSupply(n) =
             PreminedSupply + 64 * MinBlocks(n, 1, E1)
               + 32 * MinBlocks(n, E1 + 1, E2) + 16 * MinBlocks(n, E2 + 1, E3)
               + 8 * MinBlocks(n, E3 + 1, E4) + 4 * MinBlocks(n, E4 + 1, E5)
               + 2 * MinBlocks(n, E5 + 1, E6) + last(n)
        /\ ScheduledSupply(n + 1) =
             PreminedSupply + 64 * MinBlocks(n + 1, 1, E1)
               + 32 * MinBlocks(n + 1, E1 + 1, E2) + 16 * MinBlocks(n + 1, E2 + 1, E3)
               + 8 * MinBlocks(n + 1, E3 + 1, E4) + 4 * MinBlocks(n + 1, E4 + 1, E5)
               + 2 * MinBlocks(n + 1, E5 + 1, E6) + last(n + 1)
    BY DEF ScheduledSupply, last
  <2>2. QED
    BY <2>1, <1>a, <1>c, <1>d, ScheduleAssumption
<1>f. ScheduledSupply(n) \in Nat
  BY ScheduledSupplyType
<1>1. CASE n + 1 <= E1
  <2>1. calculateBlockReward(n + 1, s) = 64
    BY <1>b, <1>1, ScheduleAssumption DEF calculateBlockReward, EpochReward
  <2>2. QED
    BY <2>1, <1>e, <1>f, <1>1, ScheduleAssumption
<1>2. CASE E1 < n + 1 /\ n + 1 <= E2
  <2>1. calculateBlockReward(n + 1, s) = 32
    BY <1>b, <1>2, ScheduleAssumption DEF calculateBlockReward, EpochReward
  <2>2. QED
    BY <2>1, <1>e, <1>f, <1>2, ScheduleAssumption
<1>3. CASE E2 < n + 1 /\ n + 1 <= E3
  <2>1. calculateBlockReward(n + 1, s) = 16
    BY <1>b, <1>3, ScheduleAssumption DEF calculateBlockReward, EpochReward
  <2>2. QED
    BY <2>1, <1>e, <1>f, <1>3, ScheduleAssumption
<1>4. CASE E3 < n + 1 /\ n + 1 <= E4
  <2>1. calculateBlockReward(n + 1, s) = 8
    BY <1>b, <1>4, ScheduleAssumption DEF calculateBlockReward, EpochReward
  <2>2. QED
    BY <2>1, <1>e, <1>f, <1>4, ScheduleAssumption
<1>5. CASE E4 < n + 1 /\ n + 1 <= E5
  <2>1. calculateBlockReward(n + 1, s) = 4
    BY <1>b, <1>5, ScheduleAssumption DEF calculateBlockReward, EpochReward
  <2>2. QED
    BY <2>1, <1>e, <1>f, <1>5, ScheduleAssumption
<1>6. CASE E5 < n + 1 /\ n + 1 <= E6
  <2>1. calculateBlockReward(n + 1, s) = 2
    BY <1>b, <1>6, ScheduleAssumption DEF calculateBlockReward, EpochReward
  <2>2. QED
    BY <2>1, <1>e, <1>f, <1>6, ScheduleAssumption
<1>7. CASE E6 < n + 1
  <2>1. calculateBlockReward(n + 1, s) = 1
    BY <1>b, <1>7, ScheduleAssumption DEF calculateBlockReward, EpochReward
  <2>2. QED
    BY <2>1, <1>e, <1>f, <1>7, ScheduleAssumption
<1>8. QED
  BY <1>1, <1>2, <1>3, <1>4, <1>5, <1>6, <1>7, ScheduleAssumption

\* The closed form never decreases, so below the final block it stays below
\* the cap.
LEMMA ScheduleBelowCap ==
  ASSUME NEW n \in Nat, n < FinalBlock
  PROVE  ScheduledSupply(n) < SupplyCap
<1>1. ScheduledSupply(n) <= ScheduledSupply(FinalBlock - 1)
  <2> DEFINE m == FinalBlock - 1
             last(k) == IF k > E6 THEN MinBlocks(k, E6 + 1, k) ELSE 0
  <2>1. /\ {MinBlocks(n, 1, E1), MinBlocks(m, 1, E1)} \subseteq Nat
        /\ MinBlocks(n, 1, E1) <= MinBlocks(m, 1, E1)
    BY ScheduleAssumption DEF MinBlocks
  <2>2. /\ {MinBlocks(n, E1 + 1, E2), MinBlocks(m, E1 + 1, E2)} \subseteq Nat
        /\ MinBlocks(n, E1 + 1, E2) <= MinBlocks(m, E1 + 1, E2)
    BY ScheduleAssumption DEF MinBlocks
  <2>3. /\ {MinBlocks(n, E2 + 1, E3), MinBlocks(m, E2 + 1, E3)} \subseteq Nat
        /\ MinBlocks(n, E2 + 1, E3) <= MinBlocks(m, E2 + 1, E3)
    BY ScheduleAssumption DEF MinBlocks
  <2>4. /\ {MinBlocks(n, E3 + 1, E4), MinBlocks(m, E3 + 1, E4)} \subseteq Nat
        /\ MinBlocks(n, E3 + 1, E4) <= MinBlocks(m, E3 + 1, E4)
    BY ScheduleAssumption DEF MinBlocks
  <2>5. /\ {MinBlocks(n, E4 + 1, E5), MinBlocks(m, E4 + 1, E5)} \subseteq Nat
        /\ MinBlocks(n, E4 + 1, E5) <= MinBlocks(m, E4 + 1, E5)
    BY ScheduleAssumption DEF MinBlocks
  <2>6. /\ {MinBlocks(n, E5 + 1, E6), MinBlocks(m, E5 + 1, E6)} \subseteq Nat
        /\ MinBlocks(n, E5 + 1, E6) <= MinBlocks(m, E5 + 1, E6)
    BY ScheduleAssumption DEF MinBlocks
  <2>7. {last(n), last(m)} \subseteq Nat /\ last(n) <= last(m)
    BY ScheduleAssumption DEF MinBlocks
  <2>8. /\ ScheduledSupply(n) =
             PreminedSupply + 64 * MinBlocks(n, 1, E1)
               + 32 * MinBlocks(n, E1 + 1, E2) + 16 * MinBlocks(n, E2 + 1, E3)
               + 8 * MinBlocks(n, E3 + 1, E4) + 4 * MinBlocks(n, E4 + 1, E5)
               + 2 * MinBlocks(n, E5 + 1, E6) + last(n)
        /\ ScheduledSupply(m) =
             PreminedSupply + 64 * MinBlocks(m, 1, E1)
               + 32 * MinBlocks(m, E1 + 1, E2) + 16 * MinBlocks(m, E2 + 1, E3)
               + 8 * MinBlocks(m, E3 + 1, E4) + 4 * MinBlocks(m, E4 + 1, E5)
               + 2 * MinBlocks(m, E5 + 1, E6) + last(m)
    BY DEF ScheduledSupply
  <2> HIDE DEF m, last
  <2>9. ScheduledSupply(n) <= ScheduledSupply(m)
    BY <2>1, <2>2, <2>3, <2>4, <2>5, <2>6, <2>7, <2>8, ScheduleAssumption
  <2>10. QED
    BY <2>9 DEF m
<1>2. /\ ScheduledSupply(n) \in Nat
      /\ ScheduledSupply(FinalBlock - 1) \in Nat
  BY ScheduledSupplyType, ScheduleAssumption
<1>3. QED
  BY <1>1, <1>2, CapAssumption, ScheduleAssumption

-----------------------------------------------------------------------------
\* The number of the head and the table of states keep their types.
THEOREM TypeCorrect == Spec => []TypeOK
<1>1. Init => TypeOK
  BY ScheduleAssumption, ScheduledSupplyType DEF Init, TypeOK
<1>2. TypeOK /\ [Next]_vars => TypeOK'
  <2> SUFFICES ASSUME TypeOK, [Next]_vars PROVE TypeOK'
    OBVIOUS
  <2>1. CASE Finalize
    <3>1. accumulateRewards(number + 1) \in Nat
      BY RewardType, ScheduleAssumption DEF accumulateRewards, TypeOK
    <3>2. number + 1 \in BaseBlock..Horizon
      BY <2>1, ScheduleAssumption DEF Finalize, TypeOK
    <3>3. supplyAt' \in [BaseBlock..(number + 1) -> Nat]
      <4>1. ASSUME NEW n \in BaseBlock..(number + 1)
            PROVE  (IF n = number + 1
                    THEN supplyAt[number] + accumulateRewards(n)
                    ELSE supplyAt[n]) \in Nat
        <5>1. CASE n = number + 1
          <6>1. supplyAt[number] \in Nat
            BY ScheduleAssumption DEF TypeOK
          <6>2. QED
            BY <3>1, <5>1, <6>1
        <5>2. CASE n # number + 1
          <6>1. n \in BaseBlock..number
            BY <5>2, ScheduleAssumption DEF TypeOK
          <6>2. QED
            BY <5>2, <6>1 DEF TypeOK
        <5>3. QED
          BY <5>1, <5>2
      <4>2. QED
        BY <2>1, <4>1 DEF Finalize
    <3>4. QED
      BY <2>1, <3>2, <3>3 DEF Finalize, TypeOK
  <2>2. ASSUME NEW n \in BaseBlock..(number - 1), Rewind(n) PROVE TypeOK'
    BY <2>2, ScheduleAssumption DEF Rewind, TypeOK
  <2>3. CASE UNCHANGED vars
    BY <2>3 DEF vars, TypeOK
  <2>4. QED
    BY <2>1, <2>2, <2>3 DEF Next
<1>3. QED
  BY <1>1, <1>2, PTL DEF Spec
-----------------------------------------------------------------------------
\* The inductive invariant: as long as the closed form is below the cap it is
\* the supply in the state, and from the final block on the state no longer
\* changes.
IssuanceInv ==
    /\ TypeOK
    /\ ReportedSupplyIsIssuedSupply
    /\ NoIssuanceAfterFinalBlock

\* A new block extends the table of states by its own entry only.
LEMMA FinalizeEntries ==
  ASSUME TypeOK, Finalize
  PROVE  /\ number' = number + 1 /\ number \in Nat
         /\ \A n \in BaseBlock..number : supplyAt'[n] = supplyAt[n]
         /\ supplyAt'[number + 1] = supplyAt[number] + accumulateRewards(number + 1)
         /\ supplyAt[number] \in Nat
  BY ScheduleAssumption DEF TypeOK, Finalize

\* The issued supply is the reported one below the final block, and constant
\* from there on, in every reachable state of every admissible schedule.
THEOREM IssuanceCorrect == Spec => []IssuanceInv
<1>1. Init => IssuanceInv
  <2> SUFFICES ASSUME Init PROVE IssuanceInv
    OBVIOUS
  <2>1. TypeOK
    BY ScheduleAssumption, ScheduledSupplyType DEF Init, TypeOK
  <2>2. number = BaseBlock /\ supplyAt[BaseBlock] = ScheduledSupply(BaseBlock)
    BY DEF Init
  <2>3. QED
    BY <2>1, <2>2, ScheduleAssumption
       DEF IssuanceInv, ReportedSupplyIsIssuedSupply, NoIssuanceAfterFinalBlock,
           CalculateCirculatingSupply
<1>2. TypeOK' /\ IssuanceInv /\ [Next]_vars => IssuanceInv'
  <2> SUFFICES ASSUME TypeOK', IssuanceInv, [Next]_vars PROVE IssuanceInv'
    OBVIOUS
  <2> USE DEF IssuanceInv
  <2>1. CASE Finalize
    <3>0. /\ number' = number + 1 /\ number \in Nat /\ number >= BaseBlock
          /\ \A n \in BaseBlock..number : supplyAt'[n] = supplyAt[n]
          /\ supplyAt'[number + 1] = supplyAt[number] + accumulateRewards(number + 1)
          /\ supplyAt[number] \in Nat
      BY <2>1, FinalizeEntries, ScheduleAssumption DEF TypeOK
    <3>1. number + 1 < FinalBlock =>
            supplyAt'[number + 1] = CalculateCirculatingSupply(number + 1)
      <4> SUFFICES ASSUME number + 1 < FinalBlock
                   PROVE  supplyAt'[number + 1] = CalculateCirculatingSupply(number + 1)
        OBVIOUS
      <4>1. /\ CalculateCirculatingSupply(number) = ScheduledSupply(number)
            /\ CalculateCirculatingSupply(number + 1) = ScheduledSupply(number + 1)
        BY <3>0, ScheduleAssumption DEF CalculateCirculatingSupply
      <4>2. supplyAt[number] = ScheduledSupply(number)
        BY <3>0, <4>1, ScheduleAssumption DEF ReportedSupplyIsIssuedSupply
      <4>3. ScheduledSupply(number + 1) \in Nat /\ ScheduledSupply(number + 1) < SupplyCap
        BY <3>0, ScheduleBelowCap, ScheduledSupplyType
      <4>4. ScheduledSupply(number + 1) =
              ScheduledSupply(number) + accumulateRewards(number + 1)
        BY <3>0, <4>1, <4>3, ScheduleStep DEF accumulateRewards
      <4>5. QED
        BY <3>0, <4>1, <4>2, <4>4
    <3>2. ReportedSupplyIsIssuedSupply'
      BY <3>0, <3>1, ScheduleAssumption
         DEF ReportedSupplyIsIssuedSupply, CalculateCirculatingSupply
    <3>3. number + 1 >= FinalBlock => supplyAt'[number + 1] = supplyAt[number]
      <4> SUFFICES ASSUME number + 1 >= FinalBlock
                   PROVE  supplyAt'[number + 1] = supplyAt[number]
        OBVIOUS
      <4>1. accumulateRewards(number + 1) = 0
        BY ScheduleAssumption
           DEF accumulateRewards, CalculateCirculatingSupply, calculateBlockReward
      <4>2. QED
        BY <3>0, <4>1
    <3>4. NoIssuanceAfterFinalBlock'
      BY <3>0, <3>3, ScheduleAssumption DEF NoIssuanceAfterFinalBlock
    <3>5. QED
      BY <3>2, <3>4
  <2>2. ASSUME NEW n \in BaseBlock..(number - 1), Rewind(n) PROVE IssuanceInv'
    <3>1. /\ number' = n /\ n \in Nat /\ number \in Nat /\ n < number
          /\ \A m \in BaseBlock..n : supplyAt'[m] = supplyAt[m]
      BY <2>2, ScheduleAssumption DEF Rewind, TypeOK
    <3>2. ReportedSupplyIsIssuedSupply'
      BY <3>1, ScheduleAssumption
         DEF ReportedSupplyIsIssuedSupply, CalculateCirculatingSupply
    <3>3. NoIssuanceAfterFinalBlock'
      BY <3>1, ScheduleAssumption DEF NoIssuanceAfterFinalBlock
    <3>4. QED
      BY <3>2, <3>3
  <2>3. CASE UNCHANGED vars
    BY <2>3 DEF vars, TypeOK, ReportedSupplyIsIssuedSupply, NoIssuanceAfterFinalBlock
  <2>4. QED
    BY <2>1, <2>2, <2>3 DEF Next
<1>3. QED
  BY <1>1, <1>2, TypeCorrect, PTL DEF Spec

\* The supply in the state of a canonical block never exceeds the cap.
THEOREM CapNeverExceeded == Spec => []SupplyNeverExceedsCap
<1>1. IssuanceInv => SupplyNeverExceedsCap
  <2> SUFFICES ASSUME IssuanceInv, NEW n \in BaseBlock..number
               PROVE  supplyAt[n] <= SupplyCap
    BY DEF SupplyNeverExceedsCap
  <2>0. n \in Nat /\ number \in Nat
    BY ScheduleAssumption DEF IssuanceInv, TypeOK
  <2>1. CASE n < FinalBlock
    <3>1. supplyAt[n] = ScheduledSupply(n)
      BY <2>1, <2>0, ScheduleAssumption
         DEF IssuanceInv, ReportedSupplyIsIssuedSupply, CalculateCirculatingSupply
    <3>2. QED
      BY <2>0, <2>1, <3>1, ScheduleBelowCap, ScheduledSupplyType, ScheduleAssumption
  <2>2. CASE n >= FinalBlock
    <3> DEFINE m == FinalBlock - 1
    <3>1. m \in BaseBlock..number /\ m \in Nat /\ m < FinalBlock
      BY <2>0, <2>2, ScheduleAssumption
    <3>2. supplyAt[n] = supplyAt[m]
      BY <2>2 DEF IssuanceInv, NoIssuanceAfterFinalBlock
    <3>3. supplyAt[m] = ScheduledSupply(m)
      BY <3>1, ScheduleAssumption
         DEF IssuanceInv, ReportedSupplyIsIssuedSupply, CalculateCirculatingSupply
    <3>4. QED
      BY <3>1, <3>2, <3>3, ScheduleBelowCap, ScheduledSupplyType, ScheduleAssumption
  <2>3. QED
    BY <2>0, <2>1, <2>2, ScheduleAssumption
<1>2. QED
  BY <1>1, IssuanceCorrect, PTL

\* The supply eth_getSupply reports below the final block is the supply in the
\* state.
THEOREM ReportedSupplyCorrect == Spec => []ReportedSupplyIsIssuedSupply
<1>1. IssuanceInv => ReportedSupplyIsIssuedSupply
  BY DEF IssuanceInv
<1>2. QED
  BY <1>1, IssuanceCorrect, PTL

\* From the final block on accumulateRewards credits nothing.
THEOREM IssuanceEnds == Spec => []NoIssuanceAfterFinalBlock
<1>1. IssuanceInv => NoIssuanceAfterFinalBlock
  BY DEF IssuanceInv
<1>2. QED
  BY <1>1, IssuanceCorrect, PTL

-----------------------------------------------------------------------------
(* The header rules *)

\* What \div means for natural numbers.
LEMMA Division ==
  ASSUME NEW a \in Nat, NEW n \in Nat, n > 0
  PROVE  a \div n \in Nat /\ n * (a \div n) <= a /\ a < n * (a \div n) + n
  OBVIOUS

\* The remainder of a number below the word is the number itself.
LEMMA Fits ==
  ASSUME NEW a \in Nat, NEW n \in Nat, a < n
  PROVE  a % n = a
  OBVIOUS

\* A multiple by less than the divisor of the quotient stays below the number.
LEMMA PartOf ==
  ASSUME NEW a \in Nat, NEW n \in Nat, NEW x \in Nat, n > 0, x <= n
  PROVE  (a \div n) * x \in Nat /\ (a \div n) * x <= a
<1>1. a \div n \in Nat /\ n * (a \div n) <= a
  BY Division
<1>2. ASSUME NEW q \in Nat, n * q <= a PROVE q * x \in Nat /\ q * x <= a
  <2>1. q * x <= q * n
    BY <1>2
  <2>2. QED
    BY <2>1, <1>2
<1>3. QED
  BY <1>1, <1>2

\* A quotient is zero exactly below the divisor.
LEMMA QuotientZero ==
  ASSUME NEW a \in Nat, NEW n \in Nat, n > 0
  PROVE  (a \div n = 0) <=> (a < n)
<1>1. a \div n \in Nat /\ n * (a \div n) <= a /\ a < n * (a \div n) + n
  BY Division
<1>2. ASSUME NEW q \in Nat, n * q <= a, a < n * q + n PROVE (q = 0) <=> (a < n)
  <2>1. q = 0 => n * q = 0
    OBVIOUS
  <2>2. q # 0 => n * q >= n
    <3>1. ASSUME q # 0 PROVE n * q >= n * 1
      BY <3>1
    <3>2. QED
      BY <3>1
  <2>3. n * q \in Nat
    OBVIOUS
  <2>4. QED
    BY <1>2, <2>1, <2>2, <2>3
<1>3. QED
  BY <1>1, <1>2

-----------------------------------------------------------------------------
\* The difficulties for which the 256-bit code cannot overflow.
RoomFor(p) == p.difficulty + 2 * (p.difficulty \div DifficultyBoundDivisor) < Word256

\* A step of a 256-bit calculator without wrap-around: the same sum over the
\* integers.
LEMMA MovedExact ==
  ASSUME NEW p, IsHeader(p), RoomFor(p), NEW x \in 0..MaxFactor, NEW down \in BOOLEAN,
         ~down => x <= 2
  PROVE  Moved(p, x, down) =
           AtLeastMinimum(IF down
             THEN p.difficulty - (p.difficulty \div DifficultyBoundDivisor) * x
             ELSE p.difficulty + (p.difficulty \div DifficultyBoundDivisor) * x)
<1> DEFINE d == p.difficulty
           q == d \div DifficultyBoundDivisor
<1>1. /\ d \in Nat /\ d < Word256 /\ Word256 \in Nat /\ x \in Nat
      /\ DifficultyBoundDivisor \in Nat /\ DifficultyBoundDivisor > 0
      /\ x <= DifficultyBoundDivisor
  BY RulesAssumption DEF IsHeader
<1>2. q \in Nat /\ q * x \in Nat /\ q * x <= d
  BY <1>1, PartOf, Division
<1>3. (q * x) % Word256 = q * x
  BY <1>1, <1>2, Fits
<1>4. CASE down
  <2>1. d - q * x \in Nat /\ d - q * x < Word256
    BY <1>1, <1>2
  <2>2. (d - q * x) % Word256 = d - q * x
    BY <2>1, <1>1, Fits
  <2>3. QED
    BY <1>3, <1>4, <2>2 DEF Moved
<1>5. CASE ~down
  <2>1. q * x <= q * 2
    BY <1>1, <1>2, <1>5
  <2>2. d + q * x \in Nat /\ d + q * x < Word256
    BY <1>1, <1>2, <2>1 DEF RoomFor
  <2>3. (d + q * x) % Word256 = d + q * x
    BY <2>2, <1>1, Fits
  <2>4. QED
    BY <1>3, <1>5, <2>3 DEF Moved
<1>6. QED
  BY <1>4, <1>5

\* The 64-bit subtraction of times is exact for a header later than its parent,
\* and the quotient by the target is a natural number.
LEMMA ElapsedExact ==
  ASSUME NEW p, IsHeader(p), NEW t \in 0..(Word64 - 1), t > p.time
  PROVE  /\ Elapsed(t, p) = t - p.time
         /\ Elapsed(t, p) \div DurationLimit \in Nat
         /\ (Elapsed(t, p) \div DurationLimit = 0) <=> (t - p.time < DurationLimit)
<1>1. t - p.time \in Nat /\ t - p.time < Word64 /\ Word64 \in Nat
  BY RulesAssumption DEF IsHeader
<1>2. Elapsed(t, p) = t - p.time
  BY <1>1, Fits DEF Elapsed
<1>3. DurationLimit \in Nat /\ DurationLimit > 0
  BY RulesAssumption
<1>4. QED
  BY <1>1, <1>2, <1>3, Division, QuotientZero

-----------------------------------------------------------------------------
(* Every calculator moves the difficulty of the parent by a number of 2048ths *)
(* that depends on k, the targets elapsed.                                    *)

StepBy(p, f) ==
    AtLeastMinimum(p.difficulty + (p.difficulty \div DifficultyBoundDivisor) * f)

Targets(t, p) == (t - p.time) \div DurationLimit
NotBelow(f) == IF f < -MaxFactor THEN -MaxFactor ELSE f
FrontierFactor(k) == IF k = 0 THEN 1 ELSE -1
UncleBonus(p) == IF p.hasUncles THEN 2 ELSE 1

\* The 256-bit step is the step over the integers.
LEMMA MovedIsStep ==
  ASSUME NEW p, IsHeader(p), RoomFor(p), NEW x \in 0..MaxFactor
  PROVE  /\ Moved(p, x, TRUE) = StepBy(p, -x)
         /\ x <= 2 => Moved(p, x, FALSE) = StepBy(p, x)
<1> DEFINE q == p.difficulty \div DifficultyBoundDivisor
<1>1. p.difficulty \in Nat /\ q \in Nat /\ x \in Nat
  BY RulesAssumption, Division DEF IsHeader
<1>2. p.difficulty - q * x = p.difficulty + q * (-x)
  BY <1>1
<1>3. QED
  BY <1>1, <1>2, MovedExact DEF StepBy

\* The calculators as steps.
LEMMA CalculatorsAreSteps ==
  ASSUME NEW p, IsHeader(p), RoomFor(p), NEW t \in 0..(Word64 - 1), t > p.time
  PROVE  /\ Targets(t, p) \in Nat
         /\ calcDifficultyFrontier(t, p) = StepBy(p, FrontierFactor(Targets(t, p)))
         /\ CalcDifficultyFrontierU256(t, p) = StepBy(p, FrontierFactor(Targets(t, p)))
         /\ calcDifficultyHomestead(t, p) = StepBy(p, NotBelow(1 - Targets(t, p)))
         /\ CalcDifficultyHomesteadU256(t, p) = StepBy(p, NotBelow(1 - Targets(t, p)))
         /\ DynamicDifficulty(t, p) = StepBy(p, NotBelow(UncleBonus(p) - Targets(t, p)))
<1> DEFINE k == Targets(t, p)
           q == p.difficulty \div DifficultyBoundDivisor
<1>1. /\ Elapsed(t, p) = t - p.time /\ k \in Nat
      /\ Elapsed(t, p) \div DurationLimit = k
      /\ (k = 0) <=> (t - p.time < DurationLimit)
  BY ElapsedExact DEF Targets
<1>2. p.difficulty \in Nat /\ q \in Nat
  BY RulesAssumption, Division DEF IsHeader
<1>3. MaxFactor \in Nat /\ 2 <= MaxFactor
  BY RulesAssumption
<1>m. 1 \in 0..MaxFactor /\ MaxFactor \in 0..MaxFactor /\ 1 <= 2
  BY <1>3
<1> HIDE DEF k
<1>4. calcDifficultyFrontier(t, p) = StepBy(p, FrontierFactor(k))
  <2>1. q * 1 = q /\ p.difficulty + q * (-1) = p.difficulty - q
    BY <1>2
  <2>2. QED
    BY <1>1, <2>1 DEF calcDifficultyFrontier, StepBy, FrontierFactor
<1>5. CalcDifficultyFrontierU256(t, p) = StepBy(p, FrontierFactor(k))
  <2>1. Moved(p, 1, TRUE) = StepBy(p, -1) /\ Moved(p, 1, FALSE) = StepBy(p, 1)
    BY <1>m, MovedIsStep
  <2>2. QED
    BY <1>1, <2>1 DEF CalcDifficultyFrontierU256, FrontierFactor
<1>6. calcDifficultyHomestead(t, p) = StepBy(p, NotBelow(1 - k))
  BY DEF calcDifficultyHomestead, StepBy, NotBelow, k, Targets
<1>7. CalcDifficultyHomesteadU256(t, p) = StepBy(p, NotBelow(1 - k))
  <2>1. CASE k = 0
    <3>1. Moved(p, 1, FALSE) = StepBy(p, 1)
      BY <1>m, MovedIsStep
    <3>2. NotBelow(1 - k) = 1
      BY <1>3, <2>1 DEF NotBelow
    <3>3. QED
      BY <1>1, <2>1, <3>1, <3>2 DEF CalcDifficultyHomesteadU256
  <2>2. CASE k > MaxFactor
    <3>1. Moved(p, MaxFactor, TRUE) = StepBy(p, -MaxFactor)
      BY <1>m, MovedIsStep
    <3>2. NotBelow(1 - k) = -MaxFactor /\ k # 0
      BY <1>1, <1>3, <2>2 DEF NotBelow
    <3>3. QED
      BY <1>1, <2>2, <3>1, <3>2 DEF CalcDifficultyHomesteadU256
  <2>3. CASE k # 0 /\ k <= MaxFactor
    <3>1. k - 1 \in 0..MaxFactor /\ 1 - k = -(k - 1) /\ NotBelow(1 - k) = 1 - k
      BY <1>1, <1>3, <2>3 DEF NotBelow
    <3>2. Moved(p, k - 1, TRUE) = StepBy(p, -(k - 1))
      BY <3>1, MovedIsStep
    <3>3. ~(k > MaxFactor)
      BY <1>1, <1>3, <2>3
    <3>4. QED
      BY <1>1, <2>3, <3>1, <3>2, <3>3 DEF CalcDifficultyHomesteadU256
  <2>4. QED
    BY <1>1, <1>3, <2>1, <2>2, <2>3
<1>8. DynamicDifficulty(t, p) = StepBy(p, NotBelow(UncleBonus(p) - k))
  <2> DEFINE c == UncleBonus(p)
  <2>1. c \in 1..2 /\ c = (IF p.hasUncles THEN 2 ELSE 1)
    BY DEF UncleBonus
  <2> HIDE DEF c
  <2> DEFINE dist == IF k >= c THEN k - c ELSE c - k
             cut == IF dist > MaxFactor THEN MaxFactor ELSE dist
  <2>2. DynamicDifficulty(t, p) = Moved(p, cut, k >= c)
    BY <1>1, <2>1 DEF DynamicDifficulty
  <2>3. cut \in 0..MaxFactor
    BY <1>1, <1>3, <2>1
  <2>4. CASE k >= c
    <3>1. Moved(p, cut, TRUE) = StepBy(p, -cut)
      BY <2>3, MovedIsStep
    <3>2. NotBelow(c - k) = -cut
      BY <1>1, <1>3, <2>1, <2>4 DEF NotBelow
    <3>3. (k >= c) = TRUE
      BY <2>4
    <3>4. QED
      BY <2>2, <3>1, <3>2, <3>3 DEF c
  <2>5. CASE ~(k >= c)
    <3>1. cut <= 2 /\ NotBelow(c - k) = cut
      BY <1>1, <1>3, <2>1, <2>5 DEF NotBelow
    <3>2. Moved(p, cut, FALSE) = StepBy(p, cut)
      BY <2>3, <3>1, MovedIsStep
    <3>3. (k >= c) = FALSE
      BY <2>5
    <3>4. QED
      BY <2>2, <3>1, <3>2, <3>3 DEF c
  <2>6. QED
    BY <2>4, <2>5
<1>9. QED
  BY <1>1, <1>4, <1>5, <1>6, <1>7, <1>8 DEF k

-----------------------------------------------------------------------------
(* The theorems *)

\* The big-integer calculators, their 256-bit variants and, without uncles, the
\* calculator of the later forks give the same difficulty for every header
\* later than its parent, as long as 256 bits hold the result.
THEOREM CalculatorsGiveOneDifficulty ==
  ASSUME NEW p, IsHeader(p), RoomFor(p), NEW t \in 0..(Word64 - 1), t > p.time
  PROVE  SameDifficulty(t, p)
<1>1. ~p.hasUncles => UncleBonus(p) = 1
  BY DEF UncleBonus
<1>2. QED
  BY <1>1, CalculatorsAreSteps DEF SameDifficulty

\* The factor by which CalcDifficulty moves the difficulty.
FactorOf(k, p) ==
    IF p.number + 1 >= ByzantiumBlock THEN NotBelow(UncleBonus(p) - k)
    ELSE IF p.number + 1 >= HomesteadBlock THEN NotBelow(1 - k)
    ELSE FrontierFactor(k)

\* CalcDifficulty is a step whose factor lies between -99 and 2 and does not
\* grow with the time.
LEMMA CalcDifficultyIsStep ==
  ASSUME NEW p, IsHeader(p), RoomFor(p), NEW t \in 0..(Word64 - 1), t > p.time
  PROVE  CalcDifficulty(t, p) = StepBy(p, FactorOf(Targets(t, p), p))
  BY CalculatorsAreSteps DEF CalcDifficulty, FactorOf

LEMMA FactorBounds ==
  ASSUME NEW p, IsHeader(p), NEW k \in Nat, NEW j \in Nat, j <= k
  PROVE  /\ FactorOf(k, p) \in (-MaxFactor)..2
         /\ FactorOf(k, p) <= FactorOf(j, p)
<1>1. MaxFactor \in Nat /\ 2 <= MaxFactor /\ UncleBonus(p) \in 1..2
  BY RulesAssumption DEF UncleBonus
<1>2. QED
  BY <1>1 DEF FactorOf, NotBelow, FrontierFactor

\* A larger factor does not give a smaller difficulty.
LEMMA StepMonotone ==
  ASSUME NEW p, IsHeader(p), NEW f \in Int, NEW g \in Int, f <= g
  PROVE  /\ StepBy(p, f) \in Nat /\ StepBy(p, f) >= MinimumDifficulty
         /\ StepBy(p, f) <= StepBy(p, g)
<1> DEFINE q == p.difficulty \div DifficultyBoundDivisor
<1>1. p.difficulty \in Nat /\ q \in Nat /\ MinimumDifficulty \in Nat
  BY RulesAssumption, Division DEF IsHeader
<1>2. ASSUME NEW r \in Nat PROVE r * f \in Int /\ r * g \in Int /\ r * f <= r * g
  <2>1. r * (g - f) >= 0
    BY <1>2
  <2>2. QED
    BY <1>2, <2>1
<1>3. q * f \in Int /\ q * g \in Int /\ q * f <= q * g
  BY <1>1, <1>2
<1> HIDE DEF q
<1>4. /\ StepBy(p, f) = AtLeastMinimum(p.difficulty + q * f)
      /\ StepBy(p, g) = AtLeastMinimum(p.difficulty + q * g)
  BY DEF StepBy, q
<1>5. QED
  BY <1>1, <1>3, <1>4 DEF AtLeastMinimum

\* Quotients grow with the number divided.
LEMMA QuotientMonotone ==
  ASSUME NEW a \in Nat, NEW b \in Nat, NEW n \in Nat, n > 0, a <= b
  PROVE  a \div n <= b \div n
<1>1. /\ a \div n \in Nat /\ n * (a \div n) <= a
      /\ b \div n \in Nat /\ b < n * (b \div n) + n
  BY Division
<1>2. ASSUME NEW x \in Nat, NEW y \in Nat, n * x <= a, b < n * y + n PROVE x <= y
  <2>1. ASSUME y + 1 <= x PROVE FALSE
    <3>1. n * (y + 1) <= n * x
      BY <2>1
    <3>2. n * (y + 1) = n * y + n
      OBVIOUS
    <3>3. n * x \in Nat /\ n * y \in Nat
      OBVIOUS
    <3>4. QED
      BY <1>2, <3>1, <3>2, <3>3
  <2>2. QED
    BY <2>1
<1>3. QED
  BY <1>1, <1>2

\* Waiting never makes a block harder: of two headers on one parent, the later
\* one has at most the difficulty of the earlier one, at every fork of the rules.
THEOREM LaterIsNotHarder ==
  ASSUME NEW p, IsHeader(p), RoomFor(p), NEW t \in 0..(Word64 - 1), NEW u \in 0..(Word64 - 1),
         t > p.time, t <= u
  PROVE  CalcDifficulty(u, p) <= CalcDifficulty(t, p)
<1>1. u > p.time /\ t - p.time \in Nat /\ u - p.time \in Nat /\ t - p.time <= u - p.time
  BY RulesAssumption DEF IsHeader
<1>2. Targets(t, p) <= Targets(u, p) /\ Targets(t, p) \in Nat /\ Targets(u, p) \in Nat
  BY <1>1, RulesAssumption, QuotientMonotone, Division DEF Targets
<1>3. /\ FactorOf(Targets(u, p), p) <= FactorOf(Targets(t, p), p)
      /\ FactorOf(Targets(u, p), p) \in Int /\ FactorOf(Targets(t, p), p) \in Int
  <2>1. \A f \in (-MaxFactor)..2 : f \in Int
    BY RulesAssumption
  <2>2. Targets(t, p) <= Targets(t, p)
    BY <1>2
  <2>3. QED
    BY <1>2, <2>1, <2>2, FactorBounds
<1>4. QED
  BY <1>1, <1>3, CalcDifficultyIsStep, StepMonotone

\* The difficulty of a block is at least the minimum, fits in 256 bits, and one
\* block lowers it by at most 99 of the 2048ths: the subtraction never wraps.
THEOREM DifficultyInBounds ==
  ASSUME NEW p, IsHeader(p), RoomFor(p), NEW t \in 0..(Word64 - 1), t > p.time
  PROVE  LET q == p.difficulty \div DifficultyBoundDivisor
         IN  /\ CalcDifficulty(t, p) \in MinimumDifficulty..(Word256 - 1)
             /\ CalcDifficulty(t, p) >= p.difficulty - q * MaxFactor
<1> DEFINE q == p.difficulty \div DifficultyBoundDivisor
           f == FactorOf(Targets(t, p), p)
<1>1. Targets(t, p) \in Nat /\ Targets(t, p) <= Targets(t, p)
  BY CalculatorsAreSteps
<1>2. f \in (-MaxFactor)..2
  BY <1>1, FactorBounds
<1>3. /\ p.difficulty \in Nat /\ q \in Nat /\ MinimumDifficulty \in Nat /\ MaxFactor \in Nat
      /\ Word256 \in Nat /\ MinimumDifficulty < Word256
  <2>1. /\ DifficultyBoundDivisor \in Nat /\ DifficultyBoundDivisor > 0
        /\ MinimumDifficulty \in Nat /\ MaxFactor \in Nat
        /\ Word256 \in Nat /\ MinimumDifficulty < Word256
    BY RulesAssumption
  <2>2. p.difficulty \in Nat
    BY <2>1 DEF IsHeader
  <2>3. q \in Nat
    BY <2>1, <2>2, Division
  <2>4. QED
    BY <2>1, <2>2, <2>3
<1>4. CalcDifficulty(t, p) = AtLeastMinimum(p.difficulty + q * f)
  BY CalcDifficultyIsStep DEF StepBy
<1>5. p.difficulty + 2 * q < Word256
  BY DEF RoomFor
<1> HIDE DEF q, f
<1>6. f \in Int /\ f <= 2 /\ -MaxFactor <= f
  BY <1>2, <1>3
<1>7. q * f \in Int /\ q * f <= 2 * q /\ q * f >= -(q * MaxFactor) /\ q * MaxFactor \in Nat
  <2>1. q * (2 - f) >= 0 /\ q * (f + MaxFactor) >= 0
    BY <1>3, <1>6
  <2>2. q * (2 - f) = 2 * q - q * f /\ q * (f + MaxFactor) = q * f + q * MaxFactor
    BY <1>3, <1>6
  <2>3. q * f \in Int /\ q * MaxFactor \in Nat
    BY <1>3, <1>6
  <2>4. QED
    BY <2>1, <2>2, <2>3, <1>3
<1>8. QED
  BY <1>3, <1>4, <1>5, <1>7 DEF AtLeastMinimum, q

\* One step of CalcGasLimit stays strictly within the bound that VerifyGaslimit
\* sets, and within the absolute limits, whatever limit the miner desires.
LEMMA GasLimitVerifies ==
  ASSUME NEW g \in MinGasLimit..MaxGasLimit, NEW ceil \in 0..MaxGasLimit
  PROVE  /\ VerifyGaslimit(g, CalcGasLimit(g, ceil))
         /\ CalcGasLimit(g, ceil) \in MinGasLimit..MaxGasLimit
<1>1. /\ MinGasLimit \in Nat /\ MaxGasLimit \in Nat /\ Word64 \in Nat
      /\ MinGasLimit <= MaxGasLimit /\ 2 * MaxGasLimit < Word64
      /\ g \in Nat /\ g <= MaxGasLimit /\ MinGasLimit <= g /\ ceil \in Nat /\ ceil <= MaxGasLimit
      /\ GasLimitBoundDivisor \in Nat /\ GasLimitBoundDivisor > 0 /\ GasLimitBoundDivisor <= g
  BY RulesAssumption
<1> DEFINE L == g \div GasLimitBoundDivisor
<1>2. L \in Nat /\ L # 0 /\ L <= g
  <2>1. L \in Nat /\ L # 0
    BY <1>1, Division, QuotientZero
  <2>2. L * 1 <= g
    BY <1>1, PartOf
  <2>3. QED
    BY <2>1, <2>2
<1> HIDE DEF L
<1>3. (L - 1) % Word64 = L - 1
  <2>1. L - 1 \in Nat /\ L - 1 < Word64
    BY <1>1, <1>2
  <2>2. QED
    BY <2>1, <1>1, Fits
<1>4. (g + (L - 1)) % Word64 = g + (L - 1)
  <2>1. g + (L - 1) \in Nat /\ g + (L - 1) < Word64
    BY <1>1, <1>2
  <2>2. QED
    BY <2>1, <1>1, Fits
<1>5. (g - (L - 1)) % Word64 = g - (L - 1)
  <2>1. g - (L - 1) \in Nat /\ g - (L - 1) < Word64
    BY <1>1, <1>2
  <2>2. QED
    BY <2>1, <1>1, Fits
<1> DEFINE D == IF ceil < MinGasLimit THEN MinGasLimit ELSE ceil
           up == g + (L - 1)
           down == g - (L - 1)
           lim == IF g < D THEN (IF up > D THEN D ELSE up)
                  ELSE IF g > D THEN (IF down < D THEN D ELSE down) ELSE g
<1>6. CalcGasLimit(g, ceil) = lim
  BY <1>3, <1>4, <1>5 DEF CalcGasLimit, L
<1>7. /\ lim \in Nat /\ MinGasLimit <= lim /\ lim <= MaxGasLimit
      /\ g < lim => lim - g < L
      /\ ~(g < lim) => g - lim < L
  BY <1>1, <1>2
<1>8. VerifyGaslimit(g, lim)
  BY <1>7 DEF VerifyGaslimit, L
<1>9. lim \in MinGasLimit..MaxGasLimit
  BY <1>1, <1>7
<1>10. QED
  BY <1>6, <1>8, <1>9

\* What a miner prepares, every node accepts: the header of prepareWork and
\* Prepare passes verifyHeader on any parent with a legal gas limit, for any clock
\* of the miner, also one behind the parent, and any gas limit it desires, at
\* a node for which the header is not from the future.
THEOREM PreparedHeaderVerifies ==
  ASSUME NEW p, p.time \in Nat, p.gasLimit \in MinGasLimit..MaxGasLimit,
         NEW timestamp \in Nat, NEW ceil \in 0..MaxGasLimit, NEW now \in Int,
         prepareHeader(p, timestamp, ceil).time <= now + AllowedFuture
  PROVE  verifyHeader(prepareHeader(p, timestamp, ceil), p, FALSE, now)
<1> DEFINE h == prepareHeader(p, timestamp, ceil)
<1>1. /\ h.time = (IF p.time >= timestamp THEN p.time + 1 ELSE timestamp)
      /\ h.number = p.number + 1
      /\ h.gasLimit = CalcGasLimit(p.gasLimit, ceil)
      /\ h.difficulty = CalcDifficulty(h.time, p)
  BY DEF prepareHeader
<1>2. h.time > p.time
  BY <1>1
<1>3. VerifyGaslimit(p.gasLimit, h.gasLimit) /\ h.gasLimit \in MinGasLimit..MaxGasLimit
  BY <1>1, GasLimitVerifies
<1>m. h.gasLimit <= MaxGasLimit
  BY <1>3, RulesAssumption
<1>4. QED
  BY <1>1, <1>2, <1>3, <1>m DEF verifyHeader

\* Every difficulty a calculator gives is a natural number, whatever wraps.
LEMMA DifficultyType ==
  ASSUME NEW p, p.difficulty \in Nat, p.time \in Nat, NEW t \in Nat
  PROVE  CalcDifficulty(t, p) \in Nat
<1> DEFINE q == p.difficulty \div DifficultyBoundDivisor
           e == t - p.time
           x == (e % Word64) \div DurationLimit
<1>1. /\ DifficultyBoundDivisor \in Nat /\ DifficultyBoundDivisor > 0 /\ MinimumDifficulty \in Nat
      /\ DurationLimit \in Nat /\ DurationLimit > 0 /\ MaxFactor \in Nat
      /\ Word64 \in Nat /\ Word64 > 0 /\ Word256 \in Nat /\ Word256 > 0
  BY RulesAssumption
<1>2. q \in Nat
  BY <1>1, Division
<1>3. e \in Int /\ e % Word64 \in Nat /\ e \div DurationLimit \in Int
  BY <1>1
<1>4. x \in Nat
  BY <1>1, <1>3, Division
<1>5. ASSUME NEW d \in Int PROVE AtLeastMinimum(d) \in Nat
  BY <1>1, <1>5 DEF AtLeastMinimum
<1>6. ASSUME NEW y \in Nat, NEW down \in BOOLEAN PROVE Moved(p, y, down) \in Nat
  <2> DEFINE a == (q * y) % Word256
  <2>1. q * y \in Nat
    BY <1>2
  <2>2. a \in Nat
    BY <1>1, <2>1
  <2>3. (p.difficulty - a) % Word256 \in Int /\ (p.difficulty + a) % Word256 \in Int
    BY <1>1, <2>2
  <2> HIDE DEF a
  <2>4. QED
    BY <1>5, <2>3 DEF Moved, a
<1> HIDE DEF x, q, e
<1>7. DynamicDifficulty(t, p) \in Nat
  <2> DEFINE c == IF p.hasUncles THEN 2 ELSE 1
             dist == IF x >= c THEN x - c ELSE c - x
             cut == IF dist > MaxFactor THEN MaxFactor ELSE dist
  <2>1. c \in Nat /\ cut \in Nat /\ (x >= c) \in BOOLEAN
    BY <1>1, <1>4
  <2>2. DynamicDifficulty(t, p) = Moved(p, cut, x >= c)
    BY DEF DynamicDifficulty, Elapsed, x, e
  <2> HIDE DEF c, cut
  <2>3. QED
    BY <1>6, <2>1, <2>2
<1>8. calcDifficultyHomestead(t, p) \in Nat
  <2> DEFINE f == IF 1 - e \div DurationLimit < -MaxFactor THEN -MaxFactor
                  ELSE 1 - e \div DurationLimit
  <2>1. f \in Int
    BY <1>1, <1>3
  <2>2. calcDifficultyHomestead(t, p) = AtLeastMinimum(p.difficulty + q * f)
    BY DEF calcDifficultyHomestead, q, e
  <2> HIDE DEF f
  <2>3. p.difficulty + q * f \in Int
    BY <1>2, <2>1
  <2>4. QED
    BY <1>5, <2>2, <2>3
<1>9. calcDifficultyFrontier(t, p) \in Nat
  <2>1. p.difficulty + q \in Int /\ p.difficulty - q \in Int
    BY <1>2
  <2>2. QED
    BY <1>5, <2>1 DEF calcDifficultyFrontier, q
<1>10. QED
  BY <1>7, <1>8, <1>9 DEF CalcDifficulty

-----------------------------------------------------------------------------
(* The tree of blocks *)

\* Blocks are numbered without gaps.
IdsOK == \E n \in Nat : Ids = 0..n

\* The fields of a block that the header rules read.
FieldsOK(b) ==
    /\ blocks[b].number \in Nat /\ blocks[b].difficulty \in Nat
    /\ blocks[b].time \in 0..(MaxTime + 1)
    /\ blocks[b].gasLimit \in MinGasLimit..MaxGasLimit /\ blocks[b].hasUncles \in BOOLEAN

\* The chain of a block ends with the block, and what stands on it up to any
\* place is the chain of the block at that place.
ChainOK(b) ==
    LET c == blocks[b].chain
    IN  /\ c \in Seq(Ids) /\ Len(c) >= 1 /\ c[Len(c)] = b
        /\ \A k \in 1..Len(c) :
              /\ Len(blocks[c[k]].chain) = k
              /\ \A j \in 1..k : blocks[c[k]].chain[j] = c[j]

\* The block before the last one of a chain is the parent.
ParentOK(b) ==
    LET c == blocks[b].chain
    IN  /\ blocks[b].uncles \in Seq(Ids)
        /\ b = 0 => blocks[b].parent = None /\ blocks[b].uncles = << >>
        /\ b # 0 => blocks[b].parent \in Ids /\ Len(c) >= 2 /\ c[Len(c) - 1] = blocks[b].parent

TreeInv ==
    /\ IdsOK /\ head \in Ids /\ side \subseteq Ids
    /\ \A b \in Ids : FieldsOK(b) /\ ChainOK(b) /\ ParentOK(b)

\* The work of the miner would be accepted as it stands.
Works == [header : [number : Nat, time : 0..(MaxTime + 1), difficulty : Nat,
                    gasLimit : MinGasLimit..MaxGasLimit],
          parent : Ids, uncles : Seq(Ids)]

WorkOK ==
    current # None =>
       /\ current \in Works
       /\ VerifyUncles(current.parent, current.uncles)
       /\ verifyHeader(current.header, blocks[current.parent], FALSE, current.header.time)

EngineInv == TreeInv /\ MinedBlocksVerify /\ WorkOK

\* The number of the next block is free.
LEMMA NextId ==
  ASSUME IdsOK
  PROVE  /\ Cardinality(Ids) \in Nat \ {0} /\ Ids = 0..(Cardinality(Ids) - 1)
         /\ Cardinality(Ids) \notin Ids /\ Ids \subseteq Nat /\ 0 \in Ids
         /\ Cardinality(Ids) - 1 \in Ids
<1>1. PICK n \in Nat : Ids = 0..n
  BY DEF IdsOK
<1>2. Cardinality(Ids) = n + 1
  BY <1>1, FS_Interval
<1>3. QED
  BY <1>1, <1>2

\* The ancestors of a block are blocks of the tree.
LEMMA AncestorsInTree ==
  ASSUME TreeInv, NEW b \in Ids
  PROVE  GetBlocksFromHash(b, UncleDepth) \subseteq Ids
  BY DEF TreeInv, ChainOK, GetBlocksFromHash

-----------------------------------------------------------------------------
\* A block joins the tree: what Insert does to it.
Grows(id, h, parent, us) ==
    /\ Ids' = Ids \cup {id} /\ id \notin Ids /\ id \in Nat /\ id # 0
    /\ \A x \in Ids : blocks'[x] = blocks[x]
    /\ blocks'[id].number = h.number /\ blocks'[id].time = h.time
    /\ blocks'[id].difficulty = h.difficulty /\ blocks'[id].gasLimit = h.gasLimit
    /\ blocks'[id].hasUncles \in BOOLEAN
    /\ blocks'[id].parent = parent /\ blocks'[id].uncles = us
    /\ blocks'[id].chain = Append(blocks[parent].chain, id)
    /\ blocks'[id].supply = blocks[parent].supply + accumulateRewards(h.number)

LEMMA InsertGrows ==
  ASSUME TreeInv, NEW h, NEW parent \in Ids, NEW us, NEW local, Insert(h, parent, us, local)
  PROVE  /\ Grows(Cardinality(Ids), h, parent, us)
         /\ IdsOK' /\ head' \in Ids' /\ side' \subseteq Ids'
<1> DEFINE id == Cardinality(Ids)
<1>1. id \in Nat \ {0} /\ id \notin Ids /\ Ids = 0..(id - 1)
  BY NextId DEF TreeInv
<1> HIDE DEF id
<1>2. PICK b : /\ b = [number |-> h.number, time |-> h.time, difficulty |-> h.difficulty,
                       gasLimit |-> h.gasLimit, hasUncles |-> us # << >>,
                       parent |-> parent, uncles |-> us, local |-> local,
                       chain |-> Append(blocks[parent].chain, id),
                       td |-> blocks[parent].td + h.difficulty,
                       supply |-> blocks[parent].supply + accumulateRewards(h.number)]
  OBVIOUS
<1>3. blocks' = [x \in Ids \cup {id} |-> IF x = id THEN b ELSE blocks[x]]
  BY <1>2 DEF Insert, id
<1>4. Ids' = Ids \cup {id} /\ blocks'[id] = b /\ \A x \in Ids : blocks'[x] = blocks[x]
  BY <1>1, <1>3 DEF Ids
<1>5. /\ b.number = h.number /\ b.time = h.time /\ b.difficulty = h.difficulty
      /\ b.gasLimit = h.gasLimit /\ b.hasUncles = (us # << >>) /\ b.parent = parent
      /\ b.uncles = us /\ b.chain = Append(blocks[parent].chain, id)
      /\ b.supply = blocks[parent].supply + accumulateRewards(h.number)
  BY <1>2
<1>6. Grows(id, h, parent, us)
  BY <1>1, <1>4, <1>5 DEF Grows
<1>7. IdsOK'
  <2>1. Ids' = 0..id
    BY <1>1, <1>4
  <2>2. QED
    BY <1>1, <2>1 DEF IdsOK
<1>8. \/ head' = id /\ side' = side \cup (Chain(head) \ Chain(parent))
      \/ head' = head /\ side' = side \cup {id}
  BY DEF Insert, id
<1>9. Chain(head) \subseteq Ids
  BY DEF TreeInv, ChainOK, Chain
<1>10. head' \in Ids' /\ side' \subseteq Ids'
  BY <1>4, <1>8, <1>9 DEF TreeInv
<1>11. QED
  BY <1>6, <1>7, <1>10 DEF id

\* A block verified on the tree stays verified when another one joins.
LEMMA VerifiedStays ==
  ASSUME TreeInv, NEW id, NEW h, NEW q, NEW vs, Grows(id, h, q, vs),
         NEW parent \in Ids, NEW us \in Seq(Ids), VerifyUncles(parent, us)
  PROVE  VerifyUncles(parent, us)'
<1> DEFINE A == GetBlocksFromHash(parent, UncleDepth)
<1>1. A \subseteq Ids
  BY AncestorsInTree
<1>2. \A x \in Ids : blocks'[x] = blocks[x]
  BY DEF Grows
<1>3. GetBlocksFromHash(parent, UncleDepth)' = A
  BY <1>2 DEF GetBlocksFromHash
<1> HIDE DEF A
<1>4. \A a \in A : UnclesOf(a)' = UnclesOf(a)
  BY <1>1, <1>2 DEF UnclesOf
<1>5. Len(us) <= maxUncles /\ DOMAIN us = 1..Len(us) /\ \A k \in DOMAIN us : us[k] \in Ids
  BY DEF VerifyUncles
<1>6. ASSUME NEW k \in DOMAIN us
      PROVE  /\ us[k] \notin (UNION {UnclesOf(a)' : a \in A}) \cup {us[j] : j \in 1..(k - 1)}
             /\ us[k] \notin A /\ blocks'[us[k]].parent \in A \ {parent}
             /\ verifyHeader(blocks'[us[k]], blocks'[blocks'[us[k]].parent], TRUE, 0)
  <2>1. /\ us[k] \notin (UNION {UnclesOf(a) : a \in A}) \cup {us[j] : j \in 1..(k - 1)}
        /\ us[k] \notin A /\ blocks[us[k]].parent \in A \ {parent}
        /\ verifyHeader(blocks[us[k]], blocks[blocks[us[k]].parent], TRUE, 0)
    BY <1>6 DEF VerifyUncles, A
  <2>2. blocks'[us[k]] = blocks[us[k]]
    BY <1>2, <1>5, <1>6
  <2>3. blocks'[blocks'[us[k]].parent] = blocks[blocks[us[k]].parent]
    BY <1>1, <1>2, <2>1, <2>2
  <2>4. QED
    BY <1>4, <2>1, <2>2, <2>3
<1>7. QED
  BY <1>3, <1>5, <1>6 DEF VerifyUncles

\* A block, and the work, verify when their parent and uncles do.
LEMMA BlockVerifies ==
  ASSUME NEW b, NEW parent, NEW us, VerifyUncles(parent, us)', blocks'[b].parent = parent,
         blocks'[b].uncles = us
  PROVE  VerifyUncles(blocks[b].parent, blocks[b].uncles)'
  BY DEF VerifyUncles

LEMMA WorkVerifies ==
  ASSUME NEW parent, NEW us, VerifyUncles(parent, us)', current'.parent = parent,
         current'.uncles = us
  PROVE  VerifyUncles(current.parent, current.uncles)'
  BY DEF VerifyUncles

\* A verified block that joins the tree leaves it in order.
LEMMA GrowsKeepsTree ==
  ASSUME TreeInv, MinedBlocksVerify, NEW id, NEW h, NEW parent \in Ids, NEW us \in Seq(Ids),
         Grows(id, h, parent, us),
         h.number \in Nat, h.difficulty \in Nat, h.time \in 0..(MaxTime + 1),
         h.gasLimit \in MinGasLimit..MaxGasLimit,
         VerifyUncles(parent, us), verifyHeader(h, blocks[parent], FALSE, h.time)
  PROVE  /\ \A b \in Ids' : (FieldsOK(b) /\ ChainOK(b) /\ ParentOK(b))'
         /\ MinedBlocksVerify'
<1>1. \A x \in Ids : blocks'[x] = blocks[x]
  BY DEF Grows
<1>2. Ids' = Ids \cup {id} /\ id \notin Ids /\ id # 0
  BY DEF Grows
<1>3. FieldsOK(id)'
  BY DEF FieldsOK, Grows
<1>4. ASSUME NEW b \in Ids PROVE FieldsOK(b)' /\ ChainOK(b)' /\ ParentOK(b)'
  <2>1. FieldsOK(b) /\ ChainOK(b) /\ ParentOK(b) /\ blocks'[b] = blocks[b]
    BY <1>1, <1>4 DEF TreeInv
  <2>2. FieldsOK(b)'
    BY <2>1 DEF FieldsOK
  <2>3. ParentOK(b)'
    BY <1>2, <2>1 DEF ParentOK
  <2>4. ChainOK(b)'
    <3> DEFINE c == blocks[b].chain
    <3>1. /\ c \in Seq(Ids) /\ Len(c) >= 1 /\ c[Len(c)] = b
          /\ \A k \in 1..Len(c) :
                /\ Len(blocks[c[k]].chain) = k
                /\ \A j \in 1..k : blocks[c[k]].chain[j] = c[j]
      BY <2>1 DEF ChainOK
    <3>2. \A k \in 1..Len(c) : c[k] \in Ids /\ blocks'[c[k]] = blocks[c[k]]
      BY <1>1, <3>1
    <3>3. c \in Seq(Ids') /\ blocks'[b].chain = c
      BY <1>2, <2>1, <3>1
    <3> HIDE DEF c
    <3>4. QED
      BY <3>1, <3>2, <3>3 DEF ChainOK
  <2>5. QED
    BY <2>2, <2>3, <2>4
<1>5. ChainOK(id)'
  <2> DEFINE c == blocks[parent].chain
             d == Append(c, id)
  <2>1. /\ c \in Seq(Ids) /\ Len(c) >= 1 /\ c[Len(c)] = parent
        /\ \A k \in 1..Len(c) :
              /\ Len(blocks[c[k]].chain) = k
              /\ \A j \in 1..k : blocks[c[k]].chain[j] = c[j]
    BY DEF TreeInv, ChainOK
  <2>2. blocks'[id].chain = d
    BY DEF Grows
  <2> HIDE DEF c
  <2>3. /\ d \in Seq(Ids') /\ Len(d) = Len(c) + 1 /\ d[Len(d)] = id
        /\ \A k \in 1..Len(c) : d[k] = c[k] /\ d[k] \in Ids
    BY <1>2, <2>1
  <2> HIDE DEF d
  <2>4. ASSUME NEW k \in 1..Len(d)
        PROVE  /\ Len(blocks'[d[k]].chain) = k
               /\ \A j \in 1..k : blocks'[d[k]].chain[j] = d[j]
    <3>1. CASE k = Len(d)
      BY <2>2, <2>3, <3>1
    <3>2. CASE k # Len(d)
      <4>1. k \in 1..Len(c) /\ \A j \in 1..k : j \in 1..Len(c)
        BY <2>1, <2>3, <2>4, <3>2
      <4>2. blocks'[d[k]] = blocks[c[k]]
        BY <1>1, <2>3, <4>1
      <4>3. QED
        BY <2>1, <2>3, <4>1, <4>2
    <3>3. QED
      BY <3>1, <3>2
  <2>5. Len(d) >= 1
    BY <2>1, <2>3
  <2>6. QED
    BY <2>2, <2>3, <2>4, <2>5 DEF ChainOK
<1>6. ParentOK(id)'
  <2> DEFINE c == blocks[parent].chain
  <2>1. c \in Seq(Ids) /\ Len(c) >= 1 /\ c[Len(c)] = parent
    BY DEF TreeInv, ChainOK
  <2>2. blocks'[id].chain = Append(c, id) /\ blocks'[id].parent = parent /\ blocks'[id].uncles = us
    BY DEF Grows
  <2> HIDE DEF c
  <2>3. Len(Append(c, id)) = Len(c) + 1 /\ Append(c, id)[Len(c)] = c[Len(c)]
    BY <2>1
  <2>4. us \in Seq(Ids') /\ parent \in Ids'
    BY <1>2
  <2>5. QED
    BY <1>2, <2>1, <2>2, <2>3, <2>4 DEF ParentOK
<1>7. MinedBlocksVerify'
  <2> SUFFICES ASSUME NEW b \in Ids' \ {0}
               PROVE  /\ verifyHeader(blocks'[b], blocks'[blocks'[b].parent], FALSE, blocks'[b].time)
                      /\ VerifyUncles(blocks[b].parent, blocks[b].uncles)'
    BY DEF MinedBlocksVerify
  <2>1. CASE b \in Ids
    <3>1. blocks'[b] = blocks[b] /\ blocks[b].parent \in Ids /\ blocks[b].uncles \in Seq(Ids)
      BY <1>1, <2>1 DEF TreeInv, ParentOK
    <3>2. blocks'[blocks'[b].parent] = blocks[blocks[b].parent]
      BY <1>1, <3>1
    <3>3. /\ verifyHeader(blocks[b], blocks[blocks[b].parent], FALSE, blocks[b].time)
          /\ VerifyUncles(blocks[b].parent, blocks[b].uncles)
      BY <2>1 DEF MinedBlocksVerify
    <3>4. ASSUME NEW p \in Ids, NEW vs \in Seq(Ids), VerifyUncles(p, vs)
          PROVE  VerifyUncles(p, vs)'
      BY <3>4, VerifiedStays
    <3>5. QED
      BY <3>1, <3>2, <3>3, <3>4, BlockVerifies
  <2>2. CASE b = id
    <3>1. blocks'[b].parent = parent /\ blocks'[b].uncles = us /\ blocks'[parent] = blocks[parent]
      BY <1>1, <2>2 DEF Grows
    <3>2. VerifyUncles(parent, us)'
      BY VerifiedStays
    <3>3. verifyHeader(blocks'[b], blocks[parent], FALSE, blocks'[b].time)
      BY <2>2 DEF verifyHeader, Grows
    <3>4. VerifyUncles(blocks[b].parent, blocks[b].uncles)'
      BY <3>1, <3>2, BlockVerifies
    <3>5. QED
      BY <3>1, <3>3, <3>4
  <2>3. QED
    BY <1>2, <2>1, <2>2
<1>8. QED
  BY <1>2, <1>3, <1>4, <1>5, <1>6, <1>7

-----------------------------------------------------------------------------
(* The miner *)

\* A block of the tree that commitUncle takes passes what VerifyUncles asks of
\* one uncle: the family of the miner is what the verification looks at.
LEMMA CommitVerifies ==
  ASSUME TreeInv, MinedBlocksVerify, NEW parent \in Ids, NEW vs, NEW u \in Ids,
         commitUncle(parent, vs, u)
  PROVE  LET A == GetBlocksFromHash(parent, UncleDepth)
         IN  /\ u \notin UNION {UnclesOf(a) : a \in A} /\ u \notin A
             /\ blocks[u].parent \in A \ {parent}
             /\ verifyHeader(blocks[u], blocks[blocks[u].parent], TRUE, 0)
             /\ \A k \in DOMAIN vs : vs[k] # u
<1> DEFINE A == GetBlocksFromHash(parent, UncleDepth)
<1>1. FamilyDepth = UncleDepth /\ None \notin Nat
  BY EngineAssumption
<1>2. /\ u \notin A \cup (UNION {UnclesOf(a) : a \in A})
      /\ blocks[u].parent \in A \ {parent} /\ \A k \in DOMAIN vs : vs[k] # u
  BY <1>1 DEF commitUncle, Family
<1>3. u # 0
  <2>1. A \subseteq Nat
    BY AncestorsInTree, NextId DEF TreeInv
  <2>2. ASSUME u = 0 PROVE FALSE
    <3>1. blocks[u].parent = None
      BY <2>2 DEF TreeInv, ParentOK
    <3>2. QED
      BY <1>1, <1>2, <2>1, <3>1
  <2>3. QED
    BY <2>2
<1>4. verifyHeader(blocks[u], blocks[blocks[u].parent], TRUE, 0)
  <2>1. verifyHeader(blocks[u], blocks[blocks[u].parent], FALSE, blocks[u].time)
    BY <1>3 DEF MinedBlocksVerify
  <2>2. QED
    BY <2>1 DEF verifyHeader
<1>5. QED
  BY <1>2, <1>4

\* The verification of uncles depends on the tree only.
LEMMA SameTreeVerifies ==
  ASSUME UNCHANGED blocks, NEW parent, NEW us, VerifyUncles(parent, us)
  PROVE  VerifyUncles(parent, us)'
<1> DEFINE A == GetBlocksFromHash(parent, UncleDepth)
           past == UNION {UnclesOf(a) : a \in A}
<1>1. GetBlocksFromHash(parent, UncleDepth)' = A
  BY DEF GetBlocksFromHash
<1> HIDE DEF A
<1>2. UNION {UnclesOf(a)' : a \in A} = past
  <2>1. \A a \in A : UnclesOf(a)' = UnclesOf(a)
    BY DEF UnclesOf
  <2>2. QED
    BY <2>1
<1>3. /\ Len(us) <= maxUncles
      /\ \A k \in DOMAIN us :
            /\ us[k] \notin past \cup {us[j] : j \in 1..(k - 1)}
            /\ us[k] \notin A /\ blocks[us[k]].parent \in A \ {parent}
            /\ verifyHeader(blocks[us[k]], blocks[blocks[us[k]].parent], TRUE, 0)
  BY DEF VerifyUncles, A
<1> HIDE DEF past
<1>4. QED
  BY <1>1, <1>2, <1>3 DEF VerifyUncles

\* What prepareWork assembles verifies.
LEMMA PreparedWorkVerifies ==
  ASSUME EngineInv, NEW d \in DelaysAfter(head), PrepareWork(d)
  PROVE  WorkOK' /\ UNCHANGED <<blocks, head, side>>
<1> DEFINE p == blocks[head]
           h == prepareHeader(p, p.time + d, GasCeil)
<1>1. PICK us \in UncleChoices(head) : current' = [header |-> h, parent |-> head, uncles |-> us]
  BY DEF PrepareWork
<1>2. UNCHANGED <<blocks, head, side>>
  BY DEF PrepareWork
<1>3. TreeInv /\ MinedBlocksVerify /\ head \in Ids /\ side \subseteq Ids /\ FieldsOK(head)
  BY DEF EngineInv, TreeInv
<1>4. /\ us \in Seq(Ids) /\ Len(us) <= maxUncles /\ Len(us) \in Nat
      /\ DOMAIN us = 1..Len(us) /\ \A k \in DOMAIN us : us[k] \in Ids
  <2>1. us \in UncleLists
    BY DEF UncleChoices
  <2>2. PICK n \in 0..maxUncles : us \in [1..n -> Ids]
    BY <2>1 DEF UncleLists
  <2>3. n \in Nat /\ n <= maxUncles
    BY EngineAssumption
  <2>4. us \in Seq(Ids) /\ Len(us) = n
    BY <2>2, <2>3
  <2>5. QED
    BY <2>3, <2>4
<1>5. \A k \in DOMAIN us : us[k] \in side /\ commitUncle(head, SubSeq(us, 1, k - 1), us[k])
  BY DEF UncleChoices
<1>6. VerifyUncles(head, us)
  <2> DEFINE A == GetBlocksFromHash(head, UncleDepth)
             past == UNION {UnclesOf(a) : a \in A}
  <2>1. ASSUME NEW k \in DOMAIN us
        PROVE  /\ us[k] \notin past \cup {us[j] : j \in 1..(k - 1)}
               /\ us[k] \notin A /\ blocks[us[k]].parent \in A \ {head}
               /\ verifyHeader(blocks[us[k]], blocks[blocks[us[k]].parent], TRUE, 0)
    <3> DEFINE vs == SubSeq(us, 1, k - 1)
    <3>1. us[k] \in Ids /\ commitUncle(head, vs, us[k])
      BY <1>4, <1>5, <2>1
    <3>2. /\ us[k] \notin past /\ us[k] \notin A /\ blocks[us[k]].parent \in A \ {head}
          /\ verifyHeader(blocks[us[k]], blocks[blocks[us[k]].parent], TRUE, 0)
          /\ \A j \in DOMAIN vs : vs[j] # us[k]
      <4> HIDE DEF vs
      <4>1. ASSUME NEW u \in Ids, commitUncle(head, vs, u)
            PROVE  /\ u \notin past /\ u \notin A /\ blocks[u].parent \in A \ {head}
                   /\ verifyHeader(blocks[u], blocks[blocks[u].parent], TRUE, 0)
                   /\ \A j \in DOMAIN vs : vs[j] # u
        BY <1>3, <4>1, CommitVerifies
      <4>2. QED
        BY <3>1, <4>1
    <3>3. ASSUME NEW j \in 1..(k - 1) PROVE us[j] # us[k]
      <4>1. k \in 1..Len(us)
        BY <1>4, <2>1
      <4>2. DOMAIN vs = 1..(k - 1) /\ vs[j] = us[j]
        BY <1>4, <4>1, <3>3
      <4>3. QED
        BY <3>2, <3>3, <4>2
    <3>4. QED
      BY <3>2, <3>3
  <2>2. QED
    BY <1>4, <2>1 DEF VerifyUncles
<1>7. /\ p.time \in 0..(MaxTime + 1) /\ p.time \in Nat /\ d \in Nat /\ MaxTime \in Nat
      /\ p.time + d <= MaxTime /\ p.number \in Nat /\ p.difficulty \in Nat
      /\ p.gasLimit \in MinGasLimit..MaxGasLimit /\ GasCeil \in 0..MaxGasLimit
      /\ AllowedFuture \in Nat
  BY <1>3, EngineAssumption, RulesAssumption DEF FieldsOK, DelaysAfter
<1>8. /\ h.time = (IF p.time >= p.time + d THEN p.time + 1 ELSE p.time + d)
      /\ h.number = p.number + 1 /\ h.gasLimit = CalcGasLimit(p.gasLimit, GasCeil)
      /\ h.difficulty = CalcDifficulty(h.time, p)
      /\ h = [number |-> h.number, time |-> h.time, difficulty |-> h.difficulty,
              gasLimit |-> h.gasLimit]
  BY DEF prepareHeader
<1>9. h.time \in 0..(MaxTime + 1) /\ h.time \in Nat /\ h.time <= h.time + AllowedFuture
  BY <1>7, <1>8
<1>10. h \in [number : Nat, time : 0..(MaxTime + 1), difficulty : Nat,
              gasLimit : MinGasLimit..MaxGasLimit]
  <2>1. h.number \in Nat
    BY <1>7, <1>8
  <2>2. h.difficulty \in Nat
    BY <1>7, <1>8, <1>9, DifficultyType
  <2>3. h.gasLimit \in MinGasLimit..MaxGasLimit
    BY <1>7, <1>8, GasLimitVerifies
  <2> HIDE DEF h
  <2>4. QED
    BY <1>8, <1>9, <2>1, <2>2, <2>3
<1>11. verifyHeader(h, p, FALSE, h.time)
  <2>1. p.time + d \in Nat /\ h.time \in Int
    BY <1>7, <1>9
  <2>2. QED
    BY <1>7, <1>9, <2>1, PreparedHeaderVerifies
<1> HIDE DEF h
<1>12. current' \in Works' /\ current'.header = h /\ current'.parent = head /\ current'.uncles = us
  BY <1>1, <1>2, <1>3, <1>4, <1>10 DEF Works, Ids
<1>13. VerifyUncles(current.parent, current.uncles)'
  BY <1>2, <1>6, <1>12, SameTreeVerifies, WorkVerifies
<1>14. QED
  BY <1>2, <1>11, <1>12, <1>13 DEF WorkOK

\* A side block that joins the work leaves it verified.
LEMMA ReceivedSideVerifies ==
  ASSUME EngineInv, NEW u \in side, ReceiveSide(u)
  PROVE  WorkOK' /\ UNCHANGED <<blocks, head, side>>
<1>1. UNCHANGED <<blocks, head, side>> /\ current # None
  BY DEF ReceiveSide
<1>2. /\ TreeInv /\ MinedBlocksVerify /\ current \in Works
      /\ VerifyUncles(current.parent, current.uncles)
      /\ verifyHeader(current.header, blocks[current.parent], FALSE, current.header.time)
  BY <1>1 DEF EngineInv, WorkOK
<1> DEFINE us == current.uncles
           parent == current.parent
           vs == Append(us, u)
<1>3. parent \in Ids /\ us \in Seq(Ids) /\ u \in Ids
  BY <1>2 DEF Works, TreeInv
<1>4. Len(us) < maxUncles /\ commitUncle(parent, us, u)
  BY DEF ReceiveSide
<1>5. /\ current'.header = current.header /\ current'.parent = parent /\ current'.uncles = vs
      /\ current' \in Works'
  <2>1. vs \in Seq(Ids)
    BY <1>3
  <2>2. current' = [current EXCEPT !.uncles = vs]
    BY DEF ReceiveSide
  <2>3. QED
    BY <1>1, <1>2, <2>1, <2>2 DEF Works, Ids
<1> HIDE DEF us, parent
<1>6. VerifyUncles(parent, vs)
  <2> DEFINE A == GetBlocksFromHash(parent, UncleDepth)
             past == UNION {UnclesOf(a) : a \in A}
  <2>1. /\ Len(us) \in Nat /\ Len(vs) = Len(us) + 1 /\ DOMAIN vs = 1..(Len(us) + 1)
        /\ vs[Len(us) + 1] = u /\ \A k \in 1..Len(us) : vs[k] = us[k]
        /\ DOMAIN us = 1..Len(us)
    BY <1>3
  <2> HIDE DEF vs
  <2>2. ASSUME NEW k \in DOMAIN vs
        PROVE  /\ vs[k] \notin past \cup {vs[j] : j \in 1..(k - 1)}
               /\ vs[k] \notin A /\ blocks[vs[k]].parent \in A \ {parent}
               /\ verifyHeader(blocks[vs[k]], blocks[blocks[vs[k]].parent], TRUE, 0)
    <3>1. CASE k = Len(us) + 1
      <4>1. /\ u \notin past /\ u \notin A /\ blocks[u].parent \in A \ {parent}
            /\ verifyHeader(blocks[u], blocks[blocks[u].parent], TRUE, 0)
            /\ \A j \in DOMAIN us : us[j] # u
        BY <1>2, <1>3, <1>4, CommitVerifies
      <4>2. \A j \in 1..(k - 1) : j \in DOMAIN us /\ vs[j] = us[j]
        BY <2>1, <3>1
      <4>3. QED
        BY <2>1, <3>1, <4>1, <4>2
    <3>2. CASE k # Len(us) + 1
      <4>1. k \in DOMAIN us /\ vs[k] = us[k] /\ \A j \in 1..(k - 1) : vs[j] = us[j]
        BY <2>1, <2>2, <3>2
      <4>2. /\ us[k] \notin past \cup {us[j] : j \in 1..(k - 1)}
            /\ us[k] \notin A /\ blocks[us[k]].parent \in A \ {parent}
            /\ verifyHeader(blocks[us[k]], blocks[blocks[us[k]].parent], TRUE, 0)
        BY <1>2, <4>1 DEF VerifyUncles, us, parent
      <4>3. QED
        BY <4>1, <4>2
    <3>3. QED
      BY <3>1, <3>2
  <2>3. Len(vs) <= maxUncles
    BY <1>4, <2>1, EngineAssumption
  <2>4. QED
    BY <2>2, <2>3 DEF VerifyUncles
<1>7. VerifyUncles(current.parent, current.uncles)'
  BY <1>1, <1>5, <1>6, SameTreeVerifies, WorkVerifies
<1>8. QED
  BY <1>1, <1>2, <1>5, <1>7 DEF WorkOK, parent

-----------------------------------------------------------------------------
(* The theorems about the tree *)

\* The work of the miner stays in order while the tree grows.
LEMMA GrowsKeepsWork ==
  ASSUME EngineInv, NEW id, NEW h, NEW q, NEW vs, Grows(id, h, q, vs), UNCHANGED current
  PROVE  WorkOK'
<1> SUFFICES ASSUME current # None
             PROVE  /\ current \in Works'
                    /\ VerifyUncles(current.parent, current.uncles)'
                    /\ verifyHeader(current.header, blocks'[current.parent], FALSE,
                                    current.header.time)
  BY DEF WorkOK
<1> DEFINE p == current.parent
           us == current.uncles
<1>1. /\ TreeInv /\ current \in Works /\ p \in Ids /\ us \in Seq(Ids) /\ VerifyUncles(p, us)
      /\ verifyHeader(current.header, blocks[p], FALSE, current.header.time)
  BY DEF EngineInv, WorkOK, Works
<1>2. Ids \subseteq Ids' /\ \A x \in Ids : blocks'[x] = blocks[x]
  BY DEF Grows
<1>3. current \in Works'
  <2>1. \A S, T : S \subseteq T => Seq(S) \subseteq Seq(T)
    OBVIOUS
  <2>2. QED
    BY <1>1, <1>2, <2>1 DEF Works
<1>4. ASSUME NEW pp \in Ids, NEW uu \in Seq(Ids), VerifyUncles(pp, uu), pp = p, uu = us
      PROVE  VerifyUncles(current.parent, current.uncles)'
  <2>1. VerifyUncles(pp, uu)'
    BY <1>1, <1>4, VerifiedStays
  <2>2. current'.parent = pp /\ current'.uncles = uu
    BY <1>4
  <2>3. QED
    BY <2>1, <2>2, WorkVerifies
<1>5. QED
  BY <1>1, <1>2, <1>3, <1>4

\* A verified block, of a peer or sealed here, keeps the invariant.
LEMMA InsertKeepsInv ==
  ASSUME EngineInv, NEW h, NEW parent \in Ids, NEW us \in Seq(Ids), NEW local,
         Insert(h, parent, us, local), UNCHANGED current,
         h.number \in Nat, h.difficulty \in Nat, h.time \in 0..(MaxTime + 1),
         h.gasLimit \in MinGasLimit..MaxGasLimit,
         VerifyUncles(parent, us), verifyHeader(h, blocks[parent], FALSE, h.time)
  PROVE  EngineInv'
<1>1. TreeInv /\ MinedBlocksVerify
  BY DEF EngineInv
<1>2. /\ Grows(Cardinality(Ids), h, parent, us)
      /\ IdsOK' /\ head' \in Ids' /\ side' \subseteq Ids'
  BY <1>1, InsertGrows
<1>3. (\A b \in Ids : FieldsOK(b) /\ ChainOK(b) /\ ParentOK(b))' /\ MinedBlocksVerify'
  BY <1>1, <1>2, GrowsKeepsTree
<1>4. WorkOK'
  BY <1>2, GrowsKeepsWork
<1>5. QED
  BY <1>2, <1>3, <1>4 DEF EngineInv, TreeInv

\* A step that leaves the tree alone leaves it in order.
LEMMA SameTree ==
  ASSUME TreeInv, MinedBlocksVerify, UNCHANGED <<blocks, head, side>>
  PROVE  TreeInv' /\ MinedBlocksVerify'
<1>1. Ids' = Ids /\ blocks' = blocks
  BY DEF Ids
<1>2. TreeInv'
  <2>1. ASSUME NEW b \in Ids PROVE (FieldsOK(b) /\ ChainOK(b) /\ ParentOK(b))'
    <3>1. FieldsOK(b) /\ ChainOK(b) /\ ParentOK(b)
      BY <2>1 DEF TreeInv
    <3>2. FieldsOK(b)'
      BY <1>1, <3>1 DEF FieldsOK
    <3>3. ChainOK(b)'
      BY <1>1, <3>1 DEF ChainOK
    <3>4. ParentOK(b)'
      BY <1>1, <3>1 DEF ParentOK
    <3>5. QED
      BY <3>2, <3>3, <3>4
  <2>2. IdsOK'
    BY <1>1 DEF TreeInv, IdsOK
  <2>3. QED
    BY <1>1, <2>1, <2>2 DEF TreeInv
<1>3. MinedBlocksVerify'
  <2> SUFFICES ASSUME NEW b \in Ids \ {0}
               PROVE  /\ verifyHeader(blocks'[b], blocks'[blocks'[b].parent], FALSE, blocks'[b].time)
                      /\ VerifyUncles(blocks[b].parent, blocks[b].uncles)'
    BY <1>1 DEF MinedBlocksVerify
  <2>1. /\ verifyHeader(blocks[b], blocks[blocks[b].parent], FALSE, blocks[b].time)
        /\ VerifyUncles(blocks[b].parent, blocks[b].uncles)
    BY DEF MinedBlocksVerify
  <2>2. ASSUME NEW p, NEW us, VerifyUncles(p, us) PROVE VerifyUncles(p, us)'
    BY <1>1, <2>2, SameTreeVerifies
  <2>3. QED
    BY <1>1, <2>1, <2>2, BlockVerifies
<1>4. QED
  BY <1>2, <1>3

\* The tree and the work of the miner are in order in every reachable state.
THEOREM EngineCorrect == EngineSpec => []EngineInv
<1>1. EngineInit => EngineInv
  <2> SUFFICES ASSUME EngineInit PROVE EngineInv
    OBVIOUS
  <2>1. PICK n \in RootNumber :
           /\ DOMAIN blocks = {0} /\ blocks[0].number = n /\ blocks[0].time = 0
           /\ blocks[0].difficulty = RootDifficulty /\ blocks[0].gasLimit = RootGasLimit
           /\ blocks[0].hasUncles = FALSE /\ blocks[0].parent = None
           /\ blocks[0].uncles = << >> /\ blocks[0].chain = <<0>>
           /\ head = 0 /\ side = {} /\ current = None
    BY DEF EngineInit
  <2>2. Ids = {0} /\ Ids = 0..0 /\ IdsOK
    BY <2>1 DEF Ids, IdsOK
  <2>3. n \in Nat /\ MaxTime \in Nat /\ RootDifficulty \in Nat /\ RootGasLimit \in MinGasLimit..MaxGasLimit
    BY ScheduleAssumption, EngineAssumption
  <2>4. FieldsOK(0)
    <3>1. 0 \in 0..(MaxTime + 1) /\ FALSE \in BOOLEAN
      BY <2>3
    <3>2. QED
      BY <2>1, <2>3, <3>1 DEF FieldsOK
  <2>5. ChainOK(0)
    <3> DEFINE c == blocks[0].chain
    <3>1. c = <<0>>
      BY <2>1
    <3>2. c \in Seq(Ids) /\ Len(c) = 1 /\ c[1] = 0
      BY <2>2, <3>1
    <3>3. \A k \in 1..1 : k = 1
      OBVIOUS
    <3> HIDE DEF c
    <3>4. /\ Len(c) >= 1 /\ c[Len(c)] = 0
          /\ \A k \in 1..Len(c) : c[k] = 0 /\ k = 1 /\ \A j \in 1..k : j = 1
      BY <3>2, <3>3
    <3>5. QED
      BY <3>2, <3>4 DEF ChainOK, c
  <2>6. ParentOK(0)
    BY <2>1, <2>2 DEF ParentOK
  <2>7. QED
    BY <2>1, <2>2, <2>4, <2>5, <2>6 DEF EngineInv, TreeInv, MinedBlocksVerify, WorkOK
<1>2. EngineInv /\ [EngineNext]_<<vars, treeVars>> => EngineInv'
  <2> SUFFICES ASSUME EngineInv, [EngineNext]_<<vars, treeVars>> PROVE EngineInv'
    OBVIOUS
  <2> USE DEF EngineInv
  <2>1. ASSUME NEW p \in Ids, NEW us \in UncleLists, NEW d \in DelaysAfter(p), PeerBlock(p, d, us)
        PROVE  EngineInv'
    <3> DEFINE b == blocks[p]
               h == [number |-> b.number + 1, time |-> b.time + d,
                     difficulty |-> CalcDifficulty(b.time + d, b),
                     gasLimit |-> CalcGasLimit(b.gasLimit, PeerCeil)]
    <3>1. /\ b.number \in Nat /\ b.time \in Nat /\ b.difficulty \in Nat
          /\ b.gasLimit \in MinGasLimit..MaxGasLimit
          /\ d \in Nat /\ b.time + d <= MaxTime /\ MaxTime \in Nat /\ PeerCeil \in 0..MaxGasLimit
      BY <2>1, EngineAssumption DEF TreeInv, FieldsOK, DelaysAfter
    <3>2. /\ VerifyUncles(p, us) /\ verifyHeader(h, blocks[p], FALSE, h.time)
          /\ Insert(h, p, us, FALSE) /\ UNCHANGED current
      BY <2>1 DEF PeerBlock
    <3>3. /\ h.number = b.number + 1 /\ h.time = b.time + d
          /\ h.difficulty = CalcDifficulty(b.time + d, b)
          /\ h.gasLimit = CalcGasLimit(b.gasLimit, PeerCeil)
      OBVIOUS
    <3> HIDE DEF h, b
    <3>4. h.number \in Nat /\ h.time \in 0..(MaxTime + 1) /\ b.time + d \in Nat
      BY <3>1, <3>3
    <3>5. h.difficulty \in Nat /\ h.gasLimit \in MinGasLimit..MaxGasLimit
      BY <3>1, <3>3, <3>4, DifficultyType, GasLimitVerifies
    <3>6. us \in Seq(Ids)
      <4>1. PICK n \in 0..maxUncles : us \in [1..n -> Ids]
        BY <2>1 DEF UncleLists
      <4>2. n \in Nat
        BY EngineAssumption
      <4>3. QED
        BY <4>1, <4>2
    <3>7. QED
      BY <2>1, <3>2, <3>4, <3>5, <3>6, InsertKeepsInv
  <2>2. ASSUME NEW d \in DelaysAfter(head), PrepareWork(d) PROVE EngineInv'
    <3>1. WorkOK' /\ UNCHANGED <<blocks, head, side>>
      BY <2>2, PreparedWorkVerifies
    <3>2. QED
      BY <3>1, SameTree
  <2>3. ASSUME NEW u \in side, ReceiveSide(u) PROVE EngineInv'
    <3>1. WorkOK' /\ UNCHANGED <<blocks, head, side>>
      BY <2>3, ReceivedSideVerifies
    <3>2. QED
      BY <3>1, SameTree
  <2>4. CASE Sealed
    <3>1. current # None /\ UNCHANGED current
          /\ Insert(current.header, current.parent, current.uncles, TRUE)
      BY <2>4 DEF Sealed
    <3>2. /\ current \in Works /\ VerifyUncles(current.parent, current.uncles)
          /\ verifyHeader(current.header, blocks[current.parent], FALSE, current.header.time)
      BY <3>1 DEF WorkOK
    <3>3. QED
      BY <3>1, <3>2, InsertKeepsInv DEF Works
  <2>5. CASE UNCHANGED <<vars, treeVars>>
    <3>1. UNCHANGED <<blocks, head, side, current>>
      BY <2>5 DEF treeVars
    <3>2. WorkOK'
      <4>1. Ids' = Ids /\ Works' = Works
        BY <3>1 DEF Works, Ids
      <4>2. CASE current # None
        <5>1. current \in Works /\ VerifyUncles(current.parent, current.uncles)
          BY <4>2 DEF WorkOK
        <5>2. VerifyUncles(current.parent, current.uncles)'
          BY <3>1, <5>1, SameTreeVerifies, WorkVerifies
        <5>3. QED
          BY <3>1, <4>1, <4>2, <5>1, <5>2 DEF WorkOK
      <4>3. QED
        BY <3>1, <4>2 DEF WorkOK
    <3>3. QED
      BY <3>1, <3>2, SameTree
  <2>6. QED
    BY <2>1, <2>2, <2>3, <2>4, <2>5 DEF EngineNext
<1>3. QED
  BY <1>1, <1>2, PTL DEF EngineSpec

\* Every block of every reachable tree passes the header rules and VerifyUncles:
\* what the miner assembles by code of its own, and changes while it seals, no
\* node refuses.
THEOREM MinedBlocksAccepted == EngineSpec => []MinedBlocksVerify
<1>1. EngineInv => MinedBlocksVerify
  BY DEF EngineInv
<1>2. QED
  BY <1>1, EngineCorrect, PTL

\* A chain names no block twice: the chain of a block tells its place.
LEMMA ChainDistinct ==
  ASSUME TreeInv, NEW b \in Ids, NEW j \in DOMAIN blocks[b].chain,
         NEW k \in DOMAIN blocks[b].chain, blocks[b].chain[j] = blocks[b].chain[k]
  PROVE  j = k
<1> DEFINE c == blocks[b].chain
<1>1. DOMAIN c = 1..Len(c) /\ \A i \in 1..Len(c) : Len(blocks[c[i]].chain) = i
  BY DEF TreeInv, ChainOK
<1> HIDE DEF c
<1>2. QED
  BY <1>1 DEF c

\* Where the parent of a block of a chain stands.
LEMMA ParentOnChain ==
  ASSUME TreeInv, NEW b \in Ids, NEW i \in DOMAIN blocks[b].chain, blocks[b].chain[i] # 0
  PROVE  /\ i - 1 \in DOMAIN blocks[b].chain
         /\ blocks[blocks[b].chain[i]].parent = blocks[b].chain[i - 1]
<1> DEFINE c == blocks[b].chain
           x == c[i]
           d == blocks[x].chain
<1>1. c \in Seq(Ids) /\ DOMAIN c = 1..Len(c) /\ Len(c) \in Nat
  BY DEF TreeInv, ChainOK
<1>2. x \in Ids /\ Len(d) = i /\ \A j \in 1..i : d[j] = c[j]
  BY <1>1 DEF TreeInv, ChainOK
<1>3. Len(d) >= 2 /\ d[Len(d) - 1] = blocks[x].parent
  BY <1>2 DEF TreeInv, ParentOK
<1>4. i \in Nat /\ i <= Len(c)
  BY <1>1
<1> HIDE DEF d
<1>5. i - 1 \in 1..Len(c) /\ i - 1 \in 1..i
  BY <1>1, <1>2, <1>3, <1>4
<1>6. d[i - 1] = c[i - 1]
  BY <1>2, <1>5
<1>7. QED
  BY <1>1, <1>2, <1>3, <1>5, <1>6

\* The uncles of a block at place i of a chain are children of a block at a
\* place j the verification looks at, and neither they nor their other nephews
\* stand within that view.
LEMMA UnclePlace ==
  ASSUME TreeInv, MinedBlocksVerify, NEW b \in Ids, NEW i \in DOMAIN blocks[b].chain,
         NEW u \in UnclesOf(blocks[b].chain[i])
  PROVE  /\ u \in Ids \ {0}
         /\ \E j \in DOMAIN blocks[b].chain :
               /\ blocks[u].parent = blocks[b].chain[j]
               /\ i - 1 - UncleDepth < j /\ j < i - 1
         /\ \A m \in DOMAIN blocks[b].chain :
               i - 1 - UncleDepth < m /\ m < i =>
                  u # blocks[b].chain[m] /\ u \notin UnclesOf(blocks[b].chain[m])
<1> DEFINE c == blocks[b].chain
           x == c[i]
           p == c[i - 1]
           A == GetBlocksFromHash(p, UncleDepth)
<1>1. c \in Seq(Ids) /\ DOMAIN c = 1..Len(c) /\ Len(c) \in Nat /\ \A k \in DOMAIN c : c[k] \in Ids
  BY DEF TreeInv, ChainOK
<1>2. x \in Ids /\ ParentOK(x) /\ i \in 1..Len(c)
  BY <1>1 DEF TreeInv
<1>3. PICK n \in DOMAIN blocks[x].uncles : u = blocks[x].uncles[n]
  BY DEF UnclesOf
<1>4. x # 0 /\ u \in Ids
  BY <1>2, <1>3 DEF ParentOK
<1>5. i - 1 \in DOMAIN c /\ blocks[x].parent = p
  BY <1>4, ParentOnChain
<1>6. VerifyUncles(p, blocks[x].uncles)
  BY <1>2, <1>4, <1>5 DEF MinedBlocksVerify
<1>7. /\ u \notin UNION {UnclesOf(a) : a \in A} /\ u \notin A
      /\ blocks[u].parent \in A \ {p}
  BY <1>3, <1>6 DEF VerifyUncles
<1>8. A = {c[k] : k \in {m \in DOMAIN c : i - 1 - UncleDepth < m /\ m < i}}
  <2> DEFINE d == blocks[p].chain
  <2>1. Len(d) = i - 1 /\ \A j \in 1..(i - 1) : d[j] = c[j]
    <3>1. \A k \in 1..Len(c) : /\ Len(blocks[c[k]].chain) = k
                               /\ \A j \in 1..k : blocks[c[k]].chain[j] = c[j]
      BY DEF TreeInv, ChainOK
    <3>2. i - 1 \in 1..Len(c)
      BY <1>1, <1>5
    <3> HIDE DEF c
    <3> QED BY <3>1, <3>2
  <2>2. p \in Ids /\ DOMAIN d = 1..Len(d)
    BY <1>1, <1>5 DEF TreeInv, ChainOK
  <2>3. A = {d[k] : k \in {m \in DOMAIN d : m > Len(d) - UncleDepth}}
    BY DEF GetBlocksFromHash
  <2> HIDE DEF d, c
  <2>4. i \in Nat /\ i <= Len(c) /\ UncleDepth \in Nat
    BY <1>1, <1>2, EngineAssumption
  <2>5. \A m : /\ m \in DOMAIN d /\ m > Len(d) - UncleDepth
                  <=> m \in DOMAIN c /\ i - 1 - UncleDepth < m /\ m < i
               /\ m \in DOMAIN d => d[m] = c[m]
    BY <1>1, <2>1, <2>2, <2>4
  <2>6. QED
    BY <2>3, <2>5
<1>9. u # 0
  <2>1. ASSUME u = 0 PROVE FALSE
    <3>1. blocks[u].parent = None
      BY <1>4, <2>1 DEF TreeInv, ParentOK
    <3>2. blocks[u].parent \in Nat
      BY <1>1, <1>7, <1>8, NextId DEF TreeInv
    <3>3. QED
      BY <3>1, <3>2, EngineAssumption
  <2>2. QED
    BY <2>1
<1> HIDE DEF A, c
<1>10. PICK j \in DOMAIN c : blocks[u].parent = c[j] /\ i - 1 - UncleDepth < j /\ j < i
  BY <1>7, <1>8
<1>11. j # i - 1
  BY <1>7, <1>10
<1>12. j < i - 1
  BY <1>1, <1>2, <1>10, <1>11
<1>13. \A m \in DOMAIN c :
          i - 1 - UncleDepth < m /\ m < i => u # c[m] /\ u \notin UnclesOf(c[m])
  BY <1>7, <1>8
<1>14. QED
  BY <1>4, <1>9, <1>10, <1>12, <1>13 DEF c

\* "Make sure every uncle is rewarded only once": on no chain is a block an uncle
\* twice or an uncle of its own chain, for every window of the verification.
\* The window is enough because an uncle's parent stands within it, so every
\* block that could name the uncle too sees the first one that did.
THEOREM UnclesRewardedOnce == EngineSpec => []UnclesOnce
<1>1. EngineInv => UnclesOnce
  <2> SUFFICES ASSUME EngineInv, NEW b \in Ids, NEW x \in Chain(b), NEW u \in UnclesOf(x)
               PROVE  /\ u \notin Chain(b)
                      /\ \A y \in Chain(b) \ {x} : u \notin UnclesOf(y)
    BY DEF UnclesOnce
  <2>1. TreeInv /\ MinedBlocksVerify
    BY DEF EngineInv
  <2> DEFINE c == blocks[b].chain
  <2>2. PICK i \in DOMAIN c : x = c[i]
    BY DEF Chain
  <2>3. DOMAIN c = 1..Len(c) /\ Len(c) \in Nat /\ UncleDepth \in Nat
    BY <2>1, EngineAssumption DEF TreeInv, ChainOK
  <2> HIDE DEF c
  <2>4. ASSUME NEW k \in DOMAIN c, u \in UnclesOf(c[k])
        PROVE  /\ u \in Ids \ {0}
               /\ \E j \in DOMAIN c : /\ blocks[u].parent = c[j]
                                      /\ k - 1 - UncleDepth < j /\ j < k - 1
               /\ \A m \in DOMAIN c :
                     k - 1 - UncleDepth < m /\ m < k => u # c[m] /\ u \notin UnclesOf(c[m])
    BY <2>1, <2>4, UnclePlace DEF c
  <2>5. ASSUME NEW j \in DOMAIN c, NEW k \in DOMAIN c, c[j] = c[k] PROVE j = k
    BY <2>1, <2>5, ChainDistinct DEF c
  <2>6. PICK j \in DOMAIN c :
           blocks[u].parent = c[j] /\ i - 1 - UncleDepth < j /\ j < i - 1
    BY <2>2, <2>4
  <2>7. \A m \in DOMAIN c :
           i - 1 - UncleDepth < m /\ m < i => u # c[m] /\ u \notin UnclesOf(c[m])
    BY <2>2, <2>4
  <2>8. ASSUME NEW m \in DOMAIN c, u = c[m] PROVE FALSE
    <3>1. m - 1 \in DOMAIN c /\ blocks[u].parent = c[m - 1]
      BY <2>1, <2>2, <2>4, <2>8, ParentOnChain DEF c
    <3>2. j = m - 1
      BY <2>5, <2>6, <3>1
    <3>3. i - 1 - UncleDepth < m /\ m < i
      BY <2>3, <2>6, <3>1, <3>2
    <3>4. QED
      BY <2>7, <2>8, <3>3
  <2>9. ASSUME NEW m \in DOMAIN c, c[m] # x, u \in UnclesOf(c[m]) PROVE FALSE
    <3>1. PICK l \in DOMAIN c :
             blocks[u].parent = c[l] /\ m - 1 - UncleDepth < l /\ l < m - 1
      BY <2>4, <2>9
    <3>2. \A n \in DOMAIN c :
             m - 1 - UncleDepth < n /\ n < m => u # c[n] /\ u \notin UnclesOf(c[n])
      BY <2>4, <2>9
    <3>3. j = l
      BY <2>5, <2>6, <3>1
    <3>4. CASE m < i
      <4>1. i - 1 - UncleDepth < m
        BY <2>3, <2>6, <3>1, <3>3
      <4>2. QED
        BY <2>7, <2>9, <3>4, <4>1
    <3>5. CASE i < m
      <4>1. m - 1 - UncleDepth < i
        BY <2>3, <2>6, <3>1, <3>3
      <4>2. QED
        BY <2>2, <3>2, <3>5, <4>1
    <3>6. i # m
      BY <2>2, <2>9
    <3>7. QED
      BY <2>3, <3>4, <3>5, <3>6
  <2>10. QED
    BY <2>8, <2>9 DEF Chain, c
<1>2. QED
  BY <1>1, EngineCorrect, PTL

\* The newest block leaves room in 256 bits for the difficulty of a child.
NewestHasRoom == RoomFor(blocks[Cardinality(Ids) - 1])

\* The big-integer calculators and their 256-bit variants give a child of any
\* block the same difficulty whenever it is found, as long as the difficulty
\* has not come within two 2048ths of 2^256.
THEOREM CalculatorsAgreeOnTree == EngineSpec => [](NewestHasRoom => CalculatorsAgree)
<1>1. EngineInv => (NewestHasRoom => CalculatorsAgree)
  <2> DEFINE p == blocks[Cardinality(Ids) - 1]
  <2> SUFFICES ASSUME EngineInv, RoomFor(p), NEW d \in 1..MaxTime
               PROVE  SameDifficulty(p.time + d, p)
    BY DEF NewestHasRoom, CalculatorsAgree
  <2>1. FieldsOK(Cardinality(Ids) - 1)
    BY NextId DEF EngineInv, TreeInv
  <2>2. /\ p.number \in Nat /\ p.difficulty \in Nat /\ p.time \in 0..(MaxTime + 1)
        /\ p.gasLimit \in MinGasLimit..MaxGasLimit /\ p.hasUncles \in BOOLEAN
    BY <2>1 DEF FieldsOK
  <2>3. /\ MaxTime \in Nat /\ 2 * MaxTime + 1 < Word64 /\ Word64 \in Nat /\ Word256 \in Nat
        /\ MinGasLimit \in Nat /\ MaxGasLimit \in Nat
        /\ DifficultyBoundDivisor \in Nat /\ DifficultyBoundDivisor > 0
    BY EngineAssumption, RulesAssumption
  <2> HIDE DEF p
  <2>4. p.difficulty < Word256
    <3>1. p.difficulty \div DifficultyBoundDivisor \in Nat
      BY <2>2, <2>3, Division
    <3>2. QED
      BY <2>2, <2>3, <3>1 DEF RoomFor
  <2>5. IsHeader(p)
    <3>1. p.difficulty \in 0..(Word256 - 1)
      BY <2>2, <2>3, <2>4
    <3>2. p.time \in 0..(Word64 - 1) /\ p.gasLimit \in 0..MaxGasLimit
      BY <2>2, <2>3
    <3>3. QED
      BY <2>2, <3>1, <3>2 DEF IsHeader
  <2>6. p.time + d \in 0..(Word64 - 1) /\ p.time + d > p.time
    BY <2>2, <2>3
  <2>7. QED
    BY <2>5, <2>6, CalculatorsGiveOneDifficulty
<1>2. QED
  BY <1>1, EngineCorrect, PTL

-----------------------------------------------------------------------------
(* The supply on every branch *)

\* What the schedule has issued up to block n.
IssuedBy(n) == ScheduledSupply(IF n < FinalBlock THEN n ELSE FinalBlock - 1)

\* Every block carries the number of its place and the supply of the schedule,
\* and so do the canonical states, whichever branch they are of.
SupplyInv ==
    /\ blocks[0].number \in Nat /\ blocks[0].number >= BaseBlock
    /\ \A b \in Ids : /\ blocks[b].number = blocks[0].number + Len(blocks[b].chain) - 1
                      /\ blocks[b].supply = IssuedBy(blocks[b].number)
    /\ number = blocks[head].number
    /\ \A n \in BaseBlock..number : supplyAt[n] = IssuedBy(n)

\* The reward of a block is what the schedule issues with it, the final block
\* and those beyond it included.
LEMMA IssuedStep ==
  ASSUME NEW n \in Nat
  PROVE  IssuedBy(n + 1) = IssuedBy(n) + accumulateRewards(n + 1) /\ IssuedBy(n) \in Nat
<1>1. FinalBlock \in Nat /\ FinalBlock > 0 /\ SupplyCap \in Nat
  BY ScheduleAssumption
<1>2. IssuedBy(n) \in Nat /\ IssuedBy(n + 1) \in Nat
  <2>1. FinalBlock - 1 \in Nat /\ n + 1 \in Nat
    BY <1>1
  <2>2. QED
    BY <2>1, ScheduledSupplyType DEF IssuedBy
<1>3. CASE n + 1 < FinalBlock
  <2>1. n < FinalBlock /\ ~(n + 1 >= FinalBlock) /\ n + 1 \in Nat
    BY <1>1, <1>3
  <2>2. ScheduledSupply(n + 1) \in Nat /\ ScheduledSupply(n + 1) < SupplyCap
    BY <1>3, <2>1, ScheduledSupplyType, ScheduleBelowCap
  <2>3. accumulateRewards(n + 1) = calculateBlockReward(n + 1, ScheduledSupply(n + 1))
    BY <2>1 DEF accumulateRewards, CalculateCirculatingSupply
  <2>4. ScheduledSupply(n + 1) =
           ScheduledSupply(n) + calculateBlockReward(n + 1, ScheduledSupply(n + 1))
    BY <2>2, ScheduleStep
  <2>5. QED
    BY <1>2, <1>3, <2>1, <2>3, <2>4 DEF IssuedBy
<1>4. CASE ~(n + 1 < FinalBlock)
  <2>1. n + 1 >= FinalBlock /\ (n < FinalBlock => n = FinalBlock - 1)
    BY <1>1, <1>4
  <2>2. accumulateRewards(n + 1) = 0
    BY <1>1, <2>1 DEF accumulateRewards, CalculateCirculatingSupply, calculateBlockReward
  <2>3. IssuedBy(n + 1) = ScheduledSupply(FinalBlock - 1)
    BY <1>4 DEF IssuedBy
  <2>4. IssuedBy(n) = ScheduledSupply(FinalBlock - 1)
    BY <2>1 DEF IssuedBy
  <2>5. QED
    BY <1>2, <2>2, <2>3, <2>4
<1>5. QED
  BY <1>2, <1>3, <1>4

\* What Insert does to the head and the canonical states: nothing, one more
\* block, or the states of another branch.
LEMMA InsertStates ==
  ASSUME TreeInv, NEW h, NEW parent \in Ids, NEW us, NEW local, Insert(h, parent, us, local)
  PROVE  LET id == Cardinality(Ids)
         IN  \/ UNCHANGED <<head, vars>>
             \/ head' = id /\ parent = head /\ Finalize
             \/ /\ head' = id /\ number' = h.number
                /\ supplyAt' = [n \in BaseBlock..h.number |->
                      IF n < blocks[0].number THEN supplyAt[n]
                      ELSE blocks'[blocks'[id].chain[n - blocks[0].number + 1]].supply]
<1> DEFINE id == Cardinality(Ids)
           b == [number |-> h.number, time |-> h.time, difficulty |-> h.difficulty,
                 gasLimit |-> h.gasLimit, hasUncles |-> us # << >>,
                 parent |-> parent, uncles |-> us, local |-> local,
                 chain |-> Append(blocks[parent].chain, id),
                 td |-> blocks[parent].td + h.difficulty,
                 supply |-> blocks[parent].supply + accumulateRewards(h.number)]
<1>1. \/ UNCHANGED <<head, vars>>
      \/ head' = id /\ parent = head /\ Finalize
      \/ head' = id /\ Switch(b)
  BY DEF Insert
<1>2. b.number = h.number /\ b.chain = Append(blocks[parent].chain, id)
  OBVIOUS
<1>3. blocks'[id].chain = Append(blocks[parent].chain, id)
  BY InsertGrows DEF Grows
<1>4. ASSUME Switch(b)
      PROVE  /\ number' = h.number
             /\ supplyAt' = [n \in BaseBlock..h.number |->
                  IF n < blocks[0].number THEN supplyAt[n]
                  ELSE blocks'[blocks'[id].chain[n - blocks[0].number + 1]].supply]
  <2> HIDE DEF b, id
  <2>1. QED
    BY <1>2, <1>3, <1>4 DEF Switch
<1>5. QED
  BY <1>1, <1>4

\* A block with the next number keeps the supply in order.
LEMMA InsertKeepsSupply ==
  ASSUME EngineInv, EngineInv', SupplyInv, NEW h, NEW parent \in Ids, NEW us, NEW local,
         Insert(h, parent, us, local), h.number = blocks[parent].number + 1
  PROVE  SupplyInv'
<1>0. PICK id : id = Cardinality(Ids)
  OBVIOUS
<1> DEFINE root == blocks[0].number
           c == blocks'[id].chain
<1>1. TreeInv /\ Grows(id, h, parent, us) /\ 0 \in Ids /\ head \in Ids
  BY <1>0, InsertGrows, NextId DEF EngineInv, TreeInv
<1>2. /\ Ids' = Ids \cup {id} /\ \A x \in Ids : blocks'[x] = blocks[x]
      /\ blocks'[id].number = h.number /\ c = Append(blocks[parent].chain, id)
      /\ blocks'[id].supply = blocks[parent].supply + accumulateRewards(h.number)
  BY <1>1 DEF Grows
<1>s. \/ UNCHANGED <<head, vars>>
      \/ head' = id /\ parent = head /\ Finalize
      \/ /\ head' = id /\ number' = h.number
         /\ supplyAt' = [n \in BaseBlock..h.number |->
               IF n < blocks[0].number THEN supplyAt[n]
               ELSE blocks'[blocks'[id].chain[n - blocks[0].number + 1]].supply]
  BY <1>0, <1>1, InsertStates
<1>3. /\ root \in Nat /\ root >= BaseBlock /\ BaseBlock \in Nat /\ blocks'[0].number = root
      /\ \A b \in Ids : blocks[b].number \in Nat
  BY <1>1, <1>2, ScheduleAssumption DEF SupplyInv, TreeInv, FieldsOK
<1>4. /\ Len(blocks[parent].chain) \in Nat /\ Len(c) = Len(blocks[parent].chain) + 1
      /\ h.number = root + Len(c) - 1 /\ h.number \in Nat
  <2>1. blocks[parent].chain \in Seq(Ids)
    BY <1>1 DEF TreeInv, ChainOK
  <2>2. Len(blocks[parent].chain) \in Nat /\ Len(c) = Len(blocks[parent].chain) + 1
    BY <1>2, <2>1
  <2>3. blocks[parent].number = root + Len(blocks[parent].chain) - 1
    BY DEF SupplyInv
  <2> DEFINE l == Len(blocks[parent].chain)
             m == Len(c)
  <2>4. h.number = (root + l - 1) + 1
    BY <2>3
  <2> HIDE DEF root, l, m
  <2>5. l \in Nat /\ m = l + 1
    BY <2>2 DEF l, m
  <2>6. (root + l - 1) + 1 = root + m - 1 /\ root + m - 1 \in Nat
    BY <1>3, <2>5
  <2>7. h.number = root + m - 1 /\ h.number \in Nat
    BY <2>4, <2>6
  <2>8. QED
    BY <2>5, <2>7 DEF l, m
<1>5. blocks'[id].supply = IssuedBy(h.number)
  <2>1. blocks[parent].supply = IssuedBy(blocks[parent].number) /\ blocks[parent].number \in Nat
    BY <1>3 DEF SupplyInv
  <2>2. QED
    BY <1>2, <2>1, IssuedStep
<1>6. ASSUME NEW b \in Ids'
      PROVE  /\ blocks'[b].number = root + Len(blocks'[b].chain) - 1
             /\ blocks'[b].supply = IssuedBy(blocks'[b].number)
  <2>1. CASE b \in Ids
    BY <1>2, <2>1 DEF SupplyInv
  <2>2. CASE b = id
    BY <1>2, <1>4, <1>5, <2>2
  <2>3. QED
    BY <1>2, <1>6, <2>1, <2>2
<1>7. number' = blocks'[head'].number /\ \A n \in BaseBlock..number' : supplyAt'[n] = IssuedBy(n)
  <2>1. CASE UNCHANGED <<head, vars>>
    BY <1>1, <1>2, <2>1 DEF SupplyInv, vars
  <2>2. CASE head' = id /\ parent = head /\ Finalize
    <3>1. number = blocks[head].number /\ number \in Nat /\ number + 1 = h.number
      BY <1>1, <1>3, <2>2 DEF SupplyInv
    <3>2. /\ number' = number + 1
          /\ \A n \in BaseBlock..(number + 1) :
                supplyAt'[n] = IF n = number + 1 THEN supplyAt[number] + accumulateRewards(n)
                               ELSE supplyAt[n]
      BY <2>2 DEF Finalize
    <3>3. number \in BaseBlock..number
      <4> DEFINE l == Len(blocks[head].chain)
      <4>1. l \in Nat /\ l >= 1
        <5>1. blocks[head].chain \in Seq(Ids) /\ l >= 1
          BY <1>1 DEF TreeInv, ChainOK
        <5> QED BY <5>1
      <4>2. number = blocks[0].number + l - 1
        BY <1>1, <3>1 DEF SupplyInv, TreeInv
      <4>3. /\ BaseBlock \in Nat /\ blocks[0].number \in Nat /\ blocks[0].number >= BaseBlock
        BY ScheduleAssumption DEF SupplyInv
      <4> HIDE DEF l
      <4> QED BY <4>1, <4>2, <4>3
    <3>4. supplyAt[number] = IssuedBy(number)
      BY <3>3 DEF SupplyInv
    <3>5. \A n \in BaseBlock..(number + 1) : n # number + 1 => supplyAt[n] = IssuedBy(n)
      BY <1>3, <3>1 DEF SupplyInv
    <3>6. \A n \in BaseBlock..(number + 1) : supplyAt'[n] = IssuedBy(n)
      BY <3>1, <3>2, <3>4, <3>5, IssuedStep
    <3>7. QED
      BY <1>2, <2>2, <3>1, <3>2, <3>6
  <2>3. CASE /\ head' = id /\ number' = h.number
             /\ supplyAt' = [n \in BaseBlock..h.number |->
                   IF n < root THEN supplyAt[n] ELSE blocks'[c[n - root + 1]].supply]
    <3>1. ASSUME NEW n \in BaseBlock..h.number PROVE supplyAt'[n] = IssuedBy(n)
      <4>0. n \in Nat /\ n <= h.number /\ BaseBlock <= n
        BY <1>3, <1>4, <3>1
      <4>1. CASE n < root
        <5>1. number = root + Len(blocks[head].chain) - 1 /\ Len(blocks[head].chain) \in Nat
              /\ Len(blocks[head].chain) >= 1
          BY <1>1 DEF SupplyInv, TreeInv, ChainOK
        <5>2. n \in BaseBlock..number
          BY <1>3, <4>0, <4>1, <5>1
        <5>3. supplyAt[n] = IssuedBy(n)
          BY <5>2 DEF SupplyInv
        <5>4. QED
          BY <2>3, <3>1, <4>1, <5>3
      <4>2. CASE ~(n < root)
        <5> DEFINE k == n - root + 1
        <5>1. k \in 1..Len(c)
          <6> DEFINE m == Len(c)
          <6>1. m \in Nat /\ n <= root + m - 1
            BY <1>4, <4>0
          <6> HIDE DEF m, root
          <6>2. k \in 1..m
            BY <1>3, <4>0, <4>2, <6>1
          <6>3. QED
            BY <6>2 DEF m
        <5>2. ChainOK(id)'
          BY <1>2 DEF EngineInv, TreeInv
        <5> HIDE DEF k
        <5>3. c[k] \in Ids' /\ Len(blocks'[c[k]].chain) = k
          BY <5>1, <5>2 DEF ChainOK
        <5>4. blocks'[c[k]].number = root + k - 1 /\ blocks'[c[k]].supply = IssuedBy(blocks'[c[k]].number)
          BY <1>6, <5>3
        <5>5. root + k - 1 = n
          BY <1>3, <4>0 DEF k
        <5>6. QED
          BY <2>3, <3>1, <4>2, <5>4, <5>5 DEF k
      <4>3. QED
        BY <4>1, <4>2
    <3>2. QED
      BY <1>2, <2>3, <3>1
  <2>4. QED
    BY <1>s, <2>1, <2>2, <2>3
<1>8. QED
  BY <1>3, <1>6, <1>7 DEF SupplyInv

\* On every branch of every tree, before and after any reorg, the supply the
\* closed form reports is the supply issued, and it stays within the cap.
THEOREM SupplyOnEveryBranch ==
  EngineSpec => [](ReportedSupplyIsIssuedSupply /\ SupplyNeverExceedsCap)
<1>1. EngineInit => SupplyInv
  <2> SUFFICES ASSUME EngineInit PROVE SupplyInv
    OBVIOUS
  <2>1. PICK n \in RootNumber :
           /\ DOMAIN blocks = {0} /\ blocks[0].number = n /\ blocks[0].chain = <<0>>
           /\ head = 0 /\ number = n /\ supplyAt = [m \in BaseBlock..n |-> IssuedBy(m)]
           /\ blocks[0].supply = supplyAt[n]
    <3>1. PICK n \in RootNumber :
             LET issued == [m \in BaseBlock..n |->
                              ScheduledSupply(IF m < FinalBlock THEN m ELSE FinalBlock - 1)]
             IN  /\ number = n /\ supplyAt = issued
                 /\ blocks = [x \in {0} |->
                               [number |-> n, time |-> 0, difficulty |-> RootDifficulty,
                                gasLimit |-> RootGasLimit, hasUncles |-> FALSE,
                                parent |-> None, uncles |-> << >>, local |-> FALSE,
                                chain |-> <<0>>, td |-> RootDifficulty, supply |-> issued[n]]]
                 /\ head = 0 /\ side = {} /\ current = None
      BY DEF EngineInit
    <3>2. supplyAt = [m \in BaseBlock..n |-> IssuedBy(m)]
      BY <3>1 DEF IssuedBy
    <3>3. DOMAIN blocks = {0} /\ 0 \in {0}
      BY <3>1
    <3>4. blocks[0].number = n /\ blocks[0].chain = <<0>> /\ blocks[0].supply = supplyAt[n]
      BY <3>1, <3>3
    <3>5. QED
      BY <3>1, <3>2, <3>3, <3>4
  <2>2. n \in Nat /\ n >= BaseBlock /\ BaseBlock \in Nat /\ n \in BaseBlock..n
    BY ScheduleAssumption, EngineAssumption
  <2>3. Len(<<0>>) = 1
    OBVIOUS
  <2>4. \A m \in BaseBlock..n : supplyAt[m] = IssuedBy(m)
    BY <2>1
  <2>5. \A b \in Ids : b = 0
    BY <2>1 DEF Ids
  <2>6. n = n + 1 - 1
    BY <2>2
  <2>7. QED
    BY <2>1, <2>2, <2>3, <2>4, <2>5, <2>6 DEF SupplyInv
<1>2. EngineInv /\ EngineInv' /\ SupplyInv /\ [EngineNext]_<<vars, treeVars>> => SupplyInv'
  <2> SUFFICES ASSUME EngineInv, EngineInv', SupplyInv, [EngineNext]_<<vars, treeVars>>
               PROVE  SupplyInv'
    OBVIOUS
  <2>1. ASSUME NEW p \in Ids, NEW us \in UncleLists, NEW d \in DelaysAfter(p), PeerBlock(p, d, us)
        PROVE  SupplyInv'
    <3> DEFINE b == blocks[p]
               h == [number |-> b.number + 1, time |-> b.time + d,
                     difficulty |-> CalcDifficulty(b.time + d, b),
                     gasLimit |-> CalcGasLimit(b.gasLimit, PeerCeil)]
    <3>1. Insert(h, p, us, FALSE) /\ h.number = blocks[p].number + 1
      BY <2>1 DEF PeerBlock
    <3> HIDE DEF h
    <3>2. QED
      BY <2>1, <3>1, InsertKeepsSupply
  <2>2. CASE Sealed
    <3>1. /\ current # None /\ Insert(current.header, current.parent, current.uncles, TRUE)
      BY <2>2 DEF Sealed
    <3>2. current.parent \in Ids /\ current.header.number = blocks[current.parent].number + 1
      BY <3>1 DEF EngineInv, WorkOK, Works, verifyHeader
    <3>3. QED
      BY <3>1, <3>2, InsertKeepsSupply
  <2>3. CASE UNCHANGED <<blocks, head, vars>>
    BY <2>3 DEF SupplyInv, vars, Ids
  <2>4. QED
    BY <2>1, <2>2, <2>3 DEF EngineNext, PrepareWork, ReceiveSide, treeVars
<1>3. EngineInv /\ SupplyInv => ReportedSupplyIsIssuedSupply /\ SupplyNeverExceedsCap
  <2> SUFFICES ASSUME EngineInv, SupplyInv, NEW n \in BaseBlock..number
               PROVE  /\ n < FinalBlock => CalculateCirculatingSupply(n) = supplyAt[n]
                      /\ supplyAt[n] <= SupplyCap
    BY DEF ReportedSupplyIsIssuedSupply, SupplyNeverExceedsCap
  <2>1. number \in Nat /\ BaseBlock \in Nat /\ FinalBlock \in Nat /\ FinalBlock > 0 /\ SupplyCap \in Nat
    BY ScheduleAssumption DEF EngineInv, TreeInv, FieldsOK, SupplyInv
  <2>2. n \in Nat /\ FinalBlock - 1 \in Nat /\ FinalBlock - 1 < FinalBlock
    BY <2>1
  <2>3. supplyAt[n] = IssuedBy(n)
    BY DEF SupplyInv
  <2>4. IssuedBy(n) \in Nat /\ IssuedBy(n) < SupplyCap
    BY <2>2, IssuedStep, ScheduleBelowCap DEF IssuedBy
  <2>5. n < FinalBlock => ~(n >= FinalBlock)
    BY <2>1, <2>2
  <2>6. QED
    BY <2>1, <2>3, <2>4, <2>5 DEF IssuedBy, CalculateCirculatingSupply
<1>4. QED
  BY <1>1, <1>2, <1>3, EngineCorrect, PTL DEF EngineSpec

=============================================================================
