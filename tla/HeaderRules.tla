---------------------------- MODULE HeaderRules ----------------------------
(***************************************************************************)
(* The rules of the ethash engine for a header and its parent: difficulty, *)
(* time, gas limit and number (client/consensus/ethash, consensus/misc),   *)
(* and the header a miner prepares on top of a parent (miner/worker.go).   *)
(*                                                                         *)
(* What execution and sealing put into a header is left out: roots, gas    *)
(* used, extra data and the seal.                                          *)
(***************************************************************************)
EXTENDS Integers

CONSTANTS
    DurationLimit,             \* 7: targetDurationLimit, params.DurationLimit, big7
    DifficultyBoundDivisor,    \* 2048, a shift by 11 in the 256-bit code
    MaxFactor,                 \* 99
    MinimumDifficulty,         \* 131072
    HomesteadBlock, ByzantiumBlock,
    GasLimitBoundDivisor,      \* 1024
    MinGasLimit, MaxGasLimit,  \* 5000, 2^63 - 1
    AllowedFuture,             \* allowedFutureBlockTimeSeconds
    Word64, Word256            \* 2^64, 2^256

\* What the literals of the code satisfy.
ASSUME RulesAssumption ==
    /\ {DurationLimit, DifficultyBoundDivisor, MaxFactor, MinimumDifficulty, HomesteadBlock,
        ByzantiumBlock, GasLimitBoundDivisor, MinGasLimit, MaxGasLimit, AllowedFuture,
        Word64, Word256} \subseteq Nat
    /\ 0 < DurationLimit
    /\ 2 <= MaxFactor /\ MaxFactor < DifficultyBoundDivisor
    /\ 0 < MinimumDifficulty /\ MinimumDifficulty < Word64 /\ Word64 <= Word256
    /\ 0 < GasLimitBoundDivisor /\ GasLimitBoundDivisor <= MinGasLimit
    /\ MinGasLimit <= MaxGasLimit /\ 2 * MaxGasLimit < Word64

\* The fields of a header the rules read; hasUncles stands for an uncle hash
\* other than the empty one.
IsHeader(h) ==
    /\ h.number \in Nat /\ h.time \in 0..(Word64 - 1) /\ h.difficulty \in 0..(Word256 - 1)
    /\ h.gasLimit \in 0..MaxGasLimit /\ h.hasUncles \in BOOLEAN

-----------------------------------------------------------------------------
(* Difficulty *)

AtLeastMinimum(d) == IF d < MinimumDifficulty THEN MinimumDifficulty ELSE d

calcDifficultyFrontier(time, parent) ==
    LET adjust == parent.difficulty \div DifficultyBoundDivisor
    IN  AtLeastMinimum(IF time - parent.time < DurationLimit
                       THEN parent.difficulty + adjust
                       ELSE parent.difficulty - adjust)

calcDifficultyHomestead(time, parent) ==
    LET x == 1 - ((time - parent.time) \div DurationLimit)
        factor == IF x < -MaxFactor THEN -MaxFactor ELSE x
    IN  AtLeastMinimum(parent.difficulty
                         + (parent.difficulty \div DifficultyBoundDivisor) * factor)

\* time - parent.Time on 64-bit words.
Elapsed(time, parent) == (time - parent.time) % Word64

\* The common end of the 256-bit calculators: the parent's difficulty moved by
\* the given number of 2048ths, up or down, on 256-bit words.
Moved(parent, x, down) ==
    LET adjust == ((parent.difficulty \div DifficultyBoundDivisor) * x) % Word256
    IN  AtLeastMinimum(IF down THEN (parent.difficulty - adjust) % Word256
                       ELSE (parent.difficulty + adjust) % Word256)

CalcDifficultyFrontierU256(time, parent) ==
    Moved(parent, 1, ~(Elapsed(time, parent) < DurationLimit))

\* Mutant: the factor is cut one step early.
HomesteadU256EarlyCut(time, parent) ==
    LET x == Elapsed(time, parent) \div DurationLimit
    IN  IF x = 0 THEN Moved(parent, 1, FALSE)
        ELSE IF x >= MaxFactor THEN Moved(parent, MaxFactor, TRUE)
        ELSE Moved(parent, x - 1, TRUE)

CalcDifficultyHomesteadU256(time, parent) ==
    LET x == Elapsed(time, parent) \div DurationLimit
    IN  IF x = 0 THEN Moved(parent, 1, FALSE)
        ELSE IF x > MaxFactor THEN Moved(parent, MaxFactor, TRUE)
        ELSE Moved(parent, x - 1, TRUE)

\* makeDifficultyCalculator, and MakeDifficultyCalculatorU256, which is the same
\* code: a parent with uncles makes blocks harder by one more step.
DynamicDifficulty(time, parent) ==
    LET x == Elapsed(time, parent) \div DurationLimit
        c == IF parent.hasUncles THEN 2 ELSE 1
        distance == IF x >= c THEN x - c ELSE c - x
    IN  Moved(parent, IF distance > MaxFactor THEN MaxFactor ELSE distance, x >= c)

\* CalcDifficulty.  The later forks it names use the same calculator.
CalcDifficulty(time, parent) ==
    IF parent.number + 1 >= ByzantiumBlock THEN DynamicDifficulty(time, parent)
    ELSE IF parent.number + 1 >= HomesteadBlock THEN calcDifficultyHomestead(time, parent)
    ELSE calcDifficultyFrontier(time, parent)

\* All calculators that apply the same rules give the same difficulty.
SameDifficulty(time, parent) ==
    /\ calcDifficultyFrontier(time, parent) = CalcDifficultyFrontierU256(time, parent)
    /\ calcDifficultyHomestead(time, parent) = CalcDifficultyHomesteadU256(time, parent)
    /\ ~parent.hasUncles =>
          calcDifficultyHomestead(time, parent) = DynamicDifficulty(time, parent)

-----------------------------------------------------------------------------
(* Gas limit and the whole header *)

VerifyGaslimit(parentGasLimit, headerGasLimit) ==
    LET diff == IF parentGasLimit < headerGasLimit THEN headerGasLimit - parentGasLimit
                ELSE parentGasLimit - headerGasLimit
    IN  /\ diff < parentGasLimit \div GasLimitBoundDivisor
        /\ headerGasLimit >= MinGasLimit

\* CalcGasLimit: as close to the limit the miner desires as one block may go.
CalcGasLimit(parentGasLimit, desiredLimit) ==
    LET delta == (parentGasLimit \div GasLimitBoundDivisor - 1) % Word64
        desired == IF desiredLimit < MinGasLimit THEN MinGasLimit ELSE desiredLimit
        up == (parentGasLimit + delta) % Word64
        down == (parentGasLimit - delta) % Word64
    IN  IF parentGasLimit < desired THEN (IF up > desired THEN desired ELSE up)
        ELSE IF parentGasLimit > desired THEN (IF down < desired THEN desired ELSE down)
        ELSE parentGasLimit

\* verifyHeader without the fields left out.  A header from the future fails
\* with ErrFutureBlock, unless it is an uncle.
verifyHeader(header, parent, uncle, unixNow) ==
    /\ ~uncle => header.time <= unixNow + AllowedFuture
    /\ header.time > parent.time
    /\ header.difficulty = CalcDifficulty(header.time, parent)
    /\ header.gasLimit <= MaxGasLimit
    /\ VerifyGaslimit(parent.gasLimit, header.gasLimit)
    /\ header.number = parent.number + 1

\* prepareWork up to the call of Prepare, which sets the difficulty.  A clock
\* that is behind the parent yields the second after it.
prepareHeader(parent, timestamp, gasCeil) ==
    LET time == IF parent.time >= timestamp THEN parent.time + 1 ELSE timestamp
    IN  [number |-> parent.number + 1, time |-> time,
         difficulty |-> CalcDifficulty(time, parent),
         gasLimit |-> CalcGasLimit(parent.gasLimit, gasCeil)]

=============================================================================
