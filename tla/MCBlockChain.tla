---------------------------- MODULE MCBlockChain ----------------------------
(***************************************************************************)
(* Small block trees for model checking BlockChain.                        *)
(***************************************************************************)
EXTENDS BlockChain

\* The height and time of a block is the number in its name.
Heights == [b \in Block |->
    CASE b = "g" -> 0
      [] b \in {"a1", "b1", "c1"} -> 1
      [] b \in {"a2", "b2", "c2"} -> 2
      [] b \in {"a3", "b3"} -> 3
      [] b \in {"a4", "b4"} -> 4]

\* Two branches of equal difficulty and length three, a transaction in both, and
\* a block above b1 for one that is invalid.
EvenBlocks == {"g", "a1", "a2", "a3", "b1", "b2", "b3", "c2"}
EvenParent == [b \in EvenBlocks \ {"g"} |->
    CASE b \in {"a1", "b1"} -> "g"
      [] b = "a2" -> "a1" [] b = "a3" -> "a2"
      [] b \in {"b2", "c2"} -> "b1" [] b = "b3" -> "b2"]
EvenTD == [b \in EvenBlocks |-> Heights[b] + 1]
TwoTxs == {"t", "u"}
EvenTxs == [b \in EvenBlocks |->
    CASE b \in {"a1", "b2"} -> {"t"} [] b \in {"a2", "b3"} -> {"u"} [] OTHER -> {}]

\* Light blocks a1 and a2, heavy b1, and c2, heavier still, above a1; b2, which
\* fails to execute, and b3 above it.  The blocks c2, b2 and b3 are ahead of the
\* clock.
ClockBlocks == {"g", "a1", "a2", "b1", "b2", "b3", "c2"}
ClockParent == [b \in ClockBlocks \ {"g"} |-> IF b = "c2" THEN "a1" ELSE EvenParent[b]]
ClockTD == [b \in ClockBlocks |->
    CASE b = "g" -> 1 [] b = "a1" -> 2 [] b = "a2" -> 3
      [] b = "b1" -> 4 [] b = "c2" -> 5 [] b = "b2" -> 6 [] b = "b3" -> 7]
ClockTime == [b \in ClockBlocks |->
    CASE b \in {"b2", "c2"} -> 3 [] b = "b3" -> 4 [] OTHER -> Heights[b]]
ClockTxs == [b \in ClockBlocks |->
    CASE b \in {"a1", "b1"} -> {"t"} [] b \in {"a2", "c2", "b2"} -> {"u"} [] OTHER -> {}]

\* A single block heavier than the two it competes with.
HeavyBlocks == {"g", "a1", "a2", "c1"}
HeavyParent == [b \in HeavyBlocks \ {"g"} |-> IF b = "a2" THEN "a1" ELSE "g"]
HeavyTD == [b \in HeavyBlocks |->
    CASE b = "g" -> 1 [] b = "a1" -> 2 [] b = "a2" -> 3 [] b = "c1" -> 4]
HeavyTxs == [b \in HeavyBlocks |-> {}]

\* Two branches of length two, for the runs with a clock.
ShortBlocks == {"g", "a1", "a2", "b1", "b2"}
ShortParent == [b \in ShortBlocks \ {"g"} |-> EvenParent[b]]
ShortTD == [b \in ShortBlocks |-> Heights[b] + 1]
ShortTxs == [b \in ShortBlocks |-> {}]

=============================================================================
