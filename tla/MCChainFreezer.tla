--------------------------- MODULE MCChainFreezer ---------------------------
(***************************************************************************)
(* ChainFreezer for TLC: a table of small items and one of large ones.     *)
(***************************************************************************)
EXTENDS ChainFreezer

MCKind == {"hashes", "bodies"}
MCSize == [k \in MCKind |-> IF k = "hashes" THEN 1 ELSE 2]

=============================================================================
