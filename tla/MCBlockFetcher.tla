--------------------------- MODULE MCBlockFetcher ---------------------------
(***************************************************************************)
(* A chain of three blocks: x, which only the node itself extends its      *)
(* chain with, then b, then c, whose header is the whole block.            *)
(***************************************************************************)
EXTENDS BlockFetcher

CONSTANTS x, b, c

Numbers == (x :> 1) @@ (b :> 2) @@ (c :> 3)
Parents == (x :> Genesis) @@ (b :> x) @@ (c :> b)

=============================================================================
