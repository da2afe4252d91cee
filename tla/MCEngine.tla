------------------------------ MODULE MCEngine ------------------------------
(***************************************************************************)
(* The engine with the numbers of the code scaled down.                    *)
(***************************************************************************)
EXTENDS Engine

=============================================================================
