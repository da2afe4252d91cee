----------------------------- MODULE MCContracts -----------------------------
(***************************************************************************)
(* Two wallets, one of which, a contract, takes no plain payments, and two *)
(* subnets.  Salts are interchangeable, and so are endpoints.              *)
(***************************************************************************)
EXTENDS Contracts, TLC

SaltsAndEndpoints == Permutations(Salt) \cup Permutations(Endpoint)

=============================================================================
