------------------------------- MODULE Wallets -------------------------------
(***************************************************************************)
(* What the contracts of the protocol share: wallets that call them, hold  *)
(* native R5, and may or may not take a plain payment, and the totals that *)
(* a contract owes.                                                        *)
(***************************************************************************)
EXTENDS Integers, FiniteSets

CONSTANTS
    Wallet,      \* msg.sender of calls
    Payee,       \* wallets that take a plain payment
    Funds,       \* native balance of each wallet at the start
    None,        \* address(0), bytes32(0) and the empty string
    MaxReward    \* bound: native R5 credited to a contract without a call

ASSUME WalletAssumption ==
    Payee \subseteq Wallet /\ None \notin Wallet /\ Funds \in Nat /\ MaxReward \in Nat

VARIABLE native  \* native balance of each wallet

Amounts == 0..(Cardinality(Wallet) * Funds)

\* The total of a function of balances, as the number of units held: a balance
\* of n is n units <<holder, 1>> .. <<holder, n>>.  Written this way a total can
\* be reasoned about with the theorems on cardinality: a payment adds units to a
\* finite set or takes some away.
Units(balance) == UNION {{h} \X (1..balance[h]) : h \in DOMAIN balance}

Total(balance) == Cardinality(Units(balance))

=============================================================================
