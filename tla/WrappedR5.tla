------------------------------ MODULE WrappedR5 ------------------------------
(***************************************************************************)
(* The WR5 token (wrapped/WrappedR5.sol): native R5 deposited in the       *)
(* contract is held, transferred and spent on behalf of others as WR5, and *)
(* withdrawn again.  Calls that revert change nothing and are no steps.    *)
(***************************************************************************)
EXTENDS Wallets

CONSTANTS
    This,        \* the address of the contract, a legal recipient of WR5
    MaxUint,     \* type(uint256).max: an allowance that is never used up
    Approvals    \* amounts approve is called with

ASSUME WrappedAssumption ==
    /\ This \notin Wallet /\ MaxUint \in Nat /\ Approvals \subseteq 0..MaxUint
    /\ Cardinality(Wallet) * Funds + MaxReward < MaxUint

VARIABLES
    balanceOf, allowance,
    wrapped,     \* native balance of the contract
    tokenReward, \* what the contract was credited without a call
    granted,     \* history: the last amount approved
    drawn        \* history: what was spent of it

tokenVars == <<balanceOf, allowance, native, wrapped, tokenReward, granted, drawn>>

Holder == Wallet \cup {This}

-----------------------------------------------------------------------------
\* deposit, receive and fallback
deposit(u, value) ==
    /\ native[u] >= value
    /\ balanceOf' = [balanceOf EXCEPT ![u] = @ + value]
    /\ native' = [native EXCEPT ![u] = @ - value] /\ wrapped' = wrapped + value
    /\ UNCHANGED <<allowance, tokenReward, granted, drawn>>

\* Mutant: the balance is not reduced.
WithdrawTwice(u, amount) ==
    /\ balanceOf[u] >= amount /\ u \in Payee /\ wrapped >= amount
    /\ native' = [native EXCEPT ![u] = @ + amount] /\ wrapped' = wrapped - amount
    /\ UNCHANGED <<balanceOf, allowance, tokenReward, granted, drawn>>

withdraw(u, amount) ==
    /\ balanceOf[u] >= amount /\ u \in Payee /\ wrapped >= amount
    /\ balanceOf' = [balanceOf EXCEPT ![u] = @ - amount]
    /\ native' = [native EXCEPT ![u] = @ + amount] /\ wrapped' = wrapped - amount
    /\ UNCHANGED <<allowance, tokenReward, granted, drawn>>

totalSupply == wrapped

approve(u, spender, amount) ==
    /\ allowance' = [allowance EXCEPT ![u][spender] = amount]
    /\ granted' = [granted EXCEPT ![u][spender] = amount]
    /\ drawn' = [drawn EXCEPT ![u][spender] = 0]
    /\ UNCHANGED <<balanceOf, native, wrapped, tokenReward>>

\* Mutant: the allowance is checked but not used up.
AllowanceKept(u, from, to, amount) ==
    IF u # from /\ allowance[from][u] # MaxUint
    THEN /\ allowance[from][u] >= amount
         /\ drawn' = [drawn EXCEPT ![from][u] = @ + amount]
         /\ UNCHANGED allowance
    ELSE UNCHANGED <<allowance, drawn>>

\* The allowance part of transferFrom: none is needed for one's own WR5, and an
\* infinite one stays.
SpendAllowance(u, from, to, amount) ==
    IF u # from /\ allowance[from][u] # MaxUint
    THEN /\ allowance[from][u] >= amount
         /\ allowance' = [allowance EXCEPT ![from][u] = @ - amount]
         /\ drawn' = [drawn EXCEPT ![from][u] = @ + amount]
    ELSE UNCHANGED <<allowance, drawn>>

\* transferFrom; transfer is the case in which u is from.
transferFrom(u, from, to, amount) ==
    /\ balanceOf[from] >= amount
    /\ SpendAllowance(u, from, to, amount)
    /\ balanceOf' = [[balanceOf EXCEPT ![from] = @ - amount] EXCEPT ![to] = @ + amount]
    /\ UNCHANGED <<native, wrapped, tokenReward, granted>>

\* The contract is the coinbase of a block: its balance grows without a call.
TokenReward ==
    /\ tokenReward < MaxReward
    /\ wrapped' = wrapped + 1 /\ tokenReward' = tokenReward + 1
    /\ UNCHANGED <<balanceOf, allowance, native, granted, drawn>>

-----------------------------------------------------------------------------
TokenInit ==
    /\ balanceOf = [h \in Holder |-> 0]
    /\ allowance = [h \in Holder |-> [u \in Holder |-> 0]]
    /\ native = [u \in Wallet |-> Funds]
    /\ wrapped = 0 /\ tokenReward = 0
    /\ granted = allowance /\ drawn = allowance

TokenNext ==
    \/ \E u \in Wallet, v \in Amounts : deposit(u, v)
    \/ \E u \in Wallet, v \in Amounts : withdraw(u, v)
    \/ \E u \in Wallet, s \in Wallet, v \in Approvals : approve(u, s, v)
    \/ \E u \in Wallet, from, to \in Holder, v \in Amounts : transferFrom(u, from, to, v)
    \/ TokenReward

TokenSpec == TokenInit /\ [][TokenNext]_tokenVars

-----------------------------------------------------------------------------
(* Properties *)

Circulating == Total(balanceOf)

\* The storage holds unsigned integers: no balance and no allowance is ever
\* taken below zero.
TokenTypeOK ==
    /\ balanceOf \in [Holder -> Nat] /\ allowance \in [Holder -> [Holder -> 0..MaxUint]]
    /\ native \in [Wallet -> Nat] /\ wrapped \in Nat /\ tokenReward \in 0..MaxReward
    /\ granted \in [Holder -> [Holder -> 0..MaxUint]]
    /\ drawn \in [Holder -> [Holder -> Nat]]

\* Every WR5 is backed by native R5 in the contract, whatever transfers, also
\* to oneself and to the contract, came in between: withdrawals can be paid.
Backed == wrapped = tokenReward + Circulating

\* Since its last approval a spender has never moved more than was approved,
\* over any number of calls, unless the approval was the infinite one.
SpendingWithinApproval ==
    \A o \in Holder, s \in Holder :
        granted[o][s] # MaxUint =>
            drawn[o][s] <= granted[o][s] /\ allowance[o][s] = granted[o][s] - drawn[o][s]

\* "Total WR5 in circulation": what totalSupply returns is the sum of all
\* balances.
TotalSupplyIsCirculation == totalSupply = Circulating

=============================================================================
