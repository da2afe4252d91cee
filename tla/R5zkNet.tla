------------------------------- MODULE R5zkNet -------------------------------
(***************************************************************************)
(* The zkNet contract (zknet/R5zkNet.sol): internal accounts that hold     *)
(* native R5 deposited by wallets, move it among themselves and pay it out *)
(* again.                                                                  *)
(*                                                                         *)
(* One action per external function; a call that fails a require, or whose *)
(* payment the recipient does not take, reverts and changes nothing, so it *)
(* is no step.  transfer leaves its recipient too little gas to call back. *)
(*                                                                         *)
(* Abstractions.  keccak256 does not collide: an internal address is the   *)
(* tuple of what is hashed, with timestamp and difficulty standing for the *)
(* block.  The zk text form of an address is left out: it is 1 to 1.       *)
(***************************************************************************)
EXTENDS Wallets

CONSTANTS
    Salt,        \* userSalt
    MaxBlock,    \* bound: blocks
    MaxNonce     \* bound: transfers of one internal account

ASSUME ZkNetAssumption ==
    /\ None \notin Wallet \X Nat \X Salt
    /\ {MaxBlock, MaxNonce} \subseteq Nat

VARIABLES
    accounts,          \* internal address -> InternalAccount
    walletToInternal,  \* wallet -> internal address
    contract,          \* native balance of the contract
    block,             \* the current block
    reward             \* what the contract was credited without a call

vars == <<accounts, walletToInternal, native, contract, block, reward>>

Address == Wallet \X (0..MaxBlock) \X Salt
NoAccount == [balance |-> 0, exists |-> FALSE, nonce |-> 0]

\* require(accounts[walletToInternal[msg.sender]].exists)
HasAccount(w) == walletToInternal[w] # None /\ accounts[walletToInternal[w]].exists

-----------------------------------------------------------------------------
\* Mutant: a wallet may open a second account.
AccountCreateAgain(w, salt) ==
    /\ LET a == <<w, block, salt>> IN
       /\ accounts' = [accounts EXCEPT ![a] = [balance |-> 0, exists |-> TRUE, nonce |-> 0]]
       /\ walletToInternal' = [walletToInternal EXCEPT ![w] = a]
    /\ UNCHANGED <<native, contract, block, reward>>

r5_accountCreate(w, salt) ==
    /\ walletToInternal[w] = None
    /\ LET a == <<w, block, salt>> IN
       /\ accounts' = [accounts EXCEPT ![a] = [balance |-> 0, exists |-> TRUE, nonce |-> 0]]
       /\ walletToInternal' = [walletToInternal EXCEPT ![w] = a]
    /\ UNCHANGED <<native, contract, block, reward>>

r5_balanceDeposit(w, amount) ==
    /\ HasAccount(w) /\ amount > 0 /\ native[w] >= amount
    /\ accounts' = [accounts EXCEPT ![walletToInternal[w]].balance = @ + amount]
    /\ native' = [native EXCEPT ![w] = @ - amount]
    /\ contract' = contract + amount
    /\ UNCHANGED <<walletToInternal, block, reward>>

\* Mutant: both balances are read before either is written.
MoveBalanceCached(from, to, amount) ==
    [accounts EXCEPT ![from].balance = @ - amount, ![from].nonce = @ + 1,
                     ![to].balance = accounts[to].balance + amount]

\* The two balance updates in order, from and to possibly the same, then the
\* nonce of from.
MoveBalance(from, to, amount) ==
    LET paid     == [accounts EXCEPT ![from].balance = @ - amount]
        received == [paid EXCEPT ![to].balance = @ + amount]
    IN [received EXCEPT ![from].nonce = @ + 1]

r5_balanceTransferInternal(w, destination, amount) ==
    /\ HasAccount(w) /\ accounts[destination].exists
    /\ accounts[walletToInternal[w]].balance >= amount
    /\ accounts[walletToInternal[w]].nonce < MaxNonce
    /\ accounts' = MoveBalance(walletToInternal[w], destination, amount)
    /\ UNCHANGED <<walletToInternal, native, contract, block, reward>>

\* recipient.transfer(amount)
Pay(recipient, amount) ==
    /\ recipient \in Payee /\ contract >= amount
    /\ contract' = contract - amount
    /\ native' = [native EXCEPT ![recipient] = @ + amount]

r5_balanceTransferExternal(w, recipient, amount) ==
    /\ HasAccount(w) /\ accounts[walletToInternal[w]].balance >= amount
    /\ accounts[walletToInternal[w]].nonce < MaxNonce
    /\ accounts' = [accounts EXCEPT ![walletToInternal[w]].balance = @ - amount,
                                    ![walletToInternal[w]].nonce = @ + 1]
    /\ Pay(recipient, amount)
    /\ UNCHANGED <<walletToInternal, block, reward>>

r5_accountDestroy(w, recipient) ==
    /\ HasAccount(w)
    /\ walletToInternal' = [walletToInternal EXCEPT ![w] = None]
    /\ accounts' = [accounts EXCEPT ![walletToInternal[w]] = NoAccount]
    /\ IF accounts[walletToInternal[w]].balance > 0
       THEN Pay(recipient, accounts[walletToInternal[w]].balance)
       ELSE UNCHANGED <<native, contract>>
    /\ UNCHANGED <<block, reward>>

NextBlock ==
    /\ block < MaxBlock
    /\ block' = block + 1
    /\ UNCHANGED <<accounts, walletToInternal, native, contract, reward>>

\* The contract is the coinbase of a block: its balance grows without a call.
Reward ==
    /\ reward < MaxReward
    /\ contract' = contract + 1 /\ reward' = reward + 1
    /\ UNCHANGED <<accounts, walletToInternal, native, block>>

-----------------------------------------------------------------------------
Init ==
    /\ accounts = [a \in Address |-> NoAccount]
    /\ walletToInternal = [w \in Wallet |-> None]
    /\ native = [w \in Wallet |-> Funds]
    /\ contract = 0 /\ block = 0 /\ reward = 0

Call ==
    \/ \E w \in Wallet, salt \in Salt : r5_accountCreate(w, salt)
    \/ \E w \in Wallet, amount \in Amounts : r5_balanceDeposit(w, amount)
    \/ \E w \in Wallet, d \in Address, amount \in Amounts :
          r5_balanceTransferInternal(w, d, amount)
    \/ \E w, r \in Wallet, amount \in Amounts : r5_balanceTransferExternal(w, r, amount)
    \/ \E w, r \in Wallet : r5_accountDestroy(w, r)

Next == Call \/ NextBlock \/ Reward

Spec == Init /\ [][Next]_vars

-----------------------------------------------------------------------------
(* Properties *)

\* The variables hold what the contract's storage is declared to hold; in
\* particular no balance is ever negative.
TypeOK ==
    /\ accounts \in [Address -> [balance : Nat, exists : BOOLEAN, nonce : 0..MaxNonce]]
    /\ walletToInternal \in [Wallet -> Address \cup {None}]
    /\ native \in [Wallet -> Nat] /\ contract \in Nat
    /\ block \in 0..MaxBlock /\ reward \in 0..MaxReward

\* The internal accounts that exist and the wallets that have one correspond
\* one to one, and only they hold money: no sequence of creating, destroying and
\* creating again leaves an account or a balance nobody can use, or one that two
\* wallets share.
OneAccountPerWallet ==
    /\ \A w \in Wallet : walletToInternal[w] # None => accounts[walletToInternal[w]].exists
    /\ \A a \in Address : accounts[a].exists => walletToInternal[a[1]] = a
    /\ \A v, w \in Wallet :
          v # w /\ walletToInternal[v] # None => walletToInternal[v] # walletToInternal[w]
    /\ \A a \in Address : accounts[a].balance > 0 => accounts[a].exists

\* The contract always holds exactly what it owes to the internal accounts and
\* what it was credited without a call, so every payment it may be asked for
\* can be made.
Solvent == contract = reward + Total([a \in Address |-> accounts[a].balance])

=============================================================================
