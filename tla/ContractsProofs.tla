--------------------------- MODULE ContractsProofs ---------------------------
(***************************************************************************)
(* The zkNet contract and the subnet registry on one chain, for any        *)
(* wallets, salts, subnets, amounts and blocks: each contract holds what   *)
(* it owes, wallets and internal accounts correspond one to one, and the   *)
(* registry's lists, owners and counter agree.  The WR5 token likewise:    *)
(* every WR5 is backed and no spender exceeds what was approved.           *)
(***************************************************************************)
EXTENDS Contracts, WrappedR5, FiniteSetTheorems, TLAPS

-----------------------------------------------------------------------------
(* Totals *)

\* What a unit is: a holder and a number up to its balance.
LEMMA UnitOf ==
    ASSUME NEW Holders, NEW b \in [Holders -> Nat]
    PROVE  /\ \A h \in Holders, k \in Nat : <<h, k>> \in Units(b) <=> k \in 1..b[h]
           /\ \A x \in Units(b) : \E h \in Holders, k \in Nat : x = <<h, k>> /\ k \in 1..b[h]
BY DEF Units

\* Nobody holds anything: the total is zero.
LEMMA NoUnits ==
    ASSUME NEW Holders, NEW b \in [Holders -> Nat], \A h \in Holders : b[h] = 0
    PROVE  IsFiniteSet(Units(b)) /\ Total(b) = 0
<1>1. Units(b) = {}
  BY DEF Units
<1> QED BY <1>1, FS_EmptySet DEF Total

\* A holder is credited n: the total grows by n.
LEMMA Credit ==
    ASSUME NEW Holders, NEW b \in [Holders -> Nat], NEW c \in [Holders -> Nat],
           NEW h \in Holders, NEW n \in Nat, c[h] = b[h] + n,
           \A g \in Holders \ {h} : c[g] = b[g],
           IsFiniteSet(Units(b))
    PROVE  IsFiniteSet(Units(c)) /\ Total(c) = Total(b) + n
<1> DEFINE new == {h} \X ((b[h] + 1)..(b[h] + n))
<1>1. Units(c) = Units(b) \cup new
  <2>1. ASSUME NEW x \in Units(c) PROVE x \in Units(b) \cup new
    <3>1. PICK g \in Holders, k \in Nat : x = <<g, k>> /\ k \in 1..c[g]
      BY UnitOf
    <3>2. CASE g = h
      BY <3>1, <3>2, UnitOf
    <3>3. CASE g # h
      BY <3>1, <3>3, UnitOf
    <3> QED BY <3>2, <3>3
  <2>2. ASSUME NEW x \in Units(b) PROVE x \in Units(c)
    <3>1. PICK g \in Holders, k \in Nat : x = <<g, k>> /\ k \in 1..b[g]
      BY UnitOf
    <3>2. k \in 1..c[g]
      BY <3>1
    <3> QED BY <3>1, <3>2, UnitOf
  <2>3. ASSUME NEW x \in new PROVE x \in Units(c)
    <3>1. PICK k \in (b[h] + 1)..(b[h] + n) : x = <<h, k>>
      OBVIOUS
    <3>2. k \in Nat /\ k \in 1..c[h]
      BY <3>1
    <3> QED BY <3>1, <3>2, UnitOf
  <2> QED BY <2>1, <2>2, <2>3
<1>2. Units(b) \cap new = {}
  <2> SUFFICES ASSUME NEW x \in Units(b), x \in new PROVE FALSE
    OBVIOUS
  <2>1. PICK k \in (b[h] + 1)..(b[h] + n) : x = <<h, k>>
    OBVIOUS
  <2>2. k \in 1..b[h]
    BY <2>1, UnitOf
  <2> QED BY <2>2
<1>3. IsFiniteSet(new) /\ Cardinality(new) = n
  <2> DEFINE interval == (b[h] + 1)..(b[h] + n)
  <2>1. IsFiniteSet(interval) /\ Cardinality(interval) = n
    <3>1. b[h] + 1 \in Int /\ b[h] + n \in Int
      OBVIOUS
    <3>2. IsFiniteSet(interval) /\ Cardinality(interval) =
            IF b[h] + 1 > b[h] + n THEN 0 ELSE (b[h] + n) - (b[h] + 1) + 1
      BY <3>1, FS_Interval
    <3> QED BY <3>1, <3>2
  <2>2. IsFiniteSet({h}) /\ Cardinality({h}) = 1
    BY FS_Singleton
  <2> HIDE DEF interval
  <2>3. IsFiniteSet({h} \X interval) /\ Cardinality({h} \X interval) = 1 * n
    BY <2>1, <2>2, FS_Product
  <2> QED BY <2>3 DEF interval
<1> HIDE DEF new
<1>4. /\ IsFiniteSet(Units(b) \cup new)
      /\ Cardinality(Units(b) \cup new) =
            Cardinality(Units(b)) + Cardinality(new) - Cardinality(Units(b) \cap new)
  BY <1>3, FS_Union
<1>5. Cardinality({}) = 0 /\ Cardinality(Units(b)) \in Nat
  BY FS_EmptySet, FS_CardinalityType
<1>6. Cardinality(Units(c)) = Cardinality(Units(b)) + n - 0
  BY <1>1, <1>2, <1>3, <1>4, <1>5
<1>7. Cardinality(Units(c)) = Cardinality(Units(b)) + n
  BY <1>5, <1>6
<1> QED BY <1>1, <1>4, <1>7 DEF Total

\* A holder is debited n that it has: the total shrinks by n.
LEMMA Debit ==
    ASSUME NEW Holders, NEW b \in [Holders -> Nat], NEW c \in [Holders -> Nat],
           NEW h \in Holders, NEW n \in Nat, n <= b[h], c[h] = b[h] - n,
           \A g \in Holders \ {h} : c[g] = b[g],
           IsFiniteSet(Units(b))
    PROVE  IsFiniteSet(Units(c)) /\ Total(c) = Total(b) - n
<1>1. Units(c) \subseteq Units(b)
  <2> SUFFICES ASSUME NEW x \in Units(c) PROVE x \in Units(b)
    OBVIOUS
  <2>1. PICK g \in Holders, k \in Nat : x = <<g, k>> /\ k \in 1..c[g]
    BY UnitOf
  <2>2. k \in 1..b[g]
    BY <2>1
  <2> QED BY <2>1, <2>2, UnitOf
<1>2. IsFiniteSet(Units(c))
  BY <1>1, FS_Subset
<1>3. b[h] = c[h] + n /\ \A g \in Holders \ {h} : b[g] = c[g]
  OBVIOUS
<1>4. Total(b) = Total(c) + n
  BY <1>2, <1>3, Credit
<1>5. Total(c) \in Nat
  BY <1>2, FS_CardinalityType DEF Total
<1> QED BY <1>2, <1>4, <1>5

-----------------------------------------------------------------------------
(* The zkNet contract *)

\* An internal account names the wallet that created it, and a closed one is
\* empty: what makes OneAccountPerWallet inductive.
Accountable ==
    /\ \A w \in Wallet : walletToInternal[w] # None =>
          walletToInternal[w][1] = w /\ accounts[walletToInternal[w]].exists
    /\ \A a \in Address : accounts[a].exists => walletToInternal[a[1]] = a
    /\ \A a \in Address : ~accounts[a].exists => accounts[a].balance = 0

\* What each internal account holds, and that the contract covers it.
Held == [a \in Address |-> accounts[a].balance]
Funded == IsFiniteSet(Units(Held)) /\ contract = reward + Total(Held)

ZkNetInv == TypeOK /\ Accountable /\ Funded

\* An account credited with what the contract received keeps the contract funded.
LEMMA FundedCredit ==
    ASSUME TypeOK, TypeOK', Funded, NEW a \in Address, NEW n \in Nat,
           accounts'[a].balance = accounts[a].balance + n,
           \A x \in Address \ {a} : accounts'[x].balance = accounts[x].balance,
           contract' = contract + n, reward' = reward
    PROVE  Funded'
<1>1. Held \in [Address -> Nat] /\ Held' \in [Address -> Nat]
  BY DEF TypeOK, Held
<1>2. Held'[a] = Held[a] + n /\ \A x \in Address \ {a} : Held'[x] = Held[x]
  BY DEF Held
<1>3. IsFiniteSet(Units(Held')) /\ Total(Held') = Total(Held) + n
  BY <1>1, <1>2, Credit DEF Funded
<1>4. Total(Held) \in Nat
  BY FS_CardinalityType DEF Funded, Total
<1> QED BY <1>3, <1>4 DEF Funded, TypeOK

\* An account debited with what the contract paid keeps the contract funded.
LEMMA FundedDebit ==
    ASSUME TypeOK, TypeOK', Funded, NEW a \in Address, NEW n \in Nat, n <= accounts[a].balance,
           accounts'[a].balance = accounts[a].balance - n,
           \A x \in Address \ {a} : accounts'[x].balance = accounts[x].balance,
           contract' = contract - n, reward' = reward
    PROVE  Funded'
<1>1. Held \in [Address -> Nat] /\ Held' \in [Address -> Nat]
  BY DEF TypeOK, Held
<1>2. /\ Held'[a] = Held[a] - n /\ n <= Held[a]
      /\ \A x \in Address \ {a} : Held'[x] = Held[x]
  BY DEF Held
<1>3. IsFiniteSet(Units(Held')) /\ Total(Held') = Total(Held) - n
  BY <1>1, <1>2, Debit DEF Funded
<1>4. Total(Held) \in Nat
  BY FS_CardinalityType DEF Funded, Total
<1> QED BY <1>3, <1>4 DEF Funded, TypeOK

\* A transfer between internal accounts keeps them accounts, creates and
\* destroys none, and leaves those of others alone.
LEMMA MoveParts ==
    ASSUME TypeOK, NEW from \in Address, NEW to \in Address, NEW n \in Nat,
           n <= accounts[from].balance, accounts[from].nonce < MaxNonce
    PROVE  /\ MoveBalance(from, to, n) \in [Address -> [balance : Nat, exists : BOOLEAN, nonce : 0..MaxNonce]]
           /\ \A x \in Address :
                 /\ MoveBalance(from, to, n)[x].exists = accounts[x].exists
                 /\ x \notin {from, to} => MoveBalance(from, to, n)[x] = accounts[x]
<1> DEFINE Account  == [balance : Nat, exists : BOOLEAN, nonce : 0..MaxNonce]
           paid     == [accounts EXCEPT ![from].balance = @ - n]
           received == [paid EXCEPT ![to].balance = @ + n]
           moved    == [received EXCEPT ![from].nonce = @ + 1]
<1>1. accounts \in [Address -> Account] /\ accounts[from].balance - n \in Nat
  BY DEF TypeOK
<1>2. /\ paid \in [Address -> Account]
      /\ \A x \in Address : /\ paid[x].exists = accounts[x].exists /\ paid[x].nonce = accounts[x].nonce
                            /\ x # from => paid[x] = accounts[x]
  BY <1>1
<1> HIDE DEF paid
<1>3. /\ received \in [Address -> Account]
      /\ \A x \in Address : /\ received[x].exists = paid[x].exists /\ received[x].nonce = paid[x].nonce
                            /\ x # to => received[x] = paid[x]
  BY <1>2
<1> HIDE DEF received
<1>4. received[from].nonce + 1 \in 0..MaxNonce
  <2>1. accounts[from].nonce \in 0..MaxNonce /\ MaxNonce \in Nat
    BY <1>1, ZkNetAssumption
  <2>2. received[from].nonce = accounts[from].nonce
    BY <1>2, <1>3
  <2> QED BY <2>1, <2>2
<1>5. /\ moved \in [Address -> Account]
      /\ \A x \in Address : /\ moved[x].exists = received[x].exists
                            /\ x # from => moved[x] = received[x]
  BY <1>3, <1>4
<1>6. moved = MoveBalance(from, to, n)
  BY DEF moved, received, paid, MoveBalance
<1> HIDE DEF moved
<1> QED BY <1>2, <1>3, <1>5, <1>6

\* A move between two accounts, or from one to itself, leaves the total alone.
LEMMA FundedMove ==
    ASSUME TypeOK, TypeOK', Funded, NEW from \in Address, NEW to \in Address, NEW n \in Nat,
           n <= accounts[from].balance, accounts' = MoveBalance(from, to, n),
           contract' = contract, reward' = reward
    PROVE  Funded'
<1> DEFINE mid == [Held EXCEPT ![from] = Held[from] - n]
<1>1. Held \in [Address -> Nat] /\ Held' \in [Address -> Nat]
  BY DEF TypeOK, Held
<1>2. n <= Held[from]
  BY DEF Held
<1>3. /\ mid \in [Address -> Nat] /\ mid[from] = Held[from] - n
      /\ \A x \in Address \ {from} : mid[x] = Held[x]
  BY <1>1, <1>2
<1>4. /\ Held'[to] = mid[to] + n
      /\ \A x \in Address \ {to} : Held'[x] = mid[x]
  <2> DEFINE paid     == [accounts EXCEPT ![from].balance = @ - n]
             received == [paid EXCEPT ![to].balance = @ + n]
             Account  == [balance : Nat, exists : BOOLEAN, nonce : 0..MaxNonce]
  <2>1. accounts \in [Address -> Account] /\ accounts[from].balance - n \in Nat
    BY DEF TypeOK
  <2>2. paid \in [Address -> Account] /\ \A x \in Address : paid[x].balance = mid[x]
    <3>1. \A x \in Address : Held[x] = accounts[x].balance
      BY DEF Held
    <3> HIDE DEF mid
    <3> QED BY <1>3, <2>1, <3>1
  <2>3. received \in [Address -> Account] /\ received[to].balance = mid[to] + n
        /\ \A x \in Address \ {to} : received[x].balance = mid[x]
    <3> HIDE DEF paid, mid
    <3> QED BY <2>2
  <2>4. accounts' = [received EXCEPT ![from].nonce = @ + 1]
    BY DEF MoveBalance
  <2> HIDE DEF received, mid
  <2>5. \A x \in Address : accounts'[x].balance = received[x].balance
    BY <2>3, <2>4
  <2>6. \A x \in Address : Held'[x] = accounts'[x].balance
    BY DEF Held
  <2> QED BY <2>3, <2>5, <2>6
<1> HIDE DEF mid
<1>5. IsFiniteSet(Units(mid)) /\ Total(mid) = Total(Held) - n
  BY <1>1, <1>2, <1>3, Debit DEF Funded
<1>6. IsFiniteSet(Units(Held')) /\ Total(Held') = Total(mid) + n
  BY <1>1, <1>3, <1>4, <1>5, Credit
<1>7. Total(Held) \in Nat
  BY FS_CardinalityType DEF Funded, Total
<1> QED BY <1>5, <1>6, <1>7 DEF Funded

\* A step that changes no balance leaves the contract funded.
LEMMA FundedSame ==
    ASSUME Funded, TypeOK, \A x \in Address : accounts'[x].balance = accounts[x].balance,
           NEW n \in Nat, contract' = contract + n, reward' = reward + n
    PROVE  Funded'
<1>1. Held' = Held
  BY DEF Held
<1>2. Total(Held) \in Nat
  BY FS_CardinalityType DEF Funded, Total
<1>3. Total(Held') = Total(Held) /\ IsFiniteSet(Units(Held'))
  BY <1>1 DEF Funded
<1> QED BY <1>2, <1>3 DEF Funded, TypeOK

\* The address of a new account is one of those the contract can hand out.
LEMMA NewAddress ==
    ASSUME TypeOK, NEW w \in Wallet, NEW salt \in Salt
    PROVE  <<w, block, salt>> \in Address /\ <<w, block, salt>>[1] = w
BY DEF TypeOK, Address

\* No address is the zero word that stands for no account.
LEMMA NoneIsNoAddress == None \notin Address
BY ZkNetAssumption DEF Address

\* An address names a wallet.
LEMMA AddressOwner == \A a \in Address : a[1] \in Wallet
BY DEF Address

\* Storage starts empty.
LEMMA ZkNetInit == Init => ZkNetInv
<1> SUFFICES ASSUME Init PROVE ZkNetInv
  OBVIOUS
<1>1. NoAccount \in [balance : Nat, exists : BOOLEAN, nonce : 0..MaxNonce]
  BY ZkNetAssumption, WalletAssumption DEF NoAccount
<1>2. TypeOK
  BY <1>1, ZkNetAssumption, WalletAssumption DEF Init, TypeOK
<1>3. Accountable
  BY DEF Init, Accountable, NoAccount
<1>4. Held \in [Address -> Nat] /\ \A a \in Address : Held[a] = 0
  BY DEF Init, Held, NoAccount
<1>5. Funded
  BY <1>4, NoUnits DEF Init, Funded
<1> QED BY <1>2, <1>3, <1>5 DEF ZkNetInv

\* The function that a caller with an account calls finds it at an address of
\* its own.
LEMMA CallerAccount ==
    ASSUME ZkNetInv, NEW w \in Wallet, HasAccount(w)
    PROVE  walletToInternal[w] \in Address /\ accounts[walletToInternal[w]].exists
BY DEF ZkNetInv, TypeOK, HasAccount

\* Every call of the contract, and every block, keeps the invariant.
LEMMA ZkNetNext == ZkNetInv /\ [Next]_vars => ZkNetInv'
<1> SUFFICES ASSUME ZkNetInv, [Next]_vars PROVE ZkNetInv'
  OBVIOUS
<1> USE NoneIsNoAddress, AddressOwner
<1>ty. TypeOK /\ Accountable /\ Funded
  BY DEF ZkNetInv
<1>1. ASSUME NEW w \in Wallet, NEW salt \in Salt, r5_accountCreate(w, salt) PROVE ZkNetInv'
  <2> DEFINE a == <<w, block, salt>>
  <2>1. a \in Address /\ a[1] = w
    BY <1>ty, NewAddress
  <2> HIDE DEF a
  <2>2. /\ walletToInternal[w] = None
        /\ accounts' = [accounts EXCEPT ![a] = [balance |-> 0, exists |-> TRUE, nonce |-> 0]]
        /\ walletToInternal' = [walletToInternal EXCEPT ![w] = a]
        /\ UNCHANGED <<native, contract, block, reward>>
    BY <1>1 DEF r5_accountCreate, a
  <2>3. TypeOK'
    BY <1>ty, <2>1, <2>2, ZkNetAssumption, WalletAssumption DEF TypeOK
  <2>4. Accountable'
    BY <1>ty, <2>1, <2>2 DEF TypeOK, Accountable
  <2>5. accounts[a].balance = 0
    BY <1>ty, <2>1, <2>2 DEF Accountable
  <2>6. \A x \in Address : accounts'[x].balance = accounts[x].balance
    BY <1>ty, <2>1, <2>2, <2>5 DEF TypeOK
  <2>7. contract' = contract + 0 /\ reward' = reward + 0
    BY <1>ty, <2>2 DEF TypeOK
  <2>8. Funded'
    BY <1>ty, <2>6, <2>7, FundedSame
  <2> QED BY <2>3, <2>4, <2>8 DEF ZkNetInv
<1>2. ASSUME NEW w \in Wallet, NEW amount \in Amounts, r5_balanceDeposit(w, amount) PROVE ZkNetInv'
  <2>1. walletToInternal[w] \in Address /\ accounts[walletToInternal[w]].exists
    BY <1>2, CallerAccount DEF r5_balanceDeposit
  <2>2. TypeOK'
    BY <1>ty, <1>2, <2>1 DEF TypeOK, r5_balanceDeposit, Amounts
  <2>3. Accountable'
    BY <1>ty, <1>2, <2>1 DEF TypeOK, Accountable, r5_balanceDeposit
  <2>4. /\ amount \in Nat /\ contract' = contract + amount /\ reward' = reward
        /\ accounts'[walletToInternal[w]].balance = accounts[walletToInternal[w]].balance + amount
        /\ \A x \in Address \ {walletToInternal[w]} : accounts'[x].balance = accounts[x].balance
    BY <1>ty, <1>2, <2>1 DEF TypeOK, r5_balanceDeposit, Amounts
  <2>5. Funded'
    BY <1>ty, <2>1, <2>2, <2>4, FundedCredit
  <2> QED BY <2>2, <2>3, <2>5 DEF ZkNetInv
<1>3. ASSUME NEW w \in Wallet, NEW d \in Address, NEW amount \in Amounts,
             r5_balanceTransferInternal(w, d, amount)
      PROVE  ZkNetInv'
  <2>1. walletToInternal[w] \in Address /\ accounts[walletToInternal[w]].exists
    BY <1>3, CallerAccount DEF r5_balanceTransferInternal
  <2>mv. /\ MoveBalance(walletToInternal[w], d, amount)
               \in [Address -> [balance : Nat, exists : BOOLEAN, nonce : 0..MaxNonce]]
         /\ \A x \in Address :
               /\ MoveBalance(walletToInternal[w], d, amount)[x].exists = accounts[x].exists
               /\ x \notin {walletToInternal[w], d} =>
                    MoveBalance(walletToInternal[w], d, amount)[x] = accounts[x]
    <3>1. /\ amount \in Nat /\ amount <= accounts[walletToInternal[w]].balance
          /\ accounts[walletToInternal[w]].nonce < MaxNonce
      BY <1>3, <1>ty, <2>1 DEF r5_balanceTransferInternal, Amounts, TypeOK
    <3> QED BY <1>ty, <2>1, <3>1, MoveParts
  <2>2. TypeOK'
    <3>1. /\ accounts' = MoveBalance(walletToInternal[w], d, amount)
          /\ UNCHANGED <<walletToInternal, native, contract, block, reward>>
      BY <1>3 DEF r5_balanceTransferInternal
    <3> QED BY <1>ty, <2>mv, <3>1 DEF TypeOK
  <2>3. Accountable'
    <3> DEFINE a == walletToInternal[w]
    <3>1. /\ accounts[d].exists /\ accounts' = MoveBalance(a, d, amount)
          /\ walletToInternal' = walletToInternal
      BY <1>3 DEF r5_balanceTransferInternal
    <3>2. a \in Address /\ accounts[a].exists
      BY <2>1
    <3>3. \A x \in Address : /\ accounts'[x].exists = accounts[x].exists
                             /\ x \notin {a, d} => accounts'[x] = accounts[x]
      BY <2>mv, <3>1 DEF a
    <3> HIDE DEF a
    <3>4. ASSUME NEW x \in Wallet, walletToInternal[x] # None
          PROVE  walletToInternal[x][1] = x /\ accounts'[walletToInternal[x]].exists
      <4>1. walletToInternal[x] \in Address
        BY <1>ty, <3>4 DEF TypeOK
      <4>2. walletToInternal[x][1] = x /\ accounts[walletToInternal[x]].exists
        BY <1>ty, <3>4 DEF Accountable
      <4> QED BY <3>3, <4>1, <4>2
    <3>5. ASSUME NEW x \in Address, accounts'[x].exists PROVE walletToInternal[x[1]] = x
      BY <1>ty, <3>3, <3>5 DEF Accountable
    <3>6. ASSUME NEW x \in Address, ~accounts'[x].exists PROVE accounts'[x].balance = 0
      <4>1. ~accounts[x].exists
        BY <3>3, <3>6
      <4>2. x \notin {a, d}
        BY <3>1, <3>2, <4>1
      <4>3. accounts[x].balance = 0
        BY <1>ty, <4>1 DEF Accountable
      <4> QED BY <3>3, <4>2, <4>3
    <3> QED BY <3>1, <3>4, <3>5, <3>6 DEF Accountable
  <2>4. Funded'
    BY <1>ty, <1>3, <2>1, <2>2, FundedMove DEF r5_balanceTransferInternal, Amounts
  <2> QED BY <2>2, <2>3, <2>4 DEF ZkNetInv
<1>4. ASSUME NEW w \in Wallet, NEW r \in Wallet, NEW amount \in Amounts,
             r5_balanceTransferExternal(w, r, amount)
      PROVE  ZkNetInv'
  <2>1. walletToInternal[w] \in Address /\ accounts[walletToInternal[w]].exists
    BY <1>4, CallerAccount DEF r5_balanceTransferExternal
  <2>2. TypeOK'
    BY <1>ty, <1>4, <2>1, ZkNetAssumption, WalletAssumption DEF TypeOK, r5_balanceTransferExternal, Pay, Amounts
  <2>3. Accountable'
    BY <1>ty, <1>4, <2>1 DEF TypeOK, Accountable, r5_balanceTransferExternal
  <2>4. /\ amount \in Nat /\ amount <= accounts[walletToInternal[w]].balance
        /\ contract' = contract - amount /\ reward' = reward
        /\ accounts'[walletToInternal[w]].balance = accounts[walletToInternal[w]].balance - amount
        /\ \A x \in Address \ {walletToInternal[w]} : accounts'[x].balance = accounts[x].balance
    BY <1>ty, <1>4, <2>1 DEF TypeOK, r5_balanceTransferExternal, Pay, Amounts
  <2>5. Funded'
    BY <1>ty, <2>1, <2>2, <2>4, FundedDebit
  <2> QED BY <2>2, <2>3, <2>5 DEF ZkNetInv
<1>5. ASSUME NEW w \in Wallet, NEW r \in Wallet, r5_accountDestroy(w, r) PROVE ZkNetInv'
  <2>1. walletToInternal[w] \in Address /\ accounts[walletToInternal[w]].exists
    BY <1>5, CallerAccount DEF r5_accountDestroy
  <2>2. NoAccount \in [balance : Nat, exists : BOOLEAN, nonce : 0..MaxNonce]
    BY ZkNetAssumption, WalletAssumption DEF NoAccount
  <2>3. native' \in [Wallet -> Nat] /\ contract' \in Nat
    BY <1>ty, <1>5, <2>1 DEF TypeOK, r5_accountDestroy, Pay
  <2>4. TypeOK'
    BY <1>ty, <1>5, <2>1, <2>2, <2>3 DEF TypeOK, r5_accountDestroy
  <2>5. Accountable'
    BY <1>ty, <1>5, <2>1 DEF TypeOK, Accountable, r5_accountDestroy, NoAccount
  <2> DEFINE owed == accounts[walletToInternal[w]].balance
  <2>6. /\ owed \in Nat /\ contract' = contract - owed /\ reward' = reward
        /\ accounts'[walletToInternal[w]].balance = owed - owed
        /\ \A x \in Address \ {walletToInternal[w]} : accounts'[x].balance = accounts[x].balance
    BY <1>ty, <1>5, <2>1 DEF TypeOK, r5_accountDestroy, Pay, NoAccount
  <2>7. Funded'
    BY <1>ty, <2>1, <2>4, <2>6, FundedDebit
  <2> QED BY <2>4, <2>5, <2>7 DEF ZkNetInv
<1>6. CASE NextBlock
  <2>1. TypeOK' /\ Accountable'
    BY <1>ty, <1>6, ZkNetAssumption, WalletAssumption DEF TypeOK, Accountable, NextBlock
  <2>2. contract' = contract + 0 /\ reward' = reward + 0 /\ accounts' = accounts
    BY <1>ty, <1>6 DEF TypeOK, NextBlock
  <2> QED BY <1>ty, <2>1, <2>2, FundedSame DEF ZkNetInv
<1>7. CASE Reward
  <2>1. TypeOK' /\ Accountable'
    BY <1>ty, <1>7, ZkNetAssumption, WalletAssumption DEF TypeOK, Accountable, Reward
  <2>2. contract' = contract + 1 /\ reward' = reward + 1 /\ accounts' = accounts
    BY <1>7 DEF Reward
  <2> QED BY <1>ty, <2>1, <2>2, FundedSame DEF ZkNetInv
<1>8. CASE UNCHANGED vars
  BY <1>ty, <1>8 DEF ZkNetInv, TypeOK, Accountable, Funded, Held, vars
<1> QED BY <1>1, <1>2, <1>3, <1>4, <1>5, <1>6, <1>7, <1>8 DEF Next, Call

\* The invariant gives the property of the run.
LEMMA ZkNetInvGives == ZkNetInv => OneAccountPerWallet /\ Solvent
<1> SUFFICES ASSUME ZkNetInv PROVE OneAccountPerWallet /\ Solvent
  OBVIOUS
<1>1. TypeOK /\ Accountable
  BY DEF ZkNetInv
<1>2. \A a \in Address : accounts[a].balance > 0 => accounts[a].exists
  BY <1>1 DEF Accountable
<1>3. OneAccountPerWallet
  BY <1>1, <1>2 DEF Accountable, OneAccountPerWallet, TypeOK
<1>4. Solvent
  BY DEF ZkNetInv, Funded, Solvent, Held
<1> QED BY <1>3, <1>4

-----------------------------------------------------------------------------
(* The subnet registry *)

\* What is staked on each subnet, nothing on one that nobody owns, and that the
\* contract holds it.
Stakes == [id \in SubnetId |-> subnets[id].stake]
StakesFunded ==
    /\ \A id \in SubnetId : subnets[id].owner = None => subnets[id].stake = 0
    /\ IsFiniteSet(Units(Stakes)) /\ staked = Total(Stakes)

RegistryInv == RegistryTypeOK /\ OwnershipIndexed /\ StakesFunded

Registered == {id \in SubnetId : subnets[id].owner # None}

\* An empty registry.
LEMMA RegistryInitInv == RegistryInit => RegistryInv
<1> SUFFICES ASSUME RegistryInit PROVE RegistryInv
  OBVIOUS
<1>1. RegistryTypeOK
  BY RegistryAssumption, WalletAssumption DEF RegistryInit, RegistryTypeOK, NoSubnet
<1>2. \A u \in Wallet : {id \in SubnetId : subnets[id].owner = u} = {}
  BY RegistryAssumption, WalletAssumption DEF RegistryInit, NoSubnet
<1>3. \A u \in Wallet : DOMAIN ownedSubnets[u] = {}
  BY DEF RegistryInit
<1>4. {id \in SubnetId : subnets[id].owner # None} = {}
  BY DEF RegistryInit, NoSubnet
<1>5. Cardinality({}) = 0
  BY FS_EmptySet
<1>6. OwnershipIndexed
  BY <1>2, <1>3, <1>4, <1>5 DEF RegistryInit, OwnershipIndexed
<1>7. Stakes \in [SubnetId -> Nat] /\ \A id \in SubnetId : Stakes[id] = 0
  BY DEF RegistryInit, Stakes, NoSubnet
<1>8. StakesFunded
  BY <1>7, NoUnits DEF RegistryInit, StakesFunded, NoSubnet
<1> QED BY <1>1, <1>6, <1>8 DEF RegistryInv

\* A stake that grows by what the contract received stays covered.
LEMMA StakeIn ==
    ASSUME RegistryTypeOK, RegistryTypeOK', StakesFunded, NEW id \in SubnetId, NEW n \in Nat,
           subnets'[id].owner # None, subnets'[id].stake = subnets[id].stake + n,
           \A x \in SubnetId \ {id} : subnets'[x] = subnets[x], staked' = staked + n
    PROVE  StakesFunded'
<1>1. Stakes \in [SubnetId -> Nat] /\ Stakes' \in [SubnetId -> Nat]
  BY DEF RegistryTypeOK, Stakes
<1>2. Stakes'[id] = Stakes[id] + n /\ \A x \in SubnetId \ {id} : Stakes'[x] = Stakes[x]
  BY DEF Stakes
<1>3. IsFiniteSet(Units(Stakes')) /\ Total(Stakes') = Total(Stakes) + n
  BY <1>1, <1>2, Credit DEF StakesFunded
<1>4. \A x \in SubnetId : subnets'[x].owner = None => subnets'[x].stake = 0
  BY DEF StakesFunded
<1> QED BY <1>3, <1>4 DEF StakesFunded

\* A stake that shrinks by what the contract paid stays covered.
LEMMA StakeOut ==
    ASSUME RegistryTypeOK, RegistryTypeOK', StakesFunded, NEW id \in SubnetId, NEW n \in Nat,
           subnets'[id].owner # None, n <= subnets[id].stake,
           subnets'[id].stake = subnets[id].stake - n,
           \A x \in SubnetId \ {id} : subnets'[x] = subnets[x], staked' = staked - n
    PROVE  StakesFunded'
<1>1. Stakes \in [SubnetId -> Nat] /\ Stakes' \in [SubnetId -> Nat]
  BY DEF RegistryTypeOK, Stakes
<1>2. /\ Stakes'[id] = Stakes[id] - n /\ n <= Stakes[id]
      /\ \A x \in SubnetId \ {id} : Stakes'[x] = Stakes[x]
  BY DEF Stakes
<1>3. IsFiniteSet(Units(Stakes')) /\ Total(Stakes') = Total(Stakes) - n
  BY <1>1, <1>2, Debit DEF StakesFunded
<1>4. \A x \in SubnetId : subnets'[x].owner = None => subnets'[x].stake = 0
  BY DEF StakesFunded
<1> QED BY <1>3, <1>4 DEF StakesFunded

\* A step that changes no owner and no stake leaves them covered.
LEMMA StakeSame ==
    ASSUME StakesFunded, staked' = staked,
           \A x \in SubnetId : /\ subnets'[x].stake = subnets[x].stake
                               /\ subnets'[x].owner = subnets[x].owner
    PROVE  StakesFunded'
<1>1. Stakes' = Stakes
  BY DEF Stakes
<1> QED BY <1>1 DEF StakesFunded

\* The calls that touch neither owners nor lists keep them in agreement.
LEMMA SameOwners ==
    ASSUME OwnershipIndexed, ownedSubnets' = ownedSubnets, totalSubnets' = totalSubnets,
           \A id \in SubnetId : subnets'[id].owner = subnets[id].owner
    PROVE  OwnershipIndexed'
<1>1. \A u \in Wallet : {id \in SubnetId : subnets'[id].owner = u} = {id \in SubnetId : subnets[id].owner = u}
  OBVIOUS
<1>2. {id \in SubnetId : subnets'[id].owner # None} = {id \in SubnetId : subnets[id].owner # None}
  OBVIOUS
<1>3. totalSubnets' = Cardinality({id \in SubnetId : subnets'[id].owner # None})
  BY <1>2 DEF OwnershipIndexed
<1>4. ASSUME NEW u \in Wallet
      PROVE  /\ {ownedSubnets'[u][k] : k \in DOMAIN ownedSubnets'[u]} =
                   {id \in SubnetId : subnets'[id].owner = u}
             /\ \A j, k \in DOMAIN ownedSubnets'[u] :
                   ownedSubnets'[u][j] = ownedSubnets'[u][k] => j = k
  BY <1>1 DEF OwnershipIndexed
<1> QED BY <1>3, <1>4 DEF OwnershipIndexed

\* A registration adds the subnet to its owner's list, to no other, and once.
LEMMA RegisterKeepsIndex ==
    ASSUME RegistryInv, NEW u \in Wallet, NEW id \in SubnetId, NEW e \in Endpoint, NEW v \in Amounts,
           registerSubnet(u, id, e, v)
    PROVE  OwnershipIndexed'
<1> DEFINE list == ownedSubnets[u]
<1>1. /\ subnets[id].owner = None /\ u # None
      /\ subnets'[id].owner = u
      /\ \A x \in SubnetId \ {id} : subnets'[x].owner = subnets[x].owner
      /\ totalSubnets' = totalSubnets + 1
  BY RegistryAssumption, WalletAssumption DEF RegistryInv, RegistryTypeOK, registerSubnet
<1>2. /\ list \in Seq(SubnetId) /\ ownedSubnets'[u] = Append(list, id)
      /\ \A w \in Wallet \ {u} : ownedSubnets'[w] = ownedSubnets[w]
  BY DEF RegistryInv, RegistryTypeOK, registerSubnet
<1>3. ASSUME NEW w \in Wallet
      PROVE  /\ {ownedSubnets'[w][k] : k \in DOMAIN ownedSubnets'[w]} =
                   {x \in SubnetId : subnets'[x].owner = w}
             /\ \A j, k \in DOMAIN ownedSubnets'[w] :
                   ownedSubnets'[w][j] = ownedSubnets'[w][k] => j = k
  <2>1. /\ {ownedSubnets[w][k] : k \in DOMAIN ownedSubnets[w]} =
              {x \in SubnetId : subnets[x].owner = w}
        /\ \A j, k \in DOMAIN ownedSubnets[w] : ownedSubnets[w][j] = ownedSubnets[w][k] => j = k
    BY <1>3 DEF RegistryInv, OwnershipIndexed
  <2>2. CASE w # u
    <3>1. {x \in SubnetId : subnets'[x].owner = w} = {x \in SubnetId : subnets[x].owner = w}
      BY <1>1, <2>2, <1>3, RegistryAssumption, WalletAssumption
    <3> QED BY <1>2, <1>3, <2>1, <2>2, <3>1
  <2>3. CASE w = u
    <3>1. \A k \in DOMAIN list : list[k] # id
      BY <1>1, <2>1, <2>3
    <3>2. /\ Len(list) \in Nat /\ DOMAIN list = 1..Len(list)
          /\ DOMAIN Append(list, id) = 1..(Len(list) + 1)
          /\ \A k \in 1..Len(list) : Append(list, id)[k] = list[k]
          /\ Append(list, id)[Len(list) + 1] = id
      BY <1>2
    <3>3. {Append(list, id)[k] : k \in 1..(Len(list) + 1)} = {list[k] : k \in 1..Len(list)} \cup {id}
      <4>1. 1..(Len(list) + 1) = (1..Len(list)) \cup {Len(list) + 1}
        BY <3>2
      <4> HIDE DEF list
      <4> QED BY <3>2, <4>1
    <3>4. {x \in SubnetId : subnets'[x].owner = u} = {x \in SubnetId : subnets[x].owner = u} \cup {id}
      BY <1>1
    <3>5. \A j, k \in 1..(Len(list) + 1) : Append(list, id)[j] = Append(list, id)[k] => j = k
      <4> HIDE DEF list
      <4>1. \A j, k \in 1..Len(list) : list[j] = list[k] => j = k
        BY <2>1, <2>3, <3>2 DEF list
      <4>2. \A k \in 1..Len(list) : list[k] # id
        BY <3>1, <3>2
      <4>3. \A k \in 1..(Len(list) + 1) : k \in 1..Len(list) \/ k = Len(list) + 1
        BY <3>2
      <4> QED BY <3>2, <4>1, <4>2, <4>3
    <3>6. ownedSubnets'[w] = Append(list, id) /\ DOMAIN ownedSubnets'[w] = 1..(Len(list) + 1)
      BY <1>2, <2>3, <3>2
    <3>7. {list[k] : k \in 1..Len(list)} = {x \in SubnetId : subnets[x].owner = u}
      BY <2>1, <2>3, <3>2
    <3> HIDE DEF list
    <3>8. {ownedSubnets'[w][k] : k \in DOMAIN ownedSubnets'[w]} =
             {x \in SubnetId : subnets'[x].owner = w}
      BY <2>3, <3>3, <3>4, <3>6, <3>7
    <3> QED BY <3>5, <3>6, <3>8
  <2> QED BY <2>2, <2>3
<1>4. totalSubnets' = Cardinality({x \in SubnetId : subnets'[x].owner # None})
  <2>1. Registered' = Registered \cup {id} /\ id \notin Registered
    BY <1>1 DEF Registered
  <2>2. IsFiniteSet(Registered)
    <3>1. Registered \subseteq SubnetId
      BY DEF Registered
    <3> QED BY <3>1, FS_Subset, RegistryAssumption, WalletAssumption
  <2>3. Cardinality(Registered') = Cardinality(Registered) + 1
    BY <2>1, <2>2, FS_AddElement
  <2> QED BY <1>1, <2>3 DEF RegistryInv, OwnershipIndexed, Registered
<1> QED BY <1>3, <1>4 DEF OwnershipIndexed

\* Every call keeps the invariant.
LEMMA RegistryNextInv == RegistryInv /\ [RegistryNext]_registryVars => RegistryInv'
<1> SUFFICES ASSUME RegistryInv, [RegistryNext]_registryVars PROVE RegistryInv'
  OBVIOUS
<1>0. Amounts \subseteq Nat /\ MINIMUM_STAKE \in Nat
  BY RegistryAssumption, WalletAssumption DEF Amounts
<1>1. ASSUME NEW u \in Wallet, NEW id \in SubnetId, NEW e \in Endpoint, NEW v \in Amounts,
             registerSubnet(u, id, e, v)
      PROVE  RegistryInv'
  <2>1. RegistryTypeOK'
    BY <1>0, <1>1 DEF RegistryInv, RegistryTypeOK, registerSubnet, Receive
  <2>2. /\ v \in Nat /\ staked' = staked + v /\ subnets'[id].owner # None
        /\ subnets'[id].stake = v /\ subnets[id].stake = 0
        /\ \A x \in SubnetId \ {id} : subnets'[x] = subnets[x]
    BY <1>0, <1>1, WalletAssumption
    DEF RegistryInv, RegistryTypeOK, StakesFunded, registerSubnet, Receive
  <2>3. StakesFunded'
    BY <2>1, <2>2, StakeIn DEF RegistryInv
  <2> QED BY <1>1, <2>1, <2>3, RegisterKeepsIndex DEF RegistryInv
<1>2. ASSUME NEW u \in Wallet, NEW id \in SubnetId, NEW e \in Endpoint, updateEndpoint(u, id, e)
      PROVE  RegistryInv'
  <2>1. /\ RegistryTypeOK'
        /\ \A x \in SubnetId : /\ subnets'[x].stake = subnets[x].stake
                               /\ subnets'[x].owner = subnets[x].owner
    BY <1>2 DEF RegistryInv, RegistryTypeOK, updateEndpoint
  <2>2. UNCHANGED <<ownedSubnets, totalSubnets, staked>>
    BY <1>2 DEF updateEndpoint
  <2>3. OwnershipIndexed'
    BY <2>1, <2>2, SameOwners DEF RegistryInv
  <2> QED BY <2>1, <2>2, <2>3, StakeSame DEF RegistryInv
<1>3. ASSUME NEW u \in Wallet, NEW id \in SubnetId, NEW v \in Amounts, addStake(u, id, v)
      PROVE  RegistryInv'
  <2> DEFINE stake == subnets[id].stake + v
  <2>1. stake \in Nat /\ subnets' = [subnets EXCEPT ![id].stake = stake]
    BY <1>0, <1>3 DEF RegistryInv, RegistryTypeOK, addStake
  <2>2. native' \in [Wallet -> Nat] /\ staked' \in Nat
    BY <1>0, <1>3 DEF RegistryInv, RegistryTypeOK, addStake, Receive
  <2> HIDE DEF stake
  <2>3. UNCHANGED <<ownedSubnets, totalSubnets, timestamp>>
    BY <1>3 DEF addStake
  <2>4. \A x \in SubnetId : subnets'[x] = IF x = id THEN [subnets[id] EXCEPT !.stake = stake]
                                        ELSE subnets[x]
    BY <2>1 DEF RegistryInv, RegistryTypeOK
  <2>5. subnets' \in [SubnetId -> [owner : Wallet \cup {None}, endpoint : Endpoint \cup {None},
                                  stake : Nat, lastUpdated : 0..MaxTime]]
    BY <2>1, <2>4 DEF RegistryInv, RegistryTypeOK
  <2>6. \A x \in SubnetId : subnets'[x].owner = subnets[x].owner
    BY <2>4 DEF RegistryInv, RegistryTypeOK
  <2>7. RegistryTypeOK'
    BY <2>2, <2>3, <2>5 DEF RegistryInv, RegistryTypeOK
  <2>8. /\ v \in Nat /\ staked' = staked + v
        /\ subnets'[id].owner # None /\ subnets'[id].stake = subnets[id].stake + v
    BY <1>0, <1>3, <2>4, WalletAssumption DEF RegistryInv, RegistryTypeOK, addStake, Receive, stake
  <2>9. StakesFunded'
    BY <2>4, <2>7, <2>8, StakeIn DEF RegistryInv
  <2>10. OwnershipIndexed'
    BY <2>3, <2>6, SameOwners DEF RegistryInv
  <2> QED BY <2>7, <2>9, <2>10 DEF RegistryInv
<1>4. ASSUME NEW u \in Wallet, NEW id \in SubnetId, NEW v \in Amounts, withdrawStake(u, id, v)
      PROVE  RegistryInv'
  <2> DEFINE stake == subnets[id].stake - v
  <2>1. stake \in Nat /\ subnets' = [subnets EXCEPT ![id].stake = stake]
    BY <1>0, <1>4 DEF RegistryInv, RegistryTypeOK, withdrawStake
  <2>2. native' \in [Wallet -> Nat] /\ staked' \in Nat
    BY <1>0, <1>4 DEF RegistryInv, RegistryTypeOK, withdrawStake
  <2> HIDE DEF stake
  <2>3. UNCHANGED <<ownedSubnets, totalSubnets, timestamp>>
    BY <1>4 DEF withdrawStake
  <2>4. \A x \in SubnetId : subnets'[x] = IF x = id THEN [subnets[id] EXCEPT !.stake = stake]
                                        ELSE subnets[x]
    BY <2>1 DEF RegistryInv, RegistryTypeOK
  <2>5. subnets' \in [SubnetId -> [owner : Wallet \cup {None}, endpoint : Endpoint \cup {None},
                                  stake : Nat, lastUpdated : 0..MaxTime]]
    BY <2>1, <2>4 DEF RegistryInv, RegistryTypeOK
  <2>6. \A x \in SubnetId : subnets'[x].owner = subnets[x].owner
    BY <2>4 DEF RegistryInv, RegistryTypeOK
  <2>7. RegistryTypeOK'
    BY <2>2, <2>3, <2>5 DEF RegistryInv, RegistryTypeOK
  <2>8. /\ v \in Nat /\ staked' = staked - v /\ v <= subnets[id].stake
        /\ subnets'[id].owner # None /\ subnets'[id].stake = subnets[id].stake - v
    BY <1>0, <1>4, <2>4, WalletAssumption DEF RegistryInv, RegistryTypeOK, withdrawStake, stake
  <2>9. StakesFunded'
    BY <2>4, <2>7, <2>8, StakeOut DEF RegistryInv
  <2>10. OwnershipIndexed'
    BY <2>3, <2>6, SameOwners DEF RegistryInv
  <2> QED BY <2>7, <2>9, <2>10 DEF RegistryInv
<1>5. CASE NewTime
  <2>1. RegistryTypeOK'
    BY <1>5, RegistryAssumption, WalletAssumption DEF RegistryInv, RegistryTypeOK, NewTime
  <2> QED BY <1>5, <2>1 DEF RegistryInv, OwnershipIndexed, StakesFunded, Stakes, NewTime
<1>6. CASE UNCHANGED registryVars
  BY <1>6 DEF RegistryInv, RegistryTypeOK, OwnershipIndexed, StakesFunded, Stakes, registryVars
<1> QED BY <1>1, <1>2, <1>3, <1>4, <1>5, <1>6 DEF RegistryNext, RegistryCall

-----------------------------------------------------------------------------
(* Both contracts on one chain *)

\* The two contracts share the wallets' native balances and nothing else: a call
\* of one leaves the other's invariant true.
LEMMA OtherContract ==
    /\ ZkNetInv /\ UNCHANGED zkNetOnly /\ native' \in [Wallet -> Nat] => ZkNetInv'
    /\ RegistryInv /\ UNCHANGED registryOnly /\ native' \in [Wallet -> Nat] => RegistryInv'
<1>1. ASSUME ZkNetInv, UNCHANGED zkNetOnly, native' \in [Wallet -> Nat] PROVE ZkNetInv'
  BY <1>1 DEF ZkNetInv, TypeOK, Accountable, Funded, Held, zkNetOnly
<1>2. ASSUME RegistryInv, UNCHANGED registryOnly, native' \in [Wallet -> Nat] PROVE RegistryInv'
  BY <1>2 DEF RegistryInv, RegistryTypeOK, OwnershipIndexed, StakesFunded, Stakes, registryOnly
<1> QED BY <1>1, <1>2

\* Every step of the two contracts keeps both invariants.
LEMMA ContractsStep ==
    ZkNetInv /\ RegistryInv /\ [ContractsNext]_<<zkNetOnly, registryOnly, native>>
        => ZkNetInv' /\ RegistryInv'
<1> SUFFICES ASSUME ZkNetInv, RegistryInv,
                    [ContractsNext]_<<zkNetOnly, registryOnly, native>>
             PROVE  ZkNetInv' /\ RegistryInv'
  OBVIOUS
<1>1. CASE (Call \/ Reward) /\ UNCHANGED registryOnly
  <2>1. ZkNetInv'
    BY <1>1, ZkNetNext DEF Next
  <2>2. native' \in [Wallet -> Nat]
    BY <2>1 DEF ZkNetInv, TypeOK
  <2> QED BY <1>1, <2>1, <2>2, OtherContract
<1>2. CASE RegistryCall /\ UNCHANGED zkNetOnly
  <2>1. RegistryInv'
    BY <1>2, RegistryNextInv DEF RegistryNext
  <2>2. native' \in [Wallet -> Nat]
    BY <2>1 DEF RegistryInv, RegistryTypeOK
  <2> QED BY <1>2, <2>1, <2>2, OtherContract
<1>3. CASE NextBlock /\ NewTime
  BY <1>3, ZkNetNext, RegistryNextInv DEF Next, RegistryNext
<1>4. CASE UNCHANGED <<zkNetOnly, registryOnly, native>>
  <2>1. UNCHANGED zkNetOnly /\ UNCHANGED registryOnly /\ native' \in [Wallet -> Nat]
    BY <1>4 DEF ZkNetInv, TypeOK
  <2> QED BY <2>1, OtherContract
<1> QED BY <1>1, <1>2, <1>3, <1>4 DEF ContractsNext

\* The invariants of both contracts hold in every state of the chain.
LEMMA ContractsInvariant == ContractsSpec => [](ZkNetInv /\ RegistryInv)
<1>1. ContractsInit => ZkNetInv /\ RegistryInv
  BY ZkNetInit, RegistryInitInv DEF ContractsInit
<1> QED BY <1>1, ContractsStep, PTL DEF ContractsSpec

\* The storage of both contracts is well formed: no balance and no stake is ever
\* taken below zero.
THEOREM TypeCorrect == ContractsSpec => [](TypeOK /\ RegistryTypeOK)
<1>1. ZkNetInv /\ RegistryInv => TypeOK /\ RegistryTypeOK
  BY DEF ZkNetInv, RegistryInv
<1> QED BY <1>1, ContractsInvariant, PTL

\* Wallets and internal accounts correspond one to one, and no balance is out of
\* reach, through any sequence of r5_accountCreate and r5_accountDestroy.
THEOREM AccountsBelongToWallets == ContractsSpec => []OneAccountPerWallet
BY ZkNetInvGives, ContractsInvariant, PTL

\* The zkNet contract holds what it owes to its internal accounts and what it
\* was credited without a call, after any sequence of deposits, transfers (to
\* oneself too), payments and destroyed accounts.
THEOREM ZkNetSolvent == ContractsSpec => []Solvent
BY ZkNetInvGives, ContractsInvariant, PTL

\* The lists of getSubnetsByOwner, the owners of the subnets and totalSubnets
\* agree after any sequence of calls.
THEOREM IndexAgreesWithOwners == ContractsSpec => []OwnershipIndexed
<1>1. RegistryInv => OwnershipIndexed
  BY DEF RegistryInv
<1> QED BY <1>1, ContractsInvariant, PTL

\* The registry holds exactly what is staked, whatever was added and withdrawn.
THEOREM EveryStakeBacked == ContractsSpec => []StakesBacked
<1>1. RegistryInv => StakesBacked
  BY DEF RegistryInv, StakesFunded, StakesBacked, Stakes
<1> QED BY <1>1, ContractsInvariant, PTL

-----------------------------------------------------------------------------
(* The WR5 token *)

\* The contract covers the balances, which are finitely many units.
TokenFunded == IsFiniteSet(Units(balanceOf)) /\ wrapped = tokenReward + Total(balanceOf)

\* What is left of an allowance is what was granted less what was drawn; an
\* infinite one is left whole.
TokenInv ==
    /\ TokenTypeOK /\ TokenFunded
    /\ \A o \in Holder, s \in Holder :
          /\ granted[o][s] # MaxUint => allowance[o][s] = granted[o][s] - drawn[o][s]
          /\ granted[o][s] = MaxUint => allowance[o][s] = MaxUint

\* A new contract has no balances and no allowances.
LEMMA InitTokenInv == TokenInit => TokenInv
<1> SUFFICES ASSUME TokenInit PROVE TokenInv
  OBVIOUS
<1>1. TokenTypeOK
  BY WrappedAssumption, WalletAssumption DEF TokenInit, TokenTypeOK
<1>2. IsFiniteSet(Units(balanceOf)) /\ Total(balanceOf) = 0
  BY NoUnits DEF TokenInit
<1>3. TokenFunded
  BY <1>2 DEF TokenInit, TokenFunded
<1> QED BY <1>1, <1>3, WrappedAssumption, WalletAssumption DEF TokenInit, TokenInv

\* A deposit adds to one balance what the contract receives.
LEMMA TokensIn ==
    ASSUME TokenTypeOK, TokenFunded, NEW h \in Holder, NEW v \in Nat,
           balanceOf' = [balanceOf EXCEPT ![h] = balanceOf[h] + v],
           wrapped' = wrapped + v, tokenReward' = tokenReward
    PROVE  TokenFunded'
<1> DEFINE b == balanceOf
           c == balanceOf'
<1>1. /\ b \in [Holder -> Nat] /\ c \in [Holder -> Nat] /\ c[h] = b[h] + v
      /\ \A g \in Holder \ {h} : c[g] = b[g]
  BY DEF TokenTypeOK
<1>2. IsFiniteSet(Units(b)) /\ Total(b) \in Nat
  BY FS_CardinalityType DEF TokenFunded, Total
<1>3. IsFiniteSet(Units(c)) /\ Total(c) = Total(b) + v
  <2> HIDE DEF b, c
  <2> QED BY <1>1, <1>2, Credit
<1> QED BY <1>2, <1>3 DEF TokenFunded, TokenTypeOK

\* A withdrawal takes from one balance what the contract pays.
LEMMA TokensOut ==
    ASSUME TokenTypeOK, TokenFunded, NEW h \in Holder, NEW v \in Nat, v <= balanceOf[h],
           balanceOf' = [balanceOf EXCEPT ![h] = balanceOf[h] - v],
           wrapped' = wrapped - v, tokenReward' = tokenReward
    PROVE  TokenFunded'
<1> DEFINE b == balanceOf
           c == balanceOf'
<1>1. /\ b \in [Holder -> Nat] /\ c \in [Holder -> Nat] /\ c[h] = b[h] - v /\ v <= b[h]
      /\ \A g \in Holder \ {h} : c[g] = b[g]
  BY DEF TokenTypeOK
<1>2. IsFiniteSet(Units(b)) /\ Total(b) \in Nat
  BY FS_CardinalityType DEF TokenFunded, Total
<1>3. IsFiniteSet(Units(c)) /\ Total(c) = Total(b) - v
  <2> HIDE DEF b, c
  <2> QED BY <1>1, <1>2, Debit
<1> QED BY <1>2, <1>3 DEF TokenFunded, TokenTypeOK

\* A transfer, also to oneself or to the contract, leaves the total alone.
LEMMA TokensMove ==
    ASSUME TokenTypeOK, TokenFunded, NEW from \in Holder, NEW to \in Holder, NEW v \in Nat,
           v <= balanceOf[from],
           balanceOf' = [[balanceOf EXCEPT ![from] = @ - v] EXCEPT ![to] = @ + v],
           wrapped' = wrapped, tokenReward' = tokenReward
    PROVE  TokenFunded'
<1> DEFINE b   == balanceOf
           c   == balanceOf'
           mid == [balanceOf EXCEPT ![from] = balanceOf[from] - v]
<1>0. b \in [Holder -> Nat] /\ v <= b[from] /\ wrapped \in Nat
  BY DEF TokenTypeOK
<1>m. /\ mid \in [Holder -> Nat] /\ mid[from] = b[from] - v
      /\ \A g \in Holder \ {from} : mid[g] = b[g]
  BY <1>0
<1>c. c = [mid EXCEPT ![to] = mid[to] + v]
  OBVIOUS
<1>1. /\ c \in [Holder -> Nat] /\ c[to] = mid[to] + v
      /\ \A g \in Holder \ {to} : c[g] = mid[g]
  <2> HIDE DEF b, c, mid
  <2> QED BY <1>m, <1>c
<1>2. IsFiniteSet(Units(b)) /\ Total(b) \in Nat
  BY FS_CardinalityType DEF TokenFunded, Total
<1>3. IsFiniteSet(Units(mid)) /\ Total(mid) = Total(b) - v
  <2> HIDE DEF b, c, mid
  <2> QED BY <1>0, <1>m, <1>2, Debit
<1>4. IsFiniteSet(Units(c)) /\ Total(c) = Total(mid) + v
  <2> HIDE DEF b, c, mid
  <2> QED BY <1>m, <1>1, <1>3, Credit
<1>5. Total(c) = Total(b)
  <2> HIDE DEF b, c, mid
  <2> QED BY <1>2, <1>3, <1>4
<1> QED BY <1>4, <1>5 DEF TokenFunded

\* Drawing on an allowance keeps the books of approvals, whoever draws.
LEMMA SpendKeepsBooks ==
    ASSUME TokenInv, NEW u \in Wallet, NEW from \in Holder, NEW to \in Holder, NEW v \in Nat,
           SpendAllowance(u, from, to, v), granted' = granted
    PROVE  /\ allowance' \in [Holder -> [Holder -> 0..MaxUint]]
           /\ drawn' \in [Holder -> [Holder -> Nat]]
           /\ \A o \in Holder, s \in Holder :
                 /\ granted'[o][s] # MaxUint => allowance'[o][s] = granted'[o][s] - drawn'[o][s]
                 /\ granted'[o][s] = MaxUint => allowance'[o][s] = MaxUint
<1>0. u \in Holder
  BY DEF Holder
<1>1. CASE u # from /\ allowance[from][u] # MaxUint
  <2>1. /\ allowance[from][u] >= v
        /\ allowance' = [allowance EXCEPT ![from][u] = allowance[from][u] - v]
        /\ drawn' = [drawn EXCEPT ![from][u] = drawn[from][u] + v]
    BY <1>1 DEF SpendAllowance
  <2>2. /\ allowance[from][u] - v \in 0..MaxUint
        /\ drawn[from][u] + v \in Nat
    BY <1>0, <2>1, WrappedAssumption, WalletAssumption DEF TokenInv, TokenTypeOK
  <2> QED BY <1>0, <1>1, <2>1, <2>2, WrappedAssumption, WalletAssumption DEF TokenInv, TokenTypeOK
<1>2. CASE ~(u # from /\ allowance[from][u] # MaxUint)
  BY <1>2 DEF SpendAllowance, TokenInv, TokenTypeOK
<1> QED BY <1>1, <1>2

\* Every call keeps the invariant.
LEMMA NextTokenInv == TokenInv /\ [TokenNext]_tokenVars => TokenInv'
<1> SUFFICES ASSUME TokenInv, [TokenNext]_tokenVars PROVE TokenInv'
  OBVIOUS
<1> USE WrappedAssumption, WalletAssumption
<1>0. Amounts \subseteq Nat /\ Wallet \subseteq Holder
  BY DEF Amounts, Holder
<1>1. ASSUME NEW u \in Wallet, NEW v \in Amounts, deposit(u, v) PROVE TokenInv'
  <2>1. TokenFunded'
    BY <1>0, <1>1, TokensIn DEF TokenInv, deposit
  <2> QED BY <1>0, <1>1, <2>1 DEF TokenInv, TokenTypeOK, deposit
<1>2. ASSUME NEW u \in Wallet, NEW v \in Amounts, withdraw(u, v) PROVE TokenInv'
  <2>1. v <= balanceOf[u]
    BY <1>0, <1>2 DEF TokenInv, TokenTypeOK, withdraw
  <2>2. TokenFunded'
    BY <1>0, <1>2, <2>1, TokensOut DEF TokenInv, withdraw
  <2> QED BY <1>0, <1>2, <2>2 DEF TokenInv, TokenTypeOK, withdraw
<1>3. ASSUME NEW u \in Wallet, NEW s \in Wallet, NEW v \in Approvals, approve(u, s, v) PROVE TokenInv'
  BY <1>0, <1>3 DEF TokenInv, TokenTypeOK, TokenFunded, approve
<1>4. ASSUME NEW u \in Wallet, NEW from \in Holder, NEW to \in Holder, NEW v \in Amounts,
             transferFrom(u, from, to, v)
      PROVE  TokenInv'
  <2>1. v \in Nat /\ SpendAllowance(u, from, to, v) /\ granted' = granted
    BY <1>0, <1>4 DEF transferFrom
  <2>2. balanceOf' \in [Holder -> Nat]
    BY <2>1, <1>4 DEF transferFrom, TokenInv, TokenTypeOK
  <2>3. v <= balanceOf[from]
    BY <2>1, <1>4 DEF transferFrom, TokenInv, TokenTypeOK
  <2>4. TokenFunded'
    BY <1>4, <2>1, <2>3, TokensMove DEF TokenInv, transferFrom
  <2> QED BY <1>4, <2>1, <2>2, <2>4, SpendKeepsBooks DEF transferFrom, TokenInv, TokenTypeOK
<1>5. CASE TokenReward
  <2>1. Total(balanceOf) \in Nat
    BY FS_CardinalityType DEF TokenInv, TokenFunded, Total
  <2>2. TokenFunded'
    BY <1>5, <2>1 DEF TokenInv, TokenTypeOK, TokenFunded, TokenReward
  <2> QED BY <1>5, <2>2 DEF TokenInv, TokenTypeOK, TokenReward
<1>6. CASE UNCHANGED tokenVars
  BY <1>6 DEF TokenInv, TokenTypeOK, TokenFunded, tokenVars
<1> QED BY <1>1, <1>2, <1>3, <1>4, <1>5, <1>6 DEF TokenNext

\* The token's storage holds unsigned integers at all times.
THEOREM TokenTypeCorrect == TokenSpec => []TokenTypeOK
<1>1. TokenInv => TokenTypeOK
  BY DEF TokenInv
<1> QED BY <1>1, InitTokenInv, NextTokenInv, PTL DEF TokenSpec

\* No spender moves more than its last approval, over any number of calls of
\* transferFrom.
THEOREM ApprovalsAreLimits == TokenSpec => []SpendingWithinApproval
<1>1. TokenInv => SpendingWithinApproval
  BY WrappedAssumption, WalletAssumption DEF TokenInv, TokenTypeOK, SpendingWithinApproval
<1> QED BY <1>1, InitTokenInv, NextTokenInv, PTL DEF TokenSpec

\* Every WR5 is backed by native R5 in the contract, after any sequence of
\* deposits, withdrawals and transfers.
THEOREM EveryTokenBacked == TokenSpec => []Backed
<1>1. TokenInv => Backed
  BY DEF TokenInv, TokenFunded, Backed, Circulating
<1> QED BY <1>1, InitTokenInv, NextTokenInv, PTL DEF TokenSpec

=============================================================================
