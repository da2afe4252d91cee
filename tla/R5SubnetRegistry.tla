-------------------------- MODULE R5SubnetRegistry --------------------------
(***************************************************************************)
(* The registry of subnets (subnet/R5SubnetRegistry.sol): who owns a       *)
(* subnet, where it is served, and what is staked on it.  Calls that       *)
(* revert change nothing and are no steps.  The registry never reads its   *)
(* own native balance, so what it may be credited without a call is left   *)
(* out.                                                                    *)
(***************************************************************************)
EXTENDS Wallets, Sequences

CONSTANTS
    SubnetId, Endpoint,
    MINIMUM_STAKE,
    MaxTime         \* bound: block.timestamp

ASSUME RegistryAssumption ==
    /\ None \notin Endpoint
    /\ IsFiniteSet(SubnetId)
    /\ {MINIMUM_STAKE, MaxTime} \subseteq Nat

VARIABLES
    subnets, ownedSubnets, totalSubnets,
    staked,         \* native balance of the contract
    timestamp

registryVars == <<subnets, ownedSubnets, totalSubnets, native, staked, timestamp>>

NoSubnet == [owner |-> None, endpoint |-> None, stake |-> 0, lastUpdated |-> 0]

\* msg.value moves to the contract.
Receive(u, value) ==
    /\ native[u] >= value
    /\ native' = [native EXCEPT ![u] = @ - value] /\ staked' = staked + value

-----------------------------------------------------------------------------
\* Mutant: a subnet can be registered again by somebody else.
RegisterAgain(u, id, endpoint, value) ==
    /\ subnets[id].owner # u /\ value >= MINIMUM_STAKE
    /\ Receive(u, value)
    /\ subnets' = [subnets EXCEPT ![id] = [owner |-> u, endpoint |-> endpoint, stake |-> value,
                                           lastUpdated |-> timestamp]]
    /\ ownedSubnets' = [ownedSubnets EXCEPT ![u] = Append(@, id)]
    /\ totalSubnets' = totalSubnets + 1
    /\ UNCHANGED timestamp

registerSubnet(u, id, endpoint, value) ==
    /\ subnets[id].owner = None /\ value >= MINIMUM_STAKE
    /\ Receive(u, value)
    /\ subnets' = [subnets EXCEPT ![id] = [owner |-> u, endpoint |-> endpoint, stake |-> value,
                                           lastUpdated |-> timestamp]]
    /\ ownedSubnets' = [ownedSubnets EXCEPT ![u] = Append(@, id)]
    /\ totalSubnets' = totalSubnets + 1
    /\ UNCHANGED timestamp

updateEndpoint(u, id, endpoint) ==
    /\ subnets[id].owner = u
    /\ subnets' = [subnets EXCEPT ![id].endpoint = endpoint,
                                  ![id].lastUpdated = timestamp]
    /\ UNCHANGED <<ownedSubnets, totalSubnets, native, staked, timestamp>>

\* Mutant: the stake is replaced, not increased.
AddStakeReplaces(u, id, value) ==
    /\ subnets[id].owner = u /\ value > 0
    /\ Receive(u, value)
    /\ subnets' = [subnets EXCEPT ![id].stake = value]
    /\ UNCHANGED <<ownedSubnets, totalSubnets, timestamp>>

addStake(u, id, value) ==
    /\ subnets[id].owner = u /\ value > 0
    /\ Receive(u, value)
    /\ subnets' = [subnets EXCEPT ![id].stake = @ + value]
    /\ UNCHANGED <<ownedSubnets, totalSubnets, timestamp>>

\* Nothing keeps a stake at MINIMUM_STAKE after the registration.
withdrawStake(u, id, amount) ==
    /\ subnets[id].owner = u /\ amount > 0 /\ amount <= subnets[id].stake
    /\ u \in Payee /\ staked >= amount
    /\ subnets' = [subnets EXCEPT ![id].stake = @ - amount]
    /\ native' = [native EXCEPT ![u] = @ + amount] /\ staked' = staked - amount
    /\ UNCHANGED <<ownedSubnets, totalSubnets, timestamp>>

NewTime ==
    /\ timestamp < MaxTime
    /\ timestamp' = timestamp + 1
    /\ UNCHANGED <<subnets, ownedSubnets, totalSubnets, native, staked>>

-----------------------------------------------------------------------------
RegistryInit ==
    /\ subnets = [id \in SubnetId |-> NoSubnet]
    /\ ownedSubnets = [u \in Wallet |-> << >>]
    /\ totalSubnets = 0
    /\ native = [u \in Wallet |-> Funds]
    /\ staked = 0 /\ timestamp = 0

RegistryCall ==
    \/ \E u \in Wallet, id \in SubnetId, e \in Endpoint, v \in Amounts :
          registerSubnet(u, id, e, v)
    \/ \E u \in Wallet, id \in SubnetId, e \in Endpoint : updateEndpoint(u, id, e)
    \/ \E u \in Wallet, id \in SubnetId, v \in Amounts : addStake(u, id, v)
    \/ \E u \in Wallet, id \in SubnetId, v \in Amounts : withdrawStake(u, id, v)

RegistryNext == RegistryCall \/ NewTime

RegistrySpec == RegistryInit /\ [][RegistryNext]_registryVars

-----------------------------------------------------------------------------
(* Properties *)

\* The storage holds what it is declared to hold; no stake is ever negative.
RegistryTypeOK ==
    /\ subnets \in [SubnetId -> [owner : Wallet \cup {None}, endpoint : Endpoint \cup {None},
                                 stake : Nat, lastUpdated : 0..MaxTime]]
    /\ ownedSubnets \in [Wallet -> Seq(SubnetId)] /\ totalSubnets \in Nat
    /\ native \in [Wallet -> Nat] /\ staked \in Nat /\ timestamp \in 0..MaxTime

\* getSubnetsByOwner and the subnets agree: the list of a user holds exactly the
\* subnets it owns, each once, and totalSubnets counts the owned ones.
OwnershipIndexed ==
    /\ \A u \in Wallet :
          /\ {ownedSubnets[u][k] : k \in DOMAIN ownedSubnets[u]} =
                {id \in SubnetId : subnets[id].owner = u}
          /\ \A j, k \in DOMAIN ownedSubnets[u] :
                ownedSubnets[u][j] = ownedSubnets[u][k] => j = k
    /\ totalSubnets = Cardinality({id \in SubnetId : subnets[id].owner # None})

\* The contract holds what is staked: every stake can be withdrawn.
StakesBacked == staked = Total([id \in SubnetId |-> subnets[id].stake])

=============================================================================
