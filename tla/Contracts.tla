------------------------------ MODULE Contracts ------------------------------
(***************************************************************************)
(* The zkNet contract and the subnet registry on one chain: the same       *)
(* wallets call both and pay both from one native balance, and a block     *)
(* passes for both at once.                                                *)
(***************************************************************************)
EXTENDS R5zkNet, R5SubnetRegistry

zkNetOnly == <<accounts, walletToInternal, contract, block, reward>>
registryOnly == <<subnets, ownedSubnets, totalSubnets, staked, timestamp>>

ContractsInit == Init /\ RegistryInit

ContractsNext ==
    \/ (Call \/ Reward) /\ UNCHANGED registryOnly
    \/ RegistryCall /\ UNCHANGED zkNetOnly
    \/ NextBlock /\ NewTime

ContractsSpec == ContractsInit /\ [][ContractsNext]_<<zkNetOnly, registryOnly, native>>

=============================================================================
