------------------------------ MODULE MCTxPool ------------------------------
(***************************************************************************)
(* Small accounts, transactions and chains for model checking TxPool.      *)
(***************************************************************************)
EXTENDS TxPool

\* A transaction is named after its account and nonce; the x ones pay more.
AllTx == {"a0", "a1", "a1x", "a2", "b0", "b0x", "b1"}
TxSender == [t \in Tx |-> IF t \in {"a0", "a1", "a1x", "a2"} THEN "a" ELSE "b"]
TxNonce == [t \in Tx |->
    CASE t \in {"a0", "b0", "b0x"} -> 0 [] t \in {"a1", "a1x", "b1"} -> 1 [] t = "a2" -> 2]
TxPrice == [t \in Tx |-> CASE t \in {"a1x", "b0x"} -> 30 [] t \in {"b0", "b1"} -> 20 [] OTHER -> 10]
TxCost == [t \in Tx |-> IF t = "a1" THEN 2 ELSE 1]

\* A chain that never moves.
Still == {"g"}
NoParent == [b \in {} |-> "g"]
NoTxs == [b \in Block |-> << >>]
Rich == [b \in Block |-> [a \in Addr |-> 9]]

\* Two branches: the longer one includes two transactions of a, the other one
\* the replacement of the second.
Fork == {"g", "x1", "x2", "y1", "y2"}
ForkParent == [b \in Fork \ {"g"} |->
    CASE b \in {"x1", "y1"} -> "g" [] b = "x2" -> "x1" [] b = "y2" -> "y1"]
ForkTxs == [b \in Fork |->
    CASE b = "x1" -> <<"a0">> [] b = "x2" -> IF "b0" \in Tx THEN <<"a1", "b0">> ELSE <<"a1">>
      [] b = "y2" -> <<"a0", "a1x">> [] OTHER -> << >>]

\* On the branch of y, account a cannot pay for a1 on top of another transaction.
Poor == [b \in Fork |-> [a \in Addr |-> IF b \in {"y1", "y2"} /\ a = "a" THEN 2 ELSE 9]]

=============================================================================
