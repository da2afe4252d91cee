----------------------------- MODULE TxRetrieval -----------------------------
(***************************************************************************)
(* What the transaction fetcher promises, hash by hash, without timers,    *)
(* requests or slots: an announced hash waits before it is asked for, is   *)
(* asked for from one peer at a time, only from peers that offered it, and *)
(* does not stay unasked-for or unanswered for ever.                       *)
(***************************************************************************)
CONSTANTS Peers, Hashes, None

VARIABLES
    stage,    \* hash -> "unknown", "waiting", "queued" or "fetching"
    source,   \* hash -> the peer it is being fetched from, or None
    offers    \* hash -> peers it may be asked for from

retrievalVars == <<stage, source, offers>>

Init ==
    /\ stage = [h \in Hashes |-> "unknown"]
    /\ source = [h \in Hashes |-> None]
    /\ offers = [h \in Hashes |-> {}]

Stays(h) == stage'[h] = stage[h] /\ source'[h] = source[h]

(***************************************************************************)
(* The first announcement: the transaction may still arrive by itself.     *)
(***************************************************************************)
Discover(h) == stage[h] = "unknown" /\ stage'[h] = "waiting"

(***************************************************************************)
(* The wait is over, or the peer asked did not deliver.                    *)
(***************************************************************************)
Queue(h) == stage[h] \in {"waiting", "fetching"} /\ stage'[h] = "queued"

(***************************************************************************)
(* The hash is asked for from one of its offers, for the first time or     *)
(* from another peer; never in the step that discovers it.                 *)
(***************************************************************************)
Ask(h) ==
    /\ stage[h] # "unknown"
    /\ stage'[h] = "fetching"
    /\ source'[h] \in offers'[h]

(***************************************************************************)
(* Delivered, or nobody is left who offers it.                             *)
(***************************************************************************)
Forget(h) == stage[h] # "unknown" /\ stage'[h] = "unknown"

(***************************************************************************)
(* One event: at most one peer adds offers, every hash makes its move.     *)
(***************************************************************************)
Next ==
    \E p \in Peers : \A h \in Hashes :
       /\ offers'[h] \subseteq offers[h] \cup {p}
       /\ Stays(h) \/ Discover(h) \/ Queue(h) \/ Ask(h) \/ Forget(h)
       /\ stage'[h] # "fetching" => source'[h] = None
       /\ stage'[h] = "unknown" <=> offers'[h] = {}

(***************************************************************************)
(* No hash waits for ever, and no peer is waited for for ever.             *)
(***************************************************************************)
Progress ==
    \A h \in Hashes : /\ []<>(stage[h] # "waiting")
                      /\ \A p \in Peers : []<>(source[h] # p)

Spec == Init /\ [][Next]_retrievalVars /\ Progress
=============================================================================
