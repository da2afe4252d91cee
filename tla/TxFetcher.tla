------------------------------ MODULE TxFetcher ------------------------------
(***************************************************************************)
(* The transaction fetcher (client/eth/fetcher/tx_fetcher.go): retrieves   *)
(* the transactions whose hashes peers announce.  One goroutine, loop,     *)
(* owns all the maps; peers' handlers, timers and failed requests reach it *)
(* through channels, so that every case of its select is one action here.  *)
(*                                                                         *)
(* A Go map from a key to a set is a function to sets: the code deletes a  *)
(* key whose set becomes empty, so {} stands for an absent key.  The clock *)
(* is reduced to the two comparisons the loop makes: the hashes that have  *)
(* waited txArriveTimeout and the requests older than txFetchTimeout.      *)
(*                                                                         *)
(* Notify filters announcements by hasTx and by the underpriced set before *)
(* it sends them to the loop, and the answer may be stale when the loop    *)
(* receives them: the loop is given any set of hashes.                     *)
(***************************************************************************)
EXTENDS Naturals, FiniteSets, Sequences, SequencesExt

CONSTANTS
    Peers,
    Hashes,
    MaxTxAnnounces,   \* maxTxAnnounces: 4096
    MaxTxRetrievals,  \* maxTxRetrievals: 256
    None              \* no peer, no request

VARIABLES
    waitlist,     \* hash -> peers that announced it: stage 1
    waitslots,    \* peer -> hashes of stage 1
    waited,       \* hashes of the waitlist whose txArriveTimeout is over
    waitTimer,    \* is the timer of waitTrigger armed (or its tick pending)?
    announces,    \* peer -> hashes of stages 2 and 3
    announced,    \* hash -> peers it may be requested from: stage 2
    fetching,     \* hash -> peer it is being retrieved from: stage 3
    requests,     \* peer -> request in flight
    alternates,   \* hash -> peers to turn to if the retrieval fails: stage 3
    overdue,      \* peers whose request is older than txFetchTimeout
    timeoutTimer  \* is the timer of timeoutTrigger armed (or its tick pending)?

waitVars  == <<waitlist, waitslots, waited, waitTimer>>
fetchVars == <<announces, announced, fetching, requests, alternates>>
vars      == <<waitVars, fetchVars, overdue, timeoutTimer>>

(***************************************************************************)
(* txRequest: the hashes asked for, in order, and those that somebody else *)
(* delivered meanwhile.  A request that timed out keeps its slot with no   *)
(* hashes (dangling).                                                      *)
(***************************************************************************)
TxRequest == [hashes : Seq(Hashes), stolen : SUBSET Hashes]

ASSUME FetcherAssumption ==
    /\ MaxTxAnnounces \in Nat \ {0}
    /\ MaxTxRetrievals \in Nat \ {0}
    /\ None \notin Peers /\ None \notin TxRequest

TypeOK ==
    /\ waitlist \in [Hashes -> SUBSET Peers]
    /\ waitslots \in [Peers -> SUBSET Hashes]
    /\ waited \subseteq {h \in Hashes : waitlist[h] # {}}
    /\ announces \in [Peers -> SUBSET Hashes]
    /\ announced \in [Hashes -> SUBSET Peers]
    /\ fetching \in [Hashes -> Peers \cup {None}]
    /\ requests \in [Peers -> TxRequest \cup {None}]
    /\ alternates \in [Hashes -> SUBSET Peers]
    /\ overdue \subseteq {p \in Peers : requests[p] # None}
    /\ {waitTimer, timeoutTimer} \subseteq BOOLEAN

Init ==
    /\ waitlist = [h \in Hashes |-> {}]
    /\ waitslots = [p \in Peers |-> {}]
    /\ waited = {}
    /\ waitTimer = FALSE
    /\ announces = [p \in Peers |-> {}]
    /\ announced = [h \in Hashes |-> {}]
    /\ fetching = [h \in Hashes |-> None]
    /\ requests = [p \in Peers |-> None]
    /\ alternates = [h \in Hashes |-> {}]
    /\ overdue = {}
    /\ timeoutTimer = FALSE

-----------------------------------------------------------------------------
(***************************************************************************)
(* scheduleFetches                                                         *)
(***************************************************************************)

(***************************************************************************)
(* The maps of stages 2 and 3 as one record, for handlers that change them *)
(* and then schedule.                                                      *)
(***************************************************************************)
SetStage23(s) ==
    /\ announces' = s.announces
    /\ announced' = s.announced
    /\ fetching' = s.fetching
    /\ requests' = s.requests
    /\ alternates' = s.alternates

(***************************************************************************)
(* The requests one pass may hand to the idle peers: the peers come in     *)
(* some order (a map iteration), each takes as many as it may of the       *)
(* hashes it announced that nobody is fetching, in some order.             *)
(***************************************************************************)
\* Mutant: a hash is asked for although another peer is asked for it.
OpenOrFetched(s, p) == s.announces[p]

Open(s, p) == {h \in s.announces[p] : s.fetching[h] = None}

Batches(hs) == {batch \in SeqOf(hs, MaxTxRetrievals) : IsInjective(batch)}

Assignments(s, actives) ==
    LET idle == {p \in actives : s.requests[p] = None}
        ranks == {r \in [idle -> 1..Cardinality(idle)] : IsInjective(r)}
        left(asg, r, p) == Open(s, p) \ UNION {ToSet(asg[q]) : q \in {o \in idle : r[o] < r[p]}}
    IN  {asg \in [idle -> Batches(UNION {Open(s, p) : p \in idle})] :
           \E r \in ranks : \A p \in idle :
              /\ ToSet(asg[p]) \subseteq left(asg, r, p)
              /\ Len(asg[p]) = MaxTxRetrievals \/ ToSet(asg[p]) = left(asg, r, p)}

(***************************************************************************)
(* A peer that got hashes has a request, and each of them moves from stage *)
(* 2 to stage 3.                                                           *)
(***************************************************************************)
Assign(s, asg) ==
    LET taken == UNION {ToSet(asg[p]) : p \in DOMAIN asg}
        taker(h) == CHOOSE p \in DOMAIN asg : h \in ToSet(asg[p])
    IN  [announces |-> s.announces,
         announced |-> [h \in Hashes |-> IF h \in taken THEN {} ELSE s.announced[h]],
         fetching |-> [h \in Hashes |-> IF h \in taken THEN taker(h) ELSE s.fetching[h]],
         requests |-> [p \in Peers |->
              IF p \in DOMAIN asg /\ asg[p] # <<>>
              THEN [hashes |-> asg[p], stolen |-> {}] ELSE s.requests[p]],
         alternates |-> [h \in Hashes |->
              IF h \in taken THEN s.announced[h] ELSE s.alternates[h]]]

NoRequests(reqs) == \A p \in Peers : reqs[p] = None

\* Mutant: the first request does not arm the timer.
ScheduleUntimed(s, actives) ==
    \E asg \in Assignments(s, actives) :
       /\ SetStage23(Assign(s, asg))
       /\ overdue' = {p \in overdue : s.requests[p] # None}
       /\ UNCHANGED timeoutTimer

(***************************************************************************)
(* One pass over the given peers from the given maps.  The timeout timer   *)
(* is armed when the pass finds no request in flight and leaves some.      *)
(***************************************************************************)
ScheduleFetches(s, actives) ==
    \E asg \in Assignments(s, actives) :
       LET t == Assign(s, asg)
       IN  /\ SetStage23(t)
           /\ overdue' = {p \in overdue : s.requests[p] # None}
           /\ timeoutTimer' = (timeoutTimer \/ (NoRequests(s.requests) /\ ~NoRequests(t.requests)))

(***************************************************************************)
(* The maps without a pass: nothing new is requested.                      *)
(***************************************************************************)
NoSchedule(s) == SetStage23(s) /\ UNCHANGED <<overdue, timeoutTimer>>

-----------------------------------------------------------------------------
(***************************************************************************)
(* case ann := <-f.notify                                                  *)
(***************************************************************************)

Used(p) == Cardinality(waitslots[p]) + Cardinality(announces[p])

(***************************************************************************)
(* The part of an announcement that is kept: none of it when the peer is   *)
(* at its limit, else the first want - maxTxAnnounces hashes when it would *)
(* pass the limit.  The order is the peer's, so any such part is possible. *)
(***************************************************************************)
Kept(p, hs) ==
    LET want == Used(p) + Cardinality(hs)
    IN  IF Used(p) >= MaxTxAnnounces THEN {}
        ELSE IF want > MaxTxAnnounces
             THEN {ks \in SUBSET hs : Cardinality(ks) = want - MaxTxAnnounces}
             ELSE {hs}

(***************************************************************************)
(* An announced hash joins the stage it is in: an alternate of a retrieval *)
(* in progress (third), a download location of a queued hash (second), or  *)
(* else stage 1, where the first announcement starts the hash's wait.      *)
(***************************************************************************)
Join(p, third, second) ==
    [announces |-> [announces EXCEPT ![p] = @ \cup third \cup second],
     announced |-> [h \in Hashes |->
          IF h \in second THEN announced[h] \cup {p} ELSE announced[h]],
     fetching |-> fetching,
     requests |-> requests,
     alternates |-> [h \in Hashes |->
          IF h \in third THEN alternates[h] \cup {p} ELSE alternates[h]]]

Notify(p, hs) ==
    /\ hs # {}
    /\ \E ks \in Kept(p, hs) :
         LET third  == {h \in ks : alternates[h] # {}}
             second == {h \in ks \ third : announced[h] # {}}
             first  == ks \ (third \cup second)
             s == Join(p, third, second)
         IN  /\ waitlist' = [h \in Hashes |->
                               IF h \in first THEN waitlist[h] \cup {p} ELSE waitlist[h]]
             /\ waitslots' = [waitslots EXCEPT ![p] = @ \cup first]
             /\ waitTimer' = (waitTimer \/ (first # {} /\ \A h \in Hashes : waitlist[h] = {}))
             /\ UNCHANGED waited
             /\ IF announces[p] = {} /\ s.announces[p] # {}
                THEN ScheduleFetches(s, {p})
                ELSE NoSchedule(s)

(***************************************************************************)
(* case <-waitTrigger: the hashes whose wait is over are queued, and their *)
(* peers may be given requests.  The timer is armed again if hashes wait.  *)
(***************************************************************************)
QueueWaited ==
    [announces |-> [p \in Peers |-> announces[p] \cup {h \in waited : p \in waitlist[h]}],
     announced |-> [h \in Hashes |-> IF h \in waited THEN waitlist[h] ELSE announced[h]],
     fetching |-> fetching, requests |-> requests, alternates |-> alternates]

WaitTrigger ==
    /\ waitTimer
    /\ waitlist' = [h \in Hashes |-> IF h \in waited THEN {} ELSE waitlist[h]]
    /\ waitslots' = [p \in Peers |-> waitslots[p] \ {h \in waited : p \in waitlist[h]}]
    /\ waited' = {}
    /\ waitTimer' = \E h \in Hashes \ waited : waitlist[h] # {}
    /\ LET actives == UNION {waitlist[h] : h \in waited}
       IN  IF actives # {} THEN ScheduleFetches(QueueWaited, actives) ELSE NoSchedule(QueueWaited)

\* Mutant: deliveries by others are not remembered.
UndeliveredOrStolen(req) == ToSet(req.hashes)

(***************************************************************************)
(* The hashes of a request that nobody else has delivered.                 *)
(***************************************************************************)
Undelivered(req) == ToSet(req.hashes) \ req.stolen

Announcers(s) == {p \in Peers : s.announces[p] # {}}

(***************************************************************************)
(* case <-timeoutTrigger: the hashes of an overdue request go back to the  *)
(* queue for the other peers, the request dangles.  Then a pass over all   *)
(* peers, and the timer is armed again whatever came of it.                *)
(***************************************************************************)
Expire ==
    LET expired == {h \in Hashes : \E p \in overdue : h \in Undelivered(requests[p])}
    IN  [announces |-> [p \in Peers |->
              IF p \in overdue THEN announces[p] \ Undelivered(requests[p]) ELSE announces[p]],
         announced |-> [h \in Hashes |->
              IF h \in expired
              THEN alternates[h] \ {p \in overdue : h \in Undelivered(requests[p])}
              ELSE announced[h]],
         fetching |-> [h \in Hashes |-> IF h \in expired THEN None ELSE fetching[h]],
         requests |-> [p \in Peers |->
              IF p \in overdue THEN [requests[p] EXCEPT !.hashes = <<>>] ELSE requests[p]],
         alternates |-> [h \in Hashes |-> IF h \in expired THEN {} ELSE alternates[h]]]

TimeoutTrigger ==
    /\ timeoutTimer
    /\ \E asg \in Assignments(Expire, Announcers(Expire)) : SetStage23(Assign(Expire, asg))
    /\ UNCHANGED <<waitVars, overdue, timeoutTimer>>

-----------------------------------------------------------------------------
(***************************************************************************)
(* case delivery := <-f.cleanup: the transactions hs of peer p went to the *)
(* pool, as the answer to a request (direct) or as a broadcast.            *)
(***************************************************************************)

(***************************************************************************)
(* All traces of the delivered hashes that are past stage 1 disappear.  A  *)
(* request of another origin (or any request, if this is a broadcast) is   *)
(* told that the hash was delivered by someone else.                       *)
(***************************************************************************)
Cleanup(p, hs, direct) ==
    LET gone == {h \in hs : waitlist[h] = {}}
        stolenFrom(q) == {h \in gone : fetching[h] = q /\ (q # p \/ ~direct)}
    IN  [announces |-> [q \in Peers |-> announces[q] \ gone],
         announced |-> [h \in Hashes |-> IF h \in gone THEN {} ELSE announced[h]],
         fetching |-> [h \in Hashes |-> IF h \in gone THEN None ELSE fetching[h]],
         requests |-> [q \in Peers |->
              IF stolenFrom(q) = {} THEN requests[q]
              ELSE [requests[q] EXCEPT !.stolen = @ \cup stolenFrom(q)]],
         alternates |-> [h \in Hashes |-> IF h \in gone THEN {} ELSE alternates[h]]]

(***************************************************************************)
(* The place of the last delivered hash in the request: what comes before  *)
(* it and is missing the peer does not have, what comes after it may have  *)
(* been cut off.  If nothing is delivered everything is missing.           *)
(***************************************************************************)
Cutoff(req, hs) ==
    LET places == {i \in DOMAIN req.hashes : req.hashes[i] \in hs}
    IN  IF places = {} THEN Len(req.hashes) + 1
        ELSE CHOOSE i \in places : \A j \in places : j <= i

(***************************************************************************)
(* A direct delivery ends p's request: a hash that is missing goes back to *)
(* the queue for the peers that still may have it.                         *)
(***************************************************************************)
Fulfil(s, p, hs) ==
    LET req == s.requests[p]
        left == Undelivered(req)
        missing == left \ hs
        refused == {req.hashes[i] : i \in {j \in DOMAIN req.hashes : j < Cutoff(req, hs)}} \cap missing
        sources(h) == s.alternates[h] \ (IF h \in refused THEN {p} ELSE {})
    IN  [announces |-> [q \in Peers |->
              IF q = p THEN s.announces[q] \ refused ELSE s.announces[q]],
         announced |-> [h \in Hashes |->
              IF h \in missing /\ sources(h) # {} THEN sources(h) ELSE s.announced[h]],
         fetching |-> [h \in Hashes |-> IF h \in left THEN None ELSE s.fetching[h]],
         requests |-> [s.requests EXCEPT ![p] = None],
         alternates |-> [h \in Hashes |-> IF h \in left THEN {} ELSE s.alternates[h]]]

Deliver(p, hs, direct) ==
    LET s == Cleanup(p, hs, direct)
        t == Fulfil(s, p, hs)
    IN  /\ waitlist' = [h \in Hashes |-> IF h \in hs THEN {} ELSE waitlist[h]]
        /\ waitslots' = [q \in Peers |-> waitslots[q] \ {h \in hs : waitlist[h] # {}}]
        /\ waited' = waited \ hs
        /\ UNCHANGED waitTimer
        /\ IF direct /\ requests[p] # None
           THEN ScheduleFetches(t, Announcers(t))
           ELSE NoSchedule(s)

\* Mutant: a dropped peer keeps its announcements.
DropRequestOnly(p) ==
    LET left == IF requests[p] = None THEN {} ELSE Undelivered(requests[p])
    IN  [announces |-> announces,
         announced |-> [h \in Hashes |->
              IF h \in left THEN alternates[h] \ {p} ELSE announced[h]],
         fetching |-> [h \in Hashes |-> IF h \in left THEN None ELSE fetching[h]],
         requests |-> [requests EXCEPT ![p] = None],
         alternates |-> [h \in Hashes |-> IF h \in left THEN {} ELSE alternates[h]]]

(***************************************************************************)
(* case drop := <-f.drop: peer p disconnected, or a request could not be   *)
(* sent to it.  The hashes of its request go back to the queue, and its    *)
(* announcements are forgotten; the alternates of other peers' retrievals  *)
(* keep it.                                                                *)
(***************************************************************************)
DropRequest(p) ==
    LET left == IF requests[p] = None THEN {} ELSE Undelivered(requests[p])
        queue(h) == IF h \in left THEN alternates[h] ELSE announced[h]
    IN  [announces |-> [announces EXCEPT ![p] = {}],
         announced |-> [h \in Hashes |->
              IF h \in left \cup announces[p] THEN queue(h) \ {p} ELSE announced[h]],
         fetching |-> [h \in Hashes |-> IF h \in left THEN None ELSE fetching[h]],
         requests |-> [requests EXCEPT ![p] = None],
         alternates |-> [h \in Hashes |-> IF h \in left THEN {} ELSE alternates[h]]]

Drop(p) ==
    LET s == DropRequest(p)
        rest == [h \in Hashes |-> waitlist[h] \ {p}]
    IN  /\ waitlist' = rest
        /\ waitslots' = [waitslots EXCEPT ![p] = {}]
        /\ waited' = {h \in waited : rest[h] # {}}
        /\ waitTimer' = (waitTimer \/ (waitslots[p] # {} /\ \E h \in Hashes : rest[h] # {}))
        /\ IF requests[p] = None
           THEN NoSchedule(s)
           ELSE \E asg \in Assignments(s, Announcers(s)) :
                   /\ SetStage23(Assign(s, asg))
                   /\ overdue' = overdue \ {p}
                   /\ timeoutTimer' = TRUE

(***************************************************************************)
(* Time passes: a hash has waited, a request is old.                       *)
(***************************************************************************)
WaitElapses(h) ==
    /\ waitlist[h] # {}
    /\ h \notin waited
    /\ waited' = waited \cup {h}
    /\ UNCHANGED <<waitlist, waitslots, waitTimer, fetchVars, overdue, timeoutTimer>>

RequestElapses(p) ==
    /\ requests[p] # None
    /\ p \notin overdue
    /\ overdue' = overdue \cup {p}
    /\ UNCHANGED <<waitVars, fetchVars, timeoutTimer>>

-----------------------------------------------------------------------------
Next ==
    \/ \E p \in Peers, hs \in SUBSET Hashes : Notify(p, hs)
    \/ \E p \in Peers, hs \in SUBSET Hashes, direct \in BOOLEAN : Deliver(p, hs, direct)
    \/ \E p \in Peers : Drop(p) \/ RequestElapses(p)
    \/ \E h \in Hashes : WaitElapses(h)
    \/ WaitTrigger
    \/ TimeoutTrigger

(***************************************************************************)
(* Timers fire and the clock advances; nothing is assumed of the peers.    *)
(***************************************************************************)
Fairness ==
    /\ \A h \in Hashes : WF_vars(WaitElapses(h))
    /\ \A p \in Peers : WF_vars(RequestElapses(p))
    /\ WF_vars(WaitTrigger)
    /\ WF_vars(TimeoutTrigger)

Spec == Init /\ [][Next]_vars /\ Fairness

-----------------------------------------------------------------------------
(***************************************************************************)
(* Each tracked hash is in one of the three stages only, whatever the      *)
(* order of announcements, deliveries, timeouts and drops, and a hash is   *)
(* being retrieved exactly when it has alternates and one peer a request   *)
(* in flight that covers it and nobody stole it from: what the type's      *)
(* comment promises and the panics of loop and scheduleFetches rely on.    *)
(***************************************************************************)
StageExclusive ==
    \A h \in Hashes :
       /\ waitlist[h] # {} => announced[h] = {} /\ fetching[h] = None
       /\ announced[h] # {} => fetching[h] = None
       /\ fetching[h] # None <=> alternates[h] # {}
       /\ \A p \in Peers :
             fetching[h] = p <=> requests[p] # None /\ h \in Undelivered(requests[p])

(***************************************************************************)
(* The per-peer sets that the limit on announcements counts agree with     *)
(* the per-hash sets: a peer's slots of stage 1 are its waiting hashes,    *)
(* and what it occupies of stages 2 and 3 is queued or being retrieved     *)
(* with the peer as a source.  Slots that leak would silence the peer.     *)
(***************************************************************************)
SlotsMatchStages ==
    \A p \in Peers :
       /\ waitslots[p] = {h \in Hashes : p \in waitlist[h]}
       /\ \A h \in announces[p] : p \in announced[h] \cup alternates[h]

(***************************************************************************)
(* A hash is queued although a peer that announced it is idle.             *)
(***************************************************************************)
Idling(h, p) ==
    /\ h \in announces[p]
    /\ fetching[h] = None
    /\ requests[p] = None

(***************************************************************************)
(* A queued hash is not forgotten: it is requested, delivered or given up  *)
(* while a peer that announced it is idle.  Neither an announcement by a   *)
(* known peer nor a broadcast runs a scheduling pass, so this rests on the *)
(* timeout timer being armed again whenever it must.                       *)
(***************************************************************************)
QueuedIsRequested ==
    \A h \in Hashes, p \in Peers : []<>~Idling(h, p)

(***************************************************************************)
(* The fetcher implements TxRetrieval: whatever combination of hashes one  *)
(* event moves, each hash follows its life cycle, is asked for from one    *)
(* peer at a time and only from peers that offered it, and is not waited   *)
(* for for ever.                                                           *)
(***************************************************************************)
Stage(h) ==
    IF waitlist[h] # {} THEN "waiting"
    ELSE IF announced[h] # {} THEN "queued"
    ELSE IF fetching[h] # None THEN "fetching"
    ELSE "unknown"

Retrieval == INSTANCE TxRetrieval WITH
                stage <- [h \in Hashes |-> Stage(h)],
                source <- fetching,
                offers <- [h \in Hashes |-> waitlist[h] \cup announced[h] \cup alternates[h]]

ImplementsRetrieval == Retrieval!Spec

(***************************************************************************)
(* The comment of the drop case: "A peer was dropped, remove all traces of *)
(* it".                                                                    *)
(***************************************************************************)
DropLeavesNoTrace ==
    [][\A p \in Peers : Drop(p) =>
          \A h \in Hashes : p \notin waitlist'[h] \cup announced'[h] \cup alternates'[h]]_vars

(***************************************************************************)
(* maxTxAnnounces "is the maximum number of unique transaction a peer can  *)
(* announce".                                                              *)
(***************************************************************************)
AnnounceLimit == \A p \in Peers : Used(p) <= MaxTxAnnounces
=============================================================================
