--------------------------- MODULE FetcherProofs ---------------------------
(***************************************************************************)
(* The two fetchers.  The transaction fetcher for any peers, hashes and    *)
(* limits: every hash is in one stage, the slots agree with the stages,    *)
(* and every step is a step of TxRetrieval or leaves its variables alone.  *)
(* The block fetcher for any peers, blocks and limits: a queued block is   *)
(* in one place and charged to one peer, and the announcements a peer is   *)
(* charged for are still waiting.                                          *)
(***************************************************************************)
EXTENDS TxFetcher, BlockFetcher, FoldLemmas, SequenceTheorems

-----------------------------------------------------------------------------
(* The transaction fetcher: states and maps.                               *)

(***************************************************************************)
(* The invariant of the maps of stages 2 and 3, as a predicate on a record *)
(* of them and the waitlist beside them: handlers build such records one   *)
(* after the other before they assign them.                                *)
(***************************************************************************)
Typed(s) ==
    /\ s.announces \in [Peers -> SUBSET Hashes]
    /\ s.announced \in [Hashes -> SUBSET Peers]
    /\ s.fetching \in [Hashes -> Peers \cup {None}]
    /\ s.requests \in [Peers -> TxRequest \cup {None}]
    /\ s.alternates \in [Hashes -> SUBSET Peers]

\* The request of a peer covers a hash that nobody else delivered.
Covers(s, p, h) == s.requests[p] # None /\ h \in Undelivered(s.requests[p])

Sound(s, wl) ==
    \A h \in Hashes :
       /\ wl[h] # {} => s.announced[h] = {} /\ s.fetching[h] = None
       /\ s.announced[h] # {} => s.fetching[h] = None
       /\ s.fetching[h] # None <=> s.alternates[h] # {}
       /\ \A p \in Peers : s.fetching[h] = p <=> Covers(s, p, h)
       /\ \A p \in Peers : h \in s.announces[p] => p \in s.announced[h] \cup s.alternates[h]

Maps == [announces |-> announces, announced |-> announced, fetching |-> fetching,
         requests |-> requests, alternates |-> alternates]

WaitSlots == waitslots = [p \in Peers |-> {h \in Hashes : p \in waitlist[h]}]

IInv == TypeOK /\ Sound(Maps, waitlist) /\ WaitSlots

-----------------------------------------------------------------------------
(* Requests *)

\* What a request still covers: all of a new one, nothing of a dangling one, and
\* not what was stolen from it.
LEMMA RequestFacts ==
    /\ \A b : Undelivered([hashes |-> b, stolen |-> {}]) = ToSet(b)
    /\ \A b \in Seq(Hashes) : [hashes |-> b, stolen |-> {}] \in TxRequest
    /\ \A req \in TxRequest :
          /\ Undelivered(req) \subseteq Hashes
          /\ [req EXCEPT !.hashes = <<>>] \in TxRequest
          /\ Undelivered([req EXCEPT !.hashes = <<>>]) = {}
          /\ \A S \in SUBSET Hashes :
                /\ [req EXCEPT !.stolen = @ \cup S] \in TxRequest
                /\ Undelivered([req EXCEPT !.stolen = @ \cup S]) = Undelivered(req) \ S
<1>1. \A b : Undelivered([hashes |-> b, stolen |-> {}]) = ToSet(b)
  BY DEF Undelivered
<1>2. \A b \in Seq(Hashes) : [hashes |-> b, stolen |-> {}] \in TxRequest
  BY DEF TxRequest
<1>3. ASSUME NEW req \in TxRequest
      PROVE  /\ Undelivered(req) \subseteq Hashes
             /\ [req EXCEPT !.hashes = <<>>] \in TxRequest
             /\ Undelivered([req EXCEPT !.hashes = <<>>]) = {}
             /\ \A S \in SUBSET Hashes :
                   /\ [req EXCEPT !.stolen = @ \cup S] \in TxRequest
                   /\ Undelivered([req EXCEPT !.stolen = @ \cup S]) = Undelivered(req) \ S
  <2>1. req.hashes \in Seq(Hashes) /\ req.stolen \subseteq Hashes
    BY DEF TxRequest
  <2>2. Undelivered(req) \subseteq Hashes
    BY <2>1 DEF Undelivered, ToSet
  <2>3. [req EXCEPT !.hashes = <<>>] \in TxRequest
    <3>1. <<>> \in Seq(Hashes)
      OBVIOUS
    <3> QED BY <3>1 DEF TxRequest
  <2>4. Undelivered([req EXCEPT !.hashes = <<>>]) = {}
    BY DEF Undelivered, ToSet, TxRequest
  <2>5. ASSUME NEW S \in SUBSET Hashes
        PROVE  /\ [req EXCEPT !.stolen = @ \cup S] \in TxRequest
               /\ Undelivered([req EXCEPT !.stolen = @ \cup S]) = Undelivered(req) \ S
    BY DEF Undelivered, TxRequest
  <2> QED BY <2>2, <2>3, <2>4, <2>5
<1> QED BY <1>1, <1>2, <1>3

\* A batch is a sequence of the hashes it was made from, and an empty one asks
\* for nothing.
LEMMA BatchFacts ==
    ASSUME NEW hs \in SUBSET Hashes, NEW b \in Batches(hs)
    PROVE  b \in Seq(Hashes) /\ ToSet(b) \subseteq hs /\ (b = <<>> => ToSet(b) = {})
<1>1. PICK m \in 0..MaxTxRetrievals : b \in [1..m -> hs]
  BY DEF Batches, SeqOf
<1>2. m \in Nat
  BY <1>1, FetcherAssumption
<1>3. b \in Seq(Hashes)
  <2>1. b \in [1..m -> Hashes]
    BY <1>1
  <2> QED BY <1>2, <2>1, SeqDef
<1>4. ToSet(b) \subseteq hs
  BY <1>1 DEF ToSet
<1>5. b = <<>> => ToSet(b) = {}
  BY DEF ToSet
<1> QED BY <1>3, <1>4, <1>5

-----------------------------------------------------------------------------
(* A scheduling pass *)

\* What a pass hands out: to each idle peer hashes that it announced and nobody
\* is fetching, and no hash to two peers.
LEMMA AssignmentFacts ==
    ASSUME NEW s, Typed(s), NEW actives \in SUBSET Peers, NEW asg \in Assignments(s, actives)
    PROVE  /\ DOMAIN asg = {p \in actives : s.requests[p] = None}
           /\ \A p \in DOMAIN asg :
                 /\ asg[p] \in Seq(Hashes) /\ (asg[p] = <<>> => ToSet(asg[p]) = {})
                 /\ ToSet(asg[p]) \subseteq Open(s, p)
           /\ \A p, q \in DOMAIN asg : p # q => ToSet(asg[p]) \cap ToSet(asg[q]) = {}
<1> DEFINE idle == {p \in actives : s.requests[p] = None}
           hs == UNION {Open(s, p) : p \in idle}
           left(r, p) == Open(s, p) \ UNION {ToSet(asg[q]) : q \in {o \in idle : r[o] < r[p]}}
<1>1. asg \in [idle -> Batches(hs)]
  BY DEF Assignments
<1>2. hs \in SUBSET Hashes
  BY DEF Typed, Open
<1>3. PICK r \in [idle -> 1..Cardinality(idle)] :
         IsInjective(r) /\ \A p \in idle : ToSet(asg[p]) \subseteq left(r, p)
  BY DEF Assignments
<1>4. ASSUME NEW p \in idle
      PROVE  /\ asg[p] \in Seq(Hashes) /\ (asg[p] = <<>> => ToSet(asg[p]) = {})
             /\ ToSet(asg[p]) \subseteq Open(s, p)
  <2>1. asg[p] \in Batches(hs)
    BY <1>1
  <2>2. ToSet(asg[p]) \subseteq left(r, p) /\ left(r, p) \subseteq Open(s, p)
    BY <1>3
  <2> HIDE DEF hs
  <2> QED BY <1>2, <2>1, <2>2, BatchFacts
<1>5. ASSUME NEW p \in idle, NEW q \in idle, p # q
      PROVE  ToSet(asg[p]) \cap ToSet(asg[q]) = {}
  <2>1. r[p] # r[q] /\ r[p] \in Int /\ r[q] \in Int
    BY <1>3, <1>5 DEF IsInjective
  <2>2. CASE r[p] < r[q]
    BY <1>3, <1>5, <2>2
  <2>3. CASE r[q] < r[p]
    BY <1>3, <1>5, <2>3
  <2> QED BY <2>1, <2>2, <2>3
<1> QED BY <1>1, <1>4, <1>5

\* A pass moves a hash from the queue to the peer that is asked for it, or leaves
\* it where it is.
Asked(s, t, h) ==
    /\ s.announced[h] # {} /\ t.announced[h] = {}
    /\ t.alternates[h] = s.announced[h] /\ t.fetching[h] \in s.announced[h]

SameStage(s, t, h) ==
    /\ t.announced[h] = s.announced[h] /\ t.fetching[h] = s.fetching[h]
    /\ t.alternates[h] = s.alternates[h]

\* A pass keeps the maps sound.
LEMMA AssignSound ==
    ASSUME NEW s, NEW wl, Typed(s), Sound(s, wl),
           NEW actives \in SUBSET Peers, NEW asg \in Assignments(s, actives)
    PROVE  /\ Typed(Assign(s, asg)) /\ Sound(Assign(s, asg), wl)
           /\ \A h \in Hashes : Asked(s, Assign(s, asg), h) \/ SameStage(s, Assign(s, asg), h)
           /\ \A p \in Peers : s.requests[p] # None => Assign(s, asg).requests[p] # None
<1> DEFINE idle == {p \in actives : s.requests[p] = None}
           batch(p) == ToSet(asg[p])
           taken == UNION {batch(p) : p \in idle}
           taker(h) == CHOOSE p \in idle : h \in batch(p)
           t == Assign(s, asg)
<1>1. /\ DOMAIN asg = idle /\ idle \subseteq Peers
      /\ \A p \in idle : asg[p] \in Seq(Hashes) /\ (asg[p] = <<>> => batch(p) = {})
      /\ \A p \in idle : batch(p) \subseteq Open(s, p)
      /\ \A p, q \in idle : p # q => batch(p) \cap batch(q) = {}
  <2> HIDE DEF taken, t
  <2>1. DOMAIN asg = idle
    BY AssignmentFacts
  <2>2. \A p \in idle : asg[p] \in Seq(Hashes) /\ (asg[p] = <<>> => batch(p) = {})
                        /\ batch(p) \subseteq Open(s, p)
    <3>1. \A p \in DOMAIN asg : /\ asg[p] \in Seq(Hashes) /\ (asg[p] = <<>> => ToSet(asg[p]) = {})
                                /\ ToSet(asg[p]) \subseteq Open(s, p)
      BY AssignmentFacts
    <3> QED BY <2>1, <3>1
  <2>3. \A p, q \in idle : p # q => batch(p) \cap batch(q) = {}
    <3>1. \A p, q \in DOMAIN asg : p # q => ToSet(asg[p]) \cap ToSet(asg[q]) = {}
      BY AssignmentFacts
    <3> QED BY <2>1, <3>1
  <2> QED BY <2>1, <2>2, <2>3
<1>2. /\ t.announces = s.announces
      /\ t.announced = [h \in Hashes |-> IF h \in taken THEN {} ELSE s.announced[h]]
      /\ t.fetching = [h \in Hashes |-> IF h \in taken THEN taker(h) ELSE s.fetching[h]]
      /\ t.requests = [p \in Peers |-> IF p \in idle /\ asg[p] # <<>>
                                      THEN [hashes |-> asg[p], stolen |-> {}] ELSE s.requests[p]]
      /\ t.alternates = [h \in Hashes |-> IF h \in taken THEN s.announced[h] ELSE s.alternates[h]]
  BY <1>1 DEF Assign
<1> HIDE DEF t
<1>3. ASSUME NEW p \in Peers, NEW h \in Hashes
      PROVE  Covers(t, p, h) <=> (p \in idle /\ h \in batch(p)) \/ Covers(s, p, h)
  <2>1. CASE p \in idle /\ asg[p] # <<>>
    <3>1. t.requests[p] = [hashes |-> asg[p], stolen |-> {}] /\ s.requests[p] = None
      BY <1>2, <2>1
    <3>2. [hashes |-> asg[p], stolen |-> {}] # None
      BY <1>1, <2>1, RequestFacts, FetcherAssumption
    <3>3. Undelivered(t.requests[p]) = batch(p)
      BY <3>1, RequestFacts
    <3> QED BY <2>1, <3>1, <3>2, <3>3 DEF Covers
  <2>2. CASE ~(p \in idle /\ asg[p] # <<>>)
    BY <1>1, <1>2, <2>2 DEF Covers
  <2> QED BY <2>1, <2>2
<1>4. ASSUME NEW p \in idle, NEW h \in batch(p)
      PROVE  /\ h \in Hashes /\ h \in taken /\ taker(h) = p
             /\ s.fetching[h] = None /\ s.alternates[h] = {} /\ p \in s.announced[h]
  <2>1. h \in s.announces[p] /\ s.fetching[h] = None /\ h \in Hashes /\ p \in Peers
    BY <1>1 DEF Open, Typed
  <2>2. taker(h) = p
    <3>1. \A q \in idle : h \in batch(q) => q = p
      BY <1>1
    <3> QED BY <3>1
  <2>3. s.alternates[h] = {} /\ p \in s.announced[h]
    BY <2>1 DEF Sound
  <2> QED BY <2>1, <2>2, <2>3
<1>5. \A h \in taken : taker(h) \in idle /\ h \in batch(taker(h)) /\ h \in Hashes
  BY <1>4
<1> HIDE DEF taken, taker, batch, idle
<1>6. Typed(t)
  <2>1. \A p \in idle : asg[p] # <<>> => [hashes |-> asg[p], stolen |-> {}] \in TxRequest
    BY <1>1, RequestFacts
  <2>2. t.fetching \in [Hashes -> Peers \cup {None}]
    BY <1>1, <1>2, <1>5 DEF Typed
  <2>3. t.requests \in [Peers -> TxRequest \cup {None}]
    BY <1>2, <2>1 DEF Typed
  <2>4. t.announced \in [Hashes -> SUBSET Peers] /\ t.alternates \in [Hashes -> SUBSET Peers]
    BY <1>2 DEF Typed
  <2> QED BY <1>2, <2>2, <2>3, <2>4 DEF Typed
<1>7. \A h \in taken : Asked(s, t, h) /\ t.fetching[h] \in Peers /\ wl[h] = {}
  <2> SUFFICES ASSUME NEW h \in taken
               PROVE  Asked(s, t, h) /\ t.fetching[h] \in Peers /\ wl[h] = {}
    OBVIOUS
  <2>1. taker(h) \in idle /\ h \in batch(taker(h)) /\ h \in Hashes
    BY <1>5
  <2>2. s.fetching[h] = None /\ taker(h) \in s.announced[h]
    BY <1>4, <2>1
  <2>3. wl[h] = {}
    BY <2>1, <2>2 DEF Sound
  <2> QED BY <1>1, <1>2, <2>1, <2>2, <2>3 DEF Asked
<1>8. \A h \in Hashes \ taken : SameStage(s, t, h)
  BY <1>2 DEF SameStage
<1>9. ASSUME NEW h \in Hashes
      PROVE  /\ wl[h] # {} => t.announced[h] = {} /\ t.fetching[h] = None
             /\ t.announced[h] # {} => t.fetching[h] = None
             /\ t.fetching[h] # None <=> t.alternates[h] # {}
             /\ \A p \in Peers : t.fetching[h] = p <=> Covers(t, p, h)
             /\ \A p \in Peers : h \in t.announces[p] => p \in t.announced[h] \cup t.alternates[h]
  <2>1. CASE h \in taken
    <3>1. /\ wl[h] = {} /\ t.announced[h] = {} /\ t.alternates[h] = s.announced[h]
          /\ t.alternates[h] # {} /\ t.fetching[h] = taker(h) /\ t.fetching[h] \in Peers
      BY <1>2, <1>7, <2>1 DEF Asked
    <3>2. s.fetching[h] = None /\ s.alternates[h] = {}
      BY <1>4, <1>5, <2>1
    <3>3. \A p \in Peers : ~Covers(s, p, h)
      BY <3>2, FetcherAssumption DEF Sound
    <3>4. \A p \in Peers : taker(h) = p <=> p \in idle /\ h \in batch(p)
      BY <1>4, <1>5, <2>1
    <3>5. \A p \in Peers : t.fetching[h] = p <=> Covers(t, p, h)
      BY <1>3, <3>1, <3>3, <3>4
    <3>6. \A p \in Peers : h \in s.announces[p] => p \in s.announced[h]
      BY <3>2 DEF Sound
    <3> QED BY <1>2, <3>1, <3>5, <3>6, FetcherAssumption
  <2>2. CASE h \notin taken
    <3>1. SameStage(s, t, h)
      BY <1>8, <2>2
    <3>2. \A p \in idle : h \notin batch(p)
      BY <1>4, <2>2
    <3>3. \A p \in Peers : Covers(t, p, h) <=> Covers(s, p, h)
      BY <1>3, <3>2
    <3> QED BY <1>2, <3>1, <3>3 DEF SameStage, Sound
  <2> QED BY <2>1, <2>2
<1>10. Sound(t, wl)
  BY <1>9 DEF Sound
<1>11. \A p \in Peers : s.requests[p] # None => t.requests[p] # None
  BY <1>2 DEF idle
<1> QED BY <1>6, <1>7, <1>8, <1>10, <1>11 DEF t

-----------------------------------------------------------------------------
(* The handlers before they schedule *)

\* How a handler may change the maps before a pass: offers come from the peers in
\* P only, a hash is queued only if it was known, a retrieval goes on with the
\* same peer or ends, and only an unknown hash begins to wait.
Handled(s, wl, P) ==
    \A h \in Hashes :
       /\ wl[h] \cup s.announced[h] \cup s.alternates[h] \subseteq
             waitlist[h] \cup announced[h] \cup alternates[h] \cup P
       /\ s.announced[h] # {} => waitlist[h] # {} \/ announced[h] # {} \/ fetching[h] # None
       /\ s.fetching[h] # None => s.fetching[h] = fetching[h]
       /\ wl[h] # {} => waitlist[h] # {} \/ (announced[h] = {} /\ fetching[h] = None)

\* The invariant about the variables themselves.
LEMMA MapsFacts ==
    ASSUME IInv
    PROVE  /\ Typed(Maps)
           /\ \A h \in Hashes :
                 /\ waitlist[h] # {} => announced[h] = {} /\ fetching[h] = None
                 /\ announced[h] # {} => fetching[h] = None
                 /\ fetching[h] # None <=> alternates[h] # {}
                 /\ \A p \in Peers :
                       fetching[h] = p <=> requests[p] # None /\ h \in Undelivered(requests[p])
                 /\ \A p \in Peers : h \in announces[p] => p \in announced[h] \cup alternates[h]
BY DEF IInv, TypeOK, Typed, Sound, Covers, Maps

\* An announcement joins the stage of each hash.
LEMMA JoinSound ==
    ASSUME IInv, NEW p \in Peers, NEW ks \in SUBSET Hashes, NEW wl,
           NEW third, third = {h \in ks : alternates[h] # {}},
           NEW second, second = {h \in ks \ third : announced[h] # {}},
           wl = [h \in Hashes |-> IF h \in ks \ (third \cup second) THEN waitlist[h] \cup {p}
                                  ELSE waitlist[h]]
    PROVE  /\ Typed(Join(p, third, second)) /\ Sound(Join(p, third, second), wl)
           /\ Handled(Join(p, third, second), wl, {p})
<1> DEFINE s == Join(p, third, second)
<1>1. /\ s.announces = [announces EXCEPT ![p] = @ \cup third \cup second]
      /\ s.announced = [h \in Hashes |->
                          IF h \in second THEN announced[h] \cup {p} ELSE announced[h]]
      /\ s.fetching = fetching /\ s.requests = requests
      /\ s.alternates = [h \in Hashes |->
                           IF h \in third THEN alternates[h] \cup {p} ELSE alternates[h]]
  BY DEF Join
<1> HIDE DEF s
<1>2. third \subseteq Hashes /\ second \subseteq Hashes
  OBVIOUS
<1>3. Typed(s)
  BY <1>1, <1>2, MapsFacts DEF Typed, Maps
<1>4. \A q \in Peers, h \in Hashes :
         h \in s.announces[q] => h \in announces[q] \/ (q = p /\ h \in third \cup second)
  BY <1>1, MapsFacts DEF Typed, Maps
<1>5. Sound(s, wl)
  <2> SUFFICES ASSUME NEW h \in Hashes
               PROVE  /\ wl[h] # {} => s.announced[h] = {} /\ s.fetching[h] = None
                      /\ s.announced[h] # {} => s.fetching[h] = None
                      /\ s.fetching[h] # None <=> s.alternates[h] # {}
                      /\ \A q \in Peers : s.fetching[h] = q <=> Covers(s, q, h)
                      /\ \A q \in Peers :
                            h \in s.announces[q] => q \in s.announced[h] \cup s.alternates[h]
    BY DEF Sound
  <2>1. \A q \in Peers : s.fetching[h] = q <=> Covers(s, q, h)
    BY <1>1, MapsFacts DEF Covers
  <2>2. \A q \in Peers : h \in s.announces[q] => q \in s.announced[h] \cup s.alternates[h]
    BY <1>1, <1>4, MapsFacts
  <2> QED BY <1>1, <2>1, <2>2, MapsFacts
<1>6. Handled(s, wl, {p})
  BY <1>1, MapsFacts DEF Handled
<1> QED BY <1>3, <1>5, <1>6 DEF s

\* The hashes whose wait is over are queued.
LEMMA QueueWaitedSound ==
    ASSUME IInv, NEW wl, wl = [h \in Hashes |-> IF h \in waited THEN {} ELSE waitlist[h]]
    PROVE  Typed(QueueWaited) /\ Sound(QueueWaited, wl) /\ Handled(QueueWaited, wl, {})
<1> DEFINE s == QueueWaited
<1>1. /\ s.announces = [p \in Peers |-> announces[p] \cup {h \in waited : p \in waitlist[h]}]
      /\ s.announced = [h \in Hashes |-> IF h \in waited THEN waitlist[h] ELSE announced[h]]
      /\ s.fetching = fetching /\ s.requests = requests /\ s.alternates = alternates
  BY DEF QueueWaited
<1> HIDE DEF s
<1>2. /\ waited \subseteq Hashes /\ waitlist \in [Hashes -> SUBSET Peers]
      /\ \A h \in waited : waitlist[h] # {}
  BY DEF IInv, TypeOK
<1>3. Typed(s)
  BY <1>1, <1>2, MapsFacts DEF Typed, Maps
<1>4. Sound(s, wl)
  <2> SUFFICES ASSUME NEW h \in Hashes
               PROVE  /\ wl[h] # {} => s.announced[h] = {} /\ s.fetching[h] = None
                      /\ s.announced[h] # {} => s.fetching[h] = None
                      /\ s.fetching[h] # None <=> s.alternates[h] # {}
                      /\ \A q \in Peers : s.fetching[h] = q <=> Covers(s, q, h)
                      /\ \A q \in Peers :
                            h \in s.announces[q] => q \in s.announced[h] \cup s.alternates[h]
    BY DEF Sound
  <2>1. \A q \in Peers : s.fetching[h] = q <=> Covers(s, q, h)
    BY <1>1, MapsFacts DEF Covers
  <2> QED BY <1>1, <1>2, <2>1, MapsFacts
<1>5. Handled(s, wl, {})
  BY <1>1, <1>2, MapsFacts DEF Handled
<1> QED BY <1>3, <1>4, <1>5 DEF s

\* The hashes of overdue requests go back to the queue.
LEMMA ExpireSound ==
    ASSUME IInv
    PROVE  /\ Typed(Expire) /\ Sound(Expire, waitlist) /\ Handled(Expire, waitlist, {})
           /\ \A p \in Peers : requests[p] # None => Expire.requests[p] # None
<1> DEFINE s == Expire
           late(p) == Undelivered(requests[p])
           expired == {h \in Hashes : \E p \in overdue : h \in late(p)}
<1>1. /\ s.announces = [p \in Peers |-> IF p \in overdue THEN announces[p] \ late(p)
                                       ELSE announces[p]]
      /\ s.announced = [h \in Hashes |-> IF h \in expired
                            THEN alternates[h] \ {p \in overdue : h \in late(p)}
                            ELSE announced[h]]
      /\ s.fetching = [h \in Hashes |-> IF h \in expired THEN None ELSE fetching[h]]
      /\ s.requests = [p \in Peers |-> IF p \in overdue THEN [requests[p] EXCEPT !.hashes = <<>>]
                                      ELSE requests[p]]
      /\ s.alternates = [h \in Hashes |-> IF h \in expired THEN {} ELSE alternates[h]]
  BY DEF Expire
<1> HIDE DEF s
<1>2. overdue \subseteq Peers /\ \A p \in overdue : requests[p] # None /\ requests[p] \in TxRequest
  BY DEF IInv, TypeOK
<1>3. \A p \in overdue : /\ s.requests[p] \in TxRequest /\ Undelivered(s.requests[p]) = {}
                          /\ s.requests[p] # None
  BY <1>1, <1>2, RequestFacts, FetcherAssumption
<1>4. \A p \in Peers \ overdue : s.requests[p] = requests[p]
  BY <1>1
<1>5. \A p \in overdue, h \in Hashes : h \in late(p) <=> fetching[h] = p
  BY <1>2, MapsFacts
<1>6. Typed(s)
  <2>1. s.requests \in [Peers -> TxRequest \cup {None}]
    <3>1. \A p \in Peers : s.requests[p] \in TxRequest \cup {None}
      BY <1>3, <1>4, MapsFacts DEF Typed, Maps
    <3> QED BY <1>1, <3>1
  <2>2. s.announced \in [Hashes -> SUBSET Peers] /\ s.alternates \in [Hashes -> SUBSET Peers]
    BY <1>1, MapsFacts DEF Typed, Maps
  <2>3. s.announces \in [Peers -> SUBSET Hashes] /\ s.fetching \in [Hashes -> Peers \cup {None}]
    BY <1>1, MapsFacts DEF Typed, Maps
  <2> QED BY <2>1, <2>2, <2>3 DEF Typed
<1>7. ASSUME NEW h \in Hashes
      PROVE  /\ waitlist[h] # {} => s.announced[h] = {} /\ s.fetching[h] = None
             /\ s.announced[h] # {} => s.fetching[h] = None
             /\ s.fetching[h] # None <=> s.alternates[h] # {}
             /\ \A q \in Peers : s.fetching[h] = q <=> Covers(s, q, h)
             /\ \A q \in Peers : h \in s.announces[q] => q \in s.announced[h] \cup s.alternates[h]
  <2>1. CASE h \in expired
    <3>1. PICK p \in overdue : h \in late(p) /\ fetching[h] = p /\ p \in Peers
      BY <1>2, <1>5, <2>1
    <3>2. /\ s.announced[h] = alternates[h] \ {p} /\ s.fetching[h] = None
          /\ s.alternates[h] = {} /\ waitlist[h] = {} /\ announced[h] = {}
      BY <1>1, <1>5, <2>1, <3>1, MapsFacts, FetcherAssumption
    <3>3. \A q \in Peers : ~Covers(s, q, h)
      BY <1>3, <1>4, <3>1, MapsFacts DEF Covers
    <3>4. \A q \in Peers : h \in s.announces[q] => q # p /\ h \in announces[q]
      BY <1>1, <3>1
    <3> QED BY <3>2, <3>3, <3>4, MapsFacts, FetcherAssumption
  <2>2. CASE h \notin expired
    <3>1. /\ s.announced[h] = announced[h] /\ s.fetching[h] = fetching[h]
          /\ s.alternates[h] = alternates[h] /\ \A q \in Peers : s.announces[q] \subseteq announces[q]
      BY <1>1, <2>2
    <3>2. fetching[h] \notin overdue
      BY <1>5, <2>2
    <3>3. \A q \in Peers : fetching[h] = q <=> Covers(s, q, h)
      BY <1>3, <1>4, <3>2, MapsFacts DEF Covers
    <3> QED BY <3>1, <3>3, MapsFacts
  <2> QED BY <2>1, <2>2
<1>8. Sound(s, waitlist)
  BY <1>7 DEF Sound
<1>9. Handled(s, waitlist, {})
  BY <1>1, <1>2, <1>5, MapsFacts, FetcherAssumption DEF Handled
<1> QED BY <1>3, <1>4, <1>6, <1>8, <1>9 DEF s

\* The hashes of a delivery that are past stage 1, and what is stolen from q.
Gone(hs) == {h \in hs : waitlist[h] = {}}
Stolen(q, p, hs, direct) == {h \in Gone(hs) : fetching[h] = q /\ (q # p \/ ~direct)}

\* What Cleanup leaves behind, whoever delivered.
Cleaned(s, p, hs, direct) ==
    /\ Typed(s)
    /\ \A q \in Peers : s.announces[q] = announces[q] \ Gone(hs)
    /\ \A h \in Gone(hs) : s.announced[h] = {} /\ s.fetching[h] = None /\ s.alternates[h] = {}
    /\ \A h \in Hashes \ Gone(hs) : /\ s.announced[h] = announced[h]
                                    /\ s.fetching[h] = fetching[h]
                                    /\ s.alternates[h] = alternates[h]
    /\ \A q \in Peers : s.requests[q] # None <=> requests[q] # None
    /\ \A q \in Peers, h \in Hashes :
          Covers(s, q, h) <=> fetching[h] = q /\ h \notin Stolen(q, p, hs, direct)

\* Cleanup does what Cleaned says.
LEMMA CleanupFacts ==
    ASSUME IInv, NEW p \in Peers, NEW hs \in SUBSET Hashes, NEW direct \in BOOLEAN
    PROVE  Cleaned(Cleanup(p, hs, direct), p, hs, direct)
<1> DEFINE s == Cleanup(p, hs, direct)
           stolen(q) == Stolen(q, p, hs, direct)
<1>1. /\ s.announces = [q \in Peers |-> announces[q] \ Gone(hs)]
      /\ s.announced = [h \in Hashes |-> IF h \in Gone(hs) THEN {} ELSE announced[h]]
      /\ s.fetching = [h \in Hashes |-> IF h \in Gone(hs) THEN None ELSE fetching[h]]
      /\ s.alternates = [h \in Hashes |-> IF h \in Gone(hs) THEN {} ELSE alternates[h]]
      /\ s.requests = [q \in Peers |-> IF stolen(q) = {} THEN requests[q]
                                      ELSE [requests[q] EXCEPT !.stolen = @ \cup stolen(q)]]
  BY DEF Cleanup, Gone, Stolen
<1>2. \A q \in Peers : stolen(q) \in SUBSET Hashes
  BY DEF Stolen, Gone
<1>3. \A q \in Peers : requests[q] = None => stolen(q) = {}
  BY MapsFacts DEF Stolen, Gone
<1>g. Gone(hs) \subseteq Hashes
  BY DEF Gone
<1> HIDE DEF stolen, s
<1>4. ASSUME NEW q \in Peers, requests[q] # None
      PROVE  /\ s.requests[q] \in TxRequest /\ s.requests[q] # None
             /\ Undelivered(s.requests[q]) = Undelivered(requests[q]) \ stolen(q)
  <2>1. requests[q] \in TxRequest
    BY <1>4, MapsFacts DEF Typed, Maps
  <2>2. CASE stolen(q) = {}
    <3>1. s.requests[q] = requests[q]
      BY <1>1, <2>2
    <3> QED BY <1>4, <2>1, <2>2, <3>1
  <2>3. CASE stolen(q) # {}
    <3>1. s.requests[q] = [requests[q] EXCEPT !.stolen = @ \cup stolen(q)]
      BY <1>1, <2>3
    <3> DEFINE req == requests[q]
               S   == stolen(q)
    <3>2. req \in TxRequest /\ S \in SUBSET Hashes
      BY <1>2, <2>1
    <3>3. s.requests[q] = [req EXCEPT !.stolen = @ \cup S]
      BY <3>1
    <3> HIDE DEF req, S
    <3>4. /\ s.requests[q] \in TxRequest
          /\ Undelivered(s.requests[q]) = Undelivered(req) \ S
      BY <3>2, <3>3 DEF Undelivered, TxRequest
    <3> QED BY <3>4, FetcherAssumption DEF req, S
  <2> QED BY <2>2, <2>3
<1>5. \A q \in Peers : requests[q] = None => s.requests[q] = None
  BY <1>1, <1>3
<1>6. Typed(s)
  <2>1. \A q \in Peers : s.requests[q] \in TxRequest \cup {None}
    BY <1>4, <1>5
  <2>2. s.requests \in [Peers -> TxRequest \cup {None}]
    BY <1>1, <2>1
  <2>3. s.announced \in [Hashes -> SUBSET Peers] /\ s.alternates \in [Hashes -> SUBSET Peers]
    BY <1>1, MapsFacts DEF Typed, Maps
  <2>4. s.announces \in [Peers -> SUBSET Hashes] /\ s.fetching \in [Hashes -> Peers \cup {None}]
    BY <1>1, MapsFacts DEF Typed, Maps
  <2> QED BY <2>2, <2>3, <2>4 DEF Typed
<1>7. ASSUME NEW q \in Peers, NEW h \in Hashes
      PROVE  Covers(s, q, h) <=> fetching[h] = q /\ h \notin stolen(q)
  <2>1. fetching[h] = q <=> requests[q] # None /\ h \in Undelivered(requests[q])
    BY MapsFacts
  <2> QED BY <1>4, <1>5, <2>1 DEF Covers
<1>8. \A q \in Peers : s.requests[q] # None <=> requests[q] # None
  BY <1>4, <1>5
<1>9. /\ \A q \in Peers : s.announces[q] = announces[q] \ Gone(hs)
      /\ \A h \in Gone(hs) : s.announced[h] = {} /\ s.fetching[h] = None /\ s.alternates[h] = {}
      /\ \A h \in Hashes \ Gone(hs) : /\ s.announced[h] = announced[h]
                                      /\ s.fetching[h] = fetching[h]
                                      /\ s.alternates[h] = alternates[h]
  BY <1>1, <1>g
<1>10. Cleaned(s, p, hs, direct)
  BY <1>6, <1>7, <1>8, <1>9 DEF Cleaned, stolen
<1> QED BY <1>10 DEF s

\* A broadcast, or an answer nobody waits for: the hashes are forgotten, and the
\* requests that cover them are told.
LEMMA CleanupSound ==
    ASSUME IInv, NEW p \in Peers, NEW hs \in SUBSET Hashes, NEW direct \in BOOLEAN,
           ~(direct /\ requests[p] # None),
           NEW wl, wl = [h \in Hashes |-> IF h \in hs THEN {} ELSE waitlist[h]]
    PROVE  /\ Typed(Cleanup(p, hs, direct)) /\ Sound(Cleanup(p, hs, direct), wl)
           /\ Handled(Cleanup(p, hs, direct), wl, {})
<1> DEFINE s == Cleanup(p, hs, direct)
<1>1. Cleaned(s, p, hs, direct)
  BY CleanupFacts
<1> HIDE DEF s
<1>2. ASSUME NEW h \in Hashes, NEW q \in Peers
      PROVE  Covers(s, q, h) <=> fetching[h] = q /\ h \notin Gone(hs)
  <2>1. Covers(s, q, h) <=> fetching[h] = q /\ h \notin Stolen(q, p, hs, direct)
    BY <1>1 DEF Cleaned
  <2>2. fetching[h] = q => (h \in Stolen(q, p, hs, direct) <=> h \in Gone(hs))
    BY MapsFacts DEF Stolen
  <2> QED BY <2>1, <2>2
<1>3. ASSUME NEW h \in Hashes
      PROVE  /\ wl[h] # {} => s.announced[h] = {} /\ s.fetching[h] = None
             /\ s.announced[h] # {} => s.fetching[h] = None
             /\ s.fetching[h] # None <=> s.alternates[h] # {}
             /\ \A q \in Peers : s.fetching[h] = q <=> Covers(s, q, h)
             /\ \A q \in Peers : h \in s.announces[q] => q \in s.announced[h] \cup s.alternates[h]
             /\ s.announced[h] \cup s.alternates[h] \subseteq announced[h] \cup alternates[h]
             /\ s.fetching[h] # None => s.fetching[h] = fetching[h]
             /\ wl[h] \subseteq waitlist[h]
  <2>1. CASE h \in Gone(hs)
    <3>1. /\ s.announced[h] = {} /\ s.fetching[h] = None /\ s.alternates[h] = {}
          /\ \A q \in Peers : h \notin s.announces[q]
      BY <1>1, <2>1 DEF Cleaned
    <3>2. wl[h] = {}
      BY <2>1 DEF Gone
    <3> QED BY <1>2, <2>1, <3>1, <3>2, FetcherAssumption
  <2>2. CASE h \notin Gone(hs)
    <3>1. /\ s.announced[h] = announced[h] /\ s.fetching[h] = fetching[h]
          /\ s.alternates[h] = alternates[h]
          /\ \A q \in Peers : h \in s.announces[q] => h \in announces[q]
      BY <1>1, <2>2 DEF Cleaned
    <3>2. wl[h] \subseteq waitlist[h]
      OBVIOUS
    <3> QED BY <1>2, <2>2, <3>1, <3>2, MapsFacts
  <2> QED BY <2>1, <2>2
<1>4. Typed(s) /\ Sound(s, wl)
  BY <1>1, <1>3 DEF Sound, Cleaned
<1>5. Handled(s, wl, {})
  BY <1>3, MapsFacts DEF Handled
<1> QED BY <1>4, <1>5 DEF s

\* The answer to p's request: what is missing goes back to the queue, unless
\* nobody is left who offers it, and the request is over.
LEMMA FulfilSound ==
    ASSUME IInv, NEW p \in Peers, NEW hs \in SUBSET Hashes, requests[p] # None,
           NEW wl, wl = [h \in Hashes |-> IF h \in hs THEN {} ELSE waitlist[h]],
           NEW s, Cleaned(s, p, hs, TRUE)
    PROVE  /\ Typed(Fulfil(s, p, hs)) /\ Sound(Fulfil(s, p, hs), wl)
           /\ Handled(Fulfil(s, p, hs), wl, {})
           /\ \A q \in Peers : q # p /\ requests[q] # None => Fulfil(s, p, hs).requests[q] # None
<1> DEFINE left == Undelivered(s.requests[p])
           missing == left \ hs
           refused == {s.requests[p].hashes[i] :
                         i \in {j \in DOMAIN s.requests[p].hashes : j < Cutoff(s.requests[p], hs)}}
                         \cap missing
           sources(h) == s.alternates[h] \ (IF h \in refused THEN {p} ELSE {})
           t == Fulfil(s, p, hs)
<1>1. /\ t.announces = [q \in Peers |-> IF q = p THEN s.announces[q] \ refused ELSE s.announces[q]]
      /\ t.announced = [h \in Hashes |->
            IF h \in missing /\ sources(h) # {} THEN sources(h) ELSE s.announced[h]]
      /\ t.fetching = [h \in Hashes |-> IF h \in left THEN None ELSE s.fetching[h]]
      /\ t.requests = [s.requests EXCEPT ![p] = None]
      /\ t.alternates = [h \in Hashes |-> IF h \in left THEN {} ELSE s.alternates[h]]
  BY DEF Fulfil
<1> HIDE DEF t
<1>2. Typed(s)
  BY DEF Cleaned
<1>3. refused \subseteq missing /\ missing = left \ hs
  OBVIOUS
<1>4. \A h \in Hashes : h \in left <=> fetching[h] = p
  <2>1. \A h \in Hashes : Covers(s, p, h) <=> fetching[h] = p
    BY DEF Cleaned, Stolen
  <2>2. s.requests[p] # None
    BY DEF Cleaned
  <2> QED BY <2>1, <2>2 DEF Covers
<1> HIDE DEF left
<1>5. \A h \in Hashes : h \in missing <=> fetching[h] = p /\ h \notin Gone(hs)
  BY <1>4, MapsFacts, FetcherAssumption DEF Gone
<1> HIDE DEF missing, refused
<1>6. \A q \in Peers : t.requests[q] = IF q = p THEN None ELSE s.requests[q]
  BY <1>1, <1>2 DEF Typed
<1>7. ASSUME NEW h \in Hashes, NEW q \in Peers
      PROVE  Covers(t, q, h) <=> q # p /\ fetching[h] = q /\ h \notin Gone(hs)
  <2>1. CASE q = p
    BY <1>6, <2>1 DEF Covers
  <2>2. CASE q # p
    <3>1. Covers(t, q, h) <=> Covers(s, q, h)
      BY <1>6, <2>2 DEF Covers
    <3> QED BY <2>2, <3>1 DEF Cleaned, Stolen
  <2> QED BY <2>1, <2>2
<1>8. Typed(t)
  <2>1. t.announces \in [Peers -> SUBSET Hashes]
    BY <1>1, <1>2 DEF Typed
  <2>2. t.fetching \in [Hashes -> Peers \cup {None}]
    BY <1>1, <1>2 DEF Typed
  <2>3. t.announced \in [Hashes -> SUBSET Peers]
    <3>1. \A h \in Hashes : t.announced[h] \in SUBSET Peers
      BY <1>1, <1>2 DEF Typed
    <3> QED BY <1>1, <3>1
  <2>4. t.alternates \in [Hashes -> SUBSET Peers]
    BY <1>1, <1>2 DEF Typed
  <2>5. t.requests \in [Peers -> TxRequest \cup {None}]
    BY <1>1, <1>2 DEF Typed
  <2> QED BY <2>1, <2>2, <2>3, <2>4, <2>5 DEF Typed
<1>9. ASSUME NEW h \in Hashes
      PROVE  /\ wl[h] # {} => t.announced[h] = {} /\ t.fetching[h] = None
             /\ t.announced[h] # {} => t.fetching[h] = None
             /\ t.fetching[h] # None <=> t.alternates[h] # {}
             /\ \A q \in Peers : t.fetching[h] = q <=> Covers(t, q, h)
             /\ \A q \in Peers : h \in t.announces[q] => q \in t.announced[h] \cup t.alternates[h]
             /\ t.announced[h] \cup t.alternates[h] \subseteq announced[h] \cup alternates[h]
             /\ t.announced[h] # {} => announced[h] # {} \/ fetching[h] # None
             /\ t.fetching[h] # None => t.fetching[h] = fetching[h]
  <2>1. CASE h \in Gone(hs)
    <3>1. /\ t.announced[h] = {} /\ t.fetching[h] = None /\ t.alternates[h] = {}
          /\ \A q \in Peers : h \notin t.announces[q]
      <4>1. h \in Hashes /\ h \notin missing
        BY <1>5, <2>1
      <4>2. s.announced[h] = {} /\ s.fetching[h] = None /\ s.alternates[h] = {}
        BY <2>1 DEF Cleaned
      <4>3. \A q \in Peers : h \notin s.announces[q]
        BY <2>1 DEF Cleaned
      <4> QED BY <1>1, <4>1, <4>2, <4>3
    <3> QED BY <1>7, <2>1, <3>1, FetcherAssumption
  <2>2. CASE h \notin Gone(hs) /\ fetching[h] = p
    <3>1. /\ h \in missing /\ h \in left /\ announced[h] = {} /\ waitlist[h] = {}
          /\ s.announced[h] = {} /\ s.alternates[h] = alternates[h]
      BY <1>4, <1>5, <2>2, MapsFacts, FetcherAssumption DEF Cleaned
    <3>2. t.announced[h] = sources(h) /\ t.fetching[h] = None /\ t.alternates[h] = {}
      BY <1>1, <3>1
    <3>3. \A q \in Peers : h \in t.announces[q] => h \in announces[q] /\ ~(q = p /\ h \in refused)
      <4>1. \A q \in Peers : s.announces[q] \subseteq announces[q]
        BY DEF Cleaned
      <4> QED BY <1>1, <4>1
    <3>4. \A q \in Peers : h \in announces[q] => q \in alternates[h]
      BY <3>1, MapsFacts
    <3>5. wl[h] = {}
      BY <3>1
    <3> QED BY <1>7, <2>2, <3>1, <3>2, <3>3, <3>4, <3>5, FetcherAssumption
  <2>3. CASE h \notin Gone(hs) /\ fetching[h] # p
    <3>1. /\ t.announced[h] = announced[h] /\ t.fetching[h] = fetching[h]
          /\ t.alternates[h] = alternates[h]
          /\ \A q \in Peers : h \in t.announces[q] => h \in announces[q]
      <4>1. h \notin missing /\ h \notin left
        BY <1>4, <1>5, <2>3
      <4>2. /\ s.announced[h] = announced[h] /\ s.fetching[h] = fetching[h]
            /\ s.alternates[h] = alternates[h]
        BY <2>3 DEF Cleaned
      <4>3. \A q \in Peers : s.announces[q] \subseteq announces[q]
        BY DEF Cleaned
      <4> QED BY <1>1, <4>1, <4>2, <4>3
    <3>2. \A q \in Peers : fetching[h] = q <=> Covers(t, q, h)
      BY <1>7, <2>3
    <3>3. wl[h] \subseteq waitlist[h]
      OBVIOUS
    <3> QED BY <3>1, <3>2, <3>3, MapsFacts
  <2> QED BY <2>1, <2>2, <2>3
<1>10. Sound(t, wl)
  BY <1>9 DEF Sound
<1>11. Handled(t, wl, {})
  BY <1>9, MapsFacts DEF Handled
<1>12. \A q \in Peers : q # p /\ requests[q] # None => t.requests[q] # None
  BY <1>6 DEF Cleaned
<1> QED BY <1>8, <1>10, <1>11, <1>12 DEF t

\* A dropped peer's request is over and its announcements are forgotten.
LEMMA DropSound ==
    ASSUME IInv, NEW p \in Peers, NEW wl, wl = [h \in Hashes |-> waitlist[h] \ {p}]
    PROVE  /\ Typed(DropRequest(p)) /\ Sound(DropRequest(p), wl) /\ Handled(DropRequest(p), wl, {})
           /\ \A q \in Peers : q # p => DropRequest(p).requests[q] = requests[q]
<1> DEFINE left == IF requests[p] = None THEN {} ELSE Undelivered(requests[p])
           queue(h) == IF h \in left THEN alternates[h] ELSE announced[h]
           s == DropRequest(p)
<1>1. /\ s.announces = [announces EXCEPT ![p] = {}]
      /\ s.announced = [h \in Hashes |->
            IF h \in left \cup announces[p] THEN queue(h) \ {p} ELSE announced[h]]
      /\ s.fetching = [h \in Hashes |-> IF h \in left THEN None ELSE fetching[h]]
      /\ s.requests = [requests EXCEPT ![p] = None]
      /\ s.alternates = [h \in Hashes |-> IF h \in left THEN {} ELSE alternates[h]]
  BY DEF DropRequest
<1>2. \A h \in Hashes : h \in left <=> fetching[h] = p
  BY MapsFacts
<1> HIDE DEF s, left
<1>3. /\ \A q \in Peers : s.requests[q] = IF q = p THEN None ELSE requests[q]
      /\ \A q \in Peers : s.announces[q] = IF q = p THEN {} ELSE announces[q]
  BY <1>1, MapsFacts DEF Typed, Maps
<1>4. \A h \in Hashes, q \in Peers : Covers(s, q, h) <=> q # p /\ fetching[h] = q
  BY <1>3, MapsFacts DEF Covers
<1>5. Typed(s)
  <2>1. s.announces \in [Peers -> SUBSET Hashes]
    BY <1>1, MapsFacts DEF Typed, Maps
  <2>2. s.fetching \in [Hashes -> Peers \cup {None}]
    BY <1>1, MapsFacts DEF Typed, Maps
  <2>3. s.announced \in [Hashes -> SUBSET Peers] /\ s.alternates \in [Hashes -> SUBSET Peers]
    BY <1>1, MapsFacts DEF Typed, Maps
  <2>4. s.requests \in [Peers -> TxRequest \cup {None}]
    BY <1>1, MapsFacts DEF Typed, Maps
  <2> QED BY <2>1, <2>2, <2>3, <2>4 DEF Typed
<1>6. ASSUME NEW h \in Hashes
      PROVE  /\ wl[h] # {} => s.announced[h] = {} /\ s.fetching[h] = None
             /\ s.announced[h] # {} => s.fetching[h] = None
             /\ s.fetching[h] # None <=> s.alternates[h] # {}
             /\ \A q \in Peers : s.fetching[h] = q <=> Covers(s, q, h)
             /\ \A q \in Peers : h \in s.announces[q] => q \in s.announced[h] \cup s.alternates[h]
             /\ s.announced[h] \cup s.alternates[h] \subseteq announced[h] \cup alternates[h]
             /\ s.announced[h] # {} => announced[h] # {} \/ fetching[h] # None
             /\ s.fetching[h] # None => s.fetching[h] = fetching[h]
             /\ wl[h] \subseteq waitlist[h]
  <2>1. CASE fetching[h] = p
    <3>1. s.announced[h] = alternates[h] \ {p} /\ s.fetching[h] = None /\ s.alternates[h] = {}
      BY <1>1, <1>2, <2>1
    <3>2. announced[h] = {} /\ waitlist[h] = {}
      BY <2>1, MapsFacts, FetcherAssumption
    <3> QED BY <1>3, <1>4, <2>1, <3>1, <3>2, MapsFacts, FetcherAssumption
  <2>2. CASE fetching[h] # p
    <3>1. /\ s.announced[h] = announced[h] \/ s.announced[h] = announced[h] \ {p}
          /\ s.fetching[h] = fetching[h] /\ s.alternates[h] = alternates[h]
      BY <1>1, <1>2, <2>2
    <3> QED BY <1>3, <1>4, <2>2, <3>1, MapsFacts, FetcherAssumption
  <2> QED BY <2>1, <2>2
<1>7. Sound(s, wl)
  BY <1>6 DEF Sound
<1>8. Handled(s, wl, {})
  BY <1>6, MapsFacts DEF Handled
<1> QED BY <1>3, <1>5, <1>7, <1>8 DEF s

-----------------------------------------------------------------------------
(* Whole steps *)

Known(h) == waitlist[h] # {} \/ announced[h] # {} \/ fetching[h] # None

\* How a step moves each hash, with new offers from the peers in P only.
Moved(P) ==
    \A h \in Hashes :
       /\ waitlist'[h] \cup announced'[h] \cup alternates'[h] \subseteq
             waitlist[h] \cup announced[h] \cup alternates[h] \cup P
       /\ announced'[h] # {} => Known(h)
       /\ fetching'[h] # None => \/ fetching'[h] = fetching[h]
                                 \/ Known(h) /\ fetching'[h] \in alternates'[h]
       /\ waitlist'[h] # {} => waitlist[h] # {} \/ ~Known(h)

\* The maps are assigned as a handler left them, or after a pass.
Outcome(s) ==
    \/ SetStage23(s)
    \/ \E actives \in SUBSET Peers : \E asg \in Assignments(s, actives) : SetStage23(Assign(s, asg))

\* A record assigned to the maps has their properties.
LEMMA SetMaps ==
    ASSUME NEW t, NEW wl, SetStage23(t), Typed(t), Sound(t, wl)
    PROVE  Typed(Maps') /\ Sound(Maps', wl)
BY DEF SetStage23, Typed, Sound, Covers, Maps

\* A handler that leaves sound maps behind leaves them sound after a pass.
LEMMA OutcomeSound ==
    ASSUME NEW s, NEW P, Typed(s), Sound(s, waitlist'), Handled(s, waitlist', P), Outcome(s)
    PROVE  /\ Typed(Maps') /\ Sound(Maps', waitlist') /\ Moved(P)
           /\ \A p \in Peers : s.requests[p] # None => requests'[p] # None
<1>1. CASE SetStage23(s)
  <2>1. Typed(Maps') /\ Sound(Maps', waitlist')
    BY <1>1, SetMaps
  <2> QED BY <1>1, <2>1 DEF SetStage23, Handled, Moved, Known
<1>2. ASSUME NEW actives \in SUBSET Peers, NEW asg \in Assignments(s, actives),
             SetStage23(Assign(s, asg))
      PROVE  /\ Typed(Maps') /\ Sound(Maps', waitlist') /\ Moved(P)
             /\ \A p \in Peers : s.requests[p] # None => requests'[p] # None
  <2> DEFINE t == Assign(s, asg)
  <2>1. /\ Typed(t) /\ Sound(t, waitlist')
        /\ \A h \in Hashes : Asked(s, t, h) \/ SameStage(s, t, h)
        /\ \A p \in Peers : s.requests[p] # None => t.requests[p] # None
    BY AssignSound
  <2>2. SetStage23(t)
    BY <1>2
  <2> HIDE DEF t
  <2>3. Typed(Maps') /\ Sound(Maps', waitlist')
    BY <2>1, <2>2, SetMaps
  <2>4. Moved(P)
    <3> SUFFICES ASSUME NEW h \in Hashes
                 PROVE  /\ waitlist'[h] \cup announced'[h] \cup alternates'[h] \subseteq
                              waitlist[h] \cup announced[h] \cup alternates[h] \cup P
                        /\ announced'[h] # {} => Known(h)
                        /\ fetching'[h] # None => \/ fetching'[h] = fetching[h]
                                                  \/ Known(h) /\ fetching'[h] \in alternates'[h]
                        /\ waitlist'[h] # {} => waitlist[h] # {} \/ ~Known(h)
      BY DEF Moved
    <3>1. CASE Asked(s, t, h)
      BY <2>2, <3>1 DEF SetStage23, Handled, Asked, Known
    <3>2. CASE SameStage(s, t, h)
      BY <2>2, <3>2 DEF SetStage23, Handled, SameStage, Known
    <3> QED BY <2>1, <3>1, <3>2
  <2> QED BY <2>1, <2>2, <2>3, <2>4 DEF SetStage23
<1> QED BY <1>1, <1>2 DEF Outcome

\* The invariant from its parts.
LEMMA IInvParts ==
    ASSUME waitlist' \in [Hashes -> SUBSET Peers],
           waitslots' = [p \in Peers |-> {h \in Hashes : p \in waitlist'[h]}],
           waited' \subseteq Hashes, \A h \in waited' : waitlist'[h] # {},
           Typed(Maps'), Sound(Maps', waitlist'),
           overdue' \subseteq Peers, \A p \in overdue' : requests'[p] # None,
           waitTimer' \in BOOLEAN, timeoutTimer' \in BOOLEAN
    PROVE  IInv'
<1>1. WaitSlots'
  BY DEF WaitSlots
<1>2. waitslots' \in [Peers -> SUBSET Hashes]
  OBVIOUS
<1>3. TypeOK'
  BY <1>2 DEF TypeOK, Typed, Maps
<1> QED BY <1>1, <1>3 DEF IInv

\* A scheduling pass is an outcome, and only peers with a request stay overdue.
LEMMA ScheduleFacts ==
    ASSUME NEW s, NEW actives \in SUBSET Peers, ScheduleFetches(s, actives)
    PROVE  /\ Outcome(s) /\ overdue' = {p \in overdue : s.requests[p] # None}
           /\ timeoutTimer' \in BOOLEAN
<1>1. PICK asg \in Assignments(s, actives) :
         /\ SetStage23(Assign(s, asg)) /\ overdue' = {p \in overdue : s.requests[p] # None}
         /\ timeoutTimer' = (timeoutTimer \/ (NoRequests(s.requests)
                                               /\ ~NoRequests(Assign(s, asg).requests)))
  BY DEF ScheduleFetches
<1>2. timeoutTimer' \in BOOLEAN
  BY <1>1
<1> QED BY <1>1, <1>2 DEF Outcome

\* What the invariant says of the variables beside the maps.
LEMMA WaitFacts ==
    ASSUME IInv
    PROVE  /\ waitlist \in [Hashes -> SUBSET Peers]
           /\ waitslots = [p \in Peers |-> {h \in Hashes : p \in waitlist[h]}]
           /\ waited \subseteq Hashes /\ \A h \in waited : waitlist[h] # {}
           /\ overdue \subseteq Peers /\ \A p \in overdue : requests[p] # None
           /\ waitTimer \in BOOLEAN /\ timeoutTimer \in BOOLEAN
BY DEF IInv, TypeOK, WaitSlots

\* An announcement.
LEMMA NotifyStep ==
    ASSUME IInv, NEW p \in Peers, NEW hs \in SUBSET Hashes, Notify(p, hs)
    PROVE  IInv' /\ Moved({p})
<1>1. PICK ks \in Kept(p, hs) :
         LET third  == {h \in ks : alternates[h] # {}}
             second == {h \in ks \ third : announced[h] # {}}
             first  == ks \ (third \cup second)
             s == Join(p, third, second)
         IN  /\ waitlist' = [h \in Hashes |->
                               IF h \in first THEN waitlist[h] \cup {p} ELSE waitlist[h]]
             /\ waitslots' = [waitslots EXCEPT ![p] = @ \cup first]
             /\ waitTimer' = (waitTimer \/ (first # {} /\ \A h \in Hashes : waitlist[h] = {}))
             /\ UNCHANGED waited
             /\ IF announces[p] = {} /\ s.announces[p] # {}
                THEN ScheduleFetches(s, {p})
                ELSE NoSchedule(s)
  BY DEF Notify
<1> DEFINE third  == {h \in ks : alternates[h] # {}}
           second == {h \in ks \ third : announced[h] # {}}
           first  == ks \ (third \cup second)
           s      == Join(p, third, second)
<1>2. ks \in SUBSET Hashes
  BY DEF Kept
<1>3. Typed(s) /\ Sound(s, waitlist') /\ Handled(s, waitlist', {p})
  BY <1>1, <1>2, JoinSound
<1>4. s.requests = requests
  BY DEF Join
<1>5. /\ waitlist' = [h \in Hashes |-> IF h \in first THEN waitlist[h] \cup {p} ELSE waitlist[h]]
      /\ waitslots' = [waitslots EXCEPT ![p] = @ \cup first] /\ waited' = waited
  BY <1>1
<1>6. waitTimer' \in BOOLEAN
  BY <1>1
<1>7. IF announces[p] = {} /\ s.announces[p] # {} THEN ScheduleFetches(s, {p}) ELSE NoSchedule(s)
  BY <1>1
<1>8. first \subseteq Hashes
  BY <1>2
<1> HIDE DEF s, first
<1>9. Outcome(s) /\ overdue' \subseteq overdue /\ timeoutTimer' \in BOOLEAN
  BY <1>7, ScheduleFacts, WaitFacts DEF NoSchedule, Outcome
<1>10. /\ Typed(Maps') /\ Sound(Maps', waitlist') /\ Moved({p})
       /\ \A q \in Peers : s.requests[q] # None => requests'[q] # None
  BY <1>3, <1>9, OutcomeSound
<1>11. /\ waitlist' \in [Hashes -> SUBSET Peers]
       /\ waitslots' = [q \in Peers |-> {h \in Hashes : q \in waitlist'[h]}]
  <2>1. waitlist' \in [Hashes -> SUBSET Peers]
    BY <1>5, WaitFacts
  <2>2. \A q \in Peers : waitslots'[q] = waitslots[q] \cup (IF q = p THEN first ELSE {})
    BY <1>5, WaitFacts
  <2>3. \A q \in Peers : waitslots[q] = {h \in Hashes : q \in waitlist[h]}
    BY WaitFacts
  <2>4. \A h \in Hashes : waitlist'[h] = IF h \in first THEN waitlist[h] \cup {p} ELSE waitlist[h]
    BY <1>5
  <2>5. ASSUME NEW q \in Peers PROVE waitslots'[q] = {h \in Hashes : q \in waitlist'[h]}
    <3>1. CASE q = p
      <4>1. waitslots'[q] = {h \in Hashes : p \in waitlist[h]} \cup first
        BY <2>2, <2>3, <3>1
      <4>2. \A h \in Hashes : p \in waitlist'[h] <=> h \in first \/ p \in waitlist[h]
        BY <2>4
      <4> QED BY <1>8, <3>1, <4>1, <4>2
    <3>2. CASE q # p
      <4>1. waitslots'[q] = {h \in Hashes : q \in waitlist[h]}
        BY <2>2, <2>3, <3>2
      <4>2. \A h \in Hashes : q \in waitlist'[h] <=> q \in waitlist[h]
        BY <2>4, <3>2
      <4> QED BY <4>1, <4>2
    <3> QED BY <3>1, <3>2
  <2>6. DOMAIN waitslots' = Peers
    BY <1>5, WaitFacts
  <2>7. waitslots' = [q \in Peers |-> waitslots'[q]]
    BY <1>5, <2>6, WaitFacts
  <2> QED BY <2>1, <2>5, <2>7
<1>12. waited' \subseteq Hashes /\ \A h \in waited' : waitlist'[h] # {}
  BY <1>5, WaitFacts
<1>13. overdue' \subseteq Peers /\ \A q \in overdue' : requests'[q] # None
  BY <1>4, <1>9, <1>10, WaitFacts
<1> QED BY <1>6, <1>9, <1>10, <1>11, <1>12, <1>13, IInvParts

\* The end of a wait.
LEMMA WaitTriggerStep ==
    ASSUME IInv, WaitTrigger
    PROVE  IInv' /\ Moved({})
<1> DEFINE actives == UNION {waitlist[h] : h \in waited}
<1>1. /\ waitlist' = [h \in Hashes |-> IF h \in waited THEN {} ELSE waitlist[h]]
      /\ waitslots' = [p \in Peers |-> waitslots[p] \ {h \in waited : p \in waitlist[h]}]
      /\ waited' = {}
      /\ IF actives # {} THEN ScheduleFetches(QueueWaited, actives) ELSE NoSchedule(QueueWaited)
  BY DEF WaitTrigger
<1>2. waitTimer' \in BOOLEAN
  BY DEF WaitTrigger
<1>3. Typed(QueueWaited) /\ Sound(QueueWaited, waitlist') /\ Handled(QueueWaited, waitlist', {})
  BY <1>1, QueueWaitedSound
<1>4. QueueWaited.requests = requests
  BY DEF QueueWaited
<1>5. actives \in SUBSET Peers
  BY WaitFacts
<1> HIDE DEF actives
<1>6. Outcome(QueueWaited) /\ overdue' \subseteq overdue /\ timeoutTimer' \in BOOLEAN
  BY <1>1, <1>5, ScheduleFacts, WaitFacts DEF NoSchedule, Outcome
<1>7. /\ Typed(Maps') /\ Sound(Maps', waitlist') /\ Moved({})
      /\ \A q \in Peers : QueueWaited.requests[q] # None => requests'[q] # None
  BY <1>3, <1>6, OutcomeSound
<1>8. /\ waitlist' \in [Hashes -> SUBSET Peers]
      /\ waitslots' = [p \in Peers |-> {h \in Hashes : p \in waitlist'[h]}]
  BY <1>1, WaitFacts
<1>9. overdue' \subseteq Peers /\ \A q \in overdue' : requests'[q] # None
  BY <1>4, <1>6, <1>7, WaitFacts
<1> QED BY <1>1, <1>2, <1>6, <1>7, <1>8, <1>9, IInvParts

\* A timeout.
LEMMA TimeoutTriggerStep ==
    ASSUME IInv, TimeoutTrigger
    PROVE  IInv' /\ Moved({})
<1>1. /\ waitlist' = waitlist /\ waitslots' = waitslots /\ waited' = waited
      /\ waitTimer' = waitTimer /\ overdue' = overdue /\ timeoutTimer' = timeoutTimer
  BY DEF TimeoutTrigger, waitVars
<1>2. /\ Typed(Expire) /\ Sound(Expire, waitlist') /\ Handled(Expire, waitlist', {})
      /\ \A p \in Peers : requests[p] # None => Expire.requests[p] # None
  BY <1>1, ExpireSound
<1>3. Announcers(Expire) \in SUBSET Peers
  BY DEF Announcers
<1>4. Outcome(Expire)
  BY <1>3 DEF TimeoutTrigger, Outcome
<1>5. /\ Typed(Maps') /\ Sound(Maps', waitlist') /\ Moved({})
      /\ \A q \in Peers : Expire.requests[q] # None => requests'[q] # None
  BY <1>2, <1>4, OutcomeSound
<1> QED BY <1>1, <1>2, <1>5, WaitFacts, IInvParts

\* A delivery.
LEMMA DeliverStep ==
    ASSUME IInv, NEW p \in Peers, NEW hs \in SUBSET Hashes, NEW direct \in BOOLEAN,
           Deliver(p, hs, direct)
    PROVE  IInv' /\ Moved({})
<1> DEFINE s == Cleanup(p, hs, direct)
           t == Fulfil(s, p, hs)
<1>1. /\ waitlist' = [h \in Hashes |-> IF h \in hs THEN {} ELSE waitlist[h]]
      /\ waitslots' = [q \in Peers |-> waitslots[q] \ {h \in hs : waitlist[h] # {}}]
      /\ waited' = waited \ hs /\ waitTimer' = waitTimer
      /\ IF direct /\ requests[p] # None THEN ScheduleFetches(t, Announcers(t)) ELSE NoSchedule(s)
  BY DEF Deliver
<1>2. Cleaned(s, p, hs, direct)
  BY CleanupFacts
<1>3. /\ Typed(Maps') /\ Sound(Maps', waitlist') /\ Moved({})
      /\ timeoutTimer' \in BOOLEAN
      /\ overdue' \subseteq Peers /\ \A q \in overdue' : requests'[q] # None
  <2>1. CASE direct /\ requests[p] # None
    <3>1. direct = TRUE
      BY <2>1
    <3>2. Cleaned(s, p, hs, TRUE)
      BY <1>2, <3>1
    <3> HIDE DEF s
    <3>3. Typed(t) /\ Sound(t, waitlist') /\ Handled(t, waitlist', {})
      BY <1>1, <2>1, <3>2, FulfilSound
    <3>4. Announcers(t) \in SUBSET Peers
      BY DEF Announcers
    <3> HIDE DEF t
    <3>5. /\ Outcome(t) /\ overdue' = {q \in overdue : t.requests[q] # None}
          /\ timeoutTimer' \in BOOLEAN
      BY <1>1, <2>1, <3>4, ScheduleFacts
    <3>6. /\ Typed(Maps') /\ Sound(Maps', waitlist') /\ Moved({})
          /\ \A q \in Peers : t.requests[q] # None => requests'[q] # None
      BY <3>3, <3>5, OutcomeSound
    <3> QED BY <3>5, <3>6, WaitFacts
  <2>2. CASE ~(direct /\ requests[p] # None)
    <3>1. Typed(s) /\ Sound(s, waitlist') /\ Handled(s, waitlist', {})
      BY <1>1, <2>2, CleanupSound
    <3> HIDE DEF s
    <3>2. Outcome(s) /\ overdue' = overdue /\ timeoutTimer' = timeoutTimer
      BY <1>1, <2>2 DEF NoSchedule, Outcome
    <3>3. /\ Typed(Maps') /\ Sound(Maps', waitlist') /\ Moved({})
          /\ \A q \in Peers : s.requests[q] # None => requests'[q] # None
      BY <3>1, <3>2, OutcomeSound
    <3>4. \A q \in Peers : requests[q] # None => s.requests[q] # None
      BY <1>2 DEF Cleaned
    <3> QED BY <3>2, <3>3, <3>4, WaitFacts
  <2> QED BY <2>1, <2>2
<1>4. /\ waitlist' \in [Hashes -> SUBSET Peers]
      /\ waitslots' = [q \in Peers |-> {h \in Hashes : q \in waitlist'[h]}]
  BY <1>1, WaitFacts
<1>5. waited' \subseteq Hashes /\ \A h \in waited' : waitlist'[h] # {}
  BY <1>1, WaitFacts
<1>6. waitTimer' \in BOOLEAN
  BY <1>1, WaitFacts
<1> QED BY <1>3, <1>4, <1>5, <1>6, IInvParts

\* A dropped peer.
LEMMA DropStep ==
    ASSUME IInv, NEW p \in Peers, Drop(p)
    PROVE  IInv' /\ Moved({})
<1> DEFINE s == DropRequest(p)
<1>1. /\ waitlist' = [h \in Hashes |-> waitlist[h] \ {p}]
      /\ waitslots' = [waitslots EXCEPT ![p] = {}]
      /\ waited' = {h \in waited : waitlist'[h] # {}}
      /\ IF requests[p] = None
         THEN NoSchedule(s)
         ELSE \E asg \in Assignments(s, Announcers(s)) :
                 /\ SetStage23(Assign(s, asg)) /\ overdue' = overdue \ {p} /\ timeoutTimer' = TRUE
  BY DEF Drop
<1>2. waitTimer' \in BOOLEAN
  BY DEF Drop
<1>3. /\ Typed(s) /\ Sound(s, waitlist') /\ Handled(s, waitlist', {})
      /\ \A q \in Peers : q # p => s.requests[q] = requests[q]
  BY <1>1, DropSound
<1>4. Announcers(s) \in SUBSET Peers
  BY DEF Announcers
<1> HIDE DEF s
<1>5. /\ Outcome(s) /\ timeoutTimer' \in BOOLEAN
      /\ overdue' \subseteq Peers /\ \A q \in overdue' : q # p /\ requests[q] # None
  <2>1. CASE requests[p] = None
    BY <1>1, <2>1, WaitFacts DEF NoSchedule, Outcome
  <2>2. CASE requests[p] # None
    BY <1>1, <1>4, <2>2, WaitFacts DEF Outcome
  <2> QED BY <2>1, <2>2
<1>6. /\ Typed(Maps') /\ Sound(Maps', waitlist') /\ Moved({})
      /\ \A q \in Peers : s.requests[q] # None => requests'[q] # None
  BY <1>3, <1>5, OutcomeSound
<1>7. /\ waitlist' \in [Hashes -> SUBSET Peers]
      /\ waitslots' = [q \in Peers |-> {h \in Hashes : q \in waitlist'[h]}]
  BY <1>1, WaitFacts
<1>8. waited' \subseteq Hashes /\ \A h \in waited' : waitlist'[h] # {}
  BY <1>1, WaitFacts
<1> QED BY <1>2, <1>3, <1>5, <1>6, <1>7, <1>8, IInvParts

\* The passing of time changes no map.
LEMMA TimeStep ==
    ASSUME IInv, (\E p \in Peers : RequestElapses(p)) \/ (\E h \in Hashes : WaitElapses(h))
                 \/ UNCHANGED vars
    PROVE  IInv' /\ UNCHANGED <<waitlist, fetchVars>>
<1>1. CASE \E p \in Peers : RequestElapses(p)
  BY <1>1 DEF RequestElapses, IInv, TypeOK, WaitSlots, Maps, Sound, Covers, waitVars, fetchVars
<1>2. CASE \E h \in Hashes : WaitElapses(h)
  BY <1>2 DEF WaitElapses, IInv, TypeOK, WaitSlots, Maps, Sound, Covers, fetchVars
<1>3. CASE UNCHANGED vars
  BY <1>3 DEF IInv, TypeOK, WaitSlots, Maps, Sound, Covers, vars, waitVars, fetchVars
<1> QED BY <1>1, <1>2, <1>3

\* A fetcher that knows nothing.
LEMMA InitIInv == Init => IInv
<1> SUFFICES ASSUME Init PROVE IInv
  OBVIOUS
<1>1. TypeOK
  BY DEF Init, TypeOK
<1>2. WaitSlots
  <2>1. \A p \in Peers : {h \in Hashes : p \in waitlist[h]} = {}
    BY DEF Init
  <2> QED BY <2>1 DEF Init, WaitSlots
<1>3. Sound(Maps, waitlist)
  BY FetcherAssumption DEF Init, Maps, Sound, Covers
<1> QED BY <1>1, <1>2, <1>3 DEF IInv

\* Every case of loop's select keeps the invariant and moves each hash as Moved
\* says.
LEMMA NextIInv ==
    ASSUME IInv, [Next]_vars
    PROVE  /\ IInv'
           /\ (\E p \in Peers : Moved({p})) \/ Moved({}) \/ UNCHANGED <<waitlist, fetchVars>>
<1>1. CASE \E p \in Peers, hs \in SUBSET Hashes : Notify(p, hs)
  BY <1>1, NotifyStep
<1>2. CASE \E p \in Peers, hs \in SUBSET Hashes, direct \in BOOLEAN : Deliver(p, hs, direct)
  BY <1>2, DeliverStep
<1>3. CASE \E p \in Peers : Drop(p)
  BY <1>3, DropStep
<1>4. CASE WaitTrigger
  BY <1>4, WaitTriggerStep
<1>5. CASE TimeoutTrigger
  BY <1>5, TimeoutTriggerStep
<1>6. CASE (\E p \in Peers : RequestElapses(p)) \/ (\E h \in Hashes : WaitElapses(h))
           \/ UNCHANGED vars
  BY <1>6, TimeStep
<1> QED BY <1>1, <1>2, <1>3, <1>4, <1>5, <1>6 DEF Next

\* The fetcher's maps are well formed at all times.
THEOREM TypeCorrect == Spec => []TypeOK
<1>1. IInv => TypeOK
  BY DEF IInv
<1>2. IInv /\ [Next]_vars => IInv'
  BY NextIInv
<1> QED BY <1>1, <1>2, InitIInv, PTL DEF Spec

\* Each tracked hash is in one of the three stages only, and is being retrieved
\* exactly when it has alternates and one peer has a request in flight that
\* covers it: the panics of loop and scheduleFetches are unreachable.
THEOREM StagesAreExclusive == Spec => []StageExclusive
<1>1. IInv => StageExclusive
  BY MapsFacts DEF StageExclusive
<1>2. IInv /\ [Next]_vars => IInv'
  BY NextIInv
<1> QED BY <1>1, <1>2, InitIInv, PTL DEF Spec

\* The slots that the limit on announcements counts agree with the stages of the
\* hashes: no slot leaks.
THEOREM SlotsAreAccounted == Spec => []SlotsMatchStages
<1>1. ASSUME IInv PROVE SlotsMatchStages
  <2>1. \A p \in Peers : announces[p] \in SUBSET Hashes
    BY <1>1 DEF IInv, TypeOK
  <2> QED BY <1>1, <2>1, MapsFacts, WaitFacts DEF SlotsMatchStages
<1>2. IInv => SlotsMatchStages
  BY <1>1
<1>3. IInv /\ [Next]_vars => IInv'
  BY NextIInv
<1> QED BY <1>2, <1>3, InitIInv, PTL DEF Spec

-----------------------------------------------------------------------------
(* The refinement of TxRetrieval *)

Offers(h) == waitlist[h] \cup announced[h] \cup alternates[h]

\* The stage of a hash in terms of the maps.
LEMMA StageFacts ==
    ASSUME IInv, NEW h \in Hashes
    PROVE  /\ Stage(h) = "waiting" <=> waitlist[h] # {}
           /\ Stage(h) = "queued" <=> announced[h] # {}
           /\ Stage(h) = "fetching" <=> fetching[h] # None
           /\ Stage(h) = "unknown" <=> ~Known(h)
           /\ Stage(h) \in {"waiting", "queued", "fetching", "unknown"}
           /\ Offers(h) = {} <=> ~Known(h)
BY MapsFacts DEF Stage, Offers, Known

\* Each hash makes a move of TxRetrieval.
LEMMA HashMoves ==
    ASSUME IInv, IInv', NEW P, Moved(P), NEW h \in Hashes
    PROVE  /\ Offers(h)' \subseteq Offers(h) \cup P
           /\ \/ Stage(h)' = Stage(h) /\ fetching'[h] = fetching[h]
              \/ Stage(h) = "unknown" /\ Stage(h)' = "waiting"
              \/ Stage(h) \in {"waiting", "fetching"} /\ Stage(h)' = "queued"
              \/ Stage(h) # "unknown" /\ Stage(h)' = "fetching" /\ fetching'[h] \in Offers(h)'
              \/ Stage(h) # "unknown" /\ Stage(h)' = "unknown"
           /\ Stage(h)' # "fetching" => fetching'[h] = None
           /\ Stage(h)' = "unknown" <=> Offers(h)' = {}
<1>1. /\ Stage(h) = "waiting" <=> waitlist[h] # {}
      /\ Stage(h) = "queued" <=> announced[h] # {}
      /\ Stage(h) = "fetching" <=> fetching[h] # None
      /\ Stage(h) = "unknown" <=> ~Known(h)
      /\ Stage(h) \in {"waiting", "queued", "fetching", "unknown"}
  BY StageFacts
<1>2. /\ Stage(h)' = "waiting" <=> waitlist'[h] # {}
      /\ Stage(h)' = "queued" <=> announced'[h] # {}
      /\ Stage(h)' = "fetching" <=> fetching'[h] # None
      /\ Stage(h)' = "unknown" <=> ~Known(h)'
      /\ Stage(h)' \in {"waiting", "queued", "fetching", "unknown"}
      /\ Offers(h)' = {} <=> ~Known(h)'
  <2>1. /\ waitlist'[h] # {} => announced'[h] = {} /\ fetching'[h] = None
        /\ announced'[h] # {} => fetching'[h] = None
        /\ fetching'[h] # None <=> alternates'[h] # {}
    BY DEF IInv, Sound, Maps
  <2> QED BY <2>1 DEF Stage, Offers, Known
<1>3. /\ waitlist'[h] \cup announced'[h] \cup alternates'[h] \subseteq
            waitlist[h] \cup announced[h] \cup alternates[h] \cup P
      /\ announced'[h] # {} => Known(h)
      /\ fetching'[h] # None => \/ fetching'[h] = fetching[h]
                                \/ Known(h) /\ fetching'[h] \in alternates'[h]
      /\ waitlist'[h] # {} => waitlist[h] # {} \/ ~Known(h)
  BY DEF Moved
<1>4. Offers(h)' \subseteq Offers(h) \cup P
  BY <1>3 DEF Offers
<1>5. CASE Stage(h)' = "waiting"
  <2>1. Stage(h) = "waiting" \/ Stage(h) = "unknown"
    BY <1>1, <1>2, <1>3, <1>5
  <2> QED BY <1>1, <1>2, <1>4, <1>5, <2>1
<1>6. CASE Stage(h)' = "queued"
  <2>1. Stage(h) # "unknown"
    BY <1>1, <1>2, <1>3, <1>6
  <2> QED BY <1>1, <1>2, <1>4, <1>6, <2>1
<1>7. CASE Stage(h)' = "fetching"
  <2>1. fetching'[h] # None
    BY <1>2, <1>7
  <2>2. CASE fetching'[h] = fetching[h]
    BY <1>1, <1>2, <1>4, <1>7, <2>1, <2>2
  <2>3. CASE Known(h) /\ fetching'[h] \in alternates'[h]
    <3>1. fetching'[h] \in Offers(h)'
      BY <2>3 DEF Offers
    <3> QED BY <1>1, <1>2, <1>4, <1>7, <2>3, <3>1
  <2> QED BY <1>3, <2>1, <2>2, <2>3
<1>8. CASE Stage(h)' = "unknown"
  <2>1. CASE Stage(h) = "unknown"
    <3>1. fetching[h] = None /\ fetching'[h] = None
      BY <1>1, <1>2, <1>8, <2>1
    <3> QED BY <1>2, <1>4, <1>8, <2>1, <3>1
  <2>2. CASE Stage(h) # "unknown"
    BY <1>1, <1>2, <1>4, <1>8, <2>2
  <2> QED BY <2>1, <2>2
<1> QED BY <1>2, <1>5, <1>6, <1>7, <1>8

\* A step with offers from one peer is a step of TxRetrieval.
LEMMA MovedImplements ==
    ASSUME IInv, IInv', NEW p \in Peers, Moved({p}) \/ Moved({})
    PROVE  Retrieval!Next
<1>1. Moved({p})
  BY DEF Moved
<1>2. ASSUME NEW h \in Hashes
      PROVE  /\ [k \in Hashes |-> Offers(k)]'[h] \subseteq [k \in Hashes |-> Offers(k)][h] \cup {p}
             /\ \/ Retrieval!Stays(h) \/ Retrieval!Discover(h) \/ Retrieval!Queue(h)
                \/ Retrieval!Ask(h) \/ Retrieval!Forget(h)
             /\ [k \in Hashes |-> Stage(k)]'[h] # "fetching" => fetching'[h] = None
             /\ [k \in Hashes |-> Stage(k)]'[h] = "unknown" <=> [k \in Hashes |-> Offers(k)]'[h] = {}
  <2>1. /\ Offers(h)' \subseteq Offers(h) \cup {p}
        /\ \/ Stage(h)' = Stage(h) /\ fetching'[h] = fetching[h]
           \/ Stage(h) = "unknown" /\ Stage(h)' = "waiting"
           \/ Stage(h) \in {"waiting", "fetching"} /\ Stage(h)' = "queued"
           \/ Stage(h) # "unknown" /\ Stage(h)' = "fetching" /\ fetching'[h] \in Offers(h)'
           \/ Stage(h) # "unknown" /\ Stage(h)' = "unknown"
        /\ Stage(h)' # "fetching" => fetching'[h] = None
        /\ Stage(h)' = "unknown" <=> Offers(h)' = {}
    BY <1>1, HashMoves
  <2> QED BY <2>1 DEF Retrieval!Stays, Retrieval!Discover, Retrieval!Queue, Retrieval!Ask,
                      Retrieval!Forget, Offers
<1> QED BY <1>2 DEF Retrieval!Next, Offers

\* Without peers there is nothing to retrieve, before and after a step.
LEMMA NoPeers ==
    ASSUME IInv, IInv', Peers = {}
    PROVE  UNCHANGED Retrieval!retrievalVars
<1>1. \A h \in Hashes : /\ waitlist[h] = {} /\ announced[h] = {} /\ alternates[h] = {}
                         /\ fetching[h] = None
  BY DEF IInv, TypeOK
<1>2. \A h \in Hashes : /\ waitlist'[h] = {} /\ announced'[h] = {} /\ alternates'[h] = {}
                         /\ fetching'[h] = None
  BY DEF IInv, TypeOK
<1>3. fetching' = fetching
  BY <1>1, <1>2 DEF IInv, TypeOK
<1> QED BY <1>1, <1>2, <1>3 DEF Retrieval!retrievalVars, Stage

\* A step that changes neither the waitlist nor the maps is a stutter.
LEMMA StutterImplements ==
    ASSUME UNCHANGED <<waitlist, fetchVars>>
    PROVE  UNCHANGED Retrieval!retrievalVars
BY DEF fetchVars, Retrieval!retrievalVars, Stage

\* The fetcher implements the safety part of TxRetrieval: it starts in an initial
\* state of it, and every case of loop's select, whatever combination of hashes
\* it moves, is one of its steps or changes none of its variables.
THEOREM RefinesRetrieval == Spec => Retrieval!Init /\ [][Retrieval!Next]_Retrieval!retrievalVars
<1>1. Init => Retrieval!Init
  BY DEF Init, Retrieval!Init, Stage
<1>2. IInv /\ [Next]_vars => IInv'
  BY NextIInv
<1>3. IInv /\ IInv' /\ [Next]_vars => [Retrieval!Next]_Retrieval!retrievalVars
  <2> SUFFICES ASSUME IInv, IInv', [Next]_vars
               PROVE  [Retrieval!Next]_Retrieval!retrievalVars
    OBVIOUS
  <2>1. (\E p \in Peers : Moved({p})) \/ Moved({}) \/ UNCHANGED <<waitlist, fetchVars>>
    BY NextIInv
  <2>2. CASE \E p \in Peers : Moved({p})
    BY <2>2, MovedImplements
  <2>3. CASE Moved({})
    <3>1. CASE Peers = {}
      BY <3>1, NoPeers
    <3>2. CASE Peers # {}
      <4>1. PICK p \in Peers : TRUE
        BY <3>2
      <4> QED BY <2>3, <4>1, MovedImplements
    <3> QED BY <3>1, <3>2
  <2>4. CASE UNCHANGED <<waitlist, fetchVars>>
    BY <2>4, StutterImplements
  <2> QED BY <2>1, <2>2, <2>3, <2>4
<1> QED BY <1>1, <1>2, <1>3, InitIInv, PTL DEF Spec

-----------------------------------------------------------------------------
(* The block fetcher: its folds.                                          *)

\* What forgetting a hash keeps, forgetting hashes keeps.
LEMMA ForgetHashesKeeps ==
    ASSUME NEW hashes, IsFiniteSet(hashes), NEW A, NEW g \in A,
           \A h \in hashes, r \in A : ForgetHash(r, h) \in A
    PROVE  ForgetHashes(g, hashes) \in A
<1> DEFINE c == AnElement(hashes)
           step == [x \in hashes \X A |-> ForgetHash(x[2], x[1])]
           Rec(w) == w = [s \in SUBSET hashes |->
                           IF s = {} THEN g
                           ELSE ForgetHash(w[s \ {CHOOSE x \in s : TRUE}], CHOOSE x \in s : TRUE)]
           iter == CHOOSE w : Rec(w)
<1>1. Picks(hashes, c)
  BY AnElementPicks
<1>2. step \in [hashes \X A -> A]
  OBVIOUS
<1>3. PICK w : FoldsWith(hashes, A, c, g, step, w)
  <2> HIDE DEF c, step
  <2> QED BY <1>1, <1>2, FoldExists
<1>4. Rec(w)
  <2>1. ASSUME NEW s \in SUBSET hashes, s # {}
        PROVE  w[s] = ForgetHash(w[s \ {CHOOSE x \in s : TRUE}], CHOOSE x \in s : TRUE)
    <3> DEFINE x == CHOOSE x \in s : TRUE
    <3>1. c[s] = x /\ x \in hashes
      BY <1>1, <2>1 DEF AnElement, Picks
    <3>2. w[s \ {x}] \in A
      BY <1>3 DEF FoldsWith
    <3>3. w[s] = step[<<x, w[s \ {x}]>>]
      BY <1>3, <2>1, <3>1 DEF FoldsWith
    <3> HIDE DEF x
    <3>4. w[s] = ForgetHash(w[s \ {x}], x)
      BY <3>1, <3>2, <3>3
    <3> QED BY <3>4 DEF x
  <2> QED BY <1>3, <2>1 DEF FoldsWith
<1>5. Rec(iter)
  <2> HIDE DEF Rec
  <2> QED BY <1>4
<1>6. ForgetHashes(g, hashes) = iter[hashes]
  BY DEF ForgetHashes, FoldSet, MapThenFoldSet
<1> HIDE DEF iter
<1> DEFINE P == {s \in SUBSET hashes : iter[s] \in A}
<1>7. {} \in P
  BY <1>5
<1>8. ASSUME NEW s \in SUBSET hashes, s # {}, s \ {c[s]} \in P PROVE s \in P
  <2>1. c[s] \in hashes /\ iter[s] = ForgetHash(iter[s \ {c[s]}], c[s])
    BY <1>1, <1>5, <1>8 DEF AnElement, Picks
  <2> QED BY <2>1, <1>8
<1> HIDE DEF P, c
<1>9. hashes \in P
  BY <1>1, <1>7, <1>8, SubsetInduction
<1> QED BY <1>6, <1>9 DEF P

\* Of the blocks that were queued in g, those of a set are no longer in r.
Frees(g, r, S) == \A k \in Heard : r.queued[k] = IF k \in S THEN NoPeer ELSE g.queued[k]

\* Forgetting blocks keeps what forgetting one keeps, and leaves none of them
\* queued.
LEMMA ForgetBlocksKeeps ==
    ASSUME NEW hashes, hashes \subseteq Heard, IsFiniteSet(hashes), NEW A, NEW g \in A,
           \A h \in hashes, r \in A :
              ForgetBlock(r, h) \in A /\ Frees(r, ForgetBlock(r, h), {h})
    PROVE  ForgetBlocks(g, hashes) \in A /\ Frees(g, ForgetBlocks(g, hashes), hashes)
<1> DEFINE c == AnElement(hashes)
           step == [x \in hashes \X A |-> ForgetBlock(x[2], x[1])]
           Rec(w) == w = [s \in SUBSET hashes |->
                           IF s = {} THEN g
                           ELSE ForgetBlock(w[s \ {CHOOSE x \in s : TRUE}], CHOOSE x \in s : TRUE)]
           iter == CHOOSE w : Rec(w)
<1>1. Picks(hashes, c)
  BY AnElementPicks
<1>2. step \in [hashes \X A -> A]
  OBVIOUS
<1>3. PICK w : FoldsWith(hashes, A, c, g, step, w)
  <2> HIDE DEF c, step
  <2> QED BY <1>1, <1>2, FoldExists
<1>4. Rec(w)
  <2>1. ASSUME NEW s \in SUBSET hashes, s # {}
        PROVE  w[s] = ForgetBlock(w[s \ {CHOOSE x \in s : TRUE}], CHOOSE x \in s : TRUE)
    <3> DEFINE x == CHOOSE x \in s : TRUE
    <3>1. c[s] = x /\ x \in hashes
      BY <1>1, <2>1 DEF AnElement, Picks
    <3>2. w[s \ {x}] \in A
      BY <1>3 DEF FoldsWith
    <3>3. w[s] = step[<<x, w[s \ {x}]>>]
      BY <1>3, <2>1, <3>1 DEF FoldsWith
    <3> HIDE DEF x
    <3>4. w[s] = ForgetBlock(w[s \ {x}], x)
      BY <3>1, <3>2, <3>3
    <3> QED BY <3>4 DEF x
  <2> QED BY <1>3, <2>1 DEF FoldsWith
<1>5. Rec(iter)
  <2> HIDE DEF Rec
  <2> QED BY <1>4
<1>6. ForgetBlocks(g, hashes) = iter[hashes]
  BY DEF ForgetBlocks, FoldSet, MapThenFoldSet
<1> HIDE DEF iter
<1> DEFINE P == {s \in SUBSET hashes : iter[s] \in A /\ Frees(g, iter[s], s)}
<1>7. {} \in P
  BY <1>5 DEF Frees
<1>8. ASSUME NEW s \in SUBSET hashes, s # {}, s \ {c[s]} \in P PROVE s \in P
  <2> DEFINE x == c[s]
             r == iter[s \ {x}]
  <2>1. x \in s /\ x \in hashes /\ iter[s] = ForgetBlock(r, x)
    BY <1>1, <1>5, <1>8 DEF AnElement, Picks
  <2>2. r \in A /\ Frees(g, r, s \ {x})
    BY <1>8
  <2> HIDE DEF x, r
  <2>3. iter[s] \in A /\ Frees(r, iter[s], {x})
    BY <2>1, <2>2
  <2>4. Frees(g, iter[s], s)
    BY <2>1, <2>2, <2>3 DEF Frees
  <2> QED BY <2>3, <2>4
<1> HIDE DEF P, c
<1>9. hashes \in P
  BY <1>1, <1>7, <1>8, SubsetInduction
<1> QED BY <1>6, <1>9 DEF P

\* Enqueuing a block after the other keeps what enqueuing one keeps.
Queueing(p, acc, h) == IF h \in known THEN acc ELSE Enqueue(acc, p, h)

LEMMA QueueingKeeps ==
    ASSUME NEW p \in Peer, NEW n \in Nat, NEW order \in [1..n -> Heard], NEW A, NEW g \in A,
           \A h \in Heard, r \in A : Queueing(p, r, h) \in A
    PROVE  FoldLeft(LAMBDA acc, h : Queueing(p, acc, h), g, order) \in A
<1> DEFINE c == Greatest(1..n)
           step == [x \in (1..n) \X A |-> Queueing(p, x[2], order[x[1]])]
           Rec(w) == w = [s \in SUBSET (1..n) |->
                           IF s = {} THEN g
                           ELSE Queueing(p, w[s \ {Max(s)}], order[Max(s)])]
           iter == CHOOSE w : Rec(w)
<1>0. IsFiniteSet(1..n)
  BY FS_Interval
<1>1. Picks(1..n, c)
  BY GreatestPicks
<1>2. step \in [(1..n) \X A -> A]
  OBVIOUS
<1>3. PICK w : FoldsWith(1..n, A, c, g, step, w)
  <2> HIDE DEF c, step
  <2> QED BY <1>0, <1>1, <1>2, FoldExists
<1>4. Rec(w)
  <2>1. ASSUME NEW s \in SUBSET (1..n), s # {}
        PROVE  w[s] = Queueing(p, w[s \ {Max(s)}], order[Max(s)])
    <3> DEFINE x == Max(s)
    <3>1. c[s] = x /\ x \in 1..n
      BY <1>1, <2>1 DEF Greatest, Picks
    <3> HIDE DEF x
    <3>2. w[s \ {x}] \in A
      BY <1>3 DEF FoldsWith
    <3>3. w[s] = step[<<x, w[s \ {x}]>>]
      BY <1>3, <2>1, <3>1 DEF FoldsWith
    <3>4. w[s] = Queueing(p, w[s \ {x}], order[x])
      BY <3>1, <3>2, <3>3
    <3> QED BY <3>4 DEF x
  <2> QED BY <1>3, <2>1 DEF FoldsWith
<1>5. Rec(iter)
  <2> HIDE DEF Rec
  <2> QED BY <1>4
<1>6. FoldLeft(LAMBDA acc, h : Queueing(p, acc, h), g, order) = iter[1..n]
  <2>1. DOMAIN order = 1..n
    OBVIOUS
  <2> QED BY <2>1 DEF FoldLeft, MapThenFoldSet
<1> HIDE DEF iter
<1> DEFINE P == {s \in SUBSET (1..n) : iter[s] \in A}
<1>7. {} \in P
  BY <1>5
<1>8. ASSUME NEW s \in SUBSET (1..n), s # {}, s \ {c[s]} \in P PROVE s \in P
  <2>1. c[s] \in 1..n /\ iter[s] = Queueing(p, iter[s \ {c[s]}], order[c[s]])
    BY <1>1, <1>5, <1>8 DEF Greatest, Picks
  <2> QED BY <2>1, <1>8
<1> HIDE DEF P, c
<1>9. 1..n \in P
  BY <1>0, <1>1, <1>7, <1>8, SubsetInduction
<1> QED BY <1>6, <1>9 DEF P

\* The announcements of peer p that wait in a map of announcements.
WaitingIn(m, p) == MapThenSumSet(LAMBDA h : m[h][p], Heard)

LEMMA WaitingFold ==
    ASSUME NEW m \in [Heard -> [Peer -> Nat]], NEW p \in Peer
    PROVE  \E w \in [SUBSET Heard -> Nat] :
              /\ w[{}] = 0
              /\ \A s \in SUBSET Heard :
                    s # {} => w[s] = m[AnElement(Heard)[s]][p] + w[s \ {AnElement(Heard)[s]}]
              /\ WaitingIn(m, p) = w[Heard]
<1> DEFINE c == AnElement(Heard)
           step == [x \in Heard \X Nat |-> m[x[1]][p] + x[2]]
           Rec(w) == w = [s \in SUBSET Heard |->
                           IF s = {} THEN 0
                           ELSE m[CHOOSE x \in s : TRUE][p] + w[s \ {CHOOSE x \in s : TRUE}]]
           iter == CHOOSE w : Rec(w)
<1>0. IsFiniteSet(Heard)
  BY BlockFetcherAssumption
<1>1. Picks(Heard, c)
  BY AnElementPicks
<1>2. step \in [Heard \X Nat -> Nat]
  OBVIOUS
<1>3. PICK w : FoldsWith(Heard, Nat, c, 0, step, w)
  <2> HIDE DEF c, step
  <2> QED BY <1>0, <1>1, <1>2, FoldExists
<1>4. ASSUME NEW s \in SUBSET Heard, s # {}
      PROVE  w[s] = m[c[s]][p] + w[s \ {c[s]}]
  <2>1. c[s] \in Heard
    BY <1>1, <1>4 DEF Picks
  <2> HIDE DEF c
  <2>2. w[s \ {c[s]}] \in Nat /\ w[s] = step[<<c[s], w[s \ {c[s]}]>>]
    BY <1>3, <1>4 DEF FoldsWith
  <2> QED BY <2>1, <2>2
<1>5. Rec(w)
  <2> DEFINE R(s) == IF s = {} THEN 0
                    ELSE m[CHOOSE x \in s : TRUE][p] + w[s \ {CHOOSE x \in s : TRUE}]
  <2>1. w \in [SUBSET Heard -> Nat] /\ w[{}] = 0
    BY <1>3 DEF FoldsWith
  <2>2. ASSUME NEW s \in SUBSET Heard PROVE w[s] = R(s)
    <3>1. CASE s = {}
      BY <2>1, <3>1
    <3>2. CASE s # {}
      BY <1>4, <3>2 DEF AnElement
    <3> QED BY <3>1, <3>2
  <2> HIDE DEF R
  <2>3. w = [s \in SUBSET Heard |-> R(s)]
    BY <2>1, <2>2
  <2> QED BY <2>3 DEF R
<1>6. Rec(iter)
  <2> HIDE DEF Rec
  <2> QED BY <1>5
<1>7. WaitingIn(m, p) = iter[Heard]
  BY DEF WaitingIn, MapThenSumSet, MapThenFoldSet
<1> HIDE DEF iter
<1> DEFINE P == {s \in SUBSET Heard : iter[s] = w[s]}
<1>8. {} \in P
  BY <1>3, <1>6 DEF FoldsWith
<1>9. ASSUME NEW s \in SUBSET Heard, s # {}, s \ {c[s]} \in P PROVE s \in P
  <2>1. iter[s] = m[c[s]][p] + iter[s \ {c[s]}]
    BY <1>6, <1>9 DEF AnElement
  <2> QED BY <2>1, <1>4, <1>9
<1> HIDE DEF P
<1>10. Heard \in P
  <2> HIDE DEF c
  <2> QED BY <1>0, <1>1, <1>8, <1>9, SubsetInduction
<1> QED BY <1>3, <1>4, <1>7, <1>10 DEF FoldsWith, P

\* Only the announcements of one hash change: so much the total changes.
LEMMA WaitingChange ==
    ASSUME NEW m \in [Heard -> [Peer -> Nat]], NEW n \in [Heard -> [Peer -> Nat]],
           NEW p \in Peer, NEW h \in Heard, \A k \in Heard \ {h} : n[k][p] = m[k][p]
    PROVE  /\ WaitingIn(m, p) \in Nat /\ WaitingIn(n, p) \in Nat
           /\ WaitingIn(n, p) + m[h][p] = WaitingIn(m, p) + n[h][p]
<1> DEFINE c == AnElement(Heard)
<1>1. PICK w \in [SUBSET Heard -> Nat] :
              /\ w[{}] = 0
              /\ \A s \in SUBSET Heard : s # {} => w[s] = m[c[s]][p] + w[s \ {c[s]}]
              /\ WaitingIn(m, p) = w[Heard]
  BY WaitingFold
<1>2. PICK v \in [SUBSET Heard -> Nat] :
              /\ v[{}] = 0
              /\ \A s \in SUBSET Heard : s # {} => v[s] = n[c[s]][p] + v[s \ {c[s]}]
              /\ WaitingIn(n, p) = v[Heard]
  BY WaitingFold
<1>3. Picks(Heard, c) /\ IsFiniteSet(Heard)
  BY AnElementPicks, BlockFetcherAssumption
<1> DEFINE P == {s \in SUBSET Heard :
                   v[s] + (IF h \in s THEN m[h][p] ELSE 0) = w[s] + (IF h \in s THEN n[h][p] ELSE 0)}
<1> HIDE DEF c
<1>4. {} \in P
  BY <1>1, <1>2
<1>5. ASSUME NEW s \in SUBSET Heard, s # {}, s \ {c[s]} \in P PROVE s \in P
  <2> DEFINE r == s \ {c[s]}
  <2>1. c[s] \in s /\ c[s] \in Heard
    BY <1>3, <1>5 DEF Picks
  <2>2. w[s] = m[c[s]][p] + w[r] /\ v[s] = n[c[s]][p] + v[r]
    BY <1>1, <1>2, <1>5
  <2>3. v[r] + (IF h \in r THEN m[h][p] ELSE 0) = w[r] + (IF h \in r THEN n[h][p] ELSE 0)
    BY <1>5
  <2>4. v[r] \in Nat /\ w[r] \in Nat /\ m[h][p] \in Nat /\ n[h][p] \in Nat
        /\ m[c[s]][p] \in Nat /\ n[c[s]][p] \in Nat
    BY <2>1
  <2>5. CASE c[s] = h
    BY <2>1, <2>2, <2>3, <2>4, <2>5
  <2>6. CASE c[s] # h
    <3>1. h \in r <=> h \in s
      BY <2>6
    <3>2. n[c[s]][p] = m[c[s]][p]
      BY <2>1, <2>6
    <3> DEFINE less == IF h \in s THEN m[h][p] ELSE 0
               more == IF h \in s THEN n[h][p] ELSE 0
    <3>3. less \in Nat /\ more \in Nat
      BY <2>4
    <3>4. v[r] + less = w[r] + more
      BY <2>3, <3>1
    <3> HIDE DEF r, less, more
    <3>5. v[s] + less = w[s] + more
      <4>2. v[s] = m[c[s]][p] + v[r]
        BY <2>2, <3>2
      <4>3. (m[c[s]][p] + v[r]) + less = (m[c[s]][p] + w[r]) + more
        <5> HIDE DEF c
        <5>1. v[r] \in Nat /\ w[r] \in Nat /\ m[c[s]][p] \in Nat
          BY <2>4
        <5> DEFINE a == v[r]
                   b == w[r]
                   x == m[c[s]][p]
        <5>2. a \in Nat /\ b \in Nat /\ x \in Nat /\ a + less = b + more
          BY <5>1, <3>4
        <5> HIDE DEF a, b, x
        <5>3. (x + a) + less = (x + b) + more
          BY ONLY <5>2, <3>3
        <5> QED BY <5>3 DEF a, b, x
      <4> QED BY <4>2, <4>3, <2>2, Zenon
    <3> QED BY <3>5 DEF less, more
  <2> QED BY <2>5, <2>6
<1> HIDE DEF P
<1>6. Heard \in P
  <2>1. IsFiniteSet(Heard) /\ Picks(Heard, c)
    BY <1>3
  <2>2. \A s \in SUBSET Heard : s # {} /\ s \ {c[s]} \in P => s \in P
    BY <1>5
  <2>3. {} \in P
    BY <1>4
  <2> HIDE DEF c, P
  <2> QED BY ONLY <2>1, <2>2, <2>3, SubsetInduction, ZenonT(30)
<1> QED BY <1>1, <1>2, <1>6 DEF P

-----------------------------------------------------------------------------
(* The invariant *)

Fetchers ==
    [announces : [Peer -> Nat], announced : [Heard -> [Peer -> Nat]],
     fetching : [Heard -> Peer \cup {NoPeer}], fetched : [Heard -> Peer \cup {NoPeer}],
     completing : [Heard -> Peer \cup {NoPeer}], queue : SUBSET Heard, queues : [Peer -> Nat],
     queued : [Heard -> Peer \cup {NoPeer}], fetchTimer : BOOLEAN, completeTimer : BOOLEAN,
     importing : SUBSET Heard, finished : SUBSET Heard, ripe : SUBSET Heard, old : SUBSET Heard]

\* A queued block is in one place.
Placed(g) ==
    /\ Keys(g.queued) = g.queue \cup g.importing \cup g.finished
    /\ g.queue \cap g.importing = {}
    /\ (g.queue \cup g.importing) \cap g.finished = {}

\* The blocks charged to a peer.
QueuedBy(g, p) == {h \in Heard : g.queued[h] = p}

Charged(g) == \A p \in Peer : g.queues[p] = Cardinality(QueuedBy(g, p)) /\ g.queues[p] <= blockLimit

Allowed(g) == \A p \in Peer : g.announces[p] <= WaitingIn(g.announced, p)

\* What holds of the fetcher between any two of the changes an event makes.
SoundFetcher == {g \in Fetchers : Charged(g) /\ Allowed(g)}

Good == {g \in SoundFetcher : Placed(g)}

BlockIInv == f \in Good

\* Where the queued blocks are is the same.
SameQueue(g, r) ==
    /\ r.queue = g.queue /\ r.queues = g.queues /\ r.queued = g.queued
    /\ r.importing = g.importing /\ r.finished = g.finished

LEMMA SameQueueKeeps ==
    ASSUME NEW g, NEW r, SameQueue(g, r)
    PROVE  /\ Charged(g) => Charged(r)
           /\ Placed(g) => Placed(r)
BY DEF SameQueue, Charged, QueuedBy, Placed

-----------------------------------------------------------------------------
(* Forgetting *)

LEMMA TracesType ==
    ASSUME NEW g \in Fetchers, NEW h \in Heard, NEW p \in Peer
    PROVE  Traces(g, h, p) \in Nat /\ Traces(g, h, p) >= g.announced[h][p]
<1> DEFINE maps == {"fetching", "fetched", "completing"}
           mine == {m \in maps : g[m][h] = p}
<1>1. IsFiniteSet(maps)
  <2>1. IsFiniteSet(({"fetching"} \cup {"fetched"}) \cup {"completing"})
    BY FS_Singleton, FS_Union
  <2>2. maps = ({"fetching"} \cup {"fetched"}) \cup {"completing"}
    OBVIOUS
  <2> QED BY <2>1, <2>2
<1>2. mine \in SUBSET maps
  OBVIOUS
<1> HIDE DEF maps
<1>3. Cardinality(mine) \in Nat
  BY <1>1, <1>2, FS_Subset, FS_CardinalityType
<1>4. g.announced[h][p] \in Nat
  BY DEF Fetchers
<1>5. Traces(g, h, p) = g.announced[h][p] + Cardinality(mine)
  BY DEF Traces, maps
<1> HIDE DEF mine
<1> QED BY <1>3, <1>4, <1>5

LEMMA MaxZero ==
    ASSUME NEW a \in Int
    PROVE  Max({0, a}) = IF a <= 0 THEN 0 ELSE a
<1> DEFINE m == IF a <= 0 THEN 0 ELSE a
<1>1. m \in {0, a} /\ \A y \in {0, a} : m >= y
  OBVIOUS
<1>2. \A x \in {0, a} : (\A y \in {0, a} : x >= y) => x = m
  OBVIOUS
<1> QED BY <1>1, <1>2 DEF Max

\* A hash that is forgotten is given back at least once for every announcement
\* that waits, so no peer is charged for more than wait, and what is queued stays.
LEMMA ForgetHashSound ==
    ASSUME NEW g \in SoundFetcher, NEW h \in Heard
    PROVE  ForgetHash(g, h) \in SoundFetcher /\ SameQueue(g, ForgetHash(g, h))
<1> DEFINE r == ForgetHash(g, h)
           zero == [p \in Peer |-> 0]
<1>0. g \in Fetchers /\ Charged(g) /\ Allowed(g)
  BY DEF SoundFetcher
<1>1. ASSUME NEW p \in Peer
      PROVE  /\ Max({0, g.announces[p] - Traces(g, h, p)}) \in Nat
             /\ Max({0, g.announces[p] - Traces(g, h, p)}) <= g.announces[p]
             /\ Max({0, g.announces[p] - Traces(g, h, p)}) + g.announced[h][p] <= g.announces[p]
                \/ Max({0, g.announces[p] - Traces(g, h, p)}) = 0
  <2>1. Traces(g, h, p) \in Nat /\ Traces(g, h, p) >= g.announced[h][p]
    BY <1>0, TracesType
  <2>2. g.announces[p] \in Nat /\ g.announced[h][p] \in Nat
    BY <1>0 DEF Fetchers
  <2> DEFINE t == Traces(g, h, p)
             a == g.announces[p]
             b == g.announced[h][p]
  <2>3. t \in Nat /\ a \in Nat /\ b \in Nat /\ t >= b
    BY <2>1, <2>2
  <2> HIDE DEF t, a, b
  <2>4. Max({0, a - t}) = IF a - t <= 0 THEN 0 ELSE a - t
    BY <2>3, MaxZero
  <2>5. /\ Max({0, a - t}) \in Nat /\ Max({0, a - t}) <= a
        /\ Max({0, a - t}) + b <= a \/ Max({0, a - t}) = 0
    BY ONLY <2>3, <2>4
  <2> QED BY <2>5 DEF t, a, b
<1> DEFINE less == [p \in Peer |-> Max({0, g.announces[p] - Traces(g, h, p)})]
<1>2. less \in [Peer -> Nat]
  BY <1>1
<1>3. r = [g EXCEPT !.announces = less,
              !.announced[h] = zero,
              !.fetching[h] = NoPeer, !.fetched[h] = NoPeer, !.completing[h] = NoPeer,
              !.ripe = @ \ {h}, !.old = @ \ {h}]
  BY DEF ForgetHash
<1> HIDE DEF less, r
<1>4. r \in Fetchers
  BY <1>0, <1>2, <1>3 DEF Fetchers
<1>5. SameQueue(g, r)
  BY <1>0, <1>3 DEF Fetchers, SameQueue
<1>6. r.announces = less /\ r.announced = [g.announced EXCEPT ![h] = zero]
  BY <1>0, <1>3 DEF Fetchers
<1>7. ASSUME NEW p \in Peer PROVE r.announces[p] <= WaitingIn(r.announced, p)
  <2>1. /\ g.announced \in [Heard -> [Peer -> Nat]] /\ r.announced \in [Heard -> [Peer -> Nat]]
        /\ g.announces[p] \in Nat /\ g.announced[h][p] \in Nat
    BY <1>0, <1>4 DEF Fetchers
  <2>2. r.announced[h][p] = 0 /\ \A k \in Heard \ {h} : r.announced[k][p] = g.announced[k][p]
    BY <1>6, <2>1
  <2> DEFINE u == WaitingIn(g.announced, p)
             v == WaitingIn(r.announced, p)
             b == g.announced[h][p]
             a == g.announces[p]
  <2>3. u \in Nat /\ v \in Nat /\ v + b = u + r.announced[h][p]
    BY <2>1, <2>2, WaitingChange
  <2>4. a <= u /\ a \in Nat /\ b \in Nat
    BY <1>0, <2>1 DEF Allowed
  <2>5. less[p] \in Nat /\ (less[p] + b <= a \/ less[p] = 0)
    BY <1>1 DEF less
  <2> HIDE DEF u, v, a, b
  <2>6. v + b = u
    BY <2>2, <2>3
  <2>7. less[p] <= v
    BY ONLY <2>3, <2>4, <2>5, <2>6
  <2> QED BY <1>6, <2>7 DEF v
<1>8. Allowed(r)
  BY <1>7 DEF Allowed
<1>9. Charged(r)
  BY <1>0, <1>5, SameQueueKeeps
<1> QED BY <1>4, <1>5, <1>8, <1>9 DEF SoundFetcher, r

LEMMA ForgetHashesSound ==
    ASSUME NEW g \in SoundFetcher, NEW hashes \in SUBSET Heard
    PROVE  ForgetHashes(g, hashes) \in SoundFetcher /\ SameQueue(g, ForgetHashes(g, hashes))
<1> DEFINE A == {r \in SoundFetcher : SameQueue(g, r)}
<1>1. IsFiniteSet(hashes)
  BY BlockFetcherAssumption, FS_Subset
<1>2. g \in A
  BY DEF SameQueue
<1>3. ASSUME NEW h \in hashes, NEW r \in A PROVE ForgetHash(r, h) \in A
  <2>1. ForgetHash(r, h) \in SoundFetcher /\ SameQueue(r, ForgetHash(r, h))
    BY ForgetHashSound
  <2> QED BY <2>1 DEF SameQueue
<1> HIDE DEF A
<1>4. ForgetHashes(g, hashes) \in A
  BY <1>1, <1>2, <1>3, ForgetHashesKeeps
<1> QED BY <1>4 DEF A

\* Only the charge for blocks changes.
SamePlaces(g, r) == r.queue = g.queue /\ r.importing = g.importing /\ r.finished = g.finished

\* A block that is forgotten is charged to nobody, and its peer is given back one.
LEMMA ForgetBlockSound ==
    ASSUME NEW g \in SoundFetcher, NEW h \in Heard
    PROVE  /\ ForgetBlock(g, h) \in SoundFetcher /\ SamePlaces(g, ForgetBlock(g, h))
           /\ ForgetBlock(g, h).queued = [g.queued EXCEPT ![h] = NoPeer]
<1>0. g \in Fetchers /\ Charged(g) /\ Allowed(g)
  BY DEF SoundFetcher
<1>1. CASE g.queued[h] = NoPeer
  <2>1. ForgetBlock(g, h) = g
    BY <1>1 DEF ForgetBlock
  <2>2. g.queued = [g.queued EXCEPT ![h] = NoPeer]
    BY <1>0, <1>1 DEF Fetchers
  <2> QED BY <2>1, <2>2 DEF SamePlaces
<1>2. CASE g.queued[h] # NoPeer
  <2> DEFINE q == g.queued[h]
             r == [g EXCEPT !.queues[q] = @ - 1, !.queued[h] = NoPeer]
  <2>1. ForgetBlock(g, h) = r
    BY <1>2 DEF ForgetBlock
  <2>2. q \in Peer
    BY <1>0, <1>2 DEF Fetchers
  <2>3. /\ r.queued = [g.queued EXCEPT ![h] = NoPeer]
        /\ r.queues = [g.queues EXCEPT ![q] = @ - 1]
        /\ r.announces = g.announces /\ r.announced = g.announced
        /\ SamePlaces(g, r)
    BY <1>0 DEF Fetchers, SamePlaces
  <2>4. IsFiniteSet(QueuedBy(g, q)) /\ h \in QueuedBy(g, q)
    <3>1. QueuedBy(g, q) \in SUBSET Heard
      BY DEF QueuedBy
    <3> QED BY <3>1, FS_Subset, BlockFetcherAssumption DEF QueuedBy
  <2>5. QueuedBy(r, q) = QueuedBy(g, q) \ {h}
    BY <1>0, <2>2, <2>3, BlockFetcherAssumption DEF QueuedBy, Fetchers
  <2>6. \A p \in Peer \ {q} : QueuedBy(r, p) = QueuedBy(g, p)
    BY <1>0, <2>2, <2>3, BlockFetcherAssumption DEF QueuedBy, Fetchers
  <2>7. Cardinality(QueuedBy(r, q)) = Cardinality(QueuedBy(g, q)) - 1
    BY <2>4, <2>5, FS_RemoveElement
  <2>8. Cardinality(QueuedBy(r, q)) \in Nat
    BY <2>4, <2>5, FS_RemoveElement, FS_CardinalityType
  <2>9. g.queues \in [Peer -> Nat] /\ blockLimit \in Nat
    BY <1>0, BlockFetcherAssumption DEF Fetchers
  <2>10. g.queues[q] = Cardinality(QueuedBy(g, q)) /\ g.queues[q] <= blockLimit
    BY <1>0, <2>2 DEF Charged
  <2>11. g.queues[q] - 1 = Cardinality(QueuedBy(r, q)) /\ g.queues[q] - 1 \in Nat
         /\ g.queues[q] - 1 <= blockLimit
    BY <2>2, <2>7, <2>8, <2>9, <2>10
  <2>12. r.queues \in [Peer -> Nat]
    <3>1. r.queues = [g.queues EXCEPT ![q] = g.queues[q] - 1]
      BY <2>3
    <3> HIDE DEF r, q
    <3> QED BY <2>2, <2>9, <2>11, <3>1
  <2>13. r \in Fetchers
    <3>1. r = [g EXCEPT !.queues = r.queues, !.queued = r.queued]
      BY <1>0, <2>3 DEF Fetchers
    <3>2. r.queued \in [Heard -> Peer \cup {NoPeer}]
      BY <1>0, <2>3 DEF Fetchers
    <3> HIDE DEF r, q
    <3> QED BY <1>0, <2>12, <3>1, <3>2 DEF Fetchers
  <2> HIDE DEF r, q
  <2>14. Charged(r)
    BY <1>0, <2>2, <2>3, <2>6, <2>9, <2>11 DEF Charged
  <2>15. Allowed(r)
    BY <1>0, <2>3 DEF Allowed
  <2> QED BY <2>1, <2>3, <2>13, <2>14, <2>15 DEF SoundFetcher
<1> QED BY <1>1, <1>2

LEMMA ForgetBlocksSound ==
    ASSUME NEW g \in SoundFetcher, NEW hashes \in SUBSET Heard
    PROVE  /\ ForgetBlocks(g, hashes) \in SoundFetcher /\ SamePlaces(g, ForgetBlocks(g, hashes))
           /\ ForgetBlocks(g, hashes).queued =
                [h \in Heard |-> IF h \in hashes THEN NoPeer ELSE g.queued[h]]
<1> DEFINE A == {r \in SoundFetcher : SamePlaces(g, r)}
<1>1. IsFiniteSet(hashes) /\ hashes \subseteq Heard
  BY BlockFetcherAssumption, FS_Subset
<1>2. g \in A
  BY DEF SamePlaces
<1>3. ASSUME NEW h \in hashes, NEW r \in A
      PROVE  ForgetBlock(r, h) \in A /\ Frees(r, ForgetBlock(r, h), {h})
  <2>1. /\ ForgetBlock(r, h) \in SoundFetcher /\ SamePlaces(r, ForgetBlock(r, h))
        /\ ForgetBlock(r, h).queued = [r.queued EXCEPT ![h] = NoPeer]
    BY ForgetBlockSound
  <2>2. r.queued \in [Heard -> Peer \cup {NoPeer}]
    BY DEF SoundFetcher, Fetchers
  <2> QED BY <2>1, <2>2 DEF SamePlaces, Frees
<1> HIDE DEF A
<1>4. ForgetBlocks(g, hashes) \in A /\ Frees(g, ForgetBlocks(g, hashes), hashes)
  BY <1>1, <1>2, <1>3, ForgetBlocksKeeps
<1>5. ForgetBlocks(g, hashes).queued \in [Heard -> Peer \cup {NoPeer}]
  BY <1>4 DEF A, SoundFetcher, Fetchers
<1> QED BY <1>4, <1>5 DEF A, Frees

\* What the loop does before it waits: blocks leave the queue for an import, or
\* are forgotten, and never both.
LEMMA LoopTopGood ==
    ASSUME NEW g \in Good
    PROVE  LoopTop(g) \in Good
<1> DEFINE fresh == ForgetHashes(g, g.old)
           due == {h \in g.queue : Number[h] <= Height + 1}
           useless == {h \in due : Number[h] + maxUncleDist < Height \/ h \in known}
           after == ForgetBlocks(fresh, useless)
           r == [after EXCEPT !.queue = @ \ due, !.importing = @ \cup (due \ useless)]
<1>0. g \in SoundFetcher /\ Placed(g) /\ g \in Fetchers
  BY DEF Good, SoundFetcher
<1>1. LoopTop(g) = r
  BY DEF LoopTop
<1>2. due \subseteq g.queue /\ useless \subseteq due /\ g.queue \subseteq Heard
      /\ g.importing \subseteq Heard /\ g.finished \subseteq Heard /\ g.old \in SUBSET Heard
  BY <1>0 DEF Fetchers
<1> HIDE DEF due, useless
<1>3. fresh \in SoundFetcher /\ SameQueue(g, fresh)
  BY <1>0, <1>2, ForgetHashesSound
<1> HIDE DEF fresh
<1>4. /\ after \in SoundFetcher /\ SamePlaces(fresh, after)
      /\ after.queued = [h \in Heard |-> IF h \in useless THEN NoPeer ELSE fresh.queued[h]]
  <2>1. useless \in SUBSET Heard
    BY <1>2
  <2> QED BY <1>3, <2>1, ForgetBlocksSound
<1> HIDE DEF after
<1>5. after \in Fetchers /\ Charged(after) /\ Allowed(after)
  BY <1>4 DEF SoundFetcher
<1>6. /\ after.queue = g.queue /\ after.importing = g.importing /\ after.finished = g.finished
      /\ after.queued = [h \in Heard |-> IF h \in useless THEN NoPeer ELSE g.queued[h]]
  BY <1>3, <1>4 DEF SameQueue, SamePlaces
<1>7. /\ r.queue = g.queue \ due /\ r.importing = g.importing \cup (due \ useless)
      /\ r.finished = g.finished /\ r.queued = after.queued /\ r.queues = after.queues
      /\ r.announces = after.announces /\ r.announced = after.announced
  BY <1>5, <1>6 DEF Fetchers
<1>8. r \in Fetchers
  BY <1>2, <1>5, <1>6 DEF Fetchers
<1> HIDE DEF r
<1>9. Charged(r) /\ Allowed(r)
  BY <1>5, <1>7 DEF Charged, QueuedBy, Allowed
<1>10. Keys(r.queued) = Keys(g.queued) \ useless
  BY <1>6, <1>7 DEF Keys
<1>11. Placed(r)
  <2>1. Keys(g.queued) = g.queue \cup g.importing \cup g.finished
        /\ g.queue \cap g.importing = {} /\ (g.queue \cup g.importing) \cap g.finished = {}
    BY <1>0 DEF Placed
  <2> QED BY <1>2, <1>7, <1>10, <2>1 DEF Placed
<1> QED BY <1>1, <1>8, <1>9, <1>11 DEF Good, SoundFetcher

-----------------------------------------------------------------------------
(* Enqueuing *)

\* The block of a peer within its share of the queue is queued for it, unless it
\* is queued, being imported or reporting back for another.
LEMMA EnqueueGood ==
    ASSUME NEW g \in Good, NEW p \in Peer, NEW h \in Heard
    PROVE  Enqueue(g, p, h) \in Good
<1>0. g \in SoundFetcher /\ Placed(g) /\ g \in Fetchers /\ Charged(g) /\ Allowed(g)
  BY DEF Good, SoundFetcher
<1>1. CASE g.queues[p] + 1 > blockLimit \/ ~InRange(Number[h])
  <2>1. Enqueue(g, p, h) = ForgetHash(g, h)
    BY <1>1 DEF Enqueue
  <2> QED BY <1>0, <2>1, ForgetHashSound, SameQueueKeeps DEF Good
<1>2. CASE ~ (g.queues[p] + 1 > blockLimit \/ ~InRange(Number[h])) /\ g.queued[h] # NoPeer
  <2>1. Enqueue(g, p, h) = g
    BY <1>2 DEF Enqueue
  <2> QED BY <2>1
<1>3. CASE ~ (g.queues[p] + 1 > blockLimit \/ ~InRange(Number[h])) /\ g.queued[h] = NoPeer
  <2> DEFINE r == [g EXCEPT !.queues[p] = @ + 1, !.queued[h] = p, !.queue = @ \cup {h}]
  <2>1. Enqueue(g, p, h) = r
    BY <1>3 DEF Enqueue
  <2>2. g.queues \in [Peer -> Nat] /\ blockLimit \in Nat
    BY <1>0, BlockFetcherAssumption DEF Fetchers
  <2>3. g.queues[p] + 1 <= blockLimit
    BY <1>3, <2>2
  <2>4. r \in Fetchers
    <3>1. [g.queues EXCEPT ![p] = @ + 1] \in [Peer -> Nat]
      BY <2>2
    <3>2. [g.queued EXCEPT ![h] = p] \in [Heard -> Peer \cup {NoPeer}] /\ g.queue \cup {h} \in SUBSET Heard
      BY <1>0 DEF Fetchers
    <3> QED BY <1>0, <3>1, <3>2 DEF Fetchers
  <2>5. /\ r.queued = [g.queued EXCEPT ![h] = p] /\ r.queues = [g.queues EXCEPT ![p] = @ + 1]
        /\ r.queue = g.queue \cup {h} /\ r.importing = g.importing /\ r.finished = g.finished
        /\ r.announces = g.announces /\ r.announced = g.announced
    BY <1>0 DEF Fetchers
  <2> HIDE DEF r
  <2>6. g.queued \in [Heard -> Peer \cup {NoPeer}] /\ NoPeer # p
    BY <1>0, BlockFetcherAssumption DEF Fetchers
  <2>7. Keys(r.queued) = Keys(g.queued) \cup {h} /\ h \notin Keys(g.queued)
    BY <1>3, <2>5, <2>6 DEF Keys
  <2>8. Placed(r)
    BY <1>0, <2>5, <2>7 DEF Placed
  <2>9. QueuedBy(r, p) = QueuedBy(g, p) \cup {h} /\ h \notin QueuedBy(g, p)
    BY <1>3, <2>5, <2>6 DEF QueuedBy
  <2>10. \A q \in Peer \ {p} : QueuedBy(r, q) = QueuedBy(g, q)
    BY <1>3, <2>5, <2>6, BlockFetcherAssumption DEF QueuedBy
  <2>11. Cardinality(QueuedBy(r, p)) = Cardinality(QueuedBy(g, p)) + 1
    <3>1. QueuedBy(g, p) \in SUBSET Heard
      BY DEF QueuedBy
    <3> QED BY <2>9, <3>1, FS_Subset, FS_AddElement, BlockFetcherAssumption
  <2>12. Charged(r)
    BY <1>0, <2>2, <2>3, <2>5, <2>10, <2>11 DEF Charged
  <2>13. Allowed(r)
    BY <1>0, <2>5 DEF Allowed
  <2> QED BY <2>1, <2>4, <2>8, <2>12, <2>13 DEF Good, SoundFetcher
<1> QED BY <1>1, <1>2, <1>3

-----------------------------------------------------------------------------
(* The events of the loop *)

\* What is fetched or completed, and when, does not matter to the queue and the
\* allowances.
LEMMA SameGood ==
    ASSUME NEW g, g \in SoundFetcher, NEW r \in Fetchers, SameQueue(g, r),
           r.announces = g.announces, r.announced = g.announced
    PROVE  r \in SoundFetcher /\ (Placed(g) => r \in Good)
<1>1. Charged(r) /\ (Placed(g) => Placed(r))
  BY SameQueueKeeps DEF SoundFetcher
<1>2. Allowed(r)
  BY DEF SoundFetcher, Allowed
<1> QED BY <1>1, <1>2 DEF Good, SoundFetcher

\* A hash is charged when its announcement is made to wait.
LEMMA NotifyBlockStep ==
    ASSUME BlockIInv, NEW p \in Peer, NEW h \in Heard, NEW number, NotifyBlock(p, h, number)
    PROVE  BlockIInv'
<1> DEFINE g == [f EXCEPT !.announces[p] = @ + 1, !.announced[h][p] = @ + 1]
           r == [g EXCEPT !.fetchTimer = @ \/ Cardinality(Announced(g)) = 1]
<1>0. f \in Fetchers /\ Charged(f) /\ Allowed(f) /\ Placed(f)
  BY DEF BlockIInv, Good, SoundFetcher
<1>1. f' = LoopTop(r)
  BY DEF NotifyBlock
<1>2. /\ f.announces \in [Peer -> Nat] /\ f.announced \in [Heard -> [Peer -> Nat]]
  BY <1>0 DEF Fetchers
<1>3. /\ g.announces = [f.announces EXCEPT ![p] = @ + 1]
      /\ g.announced = [f.announced EXCEPT ![h][p] = @ + 1]
      /\ SameQueue(f, g)
  BY <1>0 DEF Fetchers, SameQueue
<1>4. g.announces \in [Peer -> Nat] /\ g.announced \in [Heard -> [Peer -> Nat]]
  BY <1>2, <1>3
<1>5. g \in Fetchers
  BY <1>0, <1>3, <1>4 DEF Fetchers
<1> HIDE DEF g
<1>6. ASSUME NEW q \in Peer PROVE g.announces[q] <= WaitingIn(g.announced, q)
  <2>1. \A k \in Heard \ {h} : g.announced[k][q] = f.announced[k][q]
    BY <1>2, <1>3
  <2> DEFINE u == WaitingIn(f.announced, q)
             v == WaitingIn(g.announced, q)
             b == f.announced[h][q]
             a == f.announces[q]
  <2>2. u \in Nat /\ v \in Nat /\ v + b = u + g.announced[h][q]
    BY <1>2, <1>4, <2>1, WaitingChange
  <2>3. a <= u /\ a \in Nat /\ b \in Nat
    BY <1>0, <1>2 DEF Allowed
  <2> HIDE DEF u, v
  <2>4. CASE q = p
    <3>1. g.announced[h][q] = b + 1 /\ g.announces[q] = a + 1
      BY <1>2, <1>3, <2>4
    <3> HIDE DEF a, b
    <3>2. v + b = u + (b + 1)
      BY <2>2, <3>1
    <3>3. a + 1 <= v
      BY ONLY <2>2, <2>3, <3>2
    <3> QED BY <3>1, <3>3 DEF v
  <2>5. CASE q # p
    <3>1. g.announced[h][q] = b /\ g.announces[q] = a
      BY <1>2, <1>3, <2>5
    <3> HIDE DEF a, b
    <3>2. v + b = u + b
      BY <2>2, <3>1
    <3>3. a <= v
      BY ONLY <2>2, <2>3, <3>2
    <3> QED BY <3>1, <3>3 DEF v
  <2> QED BY <2>4, <2>5
<1>7. g \in SoundFetcher /\ Placed(g)
  BY <1>0, <1>3, <1>5, <1>6, SameQueueKeeps DEF SoundFetcher, Allowed
<1>8. r \in Fetchers /\ SameQueue(g, r) /\ r.announces = g.announces /\ r.announced = g.announced
  BY <1>5 DEF Fetchers, SameQueue
<1> HIDE DEF r
<1>9. r \in Good
  BY <1>7, <1>8, SameGood
<1> QED BY <1>1, <1>9, LoopTopGood DEF BlockIInv

LEMMA IgnoredStep == ASSUME BlockIInv, Ignored PROVE BlockIInv'
BY LoopTopGood DEF BlockIInv, Ignored

LEMMA InjectStep ==
    ASSUME BlockIInv, NEW p \in Peer, NEW h \in Heard, Inject(p, h)
    PROVE  BlockIInv'
BY EnqueueGood, LoopTopGood DEF BlockIInv, Inject

\* A block whose import has ended is charged to nobody and may be queued again.
LEMMA ImportDoneStep ==
    ASSUME BlockIInv, NEW h \in Heard, ImportDone(h)
    PROVE  BlockIInv'
<1> DEFINE g == [f EXCEPT !.finished = @ \ {h}]
           a == ForgetHash(g, h)
           b == ForgetBlock(a, h)
<1>0. f \in Fetchers /\ Charged(f) /\ Allowed(f) /\ Placed(f)
  BY DEF BlockIInv, Good, SoundFetcher
<1>1. f' = LoopTop(b) /\ h \in f.finished
  BY DEF ImportDone
<1>2. /\ g.queued = f.queued /\ g.queues = f.queues /\ g.queue = f.queue
      /\ g.importing = f.importing /\ g.finished = f.finished \ {h}
      /\ g.announces = f.announces /\ g.announced = f.announced
  BY <1>0 DEF Fetchers
<1>3. g \in Fetchers
  BY <1>0 DEF Fetchers
<1> HIDE DEF g
<1>4. g \in SoundFetcher
  BY <1>0, <1>2, <1>3 DEF SoundFetcher, Charged, QueuedBy, Allowed
<1>5. a \in SoundFetcher /\ SameQueue(g, a)
  BY <1>4, ForgetHashSound
<1> HIDE DEF a
<1>6. b \in SoundFetcher /\ SamePlaces(a, b) /\ b.queued = [a.queued EXCEPT ![h] = NoPeer]
  BY <1>5, ForgetBlockSound
<1> HIDE DEF b
<1>7. /\ b.queue = f.queue /\ b.importing = f.importing /\ b.finished = f.finished \ {h}
      /\ b.queued = [f.queued EXCEPT ![h] = NoPeer]
  BY <1>2, <1>5, <1>6 DEF SameQueue, SamePlaces
<1>8. Keys(b.queued) = Keys(f.queued) \ {h}
  BY <1>0, <1>7 DEF Keys, Fetchers
<1>9. Placed(b)
  BY <1>0, <1>1, <1>7, <1>8 DEF Placed
<1> QED BY <1>1, <1>6, <1>9, LoopTopGood DEF BlockIInv, Good

LEMMA FetchTimerStep ==
    ASSUME BlockIInv, NEW origin \in [f.ripe -> Peer], FetchTimer(origin)
    PROVE  BlockIInv'
<1> DEFINE g == ForgetHashes(f, f.ripe)
           r == [g EXCEPT
                  !.fetching = [h \in Heard |-> IF h \in f.ripe \ known THEN origin[h] ELSE @[h]],
                  !.fetchTimer = Announced(g) # {}]
<1>1. f \in SoundFetcher /\ Placed(f) /\ f.ripe \in SUBSET Heard
  BY DEF BlockIInv, Good, SoundFetcher, Fetchers
<1>2. g \in SoundFetcher /\ SameQueue(f, g)
  BY <1>1, ForgetHashesSound
<1>3. Placed(g)
  BY <1>1, <1>2, SameQueueKeeps
<1>4. f' = LoopTop(r)
  BY DEF FetchTimer
<1> HIDE DEF g
<1>5. r \in Fetchers
  BY <1>1, <1>2 DEF SoundFetcher, Fetchers
<1>6. SameQueue(g, r) /\ r.announces = g.announces /\ r.announced = g.announced
  BY <1>2 DEF SoundFetcher, Fetchers, SameQueue
<1> HIDE DEF r
<1>7. r \in Good
  BY <1>2, <1>3, <1>5, <1>6, SameGood
<1> QED BY <1>4, <1>7, LoopTopGood DEF BlockIInv

LEMMA CompleteTimerStep ==
    ASSUME BlockIInv, CompleteTimer
    PROVE  BlockIInv'
<1> DEFINE ready == Keys(f.fetched)
           g == ForgetHashes(f, ready)
           r == [g EXCEPT
                  !.completing = [h \in Heard |-> IF h \in ready \ known THEN f.fetched[h] ELSE @[h]],
                  !.completeTimer = FALSE]
<1>1. f \in SoundFetcher /\ Placed(f) /\ ready \in SUBSET Heard
      /\ f.fetched \in [Heard -> Peer \cup {NoPeer}]
  BY DEF BlockIInv, Good, SoundFetcher, Fetchers, Keys
<1>2. f' = LoopTop(r)
  BY DEF CompleteTimer
<1> HIDE DEF ready
<1>3. g \in SoundFetcher /\ SameQueue(f, g)
  BY <1>1, ForgetHashesSound
<1>4. Placed(g)
  BY <1>1, <1>3, SameQueueKeeps
<1> HIDE DEF g
<1>5. r \in Fetchers
  BY <1>1, <1>3 DEF SoundFetcher, Fetchers
<1>6. SameQueue(g, r) /\ r.announces = g.announces /\ r.announced = g.announced
  BY <1>3 DEF SoundFetcher, Fetchers, SameQueue
<1> HIDE DEF r
<1>7. r \in Good
  BY <1>3, <1>4, <1>5, <1>6, SameGood
<1> QED BY <1>2, <1>7, LoopTopGood DEF BlockIInv

LEMMA AnswerHeaderStep ==
    ASSUME BlockIInv, NEW p \in Peer, NEW h \in Heard, NEW promised \in BOOLEAN,
           AnswerHeader(p, h, promised)
    PROVE  BlockIInv'
<1> DEFINE timed == [f EXCEPT !.old = @ \ {h}]
           fetched == [timed EXCEPT !.fetched[h] = p]
           asked == [timed EXCEPT !.completing[h] = p]
           waits == [fetched EXCEPT !.completeTimer = @ \/ Cardinality(Keys(fetched.fetched)) = 1]
<1>1. f \in SoundFetcher /\ Placed(f) /\ f \in Fetchers /\ f \in Good
  BY DEF BlockIInv, Good, SoundFetcher
<1>2. \/ f' = LoopTop(ForgetHash(f, h))
      \/ f' = LoopTop(Enqueue(asked, p, h))
      \/ f' = LoopTop(waits)
  BY DEF AnswerHeader
<1>3. ForgetHash(f, h) \in Good
  BY <1>1, ForgetHashSound, SameQueueKeeps DEF Good
<1>4. Enqueue(asked, p, h) \in Good
  <2>1. asked \in Fetchers /\ SameQueue(f, asked)
        /\ asked.announces = f.announces /\ asked.announced = f.announced
    BY <1>1 DEF Fetchers, SameQueue
  <2> HIDE DEF asked
  <2>2. asked \in Good
    BY <1>1, <2>1, SameGood
  <2> QED BY <2>2, EnqueueGood
<1>5. waits \in Good
  <2>1. fetched \in Fetchers /\ SameQueue(f, fetched)
        /\ fetched.announces = f.announces /\ fetched.announced = f.announced
    BY <1>1 DEF Fetchers, SameQueue
  <2> HIDE DEF fetched
  <2>2. waits \in Fetchers /\ SameQueue(f, waits)
        /\ waits.announces = f.announces /\ waits.announced = f.announced
    BY <2>1 DEF Fetchers, SameQueue
  <2> HIDE DEF waits
  <2> QED BY <1>1, <2>2, SameGood
<1> HIDE DEF asked, waits
<1> QED BY <1>2, <1>3, <1>4, <1>5, LoopTopGood DEF BlockIInv

\* Bodies are enqueued one after the other: the share of the peer may be used up
\* by the first of them.
LEMMA AnswerBodiesStep ==
    ASSUME BlockIInv, NEW p \in Peer, NEW s \in SUBSET Heard, NEW order \in SetToSeqs(s),
           AnswerBodies(p, order)
    PROVE  BlockIInv'
<1> DEFINE g == ForgetHashes(f, ToSet(order) \cap known)
           n == Cardinality(s)
           r == FoldLeft(LAMBDA acc, h : Queueing(p, acc, h), g, order)
<1>1. n \in Nat
  BY BlockFetcherAssumption, FS_Subset, FS_CardinalityType
<1>2. order \in [1..n -> Heard]
  BY DEF SetToSeqs
<1>3. ToSet(order) \cap known \in SUBSET Heard
  BY <1>2 DEF ToSet
<1>4. f' = LoopTop(r)
  BY DEF AnswerBodies, Queueing, FoldLeft, MapThenFoldSet
<1>5. f \in SoundFetcher /\ Placed(f)
  BY DEF BlockIInv, Good
<1>6. g \in Good
  BY <1>3, <1>5, ForgetHashesSound, SameQueueKeeps DEF Good
<1>7. \A h \in Heard, a \in Good : Queueing(p, a, h) \in Good
  BY EnqueueGood DEF Queueing
<1> HIDE DEF g, n
<1>8. r \in Good
  BY <1>1, <1>2, <1>6, <1>7, QueueingKeeps
<1> HIDE DEF r
<1> QED BY <1>4, <1>8, LoopTopGood DEF BlockIInv

\* An import leaves the fetcher's books alone until it has reported back.
LEMMA ImportStep ==
    ASSUME BlockIInv, NEW h \in Heard, Import(h)
    PROVE  BlockIInv'
<1> DEFINE r == [f EXCEPT !.importing = @ \ {h}, !.finished = @ \cup {h}]
<1>0. f \in Fetchers /\ Charged(f) /\ Allowed(f) /\ Placed(f)
  BY DEF BlockIInv, Good, SoundFetcher
<1>1. f' = r /\ h \in f.importing
  BY DEF Import
<1>2. /\ r.queued = f.queued /\ r.queues = f.queues /\ r.queue = f.queue
      /\ r.importing = f.importing \ {h} /\ r.finished = f.finished \cup {h}
      /\ r.announces = f.announces /\ r.announced = f.announced
  BY <1>0 DEF Fetchers
<1>3. r \in Fetchers
  BY <1>0 DEF Fetchers
<1> HIDE DEF r
<1>4. Charged(r) /\ Allowed(r)
  BY <1>0, <1>2 DEF Charged, QueuedBy, Allowed
<1>5. Placed(r)
  BY <1>0, <1>1, <1>2 DEF Placed
<1> QED BY <1>1, <1>3, <1>4, <1>5 DEF BlockIInv, Good, SoundFetcher

LEMMA RipenOrAgeStep ==
    ASSUME BlockIInv, NEW h \in Heard, Ripen(h) \/ Age(h)
    PROVE  BlockIInv'
<1>1. f \in SoundFetcher /\ Placed(f) /\ f \in Fetchers
  BY DEF BlockIInv, Good, SoundFetcher
<1> DEFINE ripened == [f EXCEPT !.ripe = @ \cup {h}]
           aged == [f EXCEPT !.old = @ \cup {h}]
<1>2. f' = ripened \/ f' = aged
  BY DEF Ripen, Age
<1>3. ripened \in Good
  <2>1. ripened \in Fetchers /\ SameQueue(f, ripened)
        /\ ripened.announces = f.announces /\ ripened.announced = f.announced
    BY <1>1 DEF Fetchers, SameQueue
  <2> HIDE DEF ripened
  <2> QED BY <1>1, <2>1, SameGood
<1>4. aged \in Good
  <2>1. aged \in Fetchers /\ SameQueue(f, aged)
        /\ aged.announces = f.announces /\ aged.announced = f.announced
    BY <1>1 DEF Fetchers, SameQueue
  <2> HIDE DEF aged
  <2> QED BY <1>1, <2>1, SameGood
<1> QED BY <1>2, <1>3, <1>4 DEF BlockIInv

-----------------------------------------------------------------------------
(* The theorems *)

LEMMA InitBlockIInv == BlockFetcherInit => BlockIInv
<1> SUFFICES ASSUME BlockFetcherInit PROVE BlockIInv
  OBVIOUS
<1>1. f \in Fetchers
  BY DEF BlockFetcherInit, Fetchers
<1>2. /\ f.queued = [h \in Heard |-> NoPeer] /\ f.queues = [p \in Peer |-> 0]
      /\ f.queue = {} /\ f.importing = {} /\ f.finished = {}
      /\ f.announces = [p \in Peer |-> 0] /\ f.announced \in [Heard -> [Peer -> Nat]]
  BY DEF BlockFetcherInit
<1>3. Placed(f)
  BY <1>2 DEF Placed, Keys
<1>4. Charged(f)
  <2>1. \A p \in Peer : QueuedBy(f, p) = {}
    BY <1>2, BlockFetcherAssumption DEF QueuedBy
  <2>2. Cardinality({}) = 0 /\ 0 <= blockLimit
    BY FS_EmptySet, BlockFetcherAssumption
  <2> QED BY <1>2, <2>1, <2>2 DEF Charged
<1>5. Allowed(f)
  <2> SUFFICES ASSUME NEW p \in Peer PROVE WaitingIn(f.announced, p) \in Nat
    BY <1>2 DEF Allowed
  <2>1. f.announced \in [Heard -> [Peer -> Nat]]
    BY <1>2
  <2>2. PICK w \in [SUBSET Heard -> Nat] : WaitingIn(f.announced, p) = w[Heard]
    BY <2>1, WaitingFold
  <2> QED BY <2>2
<1> QED BY <1>1, <1>3, <1>4, <1>5 DEF BlockIInv, Good, SoundFetcher

LEMMA NextBlockIInv == BlockIInv /\ [BlockFetcherNext]_blockFetcherVars => BlockIInv'
<1> SUFFICES ASSUME BlockIInv, [BlockFetcherNext]_blockFetcherVars PROVE BlockIInv'
  OBVIOUS
<1>1. CASE \E p \in Peer, h \in Heard : \E n \in {Number[h], Height + 1} : NotifyBlock(p, h, n)
  BY <1>1, NotifyBlockStep
<1>2. CASE Ignored
  BY <1>2, IgnoredStep
<1>3. CASE \E p \in Peer, h \in Heard : Inject(p, h)
  BY <1>3, InjectStep
<1>4. CASE \E h \in Heard : ImportDone(h)
  BY <1>4, ImportDoneStep
<1>5. CASE Timers
  BY <1>5, FetchTimerStep, CompleteTimerStep DEF Timers
<1>6. CASE \E p \in Peer, h \in Heard, promised \in BOOLEAN : AnswerHeader(p, h, promised)
  BY <1>6, AnswerHeaderStep
<1>7. CASE \E p \in Peer, s \in SUBSET Heard \ {{}} : \E order \in SetToSeqs(s) : AnswerBodies(p, order)
  BY <1>7, AnswerBodiesStep
<1>8. CASE \E h \in Heard : Import(h) \/ Ripen(h) \/ Age(h)
  BY <1>8, ImportStep, RipenOrAgeStep
<1>9. CASE \E b \in Block : ChainGrows(b)
  BY <1>9 DEF ChainGrows, BlockIInv
<1>10. CASE UNCHANGED blockFetcherVars
  BY <1>10 DEF blockFetcherVars, BlockIInv
<1> QED BY <1>1, <1>2, <1>3, <1>4, <1>5, <1>6, <1>7, <1>8, <1>9, <1>10 DEF BlockFetcherNext

(***************************************************************************)
(* For any peers, blocks, chain and limits: a block that enqueue took is   *)
(* in one of the queue, the imports and the reports, once, and charged to  *)
(* the peer that brought it, within blockLimit.                            *)
(***************************************************************************)
THEOREM BlocksQueuedOnce == BlockFetcherSpec => []QueuedOnce
<1>1. BlockIInv => QueuedOnce
  BY DEF BlockIInv, Good, SoundFetcher, Placed, Charged, QueuedBy, QueuedOnce
<1> QED BY <1>1, InitBlockIInv, NextBlockIInv, PTL DEF BlockFetcherSpec

(***************************************************************************)
(* For any peers, blocks, chain and limits: forgetHash gives back all that *)
(* notify charged, so no peer is charged for an announcement that no       *)
(* longer waits.                                                           *)
(***************************************************************************)
THEOREM AllowancesReturn == BlockFetcherSpec => []AllowanceReturns
<1>1. BlockIInv => AllowanceReturns
  BY DEF BlockIInv, Good, SoundFetcher, Allowed, AllowanceReturns, Waiting, WaitingIn, MapThenSumSet, MapThenFoldSet
<1> QED BY <1>1, InitBlockIInv, NextBlockIInv, PTL DEF BlockFetcherSpec

=============================================================================
