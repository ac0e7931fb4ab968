------------------------- MODULE TdiFirewallProofs -------------------------
(***************************************************************************)
(* Theorems about TdiFirewall, for any number of IRPs, requests and        *)
(* clients.                                                                *)
(*                                                                         *)
(* What makes the firewall answer an IRP once is that one party has it:    *)
(* its dispatch, the list, the canceller, fwThread or, inside an           *)
(* FW_REQUEST, whoever may still inject that request.  OwnerInv says so of *)
(* the IRP and InjectInv of the request; QueueInv and RoutineInv are about *)
(* the handover under g_PendingRequestListLock.  A request goes down the   *)
(* list of clients once, so that those behind the one who has stopped it   *)
(* have no clone yet (WalkInv), and nobody was left out (SeenInv).         *)
(***************************************************************************)
EXTENDS TdiFirewall, ListsProofs, FiniteSetTheorems

\* The types, but for what Cardinality is needed for.
TypeInv ==
    /\ irp \in [Irps -> {"none", "pending", "passed", "failed", "cancelled"}]
    /\ cancel \in [Irps -> BOOLEAN]
    /\ routine \in [Irps -> BOOLEAN]
    /\ dpc \in [Irps -> {"none", "chain", "pend", "check", "swap", "complete",
                         "event"}]
    /\ dreq \in [Irps -> Requests \cup {NULL}]
    /\ cpc \in [Irps -> {"none", "swap", "remove", "complete", "event"}]
    /\ pendQ \in Seq(Requests) /\ IsInjective(pendQ)
    /\ pendLock \in Irps \cup {FwThread, NULL}
    /\ event \in BOOLEAN
    /\ used \subseteq Requests
    /\ reqIrp \in [Requests -> Irps \cup {NULL}]
    /\ frefs \in [Requests -> Nat]
    /\ pc \in [Actors -> {"idle", "lock", "scan", "serve", "walk", "check",
                          "chain", "clear", "free"}]
    /\ \A c \in Clients : pc[c] \in {"idle", "walk", "check", "chain", "clear"}
    /\ on \in [Actors -> Requests \cup {NULL}]
    /\ at \in Nat
    /\ held \in [Clients -> SUBSET Requests]
    /\ mayInject \in [Clients -> SUBSET Requests]
    /\ mustSee \in [Irps -> SUBSET Clients]
    /\ approved \in [Irps -> SUBSET Clients]
    /\ skipped \in [Irps -> SUBSET Clients]
    /\ fwList \in Seq(Clients) /\ IsInjective(fwList)

\* Between PendInsert and PendCheck or PendSwap the dispatch has the lock; while
\* it looks at the list fwThread has.
QueueInv ==
    /\ \A i \in Irps : dpc[i] \in {"check", "swap"} =>
           /\ pendLock = i
           /\ dreq[i] \in ToSet(pendQ) /\ reqIrp[dreq[i]] = i
    /\ pc[FwThread] = "scan" =>
           pendLock = FwThread /\ at \in 1..(Len(pendQ) + 1)
    /\ pc[FwThread] # "scan" => at = 0

\* A request is in one place: with its dispatch, on the list, with fwThread
\* or with clients.
PlaceInv ==
    /\ ToSet(pendQ) \subseteq used
    /\ \A r \in ToSet(pendQ) : reqIrp[r] # NULL
    /\ \A i \in Irps : dpc[i] = "pend" =>
           /\ dreq[i] \in used \ ToSet(pendQ)
           /\ reqIrp[dreq[i]] = i
           /\ on[FwThread] # dreq[i]
           /\ frefs[dreq[i]] = 0
    /\ pc[FwThread] \in {"idle", "lock", "scan"} => on[FwThread] = NULL
    /\ pc[FwThread] \notin {"idle", "lock", "scan"} =>
           on[FwThread] \in used \ ToSet(pendQ)
    /\ pc[FwThread] = "serve" =>
           reqIrp[on[FwThread]] # NULL /\ frefs[on[FwThread]] = 0
    /\ \A c \in Clients : /\ mayInject[c] \subseteq held[c]
                          /\ held[c] # {} => c \in Registered
                          /\ pc[c] # "idle" => on[c] \in held[c]

\* The users of a request are counted.
Users(r) ==
    {c \in Clients : r \in held[c]}
      \cup {x \in {FwThread} : on[x] = r /\ pc[x] # "serve"}

CountInv ==
    \A r \in Requests :
        /\ IsFiniteSet(Users(r))
        /\ frefs[r] = Cardinality(Users(r))
        /\ Users(r) # {} => r \in used \ ToSet(pendQ)

\* x is about to inject r, or is injecting it.
Injecting(x, r) == pc[x] \in {"walk", "check", "chain", "clear"} /\ on[x] = r

\* One at a time injects a request, or may, and finds its IRP in it.
InjectInv ==
    \A r \in Requests :
        /\ \A x, y \in Actors : Injecting(x, r) /\ Injecting(y, r) => x = y
        /\ \A x \in Actors, c \in Clients :
               ~(Injecting(x, r) /\ r \in mayInject[c])
        /\ \A c, d \in Clients : r \in mayInject[c] /\ r \in mayInject[d] => c = d
        /\ \A x \in Actors : Injecting(x, r) => reqIrp[r] # NULL
        /\ \A c \in Clients : r \in mayInject[c] => reqIrp[r] # NULL

\* A request whose IRP still has to be answered through it.
Live(r) ==
    /\ r \in used /\ reqIrp[r] # NULL
    /\ \A x \in Actors : ~(pc[x] = "clear" /\ on[x] = r)

\* An IRP is unanswered as long as somebody has it, and one has it at a time.
OwnerInv ==
    /\ \A r \in Requests : Live(r) => irp[reqIrp[r]] = "pending"
    /\ \A q, r \in Requests :
           Live(q) /\ Live(r) /\ reqIrp[q] = reqIrp[r] => q = r
    /\ \A i \in Irps :
           /\ dpc[i] \in {"chain", "complete"} => irp[i] = "pending"
           /\ cpc[i] = "complete" => irp[i] = "pending"
           /\ dpc[i] \in {"chain", "complete"} =>
                  /\ cpc[i] # "complete"
                  /\ \A r \in Requests : Live(r) => reqIrp[r] # i
           /\ cpc[i] = "complete" =>
                  \A r \in Requests : Live(r) => reqIrp[r] # i

\* The cancel routine is set as long as the request is on the list and
\* tdiCancelIrp has not been called for it.
RoutineInv ==
    /\ \A i \in Irps :
           routine[i] \/ cpc[i] = "remove" =>
               \E r \in ToSet(pendQ) : reqIrp[r] = i
    /\ \A r \in ToSet(pendQ) : routine[reqIrp[r]] <=> cpc[reqIrp[r]] # "remove"

\* An IRP is cancelled once, and not used again before that is over.
CancelInv ==
    \A i \in Irps :
        /\ cpc[i] # "none" => cancel[i] = TRUE
        /\ irp[i] = "none" => cancel[i] = FALSE /\ dpc[i] = "none"

\* Those behind the client who has stopped a request have not seen it.
WalkInv ==
    /\ pc[FwThread] = "walk" => \A d \in Clients : on[FwThread] \notin held[d]
    /\ \A c \in Clients, r \in Requests :
           r \in mayInject[c] \/ (pc[c] = "walk" /\ on[c] = r) =>
               \A d \in After(fwList, c) : r \notin held[d]

\* Who has let an IRP pass, or was left out by a STATUS_PENDING.
Done == [i \in Irps |-> approved[i] \cup skipped[i]]

\* Who must still see an IRP's request comes behind that client, and who
\* has seen it has let it pass.
SeenInv ==
    /\ \A i \in Irps :
           /\ irp[i] = "none" => mustSee[i] = {}
           /\ dpc[i] \in {"chain", "pend"} => mustSee[i] = {}
           /\ irp[i] = "passed" => mustSee[i] \subseteq Done[i]
    /\ \A r \in ToSet(pendQ) : mustSee[reqIrp[r]] = {}
    /\ pc[FwThread] = "serve" => mustSee[reqIrp[on[FwThread]]] = {}
    /\ \A x \in Actors : pc[x] \in {"check", "chain"} =>
           mustSee[reqIrp[on[x]]] \subseteq Done[reqIrp[on[x]]]
    /\ \A c \in Clients, r \in Requests :
           r \in mayInject[c] \/ (pc[c] = "walk" /\ on[c] = r) =>
               mustSee[reqIrp[r]] \subseteq
                   Done[reqIrp[r]] \cup {c} \cup After(fwList, c)

IndInv ==
    /\ TypeInv /\ QueueInv /\ PlaceInv /\ CountInv /\ InjectInv /\ OwnerInv
    /\ RoutineInv /\ CancelInv /\ WalkInv /\ SeenInv

\* It is lost, and with it most of what the firewall promises, when a client
\* keeps a request that its STATUS_PENDING lets pass.
Inv == rivals \in BOOLEAN /\ (rivals \/ IndInv)

-----------------------------------------------------------------------------
(* What the invariant says of a state *)

\* Whoever injects a request is one of its users, and a request that is queued,
\* being served or about to be injected holds an unanswered IRP.
Facts ==
    /\ \A r \in Requests : frefs[r] = 0 <=> Users(r) = {}
    /\ \A x \in Actors, r \in Requests : Injecting(x, r) => x \in Users(r)
    /\ \A r \in ToSet(pendQ) : Live(r) /\ Users(r) = {}
    /\ \A i \in Irps : dpc[i] = "pend" =>
           Live(dreq[i]) /\ Users(dreq[i]) = {}
    /\ pc[FwThread] = "serve" => Live(on[FwThread]) /\ Users(on[FwThread]) = {}
    /\ \A x \in Actors, r \in Requests :
           Injecting(x, r) /\ pc[x] # "clear" => Live(r)
    /\ \A c \in Clients, r \in Requests : r \in mayInject[c] => Live(r)

\* What the steps need of the invariant, in one place.
LEMMA FactsHold == IndInv => Facts
<1>. SUFFICES ASSUME IndInv PROVE Facts
  OBVIOUS
<1>1. \A r \in Requests : frefs[r] = 0 <=> Users(r) = {}
  BY FS_EmptySet DEF IndInv, CountInv
<1>2. \A x \in Actors, r \in Requests : Injecting(x, r) => x \in Users(r)
  BY ConstantsAssumption
     DEF ConstantsAssumption, IndInv, PlaceInv, Injecting, Users, Actors,
         TypeInv
<1>3. \A r \in Requests : r \in used /\ reqIrp[r] # NULL /\ Users(r) = {} => Live(r)
  BY <1>2 DEF Live, Injecting
<1>4. \A r \in ToSet(pendQ) : r \in Requests /\ Live(r) /\ Users(r) = {}
  BY <1>3 DEF IndInv, TypeInv, PlaceInv, CountInv
<1>5. ASSUME NEW i \in Irps, dpc[i] = "pend"
      PROVE  Live(dreq[i]) /\ Users(dreq[i]) = {}
  <2>1. dreq[i] \in Requests /\ dreq[i] \in used
        /\ reqIrp[dreq[i]] = i /\ frefs[dreq[i]] = 0
    BY <1>5 DEF IndInv, TypeInv, PlaceInv
  <2>. QED
    BY <1>1, <1>3, <2>1, ConstantsAssumption DEF ConstantsAssumption
<1>6. pc[FwThread] = "serve" => Live(on[FwThread]) /\ Users(on[FwThread]) = {}
  BY <1>1, <1>3 DEF IndInv, TypeInv, PlaceInv
<1>7. ASSUME NEW x \in Actors, NEW r \in Requests, Injecting(x, r), pc[x] # "clear"
      PROVE  Live(r)
  <2>1. r \in used /\ reqIrp[r] # NULL
    BY <1>2, <1>7 DEF IndInv, CountInv, InjectInv
  <2>2. \A y \in Actors : pc[y] = "clear" /\ on[y] = r => y = x
    BY <1>7 DEF IndInv, InjectInv, Injecting
  <2>. QED
    BY <1>7, <2>1, <2>2 DEF Live
<1>8. ASSUME NEW c \in Clients, NEW r \in Requests, r \in mayInject[c]
      PROVE  Live(r)
  <2>1. c \in Users(r) /\ reqIrp[r] # NULL
    BY <1>8 DEF IndInv, PlaceInv, InjectInv, Users
  <2>2. r \in used
    BY <2>1 DEF IndInv, CountInv
  <2>3. \A y \in Actors : ~(pc[y] = "clear" /\ on[y] = r)
    BY <1>8 DEF IndInv, InjectInv, Injecting
  <2>. QED
    BY <2>1, <2>2, <2>3 DEF Live
<1>. QED
  BY <1>1, <1>2, <1>4, <1>5, <1>6, <1>7, <1>8 DEF Facts

-----------------------------------------------------------------------------
(* What an action does to the list, to the clients and to the references *)

\* The list without r.
Dropped(r) ==
    /\ pendQ' \in Seq(Requests) /\ IsInjective(pendQ')
    /\ ToSet(pendQ') = ToSet(pendQ) \ {r}

\* PendInsert puts the request of the dispatch on the list, PendSwap takes it off.
LEMMA PendInsertQueues ==
    ASSUME TypeInv, PlaceInv, NEW i \in Irps, PendInsert(i)
    PROVE  /\ dreq[i] \in Requests
           /\ pendQ' \in Seq(Requests) /\ IsInjective(pendQ')
           /\ ToSet(pendQ') = ToSet(pendQ) \cup {dreq[i]}
<1>1. /\ dreq[i] \in Requests \ ToSet(pendQ)
      /\ pendQ' = Append(pendQ, dreq[i])
      /\ pendQ \in Seq(Requests) /\ IsInjective(pendQ)
  BY DEF TypeInv, PlaceInv, PendInsert
<1>. QED
  BY <1>1, AppendKeeps

\* PendSwap finds its IRP's request, and it alone.
LEMMA PendSwapDrops ==
    ASSUME TypeInv, QueueInv, NEW i \in Irps, PendSwap(i), routine[i]
    PROVE  dreq[i] \in ToSet(pendQ) /\ reqIrp[dreq[i]] = i /\ Dropped(dreq[i])
<1>1. /\ pendQ' = Unlink(pendQ, dreq[i])
      /\ dreq[i] \in ToSet(pendQ) /\ reqIrp[dreq[i]] = i
      /\ pendQ \in Seq(Requests) /\ IsInjective(pendQ)
  BY DEF TypeInv, QueueInv, PendSwap
<1>. QED
  BY <1>1, UnlinkKeeps DEF Dropped

\* tdiCancelIrp finds one request of its IRP on the list.
LEMMA tdiCancelIrpDrops ==
    ASSUME IndInv, NEW i \in Irps, tdiCancelIrp(i)
    PROVE  \E r \in ToSet(pendQ) :
               reqIrp[r] = i /\ used' = used \ {r} /\ Dropped(r)
<1>1. PICK r \in ToSet(pendQ) : reqIrp[r] = i
  BY DEF IndInv, RoutineInv, tdiCancelIrp
<1>2. \A q \in ToSet(pendQ) : q \in Requests /\ Live(q)
  BY FactsHold DEF Facts, IndInv, PlaceInv, TypeInv
<1>3. Of(i) = {r}
  BY <1>1, <1>2 DEF IndInv, OwnerInv, Of
<1>4. pendQ' = Unlink(pendQ, r) /\ used' = used \ {r}
  BY <1>3 DEF tdiCancelIrp
<1>5. Dropped(r)
  BY <1>4, UnlinkKeeps DEF IndInv, TypeInv, Dropped
<1>. QED
  BY <1>1, <1>4, <1>5

\* tdiGetRequest takes the request at fwThread's position.
LEMMA FwGetRequestDrops ==
    ASSUME TypeInv, FwGetRequest
    PROVE  /\ pendQ[at] \in ToSet(pendQ) /\ pendQ[at] \in Requests
           /\ TakesRequest(reqIrp[pendQ[at]]) =>
                  Dropped(pendQ[at]) /\ Len(pendQ') = Len(pendQ) - 1
<1>1. /\ at \in 1..Len(pendQ) /\ pendQ \in Seq(Requests) /\ IsInjective(pendQ)
      /\ TakesRequest(reqIrp[pendQ[at]]) => pendQ' = RemoveAt(pendQ, at)
  BY DEF TypeInv, FwGetRequest
<1>2. pendQ[at] \in ToSet(pendQ) /\ pendQ[at] \in Requests
  BY <1>1, Entries
<1>. QED
  <2>1. /\ RemoveAt(pendQ, at) \in Seq(Requests) /\ IsInjective(RemoveAt(pendQ, at))
        /\ Len(RemoveAt(pendQ, at)) = Len(pendQ) - 1
        /\ ToSet(RemoveAt(pendQ, at)) = ToSet(pendQ) \ {pendQ[at]}
    BY <1>1, RemoveAtKeeps
  <2>. QED
    BY <1>1, <1>2, <2>1 DEF Dropped

\* A walk ends at the tail of the queue, or behind the client who stops it.
LEMMA Outcomes ==
    ASSUME NEW queue \in Seq(Clients), NEW o \in ProcessRequest(queue)
    PROVE  \/ /\ o.stopper = {} /\ o.answer = "SUCCESS"
              /\ o.passed = Before(queue, Len(queue))
              /\ o.kept \subseteq Before(queue, Len(queue))
           \/ \E k \in 0..(Len(queue) - 1) :
                  /\ o.stopper = {queue[k + 1]}
                  /\ o.answer \in Answers \ {"SUCCESS"}
                  /\ o.passed = Before(queue, k)
                  /\ o.kept \subseteq Before(queue, k) \cup {queue[k + 1]}
<1>1. CASE \E kept \in SUBSET (Before(queue, Len(queue)) \cup {}) :
             o = [passed |-> Before(queue, Len(queue)), stopper |-> {},
                  answer |-> "SUCCESS", kept |-> kept]
  BY <1>1
<1>2. CASE \E k \in 0..(Len(queue) - 1) : \E a \in Answers \ {"SUCCESS"} :
           \E kept \in SUBSET (Before(queue, k) \cup {queue[k + 1]}) :
             o = [passed |-> Before(queue, k), stopper |-> {queue[k + 1]},
                  answer |-> a, kept |-> kept]
  BY <1>2
<1>. QED
  BY <1>1, <1>2 DEF ProcessRequest, Before

\* Whom x shows a request to.
Audience(x) == IF x = FwThread THEN Registered ELSE After(fwList, x)

\* The clients behind c are those that a request it injects is shown to.
LEMMA BehindIsAfter ==
    ASSUME TypeInv, NEW c \in Registered
    PROVE  /\ Behind(c) \in Seq(Clients)
           /\ \E m \in 0..Len(fwList) : RestOf(Behind(c), fwList, m)
           /\ ToSet(Behind(c)) = After(fwList, c)
           /\ c \notin After(fwList, c)
<1> DEFINE k == CHOOSE j \in 1..Len(fwList) : fwList[j] = c
<1>1. fwList \in Seq(Clients) /\ IsInjective(fwList) /\ Len(fwList) \in Nat
  BY DEF TypeInv
<1>2. k \in 1..Len(fwList) /\ fwList[k] = c
  <2>1. \E j \in 1..Len(fwList) : fwList[j] = c
    BY <1>1, Entries DEF Registered
  <2>. QED
    BY <2>1
<1>3. Behind(c) = SubSeq(fwList, k + 1, Len(fwList))
  BY DEF Behind
<1> HIDE DEF k
<1>4. k \in 0..Len(fwList)
  BY <1>1, <1>2
<1>5. Behind(c) \in Seq(Clients) /\ RestOf(Behind(c), fwList, k)
  BY <1>1, <1>3, <1>4, RestOfList
<1>6. ToSet(Behind(c)) = {fwList[j] : j \in (k + 1)..Len(fwList)}
  BY <1>1, <1>4, <1>5, RestEntries
<1>. QED
  BY <1>1, <1>2, <1>4, <1>5, <1>6, AfterEntry

\* A walk of x over its audience, as what it does to the variables: kept
\* are those with a new clone, next those of them that may inject it, seen
\* those that have let the request pass or were left out.
Walked(x, kept, next, seen) ==
    LET r == on[x]
    IN  /\ kept \subseteq Audience(x) /\ IsFiniteSet(kept)
        /\ held' = [c \in Clients |-> held[c] \cup {q \in {r} : c \in kept}]
        /\ mayInject' =
               [c \in Clients |-> mayInject[c] \cup {q \in {r} : c \in next}]
        /\ frefs' = [frefs EXCEPT ![r] = @ + Cardinality(kept)]
        /\ Done' = [i \in Irps |-> IF i = reqIrp[r] THEN Done[i] \cup seen ELSE Done[i]]
        /\ {approved', skipped'} \subseteq [Irps -> SUBSET Clients]
        /\ {x} \cap Clients \subseteq seen /\ seen \subseteq Clients
        /\ \/ /\ pc' = [pc EXCEPT ![x] = "check"]
              /\ next = {} /\ Audience(x) \subseteq seen
           \/ /\ pc' = Leave(x)
              /\ next \subseteq kept
              /\ \A c \in next :
                     /\ next = {c}
                     /\ After(fwList, c) \subseteq Audience(x)
                     /\ After(fwList, c) \cap kept = {}
                     /\ Audience(x) \subseteq seen \cup {c} \cup After(fwList, c)

\* What ProcessRequest does to the clients it shows a request to.
LEMMA WalkDoes ==
    ASSUME ~rivals', TypeInv, NEW x \in Actors,
           NEW queue \in Seq(Clients),
           NEW m \in 0..Len(fwList), RestOf(queue, fwList, m),
           ToSet(queue) = Audience(x), Show(x, on[x], queue)
    PROVE  \E kept, next, seen \in SUBSET Clients : Walked(x, kept, next, seen)
<1>1. fwList \in Seq(Clients) /\ IsInjective(fwList) /\ Len(fwList) \in Nat
  BY DEF TypeInv
<1>2. /\ queue \in Seq(Clients) /\ Len(queue) \in Nat
      /\ Before(queue, Len(queue)) = ToSet(queue)
      /\ \A k \in 0..(Len(queue) - 1) :
             /\ queue[k + 1] \in ToSet(queue)
             /\ ToSet(queue) = Before(queue, k) \cup {queue[k + 1]}
                                 \cup After(fwList, queue[k + 1])
             /\ (Before(queue, k) \cup {queue[k + 1]})
                  \cap After(fwList, queue[k + 1]) = {}
      /\ ToSet(queue) = {fwList[j] : j \in (m + 1)..Len(fwList)}
  BY <1>1, RestEntries
<1>3. PICK o \in ProcessRequest(queue) :
        /\ held' = [c \in Clients |->
                      held[c] \cup {q \in {on[x]} : c \in o.kept}]
        /\ mayInject' = [c \in Clients |->
                      mayInject[c] \cup {q \in {on[x]} : c \in o.kept \cap o.stopper}]
        /\ frefs' = [frefs EXCEPT ![on[x]] = @ + Cardinality(o.kept)]
        /\ approved' = [i \in Irps |->
              IF i = reqIrp[on[x]]
              THEN approved[i] \cup o.passed \cup ({x} \cap Clients)
              ELSE approved[i]]
        /\ skipped' = [i \in Irps |->
              IF i = reqIrp[on[x]] /\ NT_SUCCESS(o.answer)
              THEN skipped[i] \cup (ToSet(queue) \ o.passed) ELSE skipped[i]]
        /\ rivals' = (rivals \/ (/\ NT_SUCCESS(o.answer)
                                /\ o.kept \cap o.stopper # {}))
        /\ pc' = IF NT_SUCCESS(o.answer) THEN [pc EXCEPT ![x] = "check"]
                                         ELSE Leave(x)
  BY DEF Show
<1> DEFINE kept == o.kept
           next == o.kept \cap o.stopper
           left == IF NT_SUCCESS(o.answer) THEN ToSet(queue) \ o.passed ELSE {}
           seen == o.passed \cup ({x} \cap Clients) \cup left
<1>4. /\ held' = [c \in Clients |-> held[c] \cup {q \in {on[x]} : c \in kept}]
      /\ mayInject' =
             [c \in Clients |-> mayInject[c] \cup {q \in {on[x]} : c \in next}]
      /\ frefs' = [frefs EXCEPT ![on[x]] = @ + Cardinality(kept)]
      /\ Done' = [i \in Irps |-> IF i = reqIrp[on[x]]
                                 THEN Done[i] \cup seen ELSE Done[i]]
  <2>1. \A i \in Irps : approved'[i] \cup skipped'[i] =
             IF i = reqIrp[on[x]]
             THEN (approved[i] \cup skipped[i]) \cup seen ELSE approved[i] \cup skipped[i]
    BY <1>3
  <2> HIDE DEF seen
  <2>2. Done' = [i \in Irps |-> IF i = reqIrp[on[x]]
                                 THEN Done[i] \cup seen ELSE Done[i]]
    BY <2>1 DEF Done
  <2>. QED
    BY <1>3, <2>2
<1>5. Audience(x) \subseteq Clients /\ IsFiniteSet(Audience(x))
  <2>1. ToSet(queue) = {fwList[j] : j \in (m + 1)..Len(fwList)}
    BY <1>2
  <2>2. (m + 1)..Len(fwList) \subseteq 1..Len(fwList)
    BY <1>1
  <2>3. Registered = {fwList[j] : j \in 1..Len(fwList)}
    BY <1>1, Entries DEF Registered
  <2>4. IsFiniteSet(Registered) /\ Registered \subseteq Clients
    BY <1>1, EntriesCounted, Entries DEF Registered
  <2>. QED
    BY <2>1, <2>2, <2>3, <2>4, FS_Subset
<1>6. /\ Before(queue, Len(queue)) \subseteq Clients
      /\ \A k \in 0..(Len(queue) - 1) : Before(queue, k) \subseteq Clients
  BY <1>2, <1>5
<1>7. ASSUME o.passed \subseteq Clients
      PROVE  /\ {approved', skipped'} \subseteq [Irps -> SUBSET Clients]
             /\ seen \subseteq Clients /\ {x} \cap Clients \subseteq seen
  <2>1. ToSet(queue) \subseteq Clients
    BY <1>5
  <2>. QED
    BY <1>3, <1>7, <2>1 DEF TypeInv
<1>8. CASE /\ o.stopper = {} /\ o.answer = "SUCCESS"
           /\ o.passed = Before(queue, Len(queue))
           /\ o.kept \subseteq Before(queue, Len(queue))
  <2>0. Before(queue, Len(queue)) = Audience(x)
    BY <1>2
  <2>1. kept \subseteq Audience(x) /\ Audience(x) \subseteq seen /\ next = {}
    BY <1>8, <2>0
  <2>2. pc' = [pc EXCEPT ![x] = "check"]
    BY <1>3, <1>8 DEF NT_SUCCESS
  <2>3. /\ {approved', skipped'} \subseteq [Irps -> SUBSET Clients]
        /\ seen \subseteq Clients /\ {x} \cap Clients \subseteq seen
    BY <1>6, <1>7, <1>8
  <2> HIDE DEF kept, next, seen
  <2>4. IsFiniteSet(kept)
    BY <1>5, <2>1, FS_Subset
  <2>5. Walked(x, kept, next, seen)
    BY <1>4, <2>1, <2>2, <2>3, <2>4 DEF Walked
  <2>. QED
    BY <1>5, <2>1, <2>3, <2>5
<1>9. ASSUME NEW k \in 0..(Len(queue) - 1),
             o.stopper = {queue[k + 1]}, o.passed = Before(queue, k),
             o.kept \subseteq Before(queue, k) \cup {queue[k + 1]}
      PROVE  \E K, N, S \in SUBSET Clients : Walked(x, K, N, S)
  <2> DEFINE c == queue[k + 1]
  <2>1. next \subseteq {c} /\ next \subseteq kept
    BY <1>9
  <2>2. /\ Audience(x) = o.passed \cup {c} \cup After(fwList, c)
        /\ (o.passed \cup {c}) \cap After(fwList, c) = {}
        /\ kept \subseteq o.passed \cup {c}
    BY <1>2, <1>9
  <2>3. /\ {approved', skipped'} \subseteq [Irps -> SUBSET Clients]
        /\ seen \subseteq Clients /\ {x} \cap Clients \subseteq seen
    BY <1>6, <1>7, <1>9
  <2>4. \/ /\ pc' = [pc EXCEPT ![x] = "check"]
           /\ next = {} /\ Audience(x) \subseteq seen
        \/ pc' = Leave(x) /\ o.passed \subseteq seen
    <3>1. CASE NT_SUCCESS(o.answer)
      <4>1. pc' = [pc EXCEPT ![x] = "check"] /\ next = {}
        BY <1>3, <3>1
      <4>2. left = Audience(x) \ o.passed
        BY <3>1
      <4>. QED
        BY <4>1, <4>2
    <3>2. CASE ~NT_SUCCESS(o.answer)
      BY <1>3, <3>2
    <3>. QED
      BY <3>1, <3>2
  <2> HIDE DEF kept, next, left, seen, c
  <2>5. kept \subseteq Audience(x) /\ IsFiniteSet(kept)
    BY <1>5, <2>2, FS_Subset
  <2>6. /\ After(fwList, c) \subseteq Audience(x)
        /\ After(fwList, c) \cap kept = {}
        /\ o.passed \subseteq seen =>
               Audience(x) \subseteq seen \cup {c} \cup After(fwList, c)
    BY <2>2
  <2>7. \A d \in next : d = c /\ next = {d}
    BY <2>1
  <2>8. Walked(x, kept, next, seen)
    BY <1>4, <2>1, <2>3, <2>4, <2>5, <2>6, <2>7 DEF Walked
  <2>. QED
    BY <1>5, <2>1, <2>3, <2>5, <2>8
<1>10. \/ /\ o.stopper = {} /\ o.answer = "SUCCESS"
          /\ o.passed = Before(queue, Len(queue))
          /\ o.kept \subseteq Before(queue, Len(queue))
       \/ \E k \in 0..(Len(queue) - 1) :
              /\ o.stopper = {queue[k + 1]}
              /\ o.answer \in Answers \ {"SUCCESS"}
              /\ o.passed = Before(queue, k)
              /\ o.kept \subseteq Before(queue, k) \cup {queue[k + 1]}
  BY <1>2, Outcomes
<1>. QED
  BY <1>8, <1>9, <1>10

\* fwThread's walk, and a client's.
LEMMA FwInjectWalks ==
    ASSUME ~rivals', TypeInv, FwInject
    PROVE  \E kept, next, seen \in SUBSET Clients :
               Walked(FwThread, kept, next, seen)
<1>1. fwList \in Seq(Clients) /\ FwThread \in Actors
  BY DEF TypeInv, Actors
<1>2. 0 \in 0..Len(fwList) /\ RestOf(fwList, fwList, 0)
  BY <1>1 DEF RestOf
<1>3. ToSet(fwList) = Audience(FwThread)
  BY DEF Audience, Registered
<1>4. Show(FwThread, on[FwThread], fwList)
  BY DEF FwInject
<1>. QED
  BY <1>1, <1>2, <1>3, <1>4, WalkDoes

\* A client that injects shows the request to those behind it.
LEMMA ClientInjectWalks ==
    ASSUME ~rivals', TypeInv, PlaceInv, NEW c \in Clients, ClientInject(c)
    PROVE  \E kept, next, seen \in SUBSET Clients : Walked(c, kept, next, seen)
<1>1. c \in Registered /\ c \in Actors /\ c # FwThread
  <2>1. pc[c] # "idle"
    BY DEF ClientInject
  <2>. QED
    BY <2>1, ConstantsAssumption DEF ConstantsAssumption, PlaceInv, Actors
<1>2. PICK m \in 0..Len(fwList) : RestOf(Behind(c), fwList, m)
  BY <1>1, BehindIsAfter
<1>3. Behind(c) \in Seq(Clients) /\ ToSet(Behind(c)) = Audience(c)
  BY <1>1, BehindIsAfter DEF Audience
<1>4. Show(c, on[c], Behind(c))
  BY DEF ClientInject
<1>. QED
  BY <1>1, <1>2, <1>3, <1>4, WalkDoes

\* One user less.
LEMMA OneUserLess ==
    ASSUME CountInv, NEW r \in Requests, NEW x \in Users(r)
    PROVE  /\ frefs[r] \in Nat \ {0}
           /\ IsFiniteSet(Users(r) \ {x})
           /\ Cardinality(Users(r) \ {x}) = frefs[r] - 1
           /\ frefs[r] = 1 <=> Users(r) \ {x} = {}
<1>1. IsFiniteSet(Users(r)) /\ frefs[r] = Cardinality(Users(r))
  BY DEF CountInv
<1>2. /\ IsFiniteSet(Users(r) \ {x})
      /\ Cardinality(Users(r) \ {x}) = Cardinality(Users(r)) - 1
  BY <1>1, FS_RemoveElement
<1>3. Cardinality(Users(r)) \in Nat /\ Cardinality(Users(r) \ {x}) \in Nat
  BY <1>1, <1>2, FS_CardinalityType
<1>4. Cardinality(Users(r) \ {x}) = 0 <=> Users(r) \ {x} = {}
  BY <1>2, FS_EmptySet
<1>. QED
  BY <1>1, <1>2, <1>3, <1>4

\* FWFreeCloneRequest by a user x of r: the last one fails an IRP that is still
\* in it.
Released(r, x) ==
    /\ frefs[r] \in Nat \ {0}
    /\ frefs' = [frefs EXCEPT ![r] = frefs[r] - 1]
    /\ \/ /\ Users(r) = {x}
          /\ reqIrp' = [reqIrp EXCEPT ![r] = NULL]
          /\ used' = used \ {r}
          /\ \/ reqIrp[r] = NULL /\ UNCHANGED irp
             \/ /\ Live(r)
                /\ irp[reqIrp[r]] = "pending"
                /\ irp' = [irp EXCEPT ![reqIrp[r]] = "failed"]
       \/ /\ Users(r) # {x}
          /\ UNCHANGED <<irp, reqIrp, used>>

\* A reference that is given back was counted.
LEMMA ReleaseDoes ==
    ASSUME IndInv, NEW r \in Requests, NEW x \in Users(r), ~Injecting(x, r),
           FWFreeCloneRequest(r)
    PROVE  Released(r, x)
<1>1. /\ frefs[r] \in Nat \ {0}
      /\ frefs[r] = 1 <=> Users(r) \ {x} = {}
  BY OneUserLess DEF IndInv
<1>2. frefs' = [frefs EXCEPT ![r] = frefs[r] - 1]
  BY DEF FWFreeCloneRequest
<1>3. CASE frefs[r] = 1
  <2>1. /\ IF reqIrp[r] # NULL THEN tdiFailIrp(reqIrp[r]) ELSE UNCHANGED irp
        /\ reqIrp' = [reqIrp EXCEPT ![r] = NULL]
        /\ used' = used \ {r}
    BY <1>3 DEF FWFreeCloneRequest, FreeLoopbackRequest
  <2>2. Users(r) = {x}
    BY <1>1, <1>3
  <2>3. CASE reqIrp[r] # NULL
    <3>1. Live(r)
      <4>1. r \in used
        BY DEF IndInv, CountInv
      <4>2. \A y \in Actors : ~(pc[y] = "clear" /\ on[y] = r)
        BY <2>2, FactsHold DEF Facts, Injecting
      <4>. QED
        BY <2>3, <4>1, <4>2 DEF Live
    <3>2. irp[reqIrp[r]] = "pending"
      BY <3>1 DEF IndInv, OwnerInv
    <3>3. irp' = [irp EXCEPT ![reqIrp[r]] = "failed"]
      BY <2>1, <2>3, <3>2 DEF tdiFailIrp, EndIrp
    <3>. QED
      BY <1>1, <1>2, <2>1, <2>2, <3>1, <3>2, <3>3 DEF Released
  <2>. QED
    BY <1>1, <1>2, <2>1, <2>2, <2>3 DEF Released
<1>4. CASE frefs[r] # 1
  BY <1>1, <1>2, <1>4 DEF FWFreeCloneRequest, Released
<1>. QED
  BY <1>3, <1>4

\* fwThread gives back its own reference, ...
LEMMA FwFreeReleases ==
    ASSUME IndInv, FwFree
    PROVE  /\ on[FwThread] \in Requests /\ FwThread \in Users(on[FwThread])
           /\ Released(on[FwThread], FwThread)
<1>1. pc[FwThread] = "free" /\ FWFreeCloneRequest(on[FwThread])
  BY DEF FwFree
<1>2. on[FwThread] \in Requests /\ FwThread \in Users(on[FwThread])
  BY <1>1 DEF IndInv, TypeInv, PlaceInv, Users
<1>. QED
  BY <1>1, <1>2, ReleaseDoes DEF Injecting

\* ... a client its own.
LEMMA ClientFreeReleases ==
    ASSUME IndInv, NEW c \in Clients, NEW r \in Requests, ClientFree(c, r)
    PROVE  c \in Users(r) /\ Released(r, c)
<1>1. pc[c] = "idle" /\ r \in held[c] /\ FWFreeCloneRequest(r)
  BY DEF ClientFree
<1>2. c \in Users(r)
  BY <1>1 DEF Users
<1>. QED
  BY <1>1, <1>2, ReleaseDoes DEF Injecting

\* A client that registers comes last, one that deregisters is gone.
LEMMA RegisterKeeps ==
    ASSUME TypeInv, NEW c \in Clients, FWRegisterRequestCallback(c)
    PROVE  /\ c \notin Registered /\ Registered' = Registered \cup {c}
           /\ fwList' \in Seq(Clients) /\ IsInjective(fwList')
           /\ \A e \in Registered : After(fwList', e) = After(fwList, e) \cup {c}
  BY AppendKeeps DEF TypeInv, FWRegisterRequestCallback, Registered

\* The others keep their places.
LEMMA DeregisterKeeps ==
    ASSUME TypeInv, NEW c \in Clients, FWDeregisterRequestCallback(c)
    PROVE  /\ Registered' = Registered \ {c}
           /\ fwList' \in Seq(Clients) /\ IsInjective(fwList')
           /\ \A e : e # c => After(fwList', e) = After(fwList, e) \ {c}
  BY UnlinkKeeps DEF TypeInv, FWDeregisterRequestCallback, Registered

\* Only a client on the list has clones or is at work, and those behind it are
\* on the list.
LEMMA OnTheList ==
    ASSUME IndInv
    PROVE  /\ Registered \subseteq Clients
           /\ \A e : After(fwList, e) \subseteq Registered
           /\ \A c \in Clients, r \in Requests :
                  r \in mayInject[c] \/ (pc[c] # "idle" /\ on[c] = r) =>
                      c \in Registered /\ r \in held[c]
<1>1. Registered \subseteq Clients
  BY Entries DEF IndInv, TypeInv, Registered
<1>2. \A e : After(fwList, e) \subseteq Registered
  BY DEF After, Registered, ToSet, IndInv, TypeInv
<1>3. \A c \in Clients, r \in Requests :
          r \in mayInject[c] \/ (pc[c] # "idle" /\ on[c] = r) =>
              c \in Registered /\ r \in held[c]
  BY DEF IndInv, PlaceInv
<1>. QED
  BY <1>1, <1>2, <1>3

-----------------------------------------------------------------------------
(* Each step keeps the invariant *)

\* The users of r and their number stay, and r where it is.
UsersKept(r) ==
    /\ Users(r)' = Users(r) /\ frefs'[r] = frefs[r]
    /\ Users(r) # {} => r \in used' \ ToSet(pendQ')

\* A step that changes no users keeps the counts.
LEMMA KeptCounts ==
    ASSUME CountInv, \A r \in Requests : UsersKept(r)
    PROVE  CountInv'
<1>1. ASSUME NEW r \in Requests
      PROVE  /\ IsFiniteSet(Users(r)') /\ frefs'[r] = Cardinality(Users(r)')
             /\ Users(r)' # {} => r \in used' \ ToSet(pendQ')
  BY <1>1 DEF CountInv, UsersKept
<1>. QED
  BY <1>1 DEF CountInv

\* A step that changes the users of s alone has to count them.
LEMMA OthersKeptCounts ==
    ASSUME CountInv, NEW s \in Requests,
           \A r \in Requests \ {s} : UsersKept(r),
           IsFiniteSet(Users(s)'), frefs'[s] = Cardinality(Users(s)'),
           Users(s)' # {} => s \in used' \ ToSet(pendQ')
    PROVE  CountInv'
<1>1. ASSUME NEW r \in Requests
      PROVE  /\ IsFiniteSet(Users(r)') /\ frefs'[r] = Cardinality(Users(r)')
             /\ Users(r)' # {} => r \in used' \ ToSet(pendQ')
  <2>1. CASE r = s
    BY <2>1
  <2>2. CASE r # s
    BY <2>2 DEF CountInv, UsersKept
  <2>. QED
    BY <2>1, <2>2
<1>. QED
  BY <1>1 DEF CountInv

\* New users of a request, and one less.
LEMMA UsersJoin ==
    ASSUME CountInv, NEW r \in Requests, NEW K, IsFiniteSet(K),
           K \cap Users(r) = {}
    PROVE  /\ IsFiniteSet(Users(r) \cup K)
           /\ Cardinality(Users(r) \cup K) = frefs[r] + Cardinality(K)
<1>1. IsFiniteSet(Users(r)) /\ frefs[r] = Cardinality(Users(r))
  BY DEF CountInv
<1>2. /\ IsFiniteSet(Users(r) \cup K)
      /\ Cardinality(Users(r) \cup K) =
             Cardinality(Users(r)) + Cardinality(K) - Cardinality(Users(r) \cap K)
  BY <1>1, FS_Union
<1>3. Cardinality(Users(r) \cap K) = 0
  <2>1. Users(r) \cap K = {}
    OBVIOUS
  <2>. QED
    BY <2>1, FS_EmptySet
<1>4. Cardinality(Users(r)) \in Nat /\ Cardinality(K) \in Nat
  BY <1>1, FS_CardinalityType
<1>. QED
  BY <1>1, <1>2, <1>3, <1>4

\* No request comes to hold an IRP that it did not hold.
LiveKept ==
    \A r \in Requests : Live(r)' => Live(r) /\ reqIrp'[r] = reqIrp[r]

\* The IRP i is answered, and nobody has it any longer.
Answered(i) ==
    /\ irp[i] = "pending"
    /\ \E how \in {"passed", "failed", "cancelled"} : irp' = [irp EXCEPT ![i] = how]
    /\ \A r \in Requests : Live(r)' => reqIrp'[r] # i
    /\ dpc'[i] \notin {"chain", "complete"} /\ cpc'[i] # "complete"
    /\ \A j \in Irps \ {i} : dpc'[j] = dpc[j] /\ cpc'[j] = cpc[j]

\* An answer leaves the owners of all other IRPs as they are.
LEMMA AnsweredKeepsOwners ==
    ASSUME TypeInv, OwnerInv, LiveKept, NEW i \in Irps, Answered(i)
    PROVE  OwnerInv'
<1>1. \A r \in Requests : Live(r)' => irp'[reqIrp'[r]] = "pending"
  BY DEF TypeInv, OwnerInv, LiveKept, Answered
<1>2. \A q, r \in Requests :
          Live(q)' /\ Live(r)' /\ reqIrp'[q] = reqIrp'[r] => q = r
  BY DEF OwnerInv, LiveKept
<1>3. ASSUME NEW j \in Irps
      PROVE  /\ dpc'[j] \in {"chain", "complete"} \/ cpc'[j] = "complete" =>
                    /\ irp'[j] = "pending"
                    /\ \A r \in Requests : Live(r)' => reqIrp'[r] # j
             /\ ~(dpc'[j] \in {"chain", "complete"} /\ cpc'[j] = "complete")
  BY DEF TypeInv, OwnerInv, LiveKept, Answered
<1>. QED
  BY <1>1, <1>2, <1>3 DEF OwnerInv

\* A dispatch keeps the lock and its request on the list while it looks at the
\* Cancel flag, and fwThread its position while it walks the list.
LEMMA QueueStep ==
    ASSUME ~rivals', IndInv, Facts, [Next]_vars
    PROVE  QueueInv'
<1>1. ASSUME NEW i \in Irps, NEW r \in Requests, tdiConnectionOk(i, r)
      PROVE  QueueInv'
  BY <1>1 DEF IndInv, TypeInv, QueueInv, PlaceInv, tdiConnectionOk, fwVars
<1>2. ASSUME NEW i \in Irps, tdiAllocateRequestFails(i) PROVE QueueInv'
  BY <1>2, ConstantsAssumption
     DEF IndInv, QueueInv, tdiAllocateRequestFails, reqVars, fwVars, histVars,
         ConstantsAssumption
<1>3. ASSUME NEW i \in Irps, ChainUnasked(i) PROVE QueueInv'
  BY <1>3 DEF IndInv, QueueInv, ChainUnasked, reqVars, fwVars
<1>4. ASSUME NEW i \in Irps, PendInsert(i) PROVE QueueInv'
  <2>1. /\ dreq[i] \in Requests
        /\ pendQ' \in Seq(Requests) /\ IsInjective(pendQ')
        /\ ToSet(pendQ') = ToSet(pendQ) \cup {dreq[i]}
    BY <1>4, PendInsertQueues DEF IndInv
  <2>. QED
    BY <1>4, <2>1, ConstantsAssumption
       DEF IndInv, QueueInv, PlaceInv, Actors, PendInsert, reqVars, fwVars
<1>5. ASSUME NEW i \in Irps, PendCheck(i) PROVE QueueInv'
  BY <1>5, ConstantsAssumption
     DEF IndInv, TypeInv, QueueInv, PendCheck, reqVars, fwVars
<1>6. ASSUME NEW i \in Irps, PendSwap(i) PROVE QueueInv'
  <2>1. routine[i] =>
            dreq[i] \in ToSet(pendQ) /\ reqIrp[dreq[i]] = i /\ Dropped(dreq[i])
    BY <1>6, PendSwapDrops DEF IndInv
  <2>. QED
    BY <1>6, ConstantsAssumption
       DEF IndInv, TypeInv, QueueInv, PendSwap, fwVars
<1>7. ASSUME NEW i \in Irps, PendComplete(i) PROVE QueueInv'
  BY <1>7, ConstantsAssumption
     DEF IndInv, QueueInv, PendComplete, reqVars, fwVars, histVars,
         ConstantsAssumption
<1>8. ASSUME NEW i \in Irps, PendSetEvent(i) PROVE QueueInv'
  BY <1>8, ConstantsAssumption
     DEF IndInv, QueueInv, PendSetEvent, reqVars, fwVars, histVars,
         ConstantsAssumption
<1>9. ASSUME NEW i \in Irps, tdiCancelIrp(i) PROVE QueueInv'
  <2>1. PICK r \in ToSet(pendQ) :
            reqIrp[r] = i /\ used' = used \ {r} /\ Dropped(r)
    BY <1>9, tdiCancelIrpDrops
  <2>. QED
    BY <1>9, ConstantsAssumption
       DEF IndInv, QueueInv, Actors, tdiCancelIrp, fwVars
<1>10. ASSUME FwWait PROVE QueueInv'
  BY <1>10, ConstantsAssumption
     DEF IndInv, QueueInv, PlaceInv, FwWait, reqVars, histVars,
         ConstantsAssumption
<1>11. ASSUME FwLock PROVE QueueInv'
  BY <1>11, ConstantsAssumption DEF IndInv, TypeInv, QueueInv, Actors, FwLock
<1>12. ASSUME FwGetRequest PROVE QueueInv'
  <2>1. /\ pendQ[at] \in ToSet(pendQ) /\ pendQ[at] \in Requests
        /\ TakesRequest(reqIrp[pendQ[at]]) =>
               Dropped(pendQ[at]) /\ Len(pendQ') = Len(pendQ) - 1
    BY <1>12, FwGetRequestDrops DEF IndInv
  <2>. QED
    BY <1>12, <2>1, ConstantsAssumption
       DEF IndInv, TypeInv, QueueInv, PlaceInv, CountInv, Facts, Users,
           Injecting, Actors, FwGetRequest, TakesRequest, reqVars, histVars,
           Dropped, ConstantsAssumption
<1>13. ASSUME FwScanDone PROVE QueueInv'
  BY <1>13, ConstantsAssumption
     DEF IndInv, TypeInv, QueueInv, Actors, FwScanDone
<1>14. ASSUME FwServe PROVE QueueInv'
  BY <1>14, ConstantsAssumption
     DEF IndInv, QueueInv, FwServe, pendVars, histVars, ConstantsAssumption
<1>15. ASSUME FwServeNobody PROVE QueueInv'
  BY <1>15, ConstantsAssumption
     DEF IndInv, QueueInv, FwServeNobody, pendVars, histVars, EndIrp,
         ConstantsAssumption
<1>16. ASSUME FwInject PROVE QueueInv'
  <2>1. PICK kept, next, seen \in SUBSET Clients :
          Walked(FwThread, kept, next, seen)
    BY <1>16, FwInjectWalks DEF IndInv
  <2>. QED
    BY <1>16, <2>1
       DEF IndInv, TypeInv, QueueInv, Actors, FwInject, pendVars, Walked, Leave
<1>17. ASSUME FwFree PROVE QueueInv'
  <2>1. /\ on[FwThread] \in Requests /\ FwThread \in Users(on[FwThread])
        /\ Released(on[FwThread], FwThread)
    BY <1>17, FwFreeReleases
  <2>. QED
    BY <1>17, <2>1
       DEF IndInv, TypeInv, QueueInv, PlaceInv, FwFree, pendVars, Released
<1>18. ASSUME NEW x \in Actors, InjectCheck(x) PROVE QueueInv'
  BY <1>18 DEF IndInv, QueueInv, InjectCheck, Leave, pendVars, reqVars
<1>19. ASSUME NEW x \in Actors, InjectChain(x) PROVE QueueInv'
  BY <1>19 DEF IndInv, QueueInv, InjectChain, pendVars, reqVars
<1>20. ASSUME NEW x \in Actors, InjectClear(x) PROVE QueueInv'
  BY <1>20
     DEF IndInv, QueueInv, PlaceInv, Facts, Users, Actors, InjectClear, Leave,
         pendVars
<1>21. ASSUME NEW c \in Clients, ClientInject(c) PROVE QueueInv'
  <2>1. PICK kept, next, seen \in SUBSET Clients :
          Walked(c, kept, next, seen)
    BY <1>21, ClientInjectWalks DEF IndInv
  <2>. QED
    BY <1>21, <2>1
       DEF IndInv, TypeInv, QueueInv, Actors, ClientInject, pendVars, Walked,
           Leave
<1>22. ASSUME NEW c \in Clients, NEW r \in Requests, ClientCallsInject(c, r)
      PROVE  QueueInv'
  BY <1>22, ConstantsAssumption
     DEF IndInv, QueueInv, ClientCallsInject, pendVars, reqVars, histVars,
         ConstantsAssumption
<1>23. ASSUME NEW c \in Clients, NEW r \in Requests, ClientFree(c, r)
      PROVE  QueueInv'
  <2>1. c \in Users(r) /\ Released(r, c)
    BY <1>23, ClientFreeReleases
  <2>. QED
    BY <1>23, <2>1
       DEF IndInv, TypeInv, QueueInv, PlaceInv, Facts, ClientFree, pendVars,
           Released
<1>24. ASSUME \/ \E i \in Irps :
                   \/ Reuse(i) \/ IoCancelIrp(i) \/ IoCancelSwap(i)
                   \/ CancelComplete(i) \/ CancelSetEvent(i)
              \/ \E c \in Clients :
                   \/ ClientRegisters(c) \/ ClientDeregisters(c)
              \/ UNCHANGED vars
      PROVE  QueueInv'
  <2>1. UNCHANGED <<dpc, dreq, pendQ, pendLock, reqIrp, pc, at>>
    BY <1>24
       DEF Reuse, pendVars, reqVars, fwVars, IoCancelIrp, IoCancelSwap,
           CancelComplete, CancelSetEvent, ClientRegisters, ClientDeregisters,
           vars
  <2>. QED
    BY <2>1 DEF IndInv, QueueInv
<1>. QED
  BY <1>1, <1>2, <1>3, <1>4, <1>5, <1>6, <1>7, <1>8, <1>9, <1>10, <1>11, <1>12,
     <1>13, <1>14, <1>15, <1>16, <1>17, <1>18, <1>19, <1>20, <1>21, <1>22,
     <1>23, <1>24
     DEF Next, DispatchNext, CancelNext, FwNext, InjectNext, Actors

\* IoCancelIrp sets the flag before anything else of a cancellation happens;
\* the flag is reset with the IRP.
LEMMA CancelStep ==
    ASSUME ~rivals', IndInv, Facts, [Next]_vars
    PROVE  CancelInv'
<1>1. ASSUME NEW i \in Irps, NEW r \in Requests, tdiConnectionOk(i, r)
      PROVE  CancelInv'
  BY <1>1 DEF IndInv, TypeInv, CancelInv, tdiConnectionOk
<1>2. ASSUME NEW i \in Irps, tdiAllocateRequestFails(i) PROVE CancelInv'
  BY <1>2 DEF IndInv, TypeInv, CancelInv, tdiAllocateRequestFails
<1>3. ASSUME NEW i \in Irps, Reuse(i) PROVE CancelInv'
  BY <1>3 DEF IndInv, TypeInv, CancelInv, Reuse, pendVars
<1>4. ASSUME NEW i \in Irps, IoCancelIrp(i) PROVE CancelInv'
  BY <1>4 DEF IndInv, TypeInv, CancelInv, IoCancelIrp
<1>5. ASSUME NEW i \in Irps, ChainUnasked(i) PROVE CancelInv'
  BY <1>5, ConstantsAssumption
     DEF IndInv, CancelInv, ChainUnasked, tdiChainIrp, EndIrp,
         ConstantsAssumption
<1>6. ASSUME NEW i \in Irps, PendInsert(i) PROVE CancelInv'
  <2>1. /\ dreq[i] \in Requests
        /\ pendQ' \in Seq(Requests) /\ IsInjective(pendQ')
        /\ ToSet(pendQ') = ToSet(pendQ) \cup {dreq[i]}
    BY <1>6, PendInsertQueues DEF IndInv
  <2>. QED
    BY <1>6, ConstantsAssumption DEF IndInv, CancelInv, PendInsert
<1>7. ASSUME NEW i \in Irps, PendCheck(i) PROVE CancelInv'
  BY <1>7, ConstantsAssumption DEF IndInv, CancelInv, PendCheck, irpVars
<1>8. ASSUME NEW i \in Irps, PendSwap(i) PROVE CancelInv'
  <2>1. routine[i] =>
            dreq[i] \in ToSet(pendQ) /\ reqIrp[dreq[i]] = i /\ Dropped(dreq[i])
    BY <1>8, PendSwapDrops DEF IndInv
  <2>. QED
    BY <1>8, ConstantsAssumption DEF IndInv, TypeInv, CancelInv, PendSwap
<1>9. ASSUME NEW i \in Irps, PendComplete(i) PROVE CancelInv'
  BY <1>9, ConstantsAssumption DEF IndInv, CancelInv, PendComplete, EndIrp
<1>10. ASSUME NEW i \in Irps, PendSetEvent(i) PROVE CancelInv'
  BY <1>10, ConstantsAssumption DEF IndInv, CancelInv, PendSetEvent, irpVars
<1>11. ASSUME NEW i \in Irps, IoCancelSwap(i) PROVE CancelInv'
  BY <1>11 DEF IndInv, CancelInv, IoCancelSwap
<1>12. ASSUME NEW i \in Irps, tdiCancelIrp(i) PROVE CancelInv'
  <2>1. PICK r \in ToSet(pendQ) :
            reqIrp[r] = i /\ used' = used \ {r} /\ Dropped(r)
    BY <1>12, tdiCancelIrpDrops
  <2>. QED
    BY <1>12, <2>1, ConstantsAssumption
       DEF IndInv, CancelInv, tdiCancelIrp, irpVars
<1>13. ASSUME NEW i \in Irps, CancelComplete(i) PROVE CancelInv'
  BY <1>13, ConstantsAssumption DEF IndInv, CancelInv, CancelComplete, EndIrp
<1>14. ASSUME NEW i \in Irps, CancelSetEvent(i) PROVE CancelInv'
  BY <1>14, ConstantsAssumption DEF IndInv, CancelInv, CancelSetEvent, irpVars
<1>15. ASSUME FwServeNobody PROVE CancelInv'
  BY <1>15, ConstantsAssumption
     DEF IndInv, CancelInv, FwServeNobody, tdiChainIrp, pendVars, EndIrp
<1>16. ASSUME FwFree PROVE CancelInv'
  <2>1. /\ on[FwThread] \in Requests /\ FwThread \in Users(on[FwThread])
        /\ Released(on[FwThread], FwThread)
    BY <1>16, FwFreeReleases
  <2>. QED
    BY <1>16, <2>1, ConstantsAssumption
       DEF IndInv, TypeInv, CancelInv, FwFree, pendVars, Released
<1>17. ASSUME NEW x \in Actors, InjectChain(x) PROVE CancelInv'
  BY <1>17
     DEF IndInv, TypeInv, CancelInv, InjectChain, tdiChainIrp, pendVars, EndIrp
<1>18. ASSUME NEW c \in Clients, NEW r \in Requests, ClientFree(c, r)
      PROVE  CancelInv'
  <2>1. c \in Users(r) /\ Released(r, c)
    BY <1>18, ClientFreeReleases
  <2>. QED
    BY <1>18, <2>1
       DEF IndInv, TypeInv, CancelInv, ClientFree, pendVars, Released
<1>19. ASSUME \/ FwWait \/ FwLock \/ FwGetRequest \/ FwScanDone \/ FwServe
              \/ FwInject
              \/ \E x \in Actors : InjectCheck(x) \/ InjectClear(x)
              \/ \E c \in Clients :
                   \/ ClientRegisters(c) \/ ClientDeregisters(c)
                   \/ ClientInject(c)
              \/ \E c \in Clients : \E r \in Requests :
                   ClientCallsInject(c, r)
              \/ UNCHANGED vars
      PROVE  CancelInv'
  <2>1. UNCHANGED <<irp, cancel, dpc, cpc>>
    BY <1>19
       DEF FwWait, irpVars, FwLock, FwGetRequest, FwScanDone, FwServe,
           pendVars, FwInject, InjectCheck, InjectClear, ClientRegisters,
           ClientDeregisters, ClientInject, ClientCallsInject, vars
  <2>. QED
    BY <2>1 DEF IndInv, CancelInv
<1>. QED
  BY <1>1, <1>2, <1>3, <1>4, <1>5, <1>6, <1>7, <1>8, <1>9, <1>10, <1>11, <1>12,
     <1>13, <1>14, <1>15, <1>16, <1>17, <1>18, <1>19
     DEF Next, DispatchNext, CancelNext, FwNext, InjectNext, Actors

\* The cancel routine comes and goes with the queued request: who takes it out
\* of the IRP, tdiCancelIrp, tdiGetRequest or tdiPendIrp, is the one who takes
\* the request off the list.
LEMMA RoutineStep ==
    ASSUME ~rivals', IndInv, Facts, [Next]_vars
    PROVE  RoutineInv'
<1>1. ASSUME NEW i \in Irps, NEW r \in Requests, tdiConnectionOk(i, r)
      PROVE  RoutineInv'
  BY <1>1 DEF IndInv, RoutineInv, PlaceInv, tdiConnectionOk
<1>2. ASSUME NEW i \in Irps, IoCancelIrp(i) PROVE RoutineInv'
  BY <1>2 DEF IndInv, RoutineInv, CancelInv, IoCancelIrp, reqVars
<1>3. ASSUME NEW i \in Irps, PendInsert(i) PROVE RoutineInv'
  <2>1. /\ dreq[i] \in Requests
        /\ pendQ' \in Seq(Requests) /\ IsInjective(pendQ')
        /\ ToSet(pendQ') = ToSet(pendQ) \cup {dreq[i]}
    BY <1>3, PendInsertQueues DEF IndInv
  <2>. QED
    BY <1>3, <2>1
       DEF IndInv, TypeInv, RoutineInv, OwnerInv, PlaceInv, Facts, PendInsert,
           reqVars
<1>4. ASSUME NEW i \in Irps, PendSwap(i) PROVE RoutineInv'
  <2>1. routine[i] =>
            dreq[i] \in ToSet(pendQ) /\ reqIrp[dreq[i]] = i /\ Dropped(dreq[i])
    BY <1>4, PendSwapDrops DEF IndInv
  <2>. QED
    BY <1>4, <2>1
       DEF IndInv, TypeInv, RoutineInv, OwnerInv, PlaceInv, Facts, Actors,
           PendSwap, fwVars, histVars, Dropped
<1>5. ASSUME NEW i \in Irps, IoCancelSwap(i) PROVE RoutineInv'
  BY <1>5 DEF IndInv, TypeInv, RoutineInv, IoCancelSwap, reqVars
<1>6. ASSUME NEW i \in Irps, tdiCancelIrp(i) PROVE RoutineInv'
  <2>1. PICK r \in ToSet(pendQ) :
            reqIrp[r] = i /\ used' = used \ {r} /\ Dropped(r)
    BY <1>6, tdiCancelIrpDrops
  <2>. QED
    BY <1>6, <2>1
       DEF IndInv, TypeInv, RoutineInv, OwnerInv, PlaceInv, Facts,
           tdiCancelIrp, irpVars, fwVars, Dropped
<1>7. ASSUME NEW i \in Irps, CancelComplete(i) PROVE RoutineInv'
  BY <1>7 DEF IndInv, RoutineInv, CancelComplete, reqVars
<1>8. ASSUME NEW i \in Irps, CancelSetEvent(i) PROVE RoutineInv'
  BY <1>8 DEF IndInv, RoutineInv, CancelSetEvent, irpVars, reqVars
<1>9. ASSUME FwGetRequest PROVE RoutineInv'
  <2>1. /\ pendQ[at] \in ToSet(pendQ) /\ pendQ[at] \in Requests
        /\ TakesRequest(reqIrp[pendQ[at]]) =>
               Dropped(pendQ[at]) /\ Len(pendQ') = Len(pendQ) - 1
    BY <1>9, FwGetRequestDrops DEF IndInv
  <2>. QED
    BY <1>9, <2>1, ConstantsAssumption
       DEF IndInv, TypeInv, RoutineInv, OwnerInv, PlaceInv, Facts, Actors,
           FwGetRequest, TakesRequest, reqVars, histVars, Dropped
<1>10. ASSUME FwFree PROVE RoutineInv'
  <2>1. /\ on[FwThread] \in Requests /\ FwThread \in Users(on[FwThread])
        /\ Released(on[FwThread], FwThread)
    BY <1>10, FwFreeReleases
  <2>. QED
    BY <1>10, <2>1
       DEF IndInv, TypeInv, RoutineInv, PlaceInv, Facts, Users, FwFree,
           pendVars, Released
<1>11. ASSUME NEW x \in Actors, InjectClear(x) PROVE RoutineInv'
  BY <1>11
     DEF IndInv, RoutineInv, PlaceInv, Facts, Users, Actors, InjectClear,
         irpVars, pendVars
<1>12. ASSUME NEW c \in Clients, NEW r \in Requests, ClientFree(c, r)
      PROVE  RoutineInv'
  <2>1. c \in Users(r) /\ Released(r, c)
    BY <1>12, ClientFreeReleases
  <2>2. \A q \in ToSet(pendQ) : reqIrp'[q] = reqIrp[q]
    BY <2>1 DEF Released, Facts, IndInv, TypeInv, PlaceInv
  <2>. QED
    BY <1>12, <2>2 DEF IndInv, RoutineInv, ClientFree, pendVars
<1>13. ASSUME \/ \E i \in Irps :
                   \/ tdiAllocateRequestFails(i) \/ Reuse(i)
                   \/ ChainUnasked(i) \/ PendCheck(i) \/ PendComplete(i)
                   \/ PendSetEvent(i)
              \/ FwWait \/ FwLock \/ FwScanDone \/ FwServe \/ FwServeNobody
              \/ FwInject
              \/ \E x \in Actors : InjectCheck(x) \/ InjectChain(x)
              \/ \E c \in Clients :
                   \/ ClientRegisters(c) \/ ClientDeregisters(c)
                   \/ ClientInject(c)
              \/ \E c \in Clients : \E r \in Requests :
                   ClientCallsInject(c, r)
              \/ UNCHANGED vars
      PROVE  RoutineInv'
  <2>1. UNCHANGED <<routine, cpc, pendQ, reqIrp>>
    BY <1>13
       DEF tdiAllocateRequestFails, reqVars, Reuse, pendVars, ChainUnasked,
           PendCheck, irpVars, PendComplete, PendSetEvent, FwWait, FwLock,
           FwScanDone, FwServe, FwServeNobody, FwInject, InjectCheck,
           InjectChain, ClientRegisters, ClientDeregisters, ClientInject,
           ClientCallsInject, vars
  <2>. QED
    BY <2>1 DEF IndInv, RoutineInv
<1>. QED
  BY <1>1, <1>2, <1>3, <1>4, <1>5, <1>6, <1>7, <1>8, <1>9, <1>10, <1>11, <1>12,
     <1>13
     DEF Next, DispatchNext, CancelNext, FwNext, InjectNext, Actors

\* A walk gives clones to clients in front of the one who stops it only.
LEMMA WalkStep ==
    ASSUME ~rivals', IndInv, Facts, [Next]_vars
    PROVE  WalkInv'
<1>1. ASSUME FwWait PROVE WalkInv'
  BY <1>1, ConstantsAssumption
     DEF IndInv, WalkInv, FwWait, irpVars, reqVars, histVars,
         ConstantsAssumption
<1>2. ASSUME FwLock PROVE WalkInv'
  BY <1>2, ConstantsAssumption
     DEF IndInv, WalkInv, FwLock, irpVars, reqVars, histVars,
         ConstantsAssumption
<1>3. ASSUME FwGetRequest PROVE WalkInv'
  <2>1. /\ UNCHANGED <<held, mayInject, fwList>>
        /\ \/ /\ pc' = [pc EXCEPT ![FwThread] = "serve"]
              /\ on' = [on EXCEPT ![FwThread] = pendQ[at]]
           \/ UNCHANGED <<pc, on>>
    BY <1>3 DEF FwGetRequest
  <2>2. /\ pc'[FwThread] # "walk"
        /\ \A c \in Clients : pc'[c] = pc[c] /\ on'[c] = on[c]
    BY <1>3, <2>1, ConstantsAssumption
       DEF FwGetRequest, IndInv, TypeInv, Actors, ConstantsAssumption
  <2>. QED
    BY <2>1, <2>2 DEF IndInv, WalkInv
<1>4. ASSUME FwScanDone PROVE WalkInv'
  BY <1>4, ConstantsAssumption
     DEF IndInv, WalkInv, FwScanDone, irpVars, reqVars, histVars,
         ConstantsAssumption
<1>5. ASSUME FwServe PROVE WalkInv'
  BY <1>5, ConstantsAssumption DEF IndInv, WalkInv, Users, Facts, FwServe
<1>6. ASSUME FwServeNobody PROVE WalkInv'
  BY <1>6 DEF IndInv, WalkInv, FwServeNobody
<1>7. ASSUME FwInject PROVE WalkInv'
  <2>1. PICK kept, next, seen \in SUBSET Clients :
          Walked(FwThread, kept, next, seen)
    BY <1>7, FwInjectWalks DEF IndInv
  <2>2. ASSUME NEW d \in Clients, NEW q \in Requests,
               q \in mayInject'[d] \/ (pc'[d] = "walk" /\ on'[d] = q)
        PROVE  \A e \in After(fwList', d) : q \notin held'[e]
    <3>1. /\ pc[FwThread] = "walk" /\ UNCHANGED <<on, fwList>> /\ FwThread \in Actors
          /\ on[FwThread] \in Requests /\ Injecting(FwThread, on[FwThread])
      BY <1>7 DEF FwInject, IndInv, TypeInv, PlaceInv, Injecting, Actors
    <3>2. After(fwList, d) \subseteq Clients
      BY OnTheList
    <3>3. pc'[d] = "walk" => d # FwThread /\ pc[d] = "walk"
      BY <2>1, <3>1 DEF Walked, Leave, IndInv, TypeInv, Actors
    <3>4. CASE q # on[FwThread]
      <4>1. q \in mayInject[d] \/ (pc[d] = "walk" /\ on[d] = q)
        BY <2>1, <2>2, <3>1, <3>3, <3>4 DEF Walked
      <4>. QED
        BY <2>1, <3>1, <3>2, <3>4, <4>1 DEF Walked, IndInv, WalkInv
    <3>5. CASE q = on[FwThread]
      <4>1. d \in next
        BY <2>1, <2>2, <3>1, <3>3, <3>5
           DEF Walked, IndInv, InjectInv, Injecting, Actors
      <4>2. /\ After(fwList, d) \cap kept = {}
            /\ \A e \in After(fwList, d) : q \notin held[e]
        BY <2>1, <3>1, <3>2, <3>5, <4>1 DEF Walked, IndInv, WalkInv
      <4>. QED
        BY <2>1, <3>1, <3>2, <4>2 DEF Walked
    <3>. QED
      BY <3>4, <3>5
  <2>3. pc'[FwThread] # "walk"
    BY <2>1, ConstantsAssumption DEF Walked, Leave, IndInv, TypeInv, Actors
  <2>. QED
    BY <2>2, <2>3 DEF WalkInv
<1>8. ASSUME FwFree PROVE WalkInv'
  <2>1. /\ on[FwThread] \in Requests /\ FwThread \in Users(on[FwThread])
        /\ Released(on[FwThread], FwThread)
    BY <1>8, FwFreeReleases
  <2>. QED
    BY <1>8 DEF IndInv, WalkInv, FwFree
<1>9. ASSUME NEW x \in Actors, InjectCheck(x) PROVE WalkInv'
  BY <1>9 DEF IndInv, WalkInv, InjectCheck, Leave
<1>10. ASSUME NEW x \in Actors, InjectChain(x) PROVE WalkInv'
  BY <1>10 DEF IndInv, WalkInv, InjectChain
<1>11. ASSUME NEW x \in Actors, InjectClear(x) PROVE WalkInv'
  BY <1>11 DEF IndInv, WalkInv, InjectClear, Leave
<1>12. ASSUME NEW c \in Clients, ClientRegisters(c) PROVE WalkInv'
  <2>1. /\ c \notin Registered /\ Registered' = Registered \cup {c}
        /\ fwList' \in Seq(Clients) /\ IsInjective(fwList')
        /\ \A e \in Registered : After(fwList', e) = After(fwList, e) \cup {c}
    BY <1>12, RegisterKeeps DEF IndInv, ClientRegisters
  <2>2. held[c] = {}
    BY <2>1 DEF IndInv, PlaceInv
  <2>3. UNCHANGED <<pc, on, held, mayInject>>
    BY <1>12 DEF ClientRegisters, fwVars
  <2>. QED
    BY <2>1, <2>2, <2>3, OnTheList DEF IndInv, WalkInv
<1>13. ASSUME NEW c \in Clients, ClientDeregisters(c) PROVE WalkInv'
  <2>1. /\ Registered' = Registered \ {c}
        /\ fwList' \in Seq(Clients) /\ IsInjective(fwList')
        /\ \A e : e # c => After(fwList', e) = After(fwList, e) \ {c}
    BY <1>13, DeregisterKeeps DEF IndInv, ClientDeregisters
  <2>2. held[c] = {} /\ pc[c] = "idle" /\ mayInject[c] = {}
    BY <1>13 DEF ClientDeregisters, IndInv, PlaceInv
  <2>3. UNCHANGED <<pc, on, held, mayInject>>
    BY <1>13 DEF ClientDeregisters, fwVars
  <2>. QED
    BY <2>1, <2>2, <2>3 DEF IndInv, WalkInv
<1>14. ASSUME NEW c \in Clients, ClientInject(c) PROVE WalkInv'
  <2>1. PICK kept, next, seen \in SUBSET Clients :
          Walked(c, kept, next, seen)
    BY <1>14, ClientInjectWalks DEF IndInv
  <2>2. ASSUME NEW d \in Clients, NEW q \in Requests,
               q \in mayInject'[d] \/ (pc'[d] = "walk" /\ on'[d] = q)
        PROVE  \A e \in After(fwList', d) : q \notin held'[e]
    <3>1. /\ pc[c] = "walk" /\ UNCHANGED <<on, fwList>> /\ c \in Actors
          /\ on[c] \in Requests /\ Injecting(c, on[c])
      BY <1>14 DEF ClientInject, IndInv, TypeInv, PlaceInv, Injecting, Actors
    <3>2. After(fwList, d) \subseteq Clients
      BY OnTheList
    <3>3. pc'[d] = "walk" => d # c /\ pc[d] = "walk"
      BY <2>1, <3>1 DEF Walked, Leave, IndInv, TypeInv, Actors
    <3>4. CASE q # on[c]
      <4>1. q \in mayInject[d] \/ (pc[d] = "walk" /\ on[d] = q)
        BY <2>1, <2>2, <3>1, <3>3, <3>4 DEF Walked
      <4>. QED
        BY <2>1, <3>1, <3>2, <3>4, <4>1 DEF Walked, IndInv, WalkInv
    <3>5. CASE q = on[c]
      <4>1. d \in next
        BY <2>1, <2>2, <3>1, <3>3, <3>5
           DEF Walked, IndInv, InjectInv, Injecting, Actors
      <4>2. /\ After(fwList, d) \cap kept = {}
            /\ \A e \in After(fwList, d) : q \notin held[e]
        BY <2>1, <3>1, <3>5, <4>1, ConstantsAssumption
           DEF Walked, IndInv, WalkInv, Audience
      <4>. QED
        BY <2>1, <3>1, <3>2, <4>2 DEF Walked
    <3>. QED
      BY <3>4, <3>5
  <2>3. ASSUME pc'[FwThread] = "walk"
        PROVE  \A d \in Clients : on'[FwThread] \notin held'[d]
    <3>1. /\ pc[c] = "walk" /\ UNCHANGED <<on, fwList>> /\ c # FwThread
          /\ FwThread \in Actors /\ c \in Actors
      BY <1>14, ConstantsAssumption
         DEF ClientInject, Actors, ConstantsAssumption
    <3>2. pc[FwThread] = "walk"
      BY <2>1, <2>3, <3>1 DEF Walked, Leave, IndInv, TypeInv
    <3>3. on[FwThread] \in Requests /\ on[FwThread] # on[c]
      BY <3>1, <3>2 DEF IndInv, TypeInv, PlaceInv, InjectInv, Injecting
    <3>. QED
      BY <2>1, <3>1, <3>2, <3>3 DEF Walked, IndInv, WalkInv
  <2>. QED
    BY <2>2, <2>3 DEF WalkInv
<1>15. ASSUME NEW c \in Clients, NEW r \in Requests, ClientCallsInject(c, r)
      PROVE  WalkInv'
  BY <1>15, ConstantsAssumption
     DEF IndInv, TypeInv, WalkInv, ClientCallsInject, irpVars, pendVars
<1>16. ASSUME NEW c \in Clients, NEW r \in Requests, ClientFree(c, r)
      PROVE  WalkInv'
  <2>1. c \in Users(r) /\ Released(r, c)
    BY <1>16, ClientFreeReleases
  <2>. QED
    BY <1>16 DEF IndInv, WalkInv, ClientFree
<1>17. ASSUME \/ \E i \in Irps : \E r \in Requests : tdiConnectionOk(i, r)
              \/ \E i \in Irps :
                   \/ tdiAllocateRequestFails(i) \/ Reuse(i)
                   \/ IoCancelIrp(i) \/ ChainUnasked(i) \/ PendInsert(i)
                   \/ PendCheck(i) \/ PendSwap(i) \/ PendComplete(i)
                   \/ PendSetEvent(i) \/ IoCancelSwap(i) \/ tdiCancelIrp(i)
                   \/ CancelComplete(i) \/ CancelSetEvent(i)
              \/ UNCHANGED vars
      PROVE  WalkInv'
  <2>1. UNCHANGED <<pc, on, held, mayInject, fwList>>
    BY <1>17
       DEF tdiConnectionOk, fwVars, tdiAllocateRequestFails, Reuse,
           IoCancelIrp, ChainUnasked, PendInsert, PendCheck, PendSwap,
           PendComplete, PendSetEvent, IoCancelSwap, tdiCancelIrp,
           CancelComplete, CancelSetEvent, vars
  <2>. QED
    BY <2>1 DEF IndInv, WalkInv
<1>. QED
  BY <1>1, <1>2, <1>3, <1>4, <1>5, <1>6, <1>7, <1>8, <1>9, <1>10, <1>11, <1>12,
     <1>13, <1>14, <1>15, <1>16, <1>17
     DEF Next, DispatchNext, CancelNext, FwNext, InjectNext, Actors

\* A walk ends with one who may inject the request, or none, and nobody clears
\* m_pIrp but the one who injects.
LEMMA InjectStep ==
    ASSUME ~rivals', IndInv, Facts, [Next]_vars
    PROVE  InjectInv'
<1>1. ASSUME NEW i \in Irps, NEW r \in Requests, tdiConnectionOk(i, r)
      PROVE  InjectInv'
  BY <1>1, ConstantsAssumption
     DEF IndInv, InjectInv, Injecting, tdiConnectionOk, fwVars, histVars,
         ConstantsAssumption
<1>2. ASSUME FwWait PROVE InjectInv'
  BY <1>2 DEF IndInv, InjectInv, Injecting, FwWait, reqVars
<1>3. ASSUME FwLock PROVE InjectInv'
  BY <1>3 DEF IndInv, InjectInv, Injecting, FwLock, reqVars
<1>4. ASSUME FwGetRequest PROVE InjectInv'
  <2>1. /\ pendQ[at] \in ToSet(pendQ) /\ pendQ[at] \in Requests
        /\ TakesRequest(reqIrp[pendQ[at]]) =>
               Dropped(pendQ[at]) /\ Len(pendQ') = Len(pendQ) - 1
    BY <1>4, FwGetRequestDrops DEF IndInv
  <2>. QED
    BY <1>4, <2>1, ConstantsAssumption
       DEF IndInv, TypeInv, InjectInv, Facts, Injecting, Actors, WalkInv,
           FwGetRequest, TakesRequest, reqVars, histVars, Dropped
<1>5. ASSUME FwScanDone PROVE InjectInv'
  BY <1>5 DEF IndInv, InjectInv, Injecting, FwScanDone, reqVars
<1>6. ASSUME FwServe PROVE InjectInv'
  BY <1>6 DEF IndInv, InjectInv, PlaceInv, Facts, Injecting, Users, FwServe
<1>7. ASSUME FwServeNobody PROVE InjectInv'
  BY <1>7 DEF IndInv, InjectInv, Injecting, FwServeNobody
<1>8. ASSUME FwInject PROVE InjectInv'
  <2>1. PICK kept, next, seen \in SUBSET Clients :
          Walked(FwThread, kept, next, seen)
    BY <1>8, FwInjectWalks DEF IndInv
  <2>. QED
    BY <1>8, <2>1
       DEF IndInv, TypeInv, InjectInv, Injecting, Actors, FwInject, Walked,
           Leave
<1>9. ASSUME FwFree PROVE InjectInv'
  <2>1. /\ on[FwThread] \in Requests /\ FwThread \in Users(on[FwThread])
        /\ Released(on[FwThread], FwThread)
    BY <1>9, FwFreeReleases
  <2>. QED
    BY <1>9, <2>1
       DEF IndInv, TypeInv, InjectInv, PlaceInv, Injecting, Users, Actors,
           FwFree, Released
<1>10. ASSUME NEW x \in Actors, InjectCheck(x) PROVE InjectInv'
  BY <1>10 DEF IndInv, InjectInv, Injecting, InjectCheck, Leave, reqVars
<1>11. ASSUME NEW x \in Actors, InjectChain(x) PROVE InjectInv'
  BY <1>11 DEF IndInv, InjectInv, Injecting, InjectChain, reqVars
<1>12. ASSUME NEW x \in Actors, InjectClear(x) PROVE InjectInv'
  BY <1>12 DEF IndInv, TypeInv, InjectInv, Injecting, InjectClear, Leave
<1>13. ASSUME NEW c \in Clients, ClientInject(c) PROVE InjectInv'
  <2>1. PICK kept, next, seen \in SUBSET Clients :
          Walked(c, kept, next, seen)
    BY <1>13, ClientInjectWalks DEF IndInv
  <2>2. /\ pc[c] = "walk" /\ UNCHANGED <<on, reqIrp>> /\ c \in Actors
        /\ on[c] \in Requests /\ Injecting(c, on[c]) /\ reqIrp[on[c]] # NULL
    BY <1>13
       DEF ClientInject, IndInv, TypeInv, PlaceInv, InjectInv, Injecting,
           Actors
  <2>3. ASSUME NEW x \in Actors, NEW r \in Requests, Injecting(x, r)'
        PROVE  Injecting(x, r) /\ (x = c => next = {})
    BY <2>1, <2>2, <2>3 DEF Walked, Leave, Injecting, IndInv, TypeInv
  <2>4. ASSUME NEW d \in Clients, NEW r \in Requests, r \in mayInject'[d]
        PROVE  r \in mayInject[d] \/ (r = on[c] /\ next = {d})
    BY <2>1, <2>2, <2>4 DEF Walked
  <2>. QED
    BY <2>2, <2>3, <2>4 DEF IndInv, InjectInv
<1>14. ASSUME NEW c \in Clients, NEW r \in Requests, ClientCallsInject(c, r)
      PROVE  InjectInv'
  BY <1>14
     DEF IndInv, TypeInv, InjectInv, Injecting, ClientCallsInject, reqVars
<1>15. ASSUME NEW c \in Clients, NEW r \in Requests, ClientFree(c, r)
      PROVE  InjectInv'
  <2>1. c \in Users(r) /\ Released(r, c)
    BY <1>15, ClientFreeReleases
  <2>. QED
    BY <1>15, <2>1
       DEF IndInv, TypeInv, InjectInv, PlaceInv, Injecting, Users, Actors,
           ClientFree, pendVars, Released
<1>16. ASSUME \/ \E i \in Irps :
                   \/ tdiAllocateRequestFails(i) \/ Reuse(i)
                   \/ IoCancelIrp(i) \/ ChainUnasked(i) \/ PendInsert(i)
                   \/ PendCheck(i) \/ PendSwap(i) \/ PendComplete(i)
                   \/ PendSetEvent(i) \/ IoCancelSwap(i) \/ tdiCancelIrp(i)
                   \/ CancelComplete(i) \/ CancelSetEvent(i)
              \/ \E c \in Clients :
                   \/ ClientRegisters(c) \/ ClientDeregisters(c)
              \/ UNCHANGED vars
      PROVE  InjectInv'
  <2>1. UNCHANGED <<reqIrp, pc, on, mayInject>>
    BY <1>16
       DEF tdiAllocateRequestFails, reqVars, fwVars, Reuse, IoCancelIrp,
           ChainUnasked, PendInsert, PendCheck, PendSwap, PendComplete,
           PendSetEvent, IoCancelSwap, tdiCancelIrp, CancelComplete,
           CancelSetEvent, ClientRegisters, ClientDeregisters, vars
  <2>. QED
    BY <2>1 DEF IndInv, InjectInv, Actors, Injecting
<1>. QED
  BY <1>1, <1>2, <1>3, <1>4, <1>5, <1>6, <1>7, <1>8, <1>9, <1>10, <1>11, <1>12,
     <1>13, <1>14, <1>15, <1>16
     DEF Next, DispatchNext, CancelNext, FwNext, InjectNext, Actors

\* A request goes from its dispatch to the list, to fwThread and to clients,
\* and is free only after that.
LEMMA PlaceStep ==
    ASSUME ~rivals', IndInv, Facts, [Next]_vars
    PROVE  PlaceInv'
<1>1. ASSUME NEW i \in Irps, NEW r \in Requests, tdiConnectionOk(i, r)
      PROVE  PlaceInv'
  <2>1. /\ r \notin used /\ used' = used \cup {r}
        /\ reqIrp' = [reqIrp EXCEPT ![r] = i]
        /\ dpc' = [dpc EXCEPT ![i] = "pend"] /\ dreq' = [dreq EXCEPT ![i] = r]
        /\ UNCHANGED <<pendQ, frefs, pc, on, held, mayInject, fwList>>
    BY <1>1 DEF tdiConnectionOk, fwVars
  <2>2. frefs[r] = 0 /\ on[FwThread] # r /\ i # NULL /\ NULL # r
    BY <2>1, ConstantsAssumption
       DEF Facts, IndInv, CountInv, PlaceInv, ConstantsAssumption
  <2>. QED
    BY <2>1, <2>2 DEF IndInv, TypeInv, PlaceInv, Registered
<1>2. ASSUME NEW i \in Irps, tdiAllocateRequestFails(i) PROVE PlaceInv'
  BY <1>2
     DEF IndInv, PlaceInv, Registered, tdiAllocateRequestFails, reqVars, fwVars
<1>3. ASSUME NEW i \in Irps, ChainUnasked(i) PROVE PlaceInv'
  BY <1>3 DEF IndInv, PlaceInv, Registered, ChainUnasked, reqVars, fwVars
<1>4. ASSUME NEW i \in Irps, PendInsert(i) PROVE PlaceInv'
  <2>1. /\ dreq[i] \in Requests
        /\ pendQ' \in Seq(Requests) /\ IsInjective(pendQ')
        /\ ToSet(pendQ') = ToSet(pendQ) \cup {dreq[i]}
    BY <1>4, PendInsertQueues DEF IndInv
  <2>. QED
    BY <1>4, <2>1, ConstantsAssumption
       DEF IndInv, TypeInv, PlaceInv, Registered, PendInsert, reqVars, fwVars
<1>5. ASSUME NEW i \in Irps, PendCheck(i) PROVE PlaceInv'
  BY <1>5 DEF IndInv, PlaceInv, Registered, PendCheck, reqVars, fwVars
<1>6. ASSUME NEW i \in Irps, PendSwap(i) PROVE PlaceInv'
  <2>1. routine[i] =>
            dreq[i] \in ToSet(pendQ) /\ reqIrp[dreq[i]] = i /\ Dropped(dreq[i])
    BY <1>6, PendSwapDrops DEF IndInv
  <2>2. /\ UNCHANGED <<dreq, reqIrp, frefs, pc, on, held, mayInject, fwList>>
        /\ \A j \in Irps : dpc'[j] = "pend" => dpc[j] = "pend"
    BY <1>6 DEF PendSwap, fwVars, IndInv, TypeInv
  <2>3. \/ UNCHANGED <<pendQ, used>>
        \/ \E r \in ToSet(pendQ) :
               ToSet(pendQ') = ToSet(pendQ) \ {r} /\ used' = used \ {r}
    BY <1>6, <2>1 DEF PendSwap, Dropped
  <2>4. \A r \in used \ ToSet(pendQ) : r \in used' \ ToSet(pendQ')
    BY <2>3
  <2>5. ToSet(pendQ') \subseteq used' /\ ToSet(pendQ') \subseteq ToSet(pendQ)
    BY <2>3 DEF IndInv, PlaceInv
  <2>. QED
    BY <2>2, <2>4, <2>5 DEF IndInv, PlaceInv, Registered
<1>7. ASSUME NEW i \in Irps, PendComplete(i) PROVE PlaceInv'
  BY <1>7 DEF IndInv, PlaceInv, Registered, PendComplete, reqVars, fwVars
<1>8. ASSUME NEW i \in Irps, PendSetEvent(i) PROVE PlaceInv'
  BY <1>8 DEF IndInv, PlaceInv, Registered, PendSetEvent, reqVars, fwVars
<1>9. ASSUME NEW i \in Irps, tdiCancelIrp(i) PROVE PlaceInv'
  <2>1. PICK r \in ToSet(pendQ) :
            reqIrp[r] = i /\ used' = used \ {r} /\ Dropped(r)
    BY <1>9, tdiCancelIrpDrops
  <2>. QED
    BY <1>9, <2>1
       DEF IndInv, PlaceInv, Registered, tdiCancelIrp, fwVars, Dropped
<1>10. ASSUME FwWait PROVE PlaceInv'
  BY <1>10, ConstantsAssumption
     DEF IndInv, PlaceInv, Registered, FwWait, reqVars
<1>11. ASSUME FwLock PROVE PlaceInv'
  BY <1>11 DEF IndInv, PlaceInv, Registered, FwLock, reqVars
<1>12. ASSUME FwGetRequest PROVE PlaceInv'
  <2>1. /\ pendQ[at] \in ToSet(pendQ) /\ pendQ[at] \in Requests
        /\ TakesRequest(reqIrp[pendQ[at]]) =>
               Dropped(pendQ[at]) /\ Len(pendQ') = Len(pendQ) - 1
    BY <1>12, FwGetRequestDrops DEF IndInv
  <2>. QED
    BY <1>12, <2>1, ConstantsAssumption
       DEF IndInv, TypeInv, PlaceInv, QueueInv, CountInv, Facts, Injecting,
           Actors, Registered, FwGetRequest, TakesRequest, reqVars, histVars,
           Dropped
<1>13. ASSUME FwScanDone PROVE PlaceInv'
  BY <1>13 DEF IndInv, PlaceInv, Registered, FwScanDone, reqVars
<1>14. ASSUME FwServe PROVE PlaceInv'
  BY <1>14 DEF IndInv, TypeInv, PlaceInv, Actors, Registered, FwServe, pendVars
<1>15. ASSUME FwServeNobody PROVE PlaceInv'
  BY <1>15, ConstantsAssumption
     DEF IndInv, TypeInv, PlaceInv, Actors, Registered, FwServeNobody,
         pendVars, histVars
<1>16. ASSUME FwInject PROVE PlaceInv'
  <2>1. PICK kept, next, seen \in SUBSET Clients :
          Walked(FwThread, kept, next, seen)
    BY <1>16, FwInjectWalks DEF IndInv
  <2>. QED
    BY <1>16, <2>1
       DEF IndInv, TypeInv, PlaceInv, Actors, Registered, FwInject, pendVars,
           Walked, Leave, Audience
<1>17. ASSUME FwFree PROVE PlaceInv'
  <2>1. /\ on[FwThread] \in Requests /\ FwThread \in Users(on[FwThread])
        /\ Released(on[FwThread], FwThread)
    BY <1>17, FwFreeReleases
  <2>. QED
    BY <1>17, <2>1, ConstantsAssumption
       DEF IndInv, TypeInv, PlaceInv, Actors, Registered, FwFree, pendVars,
           Released
<1>18. ASSUME NEW x \in Actors, InjectCheck(x) PROVE PlaceInv'
  BY <1>18
     DEF IndInv, PlaceInv, Registered, InjectCheck, Leave, pendVars, reqVars
<1>19. ASSUME NEW x \in Actors, InjectChain(x) PROVE PlaceInv'
  BY <1>19 DEF IndInv, PlaceInv, Registered, InjectChain, pendVars, reqVars
<1>20. ASSUME NEW x \in Actors, InjectClear(x) PROVE PlaceInv'
  BY <1>20
     DEF IndInv, PlaceInv, Facts, Users, Actors, Registered, InjectClear,
         Leave, pendVars
<1>21. ASSUME NEW c \in Clients, ClientRegisters(c) PROVE PlaceInv'
  <2>1. /\ c \notin Registered /\ Registered' = Registered \cup {c}
        /\ fwList' \in Seq(Clients) /\ IsInjective(fwList')
        /\ \A e \in Registered : After(fwList', e) = After(fwList, e) \cup {c}
    BY <1>21, RegisterKeeps DEF IndInv, ClientRegisters
  <2>. QED
    BY <1>21, <2>1
       DEF IndInv, PlaceInv, ClientRegisters, pendVars, reqVars, fwVars
<1>22. ASSUME NEW c \in Clients, ClientDeregisters(c) PROVE PlaceInv'
  <2>1. /\ Registered' = Registered \ {c}
        /\ fwList' \in Seq(Clients) /\ IsInjective(fwList')
        /\ \A e : e # c => After(fwList', e) = After(fwList, e) \ {c}
    BY <1>22, DeregisterKeeps DEF IndInv, ClientDeregisters
  <2>. QED
    BY <1>22, <2>1
       DEF IndInv, PlaceInv, ClientDeregisters, pendVars, reqVars, fwVars
<1>23. ASSUME NEW c \in Clients, ClientInject(c) PROVE PlaceInv'
  <2>1. PICK kept, next, seen \in SUBSET Clients :
          Walked(c, kept, next, seen)
    BY <1>23, ClientInjectWalks DEF IndInv
  <2>2. /\ pc[c] = "walk" /\ UNCHANGED <<on, reqIrp, used, pendQ, dpc, dreq, fwList>>
        /\ on[c] \in Requests /\ c \in Users(on[c]) /\ c # FwThread
    BY <1>23, ConstantsAssumption
       DEF ClientInject, IndInv, TypeInv, PlaceInv, Users, pendVars
  <2>3. /\ pc'[FwThread] = pc[FwThread]
        /\ \A r \in Requests : r # on[c] => frefs'[r] = frefs[r]
        /\ \A d \in Clients : d # c => pc'[d] = pc[d]
    BY <2>1, <2>2 DEF Walked, Leave, IndInv, TypeInv, Actors
  <2>4. \A d \in Clients : /\ mayInject'[d] \subseteq held'[d]
                           /\ held[d] \subseteq held'[d]
                           /\ held'[d] # {} => d \in Registered
    BY <2>1, <2>2, OnTheList DEF Walked, IndInv, PlaceInv, Audience
  <2>5. /\ Users(on[c]) # {} /\ FwThread \in Actors
        /\ UNCHANGED Registered
    BY <2>2 DEF Actors, Registered
  <2>6. \A r \in Requests : frefs[r] = 0 => frefs'[r] = 0
    BY <2>2, <2>3, <2>5 DEF Facts
  <2>7. \A d \in Clients : pc'[d] # "idle" => on[d] \in held'[d]
    BY <2>2, <2>3, <2>4, OnTheList DEF IndInv, TypeInv, Actors, PlaceInv
  <2>8. \A i \in Irps : dpc[i] = "pend" => frefs'[dreq[i]] = 0
    BY <2>6 DEF IndInv, TypeInv, PlaceInv
  <2>9. pc[FwThread] = "serve" => frefs'[on[FwThread]] = 0
    BY <2>6 DEF IndInv, TypeInv, PlaceInv
  <2>. QED
    BY <2>2, <2>3, <2>4, <2>5, <2>8, <2>9 DEF IndInv, PlaceInv
<1>24. ASSUME NEW c \in Clients, NEW r \in Requests, ClientCallsInject(c, r)
      PROVE  PlaceInv'
  BY <1>24, ConstantsAssumption
     DEF IndInv, TypeInv, PlaceInv, Registered, ClientCallsInject, pendVars,
         reqVars
<1>25. ASSUME NEW c \in Clients, NEW r \in Requests, ClientFree(c, r)
      PROVE  PlaceInv'
  <2>1. c \in Users(r) /\ Released(r, c)
    BY <1>25, ClientFreeReleases
  <2>. QED
    BY <1>25, <2>1
       DEF IndInv, TypeInv, PlaceInv, Facts, Users, Registered, ClientFree,
           pendVars, Released
<1>26. ASSUME \/ \E i \in Irps :
                   \/ Reuse(i) \/ IoCancelIrp(i) \/ IoCancelSwap(i)
                   \/ CancelComplete(i) \/ CancelSetEvent(i)
              \/ UNCHANGED vars
      PROVE  PlaceInv'
  <2>1. UNCHANGED <<dpc, dreq, pendQ, used, reqIrp, frefs, pc, on, held,
                    mayInject, fwList>>
    BY <1>26
       DEF Reuse, pendVars, reqVars, fwVars, IoCancelIrp, IoCancelSwap,
           CancelComplete, CancelSetEvent, vars
  <2>. QED
    BY <2>1 DEF IndInv, PlaceInv, Registered
<1>. QED
  BY <1>1, <1>2, <1>3, <1>4, <1>5, <1>6, <1>7, <1>8, <1>9, <1>10, <1>11, <1>12,
     <1>13, <1>14, <1>15, <1>16, <1>17, <1>18, <1>19, <1>20, <1>21, <1>22,
     <1>23, <1>24, <1>25, <1>26
     DEF Next, DispatchNext, CancelNext, FwNext, InjectNext, Actors

\* Every step counts the users it adds or takes away, and touches no request
\* that another one uses.
LEMMA CountStep ==
    ASSUME ~rivals', IndInv, Facts, [Next]_vars
    PROVE  CountInv'
<1>1. ASSUME NEW i \in Irps, NEW r \in Requests, tdiConnectionOk(i, r)
      PROVE  CountInv'
  <2>1. \A s \in Requests : Users(s)' = Users(s)
    BY <1>1 DEF Users, tdiConnectionOk, fwVars
  <2>2. \A s \in Requests : UsersKept(s)
    BY <1>1, <2>1 DEF IndInv, CountInv, UsersKept, tdiConnectionOk
  <2>. QED
    BY <2>2, KeptCounts DEF IndInv
<1>2. ASSUME NEW i \in Irps, PendInsert(i) PROVE CountInv'
  <2>1. /\ dreq[i] \in Requests
        /\ pendQ' \in Seq(Requests) /\ IsInjective(pendQ')
        /\ ToSet(pendQ') = ToSet(pendQ) \cup {dreq[i]}
    BY <1>2, PendInsertQueues DEF IndInv
  <2>2. \A s \in Requests : Users(s)' = Users(s)
    BY <1>2, ConstantsAssumption DEF Users, PendInsert, fwVars
  <2>3. \A s \in Requests : UsersKept(s)
    BY <1>2, <2>1, <2>2
       DEF IndInv, CountInv, Facts, UsersKept, PendInsert, reqVars
  <2>. QED
    BY <2>3, KeptCounts DEF IndInv
<1>3. ASSUME NEW i \in Irps, PendSwap(i) PROVE CountInv'
  <2>1. routine[i] =>
            dreq[i] \in ToSet(pendQ) /\ reqIrp[dreq[i]] = i /\ Dropped(dreq[i])
    BY <1>3, PendSwapDrops DEF IndInv
  <2>2. \A s \in Requests : Users(s)' = Users(s)
    BY <1>3, ConstantsAssumption DEF Users, PendSwap, fwVars
  <2>3. \A s \in Requests : UsersKept(s)
    BY <1>3, <2>1, <2>2 DEF IndInv, CountInv, UsersKept, PendSwap, Dropped
  <2>. QED
    BY <2>3, KeptCounts DEF IndInv
<1>4. ASSUME NEW i \in Irps, tdiCancelIrp(i) PROVE CountInv'
  <2>1. PICK r \in ToSet(pendQ) :
            reqIrp[r] = i /\ used' = used \ {r} /\ Dropped(r)
    BY <1>4, tdiCancelIrpDrops
  <2>2. \A s \in Requests : Users(s)' = Users(s)
    BY <1>4, <2>1, ConstantsAssumption DEF Users, tdiCancelIrp, fwVars
  <2>3. \A s \in Requests : UsersKept(s)
    BY <1>4, <2>1, <2>2 DEF IndInv, CountInv, UsersKept, tdiCancelIrp, Dropped
  <2>. QED
    BY <2>3, KeptCounts DEF IndInv
<1>5. ASSUME FwWait PROVE CountInv'
  <2>1. \A s \in Requests : Users(s)' = Users(s)
    BY <1>5 DEF Users, FwWait
  <2>2. \A s \in Requests : UsersKept(s)
    BY <1>5, <2>1 DEF IndInv, CountInv, UsersKept, FwWait, reqVars
  <2>. QED
    BY <2>2, KeptCounts DEF IndInv
<1>6. ASSUME FwLock PROVE CountInv'
  <2>1. \A s \in Requests : Users(s)' = Users(s)
    BY <1>6 DEF Users, FwLock
  <2>2. \A s \in Requests : UsersKept(s)
    BY <1>6, <2>1 DEF IndInv, CountInv, UsersKept, FwLock, reqVars
  <2>. QED
    BY <2>2, KeptCounts DEF IndInv
<1>7. ASSUME FwGetRequest PROVE CountInv'
  <2>1. /\ pendQ[at] \in ToSet(pendQ) /\ pendQ[at] \in Requests
        /\ TakesRequest(reqIrp[pendQ[at]]) =>
               Dropped(pendQ[at]) /\ Len(pendQ') = Len(pendQ) - 1
    BY <1>7, FwGetRequestDrops DEF IndInv
  <2>2. \A s \in Requests : Users(s)' = Users(s)
    BY <1>7, <2>1, ConstantsAssumption
       DEF IndInv, TypeInv, PlaceInv, Users, FwGetRequest
  <2>3. \A s \in Requests : UsersKept(s)
    BY <1>7, <2>1, <2>2
       DEF IndInv, CountInv, UsersKept, FwGetRequest, reqVars, Dropped
  <2>. QED
    BY <2>3, KeptCounts DEF IndInv
<1>8. ASSUME FwScanDone PROVE CountInv'
  <2>1. \A s \in Requests : Users(s)' = Users(s)
    BY <1>8 DEF Users, FwScanDone
  <2>2. \A s \in Requests : UsersKept(s)
    BY <1>8, <2>1 DEF IndInv, CountInv, UsersKept, FwScanDone, reqVars
  <2>. QED
    BY <2>2, KeptCounts DEF IndInv
<1>9. ASSUME FwServe PROVE CountInv'
  <2>1. PICK s \in Requests : s = on[FwThread]
    BY <1>9 DEF FwServe, IndInv, TypeInv, PlaceInv
  <2>2. /\ frefs' = [frefs EXCEPT ![s] = 1] /\ Users(s) = {}
        /\ pc[FwThread] = "serve" /\ pc' = [pc EXCEPT ![FwThread] = "walk"]
        /\ UNCHANGED <<on, held, used, pendQ>> /\ s \in used \ ToSet(pendQ)
    BY <1>9, <2>1 DEF FwServe, Facts, pendVars, IndInv, TypeInv, PlaceInv
  <2>3. pc'[FwThread] = "walk"
    BY <2>2 DEF IndInv, TypeInv, Actors
  <2>4. Users(s)' = {FwThread}
    BY <2>1, <2>2, <2>3 DEF Users
  <2>5. \A r \in Requests \ {s} : UsersKept(r)
    <3>1. \A r \in Requests \ {s} : Users(r)' = Users(r)
      BY <2>1, <2>2, <2>3 DEF Users, IndInv, TypeInv
    <3>. QED
      BY <2>2, <3>1 DEF UsersKept, IndInv, CountInv, TypeInv
  <2>6. IsFiniteSet(Users(s)') /\ frefs'[s] = Cardinality(Users(s)')
    <3>1. frefs'[s] = 1
      BY <2>2 DEF IndInv, TypeInv
    <3>. QED
      BY <2>4, <3>1, FS_Singleton
  <2>. QED
    BY <2>2, <2>5, <2>6, OthersKeptCounts DEF IndInv
<1>10. ASSUME FwServeNobody PROVE CountInv'
  <2>1. \A s \in Requests : Users(s)' = Users(s)
    BY <1>10, ConstantsAssumption
       DEF IndInv, TypeInv, Users, FwServeNobody, EndIrp, ConstantsAssumption
  <2>2. \A s \in Requests : UsersKept(s)
    BY <1>10, <2>1
       DEF IndInv, CountInv, Facts, UsersKept, FwServeNobody, pendVars
  <2>. QED
    BY <2>2, KeptCounts DEF IndInv
<1>11. ASSUME FwInject PROVE CountInv'
  <2>1. PICK kept, next, seen \in SUBSET Clients :
          Walked(FwThread, kept, next, seen)
    BY <1>11, FwInjectWalks DEF IndInv
  <2>2. PICK s \in Requests : s = on[FwThread]
    BY <1>11 DEF FwInject, IndInv, TypeInv, PlaceInv
  <2>3. /\ pc[FwThread] = "walk" /\ UNCHANGED <<on, used, pendQ>> /\ FwThread \in Actors
        /\ FwThread \in Users(s)
    BY <1>11, <2>2 DEF FwInject, Users, Actors, pendVars
  <2>4. /\ held' = [c \in Clients |-> held[c] \cup {q \in {s} : c \in kept}]
        /\ frefs' = [frefs EXCEPT ![s] = @ + Cardinality(kept)]
        /\ IsFiniteSet(kept) /\ kept \subseteq Audience(FwThread)
        /\ pc'[FwThread] # "serve" <=> pc[FwThread] # "serve"
    BY <2>1, <2>2, <2>3 DEF Walked, Leave, IndInv, TypeInv, Actors
  <2>5. kept \cap Users(s) = {}
    BY <2>3, ConstantsAssumption DEF IndInv, WalkInv, Users
  <2>6. Users(s)' = Users(s) \cup kept
    BY <2>2, <2>3, <2>4 DEF Users
  <2>7. \A r \in Requests \ {s} : UsersKept(r)
    <3>1. \A r \in Requests \ {s} : Users(r)' = Users(r)
      BY <2>2, <2>3, <2>4 DEF Users
    <3>. QED
      BY <2>3, <2>4, <3>1 DEF UsersKept, IndInv, CountInv, TypeInv
  <2>8. IsFiniteSet(Users(s)') /\ frefs'[s] = Cardinality(Users(s)')
    <3>1. frefs'[s] = frefs[s] + Cardinality(kept)
      BY <2>4 DEF IndInv, TypeInv
    <3>. QED
      BY <2>4, <2>5, <2>6, <3>1, UsersJoin DEF IndInv
  <2>9. s \in used' \ ToSet(pendQ')
    BY <2>3 DEF IndInv, CountInv
  <2>. QED
    BY <2>7, <2>8, <2>9, OthersKeptCounts DEF IndInv
<1>12. ASSUME FwFree PROVE CountInv'
  <2>1. /\ on[FwThread] \in Requests /\ FwThread \in Users(on[FwThread])
        /\ Released(on[FwThread], FwThread)
    BY <1>12, FwFreeReleases
  <2>2. PICK s \in Requests : s = on[FwThread]
    BY <2>1
  <2>3. Users(s)' = Users(s) \ {FwThread}
    BY <1>12, ConstantsAssumption DEF FwFree, Users, IndInv, TypeInv, Actors
  <2>4. \A r \in Requests \ {s} : UsersKept(r)
    <3>1. \A q \in Requests \ {s} : Users(q)' = Users(q)
      BY <1>12, <2>2, ConstantsAssumption DEF FwFree, Users
    <3>. QED
      BY <1>12, <2>2, <2>1, <3>1
         DEF FwFree, UsersKept, Released, IndInv, CountInv, pendVars
  <2>5. /\ IsFiniteSet(Users(s) \ {FwThread})
        /\ Cardinality(Users(s) \ {FwThread}) = frefs[s] - 1
    BY <2>1, <2>2, OneUserLess DEF IndInv
  <2>6. frefs'[s] = frefs[s] - 1
    BY <2>1, <2>2 DEF Released, IndInv, TypeInv
  <2>7. Users(s) \ {FwThread} # {} => s \in used' \ ToSet(pendQ')
    BY <1>12, <2>1, <2>2 DEF Released, FwFree, pendVars, IndInv, CountInv
  <2>. QED
    BY <2>3, <2>4, <2>5, <2>6, <2>7, OthersKeptCounts DEF IndInv
<1>13. ASSUME NEW x \in Actors, InjectCheck(x) PROVE CountInv'
  <2>1. \A s \in Requests : Users(s)' = Users(s)
    BY <1>13, ConstantsAssumption DEF Users, InjectCheck, Leave
  <2>2. \A s \in Requests : UsersKept(s)
    BY <1>13, <2>1
       DEF IndInv, CountInv, UsersKept, InjectCheck, pendVars, reqVars,
           histVars
  <2>. QED
    BY <2>2, KeptCounts DEF IndInv
<1>14. ASSUME NEW x \in Actors, InjectChain(x) PROVE CountInv'
  <2>1. \A s \in Requests : Users(s)' = Users(s)
    BY <1>14, ConstantsAssumption DEF Users, InjectChain
  <2>2. \A s \in Requests : UsersKept(s)
    BY <1>14, <2>1
       DEF IndInv, CountInv, UsersKept, InjectChain, pendVars, reqVars, EndIrp
  <2>. QED
    BY <2>2, KeptCounts DEF IndInv
<1>15. ASSUME NEW x \in Actors, InjectClear(x) PROVE CountInv'
  <2>1. \A s \in Requests : Users(s)' = Users(s)
    BY <1>15, ConstantsAssumption DEF Users, InjectClear, Leave
  <2>2. \A s \in Requests : UsersKept(s)
    BY <1>15, <2>1 DEF IndInv, CountInv, UsersKept, InjectClear, pendVars
  <2>. QED
    BY <2>2, KeptCounts DEF IndInv
<1>16. ASSUME NEW c \in Clients, ClientInject(c) PROVE CountInv'
  <2>1. PICK kept, next, seen \in SUBSET Clients :
          Walked(c, kept, next, seen)
    BY <1>16, ClientInjectWalks DEF IndInv
  <2>2. PICK s \in Requests : s = on[c]
    BY <1>16 DEF ClientInject, IndInv, TypeInv, PlaceInv
  <2>3. /\ pc[c] = "walk" /\ UNCHANGED <<on, used, pendQ>> /\ c \in Actors
        /\ c \in Users(s)
    BY <1>16, <2>2 DEF ClientInject, IndInv, PlaceInv, Users, Actors, pendVars
  <2>4. /\ held' = [d \in Clients |-> held[d] \cup {q \in {s} : d \in kept}]
        /\ frefs' = [frefs EXCEPT ![s] = @ + Cardinality(kept)]
        /\ IsFiniteSet(kept) /\ kept \subseteq Audience(c)
        /\ pc'[FwThread] # "serve" <=> pc[FwThread] # "serve"
    BY <2>1, <2>2, <2>3 DEF Walked, Leave, IndInv, TypeInv, Actors
  <2>5. kept \cap Users(s) = {}
    BY <2>2, <2>3, <2>4, ConstantsAssumption
       DEF IndInv, WalkInv, Users, Audience
  <2>6. Users(s)' = Users(s) \cup kept
    BY <2>2, <2>3, <2>4 DEF Users
  <2>7. \A r \in Requests \ {s} : UsersKept(r)
    <3>1. \A r \in Requests \ {s} : Users(r)' = Users(r)
      BY <2>2, <2>3, <2>4 DEF Users
    <3>. QED
      BY <2>3, <2>4, <3>1 DEF UsersKept, IndInv, CountInv, TypeInv
  <2>8. IsFiniteSet(Users(s)') /\ frefs'[s] = Cardinality(Users(s)')
    <3>1. frefs'[s] = frefs[s] + Cardinality(kept)
      BY <2>4 DEF IndInv, TypeInv
    <3>. QED
      BY <2>4, <2>5, <2>6, <3>1, UsersJoin DEF IndInv
  <2>9. s \in used' \ ToSet(pendQ')
    BY <2>3 DEF IndInv, CountInv
  <2>. QED
    BY <2>7, <2>8, <2>9, OthersKeptCounts DEF IndInv
<1>17. ASSUME NEW c \in Clients, NEW r \in Requests, ClientCallsInject(c, r)
      PROVE  CountInv'
  <2>1. \A s \in Requests : Users(s)' = Users(s)
    BY <1>17, ConstantsAssumption DEF Users, ClientCallsInject
  <2>2. \A s \in Requests : UsersKept(s)
    BY <1>17, <2>1
       DEF IndInv, CountInv, UsersKept, ClientCallsInject, pendVars, reqVars
  <2>. QED
    BY <2>2, KeptCounts DEF IndInv
<1>18. ASSUME NEW c \in Clients, NEW r \in Requests, ClientFree(c, r)
      PROVE  CountInv'
  <2>1. c \in Users(r) /\ Released(r, c)
    BY <1>18, ClientFreeReleases
  <2>2. PICK s \in Requests : s = r
    OBVIOUS
  <2>3. Users(s)' = Users(s) \ {c}
    BY <1>18, <2>2, ConstantsAssumption DEF ClientFree, Users, IndInv, TypeInv
  <2>4. \A q \in Requests \ {s} : UsersKept(q)
    <3>1. \A q \in Requests \ {s} : Users(q)' = Users(q)
      BY <1>18, <2>2, ConstantsAssumption DEF ClientFree, Users
    <3>. QED
      BY <1>18, <2>2, <2>1, <3>1
         DEF ClientFree, UsersKept, Released, IndInv, CountInv, pendVars
  <2>5. /\ IsFiniteSet(Users(s) \ {c})
        /\ Cardinality(Users(s) \ {c}) = frefs[s] - 1
    BY <2>1, <2>2, OneUserLess DEF IndInv
  <2>6. frefs'[s] = frefs[s] - 1
    BY <2>1, <2>2 DEF Released, IndInv, TypeInv
  <2>7. Users(s) \ {c} # {} => s \in used' \ ToSet(pendQ')
    BY <1>18, <2>1, <2>2 DEF Released, ClientFree, pendVars, IndInv, CountInv
  <2>. QED
    BY <2>3, <2>4, <2>5, <2>6, <2>7, OthersKeptCounts DEF IndInv
<1>19. ASSUME \/ \E i \in Irps :
                   \/ tdiAllocateRequestFails(i) \/ Reuse(i)
                   \/ IoCancelIrp(i) \/ ChainUnasked(i) \/ PendCheck(i)
                   \/ PendComplete(i) \/ PendSetEvent(i) \/ IoCancelSwap(i)
                   \/ CancelComplete(i) \/ CancelSetEvent(i)
              \/ \E c \in Clients :
                   \/ ClientRegisters(c) \/ ClientDeregisters(c)
              \/ UNCHANGED vars
      PROVE  CountInv'
  <2>1. UNCHANGED <<pendQ, used, frefs, pc, on, held>>
    BY <1>19
       DEF tdiAllocateRequestFails, reqVars, fwVars, Reuse, pendVars,
           IoCancelIrp, ChainUnasked, PendCheck, PendComplete, PendSetEvent,
           IoCancelSwap, CancelComplete, CancelSetEvent, ClientRegisters,
           ClientDeregisters, vars
  <2>. QED
    BY <2>1 DEF IndInv, CountInv, Users
<1>. QED
  BY <1>1, <1>2, <1>3, <1>4, <1>5, <1>6, <1>7, <1>8, <1>9, <1>10, <1>11, <1>12,
     <1>13, <1>14, <1>15, <1>16, <1>17, <1>18, <1>19
     DEF Next, DispatchNext, CancelNext, FwNext, InjectNext, Actors

\* Every variable keeps its type; EndIrp is applied to unanswered IRPs only,
\* so that none goes astray.
LEMMA TypeStep ==
    ASSUME ~rivals', IndInv, Facts, [Next]_vars
    PROVE  TypeInv'
<1>1. ASSUME NEW i \in Irps, NEW r \in Requests, tdiConnectionOk(i, r)
      PROVE  TypeInv'
  BY <1>1, ConstantsAssumption
     DEF IndInv, TypeInv, tdiConnectionOk, fwVars, histVars
<1>2. ASSUME NEW i \in Irps, tdiAllocateRequestFails(i) PROVE TypeInv'
  BY <1>2, ConstantsAssumption
     DEF IndInv, TypeInv, tdiAllocateRequestFails, reqVars, fwVars, histVars,
         ConstantsAssumption
<1>3. ASSUME NEW i \in Irps, Reuse(i) PROVE TypeInv'
  BY <1>3, ConstantsAssumption
     DEF IndInv, TypeInv, Reuse, pendVars, reqVars, fwVars, ConstantsAssumption
<1>4. ASSUME NEW i \in Irps, IoCancelIrp(i) PROVE TypeInv'
  BY <1>4, ConstantsAssumption
     DEF IndInv, TypeInv, IoCancelIrp, reqVars, fwVars, histVars,
         ConstantsAssumption
<1>5. ASSUME NEW i \in Irps, ChainUnasked(i) PROVE TypeInv'
  BY <1>5
     DEF IndInv, TypeInv, OwnerInv, ChainUnasked, tdiChainIrp, reqVars, fwVars,
         histVars, EndIrp
<1>6. ASSUME NEW i \in Irps, PendInsert(i) PROVE TypeInv'
  <2>1. /\ dreq[i] \in Requests
        /\ pendQ' \in Seq(Requests) /\ IsInjective(pendQ')
        /\ ToSet(pendQ') = ToSet(pendQ) \cup {dreq[i]}
    BY <1>6, PendInsertQueues DEF IndInv
  <2>. QED
    BY <1>6, <2>1 DEF IndInv, TypeInv, PendInsert, reqVars, fwVars, histVars
<1>7. ASSUME NEW i \in Irps, PendCheck(i) PROVE TypeInv'
  BY <1>7 DEF IndInv, TypeInv, PendCheck, irpVars, reqVars, fwVars, histVars
<1>8. ASSUME NEW i \in Irps, PendSwap(i) PROVE TypeInv'
  <2>1. routine[i] =>
            dreq[i] \in ToSet(pendQ) /\ reqIrp[dreq[i]] = i /\ Dropped(dreq[i])
    BY <1>8, PendSwapDrops DEF IndInv
  <2>2. pendQ' \in Seq(Requests) /\ IsInjective(pendQ')
    BY <1>8, <2>1 DEF PendSwap, Dropped, IndInv, TypeInv
  <2>3. routine' \in [Irps -> BOOLEAN]
    BY <1>8 DEF PendSwap, IndInv, TypeInv
  <2>4. used' \subseteq Requests
    BY <1>8 DEF PendSwap, IndInv, TypeInv
  <2>5. dpc' = [dpc EXCEPT ![i] = "complete"] \/ dpc' = [dpc EXCEPT ![i] = "event"]
    BY <1>8 DEF PendSwap
  <2>6. /\ pendLock' = NULL
        /\ UNCHANGED <<irp, cancel, dreq, cpc, event, reqIrp, frefs, fwVars,
                       histVars, fwList>>
    BY <1>8 DEF PendSwap
  <2>. QED
    BY <2>2, <2>3, <2>4, <2>5, <2>6 DEF IndInv, TypeInv, fwVars, histVars
<1>9. ASSUME NEW i \in Irps, PendComplete(i) PROVE TypeInv'
  BY <1>9
     DEF IndInv, TypeInv, OwnerInv, PendComplete, EndIrp, reqVars, fwVars,
         histVars
<1>10. ASSUME NEW i \in Irps, PendSetEvent(i) PROVE TypeInv'
  BY <1>10
     DEF IndInv, TypeInv, PendSetEvent, irpVars, reqVars, fwVars, histVars
<1>11. ASSUME NEW i \in Irps, IoCancelSwap(i) PROVE TypeInv'
  BY <1>11, ConstantsAssumption
     DEF IndInv, TypeInv, IoCancelSwap, reqVars, fwVars, histVars,
         ConstantsAssumption
<1>12. ASSUME NEW i \in Irps, tdiCancelIrp(i) PROVE TypeInv'
  <2>1. PICK r \in ToSet(pendQ) :
            reqIrp[r] = i /\ used' = used \ {r} /\ Dropped(r)
    BY <1>12, tdiCancelIrpDrops
  <2>. QED
    BY <1>12, <2>1
       DEF IndInv, TypeInv, tdiCancelIrp, irpVars, fwVars, histVars, Dropped
<1>13. ASSUME NEW i \in Irps, CancelComplete(i) PROVE TypeInv'
  BY <1>13
     DEF IndInv, TypeInv, OwnerInv, CancelComplete, EndIrp, reqVars, fwVars,
         histVars
<1>14. ASSUME NEW i \in Irps, CancelSetEvent(i) PROVE TypeInv'
  BY <1>14
     DEF IndInv, TypeInv, CancelSetEvent, irpVars, reqVars, fwVars, histVars
<1>15. ASSUME FwWait PROVE TypeInv'
  <2>1. event' \in BOOLEAN
    BY <1>15 DEF FwWait
  <2>2. /\ pc' = [pc EXCEPT ![FwThread] = "lock"]
        /\ UNCHANGED <<irpVars, dpc, dreq, cpc, pendQ, pendLock, reqVars, on,
                       at, held, mayInject, histVars, fwList>>
    BY <1>15 DEF FwWait
  <2>. QED
    BY <2>1, <2>2, ConstantsAssumption
       DEF IndInv, TypeInv, Actors, irpVars, reqVars, histVars
<1>16. ASSUME FwLock PROVE TypeInv'
  BY <1>16, ConstantsAssumption
     DEF IndInv, TypeInv, Actors, FwLock, irpVars, reqVars, histVars
<1>17. ASSUME FwGetRequest PROVE TypeInv'
  <2>1. /\ pendQ[at] \in ToSet(pendQ) /\ pendQ[at] \in Requests
        /\ TakesRequest(reqIrp[pendQ[at]]) =>
               Dropped(pendQ[at]) /\ Len(pendQ') = Len(pendQ) - 1
    BY <1>17, FwGetRequestDrops DEF IndInv
  <2>2. routine' \in [Irps -> BOOLEAN]
    BY <1>17 DEF FwGetRequest, IndInv, TypeInv
  <2>3. pendQ' \in Seq(Requests) /\ IsInjective(pendQ')
    BY <1>17, <2>1 DEF FwGetRequest, Dropped, IndInv, TypeInv
  <2>4. at' \in Nat
    BY <1>17 DEF FwGetRequest, IndInv, TypeInv
  <2>5. /\ \/ /\ pendLock' = NULL
              /\ on' = [on EXCEPT ![FwThread] = pendQ[at]]
              /\ pc' = [pc EXCEPT ![FwThread] = "serve"]
           \/ UNCHANGED <<pendLock, on, pc>>
        /\ UNCHANGED <<irp, cancel, dpc, dreq, cpc, event, reqVars, held,
                       mayInject, histVars, fwList>>
    BY <1>17 DEF FwGetRequest
  <2>6. /\ pendLock' \in Irps \cup {FwThread, NULL}
        /\ on' \in [Actors -> Requests \cup {NULL}]
        /\ pc' \in [Actors -> {"idle", "lock", "scan", "serve", "walk", "check",
                               "chain", "clear", "free"}]
        /\ \A d \in Clients : pc'[d] \in {"idle", "walk", "check", "chain", "clear"}
    <3>1. /\ pendLock \in Irps \cup {FwThread, NULL}
          /\ on \in [Actors -> Requests \cup {NULL}]
          /\ pc \in [Actors -> {"idle", "lock", "scan", "serve", "walk", "check",
                                "chain", "clear", "free"}]
          /\ \A d \in Clients :
                 pc[d] \in {"idle", "walk", "check", "chain", "clear"}
      BY DEF IndInv, TypeInv
    <3>2. \A d \in Clients : d \in Actors /\ d # FwThread
      BY ConstantsAssumption DEF ConstantsAssumption, Actors
    <3>3. CASE UNCHANGED <<pendLock, on, pc>>
      BY <3>1, <3>3
    <3>4. CASE /\ pendLock' = NULL
               /\ on' = [on EXCEPT ![FwThread] = pendQ[at]]
               /\ pc' = [pc EXCEPT ![FwThread] = "serve"]
      BY <2>1, <3>1, <3>2, <3>4
    <3>. QED
      BY <2>5, <3>3, <3>4
  <2>7. UNCHANGED <<irp, cancel, dpc, dreq, cpc, event, used, reqIrp, frefs, held,
                    mayInject, mustSee, approved, skipped, fwList>>
    BY <2>5 DEF reqVars, histVars
  <2>. QED
    BY <2>2, <2>3, <2>4, <2>6, <2>7 DEF IndInv, TypeInv
<1>18. ASSUME FwScanDone PROVE TypeInv'
  BY <1>18, ConstantsAssumption
     DEF IndInv, TypeInv, Actors, FwScanDone, irpVars, reqVars, histVars
<1>19. ASSUME FwServe PROVE TypeInv'
  BY <1>19, ConstantsAssumption
     DEF IndInv, TypeInv, Actors, FwServe, irpVars, pendVars, histVars
<1>20. ASSUME FwServeNobody PROVE TypeInv'
  BY <1>20
     DEF IndInv, TypeInv, PlaceInv, OwnerInv, Facts, Actors, FwServeNobody,
         tdiChainIrp, pendVars, histVars, EndIrp
<1>21. ASSUME FwInject PROVE TypeInv'
  <2>1. PICK kept, next, seen \in SUBSET Clients :
          Walked(FwThread, kept, next, seen)
    BY <1>21, FwInjectWalks DEF IndInv
  <2>2. /\ \A d \in Clients : d \in kept => d # FwThread
        /\ FwThread \in Actors /\ on[FwThread] \in Requests
        /\ UNCHANGED <<irp, cancel, routine, pendVars, used, reqIrp, on, at, fwList>>
    BY <1>21, ConstantsAssumption
       DEF FwInject, IndInv, TypeInv, PlaceInv, Actors, irpVars,
           ConstantsAssumption
  <2>3. held' \in [Clients -> SUBSET Requests]
    BY <2>1, <2>2 DEF Walked, IndInv, TypeInv
  <2>4. mayInject' \in [Clients -> SUBSET Requests]
    BY <2>1, <2>2 DEF Walked, IndInv, TypeInv
  <2>5. frefs' \in [Requests -> Nat]
    <3>1. Cardinality(kept) \in Nat
      BY <2>1, FS_CardinalityType DEF Walked
    <3>. QED
      BY <2>1, <2>2, <3>1 DEF Walked, IndInv, TypeInv
  <2>6. {approved', skipped'} \subseteq [Irps -> SUBSET Clients]
    BY <2>1 DEF Walked
  <2>7. /\ pc' \in [Actors -> {"idle", "lock", "scan", "serve", "walk", "check",
                               "chain", "clear", "free"}]
        /\ \A d \in Clients : pc'[d] \in {"idle", "walk", "check", "chain", "clear"}
    <3>1. \E s \in {"check", "free"} : pc' = [pc EXCEPT ![FwThread] = s]
      BY <2>1, ConstantsAssumption
         DEF Walked, Leave, ConstantsAssumption, Actors
    <3>. QED
      BY <2>2, <3>1, ConstantsAssumption
         DEF IndInv, TypeInv, Actors, ConstantsAssumption
  <2>8. mustSee' \in [Irps -> SUBSET Clients]
    BY <1>21, OnTheList DEF FwInject, IndInv, TypeInv
  <2>. QED
    BY <2>2, <2>3, <2>4, <2>5, <2>6, <2>7, <2>8 DEF IndInv, TypeInv, pendVars
<1>22. ASSUME FwFree PROVE TypeInv'
  <2>1. /\ on[FwThread] \in Requests /\ FwThread \in Users(on[FwThread])
        /\ Released(on[FwThread], FwThread)
    BY <1>22, FwFreeReleases
  <2>2. irp' \in [Irps -> {"none", "pending", "passed", "failed", "cancelled"}]
    <3>1. UNCHANGED irp \/ \E i \in Irps : irp' = [irp EXCEPT ![i] = "failed"]
      BY <2>1 DEF Released, Live, IndInv, TypeInv
    <3>. QED
      BY <3>1 DEF IndInv, TypeInv
  <2>3. used' \subseteq Requests /\ reqIrp' \in [Requests -> Irps \cup {NULL}]
    BY <2>1 DEF Released, IndInv, TypeInv
  <2>4. frefs' \in [Requests -> Nat]
    BY <2>1 DEF Released, IndInv, TypeInv
  <2>5. /\ on' \in [Actors -> Requests \cup {NULL}]
        /\ pc' \in [Actors -> {"idle", "lock", "scan", "serve", "walk", "check",
                               "chain", "clear", "free"}]
        /\ \A c \in Clients : pc'[c] \in {"idle", "walk", "check", "chain", "clear"}
    BY <1>22, ConstantsAssumption DEF FwFree, IndInv, TypeInv, Actors
  <2>6. UNCHANGED <<cancel, routine, pendVars, at, held, mayInject, histVars, fwList>>
    BY <1>22 DEF FwFree
  <2>. QED
    BY <2>2, <2>3, <2>4, <2>5, <2>6 DEF IndInv, TypeInv, pendVars, histVars
<1>23. ASSUME NEW x \in Actors, InjectCheck(x) PROVE TypeInv'
  BY <1>23, ConstantsAssumption
     DEF IndInv, TypeInv, InjectCheck, Leave, irpVars, pendVars, reqVars,
         histVars
<1>24. ASSUME NEW x \in Actors, InjectChain(x) PROVE TypeInv'
  <2>1. on[x] \in Requests /\ pc[x] = "chain"
    BY <1>24 DEF InjectChain, IndInv, TypeInv, PlaceInv, Actors
  <2>2. Live(on[x]) /\ reqIrp[on[x]] \in Irps
    BY <2>1 DEF Facts, Injecting, Live, IndInv, TypeInv
  <2>3. irp' = [irp EXCEPT ![reqIrp[on[x]]] = "passed"]
    BY <1>24, <2>1, <2>2
       DEF InjectChain, tdiChainIrp, EndIrp, IndInv, OwnerInv, Live
  <2>4. irp' \in [Irps -> {"none", "pending", "passed", "failed", "cancelled"}]
    BY <2>2, <2>3 DEF IndInv, TypeInv
  <2>. QED
    BY <1>24, <2>4
       DEF InjectChain, IndInv, TypeInv, pendVars, reqVars, histVars, Actors
<1>25. ASSUME NEW x \in Actors, InjectClear(x) PROVE TypeInv'
  BY <1>25, ConstantsAssumption
     DEF IndInv, TypeInv, PlaceInv, Actors, InjectClear, Leave, irpVars,
         pendVars, histVars
<1>26. ASSUME NEW c \in Clients, ClientRegisters(c) PROVE TypeInv'
  <2>1. /\ c \notin Registered /\ Registered' = Registered \cup {c}
        /\ fwList' \in Seq(Clients) /\ IsInjective(fwList')
        /\ \A e \in Registered : After(fwList', e) = After(fwList, e) \cup {c}
    BY <1>26, RegisterKeeps DEF IndInv, ClientRegisters
  <2>. QED
    BY <1>26, <2>1
       DEF IndInv, TypeInv, ClientRegisters, irpVars, pendVars, reqVars,
           fwVars, histVars
<1>27. ASSUME NEW c \in Clients, ClientDeregisters(c) PROVE TypeInv'
  <2>1. /\ Registered' = Registered \ {c}
        /\ fwList' \in Seq(Clients) /\ IsInjective(fwList')
        /\ \A e : e # c => After(fwList', e) = After(fwList, e) \ {c}
    BY <1>27, DeregisterKeeps DEF IndInv, ClientDeregisters
  <2>. QED
    BY <1>27, <2>1
       DEF IndInv, TypeInv, ClientDeregisters, irpVars, pendVars, reqVars,
           fwVars
<1>28. ASSUME NEW c \in Clients, ClientInject(c) PROVE TypeInv'
  <2>1. PICK kept, next, seen \in SUBSET Clients :
          Walked(c, kept, next, seen)
    BY <1>28, ClientInjectWalks DEF IndInv
  <2>2. /\ \A d \in Clients : d \in kept => d # FwThread
        /\ c \in Actors /\ on[c] \in Requests
        /\ UNCHANGED <<irp, cancel, routine, pendVars, used, reqIrp, on, at, fwList>>
    BY <1>28, ConstantsAssumption
       DEF ClientInject, IndInv, TypeInv, PlaceInv, Actors, irpVars,
           ConstantsAssumption
  <2>3. held' \in [Clients -> SUBSET Requests]
    BY <2>1, <2>2 DEF Walked, IndInv, TypeInv
  <2>4. mayInject' \in [Clients -> SUBSET Requests]
    BY <2>1, <2>2 DEF Walked, IndInv, TypeInv
  <2>5. frefs' \in [Requests -> Nat]
    <3>1. Cardinality(kept) \in Nat
      BY <2>1, FS_CardinalityType DEF Walked
    <3>. QED
      BY <2>1, <2>2, <3>1 DEF Walked, IndInv, TypeInv
  <2>6. {approved', skipped'} \subseteq [Irps -> SUBSET Clients]
    BY <2>1 DEF Walked
  <2>7. /\ pc' \in [Actors -> {"idle", "lock", "scan", "serve", "walk", "check",
                               "chain", "clear", "free"}]
        /\ \A d \in Clients : pc'[d] \in {"idle", "walk", "check", "chain", "clear"}
    <3>1. \E s \in {"check", "idle"} : pc' = [pc EXCEPT ![c] = s]
      BY <2>1, ConstantsAssumption
         DEF Walked, Leave, ConstantsAssumption, Actors
    <3>. QED
      BY <2>2, <3>1, ConstantsAssumption
         DEF IndInv, TypeInv, Actors, ConstantsAssumption
  <2>8. mustSee' \in [Irps -> SUBSET Clients]
    BY <1>28, OnTheList DEF ClientInject, IndInv, TypeInv
  <2>. QED
    BY <2>2, <2>3, <2>4, <2>5, <2>6, <2>7, <2>8 DEF IndInv, TypeInv, pendVars
<1>29. ASSUME NEW c \in Clients, NEW r \in Requests, ClientCallsInject(c, r)
      PROVE  TypeInv'
  BY <1>29, ConstantsAssumption
     DEF IndInv, TypeInv, Actors, ClientCallsInject, irpVars, pendVars,
         reqVars, histVars
<1>30. ASSUME NEW c \in Clients, NEW r \in Requests, ClientFree(c, r)
      PROVE  TypeInv'
  <2>1. c \in Users(r) /\ Released(r, c)
    BY <1>30, ClientFreeReleases
  <2>2. irp' \in [Irps -> {"none", "pending", "passed", "failed", "cancelled"}]
    <3>1. UNCHANGED irp \/ \E i \in Irps : irp' = [irp EXCEPT ![i] = "failed"]
      BY <2>1 DEF Released, Live, IndInv, TypeInv
    <3>. QED
      BY <3>1 DEF IndInv, TypeInv
  <2>3. used' \subseteq Requests /\ reqIrp' \in [Requests -> Irps \cup {NULL}]
    BY <2>1 DEF Released, IndInv, TypeInv
  <2>4. frefs' \in [Requests -> Nat]
    BY <2>1 DEF Released, IndInv, TypeInv
  <2>5. /\ held' \in [Clients -> SUBSET Requests]
        /\ mayInject' \in [Clients -> SUBSET Requests]
        /\ on' \in [Actors -> Requests \cup {NULL}]
    BY <1>30 DEF ClientFree, IndInv, TypeInv
  <2>6. UNCHANGED <<cancel, routine, pendVars, pc, at, histVars, fwList>>
    BY <1>30 DEF ClientFree
  <2>. QED
    BY <2>2, <2>3, <2>4, <2>5, <2>6 DEF IndInv, TypeInv, pendVars, histVars
<1>31. ASSUME \/ UNCHANGED vars
      PROVE  TypeInv'
  <2>1. UNCHANGED <<irp, cancel, routine, dpc, dreq, cpc, pendQ, pendLock,
                    event, used, reqIrp, frefs, pc, on, at, held, mayInject,
                    mustSee, approved, skipped, fwList>>
    BY <1>31 DEF vars, irpVars, pendVars, reqVars, fwVars, histVars
  <2>. QED
    BY <2>1 DEF IndInv, TypeInv, Actors
<1>. QED
  BY <1>1, <1>2, <1>3, <1>4, <1>5, <1>6, <1>7, <1>8, <1>9, <1>10, <1>11, <1>12,
     <1>13, <1>14, <1>15, <1>16, <1>17, <1>18, <1>19, <1>20, <1>21, <1>22,
     <1>23, <1>24, <1>25, <1>26, <1>27, <1>28, <1>29, <1>30, <1>31
     DEF Next, DispatchNext, CancelNext, FwNext, InjectNext, Actors

\* A request that is shown on has been approved by everybody in front.
LEMMA SeenStep ==
    ASSUME ~rivals', IndInv, Facts, [Next]_vars
    PROVE  SeenInv'
<1>0. UNCHANGED <<approved, skipped>> => UNCHANGED Done
  BY DEF Done
<1>1. ASSUME NEW i \in Irps, NEW r \in Requests, tdiConnectionOk(i, r)
      PROVE  SeenInv'
  <2>1. /\ irp[i] = "none" /\ r \notin used
        /\ irp' = [irp EXCEPT ![i] = "pending"]
        /\ reqIrp' = [reqIrp EXCEPT ![r] = i]
        /\ dpc' = [dpc EXCEPT ![i] = "pend"]
        /\ UNCHANGED <<pendQ, pc, on, mayInject, mustSee, Done, fwList>>
    BY <1>0, <1>1 DEF tdiConnectionOk, fwVars, histVars
  <2>2. /\ r \notin ToSet(pendQ) /\ on[FwThread] # r
        /\ \A x \in Actors : pc[x] \in {"check", "chain"} =>
               on[x] # r /\ on[x] \in Requests
        /\ \A c \in Clients : /\ r \notin mayInject[c]
                              /\ ~(pc[c] = "walk" /\ on[c] = r)
    <3>1. \A x \in Actors : pc[x] \in {"check", "chain"} => on[x] \in Requests
      BY DEF IndInv, TypeInv, PlaceInv, Actors
    <3>. QED
      BY <2>1, <3>1, ConstantsAssumption
         DEF IndInv, PlaceInv, Facts, Injecting, Live, Actors
  <2>3. \A q \in Requests : q # r => reqIrp'[q] = reqIrp[q]
    BY <2>1 DEF IndInv, TypeInv
  <2>4. mustSee[i] = {}
    BY <2>1 DEF IndInv, SeenInv
  <2>5. \A x \in Actors : pc'[x] \in {"check", "chain"} =>
            /\ pc[x] \in {"check", "chain"}
            /\ reqIrp'[on'[x]] = reqIrp[on[x]]
    BY <2>1, <2>2, <2>3
  <2>6. \A j \in Irps :
               /\ irp'[j] = "none" => mustSee'[j] = {}
               /\ dpc'[j] \in {"chain", "pend"} => mustSee'[j] = {}
               /\ irp'[j] = "passed" => mustSee'[j] \subseteq Done'[j]
    BY <2>1 DEF IndInv, SeenInv
  <2>7. \A q \in ToSet(pendQ') : mustSee'[reqIrp'[q]] = {}
    BY <2>1 DEF IndInv, TypeInv, SeenInv, PlaceInv
  <2>8. pc'[FwThread] = "serve" => mustSee'[reqIrp'[on'[FwThread]]] = {}
    BY <2>1 DEF IndInv, SeenInv
  <2>9. \A x \in Actors : pc'[x] \in {"check", "chain"} =>
               mustSee'[reqIrp'[on'[x]]] \subseteq Done'[reqIrp'[on'[x]]]
    BY <2>1, <2>5 DEF IndInv, SeenInv
  <2>10. \A c \in Clients, q \in Requests :
               q \in mayInject'[c] \/ (pc'[c] = "walk" /\ on'[c] = q) =>
                   mustSee'[reqIrp'[q]] \subseteq
                       Done'[reqIrp'[q]] \cup {c} \cup After(fwList', c)
    BY <2>1 DEF IndInv, SeenInv
  <2>. QED
    BY <2>6, <2>7, <2>8, <2>9, <2>10 DEF SeenInv
<1>2. ASSUME NEW i \in Irps, tdiAllocateRequestFails(i) PROVE SeenInv'
  BY <1>0, <1>2
     DEF IndInv, TypeInv, SeenInv, PlaceInv, InjectInv, Injecting, Actors,
         tdiAllocateRequestFails, reqVars, fwVars, histVars
<1>3. ASSUME NEW i \in Irps, Reuse(i) PROVE SeenInv'
  <2>1. /\ irp[i] # "none" /\ dpc[i] = "none"
        /\ irp' = [irp EXCEPT ![i] = "none"]
        /\ mustSee' = [mustSee EXCEPT ![i] = {}]
        /\ UNCHANGED <<dpc, pendQ, reqIrp, pc, on, mayInject, fwList>>
    BY <1>3 DEF Reuse, pendVars, reqVars, fwVars
  <2>2. \A j \in Irps : /\ mustSee'[j] = {} \/ (j # i /\ mustSee'[j] = mustSee[j])
                        /\ j # i => Done'[j] = Done[j] /\ irp'[j] = irp[j]
                        /\ irp'[i] = "none" /\ mustSee'[i] = {}
    BY <1>3, <2>1 DEF Reuse, Done, IndInv, TypeInv
  <2>3. /\ \A r \in ToSet(pendQ) : reqIrp[r] \in Irps
        /\ pc[FwThread] = "serve" => reqIrp[on[FwThread]] \in Irps
        /\ \A x \in Actors : pc[x] \in {"check", "chain"} => reqIrp[on[x]] \in Irps
        /\ \A c \in Clients, r \in Requests :
               r \in mayInject[c] \/ (pc[c] = "walk" /\ on[c] = r) => reqIrp[r] \in Irps
    BY DEF IndInv, TypeInv, PlaceInv, InjectInv, Injecting, Actors
  <2>4. \A j \in Irps :
               /\ irp'[j] = "none" => mustSee'[j] = {}
               /\ dpc'[j] \in {"chain", "pend"} => mustSee'[j] = {}
               /\ irp'[j] = "passed" => mustSee'[j] \subseteq Done'[j]
    BY <2>1, <2>2 DEF IndInv, SeenInv
  <2>5. \A r \in ToSet(pendQ') : mustSee'[reqIrp'[r]] = {}
    BY <2>1, <2>2, <2>3 DEF IndInv, SeenInv
  <2>6. pc'[FwThread] = "serve" => mustSee'[reqIrp'[on'[FwThread]]] = {}
    BY <2>1, <2>2, <2>3 DEF IndInv, SeenInv
  <2>7. \A x \in Actors : pc'[x] \in {"check", "chain"} =>
               mustSee'[reqIrp'[on'[x]]] \subseteq Done'[reqIrp'[on'[x]]]
    BY <2>1, <2>2, <2>3 DEF IndInv, SeenInv
  <2>8. \A c \in Clients, r \in Requests :
               r \in mayInject'[c] \/ (pc'[c] = "walk" /\ on'[c] = r) =>
                   mustSee'[reqIrp'[r]] \subseteq
                       Done'[reqIrp'[r]] \cup {c} \cup After(fwList', c)
    BY <2>1, <2>2, <2>3 DEF IndInv, SeenInv
  <2>. QED
    BY <2>4, <2>5, <2>6, <2>7, <2>8 DEF SeenInv
<1>4. ASSUME NEW i \in Irps, ChainUnasked(i) PROVE SeenInv'
  BY <1>0, <1>4
     DEF IndInv, SeenInv, ChainUnasked, tdiChainIrp, reqVars, fwVars, histVars,
         EndIrp
<1>5. ASSUME NEW i \in Irps, PendInsert(i) PROVE SeenInv'
  <2>1. ToSet(pendQ') = ToSet(pendQ) \cup {dreq[i]}
    BY <1>5, PendInsertQueues DEF IndInv
  <2>2. /\ dpc[i] = "pend" /\ dpc' = [dpc EXCEPT ![i] = "check"]
        /\ UNCHANGED <<irp, reqIrp, pc, on, mayInject, mustSee, Done, fwList>>
    BY <1>0, <1>5 DEF PendInsert, reqVars, fwVars, histVars
  <2>3. mustSee[reqIrp[dreq[i]]] = {}
    BY <2>2 DEF IndInv, SeenInv, PlaceInv
  <2>4. \A j \in Irps : dpc'[j] \in {"chain", "pend"} => dpc[j] = dpc'[j]
    BY <2>2 DEF IndInv, TypeInv
  <2>. QED
    BY <2>1, <2>2, <2>3, <2>4 DEF IndInv, SeenInv, Actors
<1>6. ASSUME NEW i \in Irps, PendCheck(i) PROVE SeenInv'
  BY <1>0, <1>6
     DEF IndInv, TypeInv, SeenInv, PlaceInv, InjectInv, Injecting, Actors,
         PendCheck, irpVars, reqVars, fwVars, histVars
<1>7. ASSUME NEW i \in Irps, PendSwap(i) PROVE SeenInv'
  <2>1. routine[i] =>
            dreq[i] \in ToSet(pendQ) /\ reqIrp[dreq[i]] = i /\ Dropped(dreq[i])
    BY <1>7, PendSwapDrops DEF IndInv
  <2>2. ToSet(pendQ') \subseteq ToSet(pendQ)
    BY <1>7, <2>1 DEF PendSwap, Dropped
  <2>3. /\ \E s \in {"complete", "event"} : dpc' = [dpc EXCEPT ![i] = s]
        /\ UNCHANGED <<irp, reqIrp, pc, on, mayInject, mustSee, Done, fwList>>
    BY <1>0, <1>7 DEF PendSwap, fwVars, histVars
  <2>4. \A j \in Irps :
               /\ irp'[j] = "none" => mustSee'[j] = {}
               /\ dpc'[j] \in {"chain", "pend"} => mustSee'[j] = {}
               /\ irp'[j] = "passed" => mustSee'[j] \subseteq Done'[j]
    BY <2>2, <2>3, ConstantsAssumption
       DEF IndInv, TypeInv, SeenInv, ConstantsAssumption
  <2>5. \A r \in ToSet(pendQ') : mustSee'[reqIrp'[r]] = {}
    BY <2>2, <2>3, ConstantsAssumption
       DEF IndInv, TypeInv, SeenInv, ConstantsAssumption
  <2>6. pc'[FwThread] = "serve" => mustSee'[reqIrp'[on'[FwThread]]] = {}
    BY <2>2, <2>3, ConstantsAssumption
       DEF IndInv, TypeInv, SeenInv, ConstantsAssumption
  <2>7. \A x \in Actors : pc'[x] \in {"check", "chain"} =>
               mustSee'[reqIrp'[on'[x]]] \subseteq Done'[reqIrp'[on'[x]]]
    BY <2>2, <2>3, ConstantsAssumption
       DEF IndInv, TypeInv, SeenInv, ConstantsAssumption
  <2>8. \A c \in Clients, r \in Requests :
               r \in mayInject'[c] \/ (pc'[c] = "walk" /\ on'[c] = r) =>
                   mustSee'[reqIrp'[r]] \subseteq
                       Done'[reqIrp'[r]] \cup {c} \cup After(fwList', c)
    BY <2>2, <2>3, ConstantsAssumption
       DEF IndInv, TypeInv, SeenInv, ConstantsAssumption
  <2>. QED
    BY <2>4, <2>5, <2>6, <2>7, <2>8 DEF SeenInv
<1>8. ASSUME NEW i \in Irps, PendComplete(i) PROVE SeenInv'
  BY <1>0, <1>8
     DEF IndInv, SeenInv, Facts, PendComplete, EndIrp, reqVars, fwVars,
         histVars
<1>9. ASSUME NEW i \in Irps, PendSetEvent(i) PROVE SeenInv'
  BY <1>0, <1>9
     DEF IndInv, SeenInv, OwnerInv, PendSetEvent, irpVars, reqVars, fwVars,
         histVars
<1>10. ASSUME NEW i \in Irps, tdiCancelIrp(i) PROVE SeenInv'
  <2>1. PICK r \in ToSet(pendQ) :
            reqIrp[r] = i /\ used' = used \ {r} /\ Dropped(r)
    BY <1>10, tdiCancelIrpDrops
  <2>. QED
    BY <1>0, <1>10, <2>1
       DEF IndInv, SeenInv, tdiCancelIrp, irpVars, fwVars, histVars, Dropped
<1>11. ASSUME NEW i \in Irps, CancelComplete(i) PROVE SeenInv'
  BY <1>0, <1>11
     DEF IndInv, SeenInv, PlaceInv, InjectInv, Injecting, CancelComplete,
         EndIrp, reqVars, fwVars, histVars
<1>12. ASSUME FwWait PROVE SeenInv'
  BY <1>0, <1>12 DEF IndInv, SeenInv, FwWait, irpVars, reqVars, histVars
<1>13. ASSUME FwLock PROVE SeenInv'
  <2>1. /\ pc[FwThread] = "lock" /\ pc' = [pc EXCEPT ![FwThread] = "scan"]
        /\ UNCHANGED <<irp, dpc, pendQ, reqIrp, on, mayInject, mustSee, Done, fwList>>
    BY <1>0, <1>13 DEF FwLock, irpVars, reqVars, histVars
  <2>2. \A x \in Actors : pc'[x] = pc[x] \/ pc'[x] = "scan"
    BY <2>1 DEF IndInv, TypeInv
  <2>. QED
    BY <2>1, <2>2 DEF IndInv, SeenInv, Actors
<1>14. ASSUME FwGetRequest PROVE SeenInv'
  <2>1. /\ pendQ[at] \in ToSet(pendQ) /\ pendQ[at] \in Requests
        /\ TakesRequest(reqIrp[pendQ[at]]) =>
               Dropped(pendQ[at]) /\ Len(pendQ') = Len(pendQ) - 1
    BY <1>14, FwGetRequestDrops DEF IndInv
  <2>2. ToSet(pendQ') \subseteq ToSet(pendQ)
    BY <1>14, <2>1 DEF FwGetRequest, Dropped
  <2>3. /\ pc[FwThread] = "scan"
        /\ \/ /\ on' = [on EXCEPT ![FwThread] = pendQ[at]]
              /\ pc' = [pc EXCEPT ![FwThread] = "serve"]
           \/ UNCHANGED <<on, pc>>
        /\ UNCHANGED <<irp, dpc, reqIrp, mayInject, mustSee, Done, fwList>>
    BY <1>0, <1>14 DEF FwGetRequest, reqVars, histVars
  <2>4. /\ pc'[FwThread] = "serve" => on'[FwThread] = pendQ[at]
        /\ \A x \in Actors : pc'[x] \in {"check", "chain"} =>
               pc[x] \in {"check", "chain"} /\ on'[x] = on[x]
    BY <2>3 DEF IndInv, TypeInv, Actors
  <2>5. \A i \in Irps :
               /\ irp'[i] = "none" => mustSee'[i] = {}
               /\ dpc'[i] \in {"chain", "pend"} => mustSee'[i] = {}
               /\ irp'[i] = "passed" => mustSee'[i] \subseteq Done'[i]
    BY <2>3 DEF IndInv, SeenInv
  <2>6. \A r \in ToSet(pendQ') : mustSee'[reqIrp'[r]] = {}
    BY <2>2, <2>3 DEF IndInv, SeenInv
  <2>7. pc'[FwThread] = "serve" => mustSee'[reqIrp'[on'[FwThread]]] = {}
    BY <2>1, <2>3, <2>4 DEF IndInv, SeenInv
  <2>8. \A x \in Actors : pc'[x] \in {"check", "chain"} =>
               mustSee'[reqIrp'[on'[x]]] \subseteq Done'[reqIrp'[on'[x]]]
    BY <2>3, <2>4 DEF IndInv, SeenInv
  <2>9. \A c \in Clients, r \in Requests :
               r \in mayInject'[c] \/ (pc'[c] = "walk" /\ on'[c] = r) =>
                   mustSee'[reqIrp'[r]] \subseteq
                       Done'[reqIrp'[r]] \cup {c} \cup After(fwList', c)
    BY <2>3 DEF IndInv, TypeInv, SeenInv, Actors
  <2>. QED
    BY <2>5, <2>6, <2>7, <2>8, <2>9 DEF SeenInv
<1>15. ASSUME FwScanDone PROVE SeenInv'
  BY <1>0, <1>15 DEF IndInv, SeenInv, FwScanDone, irpVars, reqVars, histVars
<1>16. ASSUME FwServe PROVE SeenInv'
  BY <1>0, <1>16, ConstantsAssumption
     DEF IndInv, TypeInv, SeenInv, InjectInv, Actors, FwServe, irpVars,
         pendVars, histVars
<1>17. ASSUME FwServeNobody PROVE SeenInv'
  <2>1. /\ pc[FwThread] = "serve" /\ Live(on[FwThread])
        /\ on[FwThread] \in Requests
    BY <1>17 DEF FwServeNobody, Facts, IndInv, TypeInv, PlaceInv
  <2>2. PICK i \in Irps : i = reqIrp[on[FwThread]]
    BY <2>1 DEF Live, IndInv, TypeInv
  <2>3. irp[i] = "pending" /\ mustSee[i] = {}
    BY <2>1, <2>2 DEF IndInv, SeenInv, OwnerInv
  <2>4. /\ irp' = [irp EXCEPT ![i] = "passed"]
        /\ on' = [on EXCEPT ![FwThread] = NULL]
        /\ pc' = [pc EXCEPT ![FwThread] = "lock"]
        /\ UNCHANGED <<dpc, pendQ, reqIrp, mayInject, mustSee, Done, fwList>>
    BY <1>0, <1>17, <2>2, <2>3
       DEF FwServeNobody, tdiChainIrp, EndIrp, pendVars, histVars
  <2>5. \A j \in Irps :
               /\ irp'[j] = "none" => mustSee'[j] = {}
               /\ dpc'[j] \in {"chain", "pend"} => mustSee'[j] = {}
               /\ irp'[j] = "passed" => mustSee'[j] \subseteq Done'[j]
    BY <2>3, <2>4, ConstantsAssumption
       DEF IndInv, TypeInv, SeenInv, Actors, ConstantsAssumption
  <2>6. \A r \in ToSet(pendQ') : mustSee'[reqIrp'[r]] = {}
    BY <2>3, <2>4, ConstantsAssumption
       DEF IndInv, TypeInv, SeenInv, Actors, ConstantsAssumption
  <2>7. pc'[FwThread] = "serve" => mustSee'[reqIrp'[on'[FwThread]]] = {}
    BY <2>3, <2>4, ConstantsAssumption
       DEF IndInv, TypeInv, SeenInv, Actors, ConstantsAssumption
  <2>8. \A x \in Actors : pc'[x] \in {"check", "chain"} =>
               mustSee'[reqIrp'[on'[x]]] \subseteq Done'[reqIrp'[on'[x]]]
    BY <2>3, <2>4, ConstantsAssumption
       DEF IndInv, TypeInv, SeenInv, Actors, ConstantsAssumption
  <2>9. \A c \in Clients, r \in Requests :
               r \in mayInject'[c] \/ (pc'[c] = "walk" /\ on'[c] = r) =>
                   mustSee'[reqIrp'[r]] \subseteq
                       Done'[reqIrp'[r]] \cup {c} \cup After(fwList', c)
    BY <2>3, <2>4, ConstantsAssumption
       DEF IndInv, TypeInv, SeenInv, Actors, ConstantsAssumption
  <2>. QED
    BY <2>5, <2>6, <2>7, <2>8, <2>9 DEF SeenInv
<1>18. ASSUME FwInject PROVE SeenInv'
  <2>1. PICK kept, next, seen \in SUBSET Clients :
          Walked(FwThread, kept, next, seen)
    BY <1>18, FwInjectWalks DEF IndInv
  <2>2. PICK r \in Requests : r = on[FwThread]
    BY <1>18 DEF FwInject, IndInv, TypeInv, PlaceInv
  <2>3. /\ pc[FwThread] = "walk" /\ FwThread \in Actors /\ Injecting(FwThread, r)
        /\ mustSee' = [mustSee EXCEPT ![reqIrp[r]] = Registered]
        /\ UNCHANGED <<irp, dpc, pendQ, reqIrp, on, fwList>>
    BY <1>18, <2>2 DEF FwInject, Actors, Injecting, irpVars, pendVars
  <2>4. PICK i \in Irps : i = reqIrp[r] /\ Live(r) /\ irp[i] = "pending"
    BY <2>2, <2>3 DEF IndInv, InjectInv, TypeInv, Facts, Live, OwnerInv
  <2>5. /\ mustSee'[i] = Registered /\ Audience(FwThread) = Registered
        /\ \A j \in Irps : j # i => mustSee'[j] = mustSee[j] /\ Done'[j] = Done[j]
        /\ Done'[i] = Done[i] \cup seen
    BY <2>1, <2>2, <2>3, <2>4 DEF Walked, Audience, IndInv, TypeInv
  <2>6. /\ \A x \in Actors : x # FwThread => pc'[x] = pc[x]
        /\ pc'[FwThread] \in {"check", "free"}
        /\ pc'[FwThread] = "check" => Registered \subseteq seen
    BY <2>1, <2>3, <2>5 DEF Walked, Leave, IndInv, TypeInv
  <2>7. \A q \in Requests : Live(q) /\ reqIrp[q] = i => q = r
    BY <2>4 DEF IndInv, OwnerInv
  <2>8. \A j \in Irps :
               /\ irp'[j] = "none" => mustSee'[j] = {}
               /\ dpc'[j] \in {"chain", "pend"} => mustSee'[j] = {}
               /\ irp'[j] = "passed" => mustSee'[j] \subseteq Done'[j]
    <3>1. dpc[i] \notin {"chain", "pend"}
      <4>1. dpc[i] # "chain"
        BY <2>4 DEF IndInv, OwnerInv
      <4>2. dpc[i] = "pend" => dreq[i] = r
        BY <2>7 DEF Facts, IndInv, PlaceInv, TypeInv, Live
      <4>3. dpc[i] = "pend" => dreq[i] # r
        BY <2>2 DEF IndInv, PlaceInv
      <4>. QED
        BY <4>1, <4>2, <4>3
    <3>. QED
      BY <2>3, <2>4, <2>5, <3>1 DEF IndInv, SeenInv
  <2>9. \A q \in ToSet(pendQ') : mustSee'[reqIrp'[q]] = {}
    <3>1. ASSUME NEW q \in ToSet(pendQ) PROVE reqIrp[q] # i /\ reqIrp[q] \in Irps
      <4>1. q \in Requests /\ Live(q) /\ q # r
        BY <2>2, <2>3 DEF Facts, IndInv, TypeInv, PlaceInv, Live
      <4>. QED
        BY <2>7, <4>1 DEF Live, IndInv, TypeInv
    <3>. QED
      BY <2>3, <2>5, <3>1 DEF IndInv, SeenInv
  <2>10. \A x \in Actors : pc'[x] \in {"check", "chain"} =>
               mustSee'[reqIrp'[on'[x]]] \subseteq Done'[reqIrp'[on'[x]]]
    <3>1. pc'[FwThread] = "check" => mustSee'[i] \subseteq Done'[i]
      BY <2>5, <2>6
    <3>2. ASSUME NEW x \in Actors, x # FwThread, pc[x] \in {"check", "chain"}
          PROVE  reqIrp[on[x]] # i /\ reqIrp[on[x]] \in Irps
      <4>1. on[x] \in Requests /\ Injecting(x, on[x])
        BY <3>2 DEF IndInv, TypeInv, PlaceInv, Actors, Injecting
      <4>2. Live(on[x]) /\ on[x] # r
        BY <2>3, <3>2, <4>1 DEF IndInv, InjectInv, Facts
      <4>. QED
        BY <2>7, <4>1, <4>2 DEF Live, IndInv, TypeInv
    <3>. QED
      BY <2>2, <2>3, <2>4, <2>5, <2>6, <3>1, <3>2 DEF IndInv, SeenInv
  <2>11. ASSUME NEW d \in Clients, NEW q \in Requests,
                q \in mayInject'[d] \/ (pc'[d] = "walk" /\ on'[d] = q)
         PROVE  mustSee'[reqIrp'[q]] \subseteq
                    Done'[reqIrp'[q]] \cup {d} \cup After(fwList', d)
    <3>0. d # FwThread /\ d \in Actors
      BY ConstantsAssumption DEF ConstantsAssumption, Actors
    <3>1. CASE q \in mayInject[d] \/ (pc[d] = "walk" /\ on[d] = q)
      <4>1. Live(q) /\ q # r
        BY <2>3, <3>0, <3>1 DEF IndInv, InjectInv, Facts, Injecting
      <4>2. reqIrp[q] # i /\ reqIrp[q] \in Irps
        BY <2>7, <4>1 DEF Live, IndInv, TypeInv
      <4>. QED
        BY <2>3, <2>5, <3>1, <4>2 DEF IndInv, SeenInv
    <3>2. CASE ~(q \in mayInject[d] \/ (pc[d] = "walk" /\ on[d] = q))
      <4>1. q = r /\ d \in next
        BY <2>1, <2>2, <2>3, <2>6, <2>11, <3>0, <3>2 DEF Walked
      <4>2. Registered \subseteq seen \cup {d} \cup After(fwList, d)
        BY <2>1, <2>5, <4>1 DEF Walked
      <4>. QED
        BY <2>3, <2>4, <2>5, <4>1, <4>2
    <3>. QED
      BY <3>1, <3>2
  <2>. QED
    BY <2>6, <2>8, <2>9, <2>10, <2>11 DEF SeenInv
<1>19. ASSUME FwFree PROVE SeenInv'
  <2>1. /\ on[FwThread] \in Requests /\ FwThread \in Users(on[FwThread])
        /\ Released(on[FwThread], FwThread)
    BY <1>19, FwFreeReleases
  <2>2. PICK r \in Requests : r = on[FwThread]
    BY <2>1
  <2>3. /\ pc[FwThread] = "free" /\ on' = [on EXCEPT ![FwThread] = NULL]
        /\ pc' = [pc EXCEPT ![FwThread] = "lock"]
        /\ UNCHANGED <<dpc, pendQ, mayInject, mustSee, Done, fwList>>
    BY <1>0, <1>19 DEF FwFree, pendVars, histVars
  <2>4. UNCHANGED irp \/ \E i \in Irps : irp' = [irp EXCEPT ![i] = "failed"]
    BY <2>1, <2>2 DEF Released, Live, IndInv, TypeInv
  <2>5. /\ \A q \in Requests : q # r => reqIrp'[q] = reqIrp[q]
        /\ UNCHANGED reqIrp \/ Users(r) = {FwThread}
    BY <2>1, <2>2 DEF Released, IndInv, TypeInv
  <2>6. /\ r \notin ToSet(pendQ)
        /\ \A x \in Actors : pc[x] \in {"check", "chain"} =>
               on[x] # r \/ UNCHANGED reqIrp
        /\ \A c \in Clients : r \in mayInject[c] \/ (pc[c] = "walk" /\ on[c] = r) =>
               UNCHANGED reqIrp
    <3>1. r \notin ToSet(pendQ)
      BY <2>1, <2>2 DEF Facts
    <3>2. ASSUME Users(r) = {FwThread}
          PROVE  /\ \A x \in Actors : pc[x] \in {"check", "chain"} => on[x] # r
                 /\ \A c \in Clients :
                        r \notin mayInject[c] /\ ~(pc[c] = "walk" /\ on[c] = r)
      <4>1. \A c \in Clients : r \notin held[c]
        BY <3>2, ConstantsAssumption DEF Users, ConstantsAssumption
      <4>. QED
        BY <2>3, <4>1 DEF IndInv, PlaceInv, Actors
    <3>. QED
      BY <2>5, <3>1, <3>2
  <2>7. \A x \in Actors : pc[x] \in {"check", "chain"} => on[x] \in Requests
    BY DEF IndInv, TypeInv, PlaceInv, Actors
  <2>8. \A x \in Actors : pc'[x] \in {"check", "chain"} =>
            /\ pc[x] \in {"check", "chain"}
            /\ reqIrp'[on'[x]] = reqIrp[on[x]]
    BY <2>3, <2>5, <2>6, <2>7 DEF IndInv, TypeInv
  <2>9. \A i \in Irps :
               /\ irp'[i] = "none" => mustSee'[i] = {}
               /\ dpc'[i] \in {"chain", "pend"} => mustSee'[i] = {}
               /\ irp'[i] = "passed" => mustSee'[i] \subseteq Done'[i]
    BY <2>3, <2>4 DEF IndInv, TypeInv, SeenInv
  <2>10. \A q \in ToSet(pendQ') : mustSee'[reqIrp'[q]] = {}
    BY <2>3, <2>5, <2>6 DEF IndInv, TypeInv, SeenInv, PlaceInv
  <2>11. pc'[FwThread] = "serve" => mustSee'[reqIrp'[on'[FwThread]]] = {}
    BY <2>3
  <2>12. \A x \in Actors : pc'[x] \in {"check", "chain"} =>
               mustSee'[reqIrp'[on'[x]]] \subseteq Done'[reqIrp'[on'[x]]]
    BY <2>3, <2>8 DEF IndInv, SeenInv
  <2>13. \A c \in Clients, q \in Requests :
               q \in mayInject'[c] \/ (pc'[c] = "walk" /\ on'[c] = q) =>
                   mustSee'[reqIrp'[q]] \subseteq
                       Done'[reqIrp'[q]] \cup {c} \cup After(fwList', c)
    BY <2>3, <2>5, <2>6 DEF IndInv, SeenInv
  <2>. QED
    BY <2>9, <2>10, <2>11, <2>12, <2>13 DEF SeenInv
<1>20. ASSUME NEW x \in Actors, InjectCheck(x) PROVE SeenInv'
  BY <1>0, <1>20
     DEF IndInv, TypeInv, SeenInv, InjectCheck, Leave, irpVars, pendVars,
         reqVars, histVars
<1>21. ASSUME NEW x \in Actors, InjectChain(x) PROVE SeenInv'
  <2>1. PICK r \in Requests : r = on[x] /\ Live(r)
    <3>1. on[x] \in Requests
      BY <1>21 DEF InjectChain, IndInv, TypeInv, PlaceInv, Actors
    <3>. QED
      BY <1>21, <3>1 DEF InjectChain, Facts, Injecting
  <2>2. PICK i \in Irps : i = reqIrp[r]
    BY <2>1 DEF Live, IndInv, TypeInv
  <2>3. /\ pc[x] = "chain" /\ pc' = [pc EXCEPT ![x] = "clear"]
        /\ irp' = [irp EXCEPT ![i] = "passed"]
        /\ UNCHANGED <<dpc, pendQ, reqIrp, on, mayInject, mustSee, Done, fwList>>
    BY <1>0, <1>21, <2>1, <2>2
       DEF InjectChain, tdiChainIrp, EndIrp, pendVars, reqVars, histVars, IndInv,
           OwnerInv, Live
  <2>4. mustSee[i] \subseteq Done[i]
    BY <2>1, <2>2, <2>3 DEF IndInv, SeenInv
  <2>5. /\ \A j \in Irps : irp'[j] = irp[j] \/ (j = i /\ irp'[j] = "passed")
        /\ \A y \in Actors : pc'[y] = pc[y] \/ pc'[y] = "clear"
    BY <2>3 DEF IndInv, TypeInv
  <2>. QED
    BY <2>3, <2>4, <2>5 DEF IndInv, SeenInv, Actors
<1>22. ASSUME NEW x \in Actors, InjectClear(x) PROVE SeenInv'
  BY <1>0, <1>22
     DEF IndInv, TypeInv, SeenInv, PlaceInv, InjectInv, Facts, Injecting,
         Users, Actors, InjectClear, Leave, irpVars, pendVars, histVars
<1>23. ASSUME NEW c \in Clients, ClientRegisters(c) PROVE SeenInv'
  <2>1. /\ c \notin Registered /\ Registered' = Registered \cup {c}
        /\ fwList' \in Seq(Clients) /\ IsInjective(fwList')
        /\ \A e \in Registered : After(fwList', e) = After(fwList, e) \cup {c}
    BY <1>23, RegisterKeeps DEF IndInv, ClientRegisters
  <2>2. /\ pc[c] = "idle"
        /\ UNCHANGED <<irp, dpc, pendQ, reqIrp, pc, on, mayInject, mustSee, Done>>
    BY <1>0, <1>23 DEF ClientRegisters, irpVars, pendVars, reqVars, fwVars, histVars
  <2>3. \A i \in Irps :
               /\ irp'[i] = "none" => mustSee'[i] = {}
               /\ dpc'[i] \in {"chain", "pend"} => mustSee'[i] = {}
               /\ irp'[i] = "passed" => mustSee'[i] \subseteq Done'[i]
    BY <2>1, <2>2, OnTheList DEF IndInv, TypeInv, SeenInv, ConstantsAssumption
  <2>4. \A r \in ToSet(pendQ') : mustSee'[reqIrp'[r]] = {}
    BY <2>1, <2>2, OnTheList DEF IndInv, TypeInv, SeenInv, ConstantsAssumption
  <2>5. pc'[FwThread] = "serve" => mustSee'[reqIrp'[on'[FwThread]]] = {}
    BY <2>1, <2>2, OnTheList DEF IndInv, TypeInv, SeenInv, ConstantsAssumption
  <2>6. \A x \in Actors : pc'[x] \in {"check", "chain"} =>
               mustSee'[reqIrp'[on'[x]]] \subseteq Done'[reqIrp'[on'[x]]]
    BY <2>1, <2>2, OnTheList DEF IndInv, TypeInv, SeenInv, ConstantsAssumption
  <2>7. \A d \in Clients, r \in Requests :
               r \in mayInject'[d] \/ (pc'[d] = "walk" /\ on'[d] = r) =>
                   mustSee'[reqIrp'[r]] \subseteq
                       Done'[reqIrp'[r]] \cup {d} \cup After(fwList', d)
    BY <2>1, <2>2, OnTheList DEF IndInv, TypeInv, SeenInv, ConstantsAssumption
  <2>. QED
    BY <2>3, <2>4, <2>5, <2>6, <2>7 DEF SeenInv
<1>24. ASSUME NEW c \in Clients, ClientDeregisters(c) PROVE SeenInv'
  <2>1. /\ Registered' = Registered \ {c}
        /\ fwList' \in Seq(Clients) /\ IsInjective(fwList')
        /\ \A e : e # c => After(fwList', e) = After(fwList, e) \ {c}
    BY <1>24, DeregisterKeeps DEF IndInv, ClientDeregisters
  <2>2. /\ pc[c] = "idle" /\ held[c] = {}
        /\ mustSee' = [i \in Irps |-> mustSee[i] \ {c}]
        /\ UNCHANGED <<irp, dpc, pendQ, reqIrp, pc, on, mayInject, Done>>
    BY <1>0, <1>24 DEF ClientDeregisters, irpVars, pendVars, reqVars, fwVars
  <2>3. /\ \A r \in ToSet(pendQ) : reqIrp[r] \in Irps
        /\ pc[FwThread] = "serve" => reqIrp[on[FwThread]] \in Irps
        /\ \A x \in Actors : pc[x] \in {"check", "chain"} => reqIrp[on[x]] \in Irps
        /\ \A d \in Clients, r \in Requests :
               r \in mayInject[d] \/ (pc[d] = "walk" /\ on[d] = r) =>
                   d # c /\ reqIrp[r] \in Irps
    BY <2>2 DEF IndInv, TypeInv, PlaceInv, InjectInv, Injecting, Actors
  <2>4. \A i \in Irps :
               /\ irp'[i] = "none" => mustSee'[i] = {}
               /\ dpc'[i] \in {"chain", "pend"} => mustSee'[i] = {}
               /\ irp'[i] = "passed" => mustSee'[i] \subseteq Done'[i]
    BY <2>2 DEF IndInv, SeenInv
  <2>5. \A r \in ToSet(pendQ') : mustSee'[reqIrp'[r]] = {}
    BY <2>2, <2>3 DEF IndInv, SeenInv
  <2>6. pc'[FwThread] = "serve" => mustSee'[reqIrp'[on'[FwThread]]] = {}
    BY <2>2, <2>3 DEF IndInv, SeenInv
  <2>7. \A x \in Actors : pc'[x] \in {"check", "chain"} =>
               mustSee'[reqIrp'[on'[x]]] \subseteq Done'[reqIrp'[on'[x]]]
    BY <2>2, <2>3 DEF IndInv, SeenInv
  <2>8. \A d \in Clients, r \in Requests :
               r \in mayInject'[d] \/ (pc'[d] = "walk" /\ on'[d] = r) =>
                   mustSee'[reqIrp'[r]] \subseteq
                       Done'[reqIrp'[r]] \cup {d} \cup After(fwList', d)
    BY <2>1, <2>2, <2>3 DEF IndInv, SeenInv
  <2>. QED
    BY <2>4, <2>5, <2>6, <2>7, <2>8 DEF SeenInv
<1>25. ASSUME NEW c \in Clients, ClientInject(c) PROVE SeenInv'
  <2>1. PICK kept, next, seen \in SUBSET Clients :
          Walked(c, kept, next, seen)
    BY <1>25, ClientInjectWalks DEF IndInv
  <2>2. PICK r \in Requests : r = on[c]
    BY <1>25 DEF ClientInject, IndInv, TypeInv, PlaceInv
  <2>3. /\ pc[c] = "walk" /\ c \in Actors /\ c # FwThread /\ Injecting(c, r)
        /\ UNCHANGED <<irp, dpc, pendQ, reqIrp, on, mustSee, fwList>>
    BY <1>25, <2>2, ConstantsAssumption
       DEF ClientInject, Actors, Injecting, irpVars, pendVars,
           ConstantsAssumption
  <2>4. PICK i \in Irps : i = reqIrp[r]
    BY <2>2, <2>3 DEF IndInv, InjectInv, TypeInv
  <2>5. /\ Done'[i] = Done[i] \cup seen
        /\ \A j \in Irps : Done[j] \subseteq Done'[j]
        /\ Done' = [j \in Irps |-> Done'[j]]
    BY <2>1, <2>2, <2>4 DEF Walked
  <2>6. mustSee[i] \subseteq Done[i] \cup {c} \cup Audience(c)
    BY <2>2, <2>3, <2>4 DEF IndInv, SeenInv, Audience
  <2>7. c \in seen
    BY <2>1 DEF Walked
  <2>8. ASSUME NEW x \in Actors, pc'[x] \in {"check", "chain"}
        PROVE  mustSee[reqIrp[on[x]]] \subseteq Done'[reqIrp[on[x]]]
    <3>1. CASE x = c
      <4>1. Audience(c) \subseteq seen
        BY <2>1, <2>3, <2>8, <3>1 DEF Walked, Leave, IndInv, TypeInv
      <4>. QED
        BY <2>2, <2>4, <2>5, <2>6, <2>7, <3>1, <4>1
    <3>2. CASE x # c
      <4>1. pc[x] \in {"check", "chain"}
        BY <2>1, <2>3, <2>8, <3>2 DEF Walked, Leave, IndInv, TypeInv
      <4>2. reqIrp[on[x]] \in Irps /\ on[x] \in Requests
        BY <4>1, ConstantsAssumption
           DEF IndInv, TypeInv, PlaceInv, InjectInv, Injecting, Actors,
               ConstantsAssumption
      <4>. QED
        BY <2>5, <4>1, <4>2 DEF IndInv, SeenInv
    <3>. QED
      BY <3>1, <3>2
  <2>9. ASSUME NEW d \in Clients, NEW q \in Requests,
               q \in mayInject'[d] \/ (pc'[d] = "walk" /\ on[d] = q)
        PROVE  mustSee[reqIrp[q]] \subseteq
                   Done'[reqIrp[q]] \cup {d} \cup After(fwList, d)
    <3>1. CASE q \in mayInject[d] \/ (pc[d] = "walk" /\ on[d] = q /\ d # c)
      <4>1. reqIrp[q] \in Irps
        BY <3>1 DEF IndInv, TypeInv, InjectInv, Injecting, Actors
      <4>. QED
        BY <2>5, <3>1, <4>1 DEF IndInv, SeenInv
    <3>2. CASE ~(q \in mayInject[d] \/ (pc[d] = "walk" /\ on[d] = q /\ d # c))
      <4>1. pc'[d] = "walk" => pc[d] = "walk" /\ d # c
        BY <2>1, <2>3 DEF Walked, Leave, IndInv, TypeInv, Actors
      <4>2. q = r /\ d \in next
        BY <2>1, <2>2, <2>9, <3>2, <4>1 DEF Walked
      <4>3. Audience(c) \subseteq seen \cup {d} \cup After(fwList, d)
        BY <2>1, <4>2 DEF Walked
      <4>. QED
        BY <2>4, <2>5, <2>6, <2>7, <4>2, <4>3
    <3>. QED
      BY <3>1, <3>2
  <2>10. pc'[FwThread] = pc[FwThread]
    BY <2>1, <2>3, ConstantsAssumption
       DEF Walked, Leave, IndInv, TypeInv, Actors, ConstantsAssumption
  <2>. QED
    BY <2>3, <2>5, <2>8, <2>9, <2>10 DEF IndInv, SeenInv
<1>26. ASSUME NEW c \in Clients, NEW r \in Requests, ClientCallsInject(c, r)
      PROVE  SeenInv'
  BY <1>0, <1>26
     DEF IndInv, TypeInv, SeenInv, PlaceInv, InjectInv, Injecting, Actors,
         ClientCallsInject, irpVars, pendVars, reqVars, histVars
<1>27. ASSUME NEW c \in Clients, NEW r \in Requests, ClientFree(c, r)
      PROVE  SeenInv'
  <2>1. c \in Users(r) /\ Released(r, c)
    BY <1>27, ClientFreeReleases
  <2>2. /\ pc[c] = "idle" /\ on' = [on EXCEPT ![c] = NULL]
        /\ mayInject' = [mayInject EXCEPT ![c] = @ \ {r}]
        /\ UNCHANGED <<pc, dpc, pendQ, mustSee, Done, fwList>>
    BY <1>0, <1>27 DEF ClientFree, pendVars, histVars
  <2>3. UNCHANGED irp \/ \E i \in Irps : irp' = [irp EXCEPT ![i] = "failed"]
    BY <2>1 DEF Released, Live, IndInv, TypeInv
  <2>4. /\ \A q \in Requests : q # r => reqIrp'[q] = reqIrp[q]
        /\ UNCHANGED reqIrp \/ Users(r) = {c}
    BY <2>1 DEF Released, IndInv, TypeInv
  <2>5. /\ r \notin ToSet(pendQ) /\ ~(pc[FwThread] = "serve" /\ on[FwThread] = r)
        /\ \A x \in Actors : pc[x] \in {"check", "chain"} =>
               on[x] # r \/ UNCHANGED reqIrp
        /\ \A d \in Clients : r \in mayInject'[d] \/ (pc[d] = "walk" /\ on[d] = r) =>
               UNCHANGED reqIrp
    <3>1. r \notin ToSet(pendQ) /\ ~(pc[FwThread] = "serve" /\ on[FwThread] = r)
      BY <2>1 DEF Facts
    <3>2. \A x \in Actors : Injecting(x, r) => UNCHANGED reqIrp \/ x = c
      BY <2>1, <2>4 DEF Facts
    <3>3. /\ mayInject \in [Clients -> SUBSET Requests]
          /\ \A d \in Clients : mayInject[d] \subseteq held[d]
      BY DEF IndInv, TypeInv, PlaceInv
    <3>4. \A d \in Clients : r \in mayInject'[d] => d # c /\ r \in held[d]
      BY <2>2, <3>3
    <3>5. \A d \in Clients : r \in mayInject'[d] => UNCHANGED reqIrp
      BY <2>4, <3>4 DEF Users
    <3>6. c \in Actors /\ (\A d \in Clients : d \in Actors)
      BY DEF Actors
    <3>. QED
      BY <2>2, <3>1, <3>2, <3>5, <3>6 DEF Injecting
  <2>6. /\ \A x \in Actors : on'[x] = on[x] \/ pc[x] = "idle"
        /\ \A d \in Clients : mayInject'[d] \subseteq mayInject[d]
        /\ on'[FwThread] = on[FwThread]
    BY <2>2, ConstantsAssumption
       DEF IndInv, TypeInv, Actors, ConstantsAssumption
  <2>7. \A x \in Actors : pc[x] \in {"check", "chain"} => on[x] \in Requests
    BY DEF IndInv, TypeInv, PlaceInv, Actors
  <2>8. \A x \in Actors : pc'[x] \in {"check", "chain"} =>
            /\ pc[x] \in {"check", "chain"}
            /\ reqIrp'[on'[x]] = reqIrp[on[x]]
    BY <2>2, <2>4, <2>5, <2>6, <2>7
  <2>9. \A i \in Irps :
               /\ irp'[i] = "none" => mustSee'[i] = {}
               /\ dpc'[i] \in {"chain", "pend"} => mustSee'[i] = {}
               /\ irp'[i] = "passed" => mustSee'[i] \subseteq Done'[i]
    BY <2>2, <2>3 DEF IndInv, TypeInv, SeenInv
  <2>10. \A q \in ToSet(pendQ') : mustSee'[reqIrp'[q]] = {}
    BY <2>2, <2>4, <2>5 DEF IndInv, TypeInv, SeenInv, PlaceInv
  <2>11. pc'[FwThread] = "serve" => mustSee'[reqIrp'[on'[FwThread]]] = {}
    BY <2>2, <2>4, <2>5 DEF IndInv, TypeInv, SeenInv, PlaceInv
  <2>12. \A x \in Actors : pc'[x] \in {"check", "chain"} =>
               mustSee'[reqIrp'[on'[x]]] \subseteq Done'[reqIrp'[on'[x]]]
    BY <2>2, <2>8 DEF IndInv, SeenInv
  <2>13. \A d \in Clients, q \in Requests :
               q \in mayInject'[d] \/ (pc'[d] = "walk" /\ on'[d] = q) =>
                   mustSee'[reqIrp'[q]] \subseteq
                       Done'[reqIrp'[q]] \cup {d} \cup After(fwList', d)
    BY <2>2, <2>4, <2>5 DEF IndInv, SeenInv
  <2>. QED
    BY <2>9, <2>10, <2>11, <2>12, <2>13 DEF SeenInv
<1>28. ASSUME \/ \E i \in Irps :
                   \/ IoCancelIrp(i) \/ IoCancelSwap(i) \/ CancelSetEvent(i)
              \/ UNCHANGED vars
      PROVE  SeenInv'
  <2>1. UNCHANGED <<irp, dpc, pendQ, reqIrp, pc, on, mayInject, mustSee,
                    Done, fwList>>
    BY <1>0, <1>28
       DEF IoCancelIrp, reqVars, fwVars, histVars, IoCancelSwap,
           CancelSetEvent, irpVars, vars, pendVars
  <2>. QED
    BY <2>1 DEF IndInv, SeenInv, Actors
<1>. QED
  BY <1>1, <1>2, <1>3, <1>4, <1>5, <1>6, <1>7, <1>8, <1>9, <1>10, <1>11, <1>12,
     <1>13, <1>14, <1>15, <1>16, <1>17, <1>18, <1>19, <1>20, <1>21, <1>22,
     <1>23, <1>24, <1>25, <1>26, <1>27, <1>28
     DEF Next, DispatchNext, CancelNext, FwNext, InjectNext, Actors

\* A step that answers an IRP ends the one claim to it.
LEMMA OwnerStep ==
    ASSUME ~rivals', IndInv, Facts, [Next]_vars
    PROVE  OwnerInv'
<1>1. ASSUME NEW i \in Irps, NEW r \in Requests, tdiConnectionOk(i, r)
      PROVE  OwnerInv'
  <2>1. /\ irp[i] = "none" /\ r \notin used
        /\ irp' = [irp EXCEPT ![i] = "pending"]
        /\ used' = used \cup {r}
        /\ reqIrp' = [reqIrp EXCEPT ![r] = i]
        /\ dpc' = [dpc EXCEPT ![i] = "pend"]
        /\ UNCHANGED <<cpc, pc, on>>
    BY <1>1 DEF tdiConnectionOk, fwVars
  <2>2. \A q \in Requests : Live(q)' =>
            q = r \/ (Live(q) /\ reqIrp'[q] = reqIrp[q] /\ reqIrp[q] # i)
    <3>1. \A q \in Requests : Live(q) => reqIrp[q] # i
      BY <2>1 DEF IndInv, OwnerInv
    <3>2. \A q \in Requests : q # r => (Live(q)' => Live(q)) /\ reqIrp'[q] = reqIrp[q]
      BY <2>1 DEF Live, IndInv, TypeInv
    <3>. QED
      BY <3>1, <3>2
  <2>3. reqIrp'[r] = i
    BY <2>1 DEF IndInv, TypeInv
  <2>. QED
    BY <2>1, <2>2, <2>3 DEF IndInv, TypeInv, OwnerInv
<1>2. ASSUME NEW i \in Irps, tdiAllocateRequestFails(i) PROVE OwnerInv'
  <2>1. LiveKept
    BY <1>2 DEF Live, LiveKept, tdiAllocateRequestFails, reqVars, fwVars
  <2>2. /\ irp[i] = "none"
        /\ irp' = [irp EXCEPT ![i] = "pending"]
        /\ dpc' = [dpc EXCEPT ![i] = "chain"]
        /\ UNCHANGED cpc
    BY <1>2 DEF tdiAllocateRequestFails
  <2>. QED
    BY <2>1, <2>2 DEF IndInv, TypeInv, OwnerInv, LiveKept
<1>3. ASSUME NEW i \in Irps, Reuse(i) PROVE OwnerInv'
  <2>1. LiveKept
    BY <1>3 DEF Live, LiveKept, Reuse, reqVars, fwVars
  <2>. QED
    BY <1>3, <2>1 DEF IndInv, OwnerInv, LiveKept, Reuse, pendVars
<1>4. ASSUME NEW i \in Irps, IoCancelIrp(i) PROVE OwnerInv'
  <2>1. LiveKept
    BY <1>4 DEF Live, LiveKept, IoCancelIrp, reqVars, fwVars
  <2>. QED
    BY <1>4, <2>1 DEF IndInv, OwnerInv, LiveKept, IoCancelIrp
<1>5. ASSUME NEW i \in Irps, ChainUnasked(i) PROVE OwnerInv'
  <2>1. LiveKept
    BY <1>5, ConstantsAssumption
       DEF Live, LiveKept, ChainUnasked, reqVars, fwVars, ConstantsAssumption
  <2>2. /\ irp[i] = "pending" /\ cpc[i] # "complete"
        /\ \A r \in Requests : Live(r) => reqIrp[r] # i
    BY <1>5 DEF ChainUnasked, IndInv, OwnerInv
  <2>3. Answered(i)
    BY <1>5, <2>1, <2>2
       DEF ChainUnasked, tdiChainIrp, EndIrp, Answered, LiveKept, IndInv,
           TypeInv
  <2>. QED
    BY <2>1, <2>3, AnsweredKeepsOwners DEF IndInv
<1>6. ASSUME NEW i \in Irps, PendInsert(i) PROVE OwnerInv'
  <2>1. /\ dreq[i] \in Requests
        /\ pendQ' \in Seq(Requests) /\ IsInjective(pendQ')
        /\ ToSet(pendQ') = ToSet(pendQ) \cup {dreq[i]}
    BY <1>6, PendInsertQueues DEF IndInv
  <2>2. LiveKept
    BY <1>6 DEF Live, LiveKept, PendInsert, reqVars, fwVars
  <2>. QED
    BY <1>6, <2>2 DEF IndInv, OwnerInv, LiveKept, PendInsert
<1>7. ASSUME NEW i \in Irps, PendCheck(i) PROVE OwnerInv'
  <2>1. LiveKept
    BY <1>7, ConstantsAssumption DEF Live, LiveKept, PendCheck, reqVars, fwVars
  <2>. QED
    BY <1>7, <2>1 DEF IndInv, OwnerInv, LiveKept, PendCheck, irpVars
<1>8. ASSUME NEW i \in Irps, PendSwap(i) PROVE OwnerInv'
  <2>1. routine[i] =>
            dreq[i] \in ToSet(pendQ) /\ reqIrp[dreq[i]] = i /\ Dropped(dreq[i])
    BY <1>8, PendSwapDrops DEF IndInv
  <2>2. LiveKept
    BY <1>8 DEF PendSwap, Live, LiveKept, fwVars
  <2>3. CASE routine[i]
    <3>1. PICK r \in Requests : r = dreq[i] /\ Live(r) /\ ~Live(r)' /\ reqIrp[r] = i
      BY <1>8, <2>1, <2>3 DEF PendSwap, Facts, Live, IndInv, TypeInv
    <3>2. /\ irp[i] = "pending" /\ cpc[i] # "complete"
          /\ \A q \in Requests : Live(q)' => reqIrp'[q] # i
      BY <2>2, <3>1 DEF IndInv, OwnerInv, LiveKept
    <3>3. dpc' = [dpc EXCEPT ![i] = "complete"] /\ UNCHANGED <<irp, cpc>>
      BY <1>8, <2>3 DEF PendSwap
    <3>. QED
      BY <2>2, <3>2, <3>3 DEF IndInv, TypeInv, OwnerInv, LiveKept
  <2>4. CASE ~routine[i]
    <3>1. dpc' = [dpc EXCEPT ![i] = "event"] /\ UNCHANGED <<irp, cpc>>
      BY <1>8, <2>4 DEF PendSwap
    <3>. QED
      BY <2>2, <3>1 DEF IndInv, TypeInv, OwnerInv, LiveKept
  <2>. QED
    BY <2>3, <2>4
<1>9. ASSUME NEW i \in Irps, PendComplete(i) PROVE OwnerInv'
  <2>1. LiveKept
    BY <1>9, ConstantsAssumption
       DEF Live, LiveKept, PendComplete, reqVars, fwVars
  <2>2. /\ irp[i] = "pending" /\ cpc[i] # "complete"
        /\ \A r \in Requests : Live(r) => reqIrp[r] # i
    BY <1>9 DEF PendComplete, IndInv, OwnerInv
  <2>3. Answered(i)
    BY <1>9, <2>1, <2>2
       DEF PendComplete, EndIrp, Answered, LiveKept, IndInv, TypeInv
  <2>. QED
    BY <2>1, <2>3, AnsweredKeepsOwners DEF IndInv
<1>10. ASSUME NEW i \in Irps, PendSetEvent(i) PROVE OwnerInv'
  <2>1. LiveKept
    BY <1>10, ConstantsAssumption
       DEF Live, LiveKept, PendSetEvent, reqVars, fwVars
  <2>. QED
    BY <1>10, <2>1 DEF IndInv, OwnerInv, LiveKept, PendSetEvent, irpVars
<1>11. ASSUME NEW i \in Irps, IoCancelSwap(i) PROVE OwnerInv'
  <2>1. LiveKept
    BY <1>11 DEF Live, LiveKept, IoCancelSwap, reqVars, fwVars
  <2>. QED
    BY <1>11, <2>1 DEF IndInv, OwnerInv, LiveKept, IoCancelSwap
<1>12. ASSUME NEW i \in Irps, tdiCancelIrp(i) PROVE OwnerInv'
  <2>1. PICK r \in ToSet(pendQ) :
            reqIrp[r] = i /\ used' = used \ {r} /\ Dropped(r)
    BY <1>12, tdiCancelIrpDrops
  <2>2. LiveKept
    BY <1>12 DEF tdiCancelIrp, Live, LiveKept, fwVars
  <2>3. r \in Requests /\ Live(r) /\ ~Live(r)'
    BY <2>1 DEF Facts, Live, IndInv, TypeInv, PlaceInv
  <2>4. /\ irp[i] = "pending" /\ dpc[i] \notin {"chain", "complete"}
        /\ \A q \in Requests : Live(q)' => reqIrp'[q] # i
    BY <2>1, <2>2, <2>3 DEF IndInv, OwnerInv, LiveKept
  <2>5. cpc' = [cpc EXCEPT ![i] = "complete"] /\ UNCHANGED <<irp, dpc>>
    BY <1>12 DEF tdiCancelIrp, irpVars
  <2>. QED
    BY <2>2, <2>4, <2>5 DEF IndInv, TypeInv, OwnerInv, LiveKept
<1>13. ASSUME NEW i \in Irps, CancelComplete(i) PROVE OwnerInv'
  <2>1. LiveKept
    BY <1>13, ConstantsAssumption
       DEF Live, LiveKept, CancelComplete, reqVars, fwVars
  <2>2. /\ irp[i] = "pending" /\ dpc[i] \notin {"chain", "complete"}
        /\ \A r \in Requests : Live(r) => reqIrp[r] # i
    BY <1>13 DEF CancelComplete, IndInv, OwnerInv
  <2>3. Answered(i)
    BY <1>13, <2>1, <2>2
       DEF CancelComplete, EndIrp, Answered, LiveKept, IndInv, TypeInv
  <2>. QED
    BY <2>1, <2>3, AnsweredKeepsOwners DEF IndInv
<1>14. ASSUME NEW i \in Irps, CancelSetEvent(i) PROVE OwnerInv'
  <2>1. LiveKept
    BY <1>14, ConstantsAssumption
       DEF Live, LiveKept, CancelSetEvent, reqVars, fwVars
  <2>. QED
    BY <1>14, <2>1 DEF IndInv, OwnerInv, LiveKept, CancelSetEvent, irpVars
<1>15. ASSUME FwWait PROVE OwnerInv'
  <2>1. LiveKept
    BY <1>15 DEF Live, LiveKept, FwWait, reqVars
  <2>. QED
    BY <1>15, <2>1 DEF IndInv, OwnerInv, LiveKept, FwWait, irpVars
<1>16. ASSUME FwLock PROVE OwnerInv'
  <2>1. LiveKept
    BY <1>16 DEF Live, LiveKept, FwLock, reqVars
  <2>. QED
    BY <1>16, <2>1 DEF IndInv, OwnerInv, LiveKept, FwLock, irpVars
<1>17. ASSUME FwGetRequest PROVE OwnerInv'
  <2>1. /\ pc[FwThread] = "scan"
        /\ \/ /\ on' = [on EXCEPT ![FwThread] = pendQ[at]]
              /\ pc' = [pc EXCEPT ![FwThread] = "serve"]
           \/ UNCHANGED <<on, pc>>
        /\ UNCHANGED <<irp, dpc, cpc, used, reqIrp>>
    BY <1>17 DEF FwGetRequest, reqVars
  <2>2. LiveKept
    BY <2>1 DEF IndInv, TypeInv, Live, LiveKept, Actors
  <2>. QED
    BY <2>1, <2>2 DEF IndInv, OwnerInv, LiveKept
<1>18. ASSUME FwScanDone PROVE OwnerInv'
  <2>1. LiveKept
    BY <1>18 DEF Live, LiveKept, FwScanDone, reqVars
  <2>. QED
    BY <1>18, <2>1 DEF IndInv, OwnerInv, LiveKept, FwScanDone, irpVars
<1>19. ASSUME FwServe PROVE OwnerInv'
  <2>1. LiveKept
    BY <1>19 DEF Live, LiveKept, FwServe
  <2>. QED
    BY <1>19, <2>1 DEF IndInv, OwnerInv, LiveKept, FwServe, irpVars, pendVars
<1>20. ASSUME FwServeNobody PROVE OwnerInv'
  <2>1. PICK r \in Requests : r = on[FwThread] /\ Live(r)
    BY <1>20 DEF FwServeNobody, Facts, IndInv, TypeInv, PlaceInv
  <2>2. PICK i \in Irps : i = reqIrp[r]
    BY <2>1 DEF Live, IndInv, TypeInv
  <2>3. /\ irp[i] = "pending" /\ irp' = [irp EXCEPT ![i] = "passed"]
        /\ pc[FwThread] = "serve" /\ pc' = [pc EXCEPT ![FwThread] = "lock"]
        /\ on' = [on EXCEPT ![FwThread] = NULL] /\ used' = used \ {r}
        /\ UNCHANGED <<dpc, cpc, reqIrp>>
    BY <1>20, <2>1, <2>2
       DEF FwServeNobody, tdiChainIrp, EndIrp, pendVars, IndInv, OwnerInv
  <2>4. LiveKept
    BY <2>3, ConstantsAssumption
       DEF IndInv, TypeInv, Live, LiveKept, Actors, ConstantsAssumption
  <2>5. ~Live(r)'
    BY <2>3 DEF Live
  <2>6. Answered(i)
    BY <2>1, <2>2, <2>3, <2>4, <2>5 DEF IndInv, OwnerInv, LiveKept, Answered
  <2>. QED
    BY <2>4, <2>6, AnsweredKeepsOwners DEF IndInv
<1>21. ASSUME FwInject PROVE OwnerInv'
  <2>1. PICK kept, next, seen \in SUBSET Clients :
          Walked(FwThread, kept, next, seen)
    BY <1>21, FwInjectWalks DEF IndInv
  <2>2. LiveKept
    BY <1>21, <2>1 DEF IndInv, TypeInv, Live, LiveKept, FwInject, Walked, Leave
  <2>. QED
    BY <1>21, <2>2
       DEF IndInv, TypeInv, OwnerInv, LiveKept, FwInject, irpVars, pendVars
<1>22. ASSUME FwFree PROVE OwnerInv'
  <2>1. /\ on[FwThread] \in Requests /\ FwThread \in Users(on[FwThread])
        /\ Released(on[FwThread], FwThread)
    BY <1>22, FwFreeReleases
  <2>2. PICK s \in Requests : s = on[FwThread]
    BY <2>1
  <2>3. /\ Released(s, FwThread) /\ pc[FwThread] \in {"idle", "free"}
        /\ \E p \in {pc[FwThread], "lock"} : pc' = [pc EXCEPT ![FwThread] = p]
        /\ on' = [on EXCEPT ![FwThread] = NULL]
        /\ UNCHANGED <<dpc, cpc>>
    BY <1>22, <2>1, <2>2 DEF FwFree, pendVars, IndInv, TypeInv
  <2>4. LiveKept
    BY <2>3, ConstantsAssumption
       DEF Released, IndInv, TypeInv, Live, LiveKept, Actors,
           ConstantsAssumption
  <2>5. CASE UNCHANGED irp
    BY <2>3, <2>4, <2>5 DEF IndInv, OwnerInv, LiveKept
  <2>6. CASE ~UNCHANGED irp
    <3>1. PICK i \in Irps : i = reqIrp[s] /\ Live(s)
      BY <2>3, <2>6 DEF Released, Live, IndInv, TypeInv
    <3>2. /\ irp[i] = "pending" /\ irp' = [irp EXCEPT ![i] = "failed"]
          /\ ~Live(s)'
      BY <2>3, <2>6, <3>1 DEF Released, Live
    <3>3. Answered(i)
      BY <2>3, <2>4, <3>1, <3>2 DEF IndInv, OwnerInv, LiveKept, Answered
    <3>. QED
      BY <2>4, <3>3, AnsweredKeepsOwners DEF IndInv
  <2>. QED
    BY <2>5, <2>6
<1>23. ASSUME NEW x \in Actors, InjectCheck(x) PROVE OwnerInv'
  <2>1. LiveKept
    BY <1>23, ConstantsAssumption
       DEF Live, LiveKept, InjectCheck, Leave, reqVars, ConstantsAssumption
  <2>. QED
    BY <1>23, <2>1
       DEF IndInv, OwnerInv, LiveKept, InjectCheck, irpVars, pendVars
<1>24. ASSUME NEW x \in Actors, InjectChain(x) PROVE OwnerInv'
  <2>1. PICK r \in Requests : r = on[x] /\ Live(r)
    <3>1. on[x] \in Requests
      BY <1>24 DEF InjectChain, IndInv, TypeInv, PlaceInv, Actors
    <3>. QED
      BY <1>24, <3>1 DEF InjectChain, Facts, Injecting
  <2>2. PICK i \in Irps : i = reqIrp[r]
    BY <2>1 DEF Live, IndInv, TypeInv
  <2>3. /\ irp[i] = "pending" /\ irp' = [irp EXCEPT ![i] = "passed"]
        /\ pc[x] = "chain" /\ pc' = [pc EXCEPT ![x] = "clear"]
        /\ UNCHANGED <<on, used, dpc, cpc, reqIrp>>
    BY <1>24, <2>1, <2>2
       DEF InjectChain, tdiChainIrp, EndIrp, pendVars, reqVars, IndInv,
           OwnerInv, Live
  <2>4. LiveKept
    BY <2>3 DEF IndInv, TypeInv, Live, LiveKept, Actors
  <2>5. ~Live(r)'
    BY <2>1, <2>3 DEF Live, IndInv, TypeInv
  <2>6. Answered(i)
    BY <2>1, <2>2, <2>3, <2>4, <2>5 DEF IndInv, OwnerInv, LiveKept, Answered
  <2>. QED
    BY <2>4, <2>6, AnsweredKeepsOwners DEF IndInv
<1>25. ASSUME NEW x \in Actors, InjectClear(x) PROVE OwnerInv'
  <2>1. LiveKept
    BY <1>25, ConstantsAssumption
       DEF IndInv, TypeInv, Live, LiveKept, InjectClear, Leave,
           ConstantsAssumption
  <2>. QED
    BY <1>25, <2>1
       DEF IndInv, OwnerInv, LiveKept, InjectClear, irpVars, pendVars
<1>26. ASSUME NEW c \in Clients, ClientInject(c) PROVE OwnerInv'
  <2>1. PICK kept, next, seen \in SUBSET Clients :
          Walked(c, kept, next, seen)
    BY <1>26, ClientInjectWalks DEF IndInv
  <2>2. LiveKept
    BY <1>26, <2>1
       DEF IndInv, TypeInv, Live, LiveKept, ClientInject, Walked, Leave
  <2>. QED
    BY <1>26, <2>2
       DEF IndInv, TypeInv, OwnerInv, LiveKept, ClientInject, irpVars, pendVars
<1>27. ASSUME NEW c \in Clients, NEW r \in Requests, ClientCallsInject(c, r)
      PROVE  OwnerInv'
  <2>1. LiveKept
    BY <1>27, ConstantsAssumption
       DEF Live, LiveKept, ClientCallsInject, reqVars
  <2>. QED
    BY <1>27, <2>1
       DEF IndInv, OwnerInv, LiveKept, ClientCallsInject, irpVars, pendVars
<1>28. ASSUME NEW c \in Clients, NEW r \in Requests, ClientFree(c, r)
      PROVE  OwnerInv'
  <2>1. c \in Users(r) /\ Released(r, c)
    BY <1>28, ClientFreeReleases
  <2>2. PICK s \in Requests : s = r
    OBVIOUS
  <2>3. /\ Released(s, c) /\ pc[c] \in {"idle", "free"}
        /\ \E p \in {pc[c], "lock"} : pc' = [pc EXCEPT ![c] = p]
        /\ on' = [on EXCEPT ![c] = NULL]
        /\ UNCHANGED <<dpc, cpc>>
    BY <1>28, <2>1, <2>2 DEF ClientFree, pendVars, IndInv, TypeInv
  <2>4. LiveKept
    BY <2>3, ConstantsAssumption
       DEF Released, IndInv, TypeInv, Live, LiveKept, Actors,
           ConstantsAssumption
  <2>5. CASE UNCHANGED irp
    BY <2>3, <2>4, <2>5 DEF IndInv, OwnerInv, LiveKept
  <2>6. CASE ~UNCHANGED irp
    <3>1. PICK i \in Irps : i = reqIrp[s] /\ Live(s)
      BY <2>3, <2>6 DEF Released, Live, IndInv, TypeInv
    <3>2. /\ irp[i] = "pending" /\ irp' = [irp EXCEPT ![i] = "failed"]
          /\ ~Live(s)'
      BY <2>3, <2>6, <3>1 DEF Released, Live
    <3>3. Answered(i)
      BY <2>3, <2>4, <3>1, <3>2 DEF IndInv, OwnerInv, LiveKept, Answered
    <3>. QED
      BY <2>4, <3>3, AnsweredKeepsOwners DEF IndInv
  <2>. QED
    BY <2>5, <2>6
<1>29. ASSUME \/ \E c \in Clients :
                   \/ ClientRegisters(c) \/ ClientDeregisters(c)
              \/ UNCHANGED vars
      PROVE  OwnerInv'
  <2>1. UNCHANGED <<irp, dpc, cpc, used, reqIrp, pc, on>>
    BY <1>29
       DEF ClientRegisters, irpVars, pendVars, reqVars, fwVars, histVars,
           ClientDeregisters, vars
  <2>. QED
    BY <2>1 DEF IndInv, OwnerInv, Live, Actors
<1>. QED
  BY <1>1, <1>2, <1>3, <1>4, <1>5, <1>6, <1>7, <1>8, <1>9, <1>10, <1>11, <1>12,
     <1>13, <1>14, <1>15, <1>16, <1>17, <1>18, <1>19, <1>20, <1>21, <1>22,
     <1>23, <1>24, <1>25, <1>26, <1>27, <1>28, <1>29
     DEF Next, DispatchNext, CancelNext, FwNext, InjectNext, Actors

-----------------------------------------------------------------------------
(* The invariant holds *)

\* The driver starts with no IRP, no request and no client.
LEMMA InitInv == Init => IndInv
<1>. SUFFICES ASSUME Init PROVE IndInv
  OBVIOUS
<1>1. ToSet(pendQ) = {} /\ Registered = {} /\ Len(pendQ) = 0
  BY DEF Init, ToSet, Registered
<1>2. \A r \in Requests : Users(r) = {}
  BY ConstantsAssumption DEF Init, Users, ConstantsAssumption, Actors
<1>3. TypeInv
  <2>1. /\ pendQ \in Seq(Requests) /\ IsInjective(pendQ)
        /\ fwList \in Seq(Clients) /\ IsInjective(fwList)
    BY DEF Init, IsInjective
  <2>2. event \in BOOLEAN
    BY DEF Init
  <2>. QED
    BY <2>1, <2>2 DEF Init, TypeInv, Actors
<1>4. QueueInv /\ PlaceInv /\ CancelInv /\ RoutineInv
  BY <1>1 DEF Init, QueueInv, PlaceInv, CancelInv, RoutineInv, Actors
<1>5. CountInv
  <2>1. IsFiniteSet({}) /\ Cardinality({}) = 0
    BY FS_EmptySet
  <2>. QED
    BY <1>2, <2>1 DEF Init, CountInv
<1>6. InjectInv /\ WalkInv /\ SeenInv
  BY <1>1 DEF Init, InjectInv, WalkInv, SeenInv, Injecting, Actors
<1>7. OwnerInv
  BY DEF Init, OwnerInv, Live
<1>. QED
  BY <1>3, <1>4, <1>5, <1>6, <1>7 DEF IndInv

\* Every step keeps the invariant.
LEMMA StepInv ==
    ASSUME ~rivals', IndInv, [Next]_vars
    PROVE  IndInv'
<1>1. Facts
  BY FactsHold
<1>2. TypeInv' /\ QueueInv' /\ PlaceInv'
  BY <1>1, TypeStep, QueueStep, PlaceStep
<1>3. CountInv' /\ InjectInv' /\ OwnerInv'
  BY <1>1, CountStep, InjectStep, OwnerStep
<1>4. RoutineInv' /\ CancelInv' /\ WalkInv' /\ SeenInv'
  BY <1>1, RoutineStep, CancelStep, WalkStep, SeenStep
<1>. QED
  BY <1>2, <1>3, <1>4 DEF IndInv

\* Rivals stay.
LEMMA RivalsStay ==
    ASSUME rivals \in BOOLEAN, [Next]_vars
    PROVE  rivals' \in BOOLEAN /\ (rivals => rivals')
<1>1. ASSUME FwInject \/ \E c \in Clients : ClientInject(c)
      PROVE  rivals' \in BOOLEAN /\ (rivals => rivals')
  BY <1>1 DEF FwInject, ClientInject, Show
<1>2. ASSUME \/ \E i \in Irps :
                 \/ \E r \in Requests : tdiConnectionOk(i, r)
                 \/ tdiAllocateRequestFails(i) \/ Reuse(i) \/ IoCancelIrp(i)
                 \/ DispatchNext(i) \/ CancelNext(i)
             \/ FwWait \/ FwLock \/ FwGetRequest \/ FwScanDone \/ FwServe
             \/ FwServeNobody \/ FwFree
             \/ \E x \in Actors : InjectNext(x)
             \/ \E c \in Clients :
                 \/ ClientRegisters(c) \/ ClientDeregisters(c)
                 \/ \E r \in Requests : ClientCallsInject(c, r) \/ ClientFree(c, r)
             \/ UNCHANGED vars
      PROVE  rivals' = rivals
  BY <1>2
     DEF tdiConnectionOk, tdiAllocateRequestFails, Reuse, IoCancelIrp,
         DispatchNext, ChainUnasked, PendInsert, PendCheck, PendSwap,
         PendComplete, PendSetEvent, CancelNext, IoCancelSwap, tdiCancelIrp,
         CancelComplete, CancelSetEvent, FwWait, FwLock, FwGetRequest,
         FwScanDone, FwServe, FwServeNobody, FwFree, InjectNext, InjectCheck,
         InjectChain, InjectClear, ClientRegisters, ClientDeregisters,
         ClientCallsInject, ClientFree, histVars, vars
<1>. QED
  BY <1>1, <1>2 DEF Next, FwNext, Actors

\* The inductive invariant holds in every state, for any number of IRPs,
\* requests and clients, as long as no client keeps what it lets pass with
\* STATUS_PENDING.
THEOREM Invariance == Spec => []Inv
<1>1. Init => Inv
  BY InitInv DEF Init, Inv
<1>2. Inv /\ [Next]_vars => Inv'
  <2>. SUFFICES ASSUME Inv, [Next]_vars PROVE Inv'
    OBVIOUS
  <2>1. rivals' \in BOOLEAN /\ (rivals => rivals')
    BY RivalsStay DEF Inv
  <2>2. ~rivals' => IndInv'
    BY <2>1, StepInv DEF Inv
  <2>. QED
    BY <2>1, <2>2 DEF Inv
<1>. QED
  BY <1>1, <1>2, PTL DEF Spec

\* The type invariant follows.
LEMMA TypesHold == IndInv /\ rivals \in BOOLEAN => TypeOK
<1>. SUFFICES ASSUME IndInv, rivals \in BOOLEAN PROVE TypeOK
  OBVIOUS
<1>1. at \in 0..(Cardinality(Requests) + 1)
  <2>1. pendQ \in Seq(Requests) /\ IsInjective(pendQ) /\ Len(pendQ) \in Nat
    BY DEF IndInv, TypeInv
  <2>2. IsFiniteSet(ToSet(pendQ)) /\ Cardinality(ToSet(pendQ)) = Len(pendQ)
    BY <2>1, EntriesCounted
  <2>3. ToSet(pendQ) \subseteq Requests
    BY DEF IndInv, TypeInv, PlaceInv
  <2>4. /\ Cardinality(ToSet(pendQ)) <= Cardinality(Requests)
        /\ Cardinality(Requests) \in Nat
    BY <2>3, ConstantsAssumption, FS_Subset, FS_CardinalityType
       DEF ConstantsAssumption
  <2>5. at \in Nat /\ at <= Len(pendQ) + 1
    BY <2>1 DEF IndInv, TypeInv, QueueInv
  <2>. QED
    BY <2>1, <2>2, <2>4, <2>5
<1>2. Registered \subseteq Clients /\ Len(fwList) = Cardinality(Registered)
  BY EntriesCounted, Entries DEF IndInv, TypeInv, Registered
<1>3. irp \in [Irps -> {"none", "pending", "passed", "failed", "cancelled",
                        "astray"}]
  BY DEF IndInv, TypeInv
<1>4. /\ ToSet(pendQ) \subseteq used
      /\ \A c \in Clients : mayInject[c] \subseteq held[c]
  BY DEF IndInv, PlaceInv
<1>. QED
  BY <1>1, <1>2, <1>3, <1>4 DEF IndInv, TypeInv, TypeOK

\* Nobody passes, fails or completes an IRP that has left the firewall, and
\* nobody works on the IRP of a request after it is gone, unless two may inject
\* the request.
THEOREM OwnIrpsOnly == Spec => []TouchesOwnIrpsOnly
<1>1. ASSUME IndInv, rivals \in BOOLEAN PROVE TouchesOwnIrpsOnly
  <2>1. \A i \in Irps : irp[i] # "astray"
    BY <1>1 DEF IndInv, TypeInv
  <2>2. \A r \in ToSet(pendQ) : r \in Requests /\ Live(r) /\ irp[reqIrp[r]] = "pending"
    BY <1>1, FactsHold DEF Facts, IndInv, TypeInv, PlaceInv, OwnerInv
  <2>3. \A i \in Irps : dpc[i] \in {"check", "swap"} => irp[i] = "pending"
    BY <1>1, <2>2 DEF IndInv, QueueInv
  <2>4. \A q, r \in ToSet(pendQ) : reqIrp[q] = reqIrp[r] => q = r
    BY <1>1, <2>2 DEF IndInv, OwnerInv
  <2>5. ASSUME NEW r \in Requests, frefs[r] > 0, reqIrp[r] # NULL
        PROVE  \/ irp[reqIrp[r]] = "pending"
               \/ \E x \in Actors : pc[x] = "clear" /\ on[x] = r
    <3>1. frefs[r] # 0
      BY <2>5
    <3>2. r \in used
      BY <1>1, <3>1, FactsHold DEF Facts, IndInv, CountInv
    <3>. QED
      BY <1>1, <2>5, <3>2 DEF IndInv, OwnerInv, Live
  <2>. QED
    BY <1>1, <2>1, <2>2, <2>3, <2>4, <2>5, TypesHold
       DEF TouchesOwnIrpsOnly, Live
<1>2. rivals => TouchesOwnIrpsOnly
  BY DEF TouchesOwnIrpsOnly
<1>. QED
  BY <1>1, <1>2, Invariance, PTL DEF Inv

\* An IRP shown to the clients is passed on only when each of them that is
\* still registered has let it pass, except for one that answered STATUS_PENDING
\* and those behind it, and unless two may inject a request.
THEOREM PassedIsApproved == Spec => []PassedOnlyIfApproved
<1>1. rivals \/ IndInv => PassedOnlyIfApproved
  BY DEF IndInv, SeenInv, Done, PassedOnlyIfApproved
<1>. QED
  BY <1>1, Invariance, PTL DEF Inv

\* The references of an FW_REQUEST are its users, and none of them uses a
\* request that is free or still on the pending list, unless two may inject it.
THEOREM RefsAlwaysExact == Spec => []RefsExact
<1>1. rivals \/ IndInv => RefsExact
  BY DEF IndInv, CountInv, RefsExact, Users
<1>. QED
  BY <1>1, Invariance, PTL DEF Inv

-----------------------------------------------------------------------------
(* The firewall implements the contract with the I/O manager *)

\* An answer to an IRP that the firewall has is one to an unanswered IRP.
LEMMA EndAnswers ==
    ASSUME TypeInv, NEW i \in Irps, irp[i] = "pending",
           NEW how \in {"passed", "failed", "cancelled"}, EndIrp(i, how)
    PROVE  Statuses!Next
<1>1. irp' = [irp EXCEPT ![i] = how]
  BY DEF EndIrp
<1>. QED
  BY <1>1 DEF Statuses!Next, Statuses!Answer

\* Every step takes an IRP, answers one that is unanswered, lets one be used
\* again or leaves them all alone.
LEMMA StepRefines ==
    ASSUME IndInv, [Next]_vars
    PROVE  [Statuses!Next]_irp
<1>1. ASSUME NEW i \in Irps, NEW r \in Requests, tdiConnectionOk(i, r)
      PROVE  [Statuses!Next]_irp
  BY <1>1 DEF tdiConnectionOk, Statuses!Next, Statuses!Take
<1>2. ASSUME NEW i \in Irps, tdiAllocateRequestFails(i)
      PROVE  [Statuses!Next]_irp
  BY <1>2 DEF tdiAllocateRequestFails, Statuses!Next, Statuses!Take
<1>3. ASSUME NEW i \in Irps, Reuse(i) PROVE  [Statuses!Next]_irp
  BY <1>3 DEF Reuse, Statuses!Next, Statuses!Reuse
<1>4. ASSUME NEW i \in Irps, ChainUnasked(i) PROVE  [Statuses!Next]_irp
  BY <1>4, EndAnswers DEF ChainUnasked, tdiChainIrp, IndInv, OwnerInv
<1>5. ASSUME NEW i \in Irps, PendComplete(i) PROVE  [Statuses!Next]_irp
  BY <1>5, EndAnswers DEF PendComplete, IndInv, OwnerInv
<1>6. ASSUME NEW i \in Irps, CancelComplete(i)
      PROVE  [Statuses!Next]_irp
  BY <1>6, EndAnswers DEF CancelComplete, IndInv, OwnerInv
<1>7. ASSUME FwServeNobody PROVE  [Statuses!Next]_irp
  <2>1. /\ on[FwThread] \in Requests /\ Live(on[FwThread])
        /\ tdiChainIrp(reqIrp[on[FwThread]])
    BY <1>7, FactsHold DEF FwServeNobody, Facts, IndInv, TypeInv, PlaceInv
  <2>2. reqIrp[on[FwThread]] \in Irps /\ irp[reqIrp[on[FwThread]]] = "pending"
    BY <2>1 DEF IndInv, TypeInv, OwnerInv, Live
  <2>. QED
    BY <2>1, <2>2, EndAnswers DEF tdiChainIrp, IndInv
<1>8. ASSUME FwFree PROVE  [Statuses!Next]_irp
  <2>1. Released(on[FwThread], FwThread) /\ on[FwThread] \in Requests
    BY <1>8, FwFreeReleases
  <2>. QED
    BY <2>1 DEF Released, Live, IndInv, TypeInv, Statuses!Next, Statuses!Answer
<1>9. ASSUME NEW x \in Actors, InjectChain(x)
      PROVE  [Statuses!Next]_irp
  <2>1. on[x] \in Requests /\ pc[x] = "chain"
    BY <1>9 DEF InjectChain, IndInv, TypeInv, PlaceInv, Actors
  <2>2. Live(on[x])
    BY <2>1, FactsHold DEF Facts, Injecting
  <2>3. reqIrp[on[x]] \in Irps /\ irp[reqIrp[on[x]]] = "pending"
    BY <2>1, <2>2 DEF IndInv, TypeInv, OwnerInv, Live
  <2>4. tdiChainIrp(reqIrp[on[x]])
    BY <1>9, <2>2 DEF InjectChain, Live
  <2>. QED
    BY <2>3, <2>4, EndAnswers DEF tdiChainIrp, IndInv
<1>10. ASSUME NEW c \in Clients, NEW r \in Requests, ClientFree(c, r)
      PROVE  [Statuses!Next]_irp
  <2>1. Released(r, c)
    BY <1>10, ClientFreeReleases
  <2>. QED
    BY <2>1 DEF Released, Live, IndInv, TypeInv, Statuses!Next, Statuses!Answer
<1>11. ASSUME \/ \E i \in Irps :
                   \/ IoCancelIrp(i) \/ PendInsert(i) \/ PendCheck(i)
                   \/ PendSwap(i) \/ PendSetEvent(i) \/ IoCancelSwap(i)
                   \/ tdiCancelIrp(i) \/ CancelSetEvent(i)
              \/ FwWait \/ FwLock \/ FwGetRequest \/ FwScanDone \/ FwServe
              \/ FwInject
              \/ \E x \in Actors : InjectCheck(x) \/ InjectClear(x)
              \/ \E c \in Clients :
                   \/ ClientRegisters(c) \/ ClientDeregisters(c)
                   \/ ClientInject(c)
                   \/ \E r \in Requests : ClientCallsInject(c, r)
              \/ UNCHANGED vars
      PROVE  UNCHANGED irp
  BY <1>11
     DEF IoCancelIrp, PendInsert, PendCheck, PendSwap, PendSetEvent,
         IoCancelSwap, tdiCancelIrp, CancelSetEvent, FwWait, FwLock,
         FwGetRequest, FwScanDone, FwServe, FwInject, InjectCheck, InjectClear,
         ClientRegisters, ClientDeregisters, ClientInject, ClientCallsInject,
         irpVars, vars
<1>. QED
  BY <1>1, <1>2, <1>3, <1>4, <1>5, <1>6, <1>7, <1>8, <1>9, <1>10, <1>11
     DEF Next, DispatchNext, CancelNext, FwNext, InjectNext, Actors

\* Whoever takes the IRP last, the firewall answers each one once: what the
\* contract demands of every step.  (That it answers in the end needs fairness.)
THEOREM AnswersAtMostOnce == Spec /\ []~rivals => Statuses!Spec
<1>1. Init => Statuses!Init
  BY DEF Init, Statuses!Init
<1>2. IndInv /\ [Next]_vars => [Statuses!Next]_irp
  BY StepRefines
<1>. QED
  BY <1>1, <1>2, Invariance, PTL DEF Spec, Statuses!Spec, Inv
=============================================================================
