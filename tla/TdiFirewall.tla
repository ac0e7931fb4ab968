---------------------------- MODULE TdiFirewall ----------------------------
(***************************************************************************)
(* The loopback firewall of ansfw.sys on Windows XP (ansfw/nt/Firewall.c)  *)
(* and the half of ansfw/callbacks.c that shows its requests to clients.   *)
(*                                                                         *)
(* A local connection's IRP is copied into a TDI_CONN_REQUEST and put on   *)
(* g_PendingRequestList with a cancel routine.  fwThread takes it from     *)
(* there, shows it to the clients inside an FW_REQUEST and, by their       *)
(* answers, passes the IRP to the transport or fails it.  Meanwhile the    *)
(* I/O manager may cancel the IRP.                                         *)
(*                                                                         *)
(* A step ends where another thread can get in: g_PendingRequestListLock   *)
(* taken or dropped, an interlocked operation on the IRP or the request,   *)
(* an access to a field that no lock protects.  The FW_REQUEST of a        *)
(* TDI_CONN_REQUEST is modelled as a part of it.                           *)
(***************************************************************************)
EXTENDS FwClients

CONSTANTS
    Irps,       \* IRPs of the connections local processes make
    Requests,   \* the memory TDI_CONN_REQUESTs are allocated from
    FwThread,   \* the system thread fwThread
    NULL

Actors == Clients \cup {FwThread}

ASSUME ConstantsAssumption ==
    /\ FwThread \notin Clients \cup Irps
    /\ NULL \notin Irps \cup Requests \cup Actors
    /\ IsFiniteSet(Requests)

VARIABLES
    irp,        \* who has the IRP: the firewall ("pending") or what became of it
    cancel,     \* the IRP's Cancel flag
    routine,    \* whether its cancel routine is tdiCancelIrp
    dpc,        \* where its dispatch is in tdiPendIrp
    dreq,       \* the request of that dispatch
    cpc,        \* where the thread that cancels it is
    pendQ,      \* g_PendingRequestList
    pendLock,   \* owner of g_PendingRequestListLock
    event,      \* g_FwThreadEvent, a synchronization event
    used,       \* requests in use: neither free memory nor on g_FreeRequestList
    reqIrp,     \* m_pIrp
    frefs,      \* m_References of the FW_REQUEST around a request
    pc,         \* where fwThread or a client's thread is
    on,         \* the request it is working on
    at,         \* fwThread's reqOn, as a position of pendQ
    held,       \* clones a client has kept
    mayInject,  \* clones of requests it has stopped, to be injected later
    mustSee,    \* history: clients registered when the IRP was first shown
    approved,   \* history: clients that have let it pass
    skipped,    \* history: clients that have not, or were not asked, when
                \* a STATUS_PENDING let it pass
    rivals      \* history: two may inject a request, since a client that
                \* answered STATUS_PENDING had kept it

irpVars  == <<irp, cancel, routine>>
pendVars == <<dpc, dreq, cpc, pendQ, pendLock, event>>
reqVars  == <<used, reqIrp, frefs>>
fwVars   == <<pc, on, at, held, mayInject>>
histVars == <<mustSee, approved, skipped, rivals>>
vars     == <<irpVars, pendVars, reqVars, fwVars, histVars, fwList>>

TypeOK ==
    /\ irp \in [Irps -> {"none", "pending", "passed", "failed", "cancelled",
                         "astray"}]
    /\ cancel \in [Irps -> BOOLEAN]
    /\ routine \in [Irps -> BOOLEAN]
    /\ dpc \in [Irps -> {"none", "chain", "pend", "check", "swap", "complete",
                         "event"}]
    /\ dreq \in [Irps -> Requests \cup {NULL}]
    /\ cpc \in [Irps -> {"none", "swap", "remove", "complete", "event"}]
    /\ ToSet(pendQ) \subseteq used
    /\ pendLock \in Irps \cup {FwThread, NULL}
    /\ event \in BOOLEAN
    /\ used \subseteq Requests
    /\ reqIrp \in [Requests -> Irps \cup {NULL}]
    /\ frefs \in [Requests -> Nat]
    /\ pc \in [Actors -> {"idle", "lock", "scan", "serve", "walk", "check",
                          "chain", "clear", "free"}]
    /\ on \in [Actors -> Requests \cup {NULL}]
    /\ at \in 0..(Cardinality(Requests) + 1)
    /\ held \in [Clients -> SUBSET Requests]
    /\ mayInject \in [Clients -> SUBSET Requests]
    /\ \A c \in Clients : mayInject[c] \subseteq held[c]
    /\ mustSee \in [Irps -> SUBSET Clients]
    /\ approved \in [Irps -> SUBSET Clients]
    /\ skipped \in [Irps -> SUBSET Clients]
    /\ rivals \in BOOLEAN
    /\ Registered \subseteq Clients /\ Len(fwList) = Cardinality(Registered)

\* tdiInitFirewall and RegisterFilterCallbacks.
Init ==
    /\ irp = [i \in Irps |-> "none"]
    /\ cancel = [i \in Irps |-> FALSE]
    /\ routine = [i \in Irps |-> FALSE]
    /\ dpc = [i \in Irps |-> "none"]
    /\ dreq = [i \in Irps |-> NULL]
    /\ cpc = [i \in Irps |-> "none"]
    /\ pendQ = << >>
    /\ pendLock = NULL
    /\ event = FALSE
    /\ used = {}
    /\ reqIrp = [r \in Requests |-> NULL]
    /\ frefs = [r \in Requests |-> 0]
    /\ pc = [x \in Actors |-> "idle"]
    /\ on = [x \in Actors |-> NULL]
    /\ at = 0
    /\ held = [c \in Clients |-> {}]
    /\ mayInject = [c \in Clients |-> {}]
    /\ mustSee = [i \in Irps |-> {}]
    /\ approved = [i \in Irps |-> {}]
    /\ skipped = [i \in Irps |-> {}]
    /\ rivals = FALSE
    /\ fwList = << >>

-----------------------------------------------------------------------------
(* The life of an IRP *)

\* The IRP leaves the firewall: tdiChainIrp (IoCallDriver), tdiFailIrp or the
\* completion of a cancelled IRP (IoCompleteRequest).  One that the firewall
\* no longer has is led astray.
EndIrp(i, how) ==
    irp' = [irp EXCEPT ![i] = IF @ = "pending" THEN how ELSE "astray"]

tdiChainIrp(i) == EndIrp(i, "passed")
tdiFailIrp(i)  == EndIrp(i, "failed")

\* A process connects to a local address: tdiConnectionOk copies the IRP's
\* data into a request and calls tdiPendIrp.
tdiConnectionOk(i, r) ==
    /\ irp[i] = "none"
    /\ r \notin used
    /\ irp' = [irp EXCEPT ![i] = "pending"]
    /\ used' = used \cup {r}
    /\ reqIrp' = [reqIrp EXCEPT ![r] = i]
    /\ dpc' = [dpc EXCEPT ![i] = "pend"]
    /\ dreq' = [dreq EXCEPT ![i] = r]
    /\ UNCHANGED <<cancel, routine, cpc, pendQ, pendLock, event, frefs, fwVars,
                   histVars, fwList>>

\* The same without memory for the request ...
tdiAllocateRequestFails(i) ==
    /\ irp[i] = "none"
    /\ irp' = [irp EXCEPT ![i] = "pending"]
    /\ dpc' = [dpc EXCEPT ![i] = "chain"]
    /\ UNCHANGED <<cancel, routine, dreq, cpc, pendQ, pendLock, event, reqVars,
                   fwVars, histVars, fwList>>

\* ... lets the connection through unasked.
ChainUnasked(i) ==
    /\ dpc[i] = "chain"
    /\ tdiChainIrp(i)
    /\ dpc' = [dpc EXCEPT ![i] = "none"]
    /\ UNCHANGED <<cancel, routine, dreq, cpc, pendQ, pendLock, event, reqVars,
                   fwVars, histVars, fwList>>

\* The I/O manager uses the IRP again, when it is answered and neither its
\* dispatch nor its cancellation is still on the way.
Reuse(i) ==
    /\ irp[i] \in {"passed", "failed", "cancelled"}
    /\ dpc[i] = "none" /\ cpc[i] = "none"
    /\ irp' = [irp EXCEPT ![i] = "none"]
    /\ cancel' = [cancel EXCEPT ![i] = FALSE]
    /\ mustSee' = [mustSee EXCEPT ![i] = {}]
    /\ approved' = [approved EXCEPT ![i] = {}]
    /\ skipped' = [skipped EXCEPT ![i] = {}]
    /\ UNCHANGED <<routine, pendVars, reqVars, fwVars, rivals, fwList>>

-----------------------------------------------------------------------------
(* tdiPendIrp, in the thread that makes the connection *)

\* The lock is taken, the request queued and the cancel routine set.
PendInsert(i) ==
    /\ dpc[i] = "pend"
    /\ pendLock = NULL
    /\ pendLock' = i
    /\ pendQ' = Append(pendQ, dreq[i])
    /\ routine' = [routine EXCEPT ![i] = TRUE]
    /\ dpc' = [dpc EXCEPT ![i] = "check"]
    /\ UNCHANGED <<irp, cancel, dreq, cpc, event, reqVars, fwVars, histVars,
                   fwList>>

\* Has the IRP been cancelled before it had a cancel routine?
PendCheck(i) ==
    /\ dpc[i] = "check"
    /\ dpc' = [dpc EXCEPT ![i] = IF cancel[i] THEN "swap" ELSE "event"]
    /\ pendLock' = IF cancel[i] THEN pendLock ELSE NULL
    /\ UNCHANGED <<irpVars, dreq, cpc, pendQ, event, reqVars, fwVars, histVars,
                   fwList>>

\* Then the one who gets the cancel routine out of the IRP completes it.
PendSwap(i) ==
    /\ dpc[i] = "swap"
    /\ pendLock' = NULL
    /\ \/ /\ routine[i]
          /\ routine' = [routine EXCEPT ![i] = FALSE]
          /\ pendQ' = Unlink(pendQ, dreq[i])
          /\ used' = used \ {dreq[i]}
          /\ dpc' = [dpc EXCEPT ![i] = "complete"]
       \/ /\ ~routine[i]
          /\ dpc' = [dpc EXCEPT ![i] = "event"]
          /\ UNCHANGED <<routine, pendQ, used>>
    /\ UNCHANGED <<irp, cancel, dreq, cpc, event, reqIrp, frefs, fwVars,
                   histVars, fwList>>

PendComplete(i) ==
    /\ dpc[i] = "complete"
    /\ EndIrp(i, "cancelled")
    /\ dpc' = [dpc EXCEPT ![i] = "event"]
    /\ UNCHANGED <<cancel, routine, dreq, cpc, pendQ, pendLock, event, reqVars,
                   fwVars, histVars, fwList>>

\* Mutant: nobody is told of the request.
PendSetNoEvent(i) ==
    /\ dpc[i] = "event"
    /\ dpc' = [dpc EXCEPT ![i] = "none"]
    /\ dreq' = [dreq EXCEPT ![i] = NULL]
    /\ UNCHANGED <<irpVars, cpc, pendQ, pendLock, event, reqVars, fwVars,
                   histVars, fwList>>

\* KeSetEvent, and the dispatch returns.
PendSetEvent(i) ==
    /\ dpc[i] = "event"
    /\ event' = TRUE
    /\ dpc' = [dpc EXCEPT ![i] = "none"]
    /\ dreq' = [dreq EXCEPT ![i] = NULL]
    /\ UNCHANGED <<irpVars, cpc, pendQ, pendLock, reqVars, fwVars, histVars,
                   fwList>>

-----------------------------------------------------------------------------
(* Cancellation, in a thread of the I/O manager *)

\* IoCancelIrp sets the flag ...
IoCancelIrp(i) ==
    /\ irp[i] = "pending"
    /\ ~cancel[i]
    /\ cancel' = [cancel EXCEPT ![i] = TRUE]
    /\ cpc' = [cpc EXCEPT ![i] = "swap"]
    /\ UNCHANGED <<irp, routine, dpc, dreq, pendQ, pendLock, event, reqVars,
                   fwVars, histVars, fwList>>

\* ... takes the cancel routine out of the IRP, and calls it if there was one.
IoCancelSwap(i) ==
    /\ cpc[i] = "swap"
    /\ routine' = [routine EXCEPT ![i] = FALSE]
    /\ cpc' = [cpc EXCEPT ![i] = IF routine[i] THEN "remove" ELSE "none"]
    /\ UNCHANGED <<irp, cancel, dpc, dreq, pendQ, pendLock, event, reqVars,
                   fwVars, histVars, fwList>>

\* The queued requests of an IRP.
Of(i) == {r \in ToSet(pendQ) : reqIrp[r] = i}

\* tdiCancelIrp drops the IRP's request under the lock (the walk drops every
\* request of the IRP; TouchesOwnIrpsOnly has it that there is one) ...
tdiCancelIrp(i) ==
    /\ cpc[i] = "remove"
    /\ pendLock = NULL
    /\ pendQ' = IF Of(i) = {} THEN pendQ
                              ELSE Unlink(pendQ, CHOOSE r \in Of(i) : TRUE)
    /\ used' = used \ Of(i)
    /\ cpc' = [cpc EXCEPT ![i] = "complete"]
    /\ UNCHANGED <<irpVars, dpc, dreq, pendLock, event, reqIrp, frefs, fwVars,
                   histVars, fwList>>

\* ... completes the IRP ...
CancelComplete(i) ==
    /\ cpc[i] = "complete"
    /\ EndIrp(i, "cancelled")
    /\ cpc' = [cpc EXCEPT ![i] = "event"]
    /\ UNCHANGED <<cancel, routine, dpc, dreq, pendQ, pendLock, event, reqVars,
                   fwVars, histVars, fwList>>

\* ... and wakes fwThread.
CancelSetEvent(i) ==
    /\ cpc[i] = "event"
    /\ event' = TRUE
    /\ cpc' = [cpc EXCEPT ![i] = "none"]
    /\ UNCHANGED <<irpVars, dpc, dreq, pendQ, pendLock, reqVars, fwVars,
                   histVars, fwList>>

-----------------------------------------------------------------------------
(* fwThread *)

\* The event is reset by the wait it ends.
FwWait ==
    /\ pc[FwThread] = "idle"
    /\ event
    /\ event' = FALSE
    /\ pc' = [pc EXCEPT ![FwThread] = "lock"]
    /\ UNCHANGED <<irpVars, dpc, dreq, cpc, pendQ, pendLock, reqVars, on, at,
                   held, mayInject, histVars, fwList>>

FwLock ==
    /\ pc[FwThread] = "lock"
    /\ pendLock = NULL
    /\ pendLock' = FwThread
    /\ at' = 1
    /\ pc' = [pc EXCEPT ![FwThread] = "scan"]
    /\ UNCHANGED <<irpVars, dpc, dreq, cpc, pendQ, event, reqVars, on, held,
                   mayInject, histVars, fwList>>

\* Mutant: a request whose cancel routine is gone is taken as well.
TakesAnyRequest(i) == TRUE

\* tdiGetRequest: the request is fwThread's if its IRP still had a cancel
\* routine; if not, tdiCancelIrp is on its way and will drop it.
TakesRequest(i) == routine[i]

FwGetRequest ==
    /\ pc[FwThread] = "scan"
    /\ at \in 1..Len(pendQ)
    /\ LET r == pendQ[at]
       IN  /\ routine' = [routine EXCEPT ![reqIrp[r]] = FALSE]
           /\ \/ /\ TakesRequest(reqIrp[r])
                 /\ pendQ' = RemoveAt(pendQ, at)
                 /\ pendLock' = NULL
                 /\ on' = [on EXCEPT ![FwThread] = r]
                 /\ pc' = [pc EXCEPT ![FwThread] = "serve"]
                 /\ at' = 0
              \/ /\ ~TakesRequest(reqIrp[r])
                 /\ at' = at + 1
                 /\ UNCHANGED <<pendQ, pendLock, on, pc>>
    /\ UNCHANGED <<irp, cancel, dpc, dreq, cpc, event, reqVars, held, mayInject,
                   histVars, fwList>>

FwScanDone ==
    /\ pc[FwThread] = "scan"
    /\ at = Len(pendQ) + 1
    /\ pendLock' = NULL
    /\ at' = 0
    /\ pc' = [pc EXCEPT ![FwThread] = "idle"]
    /\ UNCHANGED <<irpVars, dpc, dreq, cpc, pendQ, event, reqVars, on, held,
                   mayInject, histVars, fwList>>

\* A client is connected and there is memory for an FW_REQUEST ...
FwServe ==
    /\ pc[FwThread] = "serve"
    /\ Registered # {}
    /\ frefs' = [frefs EXCEPT ![on[FwThread]] = 1]
    /\ pc' = [pc EXCEPT ![FwThread] = "walk"]
    /\ UNCHANGED <<irpVars, pendVars, used, reqIrp, on, at, held, mayInject,
                   histVars, fwList>>

\* ... or not, and the IRP is passed on unasked.
FwServeNobody ==
    /\ pc[FwThread] = "serve"
    /\ tdiChainIrp(reqIrp[on[FwThread]])
    /\ used' = used \ {on[FwThread]}
    /\ on' = [on EXCEPT ![FwThread] = NULL]
    /\ pc' = [pc EXCEPT ![FwThread] = "lock"]
    /\ UNCHANGED <<cancel, routine, pendVars, reqIrp, frefs, at, held,
                   mayInject, histVars, fwList>>

-----------------------------------------------------------------------------
(* FWInjectRequest, by fwThread for a new request, by a client for a clone *)

\* fwThread frees its reference next; a client is back from its call.
Leave(x) == [pc EXCEPT ![x] = IF x = FwThread THEN "free" ELSE "idle"]

\* x shows request r to the instances queue.
Show(x, r, queue) ==
    \E o \in ProcessRequest(queue) :
        /\ held' = [c \in Clients |->
                      held[c] \cup {q \in {r} : c \in o.kept}]
        /\ mayInject' = [c \in Clients |->
                      mayInject[c] \cup {q \in {r} : c \in o.kept \cap o.stopper}]
        /\ frefs' = [frefs EXCEPT ![r] = @ + Cardinality(o.kept)]
        /\ approved' = [i \in Irps |->
              IF i = reqIrp[r] THEN approved[i] \cup o.passed \cup ({x} \cap Clients)
                               ELSE approved[i]]
        /\ skipped' = [i \in Irps |->
              IF i = reqIrp[r] /\ NT_SUCCESS(o.answer)
              THEN skipped[i] \cup (ToSet(queue) \ o.passed) ELSE skipped[i]]
        /\ rivals' = (rivals \/ /\ NT_SUCCESS(o.answer)
                                /\ o.kept \cap o.stopper # {})
        /\ pc' = IF NT_SUCCESS(o.answer) THEN [pc EXCEPT ![x] = "check"]
                                         ELSE Leave(x)

FwInject ==
    /\ pc[FwThread] = "walk"
    /\ Show(FwThread, on[FwThread], fwList)
    /\ mustSee' = [mustSee EXCEPT ![reqIrp[on[FwThread]]] = Registered]
    /\ UNCHANGED <<irpVars, pendVars, used, reqIrp, on, at, fwList>>

\* A client has decided to let a request pass that it had stopped.
ClientCallsInject(c, r) ==
    /\ pc[c] = "idle"
    /\ r \in mayInject[c]
    /\ mayInject' = [mayInject EXCEPT ![c] = @ \ {r}]
    /\ on' = [on EXCEPT ![c] = r]
    /\ pc' = [pc EXCEPT ![c] = "walk"]
    /\ UNCHANGED <<irpVars, pendVars, reqVars, at, held, histVars, fwList>>

ClientInject(c) ==
    /\ pc[c] = "walk"
    /\ Show(c, on[c], Behind(c))
    /\ UNCHANGED <<irpVars, pendVars, used, reqIrp, on, at, mustSee, fwList>>

\* InjectLoopbackRequest tests m_pIrp, ...
InjectCheck(x) ==
    /\ pc[x] = "check"
    /\ pc' = IF reqIrp[on[x]] # NULL THEN [pc EXCEPT ![x] = "chain"]
                                     ELSE Leave(x)
    /\ UNCHANGED <<irpVars, pendVars, reqVars, on, at, held, mayInject,
                   histVars, fwList>>

\* ... passes the IRP that m_pIrp points to by now (none if another thread was
\* faster to clear it: the machine would not survive that) ...
InjectChain(x) ==
    /\ pc[x] = "chain"
    /\ IF reqIrp[on[x]] # NULL THEN tdiChainIrp(reqIrp[on[x]])
                               ELSE UNCHANGED irp
    /\ pc' = [pc EXCEPT ![x] = "clear"]
    /\ UNCHANGED <<cancel, routine, pendVars, reqVars, on, at, held, mayInject,
                   histVars, fwList>>

\* Mutant: m_pIrp stays, so that the request is failed as well.
InjectLeave(x) ==
    /\ pc[x] = "clear"
    /\ pc' = Leave(x)
    /\ UNCHANGED <<irpVars, pendVars, reqVars, on, at, held, mayInject,
                   histVars, fwList>>

\* ... and clears it.
InjectClear(x) ==
    /\ pc[x] = "clear"
    /\ reqIrp' = [reqIrp EXCEPT ![on[x]] = NULL]
    /\ pc' = Leave(x)
    /\ UNCHANGED <<irpVars, pendVars, used, frefs, on, at, held, mayInject,
                   histVars, fwList>>

\* Mutant: an IRP that nobody let pass is forgotten.
FreeForgets(r) ==
    /\ used' = used \ {r}
    /\ reqIrp' = [reqIrp EXCEPT ![r] = NULL]
    /\ UNCHANGED irp

\* FreeLoopbackRequest: the last reference fails an IRP that nobody let pass.
FreeLoopbackRequest(r) ==
    /\ IF reqIrp[r] # NULL THEN tdiFailIrp(reqIrp[r]) ELSE UNCHANGED irp
    /\ reqIrp' = [reqIrp EXCEPT ![r] = NULL]
    /\ used' = used \ {r}

\* Mutant: the last but one reference frees the request.
FreeEarly(r) ==
    /\ frefs' = [frefs EXCEPT ![r] = IF @ = 0 THEN 0 ELSE @ - 1]
    /\ IF frefs[r] = 2 THEN FreeLoopbackRequest(r)
                       ELSE UNCHANGED <<irp, reqIrp, used>>

FWFreeCloneRequest(r) ==
    /\ frefs' = [frefs EXCEPT ![r] = @ - 1]
    /\ IF frefs[r] = 1 THEN FreeLoopbackRequest(r)
                       ELSE UNCHANGED <<irp, reqIrp, used>>

\* fwThread looks at the list from its head again.
FwFree ==
    /\ pc[FwThread] = "free"
    /\ FWFreeCloneRequest(on[FwThread])
    /\ on' = [on EXCEPT ![FwThread] = NULL]
    /\ pc' = [pc EXCEPT ![FwThread] = "lock"]
    /\ UNCHANGED <<cancel, routine, pendVars, at, held, mayInject, histVars,
                   fwList>>

ClientFree(c, r) ==
    /\ pc[c] = "idle"
    /\ r \in held[c]
    /\ held' = [held EXCEPT ![c] = @ \ {r}]
    /\ mayInject' = [mayInject EXCEPT ![c] = @ \ {r}]
    /\ on' = [on EXCEPT ![c] = NULL]
    /\ FWFreeCloneRequest(r)
    /\ UNCHANGED <<cancel, routine, pendVars, pc, at, histVars, fwList>>

ClientRegisters(c) ==
    /\ pc[c] = "idle"
    /\ FWRegisterRequestCallback(c)
    /\ UNCHANGED <<irpVars, pendVars, reqVars, fwVars, histVars>>

\* A client deregisters when it has freed its clones.
ClientDeregisters(c) ==
    /\ pc[c] = "idle"
    /\ held[c] = {}
    /\ FWDeregisterRequestCallback(c)
    /\ mustSee' = [i \in Irps |-> mustSee[i] \ {c}]
    /\ UNCHANGED <<irpVars, pendVars, reqVars, fwVars, approved, skipped, rivals>>

-----------------------------------------------------------------------------
DispatchNext(i) ==
    \/ ChainUnasked(i) \/ PendInsert(i) \/ PendCheck(i) \/ PendSwap(i)
    \/ PendComplete(i) \/ PendSetEvent(i)

CancelNext(i) ==
    \/ IoCancelSwap(i) \/ tdiCancelIrp(i) \/ CancelComplete(i)
    \/ CancelSetEvent(i)

InjectNext(x) == InjectCheck(x) \/ InjectChain(x) \/ InjectClear(x)

FwNext ==
    \/ FwWait \/ FwLock \/ FwGetRequest \/ FwScanDone \/ FwServe
    \/ FwServeNobody \/ FwInject \/ InjectNext(FwThread) \/ FwFree

Next ==
    \/ \E i \in Irps :
         \/ \E r \in Requests : tdiConnectionOk(i, r)
         \/ tdiAllocateRequestFails(i) \/ Reuse(i) \/ IoCancelIrp(i)
         \/ DispatchNext(i) \/ CancelNext(i)
    \/ FwNext
    \/ \E c \in Clients :
         \/ ClientRegisters(c) \/ ClientDeregisters(c)
         \/ ClientInject(c) \/ InjectNext(c)
         \/ \E r \in Requests : ClientCallsInject(c, r) \/ ClientFree(c, r)

Spec == Init /\ [][Next]_vars

\* Every thread runs on, and gets the lock it waits for in the end; the
\* clients answer a request they keep in the end, as the sample client does
\* (sdk/src/fwtest/fwtest.c:115-138).  Registrations come to an end: two clients
\* that took turns to register anew, each time behind the other, could hand a
\* request to each other for ever.
Fairness ==
    /\ <>[][\A c \in Clients : ~ClientRegisters(c)]_vars
    /\ \A i \in Irps :
         /\ WF_vars(DispatchNext(i)) /\ SF_vars(PendInsert(i))
         /\ WF_vars(CancelNext(i)) /\ SF_vars(tdiCancelIrp(i))
    /\ WF_vars(FwNext) /\ SF_vars(FwLock)
    /\ \A c \in Clients :
         /\ WF_vars(ClientInject(c) \/ InjectNext(c))
         /\ \A r \in Requests : SF_vars(ClientFree(c, r))

FairSpec == Spec /\ Fairness

-----------------------------------------------------------------------------
(* Properties *)

\* An IRP that has left the firewall is not passed, failed or completed by it
\* again, whoever of dispatch, canceller, fwThread and clients comes late; and
\* nobody works on the IRP of a request after it is gone: tdiPendIrp while it
\* looks at the Cancel flag, tdiGetRequest and tdiCancelIrp for a queued
\* request, an FW_REQUEST's users while m_pIrp points to it
\* (ansfw/nt/Firewall.c:171-270, 387-406).  All that is lost with a client that
\* keeps a request and answers STATUS_PENDING, which passes the IRP on
\* (ansfw/callbacks.c:305) and lets the client inject it again.
TouchesOwnIrpsOnly ==
    rivals \/
    /\ TypeOK
    /\ \A i \in Irps : irp[i] # "astray"
    /\ \A i \in Irps : dpc[i] \in {"check", "swap"} => irp[i] = "pending"
    /\ \A r \in ToSet(pendQ) : reqIrp[r] # NULL /\ irp[reqIrp[r]] = "pending"
    /\ \A q, r \in ToSet(pendQ) : reqIrp[q] = reqIrp[r] => q = r
    /\ \A r \in Requests : frefs[r] > 0 /\ reqIrp[r] # NULL =>
           \/ irp[reqIrp[r]] = "pending"
           \/ \E x \in Actors : pc[x] = "clear" /\ on[x] = r

\* An IRP that was shown to the clients is passed on only when each of them
\* that is still registered has let it pass, in its callback or by injecting it
\* (ansfw/callbacks.c:200-232, 297-309).  The exception is a client that answers
\* STATUS_PENDING, and those behind it: README.md:42 has anything but
\* STATUS_SUCCESS drop a packet, NT_SUCCESS at ansfw/callbacks.c:305 lets it pass;
\* if that client keeps the request as well, it can pass an IRP on that is not
\* the request's any more.
PassedOnlyIfApproved ==
    rivals \/
    \A i \in Irps :
        irp[i] = "passed" => mustSee[i] \subseteq approved[i] \cup skipped[i]

\* The m_References of an FW_REQUEST is the number of its users, and a request
\* that somebody uses is neither free nor on the pending list, unless a client
\* injects what another thread has passed on (ansfw/callbacks.c:337-378,
\* ansfw/nt/Firewall.c:104-139).
RefsExact ==
    rivals \/
    \A r \in Requests :
        LET users == {c \in Clients : r \in held[c]}
                       \cup {x \in {FwThread} : on[x] = r /\ pc[x] # "serve"}
        IN  /\ frefs[r] = Cardinality(users)
            /\ users # {} => r \in used \ ToSet(pendQ)

Statuses == INSTANCE IrpContract WITH status <- irp

\* The firewall answers every IRP, once (IrpContract), as long as no client keeps
\* a request that it lets pass with STATUS_PENDING.
AnswersOnce == Statuses!FairSpec

\* Every TDI_CONN_REQUEST is free again in the end.
RequestsRecycled == \A r \in Requests : r \in used ~> r \notin used
=============================================================================
