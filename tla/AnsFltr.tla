------------------------------ MODULE AnsFltr ------------------------------
(***************************************************************************)
(* ansfltr.sys, the packet filter: ansfltr/callbacks.c over the NDIS       *)
(* lightweight filter of ansfltr/vista/filter.c.                           *)
(*                                                                         *)
(* NDIS threads enter the filter with a list of net buffers; every buffer  *)
(* is copied into a reference-counted FLT_PACKET that is shown to the      *)
(* registered clients one after the other and, if none of them stops it,   *)
(* handed on to NDIS.  A client may keep a clone (a reference) and inject  *)
(* the packet later from a thread of its own.                              *)
(*                                                                         *)
(* One step is what the code does between two points at which another      *)
(* thread can get in: a spin lock taken or dropped, an interlocked         *)
(* operation, a call into NDIS.  g_PacketLock is never held across such a  *)
(* point, so a section under it is one step.  g_FltInstancesLock is held   *)
(* while the clients' callbacks run and has an owner, lock.                *)
(***************************************************************************)
EXTENDS Integers, FiniteSets

CONSTANTS
    Adapters,   \* FLT_MODULE_CONTEXTs: one per FilterAttach
    Clients,    \* client drivers, each with one FLT_INSTANCE and one thread
    Threads,    \* NDIS threads that call the filter's send/receive handlers
    Packets,    \* addresses an FLT_PACKET can be allocated at
    MaxNB,      \* bound: net buffers in the list of one handler call
    NULL        \* the null pointer

Actors == Threads \cup Clients

ASSUME ConstantsAssumption ==
    /\ IsFiniteSet(Actors)
    /\ Threads \cap Clients = {}
    /\ MaxNB \in Nat
    /\ NULL \notin Adapters \cup Packets \cup Actors

VARIABLES
    module,       \* what NDIS has last asked of the module of an adapter
    filterState,  \* its m_FilterState
    asked,        \* asked[t]: m_FilterState as handler t has read it
    inst,         \* the instances on g_FltInstancesList
    below,        \* below[c]: the instances behind c on g_FltInstancesList
    lock,         \* owner of g_FltInstancesLock, or NULL
    live,         \* packets allocated and on g_PacketsList
    refs,         \* m_References
    madapter,     \* m_pAdapter
    pool,         \* the adapter whose NetBufferListPool m_pNBL came from
    dir,          \* m_Direction
    ndis,         \* how many times NDIS currently owns m_pNBL
    pc,           \* where an actor is
    ctx,          \* the adapter a handler was called for (FilterModuleContext)
    way,          \* the handler: "out" for send, "in" for receive
    nb,           \* net buffers a handler call has left
    cur,          \* pPacket of the call an actor is in
    todo,         \* instances FLTInjectRequest has still to call
    handle,       \* the FilterHandle SendPacket has read
    held,         \* the packets an actor has a reference on
    mayInject,    \* packets a client stopped and kept: it may inject them
    mustSee,      \* history: instances there when the packet was first shown
    approved      \* history: instances that let the packet pass

pktVars   == <<live, refs, madapter, pool, dir, ndis>>
listVars  == <<inst, below>>
callVars  == <<ctx, way, nb>>
actorVars == <<pc, callVars, cur, todo, handle>>
histVars  == <<mustSee, approved>>
moduleVars == <<module, filterState, asked>>
vars == <<moduleVars, listVars, lock, pktVars, actorVars, held, mayInject,
          histVars>>

\* Mutant: the packet is freed by the last but one reference.
DyingEarly == {p \in live : refs[p] <= 1}

\* A packet whose last reference is gone and that FLTFreeCloneRequest is about
\* to take off g_PacketsList.
Dying == {p \in live : refs[p] = 0}

\* The actor is inside FLTInjectRequest or SendPacket.
Injecting == {"inject", "walk", "send", "handoff"}

TypeOK ==
    /\ module \in [Adapters -> {"none", "paused", "running", "closing", "gone"}]
    /\ filterState \in [Adapters -> {"PAUSED", "RUNNING"}]
    /\ asked \in [Threads -> {"PAUSED", "RUNNING"}]
    /\ inst \in SUBSET Clients
    /\ below \in [Clients -> SUBSET Clients]
    /\ lock \in Actors \cup {NULL}
    /\ live \in SUBSET Packets
    /\ refs \in [Packets -> Nat]
    /\ madapter \in [Packets -> Adapters \cup {NULL}]
    /\ pool \in [Packets -> Adapters \cup {NULL}]
    /\ dir \in [Packets -> {"out", "in"}]
    /\ ndis \in [Packets -> Nat]
    /\ pc \in [Actors -> Injecting \cup {"idle", "test", "entry", "loop", "release"}]
    /\ ctx \in [Threads -> Adapters \cup {NULL}]
    /\ way \in [Threads -> {"out", "in"}]
    /\ nb \in [Threads -> 0..MaxNB]
    /\ cur \in [Actors -> Packets \cup {NULL}]
    /\ todo \in [Actors -> SUBSET Clients]
    /\ handle \in [Actors -> Adapters \cup {NULL}]
    /\ held \in [Actors -> SUBSET Packets]
    /\ mayInject \in [Clients -> SUBSET Packets]
    /\ mustSee \in [Packets -> SUBSET Clients]
    /\ approved \in [Packets -> SUBSET Clients]

\* InitializeANSfltr, before NDIS has attached the filter to an adapter.
Init ==
    /\ module = [a \in Adapters |-> "none"]
    /\ filterState = [a \in Adapters |-> "PAUSED"]
    /\ asked = [t \in Threads |-> "PAUSED"]
    /\ inst = {}
    /\ below = [c \in Clients |-> {}]
    /\ lock = NULL
    /\ live = {}
    /\ refs = [p \in Packets |-> 0]
    /\ madapter = [p \in Packets |-> NULL]
    /\ pool = [p \in Packets |-> NULL]
    /\ dir = [p \in Packets |-> "out"]
    /\ ndis = [p \in Packets |-> 0]
    /\ pc = [x \in Actors |-> "idle"]
    /\ ctx = [t \in Threads |-> NULL]
    /\ way = [t \in Threads |-> "out"]
    /\ nb = [t \in Threads |-> 0]
    /\ cur = [x \in Actors |-> NULL]
    /\ todo = [x \in Actors |-> {}]
    /\ handle = [x \in Actors |-> NULL]
    /\ held = [x \in Actors |-> {}]
    /\ mayInject = [c \in Clients |-> {}]
    /\ mustSee = [p \in Packets |-> {}]
    /\ approved = [p \in Packets |-> {}]

-----------------------------------------------------------------------------
(***************************************************************************)
(* The clients' interface: registration, clones, injection.                *)
(***************************************************************************)

\* InsertHeadList under g_FltInstancesLock: all the others are behind c.
FLTRegisterCallbacks(c) ==
    /\ c \notin inst
    /\ lock = NULL
    /\ inst' = inst \cup {c}
    /\ below' = [below EXCEPT ![c] = inst]
    /\ UNCHANGED <<moduleVars, lock, pktVars, actorVars, held, mayInject,
                   histVars>>

\* RemoveEntryList under g_FltInstancesLock.  A client deregisters when it is
\* not inside FLTInjectRequest (its instance is freed); it may still hold
\* packets, which it can then only free.
FLTDeregisterCallbacks(c) ==
    /\ c \in inst
    /\ pc[c] = "idle"
    /\ lock = NULL
    /\ inst' = inst \ {c}
    /\ below' = [d \in Clients |-> IF d = c THEN {} ELSE below[d] \ {c}]
    /\ mayInject' = [mayInject EXCEPT ![c] = {}]
    /\ mustSee' = [p \in Packets |-> mustSee[p] \ {c}]
    /\ UNCHANGED <<moduleVars, lock, pktVars, actorVars, held, approved>>

\* InterlockedDecrement(&m_References).  At zero the packet joins Dying.
DropReference(p) == refs' = [refs EXCEPT ![p] = @ - 1]

\* Mutant: the clone shares the reference of the packet it was made from.
CloneWithoutReference(p) == UNCHANGED refs

\* InterlockedIncrement(&m_References).
FLTCloneRequest(p) == refs' = [refs EXCEPT ![p] = @ + 1]

\* The second half of FLTFreeCloneRequest, when m_References has become 0: the
\* packet leaves g_PacketsList and FreeNdisData gives its memory back.  (The
\* fields of freed memory mean nothing; they get their initial values.)
FLTFreeCloneRequest(p) ==
    /\ p \in Dying
    /\ live' = live \ {p}
    /\ madapter' = [madapter EXCEPT ![p] = NULL]
    /\ pool' = [pool EXCEPT ![p] = NULL]
    /\ dir' = [dir EXCEPT ![p] = "out"]
    /\ mustSee' = [mustSee EXCEPT ![p] = {}]
    /\ approved' = [approved EXCEPT ![p] = {}]
    /\ UNCHANGED <<moduleVars, listVars, lock, refs, ndis, actorVars, held,
                   mayInject>>

\* A client drops a clone it kept.
ClientFree(c, p) ==
    /\ pc[c] = "idle"
    /\ p \in held[c]
    /\ held' = [held EXCEPT ![c] = @ \ {p}]
    /\ mayInject' = [mayInject EXCEPT ![c] = @ \ {p}]
    /\ DropReference(p)
    /\ UNCHANGED <<moduleVars, listVars, lock, live, madapter, pool, dir,
                   ndis, actorVars, histVars>>

\* A client calls FLTInjectRequest(its instance, p) for a packet that it
\* stopped and kept, once.
ClientInject(c, p) ==
    /\ pc[c] = "idle"
    /\ c \in inst
    /\ p \in mayInject[c]
    /\ mayInject' = [mayInject EXCEPT ![c] = @ \ {p}]
    /\ approved' = [approved EXCEPT ![p] = @ \cup {c}]
    /\ pc' = [pc EXCEPT ![c] = "inject"]
    /\ cur' = [cur EXCEPT ![c] = p]
    /\ UNCHANGED <<moduleVars, listVars, lock, pktVars, callVars, todo, handle,
                   held, mustSee>>

-----------------------------------------------------------------------------
(***************************************************************************)
(* FLTInjectRequest and SendPacket, run by an NDIS thread for a packet it  *)
(* has just made or by a client's thread for one it kept.                  *)
(***************************************************************************)

\* Where an actor goes when FLTInjectRequest returns: an NDIS thread frees its
\* reference, a client goes back to its own code.
Return(x) == IF x \in Threads THEN "release" ELSE "idle"

\* Mutant: a packet that a client injects goes out without asking the rest.
WalkNobody(x) == IF x \in Clients THEN {} ELSE inst

\* The instances a walk visits: from the head of the list, or from behind the
\* instance of the client that injects.
WalkFrom(x) == IF x \in Clients THEN below[x] ELSE inst

\* g_FltInstancesLock is taken and the walk starts.
FLTInjectRequest(x) ==
    /\ pc[x] = "inject"
    /\ lock = NULL
    /\ lock' = x
    /\ todo' = [todo EXCEPT ![x] = WalkFrom(x)]
    /\ mustSee' = IF x \in Clients THEN mustSee
                  ELSE [mustSee EXCEPT ![cur[x]] = inst]
    /\ pc' = [pc EXCEPT ![x] = "walk"]
    /\ UNCHANGED <<moduleVars, listVars, pktVars, callVars, cur, handle, held,
                   mayInject, approved>>

\* The instance the walk comes to next.
IsNext(x, c) ==
    /\ c \in todo[x]
    /\ \A d \in todo[x] \ {c} : d \in below[c]

\* m_pRequestCallback of c answers STATUS_SUCCESS, perhaps keeping a clone.
CallbackPass(x, c, keep) ==
    LET p == cur[x]
    IN  /\ pc[x] = "walk"
        /\ IsNext(x, c)
        /\ keep => p \notin held[c]
        /\ todo' = [todo EXCEPT ![x] = @ \ {c}]
        /\ approved' = [approved EXCEPT ![p] = @ \cup {c}]
        /\ IF keep
           THEN /\ FLTCloneRequest(p)
                /\ held' = [held EXCEPT ![c] = @ \cup {p}]
           ELSE UNCHANGED <<refs, held>>
        /\ UNCHANGED <<moduleVars, listVars, lock, live, madapter, pool, dir,
                       ndis, pc, callVars, cur, handle, mayInject, mustSee>>

\* Mutant: the break is missing, the walk goes on and the last answer counts.
WalkGoesOn(x, c) ==
    /\ todo' = [todo EXCEPT ![x] = @ \ {c}]
    /\ UNCHANGED <<lock, pc, cur>>

\* Mutant: a refusal is taken for STATUS_RETRY and the list is shown again.
WalkRestarts(x, c) ==
    /\ todo' = [todo EXCEPT ![x] = inst]
    /\ UNCHANGED <<lock, pc, cur>>

\* The break after a refusal by c: the lock is dropped, nothing is sent.
WalkStops(x, c) ==
    /\ lock' = NULL
    /\ todo' = [todo EXCEPT ![x] = {}]
    /\ pc' = [pc EXCEPT ![x] = Return(x)]
    /\ cur' = IF x \in Threads THEN cur ELSE [cur EXCEPT ![x] = NULL]

\* m_pRequestCallback of c answers anything else.  A client that kept a clone
\* may inject the packet later.
CallbackStop(x, c, keep) ==
    LET p == cur[x]
    IN  /\ pc[x] = "walk"
        /\ IsNext(x, c)
        /\ keep => p \notin held[c]
        /\ WalkStops(x, c)
        /\ IF keep
           THEN /\ FLTCloneRequest(p)
                /\ held' = [held EXCEPT ![c] = @ \cup {p}]
                /\ mayInject' = [mayInject EXCEPT ![c] = @ \cup {p}]
           ELSE UNCHANGED <<refs, held, mayInject>>
        /\ UNCHANGED <<moduleVars, listVars, live, madapter, pool, dir, ndis,
                       callVars, handle, histVars>>

\* The end of the list: the lock is dropped, Status is STATUS_SUCCESS.
WalkDone(x) ==
    /\ pc[x] = "walk"
    /\ todo[x] = {}
    /\ lock' = NULL
    /\ pc' = [pc EXCEPT ![x] = "send"]
    /\ UNCHANGED <<moduleVars, listVars, pktVars, callVars, cur, todo, handle,
                   held, mayInject, histVars>>

\* SendPacket under g_PacketLock: the handle of the packet's adapter is read.
\* Without an adapter SendPacket returns STATUS_INVALID_PARAMETER.
SendPacketLookup(x) ==
    LET a == madapter[cur[x]]
    IN  /\ pc[x] = "send"
        /\ handle' = [handle EXCEPT ![x] = a]
        /\ pc' = [pc EXCEPT ![x] = IF a # NULL THEN "handoff" ELSE Return(x)]
        /\ cur' = IF a = NULL /\ x \in Clients THEN [cur EXCEPT ![x] = NULL]
                  ELSE cur
        /\ UNCHANGED <<moduleVars, listVars, lock, pktVars, callVars, todo,
                       held, mayInject, histVars>>

\* SendPacket without the lock: a reference for NDIS, then
\* NdisFSendNetBufferLists or NdisFIndicateReceiveNetBufferLists with the
\* handle that was read before.
SendPacketHandOff(x) ==
    LET p == cur[x]
    IN  /\ pc[x] = "handoff"
        /\ FLTCloneRequest(p)
        /\ ndis' = [ndis EXCEPT ![p] = @ + 1]
        /\ handle' = [handle EXCEPT ![x] = NULL]
        /\ pc' = [pc EXCEPT ![x] = Return(x)]
        /\ cur' = IF x \in Threads THEN cur ELSE [cur EXCEPT ![x] = NULL]
        /\ UNCHANGED <<moduleVars, listVars, lock, live, madapter, pool, dir,
                       callVars, todo, held, mayInject, histVars>>

-----------------------------------------------------------------------------
(***************************************************************************)
(* The handlers NDIS calls with packets.                                   *)
(***************************************************************************)

\* A handler is entered and reads m_FilterState, to pass it as the new value to
\* InterlockedExchange.
Enter(t, a, d, n) ==
    /\ pc[t] = "idle"
    /\ module[a] \in {"paused", "running"}
    /\ asked' = [asked EXCEPT ![t] = filterState[a]]
    /\ pc' = [pc EXCEPT ![t] = "test"]
    /\ ctx' = [ctx EXCEPT ![t] = a]
    /\ way' = [way EXCEPT ![t] = d]
    /\ nb' = [nb EXCEPT ![t] = n]
    /\ UNCHANGED <<module, filterState, listVars, lock, pktVars, cur, todo,
                   handle, held, mayInject, histVars>>

FilterSendNetBufferLists(t, a, n) == Enter(t, a, "out", n)

FilterReceiveNetBufferLists(t, a, n) == Enter(t, a, "in", n)

\* The parameters of a handler call that is over.
LeaveHandler(t) ==
    /\ ctx' = [ctx EXCEPT ![t] = NULL]
    /\ way' = [way EXCEPT ![t] = "out"]
    /\ nb' = [nb EXCEPT ![t] = 0]

\* InterlockedExchange puts the value that was read back, over what FilterPause
\* or FilterRestart may have stored since, and the handler goes by what it finds:
\* unless that is FILTER_STATE_RUNNING it completes the original buffers.
TestFilterState(t) ==
    LET a == ctx[t]
    IN  /\ pc[t] = "test"
        /\ filterState' = [filterState EXCEPT ![a] = asked[t]]
        /\ asked' = [asked EXCEPT ![t] = "PAUSED"]
        /\ \/ /\ filterState[a] = "RUNNING"
              /\ pc' = [pc EXCEPT ![t] = "entry"]
              /\ UNCHANGED callVars
           \/ /\ filterState[a] # "RUNNING"
              /\ pc' = [pc EXCEPT ![t] = "idle"]
              /\ LeaveHandler(t)
        /\ UNCHANGED <<module, listVars, lock, pktVars, cur, todo, handle, held,
                       mayInject, histVars>>

\* IsInstancesListEmpty: without clients the original buffers are passed on
\* and the handler returns.
IsInstancesListEmpty(t) ==
    /\ pc[t] = "entry"
    /\ lock = NULL
    /\ pc' = [pc EXCEPT ![t] = IF inst = {} THEN "idle" ELSE "loop"]
    /\ IF inst = {} THEN LeaveHandler(t) ELSE UNCHANGED callVars
    /\ UNCHANGED <<moduleVars, listVars, lock, pktVars, cur, todo, handle,
                   held, mayInject, histVars>>

\* The loop over the net buffers, which both handlers have: the buffer is
\* copied into a new FLT_PACKET with one reference, put on g_PacketsList and
\* given to FLTInjectRequest.
FilterNetBuffer(t, p) ==
    /\ pc[t] = "loop"
    /\ nb[t] > 0
    /\ p \notin live
    /\ nb' = [nb EXCEPT ![t] = @ - 1]
    /\ live' = live \cup {p}
    /\ refs' = [refs EXCEPT ![p] = 1]
    /\ madapter' = [madapter EXCEPT ![p] = ctx[t]]
    /\ pool' = [pool EXCEPT ![p] = ctx[t]]
    /\ dir' = [dir EXCEPT ![p] = way[t]]
    /\ held' = [held EXCEPT ![t] = @ \cup {p}]
    /\ cur' = [cur EXCEPT ![t] = p]
    /\ pc' = [pc EXCEPT ![t] = "inject"]
    /\ UNCHANGED <<moduleVars, listVars, lock, ndis, ctx, way, todo, handle,
                   mayInject, histVars>>

\* Memory, the MDL or the net buffer list cannot be allocated: the buffer is
\* left out.
FilterNetBufferNoMemory(t) ==
    /\ pc[t] = "loop"
    /\ nb[t] > 0
    /\ nb' = [nb EXCEPT ![t] = @ - 1]
    /\ UNCHANGED <<moduleVars, listVars, lock, pktVars, pc, ctx, way, cur,
                   todo, handle, held, mayInject, histVars>>

\* FLTInjectRequest has returned; the handler frees its own reference.
FilterNetBufferRelease(t) ==
    /\ pc[t] = "release"
    /\ DropReference(cur[t])
    /\ held' = [held EXCEPT ![t] = @ \ {cur[t]}]
    /\ cur' = [cur EXCEPT ![t] = NULL]
    /\ pc' = [pc EXCEPT ![t] = "loop"]
    /\ UNCHANGED <<moduleVars, listVars, lock, live, madapter, pool, dir,
                   ndis, callVars, todo, handle, mayInject, histVars>>

\* The original buffers are completed (or returned) and the handler returns.
HandlerReturn(t) ==
    /\ pc[t] = "loop"
    /\ nb[t] = 0
    /\ pc' = [pc EXCEPT ![t] = "idle"]
    /\ LeaveHandler(t)
    /\ UNCHANGED <<moduleVars, listVars, lock, pktVars, cur, todo, handle,
                   held, mayInject, histVars>>

\* NDIS gives a net buffer list of ours back to the module it came from.
Complete(p, d) ==
    /\ ndis[p] > 0
    /\ dir[p] = d
    /\ module[pool[p]] # "gone"
    /\ ndis' = [ndis EXCEPT ![p] = @ - 1]
    /\ DropReference(p)
    /\ UNCHANGED <<moduleVars, listVars, lock, live, madapter, pool, dir,
                   actorVars, held, mayInject, histVars>>

FilterSendNetBufferListsComplete(p) == Complete(p, "out")

\* Mutant: the pool test fails for our own net buffer list, which stays.
ReturnWithoutFree(p) ==
    /\ ndis[p] > 0
    /\ dir[p] = "in"
    /\ ndis' = [ndis EXCEPT ![p] = @ - 1]
    /\ UNCHANGED <<moduleVars, listVars, lock, live, refs, madapter, pool, dir,
                   actorVars, held, mayInject, histVars>>

FilterReturnNetBufferLists(p) == Complete(p, "in")

-----------------------------------------------------------------------------
(***************************************************************************)
(* The handlers NDIS calls for an adapter.                                 *)
(***************************************************************************)

\* A handler of NDIS's that leaves m_FilterState at state.
SetModule(a, from, to, state) ==
    /\ module[a] = from
    /\ module' = [module EXCEPT ![a] = to]
    /\ filterState' = [filterState EXCEPT ![a] = state]
    /\ UNCHANGED <<asked, listVars, lock, live, refs, pool, dir, ndis, actorVars,
                   held, mayInject, histVars>>

\* The context is made, starts paused, and OpenAdapter tells the clients under
\* g_FltInstancesLock.  The failures before that leave nothing behind.
FilterAttach(a) ==
    /\ lock = NULL
    /\ SetModule(a, "none", "paused", "PAUSED")
    /\ UNCHANGED madapter

FilterRestart(a) ==
    SetModule(a, "paused", "running", "RUNNING") /\ UNCHANGED madapter

FilterPause(a) ==
    SetModule(a, "running", "paused", "PAUSED") /\ UNCHANGED madapter

\* NDIS detaches a paused module in which no handler is running and whose net
\* buffer lists have all come home.
MayDetach(a) ==
    /\ \A t \in Threads : ctx[t] # a
    /\ \A p \in Packets : ndis[p] > 0 => pool[p] # a

\* Mutant: packets on their way up are forgotten.
ClearOutgoing(a) ==
    [p \in Packets |->
        IF madapter[p] = a /\ dir[p] = "out" THEN NULL ELSE madapter[p]]

\* m_pAdapter of every packet on g_PacketsList, cleared where it is a.
ClearAdapter(a) ==
    [p \in Packets |->
        IF p \in live /\ madapter[p] = a THEN NULL ELSE madapter[p]]

\* FilterDetach calls CloseAdapter, which first clears m_pAdapter of the
\* adapter's packets under g_PacketLock ...
CloseAdapter(a) ==
    /\ MayDetach(a)
    /\ SetModule(a, "paused", "closing", filterState[a])
    /\ madapter' = ClearAdapter(a)

\* ... and then tells the clients under g_FltInstancesLock.  FilterDetach
\* frees the pool and the context.
FilterDetach(a) ==
    /\ lock = NULL
    /\ SetModule(a, "closing", "gone", "PAUSED")
    /\ UNCHANGED madapter

-----------------------------------------------------------------------------
\* One net buffer list handler in progress.
ThreadNext(t) ==
    \/ \E a \in Adapters, n \in 1..MaxNB :
         \/ FilterSendNetBufferLists(t, a, n)
         \/ FilterReceiveNetBufferLists(t, a, n)
    \/ TestFilterState(t)
    \/ IsInstancesListEmpty(t)
    \/ \E p \in Packets : FilterNetBuffer(t, p)
    \/ FilterNetBufferNoMemory(t)
    \/ FilterNetBufferRelease(t)
    \/ HandlerReturn(t)

\* FLTInjectRequest in progress.
InjectNext(x) ==
    \/ FLTInjectRequest(x)
    \/ \E c \in Clients, keep \in BOOLEAN :
         CallbackPass(x, c, keep) \/ CallbackStop(x, c, keep)
    \/ WalkDone(x)
    \/ SendPacketLookup(x)
    \/ SendPacketHandOff(x)

ClientNext(c) ==
    \/ FLTRegisterCallbacks(c)
    \/ FLTDeregisterCallbacks(c)
    \/ \E p \in Packets : ClientFree(c, p) \/ ClientInject(c, p)

PacketNext(p) ==
    \/ FLTFreeCloneRequest(p)
    \/ FilterSendNetBufferListsComplete(p)
    \/ FilterReturnNetBufferLists(p)

AdapterNext(a) ==
    \/ FilterAttach(a)
    \/ FilterRestart(a)
    \/ FilterPause(a)
    \/ CloseAdapter(a)
    \/ FilterDetach(a)

Next ==
    \/ \E t \in Threads : ThreadNext(t)
    \/ \E x \in Actors : InjectNext(x)
    \/ \E c \in Clients : ClientNext(c)
    \/ \E p \in Packets : PacketNext(p)
    \/ \E a \in Adapters : AdapterNext(a)

Spec == Init /\ [][Next]_vars

-----------------------------------------------------------------------------
(***************************************************************************)
(* Safety                                                                  *)
(***************************************************************************)

\* Who has a reference on the packet, NDIS aside.
Holders(p) == {x \in Actors : p \in held[x]}

CountsExact == \A p \in live : refs[p] = Cardinality(Holders(p)) + ndis[p]

\* The reference count of ansfltr/callbacks.c:139-164 is exact: m_References
\* of every packet is the number of handlers and clients that hold it plus
\* the number of times NDIS owns its net buffer list, whatever the order in
\* which handlers, clients and completions clone and free it.
RefsExact == TypeOK /\ CountsExact

\* FreeNdisData never runs under someone's feet: a packet that an actor or
\* NDIS holds is allocated, and an actor works only on a packet that it holds
\* (ansfltr/callbacks.c:156-163, ansfltr/vista/filter.c:462-465).
NoDangling ==
    /\ \A p \in Packets : Holders(p) # {} \/ ndis[p] > 0 => p \in live
    /\ \A x \in Actors : cur[x] # NULL => cur[x] \in held[x]

\* README.md:23-26 (steps 5 and 6): a packet goes to the network only when
\* every client that was registered when the packet was first shown, and still
\* is, has let it pass, over any number of stops and later injections and
\* although clients come and go in between.
SentOnlyIfApproved ==
    \A p \in Packets : ndis[p] > 0 => mustSee[p] \subseteq approved[p]

\* The one net buffer list of a packet (m_pNBL) is never given to NDIS while
\* NDIS still owns it.
SingleFlight == \A p \in Packets : ndis[p] <= 1

\* CloseAdapter leaves no packet behind that names a closed adapter, so no
\* later SendPacket reads a freed FLT_MODULE_CONTEXT
\* (ansfltr/callbacks.c:190-202, ansfltr/vista/filter.c:748).
NoClosedAdapter ==
    \A p \in live :
        madapter[p] # NULL => module[madapter[p]] \in {"paused", "running"}

-----------------------------------------------------------------------------
(***************************************************************************)
(* Liveness.  A thread inside a handler or an injection goes on (the code  *)
(* runs at DISPATCH_LEVEL or holds the processor); a spin lock that is     *)
(* free again and again is got in the end; NDIS completes what it was      *)
(* given; a client frees what it keeps.                                    *)
(***************************************************************************)
Fairness ==
    /\ \A t \in Threads :
         /\ WF_vars(TestFilterState(t))
         /\ WF_vars(FilterNetBufferRelease(t))
         /\ WF_vars(HandlerReturn(t))
         /\ WF_vars(FilterNetBufferNoMemory(t)
                      \/ \E p \in Packets : FilterNetBuffer(t, p))
         /\ SF_vars(IsInstancesListEmpty(t))
    /\ \A x \in Actors :
         /\ SF_vars(FLTInjectRequest(x))
         /\ WF_vars(\/ WalkDone(x)
                    \/ \E c \in Clients, keep \in BOOLEAN :
                         CallbackPass(x, c, keep) \/ CallbackStop(x, c, keep))
         /\ WF_vars(SendPacketLookup(x))
         /\ WF_vars(SendPacketHandOff(x))
    /\ \A c \in Clients, p \in Packets : SF_vars(ClientFree(c, p))
    /\ \A p \in Packets : WF_vars(PacketNext(p))

FairSpec == Spec /\ Fairness

\* Every call of a send or receive handler returns
\* (ansfltr/vista/filter.c:409-624).
HandlersReturn ==
    \A t \in Threads : pc[t] # "idle" ~> pc[t] = "idle"

\* Every intercepted packet is freed in the end, unless its adapter has been
\* detached while NDIS had it (ansfltr/callbacks.c:151-164).
PacketsReclaimed ==
    \A p \in Packets :
        p \in live ~> (p \notin live \/ module[pool[p]] = "gone")
=============================================================================
