----------------------------- MODULE Reassembly -----------------------------
(***************************************************************************)
(* The datagram assembler of ansfw.sys (ansfw/reassembly.c) and the half   *)
(* of ansfw/callbacks.c that delivers its datagrams.                       *)
(*                                                                         *)
(* A received fragment, an FW_REQUEST that nobody else knows, is queued    *)
(* for IntermedThreadFunc, which copies it into the buffer (DATA_LIST) of  *)
(* its datagram.  A complete datagram is shown to the clients; when they   *)
(* let it pass, its fragments are handed back to ansfltr.  The fragments   *)
(* live as long as the datagram.  TtlDecrementThreadFunc drops datagrams   *)
(* that stay incomplete.                                                   *)
(*                                                                         *)
(* IntermedThreadFunc holds g_slIntermedQueueLock while it drains the      *)
(* queue and g_slDatagrQueueLock while it works on a datagram;             *)
(* TtlDecrementThreadFunc holds the latter for a whole pass.  Where the    *)
(* two threads are says who owns the locks.                                *)
(***************************************************************************)
EXTENDS FwClients

CONSTANTS
    Requests,               \* the memory of FW_REQUESTs of fragments
    Buffers,                \* the memory of DATA_LISTs
    Wire,                   \* the fragments that can arrive
    WORKBUFSIZE,            \* size of a buffer, and 1 + the largest USHORT
    MAX_WORKBUFFER_COUNT,
    MaxReceiving,           \* bound: NDIS threads inside ReassemblePacket at a time
    PoolFails,              \* whether the nonpaged pool can be exhausted
    NULL

ASSUME ConstantsAssumption ==
    /\ Wire \subseteq [key : [id : Nat, src : Nat], off : Nat, data : Nat \ {0},
                       more : BOOLEAN, options : BOOLEAN, ttl : Nat]
    /\ \A w \in Wire :
         /\ w.more \/ w.off # 0
         /\ w.more => w.data % 8 = 0
         /\ 20 + w.data < WORKBUFSIZE   \* the length of a packet is a USHORT
    /\ WORKBUFSIZE \in Nat \ {0} /\ WORKBUFSIZE % 8 = 0
    /\ MAX_WORKBUFFER_COUNT \in Nat
    /\ MaxReceiving \in Nat
    /\ PoolFails \in BOOLEAN
    /\ NULL \notin Requests \cup Buffers \cup Clients \cup Wire

VARIABLES
    live,       \* FW_REQUESTs in existence
    frag,       \* the fragment in a request's packet, NULL when it is freed
    queue,      \* g_leIntermedQueueHead
    toSet,      \* threads that have queued a fragment and not set the event yet
    event,      \* g_ThreadEvent
    datagrams,  \* g_leDatagrQueueHead
    buf,        \* the fields of a DATA_LIST
    allocated,  \* the DATA_LISTs that gAllocCounter counts
    freeBufs,   \* g_FreeDatagramWorkBufList
    refs,       \* m_FwRequest.m_References of a DATA_LIST
    pcI, onI,   \* IntermedThreadFunc, and the datagram it delivers
    pcT, atT,   \* TtlDecrementThreadFunc, and its position in datagrams
    held,       \* the clones a client has kept
    mayInject,  \* those of datagrams it has stopped
    lost,       \* history: requests that no list holds any more
    sent        \* history: how often a fragment was handed back to ansfltr

queueVars  == <<queue, toSet, event>>
bufVars    == <<datagrams, buf, allocated, freeBufs>>
threadVars == <<pcI, onI, pcT, atT>>
clientVars == <<refs, held, mayInject, sent>>
vars == <<live, frag, queueVars, bufVars, threadVars, clientVars, lost, fwList>>

\* An IP header without options.
ipHeaderSize == 20
FullLength(w) == ipHeaderSize + w.data
End(w)        == w.off * 8 + FullLength(w)

\* The 8-byte units of the datagram that a fragment's data fills.
Units(w) == w.off..(w.off + (w.data + 7) \div 8 - 1)

\* Mutant: the bits of the data alone.
DataBits(w) == w.off..(w.off + w.data \div 8 - 1)

\* RtlSetBits(BitMapHeader, offset, FullLength / 8): the header's length is
\* counted with every fragment.
Bits(w) == w.off..(w.off + FullLength(w) \div 8 - 1)

MaxUnit == WORKBUFSIZE \div 8 + 2

Keys == {w.key : w \in Wire}

TypeOK ==
    /\ live \subseteq Requests
    /\ frag \in [Requests -> Wire \cup {NULL}]
    /\ ToSet(queue) \cup lost \subseteq live
    /\ toSet \in 0..MaxReceiving
    /\ event \in BOOLEAN
    /\ ToSet(datagrams) \subseteq allocated \ freeBufs
    /\ buf \in [Buffers -> [key   : Keys \cup {NULL},
                            bits  : SUBSET (0..MaxUnit),
                            total : 0..(WORKBUFSIZE - 1),
                            last  : BOOLEAN,
                            ttl   : Nat,
                            list  : SUBSET Requests]]
    /\ freeBufs \subseteq allocated /\ allocated \subseteq Buffers
    /\ refs \in [Buffers -> Nat]
    /\ pcI \in {"wait", "drain", "deliver", "free"}
    /\ onI \in Buffers \cup {NULL}
    /\ pcT \in {"sleep", "walk"}
    /\ atT \in 0..(Len(datagrams) + 1)
    /\ held \in [Clients -> SUBSET Buffers]
    /\ mayInject \in [Clients -> SUBSET Buffers]
    /\ sent \in [Requests -> 0..2]
    /\ Registered \subseteq Clients

\* A DATA_LIST filled with zeroes.
Zeroed == [key |-> NULL, bits |-> {}, total |-> 0, last |-> FALSE, ttl |-> 0,
           list |-> {}]

\* InitializeReassembly.
Init ==
    /\ live = {}
    /\ frag = [f \in Requests |-> NULL]
    /\ queue = << >>
    /\ toSet = 0
    /\ event = FALSE
    /\ datagrams = << >>
    /\ buf = [b \in Buffers |-> Zeroed]
    /\ allocated = {}
    /\ freeBufs = {}
    /\ refs = [b \in Buffers |-> 0]
    /\ pcI = "wait" /\ onI = NULL
    /\ pcT = "sleep" /\ atT = 0
    /\ held = [c \in Clients |-> {}]
    /\ mayInject = [c \in Clients |-> {}]
    /\ lost = {}
    /\ sent = [f \in Requests |-> 0]
    /\ fwList = << >>

\* g_slIntermedQueueLock and g_slDatagrQueueLock are free.
QueueFree    == pcI \notin {"drain", "deliver", "free"}
DatagramFree == pcI \notin {"deliver", "free"} /\ pcT # "walk"

-----------------------------------------------------------------------------
(* Receiving *)

\* RequestCallback gives a received fragment to ReassemblePacket, if there is a
\* client to show it to.
ReassemblePacket(f, w) ==
    /\ Registered # {}
    /\ f \notin live
    /\ QueueFree
    /\ toSet < MaxReceiving
    /\ live' = live \cup {f}
    /\ frag' = [frag EXCEPT ![f] = w]
    /\ sent' = [sent EXCEPT ![f] = 0]
    /\ queue' = Append(queue, f)
    /\ toSet' = toSet + 1
    /\ UNCHANGED <<event, bufVars, threadVars, refs, held, mayInject, lost,
                   fwList>>

\* Mutant: the thread is not woken.
SetNoEvent ==
    /\ toSet > 0
    /\ toSet' = toSet - 1
    /\ UNCHANGED <<live, frag, queue, event, bufVars, threadVars, clientVars,
                   lost, fwList>>

\* KeSetEvent, after the lock is dropped.
SetEvent ==
    /\ toSet > 0
    /\ toSet' = toSet - 1
    /\ event' = TRUE
    /\ UNCHANGED <<live, frag, queue, bufVars, threadVars, clientVars, lost,
                   fwList>>

-----------------------------------------------------------------------------
(* Buffers *)

\* ruleAllocDatagramWorkBuffer: a used buffer, else a new one within the limit.
ruleAllocDatagramWorkBuffer(b) ==
    \/ /\ b \in freeBufs
       /\ freeBufs' = freeBufs \ {b}
       /\ UNCHANGED allocated
    \/ /\ freeBufs = {}
       /\ b \notin allocated
       /\ Cardinality(allocated) <= MAX_WORKBUFFER_COUNT
       /\ allocated' = allocated \cup {b}
       /\ UNCHANGED freeBufs

AllocFails ==
    /\ freeBufs = {}
    /\ PoolFails \/ Cardinality(allocated) > MAX_WORKBUFFER_COUNT

\* Mutant: a dropped datagram's fragments are forgotten.
RecycleOnly(b) ==
    /\ freeBufs' = freeBufs \cup {b}
    /\ UNCHANGED <<live, frag>>

\* The buffer's fragments are freed (FWFreeCloneRequest of each: a fragment has
\* one reference) and it goes to the free list (ruleRecycleDatagramWorkBuffer).
FreeDatagram(b) ==
    /\ live' = live \ buf[b].list
    /\ frag' = [f \in Requests |-> IF f \in buf[b].list THEN NULL ELSE frag[f]]
    /\ freeBufs' = freeBufs \cup {b}

-----------------------------------------------------------------------------
(* IntermedThreadFunc *)

IntermWait ==
    /\ pcI = "wait"
    /\ event
    /\ event' = FALSE
    /\ pcI' = "drain"
    /\ UNCHANGED <<live, frag, queue, toSet, bufVars, onI, pcT, atT, clientVars,
                   lost, fwList>>

\* The queue is empty, the lock is dropped.
IntermDone ==
    /\ pcI = "drain"
    /\ queue = << >>
    /\ pcI' = "wait"
    /\ UNCHANGED <<live, frag, queueVars, bufVars, onI, pcT, atT, clientVars,
                   lost, fwList>>

Overlong(w) == End(w) > WORKBUFSIZE

\* Mutant: datagrams of different senders are taken for one.
MatchesId(b, w) == buf[b].key.id = w.key.id

\* The same ID, protocol, destination and source.
Matches(b, w) == buf[b].key = w.key

\* The datagram of the list that a fragment belongs to: the first that matches.
Found(w) ==
    LET hits == {k \in DOMAIN datagrams : Matches(datagrams[k], w)}
    IN  {datagrams[k] : k \in {h \in hits : \A g \in hits : h <= g}}

\* What copying fragment w of request f does to buffer d.
CopyInto(d, f, w) ==
    [d EXCEPT !.bits  = @ \cup Bits(w),
              !.total = IF w.more THEN @ ELSE End(w) % WORKBUFSIZE,
              !.last  = @ \/ ~w.more,
              !.list  = @ \cup {f}]

\* Mutant: the bits of the buffer's former datagram are still set.
NewIn(b, w) == [Zeroed EXCEPT !.key = w.key, !.ttl = w.ttl, !.bits = buf[b].bits]

\* The state of buffer b for a new datagram, which starts with fragment w.
NewDatagram(b, w) == [Zeroed EXCEPT !.key = w.key, !.ttl = w.ttl]

\* RtlAreBitsSet(BitMapHeader, 0, totallen / 8), FALSE for a length of zero.
Verify(d) ==
    /\ d.total \div 8 > 0
    /\ 0..(d.total \div 8 - 1) \subseteq d.bits

\* Analyze is called for fragment w, in request f at the head of the queue.
Analyzing(f, w) ==
    /\ pcI = "drain"
    /\ queue # << >>
    /\ f = Head(queue)
    /\ w = frag[f]
    /\ queue' = Tail(queue)

\* A header with options is not analyzed, and its request left where it is.
AnalyzeOptions(f, w) ==
    /\ Analyzing(f, w)
    /\ w.options
    /\ lost' = lost \cup {f}
    /\ UNCHANGED <<live, frag, toSet, event, bufVars, threadVars, clientVars,
                   fwList>>

\* A fragment of datagram b that reaches beyond the buffer: the buffer is free
\* again, its requests are not.
AnalyzeOverlong(f, w, b) ==
    /\ Analyzing(f, w)
    /\ ~w.options /\ DatagramFree
    /\ b \in Found(w)
    /\ Overlong(w) /\ w.off # 0
    /\ datagrams' = Unlink(datagrams, b)
    /\ freeBufs' = freeBufs \cup {b}
    /\ lost' = lost \cup buf[b].list \cup {f}
    /\ UNCHANGED <<live, frag, toSet, event, buf, allocated, threadVars,
                   clientVars, fwList>>

\* A fragment of datagram b.  When the last one is known, Verify looks whether
\* the datagram is complete and, if so, begins to deliver it.
AnalyzeAdd(f, w, b) ==
    /\ Analyzing(f, w)
    /\ ~w.options /\ DatagramFree
    /\ b \in Found(w)
    /\ ~Overlong(w) \/ w.off = 0
    /\ LET d == CopyInto(buf[b], f, w)
       IN  /\ buf' = [buf EXCEPT ![b] = d]
           /\ IF d.last /\ Verify(d)
              THEN /\ datagrams' = Unlink(datagrams, b)
                   /\ refs' = [refs EXCEPT ![b] = 1]
                   /\ onI' = b
                   /\ pcI' = "deliver"
              ELSE UNCHANGED <<datagrams, refs, onI, pcI>>
    /\ UNCHANGED <<live, frag, toSet, event, allocated, freeBufs, pcT, atT, held,
                   mayInject, sent, lost, fwList>>

\* The first fragment of a datagram to arrive, ...
AnalyzeNew(f, w, b) ==
    /\ Analyzing(f, w)
    /\ ~w.options /\ DatagramFree
    /\ Found(w) = {}
    /\ ~Overlong(w)
    /\ ruleAllocDatagramWorkBuffer(b)
    /\ buf' = [buf EXCEPT ![b] = CopyInto(NewDatagram(b, w), f, w)]
    /\ datagrams' = Append(datagrams, b)
    /\ UNCHANGED <<live, frag, toSet, event, threadVars, clientVars, lost, fwList>>

\* ... which is dropped, but not freed, if it is too long or finds no buffer.
AnalyzeNewFails(f, w) ==
    /\ Analyzing(f, w)
    /\ ~w.options /\ DatagramFree
    /\ Found(w) = {}
    /\ Overlong(w) \/ AllocFails
    /\ lost' = lost \cup {f}
    /\ UNCHANGED <<live, frag, toSet, event, bufVars, threadVars, clientVars,
                   fwList>>

Analyze(f, w) ==
    \/ AnalyzeOptions(f, w) \/ AnalyzeNewFails(f, w)
    \/ \E b \in Buffers :
         AnalyzeOverlong(f, w, b) \/ AnalyzeAdd(f, w, b) \/ AnalyzeNew(f, w, b)

-----------------------------------------------------------------------------
(* Delivering *)

\* Mutant: who has injected a datagram may inject it once more.
FWInjectAgain(b, clients, may) ==
    \E o \in ProcessRequest(clients) :
        /\ held' = [c \in Clients |-> held[c] \cup {d \in {b} : c \in o.kept}]
        /\ mayInject' = [c \in Clients |->
                      mayInject[c] \cup {d \in {b} : c \in o.kept \cap o.stopper}]
        /\ refs' = [refs EXCEPT ![b] = @ + Cardinality(o.kept)]
        /\ sent' = [f \in Requests |->
              IF NT_SUCCESS(o.answer) /\ f \in buf[b].list /\ sent[f] < 2
              THEN sent[f] + 1 ELSE sent[f]]

\* FWInjectRequest shows datagram b to the instances clients; if they let
\* it pass, its fragments go back to ansfltr (FLTInjectRequest).  Clients may
\* still inject what is in may, and b if they stopped it and kept it.
FWInjectRequest(b, clients, may) ==
    \E o \in ProcessRequest(clients) :
        /\ held' = [c \in Clients |->
                      held[c] \cup {d \in {b} : c \in o.kept}]
        /\ mayInject' = [c \in Clients |->
                      may[c] \cup {d \in {b} : c \in o.kept \cap o.stopper}]
        /\ refs' = [refs EXCEPT ![b] = @ + Cardinality(o.kept)]
        /\ sent' = [f \in Requests |->
              IF NT_SUCCESS(o.answer) /\ f \in buf[b].list /\ sent[f] < 2
              THEN sent[f] + 1 ELSE sent[f]]

\* Mutant: Verify frees the datagram whoever holds it.
FreeAnyway(b) ==
    /\ refs' = [refs EXCEPT ![b] = 0]
    /\ FreeDatagram(b)

\* FWFreeCloneRequest of a datagram: the last reference frees it.
FWFreeCloneRequest(b) ==
    /\ refs' = [refs EXCEPT ![b] = @ - 1]
    /\ IF refs[b] = 1 THEN FreeDatagram(b) ELSE UNCHANGED <<live, frag, freeBufs>>

Deliver ==
    /\ pcI = "deliver"
    /\ FWInjectRequest(onI, fwList, mayInject)
    /\ pcI' = "free"
    /\ UNCHANGED <<live, frag, queueVars, bufVars, onI, pcT, atT, lost, fwList>>

DeliverFree ==
    /\ pcI = "free"
    /\ FWFreeCloneRequest(onI)
    /\ onI' = NULL
    /\ pcI' = "drain"
    /\ UNCHANGED <<queueVars, datagrams, buf, allocated, pcT, atT, held,
                   mayInject, sent, lost, fwList>>

-----------------------------------------------------------------------------
(* TtlDecrementThreadFunc, once a second *)

\* (A pass over an empty list changes nothing.)
TtlWake ==
    /\ pcT = "sleep"
    /\ DatagramFree
    /\ datagrams # << >>
    /\ pcT' = "walk"
    /\ atT' = 1
    /\ UNCHANGED <<live, frag, queueVars, bufVars, pcI, onI, clientVars, lost,
                   fwList>>

TtlStep ==
    /\ pcT = "walk"
    /\ atT \in DOMAIN datagrams
    /\ buf[datagrams[atT]].ttl > 0
    /\ buf' = [buf EXCEPT ![datagrams[atT]].ttl = @ - 1]
    /\ atT' = atT + 1
    /\ UNCHANGED <<live, frag, queueVars, datagrams, allocated, freeBufs, pcI,
                   onI, pcT, clientVars, lost, fwList>>

\* An expired datagram is dropped, and the pass begins anew at the head: the
\* datagrams before it lose another second.
TtlExpire ==
    /\ pcT = "walk"
    /\ atT \in DOMAIN datagrams
    /\ LET b == datagrams[atT]
       IN  /\ buf[b].ttl = 0
           /\ datagrams' = Unlink(datagrams, b)
           /\ FreeDatagram(b)
    /\ atT' = 1
    /\ UNCHANGED <<queueVars, buf, allocated, pcI, onI, pcT, clientVars, lost,
                   fwList>>

TtlDone ==
    /\ pcT = "walk"
    /\ atT = Len(datagrams) + 1
    /\ pcT' = "sleep"
    /\ atT' = 0
    /\ UNCHANGED <<live, frag, queueVars, bufVars, pcI, onI, clientVars, lost,
                   fwList>>

-----------------------------------------------------------------------------
(* Clients *)

\* A client lets a datagram pass that it had stopped.
ClientInject(c, b) ==
    /\ b \in mayInject[c]
    /\ FWInjectRequest(b, Behind(c), [mayInject EXCEPT ![c] = @ \ {b}])
    /\ UNCHANGED <<live, frag, queueVars, bufVars, threadVars, lost, fwList>>

ClientFree(c, b) ==
    /\ b \in held[c]
    /\ held' = [held EXCEPT ![c] = @ \ {b}]
    /\ mayInject' = [mayInject EXCEPT ![c] = @ \ {b}]
    /\ FWFreeCloneRequest(b)
    /\ UNCHANGED <<queueVars, datagrams, buf, allocated, threadVars, sent, lost,
                   fwList>>

ClientRegisters(c) ==
    /\ FWRegisterRequestCallback(c)
    /\ UNCHANGED <<live, frag, queueVars, bufVars, threadVars, clientVars, lost>>

\* A client deregisters when it has freed its clones.
ClientDeregisters(c) ==
    /\ held[c] = {}
    /\ FWDeregisterRequestCallback(c)
    /\ UNCHANGED <<live, frag, queueVars, bufVars, threadVars, clientVars, lost>>

-----------------------------------------------------------------------------
IntermNext ==
    \/ IntermWait \/ IntermDone \/ Deliver \/ DeliverFree
    \/ \E f \in Requests, w \in Wire : Analyze(f, w)

TtlNext == TtlWake \/ TtlStep \/ TtlExpire \/ TtlDone

Next ==
    \/ \E f \in Requests, w \in Wire : ReassemblePacket(f, w)
    \/ SetEvent \/ IntermNext \/ TtlNext
    \/ \E c \in Clients :
         \/ ClientRegisters(c) \/ ClientDeregisters(c)
         \/ \E b \in Buffers : ClientInject(c, b) \/ ClientFree(c, b)

Spec == Init /\ [][Next]_vars

\* Both threads run on and get their locks in the end; clients free what they
\* keep (sdk/src/fwtest/fwtest.c:115-138) and register finitely often.
Fairness ==
    /\ <>[][\A c \in Clients : ~ClientRegisters(c)]_vars
    /\ WF_vars(SetEvent)
    /\ SF_vars(IntermNext)
    /\ WF_vars(TtlNext) /\ SF_vars(TtlWake)
    /\ \A c \in Clients, b \in Buffers : SF_vars(ClientFree(c, b))

FairSpec == Spec /\ Fairness

-----------------------------------------------------------------------------
(* Properties *)

\* The fragments of a datagram.
Fragments(b) == {frag[f] : f \in buf[b].list}

\* The units of the datagram in b, as long as its last fragment says it is,
\* that came in none of its fragments.
Missing(b) ==
    (0..((buf[b].total - ipHeaderSize + 7) \div 8 - 1))
      \ UNION {Units(w) : w \in Fragments(b)}

Complete(b) == buf[b].last /\ Missing(b) = {}

\* The two units behind the data of a fragment: where its header, which is
\* counted with the data, can hide that nothing came.
Overrun(w) ==
    LET end == w.off + (w.data + 7) \div 8
    IN  {end, end + 1}

\* All of a datagram that clients get to see comes from the same datagram of the
\* same sender, and its end is known (ansfw/reassembly.c:281-284, 498-532).  Of
\* its data nothing is missing but, at most, the two units directly behind a
\* fragment: the code delivers a datagram with such a gap, for it takes the
\* header's length for data (ansfw/reassembly.c:306-308, 338-340).
AssembledComplete ==
    \A b \in Buffers : refs[b] > 0 =>
        /\ buf[b].last
        /\ Missing(b) \subseteq UNION {Overrun(w) : w \in Fragments(b)}
        /\ \A w \in Fragments(b) : w.key = buf[b].key

\* A datagram whose fragments are all there is not left on the list, whatever
\* the order they came in (ansfw/reassembly.c:286-398).
CompleteDelivered == \A b \in ToSet(datagrams) : ~Complete(b)

\* Every request is in one place: on its way to the queue or in it, with one
\* datagram that is assembled or that clients hold, or lost for one of the
\* reasons for which the code forgets it (ansfw/reassembly.c:78-79, 268-296,
\* 323-332, 363-372, 404-421).
FragmentsAccounted ==
    LET inUse  == allocated \ freeBufs
        places == {ToSet(queue), lost} \cup {buf[b].list : b \in inUse}
    IN  /\ TypeOK
        /\ live = UNION places
        /\ \A p, q \in places : p = q \/ p \cap q = {}
        /\ \A b1, b2 \in inUse : b1 = b2 \/ buf[b1].list \cap buf[b2].list = {}

\* A buffer in use is on the list of datagrams or held by exactly as many as
\* m_References says, and a fragment is handed back to ansfltr once at most,
\* however many clients stop its datagram and let it pass, as long as they answer
\* success or failure: with STATUS_PENDING a client that kept a datagram lets it
\* pass twice (ansfw/reassembly.c:155-200, ansfw/callbacks.c:297-322, 348-370).
BuffersAccounted ==
    /\ \A b \in Buffers :
          LET holders == Cardinality({c \in Clients : b \in held[c]})
                           + (IF onI = b THEN 1 ELSE 0)
          IN  /\ refs[b] = holders
              /\ b \in allocated \ freeBufs <=>
                   (b \in ToSet(datagrams)) # (refs[b] > 0)
    /\ \A f \in Requests : sent[f] <= 1

\* Who holds the datagram in b: the assembler (as NULL) and clients.
HoldersOf(b) ==
    {c \in Clients : b \in held[c]} \cup {x \in {NULL} : onI = b}

Datagrams == INSTANCE AssemblerContract WITH
    packet    <- frag,
    holders   <- [D \in SUBSET Requests |->
                    UNION {HoldersOf(b) : b \in {a \in Buffers : buf[a].list = D}}],
    back      <- {f \in live : sent[f] > 0},
    Assembler <- NULL

\* The assembler keeps its promise (AssemblerContract): what clients get to see
\* is whole and does not change until the last of them has freed it, although
\* fragments of the same datagram go on coming, buffers are used again and
\* datagrams expire; and it goes back to ansfltr whole, once
\* (ansfw/reassembly.c:101-132, 155-200, 380-398, 498-532).  The gaps that
\* AssembledComplete names and the answer STATUS_PENDING break it.
AssemblesDatagrams == Datagrams!Spec

\* Every request is freed in the end, with its datagram that was shown or that
\* expired, or it is one of those that the code forgets for ever: its header has
\* options, it or a later fragment of its datagram reaches beyond the buffer, or
\* there was no buffer (ansfw/reassembly.c:92-132, 155-200, 268-296, 318-332,
\* 363-372, 404-421, 607).
FragmentsFreed == \A f \in Requests : f \in live ~> f \notin live \/ f \in lost
=============================================================================
