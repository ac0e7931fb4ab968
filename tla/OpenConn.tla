------------------------------ MODULE OpenConn ------------------------------
(***************************************************************************)
(* The table of open addresses and connections that ansfw.sys keeps on     *)
(* Windows XP (ansfw/nt/openConn.c, ansfw/nt/anshlp.c).  Each address and  *)
(* each connection opened through the transport's devices has a            *)
(* TDI_OPEN_CONN on a list: g_OpenAddrList for addresses, g_TcpAddrList    *)
(* for connections.  A completion routine that runs at DISPATCH_LEVEL      *)
(* cannot ask the transport for the local port: it withholds its IRP and   *)
(* puts the object on g_PendingAddrList for addrThread.                    *)
(*                                                                         *)
(* While an operation is under way the object is on no list: its holder    *)
(* has it in hand.  The I/O manager keeps a file open while an IRP of its  *)
(* own is outstanding; it does not know that an IRP of a connection uses   *)
(* the object of an address.                                               *)
(*                                                                         *)
(* Ports, addresses and process IDs are left out.  Each step of a lock's   *)
(* critical section is one action.  Each file has one IRP outstanding at a *)
(* time.                                                                   *)
(***************************************************************************)
EXTENDS FiniteSets, Naturals, Lists

CONSTANTS
    Addresses,  \* file objects of addresses
    IpFiles,    \* file objects of the IP device
    Conns,      \* file objects of connections
    Objs,       \* the memory of TDI_OPEN_CONNs
    NULL

ASSUME ConstantsAssumption ==
    /\ Addresses \cap Conns = {} /\ IpFiles \cap (Addresses \cup Conns) = {}
    /\ NULL \notin Objs \cup Addresses \cup IpFiles \cup Conns

Files == Addresses \cup IpFiles \cup Conns

VARIABLES
    at,         \* where a file's IRP is
    ctx,        \* the object that IRP has in hand
    assoc,      \* the address a connection is associated with
    obj,        \* the fields of an object
    free,       \* objects not allocated, or on g_FreeAddrList
    openList,   \* g_OpenAddrList
    tcpList,    \* g_TcpAddrList
    pendList,   \* g_PendingAddrList
    event,      \* g_AddrThreadEvent
    pc, hand,   \* addrThread, the object it has in hand, and ...
    next,       \* ... the one behind it when it was taken
    early,      \* history: a close missed its object, or one with an IRP
    shared,     \* history: an address was given a second connection
                \* before a close missed its object
    crossed     \* history: an object was taken off a list it was not on

lists  == <<openList, tcpList, pendList>>
thread == <<event, pc, hand, next>>
past   == <<early, shared, crossed>>
vars   == <<at, ctx, assoc, obj, free, lists, thread, past>>

\* An object of file f, and the object of none.
New(f) == [file |-> f, addr |-> NULL, tcp |-> NULL, irp |-> NULL]
Null   == New(NULL)

Places == {"closed", "open", "opening", "setting", "below", "taken",
           "associating", "withheld", "closing", "closingPending"}

\* An IRP that changes an address object has it in hand.
TypeOK ==
    /\ at \in [Files -> Places]
    /\ ctx \in [Files -> Objs \cup {NULL}]
    /\ assoc \in [Conns -> Addresses \cup {NULL}]
    /\ obj \in [Objs -> [file : Files \cup {NULL},      \* m_pFileObject
                         addr : Objs \cup {NULL},       \* m_pAddrObj
                         tcp  : Objs \cup {NULL},       \* m_pTcpObj
                         irp  : Files \cup {NULL}]]     \* m_pIrp
    /\ free \subseteq Objs
    /\ ToSet(openList) \cup ToSet(tcpList) \cup ToSet(pendList) \subseteq Objs
    /\ event \in BOOLEAN /\ pc \in {"wait", "scan", "answer", "place"}
    /\ hand \in Objs \cup {NULL} /\ next \in Objs \cup {NULL}
    /\ {early, shared, crossed} \subseteq BOOLEAN
    /\ \A f \in Files : at[f] \in {"setting", "taken"} => ctx[f] # NULL
    /\ hand # NULL <=> pc \in {"answer", "place"}

Init ==
    /\ at = [f \in Files |-> "closed"]
    /\ ctx = [f \in Files |-> NULL]
    /\ assoc = [k \in Conns |-> NULL]
    /\ obj = [o \in Objs |-> Null] /\ free = Objs
    /\ openList = <<>> /\ tcpList = <<>> /\ pendList = <<>>
    /\ event = FALSE /\ pc = "wait" /\ hand = NULL /\ next = NULL
    /\ early = FALSE /\ shared = FALSE /\ crossed = FALSE

-----------------------------------------------------------------------------
(* Helpers *)

Go(f, from, to) == at[f] = from /\ at' = [at EXCEPT ![f] = to]

\* The first object of a list that names file f, or NULL.
\* tdiGetConnObjectFromFileObject, tdiGetPendingConnObjectFromFileObject, and
\* tdiGetTcpObjectFromFileObject.
Lookup(list, f) == FirstIn(list, {o \in Objs : obj[o].file = f}, NULL)

\* The address object that an operation on file f is about.
AddrObject(f) ==
    LET t == Lookup(tcpList, f)
    IN  IF t # NULL /\ obj[t].addr # NULL THEN obj[t].addr
                                          ELSE Lookup(openList, f)

\* tdiAllocOpenConn; there may be no memory.  Which object it is makes no
\* difference.
tdiAllocOpenConn(f, o) ==
    \/ o = NULL /\ UNCHANGED <<obj, free>>
    \/ /\ free # {} /\ o = CHOOSE p \in free : TRUE
       /\ free' = free \ {o}
       /\ obj' = [obj EXCEPT ![o] = New(f)]

\* tdiRecycleOpenConn, with the fields of new objects, which tdiAllocOpenConn
\* zeroes when it gives object o out again.
Recycle(o, fields) ==
    /\ free' = free \cup ({o} \ {NULL})
    /\ obj' = IF o = NULL THEN fields ELSE [fields EXCEPT ![o] = Null]

\* A completion routine at DISPATCH_LEVEL leaves object o, and the IRP of file
\* f, to addrThread.  Mutant: without waking it.
WithholdQuietly(f, o) ==
    /\ obj' = [obj EXCEPT ![o].irp = f]
    /\ pendList' = Append(pendList, o)
    /\ UNCHANGED event

Withhold(f, o) ==
    /\ obj' = [obj EXCEPT ![o].irp = f]
    /\ pendList' = Append(pendList, o)
    /\ event' = TRUE

-----------------------------------------------------------------------------
(* Addresses *)

TDIH_TdiOpenAddress(f) ==
    /\ Go(f, "closed", "opening")
    /\ \E o \in Objs \cup {NULL} :
        tdiAllocOpenConn(f, o) /\ ctx' = [ctx EXCEPT ![f] = o]
    /\ UNCHANGED <<assoc, lists, thread, past>>

\* Mutant: the object is not recycled.
OpenAddressFailsQuietly(f) ==
    /\ Go(f, "opening", "closed")
    /\ ctx' = [ctx EXCEPT ![f] = NULL]
    /\ UNCHANGED <<assoc, obj, free, lists, thread, past>>

\* TDIH_TdiOpenAddressComplete and TDIH_TdiOpenConnectionComplete, when the
\* transport did not open the file.
OpenFails(f) ==
    /\ Go(f, "opening", "closed")
    /\ Recycle(ctx[f], obj)
    /\ ctx' = [ctx EXCEPT ![f] = NULL]
    /\ UNCHANGED <<assoc, lists, thread, past>>

\* Where a completion routine is about to put an address on a list.
Finishing(f) == {"setting", "taken"} \cup (IF f \in Conns THEN {} ELSE {"opening"})

\* An object in hand goes on the list, once the port is known: at
\* PASSIVE_LEVEL now, at DISPATCH_LEVEL when addrThread comes to it.
\* TDIH_TdiOpenAddressComplete, TDIH_TdiSetEventComplete, and the second halves
\* of TDIH_TdiConnectComplete2 and TDIH_TdiListenComplete.
PassiveComplete(f) ==
    /\ at[f] \in Finishing(f)
    /\ at' = [at EXCEPT ![f] = "open"]
    /\ openList' = IF ctx[f] = NULL THEN openList ELSE Append(openList, ctx[f])
    /\ ctx' = [ctx EXCEPT ![f] = NULL]
    /\ UNCHANGED <<assoc, obj, free, tcpList, pendList, thread, past>>

DispatchComplete(f) ==
    /\ at[f] \in Finishing(f)
    /\ ctx[f] # NULL
    /\ at' = [at EXCEPT ![f] = "withheld"]
    /\ Withhold(f, ctx[f])
    /\ ctx' = [ctx EXCEPT ![f] = NULL]
    /\ UNCHANGED <<assoc, free, openList, tcpList, pc, hand, next, past>>

\* Only a handler for TDI_EVENT_CONNECT matters, on an address that is known.
\* The object is taken off the list until the transport has set the handler.
TDIH_TdiSetEvent(f) ==
    LET o == Lookup(openList, f) IN
    /\ o # NULL
    /\ Go(f, "open", "setting")
    /\ openList' = Unlink(openList, o)
    /\ ctx' = [ctx EXCEPT ![f] = o]
    /\ UNCHANGED <<assoc, obj, free, tcpList, pendList, thread, past>>

\* TDIH_IpDispatch: the first request of a file of the IP device, which is
\* opened unseen, makes it known.
TDIH_IpDispatch(f) ==
    /\ at[f] \in {"closed", "open"} /\ at' = [at EXCEPT ![f] = "open"]
    /\ Lookup(openList, f) = NULL
    /\ \E o \in Objs \cup {NULL} :
        /\ tdiAllocOpenConn(f, o)
        /\ openList' = IF o = NULL THEN openList ELSE Append(openList, o)
    /\ UNCHANGED <<ctx, assoc, tcpList, pendList, thread, past>>

\* No other operation uses the object of an IP file, so that its close is one
\* step.
CloseIpFile(f) ==
    LET o == Lookup(openList, f) IN
    /\ Go(f, "open", "closed")
    /\ openList' = Unlink(openList, o)
    /\ Recycle(o, obj)
    /\ UNCHANGED <<ctx, assoc, tcpList, pendList, thread, past>>

TDIH_TdiCloseAddress(f) ==
    /\ Go(f, "open", "closing")
    /\ UNCHANGED <<ctx, assoc, obj, free, lists, thread, past>>

\* Its connections can be associated again when the address is closed.
Dissociate(f) ==
    assoc' = [k \in Conns |-> IF assoc[k] = f THEN NULL ELSE assoc[k]]

\* Mutant: the connection goes on naming the address.
KeepLinked(o) == obj

\* A closed address is no longer its connection's.
Unlinked(o) ==
    IF obj[o].tcp = NULL THEN obj ELSE [obj EXCEPT ![obj[o].tcp].addr = NULL]

\* Mutant: the object stays on the list.
CloseListed(f) ==
    /\ IF Lookup(openList, f) = NULL
       THEN Go(f, "closing", "closingPending") /\ UNCHANGED assoc
       ELSE Go(f, "closing", "closed") /\ Dissociate(f)
    /\ UNCHANGED <<ctx, obj, free, lists, thread, past>>

\* TDIH_TdiCloseAddressComplete looks through the open addresses, ...
CloseOpen(f) ==
    LET o == Lookup(openList, f) IN
    /\ IF o = NULL
       THEN /\ Go(f, "closing", "closingPending")
            /\ UNCHANGED <<assoc, obj, free, openList>>
       ELSE /\ Go(f, "closing", "closed") /\ Dissociate(f)
            /\ openList' = Unlink(openList, o)
            /\ Recycle(o, Unlinked(o))
    /\ UNCHANGED <<ctx, tcpList, pendList, thread, past>>

\* ... and, when it is not among them, through the pending ones.  An IRP that
\* such an object withholds is forgotten.
ClosePending(f) ==
    LET o     == Lookup(pendList, f)
        known == {p \in Objs \ free : obj[p].file = f}
    IN
    /\ Go(f, "closingPending", "closed") /\ Dissociate(f)
    /\ IF o = NULL
       THEN /\ early' = (early \/ known # {})
            /\ UNCHANGED <<obj, free, pendList>>
       ELSE /\ pendList' = Unlink(pendList, o)
            /\ Recycle(o, Unlinked(o))
            /\ early' = TRUE
    /\ UNCHANGED <<ctx, openList, tcpList, thread, shared, crossed>>

-----------------------------------------------------------------------------
(* Connections *)

\* TDIH_TdiOpenConnection, up to TDIH_TdiOpenConnectionComplete.
TDIH_TdiOpenConnection(k) ==
    /\ Go(k, "closed", "opening")
    /\ \E o \in Objs \cup {NULL} :
        tdiAllocOpenConn(k, o) /\ ctx' = [ctx EXCEPT ![k] = o]
    /\ UNCHANGED <<assoc, lists, thread, past>>

OpenConnectionComplete(k) ==
    /\ Go(k, "opening", "open")
    /\ tcpList' = IF ctx[k] = NULL THEN tcpList ELSE Append(tcpList, ctx[k])
    /\ ctx' = [ctx EXCEPT ![k] = NULL]
    /\ UNCHANGED <<assoc, obj, free, openList, pendList, thread, past>>

\* TDIH_TdiCloseConnectionComplete.
TDIH_TdiCloseConnection(k) ==
    LET t == Lookup(tcpList, k) IN
    /\ Go(k, "open", "closed")
    /\ assoc' = [assoc EXCEPT ![k] = NULL]
    /\ tcpList' = Unlink(tcpList, t)
    /\ Recycle(t, IF t = NULL \/ obj[t].addr = NULL THEN obj
                  ELSE [obj EXCEPT ![obj[t].addr].tcp = NULL])
    /\ UNCHANGED <<ctx, openList, pendList, thread, past>>

\* TDIH_TdiAssociateAddress takes the address off the list until the transport
\* is done.
TDIH_TdiAssociateAddress(k, f) ==
    LET o == Lookup(openList, f) IN
    /\ at[f] # "closed" /\ Go(k, "open", "associating")
    /\ openList' = Unlink(openList, o)
    /\ ctx' = [ctx EXCEPT ![k] = o]
    /\ UNCHANGED <<assoc, obj, free, tcpList, pendList, thread, past>>

\* TDIH_TdiAssociateAddressComplete.  The transport associates a connection with
\* one address at a time.
AssociateComplete(k) ==
    LET o == ctx[k]
        t == Lookup(tcpList, k)
    IN
    /\ Go(k, "associating", "open")
    /\ openList' = IF o = NULL THEN openList ELSE Append(openList, o)
    /\ \/ UNCHANGED <<assoc, obj, shared>>
       \/ \E f \in Addresses :
            /\ assoc[k] = NULL /\ assoc' = [assoc EXCEPT ![k] = f]
            /\ o # NULL => obj[o].file = f
            /\ IF o = NULL \/ t = NULL THEN UNCHANGED <<obj, shared>>
               ELSE /\ obj' = [obj EXCEPT ![t].addr = o, ![o].tcp = t]
                    /\ shared' = (shared \/ (obj[o].tcp # NULL /\ ~early))
    /\ ctx' = [ctx EXCEPT ![k] = NULL]
    /\ UNCHANGED <<free, tcpList, pendList, thread, early, crossed>>

\* TDIH_TdiDisAssociateAddressComplete.
TDIH_TdiDisAssociateAddress(k) ==
    LET t == Lookup(tcpList, k) IN
    /\ at[k] = "open" /\ assoc[k] # NULL
    /\ assoc' = [assoc EXCEPT ![k] = NULL]
    /\ obj' = [o \in Objs |->
                 IF o = t THEN [obj[o] EXCEPT !.addr = NULL]
                 ELSE IF t # NULL /\ o = obj[t].addr
                 THEN [obj[o] EXCEPT !.tcp = NULL] ELSE obj[o]]
    /\ UNCHANGED <<at, ctx, free, lists, thread, past>>

-----------------------------------------------------------------------------
(* TDIH_TdiConnect and TDIH_TdiListen, on a connection or on an address.  A   *)
(* connection to another machine changes nothing here.                     *)

Start(f) ==
    /\ Go(f, "open", "below")
    /\ UNCHANGED <<ctx, assoc, obj, free, lists, thread, past>>

\* It failed, or there is no object.
Nothing(f) ==
    /\ Go(f, "below", "open")
    /\ UNCHANGED <<ctx, assoc, obj, free, lists, thread, past>>

\* The first halves of TDIH_TdiConnectComplete2 and TDIH_TdiListenComplete take
\* the address off the list.  The object that a connection names may be on no
\* list, or on the pending one, because an operation of the address has it:
\* RemoveEntryList then breaks what its links name.
Take(f) ==
    LET o == AddrObject(f) IN
    /\ o # NULL
    /\ Go(f, "below", "taken")
    /\ ctx' = [ctx EXCEPT ![f] = o]
    /\ openList' = Unlink(openList, o)
    /\ crossed' = (o \notin ToSet(openList))
    /\ UNCHANGED <<assoc, obj, free, tcpList, pendList, thread, early, shared>>

-----------------------------------------------------------------------------
(* addrThread *)

AddrWait ==
    /\ pc = "wait" /\ event
    /\ event' = FALSE /\ pc' = "scan"
    /\ UNCHANGED <<at, ctx, assoc, obj, free, lists, hand, next, past>>

\* The first pending object, as long as there is one.
AddrScan ==
    /\ pc = "scan"
    /\ IF pendList = <<>>
       THEN pc' = "wait" /\ UNCHANGED <<pendList, hand, next>>
       ELSE /\ pc' = "answer" /\ hand' = Head(pendList)
            /\ pendList' = Tail(pendList)
            /\ next' = IF Len(pendList) > 1 THEN pendList[2] ELSE NULL
    /\ UNCHANGED <<at, ctx, assoc, obj, free, openList, tcpList, event, past>>

\* getLocalInfo, and IoCompleteRequest for the IRP withheld.
AddrAnswer ==
    /\ pc = "answer" /\ pc' = "place"
    /\ at' = [at EXCEPT ![obj[hand].irp] = "open"]
    /\ obj' = [obj EXCEPT ![hand].irp = NULL]
    /\ UNCHANGED <<ctx, assoc, free, lists, event, hand, next, past>>

\* The object goes on the list, unless there is one for its file: then it is
\* recycled, after RemoveEntryList, which rewrites the head of the pending list
\* as it was when the object was taken.
AddrPlace ==
    LET known == AddrObject(obj[hand].file)
        first == IF pendList = <<>> THEN NULL ELSE Head(pendList)
    IN
    /\ pc = "place" /\ pc' = "scan" /\ hand' = NULL /\ next' = NULL
    /\ IF known = NULL
       THEN openList' = Append(openList, hand) /\ UNCHANGED <<free, obj, crossed>>
       ELSE /\ Recycle(hand, obj)
            /\ crossed' = (first # next)
            /\ UNCHANGED openList
    /\ UNCHANGED <<at, ctx, assoc, tcpList, pendList, event, early,
                   shared>>

-----------------------------------------------------------------------------
AddrThread == AddrWait \/ AddrScan \/ AddrAnswer \/ AddrPlace

Complete(f) ==
    OpenFails(f) \/ PassiveComplete(f) \/ DispatchComplete(f)

Address(f) ==
    \/ TDIH_TdiOpenAddress(f) \/ TDIH_TdiSetEvent(f) \/ Complete(f)
    \/ TDIH_TdiCloseAddress(f) \/ CloseOpen(f) \/ ClosePending(f)

Connection(k) ==
    \/ TDIH_TdiOpenConnection(k) \/ OpenConnectionComplete(k) \/ Complete(k)
    \/ TDIH_TdiCloseConnection(k) \/ AssociateComplete(k)
    \/ TDIH_TdiDisAssociateAddress(k)
    \/ \E f \in Addresses : TDIH_TdiAssociateAddress(k, f)

\* What follows once a list's links are broken is not modelled.
Broken == crossed /\ UNCHANGED vars

Next ==
    \/ /\ ~crossed
       /\ \/ \E f \in Addresses : Address(f)
          \/ \E f \in IpFiles : TDIH_IpDispatch(f) \/ CloseIpFile(f)
          \/ \E k \in Conns : Connection(k)
          \/ \E f \in Addresses \cup Conns : Start(f) \/ Nothing(f) \/ Take(f)
          \/ AddrThread
    \/ Broken

Spec == Init /\ [][Next]_vars

\* addrThread is a thread of the system: it runs on.
FairSpec == Spec /\ WF_vars(~crossed /\ AddrThread)

-----------------------------------------------------------------------------
(* Properties *)

\* Every object is in one place: free, on one list, in the hand of one IRP, or
\* in addrThread's, whatever the order of completions and closes
\* (ansfw/nt/openConn.c:484-538, 744-800, 1138-1158).
ObjectsAccounted ==
    /\ TypeOK
    /\ ~crossed => \A o \in Objs :
          LET in(list) == Cardinality({i \in DOMAIN list : list[i] = o})
          IN  in(openList) + in(tcpList) + in(pendList)
                + Cardinality({f \in Files : ctx[f] = o})
                + (IF hand = o THEN 1 ELSE 0) + (IF o \in free THEN 1 ELSE 0) = 1

\* An object is there as long as its file is open and no longer, and is the
\* only one of its file, unless a close came while another IRP or addrThread
\* had it, or a connection may name an object that is gone
\* (ansfw/nt/openConn.c:744-800).
ClosedForgotten == ~crossed /\ ~early /\ ~shared =>
    \A o \in Objs \ free :
        /\ at[obj[o].file] # "closed"
        /\ \A p \in Objs \ free : obj[p].file = obj[o].file => p = o

\* A connection and its address name each other, and neither names an object
\* that was recycled, unless two connections shared an address: it names the
\* second one only (ansfw/nt/openConn.c:760-764, 1024-1029, 1142-1147,
\* 1284-1300).
LinksMutual == ~crossed /\ ~early /\ ~shared =>
    \A o \in Objs \ free :
        /\ obj[o].addr # NULL => obj[o].addr \notin free /\ obj[obj[o].addr].tcp = o
        /\ obj[o].tcp # NULL  => obj[o].tcp \notin free /\ obj[obj[o].tcp].addr = o

\* An IRP that was withheld is completed, unless its object was closed meanwhile
\* or a list is broken (ansfw/nt/openConn.c:489-499, 603-612).
WithheldAnswered ==
    \A f \in Files : at[f] = "withheld" ~> at[f] # "withheld" \/ early \/ crossed
=============================================================================
