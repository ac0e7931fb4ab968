---------------------------- MODULE WfpFirewall ----------------------------
(***************************************************************************)
(* ansfw.sys on Windows Vista: loading and unloading (ansfw/vista/init.c), *)
(* its callouts in the Windows Filtering Platform (ansfw/vista/wfp.c), the *)
(* table of connections they keep, and loopback packets.                   *)
(*                                                                         *)
(* Callouts are registered with the kernel's filter engine.  The filters   *)
(* that make it call them are added, in one transaction, by way of the     *)
(* base filtering engine (BFE), a service that can stop and start.  When   *)
(* it stops, the filters are gone, the callouts stay.                      *)
(*                                                                         *)
(* A loopback packet is absorbed, and a clone of it, which the clients let *)
(* pass, injected by way of the handle that registering gives (Loopback).  *)
(***************************************************************************)
EXTENDS Connections, Loopback

CONSTANTS
    Layers,     \* how many layers of WFP have a callout
    MaxStarts   \* bound: how often the BFE starts

ASSUME ConstantsAssumption ==
    /\ Layers \in Nat \ {0} /\ MaxStarts \in Nat \ {0}
    /\ NULL \notin {"driver", "bfe"}

VARIABLES
    drv,        \* where DriverEntry, or DriverUnload, is
    monitor,    \* whether RegisterIpMonitor's handlers are registered
    device,     \* g_pDeviceObject
    bfe,        \* whether the base filtering engine runs
    starts,     \* how often it has started
    subscribed, \* g_hChanges
    notice,     \* a start of the BFE is to be notified
    reg,        \* RegisterCallouts: who runs it, and how far it is
    callouts,   \* the layers whose callouts are registered
    filters,    \* whether the filters are there
    handles,    \* injection handles that exist
    gInj,       \* g_hInjectionTransportV4
    unlucky,    \* history: the last start was missed, or registering failed
    abandoned,  \* history: DriverEntry gave up because registering failed
    late        \* history: the BFE called back while callouts were removed

driver == <<drv, monitor, device, subscribed, abandoned>>
engine == <<bfe, starts, notice>>
wfp    == <<reg, callouts, filters, handles, gInj, unlucky, late>>
vars   == <<driver, engine, wfp, table, packet>>

NoReg == [by |-> NULL, step |-> 0, session |-> FALSE]

TypeOK ==
    /\ TableTypeOK /\ PacketTypeOK
    /\ drv \in {"new", "registering", "subscribing", "connecting", "in",
                "removing", "unregistering", "unsubscribing", "gone"}
    /\ {monitor, device, subscribed, abandoned, bfe, notice, filters, unlucky, late}
         \subseteq BOOLEAN
    /\ starts \in 0..MaxStarts
    /\ reg \in [by : {NULL, "driver", "bfe"}, step : 0..(Layers + 1),
                session : BOOLEAN]
    /\ callouts \subseteq 1..Layers
    /\ gInj \in 0..(MaxStarts + 1) /\ handles \subseteq 1..gInj
    /\ reg.by = "driver" <=> drv = "registering"

Init ==
    /\ TableInit /\ PacketInit
    /\ drv = "new" /\ monitor = FALSE /\ device = FALSE /\ subscribed = FALSE
    /\ bfe \in BOOLEAN /\ starts = (IF bfe THEN 1 ELSE 0) /\ notice = FALSE
    /\ reg = NoReg /\ callouts = {} /\ filters = FALSE
    /\ handles = {} /\ gInj = 0
    /\ unlucky = FALSE /\ abandoned = FALSE /\ late = FALSE

-----------------------------------------------------------------------------
(* Loading *)

\* DriverEntry and InitializeWfpFilter, up to the BFE's answer to whether it
\* runs.
DriverEntry ==
    /\ drv = "new"
    /\ monitor' = TRUE /\ device' = TRUE
    /\ IF bfe THEN drv' = "registering" /\ reg' = [NoReg EXCEPT !.by = "driver"]
              ELSE drv' = "subscribing" /\ UNCHANGED reg
    /\ UNCHANGED <<subscribed, abandoned, engine, callouts, filters, handles, gInj,
                   unlucky, late, table, packet>>

\* FwpmBfeStateSubscribeChanges0.  A start in between is not notified.  When it
\* fails, DriverEntry undoes what it did before.
SubscribeChanges ==
    /\ drv = "subscribing"
    /\ \/ /\ drv' = "connecting" /\ subscribed' = TRUE
          /\ UNCHANGED <<monitor, abandoned>>
       \/ /\ drv' = "gone" /\ monitor' = FALSE /\ abandoned' = TRUE
          /\ UNCHANGED subscribed
    /\ UNCHANGED <<device, engine, wfp, table, packet>>

\* RegisterFilterCallbacks.  When it fails, what was done is undone.
Connect ==
    /\ drv = "connecting"
    /\ \/ drv' = "in" /\ UNCHANGED monitor
       \/ drv' = "removing" /\ monitor' = FALSE
    /\ UNCHANGED <<device, subscribed, abandoned, engine, wfp, table, packet>>

-----------------------------------------------------------------------------
(* RegisterCallouts, in DriverEntry or in the BFE's notification *)

\* Mutant: the notification does nothing.
NotifiedIgnored ==
    /\ notice /\ reg.by = NULL
    /\ notice' = FALSE
    /\ UNCHANGED <<driver, bfe, starts, wfp, table, packet>>

\* BfeSubscribeWithoutDeviceCallback.
Notified ==
    /\ notice /\ reg.by = NULL
    /\ notice' = FALSE
    /\ reg' = [NoReg EXCEPT !.by = "bfe"]
    /\ late' = (late \/ drv \in {"removing", "unregistering", "unsubscribing"})
    /\ UNCHANGED <<driver, bfe, starts, callouts, filters, handles, gInj, unlucky,
                   table, packet>>

\* The injection handle, the session and the transaction.
RegisterBegin ==
    /\ reg.by # NULL /\ reg.step = 0 /\ bfe
    /\ reg' = [reg EXCEPT !.step = 1, !.session = TRUE]
    /\ gInj' = gInj + 1 /\ handles' = handles \cup {gInj'}
    /\ UNCHANGED <<driver, engine, callouts, filters, unlucky, late, table, packet>>

\* RegisterCalloutForLayer.  One that is registered already will do.
RegisterLayer ==
    /\ reg.step \in 1..Layers /\ reg.session
    /\ callouts' = callouts \cup {reg.step}
    /\ reg' = [reg EXCEPT !.step = @ + 1]
    /\ UNCHANGED <<driver, engine, filters, handles, gInj, unlucky, late, table, packet>>

RegisterCommit ==
    /\ reg.step = Layers + 1 /\ reg.session
    /\ filters' = TRUE
    /\ reg' = NoReg
    /\ drv' = IF reg.by = "driver" THEN "connecting" ELSE drv
    /\ UNCHANGED <<monitor, device, subscribed, abandoned, engine, callouts,
                   handles, gInj, unlucky, late, table, packet>>

\* Any call can fail.  The transaction is aborted, so that there is no filter, and
\* the injection handle destroyed, unless it is the commit that failed; the
\* callouts stay.  Before the transaction it is the creation of the handle that
\* failed, or the handle has replaced the one before and is gone.  DriverEntry
\* then undoes what it did before.
RegisterFails ==
    /\ reg.by # NULL
    /\ reg' = NoReg
    /\ gInj' \in {gInj} \cup {n \in {gInj + 1} : reg.step = 0}
    /\ handles' = IF reg.step \in 1..Layers THEN handles \ {gInj} ELSE handles
    /\ unlucky' = TRUE
    /\ IF reg.by = "driver"
       THEN drv' = "gone" /\ monitor' = FALSE /\ abandoned' = TRUE
       ELSE UNCHANGED <<drv, monitor, abandoned>>
    /\ UNCHANGED <<device, subscribed, engine, callouts, filters, late, table,
                   packet>>

-----------------------------------------------------------------------------
(* Unloading, or undoing: UninitializeWfpFilter and UninitializeConnections *)

DriverUnload ==
    /\ drv = "in" /\ drv' = "removing"
    /\ monitor' = FALSE
    /\ UNCHANGED <<device, subscribed, abandoned, engine, wfp, table, packet>>

\* Mutant: the filters stay.
RemoveNothing ==
    /\ drv = "removing" /\ drv' = "unregistering"
    /\ late' = (late \/ reg.by # NULL)
    /\ UNCHANGED <<monitor, device, subscribed, abandoned, engine, reg, callouts,
                   filters, handles, gInj, unlucky, table, packet>>

\* The half of UnregisterCallouts that needs the BFE: without it there are no
\* filters.
RemoveFilters ==
    /\ drv = "removing" /\ drv' = "unregistering"
    /\ filters' = FALSE
    /\ late' = (late \/ reg.by # NULL)
    /\ UNCHANGED <<monitor, device, subscribed, abandoned, engine, reg, callouts,
                   handles, gInj, unlucky, table, packet>>

\* The half that needs the kernel's engine, which waits for callouts that run.
\* Contexts of flows are dropped with the callout.
UnregisterCallouts ==
    /\ drv = "unregistering" /\ drv' = "unsubscribing"
    /\ at[Callout] = "idle"
    /\ \A f \in Flows : flow[f].state # "establishing"
    /\ callouts' = {} /\ handles' = handles \ {gInj}
    /\ flow' = [f \in Flows |-> NoFlow]
    /\ UNCHANGED <<monitor, device, subscribed, abandoned, engine, reg, filters, gInj,
                   unlucky, late, conns, entry, socket, starved, captured, packet>>

\* Mutant: the subscription is left.
UnsubscribeNothing ==
    /\ drv = "unsubscribing" /\ drv' = "gone"
    /\ reg.by = NULL
    /\ device' = FALSE
    /\ conns' = <<>> /\ flow' = [f \in Flows |-> NoFlow]
    /\ UNCHANGED <<monitor, subscribed, abandoned, engine, wfp, entry, socket,
                   starved, captured, packet>>

\* FwpmBfeStateUnsubscribeChanges0 waits for a notification that runs.
Unsubscribe ==
    /\ drv = "unsubscribing" /\ drv' = "gone"
    /\ reg.by = NULL
    /\ subscribed' = FALSE /\ notice' = FALSE
    /\ device' = FALSE
    /\ conns' = <<>> /\ flow' = [f \in Flows |-> NoFlow]
    /\ UNCHANGED <<monitor, abandoned, bfe, starts, wfp, entry, socket, starved,
                   captured, packet>>

-----------------------------------------------------------------------------
(* The BFE *)

BfeStart ==
    /\ ~bfe /\ starts < MaxStarts
    /\ bfe' = TRUE /\ starts' = starts + 1
    /\ notice' = subscribed /\ unlucky' = ~subscribed
    /\ UNCHANGED <<driver, reg, callouts, filters, handles, gInj, late, table, packet>>

\* Its sessions end, and what they added is gone.
BfeStop ==
    /\ bfe /\ bfe' = FALSE
    /\ filters' = FALSE
    /\ reg' = [reg EXCEPT !.session = FALSE]
    /\ notice' = FALSE
    /\ UNCHANGED <<driver, starts, callouts, handles, gInj, unlucky, late, table, packet>>

-----------------------------------------------------------------------------
(* Connections: WFP calls out as long as there are filters, and tells of the *)
(* end of flows as long as there are callouts.                             *)

\* No more connections are made once a flow has another one's, or a connection was
\* not remembered.
Classify ==
    /\ filters /\ ~starved /\ ~captured
    /\ \/ \E p \in Processes, a \in {AnyAddr, Here} : AleResourceAssignmentV4Classify(p, a)
       \/ \E f \in Flows, r \in Remotes : AleAuthConnectV4Classify(f, r)
       \/ \E f \in Flows : FlowEstablished(f)

FlowEvent ==
    \/ \E f \in Flows : FlowAssociate(f) \/ FlowEnds(f)
                          \/ AleFlowEstablishedV4Delete(f)
    \/ SocketClose

Connection ==
    /\ Classify \/ FlowEvent
    /\ UNCHANGED <<driver, engine, wfp, packet>>

-----------------------------------------------------------------------------
(* Loopback packets and the clients that see them *)

LoopbackPacket ==
    /\ \/ filters /\ OutboundTransportV4Classify
       \/ PacketNext(gInj \in handles)
    /\ UNCHANGED <<driver, engine, wfp, table>>

-----------------------------------------------------------------------------
Register == RegisterBegin \/ RegisterLayer \/ RegisterCommit \/ RegisterFails

Loading == DriverEntry \/ SubscribeChanges \/ Connect

Unloading == DriverUnload \/ RemoveFilters \/ UnregisterCallouts \/ Unsubscribe

\* An unloaded driver is not loaded again.
Gone == drv = "gone" /\ UNCHANGED vars

Next ==
    \/ /\ drv # "gone"
       /\ \/ Loading \/ Notified \/ Register \/ Unloading
          \/ BfeStart \/ BfeStop
          \/ Connection \/ LoopbackPacket
    \/ Gone

Spec == Init /\ [][Next]_vars

-----------------------------------------------------------------------------
(* Properties *)

\* A driver that is gone has left nothing behind that would call it, unless it
\* gave up in the middle of registering, or the BFE called back between
\* the removal of its filters and the end of its subscription (init.c:57-98,
\* wfp.c:503-514).
NothingLeft ==
    drv = "gone" /\ ~abandoned /\ ~late =>
        ~monitor /\ ~device /\ ~subscribed /\ ~notice
          /\ callouts = {} /\ ~filters /\ reg = NoReg

\* As long as a filter is there, so are the callouts it names, and the injection
\* handle they use, or a packet would be blocked or lost.  Only registering that
\* fails while the filters are there already loses the handle: the BFE
\* started twice before it was told of (wfp.c:254-409, 520-552).
FiltersBacked ==
    /\ TypeOK
    /\ filters /\ ~late => callouts = 1..Layers /\ (gInj \in handles \/ unlucky)

\* When the BFE runs there are filters, or they are about to be, unless its start
\* was missed or registering failed: no start is forgotten (wfp.c:222-246).
StartRemembered ==
    drv = "in" /\ bfe => filters \/ notice \/ reg.by = "bfe" \/ unlucky
=============================================================================
