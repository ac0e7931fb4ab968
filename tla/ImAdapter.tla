----------------------------- MODULE ImAdapter -----------------------------
(***************************************************************************)
(* The life of adapters of the NDIS 5 intermediate driver (ansfltr/nt):    *)
(* NDIS binds the driver to a device below (PtBindAdapter), initializes    *)
(* the miniport on top of it now or later (MPInitialize), unbinds it       *)
(* (PtUnbindAdapter) or halts the miniport (MPHalt).  All adapters share   *)
(* one control device.                                                     *)
(*                                                                         *)
(* NDIS calls PtBindAdapter and PtUnbindAdapter of one binding one after   *)
(* the other, halts a miniport after its MPInitialize has returned, and    *)
(* does not unbind a binding that MPHalt is closing.  MPInitialize does    *)
(* not fail: NDIS offers NdisMedium802_3 to it, and the driver binds to    *)
(* that and to WAN, which it shows as the same.                            *)
(***************************************************************************)
EXTENDS FiniteSets, Naturals

CONSTANT Adapters       \* devices below, and the driver's ADAPT of each

ASSUME AdaptersAssumption == IsFiniteSet(Adapters)

Pools     == {"packets", "buffers"}
Resources == Pools \cup {"memory", "name", "binding"}

\* Where the thread that binds and unbinds is.
PnpPlaces == {"unbound", "open", "opening", "init", "undo", "undoing", "free",
              "bound", "unbind", "cancel", "waitInit", "remove", "waitHalt",
              "closing", "release", "away"}
\* Where the miniport's edge is.
MpPlaces  == {"none", "requested", "list", "register", "await", "create",
              "created", "flag", "signal", "up", "halt", "unlink",
              "deregister", "delete", "deleted", "close", "closing", "free"}

VARIABLES
    pnp, mp,
    owned,                  \* what an adapter owns; "memory" is its ADAPT,
                            \* "binding" its BindingHandle
    below,                  \* NDIS: the binding, and what is still to complete
    Event,                  \* ADAPT.Event
    Status,                 \* ADAPT.Status is NDIS_STATUS_SUCCESS
    MiniportInitPending,
    MiniportInitEvent,
    MiniportHandle,         \* is not NULL
    pAdaptList,             \* adapters on the driver's list ...
    open,                   \* ... and those the filter core was told of
    MiniportCount,
    ControlDeviceState,
    device,                 \* the control device: NdisDeviceHandle is not NULL
                            \* iff it is "there"
    astray,                 \* history: memory used after it was freed, or
                            \* something closed, freed or created twice
    cancelled               \* history: MPInitialize was cancelled

places  == <<pnp, mp>>
adapter == <<owned, below, Event, Status, MiniportInitPending,
             MiniportInitEvent, MiniportHandle>>
lists   == <<pAdaptList, open>>
control == <<MiniportCount, ControlDeviceState, device>>
history == <<astray, cancelled>>
vars    == <<places, adapter, lists, control, history>>

TypeOK ==
    /\ pnp \in [Adapters -> PnpPlaces] /\ mp \in [Adapters -> MpPlaces]
    /\ owned \in [Adapters -> SUBSET Resources]
    /\ below \in [Adapters -> {"none", "opening", "open", "closing"}]
    /\ Event \in [Adapters -> BOOLEAN] /\ Status \in [Adapters -> BOOLEAN]
    /\ MiniportInitPending \in [Adapters -> BOOLEAN]
    /\ MiniportInitEvent \in [Adapters -> BOOLEAN]
    /\ MiniportHandle \in [Adapters -> BOOLEAN]
    /\ pAdaptList \subseteq Adapters /\ open \subseteq Adapters
    /\ MiniportCount \in 0 .. Cardinality(Adapters)
    /\ ControlDeviceState \in {"READY", "CREATING", "DELETING"}
    /\ device \in {"none", "there", "refused"}
    /\ astray \in BOOLEAN /\ cancelled \subseteq Adapters

Init ==
    /\ pnp = [a \in Adapters |-> "unbound"] /\ mp = [a \in Adapters |-> "none"]
    /\ owned = [a \in Adapters |-> {}]
    /\ below = [a \in Adapters |-> "none"]
    /\ Event = [a \in Adapters |-> FALSE]
    /\ Status = [a \in Adapters |-> FALSE]
    /\ MiniportInitPending = [a \in Adapters |-> FALSE]
    /\ MiniportInitEvent = [a \in Adapters |-> FALSE]
    /\ MiniportHandle = [a \in Adapters |-> FALSE]
    /\ pAdaptList = {} /\ open = {}
    /\ MiniportCount = 0 /\ ControlDeviceState = "READY" /\ device = "none"
    /\ astray = FALSE /\ cancelled = {}

PnpGo(a, from, to) == pnp[a] = from /\ pnp' = [pnp EXCEPT ![a] = to]
MpGo(a, from, to)  == mp[a] = from /\ mp' = [mp EXCEPT ![a] = to]

Free(a, what) == owned' = [owned EXCEPT ![a] = @ \ what]

\* The adapter's memory is used, and what is freed or closed is still owned.
Uses(a, what) ==
    astray' = (astray \/ ~(what \cup {"memory"}) \subseteq owned[a])

-----------------------------------------------------------------------------
(* The device below opens and closes bindings, at once or later.           *)

NdisCloseAdapter(a) ==
    \/ below' = [below EXCEPT ![a] = "none"]
    \/ below' = [below EXCEPT ![a] = "closing"]

PtOpenAdapterComplete(a) ==
    /\ below[a] = "opening"
    /\ \E ok \in BOOLEAN :
        /\ below' = [below EXCEPT ![a] = IF ok THEN "open" ELSE "none"]
        /\ owned' = [owned EXCEPT ![a] = IF ok THEN @ \cup {"binding"} ELSE @]
        /\ Status' = [Status EXCEPT ![a] = ok]
    /\ Event' = [Event EXCEPT ![a] = TRUE]
    /\ Uses(a, {})
    /\ UNCHANGED <<places, MiniportInitPending, MiniportInitEvent,
                   MiniportHandle, lists, control, cancelled>>

PtCloseAdapterComplete(a) ==
    /\ below[a] = "closing"
    /\ below' = [below EXCEPT ![a] = "none"]
    /\ Status' = [Status EXCEPT ![a] = TRUE]
    /\ Event' = [Event EXCEPT ![a] = TRUE]
    /\ Uses(a, {})
    /\ UNCHANGED <<places, owned, MiniportInitPending, MiniportInitEvent,
                   MiniportHandle, lists, control, cancelled>>

-----------------------------------------------------------------------------
(* PtBindAdapter.                                                          *)

\* ADAPT and the pools.  A binding without ADAPT changes nothing; one that
\* lacks a pool is undone.
PtBindAdapter(a) ==
    /\ mp[a] = "none"
    /\ \E got \in {{}, {"packets"}, Pools \cup {"name"}} :
        /\ owned' = [owned EXCEPT ![a] = {"memory"} \cup got]
        /\ PnpGo(a, "unbound", IF Pools \subseteq got THEN "open" ELSE "undo")
    /\ Event' = [Event EXCEPT ![a] = FALSE]
    /\ Status' = [Status EXCEPT ![a] = FALSE]
    /\ MiniportInitPending' = [MiniportInitPending EXCEPT ![a] = FALSE]
    /\ MiniportInitEvent' = [MiniportInitEvent EXCEPT ![a] = FALSE]
    /\ MiniportHandle' = [MiniportHandle EXCEPT ![a] = FALSE]
    /\ cancelled' = cancelled \ {a}
    /\ UNCHANGED <<mp, below, pAdaptList, open, control, astray>>

NdisOpenAdapter(a) ==
    /\ \/ /\ PnpGo(a, "open", "init")
          /\ below' = [below EXCEPT ![a] = "open"]
          /\ owned' = [owned EXCEPT ![a] = @ \cup {"binding"}]
       \/ PnpGo(a, "open", "undo") /\ UNCHANGED <<below, owned>>
       \/ /\ PnpGo(a, "open", "opening")
          /\ below' = [below EXCEPT ![a] = "opening"]
          /\ UNCHANGED owned
    /\ UNCHANGED <<mp, Event, Status, MiniportInitPending, MiniportInitEvent,
                   MiniportHandle, lists, control, history>>

Opened(a) ==
    /\ Event[a]
    /\ PnpGo(a, "opening", IF Status[a] THEN "init" ELSE "undo")
    /\ UNCHANGED <<mp, adapter, lists, control, history>>

\* NDIS is asked to initialize the miniport, which it will do at any time
\* from now on, or refuses.
NdisIMInitializeDeviceInstanceEx(a) ==
    /\ MiniportInitPending' = [MiniportInitPending EXCEPT ![a] = TRUE]
    /\ MiniportInitEvent' = [MiniportInitEvent EXCEPT ![a] = FALSE]
    /\ \/ PnpGo(a, "init", "bound") /\ mp' = [mp EXCEPT ![a] = "requested"]
       \/ PnpGo(a, "init", "undo") /\ UNCHANGED mp
    /\ UNCHANGED <<owned, below, Event, Status, MiniportHandle, lists, control,
                   history>>

\* What a binding that failed has opened is closed, ...
UndoBinding(a) ==
    /\ IF "binding" \in owned[a]
       THEN /\ Event' = [Event EXCEPT ![a] = FALSE]
            /\ NdisCloseAdapter(a)
            /\ PnpGo(a, "undo", IF below'[a] = "closing" THEN "undoing"
                                ELSE "free")
            /\ Free(a, {"binding"})
       ELSE PnpGo(a, "undo", "free") /\ UNCHANGED <<below, Event, owned>>
    /\ UNCHANGED <<mp, Status, MiniportInitPending, MiniportInitEvent,
                   MiniportHandle, lists, control, history>>

Undone(a) ==
    /\ Event[a]
    /\ PnpGo(a, "undoing", "free")
    /\ UNCHANGED <<mp, adapter, lists, control, history>>

\* ... and what it has allocated is freed.
FreeAdapter(a) ==
    /\ PnpGo(a, "free", "unbound")
    /\ Uses(a, {})
    /\ Free(a, Resources)
    /\ UNCHANGED <<mp, below, Event, Status, MiniportInitPending,
                   MiniportInitEvent, MiniportHandle, lists, control, cancelled>>

-----------------------------------------------------------------------------
(* MPInitialize and PtRegisterDevice.                                      *)

MPInitialize(a) ==
    /\ MpGo(a, "requested", "list")
    /\ MiniportHandle' = [MiniportHandle EXCEPT ![a] = TRUE]
    /\ Uses(a, {})
    /\ UNCHANGED <<pnp, owned, below, Event, Status, MiniportInitPending,
                   MiniportInitEvent, lists, control, cancelled>>

ListAdapter(a) ==
    /\ MpGo(a, "list", "register")
    /\ pAdaptList' = pAdaptList \cup {a}
    /\ open' = open \cup {a}
    /\ UNCHANGED <<pnp, adapter, control, history>>

PtRegisterDevice(a) ==
    /\ MpGo(a, "register", IF MiniportCount = 0 THEN "await" ELSE "flag")
    /\ MiniportCount' = MiniportCount + 1
    /\ UNCHANGED <<pnp, adapter, lists, ControlDeviceState, device, history>>

\* Mutant: a deletion that is under way is not waited for.
AwaitNothing(a) ==
    /\ MpGo(a, "await", "create")
    /\ ControlDeviceState' = "CREATING"
    /\ UNCHANGED <<pnp, adapter, lists, MiniportCount, device, history>>

AwaitDeletion(a) ==
    /\ ControlDeviceState = "READY"
    /\ MpGo(a, "await", "create")
    /\ ControlDeviceState' = "CREATING"
    /\ UNCHANGED <<pnp, adapter, lists, MiniportCount, device, history>>

NdisMRegisterDevice(a) ==
    /\ MpGo(a, "create", "created")
    /\ device' \in {"there", "refused"}
    /\ astray' = (astray \/ device # "none")
    /\ UNCHANGED <<pnp, adapter, lists, MiniportCount, ControlDeviceState,
                   cancelled>>

DeviceReady(a) ==
    /\ MpGo(a, "created", "flag") \/ MpGo(a, "deleted", "close")
    /\ ControlDeviceState' = "READY"
    /\ UNCHANGED <<pnp, adapter, lists, MiniportCount, device, history>>

\* The end of MPInitialize: the flag and the event are two steps.
ClearInitPending(a) ==
    /\ MpGo(a, "flag", "signal")
    /\ MiniportInitPending' = [MiniportInitPending EXCEPT ![a] = FALSE]
    /\ Uses(a, {})
    /\ UNCHANGED <<pnp, owned, below, Event, Status, MiniportInitEvent,
                   MiniportHandle, lists, control, cancelled>>

\* Mutant: nobody is told.
SignalNothing(a) ==
    /\ MpGo(a, "signal", "up")
    /\ UNCHANGED <<pnp, adapter, lists, control, history>>

SignalInit(a) ==
    /\ MpGo(a, "signal", "up")
    /\ MiniportInitEvent' = [MiniportInitEvent EXCEPT ![a] = TRUE]
    /\ Uses(a, {})
    /\ UNCHANGED <<pnp, owned, below, Event, Status, MiniportInitPending,
                   MiniportHandle, lists, control, cancelled>>

-----------------------------------------------------------------------------
(* MPHalt and PtDeregisterDevice.                                          *)

\* NDIS halts a miniport on its own account.
Disable(a) ==
    /\ MpGo(a, "up", "halt")
    /\ PnpGo(a, "bound", "away")
    /\ UNCHANGED <<adapter, lists, control, history>>

\* The filter core forgets the adapter.
CloseAdapter(a) ==
    /\ MpGo(a, "halt", "unlink")
    /\ open' = open \ {a}
    /\ UNCHANGED <<pnp, adapter, pAdaptList, control, history>>

\* Mutant: the adapter stays on the list.
UnlinkNothing(a) ==
    /\ MpGo(a, "unlink", "deregister")
    /\ UNCHANGED <<pnp, adapter, lists, control, history>>

UnlinkAdapter(a) ==
    /\ MpGo(a, "unlink", "deregister")
    /\ pAdaptList' = pAdaptList \ {a}
    /\ UNCHANGED <<pnp, adapter, open, control, history>>

PtDeregisterDevice(a) ==
    /\ MpGo(a, "deregister", IF MiniportCount = 1 THEN "delete" ELSE "close")
    /\ MiniportCount' = MiniportCount - 1
    /\ ControlDeviceState' =
        IF MiniportCount = 1 THEN "DELETING" ELSE ControlDeviceState
    /\ UNCHANGED <<pnp, adapter, lists, device, history>>

NdisMDeregisterDevice(a) ==
    /\ MpGo(a, "delete", "deleted")
    /\ device' = "none"
    /\ UNCHANGED <<pnp, adapter, lists, MiniportCount, ControlDeviceState,
                   history>>

\* Mutant: the event of the opening is still set.
HaltBindingUnreset(a) ==
    /\ NdisCloseAdapter(a)
    /\ MpGo(a, "close", IF below'[a] = "closing" THEN "closing" ELSE "free")
    /\ Uses(a, {"binding"})
    /\ UNCHANGED <<pnp, owned, Event, Status, MiniportInitPending,
                   MiniportInitEvent, MiniportHandle, lists, control, cancelled>>

HaltBinding(a) ==
    /\ Event' = [Event EXCEPT ![a] = FALSE]
    /\ NdisCloseAdapter(a)
    /\ MpGo(a, "close", IF below'[a] = "closing" THEN "closing" ELSE "free")
    /\ Uses(a, {"binding"})
    /\ UNCHANGED <<pnp, owned, Status, MiniportInitPending, MiniportInitEvent,
                   MiniportHandle, lists, control, cancelled>>

HaltClosed(a) ==
    /\ Event[a]
    /\ MpGo(a, "closing", "free")
    /\ UNCHANGED <<pnp, adapter, lists, control, history>>

\* MPFreeAllPacketPools, the name and ADAPT itself.
HaltFree(a) ==
    /\ MpGo(a, "free", "none")
    /\ pnp' = [pnp EXCEPT ![a] = IF @ = "away" THEN "unbound" ELSE @]
    /\ Uses(a, {"binding"} \cup Pools)
    /\ Free(a, Resources)
    /\ UNCHANGED <<below, Event, Status, MiniportInitPending,
                   MiniportInitEvent, MiniportHandle, lists, control, cancelled>>

-----------------------------------------------------------------------------
(* PtUnbindAdapter; what it does to requests is in ImPower.                *)

PtUnbindAdapter(a) ==
    /\ PnpGo(a, "bound", "unbind")
    /\ UNCHANGED <<mp, adapter, lists, control, history>>

CheckInitPending(a) ==
    /\ PnpGo(a, "unbind", IF MiniportInitPending[a] THEN "cancel" ELSE "remove")
    /\ Uses(a, {})
    /\ UNCHANGED <<mp, adapter, lists, control, cancelled>>

\* An MPInitialize that NDIS has not called yet may be cancelled; one that is
\* about to be called, runs or has run cannot, and is waited for.
NdisIMCancelInitializeDeviceInstance(a) ==
    /\ \/ /\ mp[a] = "requested"
          /\ mp' = [mp EXCEPT ![a] = "none"]
          /\ PnpGo(a, "cancel", "remove")
          /\ MiniportInitPending' = [MiniportInitPending EXCEPT ![a] = FALSE]
          /\ cancelled' = cancelled \cup {a}
       \/ /\ PnpGo(a, "cancel", "waitInit")
          /\ UNCHANGED <<mp, MiniportInitPending, cancelled>>
    /\ UNCHANGED <<owned, below, Event, Status, MiniportInitEvent,
                   MiniportHandle, lists, control, astray>>

WaitInit(a) ==
    /\ MiniportInitEvent[a]
    /\ PnpGo(a, "waitInit", "remove")
    /\ UNCHANGED <<mp, adapter, lists, control, history>>

\* NDIS calls MPHalt when MPInitialize has returned.
NdisIMDeInitializeDeviceInstance(a) ==
    /\ MiniportHandle[a]
    /\ MpGo(a, "up", "halt")
    /\ PnpGo(a, "remove", "waitHalt")
    /\ UNCHANGED <<adapter, lists, control, history>>

Halted(a) ==
    /\ mp[a] = "none"
    /\ PnpGo(a, "waitHalt", "unbound")
    /\ UNCHANGED <<mp, adapter, lists, control, history>>

\* No miniport: the binding is closed, ...
UnbindBinding(a) ==
    /\ ~MiniportHandle[a]
    /\ Event' = [Event EXCEPT ![a] = FALSE]
    /\ NdisCloseAdapter(a)
    /\ PnpGo(a, "remove", IF below'[a] = "closing" THEN "closing"
                          ELSE "release")
    /\ Uses(a, {"binding"})
    /\ UNCHANGED <<mp, owned, Status, MiniportInitPending, MiniportInitEvent,
                   MiniportHandle, lists, control, cancelled>>

UnbindClosed(a) ==
    /\ Event[a]
    /\ PnpGo(a, "closing", "release")
    /\ UNCHANGED <<mp, adapter, lists, control, history>>

\* ... the name and ADAPT are freed; the pools are not.
ReleaseAdapter(a) ==
    /\ PnpGo(a, "release", "unbound")
    /\ Uses(a, {"binding"})
    /\ Free(a, {"binding", "name", "memory"})
    /\ UNCHANGED <<mp, below, Event, Status, MiniportInitPending,
                   MiniportInitEvent, MiniportHandle, lists, control, cancelled>>

-----------------------------------------------------------------------------
Binding(a) ==
    \/ NdisOpenAdapter(a) \/ Opened(a) \/ NdisIMInitializeDeviceInstanceEx(a)
    \/ UndoBinding(a) \/ Undone(a) \/ FreeAdapter(a)

Initializing(a) ==
    \/ MPInitialize(a) \/ ListAdapter(a) \/ PtRegisterDevice(a)
    \/ AwaitDeletion(a) \/ NdisMRegisterDevice(a) \/ DeviceReady(a)
    \/ ClearInitPending(a) \/ SignalInit(a)

Halting(a) ==
    \/ CloseAdapter(a) \/ UnlinkAdapter(a) \/ PtDeregisterDevice(a)
    \/ NdisMDeregisterDevice(a) \/ HaltBinding(a) \/ HaltClosed(a)
    \/ HaltFree(a)

Unbinding(a) ==
    \/ CheckInitPending(a) \/ NdisIMCancelInitializeDeviceInstance(a)
    \/ WaitInit(a) \/ NdisIMDeInitializeDeviceInstance(a) \/ Halted(a)
    \/ UnbindBinding(a) \/ UnbindClosed(a) \/ ReleaseAdapter(a)

Next == \E a \in Adapters :
    \/ PtBindAdapter(a) \/ Binding(a) \/ Initializing(a) \/ Halting(a)
    \/ Disable(a) \/ PtUnbindAdapter(a) \/ Unbinding(a)
    \/ PtOpenAdapterComplete(a) \/ PtCloseAdapterComplete(a)

Spec == Init /\ [][Next]_vars

\* The threads run on and the device below completes what it was asked for.
\* A miniport that NDIS refuses to cancel is initialized in the end.
Fairness == \A a \in Adapters :
    /\ WF_vars(Binding(a)) /\ WF_vars(Initializing(a)) /\ WF_vars(Halting(a))
    /\ WF_vars(Unbinding(a))
    /\ WF_vars(PtOpenAdapterComplete(a)) /\ WF_vars(PtCloseAdapterComplete(a))

FairSpec == Spec /\ Fairness

-----------------------------------------------------------------------------
(* Properties *)

\* PtBindAdapter, PtUnbindAdapter and MPHalt close the binding and free the
\* adapter "only once between the two functions" (ansfltr/nt/protocol.c:379),
\* none of them, nor a completion, touches it afterwards, and the control
\* device is never created twice (ansfltr/nt/ndisrd.c:302-338).
\* A binding that is gone has left nothing behind, but for the pools of one
\* whose initialization was cancelled (ansfltr/nt/protocol.c:303-320, 476-517,
\* ansfltr/nt/miniport.c:871-909).
ReleasedOnce ==
    /\ TypeOK
    /\ ~astray
    /\ \A a \in Adapters : pnp[a] = "unbound" =>
          /\ below[a] = "none"
          /\ owned[a] = IF a \in cancelled THEN Pools ELSE {}

\* No list names an adapter whose memory is gone (ansfltr/nt/miniport.c:136-143,
\* 843-859, 909).
NamedAdaptersLive == \A a \in pAdaptList \cup open : "memory" \in owned[a]

\* While no thread is creating or deleting it, there is a control device iff
\* there are miniports; one that NDIS refused is not tried again
\* (ansfltr/nt/ndisrd.c:298-349, 384-417).
DeviceExact ==
    (\A a \in Adapters : mp[a] \notin {"await", "create", "created", "delete",
                                       "deleted"})
    => /\ ControlDeviceState = "READY"
       /\ (device # "none") = (MiniportCount > 0)

\* Binding and unbinding come to an end, whatever the state of MPInitialize
\* and of the control device (ansfltr/nt/protocol.c:231-235, 426-454, 492-496,
\* ansfltr/nt/ndisrd.c:311-316).
UnbindReturns == \A a \in Adapters : pnp[a] = "unbind" ~> pnp[a] = "unbound"
=============================================================================
