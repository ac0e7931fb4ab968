-------------------------- MODULE ImAdapterProofs --------------------------
(***************************************************************************)
(* Proofs about ImAdapter, for any number of adapters.  What makes its     *)
(* properties inductive: where the two threads of an adapter can be at     *)
(* once, what the adapter owns there, and which of the threads of all      *)
(* adapters have the control device in hand.                               *)
(***************************************************************************)
EXTENDS ImAdapter, FiniteSetTheorems, TLAPS

\* MPInitialize is still to come or runs; MPHalt runs.
Coming == {"requested", "list", "register", "await", "create", "created", "flag"}
Going  == {"halt", "unlink", "deregister", "delete", "deleted", "close",
           "closing", "free"}

\* The thread that binds and unbinds, and the miniport.
PlaceInv == \A a \in Adapters :
    /\ pnp[a] \in {"bound", "unbind", "cancel", "waitInit"} =>
         mp[a] \in Coming \cup {"signal", "up"}
    /\ pnp[a] = "remove" => IF MiniportHandle[a] THEN mp[a] \in {"signal", "up"}
                                                 ELSE mp[a] = "none"
    /\ pnp[a] = "away" => mp[a] \in Going
    /\ pnp[a] = "waitHalt" => mp[a] \in Going \cup {"none"}
    /\ pnp[a] \in {"unbound", "open", "opening", "init", "undo", "undoing",
                   "free", "closing", "release"} => mp[a] = "none"

\* The flags that tell one of them where the other is.
FlagInv == \A a \in Adapters :
    /\ mp[a] \notin {"none", "requested"} => MiniportHandle[a]
    /\ pnp[a] \in {"open", "opening", "init", "bound", "unbind", "cancel", "waitInit"}
         /\ mp[a] \in {"none", "requested"} => ~MiniportHandle[a]
    /\ pnp[a] \in {"bound", "unbind"} /\ mp[a] \in Coming => MiniportInitPending[a]
    /\ pnp[a] \in {"bound", "unbind", "cancel", "waitInit"} /\ MiniportInitEvent[a] =>
         mp[a] = "up"
    /\ a \in cancelled <=> \/ pnp[a] = "remove" /\ ~MiniportHandle[a]
                           \/ pnp[a] \in {"closing", "release"}
                           \/ pnp[a] = "unbound" /\ owned[a] = Pools

\* A binding that is opened, and one that is closed.
Opening(a) == /\ "binding" \notin owned[a]
              /\ below[a] = IF Event[a] THEN "none" ELSE "opening"
Closing(a) == below[a] = IF Event[a] THEN "none" ELSE "closing"

\* What an adapter owns, and how far the device below is with it.
OwnedInv == \A a \in Adapters :
    /\ pnp[a] = "unbound" => owned[a] \in {{}, Pools} /\ below[a] = "none"
    /\ pnp[a] = "open" => owned[a] = Resources \ {"binding"} /\ below[a] = "none"
                          /\ ~Event[a]
    /\ pnp[a] = "opening" =>
         IF Event[a] /\ Status[a]
         THEN owned[a] = Resources /\ below[a] = "open"
         ELSE owned[a] = Resources \ {"binding"} /\ Opening(a)
    /\ pnp[a] = "undo" => /\ "memory" \in owned[a]
                          /\ below[a] = IF "binding" \in owned[a] THEN "open"
                                                                  ELSE "none"
    /\ pnp[a] \in {"undoing", "free"} =>
         "memory" \in owned[a] /\ "binding" \notin owned[a]
    /\ pnp[a] = "undoing" => Closing(a)
    /\ pnp[a] = "free" => below[a] = "none"
    /\ pnp[a] \in {"init", "bound", "unbind", "cancel", "waitInit", "remove",
                   "closing", "release", "away"} => owned[a] = Resources
    /\ pnp[a] \in {"init", "bound", "unbind", "cancel", "waitInit", "remove"} =>
         below[a] = "open"
    /\ pnp[a] = "closing" => Closing(a)
    /\ pnp[a] = "release" => below[a] = "none"
    /\ pnp[a] = "waitHalt" => owned[a] = IF mp[a] = "none" THEN {} ELSE Resources
    /\ pnp[a] \in {"away", "waitHalt"} =>
         CASE mp[a] \in {"none", "free"} -> below[a] = "none"
           [] mp[a] = "closing" -> Closing(a)
           [] OTHER -> below[a] = "open"

\* Lists name the adapters whose miniport is there.
ListInv ==
    /\ \A a \in pAdaptList : mp[a] \notin {"none", "requested", "list", "deregister",
                               "delete", "deleted", "close", "closing", "free"}
    /\ \A a \in open : mp[a] \notin {"none", "requested", "list", "unlink",
                         "deregister", "delete", "deleted", "close", "closing", "free"}

\* The miniports that are counted.
CountedPlaces == {"await", "create", "created", "flag", "signal", "up", "halt",
                  "unlink", "deregister"}
Counted       == {a \in Adapters : mp[a] \in CountedPlaces}
CountInv      == MiniportCount = Cardinality(Counted)

\* At most one thread makes the control device and at most one deletes it; who
\* comes while it is being deleted waits.
Making   == {"await", "create", "created"}
Deleting == {"delete", "deleted"}

DeviceInv ==
    /\ \A a, b \in Adapters : \/ mp[a] \in Making /\ mp[b] \in Making
                              \/ mp[a] \in Deleting /\ mp[b] \in Deleting
                              => a = b
    /\ \A a, b \in Adapters : mp[a] \in Deleting /\ mp[b] \in CountedPlaces =>
         \E c \in Adapters : mp[c] = "await"
    /\ \A a \in Adapters :
         /\ mp[a] \in {"create", "created"} => ControlDeviceState = "CREATING"
         /\ mp[a] \in Deleting => ControlDeviceState = "DELETING"
         /\ mp[a] \in {"create", "deleted"} => device = "none"
         /\ mp[a] = "created" => device # "none"
         /\ mp[a] = "await" =>
              device = "none" \/ \E b \in Adapters : mp[b] \in Deleting
    /\ ControlDeviceState # "READY" =>
         \E a \in Adapters : mp[a] \in {"create", "created"} \cup Deleting
    /\ (\A a \in Adapters : mp[a] \notin Making \cup Deleting)
         => (device # "none" <=> Counted # {})

IndInv == /\ TypeOK /\ PlaceInv /\ FlagInv /\ OwnedInv /\ ListInv
          /\ CountInv /\ DeviceInv /\ astray = FALSE

-----------------------------------------------------------------------------

\* What is used is there, and so nothing goes astray.
LEMMA UsesWhatIsThere ==
    ASSUME astray = FALSE, NEW a \in Adapters, NEW what, Uses(a, what),
           what \cup {"memory"} \subseteq owned[a]
    PROVE  astray' = FALSE
  BY DEF Uses

\* Everything but the count of miniports and astray has its type.
TypeRest ==
    /\ pnp \in [Adapters -> PnpPlaces] /\ mp \in [Adapters -> MpPlaces]
    /\ owned \in [Adapters -> SUBSET Resources]
    /\ below \in [Adapters -> {"none", "opening", "open", "closing"}]
    /\ Event \in [Adapters -> BOOLEAN] /\ Status \in [Adapters -> BOOLEAN]
    /\ MiniportInitPending \in [Adapters -> BOOLEAN]
    /\ MiniportInitEvent \in [Adapters -> BOOLEAN]
    /\ MiniportHandle \in [Adapters -> BOOLEAN]
    /\ pAdaptList \subseteq Adapters /\ open \subseteq Adapters
    /\ ControlDeviceState \in {"READY", "CREATING", "DELETING"}
    /\ device \in {"none", "there", "refused"}
    /\ cancelled \subseteq Adapters

\* Types.
LEMMA TypeStep ==
    ASSUME TypeRest, [Next]_vars
    PROVE  TypeRest'
<1>1. ASSUME NEW a \in Adapters, PtBindAdapter(a) PROVE TypeRest'
  BY <1>1
     DEF TypeRest, PnpPlaces, Resources, Pools, PtBindAdapter, PnpGo, control
<1>2. ASSUME NEW a \in Adapters, NdisOpenAdapter(a) PROVE TypeRest'
  BY <1>2
     DEF TypeRest, PnpPlaces, Resources, NdisOpenAdapter, PnpGo, lists,
         control, history
<1>3. ASSUME NEW a \in Adapters, Opened(a) PROVE TypeRest'
  BY <1>3
     DEF TypeRest, PnpPlaces, Opened, PnpGo, adapter, lists, control, history
<1>4. ASSUME NEW a \in Adapters, NdisIMInitializeDeviceInstanceEx(a)
      PROVE  TypeRest'
  BY <1>4
     DEF TypeRest, PnpPlaces, MpPlaces, NdisIMInitializeDeviceInstanceEx,
         PnpGo, lists, control, history
<1>5. ASSUME NEW a \in Adapters, UndoBinding(a) PROVE TypeRest'
  <2>1. UNCHANGED <<mp, Status, MiniportInitPending, MiniportInitEvent,
                    MiniportHandle, lists, control, cancelled>>
    BY <1>5 DEF UndoBinding, history
  <2>2. \E b \in {"none", "closing"}, to \in PnpPlaces :
          /\ below' = [below EXCEPT ![a] = b] \/ below' = below
          /\ pnp' = [pnp EXCEPT ![a] = to]
          /\ Event' = [Event EXCEPT ![a] = FALSE] \/ Event' = Event
          /\ owned' = [owned EXCEPT ![a] = @ \ {"binding"}] \/ owned' = owned
    <3>1. CASE "binding" \in owned[a]
      BY <1>5 DEF UndoBinding, NdisCloseAdapter, PnpGo, Free, PnpPlaces
    <3>2. CASE "binding" \notin owned[a]
      BY <1>5, <3>2 DEF UndoBinding, PnpGo, PnpPlaces
    <3>. QED
      BY <3>1, <3>2
  <2>3. below' \in [Adapters -> {"none", "opening", "open", "closing"}]
    BY <2>2 DEF TypeRest
  <2>4. pnp' \in [Adapters -> PnpPlaces]
    BY <2>2 DEF TypeRest
  <2>5. Event' \in [Adapters -> BOOLEAN]
    BY <2>2 DEF TypeRest
  <2>6. owned' \in [Adapters -> SUBSET Resources]
    BY <2>2 DEF TypeRest
  <2>. QED
    BY <2>1, <2>3, <2>4, <2>5, <2>6 DEF TypeRest, lists, control
<1>6. ASSUME NEW a \in Adapters, Undone(a) PROVE TypeRest'
  BY <1>6
     DEF TypeRest, PnpPlaces, Undone, PnpGo, adapter, lists, control, history
<1>7. ASSUME NEW a \in Adapters, FreeAdapter(a) PROVE TypeRest'
  BY <1>7 DEF TypeRest, PnpPlaces, FreeAdapter, PnpGo, Free, lists, control
<1>8. ASSUME NEW a \in Adapters, MPInitialize(a) PROVE TypeRest'
  BY <1>8 DEF TypeRest, MpPlaces, MPInitialize, MpGo, lists, control
<1>9. ASSUME NEW a \in Adapters, ListAdapter(a) PROVE TypeRest'
  BY <1>9 DEF TypeRest, MpPlaces, ListAdapter, MpGo, adapter, control, history
<1>10. ASSUME NEW a \in Adapters, PtRegisterDevice(a) PROVE TypeRest'
  BY <1>10
     DEF TypeRest, MpPlaces, PtRegisterDevice, MpGo, adapter, lists, history
<1>11. ASSUME NEW a \in Adapters, AwaitDeletion(a) PROVE TypeRest'
  BY <1>11 DEF TypeRest, MpPlaces, AwaitDeletion, MpGo, adapter, lists, history
<1>12. ASSUME NEW a \in Adapters, NdisMRegisterDevice(a) PROVE TypeRest'
  BY <1>12 DEF TypeRest, MpPlaces, NdisMRegisterDevice, MpGo, adapter, lists
<1>13. ASSUME NEW a \in Adapters, DeviceReady(a) PROVE TypeRest'
  BY <1>13 DEF TypeRest, MpPlaces, DeviceReady, MpGo, adapter, lists, history
<1>14. ASSUME NEW a \in Adapters, ClearInitPending(a) PROVE TypeRest'
  BY <1>14 DEF TypeRest, MpPlaces, ClearInitPending, MpGo, lists, control
<1>15. ASSUME NEW a \in Adapters, SignalInit(a) PROVE TypeRest'
  BY <1>15 DEF TypeRest, MpPlaces, SignalInit, MpGo, lists, control
<1>16. ASSUME NEW a \in Adapters, CloseAdapter(a) PROVE TypeRest'
  BY <1>16
     DEF TypeRest, MpPlaces, CloseAdapter, MpGo, adapter, control, history
<1>17. ASSUME NEW a \in Adapters, UnlinkAdapter(a) PROVE TypeRest'
  BY <1>17
     DEF TypeRest, MpPlaces, UnlinkAdapter, MpGo, adapter, control, history
<1>18. ASSUME NEW a \in Adapters, PtDeregisterDevice(a) PROVE TypeRest'
  BY <1>18
     DEF TypeRest, MpPlaces, PtDeregisterDevice, MpGo, adapter, lists, history
<1>19. ASSUME NEW a \in Adapters, NdisMDeregisterDevice(a) PROVE TypeRest'
  BY <1>19
     DEF TypeRest, MpPlaces, NdisMDeregisterDevice, MpGo, adapter, lists,
         history
<1>20. ASSUME NEW a \in Adapters, HaltBinding(a) PROVE TypeRest'
  BY <1>20
     DEF TypeRest, MpPlaces, HaltBinding, NdisCloseAdapter, MpGo, lists,
         control
<1>21. ASSUME NEW a \in Adapters, HaltClosed(a) PROVE TypeRest'
  BY <1>21
     DEF TypeRest, MpPlaces, HaltClosed, MpGo, adapter, lists, control, history
<1>22. ASSUME NEW a \in Adapters, HaltFree(a) PROVE TypeRest'
  BY <1>22
     DEF TypeRest, PnpPlaces, MpPlaces, HaltFree, MpGo, Free, lists, control
<1>23. ASSUME NEW a \in Adapters, Disable(a) PROVE TypeRest'
  BY <1>23
     DEF TypeRest, PnpPlaces, MpPlaces, Disable, MpGo, PnpGo, adapter, lists,
         control, history
<1>24. ASSUME NEW a \in Adapters, PtUnbindAdapter(a) PROVE TypeRest'
  BY <1>24
     DEF TypeRest, PnpPlaces, PtUnbindAdapter, PnpGo, adapter, lists, control,
         history
<1>25. ASSUME NEW a \in Adapters, CheckInitPending(a) PROVE TypeRest'
  BY <1>25
     DEF TypeRest, PnpPlaces, CheckInitPending, PnpGo, adapter, lists, control
<1>26. ASSUME NEW a \in Adapters, NdisIMCancelInitializeDeviceInstance(a)
      PROVE  TypeRest'
  BY <1>26
     DEF TypeRest, PnpPlaces, MpPlaces, Resources, Pools,
         NdisIMCancelInitializeDeviceInstance, PnpGo, lists, control
<1>27. ASSUME NEW a \in Adapters, WaitInit(a) PROVE TypeRest'
  BY <1>27
     DEF TypeRest, PnpPlaces, WaitInit, PnpGo, adapter, lists, control, history
<1>28. ASSUME NEW a \in Adapters, NdisIMDeInitializeDeviceInstance(a)
      PROVE  TypeRest'
  BY <1>28
     DEF TypeRest, PnpPlaces, MpPlaces, NdisIMDeInitializeDeviceInstance, MpGo,
         PnpGo, adapter, lists, control, history
<1>29. ASSUME NEW a \in Adapters, Halted(a) PROVE TypeRest'
  BY <1>29
     DEF TypeRest, PnpPlaces, Halted, PnpGo, adapter, lists, control, history
<1>30. ASSUME NEW a \in Adapters, UnbindBinding(a) PROVE TypeRest'
  BY <1>30
     DEF TypeRest, PnpPlaces, UnbindBinding, NdisCloseAdapter, PnpGo, lists,
         control
<1>31. ASSUME NEW a \in Adapters, UnbindClosed(a) PROVE TypeRest'
  BY <1>31
     DEF TypeRest, PnpPlaces, UnbindClosed, PnpGo, adapter, lists, control,
         history
<1>32. ASSUME NEW a \in Adapters, ReleaseAdapter(a) PROVE TypeRest'
  BY <1>32 DEF TypeRest, PnpPlaces, ReleaseAdapter, PnpGo, Free, lists, control
<1>33. ASSUME NEW a \in Adapters, PtOpenAdapterComplete(a) PROVE TypeRest'
  BY <1>33
     DEF TypeRest, Resources, PtOpenAdapterComplete, places, lists, control
<1>34. ASSUME NEW a \in Adapters, PtCloseAdapterComplete(a) PROVE TypeRest'
  BY <1>34 DEF TypeRest, PtCloseAdapterComplete, places, lists, control
<1>35. ASSUME UNCHANGED vars PROVE TypeRest'
  BY <1>35 DEF TypeRest, vars, places, adapter, lists, control, history
<1>. QED
  BY <1>1, <1>2, <1>3, <1>4, <1>5, <1>6, <1>7, <1>8, <1>9, <1>10, <1>11, <1>12,
     <1>13, <1>14, <1>15, <1>16, <1>17, <1>18, <1>19, <1>20, <1>21, <1>22,
     <1>23, <1>24, <1>25, <1>26, <1>27, <1>28, <1>29, <1>30, <1>31, <1>32,
     <1>33, <1>34, <1>35
     DEF Next, Binding, Initializing, Halting, Unbinding

\* Where the threads are goes with where the adapters are.
LEMMA PlaceStep ==
    ASSUME TypeRest, PlaceInv, FlagInv, [Next]_vars
    PROVE  PlaceInv'
<1>1. ASSUME NEW a \in Adapters, PtBindAdapter(a) PROVE PlaceInv'
  BY <1>1 DEF PlaceInv, PtBindAdapter, PnpGo
<1>2. ASSUME NEW a \in Adapters, NdisOpenAdapter(a) PROVE PlaceInv'
  BY <1>2 DEF TypeRest, PlaceInv, NdisOpenAdapter, PnpGo
<1>3. ASSUME NEW a \in Adapters, Opened(a) PROVE PlaceInv'
  BY <1>3 DEF PlaceInv, Opened, PnpGo, adapter
<1>4. ASSUME NEW a \in Adapters, NdisIMInitializeDeviceInstanceEx(a)
      PROVE  PlaceInv'
  BY <1>4
     DEF TypeRest, PlaceInv, Coming, NdisIMInitializeDeviceInstanceEx, PnpGo
<1>5. ASSUME NEW a \in Adapters, UndoBinding(a) PROVE PlaceInv'
  BY <1>5 DEF TypeRest, PlaceInv, UndoBinding, PnpGo
<1>6. ASSUME NEW a \in Adapters, Undone(a) PROVE PlaceInv'
  BY <1>6 DEF PlaceInv, Undone, PnpGo, adapter
<1>7. ASSUME NEW a \in Adapters, FreeAdapter(a) PROVE PlaceInv'
  BY <1>7 DEF PlaceInv, FreeAdapter, PnpGo
<1>8. ASSUME NEW a \in Adapters, MPInitialize(a) PROVE PlaceInv'
  BY <1>8 DEF PlaceInv, Coming, Going, MPInitialize, MpGo
<1>9. ASSUME NEW a \in Adapters, ListAdapter(a) PROVE PlaceInv'
  BY <1>9 DEF PlaceInv, Coming, Going, ListAdapter, MpGo, adapter
<1>10. ASSUME NEW a \in Adapters, PtRegisterDevice(a) PROVE PlaceInv'
  BY <1>10 DEF PlaceInv, Coming, Going, PtRegisterDevice, MpGo, adapter
<1>11. ASSUME NEW a \in Adapters, AwaitDeletion(a) PROVE PlaceInv'
  BY <1>11 DEF PlaceInv, Coming, Going, AwaitDeletion, MpGo, adapter
<1>12. ASSUME NEW a \in Adapters, NdisMRegisterDevice(a) PROVE PlaceInv'
  BY <1>12 DEF PlaceInv, Coming, Going, NdisMRegisterDevice, MpGo, adapter
<1>13. ASSUME NEW a \in Adapters, DeviceReady(a) PROVE PlaceInv'
  BY <1>13 DEF TypeRest, PlaceInv, Coming, Going, DeviceReady, MpGo, adapter
<1>14. ASSUME NEW a \in Adapters, ClearInitPending(a) PROVE PlaceInv'
  BY <1>14 DEF PlaceInv, Going, ClearInitPending, MpGo
<1>15. ASSUME NEW a \in Adapters, SignalInit(a) PROVE PlaceInv'
  BY <1>15 DEF PlaceInv, Going, SignalInit, MpGo
<1>16. ASSUME NEW a \in Adapters, CloseAdapter(a) PROVE PlaceInv'
  BY <1>16 DEF PlaceInv, Coming, Going, CloseAdapter, MpGo, adapter
<1>17. ASSUME NEW a \in Adapters, UnlinkAdapter(a) PROVE PlaceInv'
  BY <1>17 DEF PlaceInv, Coming, Going, UnlinkAdapter, MpGo, adapter
<1>18. ASSUME NEW a \in Adapters, PtDeregisterDevice(a) PROVE PlaceInv'
  BY <1>18 DEF PlaceInv, Coming, Going, PtDeregisterDevice, MpGo, adapter
<1>19. ASSUME NEW a \in Adapters, NdisMDeregisterDevice(a) PROVE PlaceInv'
  BY <1>19 DEF PlaceInv, Coming, Going, NdisMDeregisterDevice, MpGo, adapter
<1>20. ASSUME NEW a \in Adapters, HaltBinding(a) PROVE PlaceInv'
  BY <1>20 DEF PlaceInv, Coming, Going, HaltBinding, MpGo
<1>21. ASSUME NEW a \in Adapters, HaltClosed(a) PROVE PlaceInv'
  BY <1>21 DEF PlaceInv, Coming, Going, HaltClosed, MpGo, adapter
<1>22. ASSUME NEW a \in Adapters, HaltFree(a) PROVE PlaceInv'
  BY <1>22 DEF TypeRest, PlaceInv, Coming, HaltFree, MpGo
<1>23. ASSUME NEW a \in Adapters, Disable(a) PROVE PlaceInv'
  BY <1>23 DEF TypeRest, PlaceInv, Going, Disable, MpGo, PnpGo, adapter
<1>24. ASSUME NEW a \in Adapters, PtUnbindAdapter(a) PROVE PlaceInv'
  BY <1>24 DEF PlaceInv, PtUnbindAdapter, PnpGo, adapter
<1>25. ASSUME NEW a \in Adapters, CheckInitPending(a) PROVE PlaceInv'
  BY <1>25 DEF PlaceInv, FlagInv, CheckInitPending, PnpGo, adapter
<1>26. ASSUME NEW a \in Adapters, NdisIMCancelInitializeDeviceInstance(a)
      PROVE  PlaceInv'
  BY <1>26
     DEF TypeRest, PlaceInv, FlagInv, NdisIMCancelInitializeDeviceInstance,
         PnpGo
<1>27. ASSUME NEW a \in Adapters, WaitInit(a) PROVE PlaceInv'
  BY <1>27 DEF PlaceInv, FlagInv, WaitInit, PnpGo, adapter
<1>28. ASSUME NEW a \in Adapters, NdisIMDeInitializeDeviceInstance(a)
      PROVE  PlaceInv'
  BY <1>28
     DEF TypeRest, PlaceInv, Going, NdisIMDeInitializeDeviceInstance, MpGo,
         PnpGo, adapter
<1>29. ASSUME NEW a \in Adapters, Halted(a) PROVE PlaceInv'
  BY <1>29 DEF PlaceInv, Halted, PnpGo, adapter
<1>30. ASSUME NEW a \in Adapters, UnbindBinding(a) PROVE PlaceInv'
  BY <1>30 DEF PlaceInv, UnbindBinding, PnpGo
<1>31. ASSUME NEW a \in Adapters, UnbindClosed(a) PROVE PlaceInv'
  BY <1>31 DEF PlaceInv, UnbindClosed, PnpGo, adapter
<1>32. ASSUME NEW a \in Adapters, ReleaseAdapter(a) PROVE PlaceInv'
  BY <1>32 DEF PlaceInv, ReleaseAdapter, PnpGo
<1>33. ASSUME NEW a \in Adapters, PtOpenAdapterComplete(a) PROVE PlaceInv'
  BY <1>33 DEF PlaceInv, PtOpenAdapterComplete, places
<1>34. ASSUME NEW a \in Adapters, PtCloseAdapterComplete(a) PROVE PlaceInv'
  BY <1>34 DEF PlaceInv, PtCloseAdapterComplete, places
<1>35. ASSUME UNCHANGED vars PROVE PlaceInv'
  BY <1>35 DEF PlaceInv, vars, places, adapter
<1>. QED
  BY <1>1, <1>2, <1>3, <1>4, <1>5, <1>6, <1>7, <1>8, <1>9, <1>10, <1>11, <1>12,
     <1>13, <1>14, <1>15, <1>16, <1>17, <1>18, <1>19, <1>20, <1>21, <1>22,
     <1>23, <1>24, <1>25, <1>26, <1>27, <1>28, <1>29, <1>30, <1>31, <1>32,
     <1>33, <1>34, <1>35
     DEF Next, Binding, Initializing, Halting, Unbinding

\* The flags of an adapter follow its bindings.
LEMMA FlagStep ==
    ASSUME TypeRest, PlaceInv, FlagInv, OwnedInv, [Next]_vars
    PROVE  FlagInv'
<1>1. ASSUME NEW a \in Adapters, PtBindAdapter(a) PROVE FlagInv'
  BY <1>1 DEF TypeRest, FlagInv, PtBindAdapter, PnpGo
<1>2. ASSUME NEW a \in Adapters, NdisOpenAdapter(a) PROVE FlagInv'
  BY <1>2 DEF TypeRest, FlagInv, NdisOpenAdapter, PnpGo, history
<1>3. ASSUME NEW a \in Adapters, Opened(a) PROVE FlagInv'
  BY <1>3 DEF FlagInv, Opened, PnpGo, adapter, history
<1>4. ASSUME NEW a \in Adapters, NdisIMInitializeDeviceInstanceEx(a)
      PROVE  FlagInv'
  BY <1>4
     DEF TypeRest, PlaceInv, FlagInv, NdisIMInitializeDeviceInstanceEx, PnpGo,
         history
<1>5. ASSUME NEW a \in Adapters, UndoBinding(a) PROVE FlagInv'
  BY <1>5 DEF TypeRest, FlagInv, UndoBinding, PnpGo, Free, history
<1>6. ASSUME NEW a \in Adapters, Undone(a) PROVE FlagInv'
  BY <1>6 DEF FlagInv, Undone, PnpGo, adapter, history
<1>7. ASSUME NEW a \in Adapters, FreeAdapter(a) PROVE FlagInv'
  BY <1>7
     DEF TypeRest, PlaceInv, FlagInv, OwnedInv, Coming, Going, Resources,
         Pools, FreeAdapter, PnpGo, Free, lists, control
<1>8. ASSUME NEW a \in Adapters, MPInitialize(a) PROVE FlagInv'
  BY <1>8 DEF TypeRest, PlaceInv, FlagInv, MPInitialize, MpGo
<1>9. ASSUME NEW a \in Adapters, ListAdapter(a) PROVE FlagInv'
  BY <1>9 DEF FlagInv, Coming, ListAdapter, MpGo, adapter, history
<1>10. ASSUME NEW a \in Adapters, PtRegisterDevice(a) PROVE FlagInv'
  BY <1>10 DEF FlagInv, Coming, PtRegisterDevice, MpGo, adapter, history
<1>11. ASSUME NEW a \in Adapters, AwaitDeletion(a) PROVE FlagInv'
  BY <1>11 DEF FlagInv, Coming, AwaitDeletion, MpGo, adapter, history
<1>12. ASSUME NEW a \in Adapters, NdisMRegisterDevice(a) PROVE FlagInv'
  BY <1>12 DEF FlagInv, Coming, NdisMRegisterDevice, MpGo, adapter
<1>13. ASSUME NEW a \in Adapters, DeviceReady(a) PROVE FlagInv'
  BY <1>13 DEF TypeRest, FlagInv, Coming, DeviceReady, MpGo, adapter, history
<1>14. ASSUME NEW a \in Adapters, ClearInitPending(a) PROVE FlagInv'
  BY <1>14 DEF TypeRest, FlagInv, Coming, ClearInitPending, MpGo
<1>15. ASSUME NEW a \in Adapters, SignalInit(a) PROVE FlagInv'
  BY <1>15 DEF TypeRest, FlagInv, Coming, SignalInit, MpGo
<1>16. ASSUME NEW a \in Adapters, CloseAdapter(a) PROVE FlagInv'
  BY <1>16 DEF FlagInv, Coming, CloseAdapter, MpGo, adapter, history
<1>17. ASSUME NEW a \in Adapters, UnlinkAdapter(a) PROVE FlagInv'
  BY <1>17 DEF FlagInv, Coming, UnlinkAdapter, MpGo, adapter, history
<1>18. ASSUME NEW a \in Adapters, PtDeregisterDevice(a) PROVE FlagInv'
  BY <1>18 DEF FlagInv, Coming, PtDeregisterDevice, MpGo, adapter, history
<1>19. ASSUME NEW a \in Adapters, NdisMDeregisterDevice(a) PROVE FlagInv'
  BY <1>19 DEF FlagInv, Coming, NdisMDeregisterDevice, MpGo, adapter, history
<1>20. ASSUME NEW a \in Adapters, HaltBinding(a) PROVE FlagInv'
  BY <1>20 DEF FlagInv, Coming, HaltBinding, MpGo
<1>21. ASSUME NEW a \in Adapters, HaltClosed(a) PROVE FlagInv'
  BY <1>21 DEF FlagInv, Coming, HaltClosed, MpGo, adapter, history
<1>22. ASSUME NEW a \in Adapters, HaltFree(a) PROVE FlagInv'
  <2>1. /\ mp[a] = "free" /\ mp' = [mp EXCEPT ![a] = "none"]
        /\ owned' = [owned EXCEPT ![a] = @ \ Resources]
        /\ UNCHANGED <<below, Event, Status, MiniportInitPending, MiniportInitEvent,
                       MiniportHandle, cancelled>>
    BY <1>22 DEF HaltFree, MpGo, Free
  <2>2. pnp[a] \in {"away", "waitHalt"}
    BY <2>1 DEF TypeRest, PnpPlaces, PlaceInv, Coming
  <2>3. pnp' = [pnp EXCEPT ![a] = IF pnp[a] = "away" THEN "unbound" ELSE pnp[a]]
    BY <1>22 DEF HaltFree
  <2>4. owned'[a] = {} /\ below[a] = "none"
    BY <2>1, <2>2 DEF TypeRest, OwnedInv
  <2>. QED
    BY <2>1, <2>2, <2>3, <2>4 DEF TypeRest, FlagInv, Coming, Pools
<1>23. ASSUME NEW a \in Adapters, Disable(a) PROVE FlagInv'
  BY <1>23 DEF TypeRest, FlagInv, Disable, MpGo, PnpGo, adapter, history
<1>24. ASSUME NEW a \in Adapters, PtUnbindAdapter(a) PROVE FlagInv'
  BY <1>24 DEF FlagInv, PtUnbindAdapter, PnpGo, adapter, history
<1>25. ASSUME NEW a \in Adapters, CheckInitPending(a) PROVE FlagInv'
  BY <1>25 DEF PlaceInv, FlagInv, CheckInitPending, PnpGo, adapter
<1>26. ASSUME NEW a \in Adapters, NdisIMCancelInitializeDeviceInstance(a)
      PROVE  FlagInv'
  BY <1>26 DEF TypeRest, FlagInv, NdisIMCancelInitializeDeviceInstance, PnpGo
<1>27. ASSUME NEW a \in Adapters, WaitInit(a) PROVE FlagInv'
  BY <1>27 DEF FlagInv, WaitInit, PnpGo, adapter, history
<1>28. ASSUME NEW a \in Adapters, NdisIMDeInitializeDeviceInstance(a)
      PROVE  FlagInv'
  BY <1>28
     DEF FlagInv, NdisIMDeInitializeDeviceInstance, MpGo, PnpGo, adapter,
         history
<1>29. ASSUME NEW a \in Adapters, Halted(a) PROVE FlagInv'
  BY <1>29 DEF FlagInv, OwnedInv, Pools, Halted, PnpGo, adapter, history
<1>30. ASSUME NEW a \in Adapters, UnbindBinding(a) PROVE FlagInv'
  BY <1>30 DEF FlagInv, UnbindBinding, PnpGo
<1>31. ASSUME NEW a \in Adapters, UnbindClosed(a) PROVE FlagInv'
  BY <1>31 DEF FlagInv, UnbindClosed, PnpGo, adapter, history
<1>32. ASSUME NEW a \in Adapters, ReleaseAdapter(a) PROVE FlagInv'
  BY <1>32
     DEF TypeRest, FlagInv, OwnedInv, Resources, Pools, ReleaseAdapter, PnpGo,
         Free
<1>33. ASSUME NEW a \in Adapters, PtOpenAdapterComplete(a) PROVE FlagInv'
  BY <1>33 DEF FlagInv, OwnedInv, PtOpenAdapterComplete, places
<1>34. ASSUME NEW a \in Adapters, PtCloseAdapterComplete(a) PROVE FlagInv'
  BY <1>34 DEF FlagInv, PtCloseAdapterComplete, places
<1>35. ASSUME UNCHANGED vars PROVE FlagInv'
  BY <1>35 DEF FlagInv, vars, places, adapter, history
<1>. QED
  BY <1>1, <1>2, <1>3, <1>4, <1>5, <1>6, <1>7, <1>8, <1>9, <1>10, <1>11, <1>12,
     <1>13, <1>14, <1>15, <1>16, <1>17, <1>18, <1>19, <1>20, <1>21, <1>22,
     <1>23, <1>24, <1>25, <1>26, <1>27, <1>28, <1>29, <1>30, <1>31, <1>32,
     <1>33, <1>34, <1>35
     DEF Next, Binding, Initializing, Halting, Unbinding

\* What an adapter owns is released by the one that takes it, once.
LEMMA OwnedStep ==
    ASSUME TypeRest, PlaceInv, FlagInv, OwnedInv, [Next]_vars
    PROVE  OwnedInv'
<1>1. ASSUME NEW a \in Adapters, PtBindAdapter(a) PROVE OwnedInv'
  BY <1>1
     DEF TypeRest, PlaceInv, OwnedInv, Opening, Closing, Going, Resources,
         Pools, PtBindAdapter, PnpGo
<1>2. ASSUME NEW a \in Adapters, NdisOpenAdapter(a) PROVE OwnedInv'
  <2>1. /\ pnp[a] = "open" /\ owned[a] = Resources \ {"binding"}
        /\ below[a] = "none" /\ ~Event[a]
        /\ UNCHANGED <<mp, Event, Status>>
    BY <1>2 DEF NdisOpenAdapter, PnpGo, OwnedInv
  <2>2. CASE /\ pnp' = [pnp EXCEPT ![a] = "init"]
             /\ below' = [below EXCEPT ![a] = "open"]
             /\ owned' = [owned EXCEPT ![a] = @ \cup {"binding"}]
    <3>1. owned'[a] = Resources
      BY <2>1, <2>2 DEF TypeRest, Resources
    <3>. QED
      BY <2>1, <2>2, <3>1 DEF TypeRest, OwnedInv, Opening, Closing
  <2>3. CASE pnp' = [pnp EXCEPT ![a] = "undo"] /\ UNCHANGED <<below, owned>>
    BY <2>1, <2>3 DEF OwnedInv, Opening, Closing, Resources
  <2>4. CASE /\ pnp' = [pnp EXCEPT ![a] = "opening"]
             /\ below' = [below EXCEPT ![a] = "opening"]
             /\ UNCHANGED owned
    BY <2>1, <2>4 DEF TypeRest, OwnedInv, Opening, Closing
  <2>. QED
    BY <1>2, <2>2, <2>3, <2>4 DEF NdisOpenAdapter, PnpGo
<1>3. ASSUME NEW a \in Adapters, Opened(a) PROVE OwnedInv'
  BY <1>3
     DEF OwnedInv, Opening, Closing, Resources, Pools, Opened, PnpGo, adapter
<1>4. ASSUME NEW a \in Adapters, NdisIMInitializeDeviceInstanceEx(a)
      PROVE  OwnedInv'
  BY <1>4
     DEF TypeRest, OwnedInv, Opening, Closing, Resources,
         NdisIMInitializeDeviceInstanceEx, PnpGo
<1>5. ASSUME NEW a \in Adapters, UndoBinding(a) PROVE OwnedInv'
  <2>1. pnp[a] = "undo" /\ "memory" \in owned[a] /\ UNCHANGED <<mp, Status>>
    BY <1>5 DEF UndoBinding, PnpGo, OwnedInv
  <2>2. CASE "binding" \in owned[a]
    <3>1. /\ Event' = [Event EXCEPT ![a] = FALSE]
          /\ owned' = [owned EXCEPT ![a] = @ \ {"binding"}]
          /\ \E b \in {"none", "closing"} :
               /\ below' = [below EXCEPT ![a] = b]
               /\ pnp' = [pnp EXCEPT ![a] = IF b = "closing" THEN "undoing" ELSE "free"]
      BY <1>5, <2>2 DEF UndoBinding, NdisCloseAdapter, PnpGo, Free
    <3>. QED
      BY <2>1, <3>1 DEF TypeRest, OwnedInv, Opening, Closing
  <2>3. CASE "binding" \notin owned[a]
    <3>1. pnp' = [pnp EXCEPT ![a] = "free"] /\ UNCHANGED <<below, Event, owned>>
      BY <1>5, <2>3 DEF UndoBinding, PnpGo
    <3>. QED
      BY <2>1, <2>3, <3>1 DEF TypeRest, OwnedInv, Opening, Closing
  <2>. QED
    BY <2>2, <2>3
<1>6. ASSUME NEW a \in Adapters, Undone(a) PROVE OwnedInv'
  BY <1>6 DEF OwnedInv, Opening, Closing, Undone, PnpGo, adapter
<1>7. ASSUME NEW a \in Adapters, FreeAdapter(a) PROVE OwnedInv'
  BY <1>7 DEF TypeRest, OwnedInv, Opening, Closing, FreeAdapter, PnpGo, Free
<1>8. ASSUME NEW a \in Adapters, MPInitialize(a) PROVE OwnedInv'
  BY <1>8 DEF OwnedInv, Opening, Closing, MPInitialize, MpGo
<1>9. ASSUME NEW a \in Adapters, ListAdapter(a) PROVE OwnedInv'
  BY <1>9 DEF OwnedInv, Opening, Closing, ListAdapter, MpGo, adapter
<1>10. ASSUME NEW a \in Adapters, PtRegisterDevice(a) PROVE OwnedInv'
  BY <1>10 DEF OwnedInv, Opening, Closing, PtRegisterDevice, MpGo, adapter
<1>11. ASSUME NEW a \in Adapters, AwaitDeletion(a) PROVE OwnedInv'
  BY <1>11 DEF OwnedInv, Opening, Closing, AwaitDeletion, MpGo, adapter
<1>12. ASSUME NEW a \in Adapters, NdisMRegisterDevice(a) PROVE OwnedInv'
  BY <1>12 DEF OwnedInv, Opening, Closing, NdisMRegisterDevice, MpGo, adapter
<1>13. ASSUME NEW a \in Adapters, DeviceReady(a) PROVE OwnedInv'
  BY <1>13 DEF TypeRest, OwnedInv, Opening, Closing, DeviceReady, MpGo, adapter
<1>14. ASSUME NEW a \in Adapters, ClearInitPending(a) PROVE OwnedInv'
  BY <1>14 DEF OwnedInv, Opening, Closing, ClearInitPending, MpGo
<1>15. ASSUME NEW a \in Adapters, SignalInit(a) PROVE OwnedInv'
  BY <1>15 DEF OwnedInv, Opening, Closing, SignalInit, MpGo
<1>16. ASSUME NEW a \in Adapters, CloseAdapter(a) PROVE OwnedInv'
  BY <1>16 DEF OwnedInv, Opening, Closing, CloseAdapter, MpGo, adapter
<1>17. ASSUME NEW a \in Adapters, UnlinkAdapter(a) PROVE OwnedInv'
  BY <1>17 DEF OwnedInv, Opening, Closing, UnlinkAdapter, MpGo, adapter
<1>18. ASSUME NEW a \in Adapters, PtDeregisterDevice(a) PROVE OwnedInv'
  BY <1>18 DEF OwnedInv, Opening, Closing, PtDeregisterDevice, MpGo, adapter
<1>19. ASSUME NEW a \in Adapters, NdisMDeregisterDevice(a) PROVE OwnedInv'
  BY <1>19 DEF OwnedInv, Opening, Closing, NdisMDeregisterDevice, MpGo, adapter
<1>20. ASSUME NEW a \in Adapters, HaltBinding(a) PROVE OwnedInv'
  BY <1>20
     DEF TypeRest, PlaceInv, OwnedInv, Opening, Closing, Coming, HaltBinding,
         NdisCloseAdapter, MpGo
<1>21. ASSUME NEW a \in Adapters, HaltClosed(a) PROVE OwnedInv'
  BY <1>21 DEF OwnedInv, Opening, Closing, HaltClosed, MpGo, adapter
<1>22. ASSUME NEW a \in Adapters, HaltFree(a) PROVE OwnedInv'
  <2>1. /\ mp[a] = "free" /\ mp' = [mp EXCEPT ![a] = "none"]
        /\ owned' = [owned EXCEPT ![a] = @ \ Resources]
        /\ UNCHANGED <<below, Event, Status, MiniportInitPending, MiniportInitEvent,
                       MiniportHandle, cancelled>>
    BY <1>22 DEF HaltFree, MpGo, Free
  <2>2. pnp[a] \in {"away", "waitHalt"}
    BY <2>1 DEF TypeRest, PnpPlaces, PlaceInv, Coming
  <2>3. pnp' = [pnp EXCEPT ![a] = IF pnp[a] = "away" THEN "unbound" ELSE pnp[a]]
    BY <1>22 DEF HaltFree
  <2>4. owned'[a] = {} /\ below[a] = "none"
    BY <2>1, <2>2 DEF TypeRest, OwnedInv
  <2>5. \/ pnp[a] = "away" /\ pnp'[a] = "unbound"
        \/ pnp[a] = "waitHalt" /\ pnp'[a] = "waitHalt"
    BY <2>2, <2>3 DEF TypeRest
  <2>6. \A b \in Adapters : b # a =>
          pnp'[b] = pnp[b] /\ mp'[b] = mp[b] /\ owned'[b] = owned[b]
    BY <2>1, <2>3
  <2>7. mp'[a] = "none"
    BY <2>1 DEF TypeRest
  <2>. QED
    BY <2>1, <2>4, <2>5, <2>6, <2>7 DEF OwnedInv, Opening, Closing
<1>23. ASSUME NEW a \in Adapters, Disable(a) PROVE OwnedInv'
  BY <1>23 DEF OwnedInv, Opening, Closing, Disable, MpGo, PnpGo, adapter
<1>24. ASSUME NEW a \in Adapters, PtUnbindAdapter(a) PROVE OwnedInv'
  BY <1>24 DEF OwnedInv, Opening, Closing, PtUnbindAdapter, PnpGo, adapter
<1>25. ASSUME NEW a \in Adapters, CheckInitPending(a) PROVE OwnedInv'
  BY <1>25 DEF OwnedInv, Opening, Closing, CheckInitPending, PnpGo, adapter
<1>26. ASSUME NEW a \in Adapters, NdisIMCancelInitializeDeviceInstance(a)
      PROVE  OwnedInv'
  BY <1>26
     DEF TypeRest, OwnedInv, Opening, Closing,
         NdisIMCancelInitializeDeviceInstance, PnpGo
<1>27. ASSUME NEW a \in Adapters, WaitInit(a) PROVE OwnedInv'
  BY <1>27 DEF OwnedInv, Opening, Closing, WaitInit, PnpGo, adapter
<1>28. ASSUME NEW a \in Adapters, NdisIMDeInitializeDeviceInstance(a)
      PROVE  OwnedInv'
  BY <1>28
     DEF TypeRest, OwnedInv, Opening, Closing,
         NdisIMDeInitializeDeviceInstance, MpGo, PnpGo, adapter
<1>29. ASSUME NEW a \in Adapters, Halted(a) PROVE OwnedInv'
  BY <1>29 DEF OwnedInv, Opening, Closing, Halted, PnpGo, adapter
<1>30. ASSUME NEW a \in Adapters, UnbindBinding(a) PROVE OwnedInv'
  BY <1>30
     DEF TypeRest, OwnedInv, Opening, Closing, UnbindBinding, NdisCloseAdapter,
         PnpGo
<1>31. ASSUME NEW a \in Adapters, UnbindClosed(a) PROVE OwnedInv'
  BY <1>31 DEF OwnedInv, Opening, Closing, UnbindClosed, PnpGo, adapter
<1>32. ASSUME NEW a \in Adapters, ReleaseAdapter(a) PROVE OwnedInv'
  BY <1>32
     DEF TypeRest, OwnedInv, Opening, Closing, Resources, Pools,
         ReleaseAdapter, PnpGo, Free
<1>33. ASSUME NEW a \in Adapters, PtOpenAdapterComplete(a) PROVE OwnedInv'
  <2>1. pnp[a] = "opening" /\ ~Event[a] /\ owned[a] = Resources \ {"binding"}
    BY <1>33
       DEF PtOpenAdapterComplete, TypeRest, PnpPlaces, OwnedInv, Opening,
           Closing
  <2>2. PICK ok \in BOOLEAN :
          /\ below' = [below EXCEPT ![a] = IF ok THEN "open" ELSE "none"]
          /\ owned' = [owned EXCEPT ![a] = IF ok THEN @ \cup {"binding"} ELSE @]
          /\ Status' = [Status EXCEPT ![a] = ok]
    BY <1>33 DEF PtOpenAdapterComplete
  <2>3. Event' = [Event EXCEPT ![a] = TRUE] /\ UNCHANGED <<pnp, mp>>
    BY <1>33 DEF PtOpenAdapterComplete, places
  <2>4. owned'[a] = IF ok THEN Resources ELSE Resources \ {"binding"}
    BY <2>1, <2>2 DEF TypeRest, Resources
  <2>5. below'[a] = (IF ok THEN "open" ELSE "none") /\ Status'[a] = ok /\ Event'[a]
    BY <2>2, <2>3 DEF TypeRest
  <2>6. \A b \in Adapters : b # a =>
          /\ owned'[b] = owned[b] /\ below'[b] = below[b] /\ Event'[b] = Event[b]
          /\ Status'[b] = Status[b]
    BY <2>2, <2>3
  <2>. QED
    BY <2>1, <2>3, <2>4, <2>5, <2>6 DEF OwnedInv, Opening, Closing
<1>34. ASSUME NEW a \in Adapters, PtCloseAdapterComplete(a) PROVE OwnedInv'
  BY <1>34
     DEF TypeRest, OwnedInv, Opening, Closing, PtCloseAdapterComplete, places
<1>35. ASSUME UNCHANGED vars PROVE OwnedInv'
  BY <1>35 DEF OwnedInv, Opening, Closing, vars, places, adapter
<1>. QED
  BY <1>1, <1>2, <1>3, <1>4, <1>5, <1>6, <1>7, <1>8, <1>9, <1>10, <1>11, <1>12,
     <1>13, <1>14, <1>15, <1>16, <1>17, <1>18, <1>19, <1>20, <1>21, <1>22,
     <1>23, <1>24, <1>25, <1>26, <1>27, <1>28, <1>29, <1>30, <1>31, <1>32,
     <1>33, <1>34, <1>35
     DEF Next, Binding, Initializing, Halting, Unbinding

\* The list names adapters that are there, each once.
LEMMA ListStep ==
    ASSUME TypeRest, PlaceInv, ListInv, [Next]_vars
    PROVE  ListInv'
<1>1. ASSUME NEW a \in Adapters, PtBindAdapter(a) PROVE ListInv'
  BY <1>1 DEF ListInv, PtBindAdapter
<1>2. ASSUME NEW a \in Adapters, NdisOpenAdapter(a) PROVE ListInv'
  BY <1>2 DEF ListInv, NdisOpenAdapter, lists
<1>3. ASSUME NEW a \in Adapters, Opened(a) PROVE ListInv'
  BY <1>3 DEF ListInv, Opened, lists
<1>4. ASSUME NEW a \in Adapters, NdisIMInitializeDeviceInstanceEx(a)
      PROVE  ListInv'
  BY <1>4
     DEF TypeRest, ListInv, PlaceInv, NdisIMInitializeDeviceInstanceEx, PnpGo,
         lists
<1>5. ASSUME NEW a \in Adapters, UndoBinding(a) PROVE ListInv'
  BY <1>5 DEF ListInv, UndoBinding, lists
<1>6. ASSUME NEW a \in Adapters, Undone(a) PROVE ListInv'
  BY <1>6 DEF ListInv, Undone, lists
<1>7. ASSUME NEW a \in Adapters, FreeAdapter(a) PROVE ListInv'
  BY <1>7 DEF ListInv, FreeAdapter, lists
<1>8. ASSUME NEW a \in Adapters, MPInitialize(a) PROVE ListInv'
  BY <1>8 DEF ListInv, MPInitialize, MpGo, lists
<1>9. ASSUME NEW a \in Adapters, ListAdapter(a) PROVE ListInv'
  BY <1>9 DEF TypeRest, ListInv, ListAdapter, MpGo
<1>10. ASSUME NEW a \in Adapters, PtRegisterDevice(a) PROVE ListInv'
  BY <1>10 DEF ListInv, PtRegisterDevice, MpGo, lists
<1>11. ASSUME NEW a \in Adapters, AwaitDeletion(a) PROVE ListInv'
  BY <1>11 DEF ListInv, AwaitDeletion, MpGo, lists
<1>12. ASSUME NEW a \in Adapters, NdisMRegisterDevice(a) PROVE ListInv'
  BY <1>12 DEF ListInv, NdisMRegisterDevice, MpGo, lists
<1>13. ASSUME NEW a \in Adapters, DeviceReady(a) PROVE ListInv'
  BY <1>13 DEF TypeRest, ListInv, DeviceReady, MpGo, lists
<1>14. ASSUME NEW a \in Adapters, ClearInitPending(a) PROVE ListInv'
  BY <1>14 DEF ListInv, ClearInitPending, MpGo, lists
<1>15. ASSUME NEW a \in Adapters, SignalInit(a) PROVE ListInv'
  BY <1>15 DEF ListInv, SignalInit, MpGo, lists
<1>16. ASSUME NEW a \in Adapters, CloseAdapter(a) PROVE ListInv'
  BY <1>16 DEF ListInv, CloseAdapter, MpGo
<1>17. ASSUME NEW a \in Adapters, UnlinkAdapter(a) PROVE ListInv'
  BY <1>17 DEF ListInv, UnlinkAdapter, MpGo
<1>18. ASSUME NEW a \in Adapters, PtDeregisterDevice(a) PROVE ListInv'
  BY <1>18 DEF ListInv, PtDeregisterDevice, MpGo, lists
<1>19. ASSUME NEW a \in Adapters, NdisMDeregisterDevice(a) PROVE ListInv'
  BY <1>19 DEF ListInv, NdisMDeregisterDevice, MpGo, lists
<1>20. ASSUME NEW a \in Adapters, HaltBinding(a) PROVE ListInv'
  BY <1>20 DEF ListInv, HaltBinding, MpGo, lists
<1>21. ASSUME NEW a \in Adapters, HaltClosed(a) PROVE ListInv'
  BY <1>21 DEF ListInv, HaltClosed, MpGo, lists
<1>22. ASSUME NEW a \in Adapters, HaltFree(a) PROVE ListInv'
  BY <1>22 DEF ListInv, HaltFree, MpGo, lists
<1>23. ASSUME NEW a \in Adapters, Disable(a) PROVE ListInv'
  BY <1>23 DEF ListInv, Disable, MpGo, lists
<1>24. ASSUME NEW a \in Adapters, PtUnbindAdapter(a) PROVE ListInv'
  BY <1>24 DEF ListInv, PtUnbindAdapter, lists
<1>25. ASSUME NEW a \in Adapters, CheckInitPending(a) PROVE ListInv'
  BY <1>25 DEF ListInv, CheckInitPending, lists
<1>26. ASSUME NEW a \in Adapters, NdisIMCancelInitializeDeviceInstance(a)
      PROVE  ListInv'
  BY <1>26 DEF TypeRest, ListInv, NdisIMCancelInitializeDeviceInstance, lists
<1>27. ASSUME NEW a \in Adapters, WaitInit(a) PROVE ListInv'
  BY <1>27 DEF ListInv, WaitInit, lists
<1>28. ASSUME NEW a \in Adapters, NdisIMDeInitializeDeviceInstance(a)
      PROVE  ListInv'
  BY <1>28 DEF ListInv, NdisIMDeInitializeDeviceInstance, MpGo, lists
<1>29. ASSUME NEW a \in Adapters, Halted(a) PROVE ListInv'
  BY <1>29 DEF ListInv, Halted, lists
<1>30. ASSUME NEW a \in Adapters, UnbindBinding(a) PROVE ListInv'
  BY <1>30 DEF ListInv, UnbindBinding, lists
<1>31. ASSUME NEW a \in Adapters, UnbindClosed(a) PROVE ListInv'
  BY <1>31 DEF ListInv, UnbindClosed, lists
<1>32. ASSUME NEW a \in Adapters, ReleaseAdapter(a) PROVE ListInv'
  BY <1>32 DEF ListInv, ReleaseAdapter, lists
<1>33. ASSUME NEW a \in Adapters, PtOpenAdapterComplete(a) PROVE ListInv'
  BY <1>33 DEF ListInv, PtOpenAdapterComplete, places, lists
<1>34. ASSUME NEW a \in Adapters, PtCloseAdapterComplete(a) PROVE ListInv'
  BY <1>34 DEF ListInv, PtCloseAdapterComplete, places, lists
<1>35. ASSUME UNCHANGED vars PROVE ListInv'
  BY <1>35 DEF ListInv, vars, places, lists
<1>. QED
  BY <1>1, <1>2, <1>3, <1>4, <1>5, <1>6, <1>7, <1>8, <1>9, <1>10, <1>11, <1>12,
     <1>13, <1>14, <1>15, <1>16, <1>17, <1>18, <1>19, <1>20, <1>21, <1>22,
     <1>23, <1>24, <1>25, <1>26, <1>27, <1>28, <1>29, <1>30, <1>31, <1>32,
     <1>33, <1>34, <1>35
     DEF Next, Binding, Initializing, Halting, Unbinding

\* Nothing was used after it was freed, and nothing was created twice.
Quiet == astray = FALSE

\* Nothing goes astray: what is used is there.
LEMMA QuietStep ==
    ASSUME TypeRest, PlaceInv, OwnedInv, DeviceInv, Quiet, [Next]_vars
    PROVE  Quiet'
<1>1. ASSUME NEW a \in Adapters, PtBindAdapter(a) PROVE Quiet'
  BY <1>1 DEF Quiet, PtBindAdapter
<1>2. ASSUME NEW a \in Adapters, NdisOpenAdapter(a) PROVE Quiet'
  BY <1>2 DEF Quiet, NdisOpenAdapter, history
<1>3. ASSUME NEW a \in Adapters, Opened(a) PROVE Quiet'
  BY <1>3 DEF Quiet, Opened, history
<1>4. ASSUME NEW a \in Adapters, NdisIMInitializeDeviceInstanceEx(a)
      PROVE  Quiet'
  BY <1>4 DEF Quiet, NdisIMInitializeDeviceInstanceEx, history
<1>5. ASSUME NEW a \in Adapters, UndoBinding(a) PROVE Quiet'
  BY <1>5 DEF Quiet, UndoBinding, history
<1>6. ASSUME NEW a \in Adapters, Undone(a) PROVE Quiet'
  BY <1>6 DEF Quiet, Undone, history
<1>7. ASSUME NEW a \in Adapters, FreeAdapter(a) PROVE Quiet'
  <2>1. Uses(a, {})
    BY <1>7 DEF FreeAdapter
  <2>2. {} \cup {"memory"} \subseteq owned[a]
    BY <1>7 DEF OwnedInv, PnpGo, FreeAdapter
  <2>. QED
    BY <2>1, <2>2, UsesWhatIsThere DEF Quiet
<1>8. ASSUME NEW a \in Adapters, MPInitialize(a) PROVE Quiet'
  <2>1. Uses(a, {})
    BY <1>8 DEF MPInitialize
  <2>2. {} \cup {"memory"} \subseteq owned[a]
    BY <1>8
       DEF TypeRest, PnpPlaces, PlaceInv, OwnedInv, Resources, MpGo,
           MPInitialize
  <2>. QED
    BY <2>1, <2>2, UsesWhatIsThere DEF Quiet
<1>9. ASSUME NEW a \in Adapters, ListAdapter(a) PROVE Quiet'
  BY <1>9 DEF Quiet, ListAdapter, history
<1>10. ASSUME NEW a \in Adapters, PtRegisterDevice(a) PROVE Quiet'
  BY <1>10 DEF Quiet, PtRegisterDevice, history
<1>11. ASSUME NEW a \in Adapters, AwaitDeletion(a) PROVE Quiet'
  BY <1>11 DEF Quiet, AwaitDeletion, history
<1>12. ASSUME NEW a \in Adapters, NdisMRegisterDevice(a) PROVE Quiet'
  <2>1. device = "none"
    BY <1>12 DEF NdisMRegisterDevice, MpGo, DeviceInv
  <2>. QED
    BY <1>12, <2>1 DEF NdisMRegisterDevice, Quiet
<1>13. ASSUME NEW a \in Adapters, DeviceReady(a) PROVE Quiet'
  BY <1>13 DEF Quiet, DeviceReady, history
<1>14. ASSUME NEW a \in Adapters, ClearInitPending(a) PROVE Quiet'
  <2>1. Uses(a, {})
    BY <1>14 DEF ClearInitPending
  <2>2. {} \cup {"memory"} \subseteq owned[a]
    BY <1>14
       DEF TypeRest, PnpPlaces, PlaceInv, OwnedInv, Resources, MpGo,
           ClearInitPending
  <2>. QED
    BY <2>1, <2>2, UsesWhatIsThere DEF Quiet
<1>15. ASSUME NEW a \in Adapters, SignalInit(a) PROVE Quiet'
  <2>1. Uses(a, {})
    BY <1>15 DEF SignalInit
  <2>2. {} \cup {"memory"} \subseteq owned[a]
    BY <1>15
       DEF TypeRest, PnpPlaces, PlaceInv, OwnedInv, Resources, MpGo, SignalInit
  <2>. QED
    BY <2>1, <2>2, UsesWhatIsThere DEF Quiet
<1>16. ASSUME NEW a \in Adapters, CloseAdapter(a) PROVE Quiet'
  BY <1>16 DEF Quiet, CloseAdapter, history
<1>17. ASSUME NEW a \in Adapters, UnlinkAdapter(a) PROVE Quiet'
  BY <1>17 DEF Quiet, UnlinkAdapter, history
<1>18. ASSUME NEW a \in Adapters, PtDeregisterDevice(a) PROVE Quiet'
  BY <1>18 DEF Quiet, PtDeregisterDevice, history
<1>19. ASSUME NEW a \in Adapters, NdisMDeregisterDevice(a) PROVE Quiet'
  BY <1>19 DEF Quiet, NdisMDeregisterDevice, history
<1>20. ASSUME NEW a \in Adapters, HaltBinding(a) PROVE Quiet'
  <2>1. Uses(a, {"binding"})
    BY <1>20 DEF HaltBinding
  <2>2. {"binding"} \cup {"memory"} \subseteq owned[a]
    BY <1>20
       DEF TypeRest, PnpPlaces, PlaceInv, OwnedInv, Resources, MpGo,
           HaltBinding
  <2>. QED
    BY <2>1, <2>2, UsesWhatIsThere DEF Quiet
<1>21. ASSUME NEW a \in Adapters, HaltClosed(a) PROVE Quiet'
  BY <1>21 DEF Quiet, HaltClosed, history
<1>22. ASSUME NEW a \in Adapters, HaltFree(a) PROVE Quiet'
  <2>1. Uses(a, ({"binding"} \cup Pools))
    BY <1>22 DEF HaltFree
  <2>2. ({"binding"} \cup Pools) \cup {"memory"} \subseteq owned[a]
    BY <1>22
       DEF TypeRest, PnpPlaces, PlaceInv, OwnedInv, Resources, MpGo, HaltFree
  <2>. QED
    BY <2>1, <2>2, UsesWhatIsThere DEF Quiet
<1>23. ASSUME NEW a \in Adapters, Disable(a) PROVE Quiet'
  BY <1>23 DEF Quiet, Disable, history
<1>24. ASSUME NEW a \in Adapters, PtUnbindAdapter(a) PROVE Quiet'
  BY <1>24 DEF Quiet, PtUnbindAdapter, history
<1>25. ASSUME NEW a \in Adapters, CheckInitPending(a) PROVE Quiet'
  <2>1. Uses(a, {})
    BY <1>25 DEF CheckInitPending
  <2>2. {} \cup {"memory"} \subseteq owned[a]
    BY <1>25 DEF OwnedInv, Resources, PnpGo, CheckInitPending
  <2>. QED
    BY <2>1, <2>2, UsesWhatIsThere DEF Quiet
<1>26. ASSUME NEW a \in Adapters, NdisIMCancelInitializeDeviceInstance(a)
      PROVE  Quiet'
  BY <1>26 DEF Quiet, NdisIMCancelInitializeDeviceInstance
<1>27. ASSUME NEW a \in Adapters, WaitInit(a) PROVE Quiet'
  BY <1>27 DEF Quiet, WaitInit, history
<1>28. ASSUME NEW a \in Adapters, NdisIMDeInitializeDeviceInstance(a)
      PROVE  Quiet'
  BY <1>28 DEF Quiet, NdisIMDeInitializeDeviceInstance, history
<1>29. ASSUME NEW a \in Adapters, Halted(a) PROVE Quiet'
  BY <1>29 DEF Quiet, Halted, history
<1>30. ASSUME NEW a \in Adapters, UnbindBinding(a) PROVE Quiet'
  <2>1. Uses(a, {"binding"})
    BY <1>30 DEF UnbindBinding
  <2>2. {"binding"} \cup {"memory"} \subseteq owned[a]
    BY <1>30 DEF OwnedInv, Resources, PnpGo, UnbindBinding
  <2>. QED
    BY <2>1, <2>2, UsesWhatIsThere DEF Quiet
<1>31. ASSUME NEW a \in Adapters, UnbindClosed(a) PROVE Quiet'
  BY <1>31 DEF Quiet, UnbindClosed, history
<1>32. ASSUME NEW a \in Adapters, ReleaseAdapter(a) PROVE Quiet'
  <2>1. Uses(a, {"binding"})
    BY <1>32 DEF ReleaseAdapter
  <2>2. {"binding"} \cup {"memory"} \subseteq owned[a]
    BY <1>32 DEF OwnedInv, Resources, PnpGo, ReleaseAdapter
  <2>. QED
    BY <2>1, <2>2, UsesWhatIsThere DEF Quiet
<1>33. ASSUME NEW a \in Adapters, PtOpenAdapterComplete(a) PROVE Quiet'
  <2>1. Uses(a, {})
    BY <1>33 DEF PtOpenAdapterComplete
  <2>2. {} \cup {"memory"} \subseteq owned[a]
    BY <1>33
       DEF TypeRest, PnpPlaces, OwnedInv, Resources, PtOpenAdapterComplete
  <2>. QED
    BY <2>1, <2>2, UsesWhatIsThere DEF Quiet
<1>34. ASSUME NEW a \in Adapters, PtCloseAdapterComplete(a) PROVE Quiet'
  <2>1. Uses(a, {})
    BY <1>34 DEF PtCloseAdapterComplete
  <2>2. {} \cup {"memory"} \subseteq owned[a]
    BY <1>34
       DEF TypeRest, PnpPlaces, OwnedInv, Resources, PtCloseAdapterComplete
  <2>. QED
    BY <2>1, <2>2, UsesWhatIsThere DEF Quiet
<1>35. ASSUME UNCHANGED vars PROVE Quiet'
  BY <1>35 DEF Quiet, vars, history
<1>. QED
  BY <1>1, <1>2, <1>3, <1>4, <1>5, <1>6, <1>7, <1>8, <1>9, <1>10, <1>11, <1>12,
     <1>13, <1>14, <1>15, <1>16, <1>17, <1>18, <1>19, <1>20, <1>21, <1>22,
     <1>23, <1>24, <1>25, <1>26, <1>27, <1>28, <1>29, <1>30, <1>31, <1>32,
     <1>33, <1>34, <1>35
     DEF Next, Binding, Initializing, Halting, Unbinding

\* Counting miniports.
LEMMA Counting ==
    ASSUME CountInv
    PROVE  /\ MiniportCount \in Nat
           /\ MiniportCount = 0 <=> Counted = {}
           /\ \A a \in Counted : /\ Cardinality(Counted \ {a}) = MiniportCount - 1
                                 /\ MiniportCount = 1 => Counted = {a}
           /\ \A a \in Adapters \ Counted :
                Cardinality(Counted \cup {a}) = MiniportCount + 1
<1>1. IsFiniteSet(Counted) /\ MiniportCount = Cardinality(Counted)
  BY AdaptersAssumption, FS_Subset DEF Counted, CountInv
<1>2. MiniportCount \in Nat /\ (MiniportCount = 0 <=> Counted = {})
  BY <1>1, FS_CardinalityType, FS_EmptySet
<1>3. ASSUME NEW a \in Counted
      PROVE  Cardinality(Counted \ {a}) = MiniportCount - 1
  BY <1>1, FS_RemoveElement
<1>4. ASSUME NEW a \in Counted, MiniportCount = 1 PROVE Counted = {a}
  <2>1. IsFiniteSet(Counted \ {a}) /\ Cardinality(Counted \ {a}) = 0
    BY <1>1, <1>3, <1>4, FS_RemoveElement
  <2>2. Counted \ {a} = {}
    BY <2>1, FS_EmptySet
  <2>. QED
    BY <2>2
<1>5. ASSUME NEW a \in Adapters \ Counted
      PROVE  Cardinality(Counted \cup {a}) = MiniportCount + 1
  BY <1>1, FS_AddElement
<1>. QED
  BY <1>2, <1>3, <1>4, <1>5



\* MiniportCount moves with the miniports.
LEMMA CountStep ==
    ASSUME TypeRest, PlaceInv, CountInv, [Next]_vars
    PROVE  CountInv'
<1>1. ASSUME NEW a \in Adapters, PtBindAdapter(a) PROVE CountInv'
  <2>1. UNCHANGED MiniportCount /\ Counted' = Counted
    BY <1>1 DEF PtBindAdapter, control, Counted
  <2>. QED
    BY <2>1 DEF CountInv
<1>2. ASSUME NEW a \in Adapters, NdisOpenAdapter(a) PROVE CountInv'
  <2>1. UNCHANGED MiniportCount /\ Counted' = Counted
    BY <1>2 DEF NdisOpenAdapter, control, Counted
  <2>. QED
    BY <2>1 DEF CountInv
<1>3. ASSUME NEW a \in Adapters, Opened(a) PROVE CountInv'
  <2>1. UNCHANGED MiniportCount /\ Counted' = Counted
    BY <1>3 DEF Opened, control, Counted
  <2>. QED
    BY <2>1 DEF CountInv
<1>4. ASSUME NEW a \in Adapters, NdisIMInitializeDeviceInstanceEx(a)
      PROVE  CountInv'
  <2>1. UNCHANGED MiniportCount /\ Counted' = Counted
    BY <1>4
       DEF NdisIMInitializeDeviceInstanceEx, PnpGo, control, TypeRest,
           PlaceInv, Counted, CountedPlaces
  <2>. QED
    BY <2>1 DEF CountInv
<1>5. ASSUME NEW a \in Adapters, UndoBinding(a) PROVE CountInv'
  <2>1. UNCHANGED MiniportCount /\ Counted' = Counted
    BY <1>5 DEF UndoBinding, control, Counted
  <2>. QED
    BY <2>1 DEF CountInv
<1>6. ASSUME NEW a \in Adapters, Undone(a) PROVE CountInv'
  <2>1. UNCHANGED MiniportCount /\ Counted' = Counted
    BY <1>6 DEF Undone, control, Counted
  <2>. QED
    BY <2>1 DEF CountInv
<1>7. ASSUME NEW a \in Adapters, FreeAdapter(a) PROVE CountInv'
  <2>1. UNCHANGED MiniportCount /\ Counted' = Counted
    BY <1>7 DEF FreeAdapter, control, Counted
  <2>. QED
    BY <2>1 DEF CountInv
<1>8. ASSUME NEW a \in Adapters, MPInitialize(a) PROVE CountInv'
  <2>1. UNCHANGED MiniportCount /\ Counted' = Counted
    BY <1>8 DEF MPInitialize, MpGo, control, Counted, CountedPlaces
  <2>. QED
    BY <2>1 DEF CountInv
<1>9. ASSUME NEW a \in Adapters, ListAdapter(a) PROVE CountInv'
  <2>1. UNCHANGED MiniportCount /\ Counted' = Counted
    BY <1>9 DEF ListAdapter, MpGo, control, Counted, CountedPlaces
  <2>. QED
    BY <2>1 DEF CountInv
<1>10. ASSUME NEW a \in Adapters, PtRegisterDevice(a) PROVE CountInv'
  <2>1. a \in Adapters \ Counted /\ Counted' = Counted \cup {a}
    BY <1>10 DEF PtRegisterDevice, MpGo, TypeRest, Counted, CountedPlaces
  <2>2. Cardinality(Counted \cup {a}) = MiniportCount + 1
    BY <2>1, Counting
  <2>. QED
    BY <1>10, <2>1, <2>2 DEF PtRegisterDevice, CountInv
<1>11. ASSUME NEW a \in Adapters, AwaitDeletion(a) PROVE CountInv'
  <2>1. UNCHANGED MiniportCount /\ Counted' = Counted
    BY <1>11 DEF AwaitDeletion, MpGo, Counted, CountedPlaces
  <2>. QED
    BY <2>1 DEF CountInv
<1>12. ASSUME NEW a \in Adapters, NdisMRegisterDevice(a) PROVE CountInv'
  <2>1. UNCHANGED MiniportCount /\ Counted' = Counted
    BY <1>12 DEF NdisMRegisterDevice, MpGo, Counted, CountedPlaces
  <2>. QED
    BY <2>1 DEF CountInv
<1>13. ASSUME NEW a \in Adapters, DeviceReady(a) PROVE CountInv'
  <2>1. UNCHANGED MiniportCount /\ Counted' = Counted
    BY <1>13 DEF DeviceReady, MpGo, TypeRest, Counted, CountedPlaces
  <2>. QED
    BY <2>1 DEF CountInv
<1>14. ASSUME NEW a \in Adapters, ClearInitPending(a) PROVE CountInv'
  <2>1. UNCHANGED MiniportCount /\ Counted' = Counted
    BY <1>14 DEF ClearInitPending, MpGo, control, Counted, CountedPlaces
  <2>. QED
    BY <2>1 DEF CountInv
<1>15. ASSUME NEW a \in Adapters, SignalInit(a) PROVE CountInv'
  <2>1. UNCHANGED MiniportCount /\ Counted' = Counted
    BY <1>15 DEF SignalInit, MpGo, control, Counted, CountedPlaces
  <2>. QED
    BY <2>1 DEF CountInv
<1>16. ASSUME NEW a \in Adapters, CloseAdapter(a) PROVE CountInv'
  <2>1. UNCHANGED MiniportCount /\ Counted' = Counted
    BY <1>16 DEF CloseAdapter, MpGo, control, Counted, CountedPlaces
  <2>. QED
    BY <2>1 DEF CountInv
<1>17. ASSUME NEW a \in Adapters, UnlinkAdapter(a) PROVE CountInv'
  <2>1. UNCHANGED MiniportCount /\ Counted' = Counted
    BY <1>17 DEF UnlinkAdapter, MpGo, control, Counted, CountedPlaces
  <2>. QED
    BY <2>1 DEF CountInv
<1>18. ASSUME NEW a \in Adapters, PtDeregisterDevice(a) PROVE CountInv'
  <2>1. a \in Counted /\ Counted' = Counted \ {a}
    BY <1>18 DEF PtDeregisterDevice, MpGo, TypeRest, Counted, CountedPlaces
  <2>2. Cardinality(Counted \ {a}) = MiniportCount - 1
    BY <2>1, Counting
  <2>. QED
    BY <1>18, <2>1, <2>2 DEF PtDeregisterDevice, CountInv
<1>19. ASSUME NEW a \in Adapters, NdisMDeregisterDevice(a) PROVE CountInv'
  <2>1. UNCHANGED MiniportCount /\ Counted' = Counted
    BY <1>19 DEF NdisMDeregisterDevice, MpGo, Counted, CountedPlaces
  <2>. QED
    BY <2>1 DEF CountInv
<1>20. ASSUME NEW a \in Adapters, HaltBinding(a) PROVE CountInv'
  <2>1. UNCHANGED MiniportCount /\ Counted' = Counted
    BY <1>20 DEF HaltBinding, MpGo, control, Counted, CountedPlaces
  <2>. QED
    BY <2>1 DEF CountInv
<1>21. ASSUME NEW a \in Adapters, HaltClosed(a) PROVE CountInv'
  <2>1. UNCHANGED MiniportCount /\ Counted' = Counted
    BY <1>21 DEF HaltClosed, MpGo, control, Counted, CountedPlaces
  <2>. QED
    BY <2>1 DEF CountInv
<1>22. ASSUME NEW a \in Adapters, HaltFree(a) PROVE CountInv'
  <2>1. UNCHANGED MiniportCount /\ Counted' = Counted
    BY <1>22 DEF HaltFree, MpGo, control, Counted, CountedPlaces
  <2>. QED
    BY <2>1 DEF CountInv
<1>23. ASSUME NEW a \in Adapters, Disable(a) PROVE CountInv'
  <2>1. UNCHANGED MiniportCount /\ Counted' = Counted
    BY <1>23 DEF Disable, MpGo, control, Counted, CountedPlaces
  <2>. QED
    BY <2>1 DEF CountInv
<1>24. ASSUME NEW a \in Adapters, PtUnbindAdapter(a) PROVE CountInv'
  <2>1. UNCHANGED MiniportCount /\ Counted' = Counted
    BY <1>24 DEF PtUnbindAdapter, control, Counted
  <2>. QED
    BY <2>1 DEF CountInv
<1>25. ASSUME NEW a \in Adapters, CheckInitPending(a) PROVE CountInv'
  <2>1. UNCHANGED MiniportCount /\ Counted' = Counted
    BY <1>25 DEF CheckInitPending, control, Counted
  <2>. QED
    BY <2>1 DEF CountInv
<1>26. ASSUME NEW a \in Adapters, NdisIMCancelInitializeDeviceInstance(a)
      PROVE  CountInv'
  <2>1. UNCHANGED MiniportCount /\ Counted' = Counted
    BY <1>26
       DEF NdisIMCancelInitializeDeviceInstance, control, TypeRest, Counted,
           CountedPlaces
  <2>. QED
    BY <2>1 DEF CountInv
<1>27. ASSUME NEW a \in Adapters, WaitInit(a) PROVE CountInv'
  <2>1. UNCHANGED MiniportCount /\ Counted' = Counted
    BY <1>27 DEF WaitInit, control, Counted
  <2>. QED
    BY <2>1 DEF CountInv
<1>28. ASSUME NEW a \in Adapters, NdisIMDeInitializeDeviceInstance(a)
      PROVE  CountInv'
  <2>1. UNCHANGED MiniportCount /\ Counted' = Counted
    BY <1>28
       DEF NdisIMDeInitializeDeviceInstance, MpGo, control, Counted,
           CountedPlaces
  <2>. QED
    BY <2>1 DEF CountInv
<1>29. ASSUME NEW a \in Adapters, Halted(a) PROVE CountInv'
  <2>1. UNCHANGED MiniportCount /\ Counted' = Counted
    BY <1>29 DEF Halted, control, Counted
  <2>. QED
    BY <2>1 DEF CountInv
<1>30. ASSUME NEW a \in Adapters, UnbindBinding(a) PROVE CountInv'
  <2>1. UNCHANGED MiniportCount /\ Counted' = Counted
    BY <1>30 DEF UnbindBinding, control, Counted
  <2>. QED
    BY <2>1 DEF CountInv
<1>31. ASSUME NEW a \in Adapters, UnbindClosed(a) PROVE CountInv'
  <2>1. UNCHANGED MiniportCount /\ Counted' = Counted
    BY <1>31 DEF UnbindClosed, control, Counted
  <2>. QED
    BY <2>1 DEF CountInv
<1>32. ASSUME NEW a \in Adapters, ReleaseAdapter(a) PROVE CountInv'
  <2>1. UNCHANGED MiniportCount /\ Counted' = Counted
    BY <1>32 DEF ReleaseAdapter, control, Counted
  <2>. QED
    BY <2>1 DEF CountInv
<1>33. ASSUME NEW a \in Adapters, PtOpenAdapterComplete(a) PROVE CountInv'
  <2>1. UNCHANGED MiniportCount /\ Counted' = Counted
    BY <1>33 DEF PtOpenAdapterComplete, places, control, Counted
  <2>. QED
    BY <2>1 DEF CountInv
<1>34. ASSUME NEW a \in Adapters, PtCloseAdapterComplete(a) PROVE CountInv'
  <2>1. UNCHANGED MiniportCount /\ Counted' = Counted
    BY <1>34 DEF PtCloseAdapterComplete, places, control, Counted
  <2>. QED
    BY <2>1 DEF CountInv
<1>35. ASSUME UNCHANGED vars PROVE CountInv'
  BY <1>35 DEF CountInv, Counted, vars, places, control
<1>. QED
  BY <1>1, <1>2, <1>3, <1>4, <1>5, <1>6, <1>7, <1>8, <1>9, <1>10, <1>11, <1>12,
     <1>13, <1>14, <1>15, <1>16, <1>17, <1>18, <1>19, <1>20, <1>21, <1>22,
     <1>23, <1>24, <1>25, <1>26, <1>27, <1>28, <1>29, <1>30, <1>31, <1>32,
     <1>33, <1>34, <1>35
     DEF Next, Binding, Initializing, Halting, Unbinding

\* The control device comes with the first miniport and goes with the last.
LEMMA DeviceStep ==
    ASSUME TypeRest, PlaceInv, CountInv, DeviceInv, [Next]_vars
    PROVE  DeviceInv'
<1>1. ASSUME NEW a \in Adapters, PtBindAdapter(a) PROVE DeviceInv'
  BY <1>1 DEF DeviceInv, Counted, PtBindAdapter, control
<1>2. ASSUME NEW a \in Adapters, NdisOpenAdapter(a) PROVE DeviceInv'
  BY <1>2 DEF DeviceInv, Counted, NdisOpenAdapter, control
<1>3. ASSUME NEW a \in Adapters, Opened(a) PROVE DeviceInv'
  BY <1>3 DEF DeviceInv, Counted, Opened, control
<1>4. ASSUME NEW a \in Adapters, NdisIMInitializeDeviceInstanceEx(a)
      PROVE  DeviceInv'
  BY <1>4
     DEF TypeRest, PlaceInv, DeviceInv, Counted, CountedPlaces, Making,
         Deleting, NdisIMInitializeDeviceInstanceEx, PnpGo, control
<1>5. ASSUME NEW a \in Adapters, UndoBinding(a) PROVE DeviceInv'
  BY <1>5 DEF DeviceInv, Counted, UndoBinding, control
<1>6. ASSUME NEW a \in Adapters, Undone(a) PROVE DeviceInv'
  BY <1>6 DEF DeviceInv, Counted, Undone, control
<1>7. ASSUME NEW a \in Adapters, FreeAdapter(a) PROVE DeviceInv'
  BY <1>7 DEF DeviceInv, Counted, FreeAdapter, control
<1>8. ASSUME NEW a \in Adapters, MPInitialize(a) PROVE DeviceInv'
  BY <1>8
     DEF DeviceInv, Counted, CountedPlaces, Making, Deleting, MPInitialize,
         MpGo, control
<1>9. ASSUME NEW a \in Adapters, ListAdapter(a) PROVE DeviceInv'
  BY <1>9
     DEF DeviceInv, Counted, CountedPlaces, Making, Deleting, ListAdapter,
         MpGo, control
<1>10. ASSUME NEW a \in Adapters, PtRegisterDevice(a) PROVE DeviceInv'
  <2>1. /\ mp[a] = "register"
        /\ mp' = [mp EXCEPT ![a] = IF Counted = {} THEN "await" ELSE "flag"]
        /\ UNCHANGED <<ControlDeviceState, device>>
    BY <1>10, Counting DEF PtRegisterDevice, MpGo
  <2>2. a \in Counted'
    BY <2>1 DEF TypeRest, Counted, CountedPlaces
  <2>3. CASE Counted = {}
    BY <2>1 DEF DeviceInv, Making, Deleting, Counted, CountedPlaces
  <2>4. CASE Counted # {}
    BY <2>1, <2>2, <2>4 DEF DeviceInv, Making, Deleting, Counted
  <2>. QED
    BY <2>3, <2>4
<1>11. ASSUME NEW a \in Adapters, AwaitDeletion(a) PROVE DeviceInv'
  BY <1>11 DEF TypeRest, DeviceInv, Making, Deleting, AwaitDeletion, MpGo
<1>12. ASSUME NEW a \in Adapters, NdisMRegisterDevice(a) PROVE DeviceInv'
  BY <1>12 DEF TypeRest, DeviceInv, Making, Deleting, NdisMRegisterDevice, MpGo
<1>13. ASSUME NEW a \in Adapters, DeviceReady(a) PROVE DeviceInv'
  BY <1>13
     DEF TypeRest, DeviceInv, Counted, CountedPlaces, Making, Deleting,
         DeviceReady, MpGo
<1>14. ASSUME NEW a \in Adapters, ClearInitPending(a) PROVE DeviceInv'
  BY <1>14
     DEF DeviceInv, Counted, CountedPlaces, Making, Deleting, ClearInitPending,
         MpGo, control
<1>15. ASSUME NEW a \in Adapters, SignalInit(a) PROVE DeviceInv'
  BY <1>15
     DEF DeviceInv, Counted, CountedPlaces, Making, Deleting, SignalInit, MpGo,
         control
<1>16. ASSUME NEW a \in Adapters, CloseAdapter(a) PROVE DeviceInv'
  BY <1>16
     DEF DeviceInv, Counted, CountedPlaces, Making, Deleting, CloseAdapter,
         MpGo, control
<1>17. ASSUME NEW a \in Adapters, UnlinkAdapter(a) PROVE DeviceInv'
  BY <1>17
     DEF DeviceInv, Counted, CountedPlaces, Making, Deleting, UnlinkAdapter,
         MpGo, control
<1>18. ASSUME NEW a \in Adapters, PtDeregisterDevice(a) PROVE DeviceInv'
  <2>1. /\ mp[a] = "deregister" /\ a \in Counted
        /\ mp' = [mp EXCEPT ![a] = IF MiniportCount = 1 THEN "delete" ELSE "close"]
        /\ ControlDeviceState' = IF MiniportCount = 1 THEN "DELETING"
                                                      ELSE ControlDeviceState
        /\ UNCHANGED device
    BY <1>18 DEF PtDeregisterDevice, MpGo, Counted, CountedPlaces
  <2>2. Counted' = Counted \ {a}
    BY <2>1 DEF TypeRest, Counted, CountedPlaces
  <2>3. CASE MiniportCount = 1
    <3>1. Counted = {a}
      BY <2>1, <2>3, Counting
    <3>2. \A b \in Adapters : mp[b] \notin Making \cup Deleting
      BY <2>1, <3>1 DEF DeviceInv, Counted, CountedPlaces, Making
    <3>. QED
      BY <2>1, <2>2, <2>3, <3>1, <3>2
         DEF DeviceInv, Deleting, Counted, CountedPlaces
  <2>4. CASE MiniportCount # 1
    <3>1. PICK b \in Adapters : b # a /\ mp[b] \in CountedPlaces
      <4>1. Cardinality(Counted \ {a}) # 0
        BY <2>1, <2>4, Counting
      <4>. QED
        BY <4>1, FS_EmptySet DEF Counted
    <3>2. mp'[b] \in CountedPlaces /\ Counted' # {} /\ Counted # {}
      BY <2>1, <3>1 DEF Counted
    <3>. QED
      BY <2>1, <2>4, <3>1, <3>2 DEF DeviceInv, Making, Deleting
  <2>. QED
    BY <2>3, <2>4
<1>19. ASSUME NEW a \in Adapters, NdisMDeregisterDevice(a) PROVE DeviceInv'
  BY <1>19
     DEF DeviceInv, CountedPlaces, Making, Deleting, NdisMDeregisterDevice,
         MpGo
<1>20. ASSUME NEW a \in Adapters, HaltBinding(a) PROVE DeviceInv'
  BY <1>20
     DEF DeviceInv, Counted, CountedPlaces, Making, Deleting, HaltBinding,
         MpGo, control
<1>21. ASSUME NEW a \in Adapters, HaltClosed(a) PROVE DeviceInv'
  BY <1>21
     DEF DeviceInv, Counted, CountedPlaces, Making, Deleting, HaltClosed, MpGo,
         control
<1>22. ASSUME NEW a \in Adapters, HaltFree(a) PROVE DeviceInv'
  BY <1>22
     DEF DeviceInv, Counted, CountedPlaces, Making, Deleting, HaltFree, MpGo,
         control
<1>23. ASSUME NEW a \in Adapters, Disable(a) PROVE DeviceInv'
  BY <1>23
     DEF DeviceInv, Counted, CountedPlaces, Making, Deleting, Disable, MpGo,
         control
<1>24. ASSUME NEW a \in Adapters, PtUnbindAdapter(a) PROVE DeviceInv'
  BY <1>24 DEF DeviceInv, Counted, PtUnbindAdapter, control
<1>25. ASSUME NEW a \in Adapters, CheckInitPending(a) PROVE DeviceInv'
  BY <1>25 DEF DeviceInv, Counted, CheckInitPending, control
<1>26. ASSUME NEW a \in Adapters, NdisIMCancelInitializeDeviceInstance(a)
      PROVE  DeviceInv'
  BY <1>26
     DEF TypeRest, DeviceInv, Counted, CountedPlaces, Making, Deleting,
         NdisIMCancelInitializeDeviceInstance, control
<1>27. ASSUME NEW a \in Adapters, WaitInit(a) PROVE DeviceInv'
  BY <1>27 DEF DeviceInv, Counted, WaitInit, control
<1>28. ASSUME NEW a \in Adapters, NdisIMDeInitializeDeviceInstance(a)
      PROVE  DeviceInv'
  BY <1>28
     DEF DeviceInv, Counted, CountedPlaces, Making, Deleting,
         NdisIMDeInitializeDeviceInstance, MpGo, control
<1>29. ASSUME NEW a \in Adapters, Halted(a) PROVE DeviceInv'
  BY <1>29 DEF DeviceInv, Counted, Halted, control
<1>30. ASSUME NEW a \in Adapters, UnbindBinding(a) PROVE DeviceInv'
  BY <1>30 DEF DeviceInv, Counted, UnbindBinding, control
<1>31. ASSUME NEW a \in Adapters, UnbindClosed(a) PROVE DeviceInv'
  BY <1>31 DEF DeviceInv, Counted, UnbindClosed, control
<1>32. ASSUME NEW a \in Adapters, ReleaseAdapter(a) PROVE DeviceInv'
  BY <1>32 DEF DeviceInv, Counted, ReleaseAdapter, control
<1>33. ASSUME NEW a \in Adapters, PtOpenAdapterComplete(a) PROVE DeviceInv'
  BY <1>33 DEF DeviceInv, Counted, PtOpenAdapterComplete, places, control
<1>34. ASSUME NEW a \in Adapters, PtCloseAdapterComplete(a) PROVE DeviceInv'
  BY <1>34 DEF DeviceInv, Counted, PtCloseAdapterComplete, places, control
<1>35. ASSUME UNCHANGED vars PROVE DeviceInv'
  BY <1>35 DEF DeviceInv, Counted, vars, places, control
<1>. QED
  BY <1>1, <1>2, <1>3, <1>4, <1>5, <1>6, <1>7, <1>8, <1>9, <1>10, <1>11, <1>12,
     <1>13, <1>14, <1>15, <1>16, <1>17, <1>18, <1>19, <1>20, <1>21, <1>22,
     <1>23, <1>24, <1>25, <1>26, <1>27, <1>28, <1>29, <1>30, <1>31, <1>32,
     <1>33, <1>34, <1>35
     DEF Next, Binding, Initializing, Halting, Unbinding

-----------------------------------------------------------------------------

\* The invariant holds of a driver that is not loaded yet.
LEMMA InitInv == Init => IndInv
<1>. SUFFICES ASSUME Init PROVE IndInv
  OBVIOUS
<1>1. Counted = {} /\ Cardinality(Counted) = 0
  BY FS_EmptySet DEF Init, Counted, CountedPlaces
<1>2. TypeOK
  <2>1. Cardinality(Adapters) \in Nat
    BY AdaptersAssumption, FS_CardinalityType
  <2>2. 0 \in 0 .. Cardinality(Adapters)
    BY <2>1
  <2>. QED
    BY <2>2 DEF Init, TypeOK, PnpPlaces, MpPlaces
<1>3. PlaceInv /\ FlagInv /\ OwnedInv /\ ListInv
  BY DEF Init, PlaceInv, FlagInv, OwnedInv, ListInv, Pools
<1>4. CountInv /\ DeviceInv /\ astray = FALSE
  BY <1>1 DEF Init, CountInv, DeviceInv, Making, Deleting
<1>. QED
  BY <1>2, <1>3, <1>4 DEF IndInv

\* Every step keeps the invariant.
LEMMA StepInv == IndInv /\ [Next]_vars => IndInv'
<1>. SUFFICES ASSUME IndInv, [Next]_vars PROVE IndInv'
  OBVIOUS
<1>1. TypeRest /\ TypeRest'
  BY TypeStep DEF IndInv, TypeOK, TypeRest
<1>2. PlaceInv' /\ FlagInv' /\ OwnedInv' /\ ListInv' /\ CountInv' /\ DeviceInv'
  BY <1>1, PlaceStep, FlagStep, OwnedStep, ListStep, CountStep, DeviceStep
     DEF IndInv
<1>3. astray' = FALSE
  BY <1>1, QuietStep DEF IndInv, Quiet
<1>4. TypeOK'
  <2>1. Cardinality(Counted') <= Cardinality(Adapters)
        /\ Cardinality(Counted') \in Nat /\ Cardinality(Adapters) \in Nat
    BY AdaptersAssumption, FS_Subset, FS_CardinalityType DEF Counted
  <2>2. MiniportCount' \in 0 .. Cardinality(Adapters)
    BY <1>2, <2>1 DEF CountInv
  <2>. QED
    BY <1>1, <1>3, <2>2 DEF TypeOK, TypeRest
<1>. QED
  BY <1>2, <1>3, <1>4 DEF IndInv

\* Both threads of every adapter keep to their places, and so do the threads
\* that have the control device in hand.
THEOREM Invariance == Spec => []IndInv
  BY InitInv, StepInv, PTL DEF Spec

\* PtBindAdapter, PtUnbindAdapter and MPHalt close the binding and free the
\* adapter once between them, nothing is used after it was freed, the control
\* device is not created twice, and a binding that is gone has left nothing but
\* the pools of one whose initialization was cancelled.
THEOREM AdapterReleasedOnce == Spec => []ReleasedOnce
<1>1. IndInv => ReleasedOnce
  BY DEF IndInv, FlagInv, OwnedInv, ReleasedOnce
<1>. QED
  BY <1>1, Invariance, PTL

\* No list of the driver names an adapter whose memory MPHalt or
\* PtUnbindAdapter has freed.
THEOREM ListedAdaptersLive == Spec => []NamedAdaptersLive
<1>1. IndInv => NamedAdaptersLive
  <2>. SUFFICES ASSUME IndInv, NEW a \in pAdaptList \cup open
                PROVE  "memory" \in owned[a]
    BY DEF NamedAdaptersLive
  <2>1. a \in Adapters /\ mp[a] \notin {"none", "requested"}
    BY DEF IndInv, TypeOK, ListInv
  <2>2. owned[a] = Resources
    BY <2>1 DEF IndInv, TypeOK, PnpPlaces, PlaceInv, OwnedInv
  <2>. QED
    BY <2>2 DEF Resources
<1>. QED
  BY <1>1, Invariance, PTL

\* PtRegisterDevice and PtDeregisterDevice: when none of them is at work, there
\* is a control device iff there are miniports.
THEOREM DeviceAlwaysExact == Spec => []DeviceExact
<1>1. IndInv => DeviceExact
  <2>. SUFFICES ASSUME IndInv, \A a \in Adapters : mp[a] \notin Making \cup Deleting
                PROVE  /\ ControlDeviceState = "READY"
                       /\ (device # "none") = (MiniportCount > 0)
    BY DEF DeviceExact, Making, Deleting
  <2>1. ControlDeviceState = "READY" /\ (device # "none" <=> Counted # {})
    BY DEF IndInv, DeviceInv, Making
  <2>2. MiniportCount \in Nat /\ (MiniportCount = 0 <=> Counted = {})
    BY Counting DEF IndInv
  <2>. QED
    BY <2>1, <2>2
<1>. QED
  BY <1>1, Invariance, PTL
=============================================================================
