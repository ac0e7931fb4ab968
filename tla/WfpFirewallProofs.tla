------------------------- MODULE WfpFirewallProofs -------------------------
(***************************************************************************)
(* What holds of WfpFirewall for any number of layers, starts of the BFE,  *)
(* processes, remote ends, flows and connections.                          *)
(***************************************************************************)
EXTENDS WfpFirewall, ListsProofs

-----------------------------------------------------------------------------
(* The inductive invariant: loading, unloading and registering *)

\* How far the driver is, and what it has not done yet or has undone.
Loads ==
    /\ drv = "new" => ~subscribed /\ gInj = 0 /\ reg.by = NULL
    /\ drv = "subscribing" => ~subscribed /\ (bfe => unlucky)
    /\ drv \in {"removing", "unregistering", "unsubscribing"} => ~monitor

\* Once the filters are removed, registering can only go on if it is late.
Unloads == ~late =>
    /\ drv \in {"unregistering", "unsubscribing"} => ~filters /\ reg.by = NULL
    /\ drv = "unsubscribing" => callouts = {}

\* What the BFE has given is gone without it, and it only calls who subscribed.
NeedsBfe ==
    /\ filters \/ reg.session => bfe
    /\ notice => bfe /\ subscribed
    /\ reg.by = NULL => reg = NoReg

\* Every injection handle belongs to a start of the BFE, and those to come do.
StartsCounted ==
    /\ gInj + (IF reg.by # NULL /\ reg.step = 0 THEN 1 ELSE 0)
            + (IF notice THEN 1 ELSE 0) <= starts
    /\ bfe => starts > 0

\* Registering has done what comes before the step it is at.
Registers == ~late /\ reg.step > 0 =>
    1..(reg.step - 1) \subseteq callouts /\ gInj \in handles

Remembers ==
    drv \in {"connecting", "in"} /\ bfe =>
        filters \/ notice \/ reg.by = "bfe" \/ unlucky

\* What FiltersBacked says beside the types.
Backed == filters /\ ~late =>
    callouts = 1..Layers /\ (gInj \in handles \/ unlucky)

DriverInv ==
    /\ Loads /\ Unloads /\ NeedsBfe /\ StartsCounted /\ Registers /\ Remembers
    /\ NothingLeft /\ Backed

-----------------------------------------------------------------------------
(* ... the table of connections *)

Listed == ToSet(conns)

\* The list holds entries with an address.  An entry behind which there is an
\* unconnected one belongs to a socket without an address: AddConnection would
\* have updated the unconnected one instead of adding an entry with an address.
EntriesInv ==
    /\ conns \in Seq(Conns)
    /\ \A c \in Listed : entry[c].addr # NULL
    /\ \A c, d \in Listed :
          entry[c].remote = NULL /\ c \in After(conns, d) => entry[d].addr = AnyAddr

\* Where a flow is, and that no two that are active have the same ends.
FlowsInv ==
    /\ \A f \in Flows :
          /\ flow[f].state = "idle" => flow[f] = NoFlow
          /\ flow[f].state # "idle" => flow[f].remote # NULL
          /\ flow[f].state = "connecting" => flow[f].conn = NULL
          /\ flow[f].state \in {"establishing", "closing"} => flow[f].conn # NULL
    /\ \A f, g \in Flows :
          Active(f) /\ Active(g) /\ flow[f].remote = flow[g].remote => f = g
    /\ \A f \in Flows : Active(f) => flow[f].by = socket.by /\ socket.by # NULL

\* A connection that GetConnection finds if it is looked for.
Findable(c) ==
    \/ entry[c].addr = AnyAddr
    \/ \A d \in Listed :
          entry[d].addr = Here /\ entry[d].remote = entry[c].remote =>
              d = c \/ d \in After(conns, c)

\* An entry for flow f that is not the context of another flow.
Owns(f, c) ==
    /\ entry[c].remote = flow[f].remote
    /\ \A g \in Flows \ {f} : flow[g].conn # c
    /\ ~captured /\ flow[f].state = "connecting" => Findable(c)

\* Every active flow has an entry of its own: whatever ends, its process is
\* still found.
OwnEntry == ~starved =>
    \A f \in Flows : Active(f) => \E c \in Listed : Owns(f, c)

TableInv == EntriesInv /\ FlowsInv /\ OwnEntry /\ ContextLive

-----------------------------------------------------------------------------
(* ... and the packet *)

\* Who injects the clone, or may do so when the clients let it pass.
Injecting == {a \in Actors : at[a] \in {"ask", "check", "send", "clear"}}

\* The clients of the request, and that a client is in a call only while it holds
\* the request.
HoldersInv ==
    /\ fwList \in Seq(Clients) /\ IsInjective(fwList)
    /\ IsFiniteSet(held)
    /\ refs = Cardinality(held) + (IF at[Callout] = "idle" THEN 0 ELSE 1)
    /\ mayInject \subseteq held /\ held \subseteq Registered
    /\ \A c \in Clients : at[c] # "idle" => c \in held /\ at[c] \notin {"ask", "free"}
    /\ at[Callout] = "ask" => held = {}

\* The request goes down the list of clients once: one of them at a time may
\* let it pass, and those behind that one have not kept it yet.
WalkInv ==
    /\ \A c, d \in mayInject : c = d
    /\ \A c \in mayInject : After(fwList, c) \cap held = {}

\* No two may inject, unless a client kept the request and let it pass.
TokenInv == ~rivals =>
    /\ \A a, b \in Injecting : a = b
    /\ mayInject = {} \/ Injecting = {}

\* Where the clone is.
CloneInv == ~rivals =>
    /\ ~misused
    /\ clone = "driver" => refs > 0 /\ ptr
    /\ ptr => clone = "driver" \/ \E a \in Actors : at[a] = "clear"
    /\ \A a \in Actors : /\ at[a] = "send" => ptr
                         /\ at[a] = "clear" => clone \in {"wfp", "freed"}

PacketInv == HoldersInv /\ WalkInv /\ TokenInv /\ CloneInv

\* The parts of TypeOK.
DriverTypeOK ==
    /\ drv \in {"new", "registering", "subscribing", "connecting", "in",
                "removing", "unregistering", "unsubscribing", "gone"}
    /\ {monitor, device, subscribed, abandoned, bfe, notice, filters, unlucky, late}
         \subseteq BOOLEAN
    /\ starts \in 0..MaxStarts
    /\ reg \in [by : {NULL, "driver", "bfe"}, step : 0..(Layers + 1),
                session : BOOLEAN]
    /\ callouts \subseteq 1..Layers
    /\ gInj \in 0..(MaxStarts + 1) /\ handles \subseteq 1..gInj
    /\ reg.by = "driver" <=> drv = "registering"

IndInv == TypeOK /\ DriverInv /\ TableInv /\ PacketInv

-----------------------------------------------------------------------------
(* Loading, unloading and registering *)

\* Loading begins: registering when the BFE runs, else subscribing.
LEMMA DriverEntryKeeps ==
    ASSUME DriverTypeOK, DriverInv, drv # "gone", DriverEntry
    PROVE  DriverTypeOK' /\ DriverInv'
<1> USE ConnectionsAssumption, ConstantsAssumption DEF DriverInv
<1>1. DriverTypeOK'
  <2>1. (drv \in {"new", "registering", "subscribing", "connecting", "in",
                "removing", "unregistering", "unsubscribing", "gone"})'
    BY DEF DriverEntry
  <2>2. ({monitor, device, subscribed, abandoned, bfe, notice, filters, unlucky, late}
           \subseteq BOOLEAN)'
    BY DEF DriverEntry, DriverTypeOK, engine
  <2>3. (starts \in 0..MaxStarts)'
    BY DEF DriverEntry, DriverTypeOK, engine
  <2>4. (reg \in [by : {NULL, "driver", "bfe"}, step : 0..(Layers + 1),
                  session : BOOLEAN])'
    <3>1. 0 \in 0..(Layers + 1)
      OBVIOUS
    <3>2. CASE reg' = reg
      BY <3>2 DEF DriverTypeOK
    <3>3. CASE reg' = [by |-> "driver", step |-> 0, session |-> FALSE]
      BY <3>3
    <3> QED
      BY <3>2, <3>3 DEF DriverEntry, NoReg
  <2>5. (callouts \subseteq 1..Layers)'
    BY DEF DriverEntry, DriverTypeOK
  <2>6. (gInj \in 0..(MaxStarts + 1) /\ handles \subseteq 1..gInj)'
    BY DEF DriverEntry, DriverTypeOK
  <2>7. (reg.by = "driver" <=> drv = "registering")'
    BY DEF DriverEntry, DriverTypeOK, NoReg
  <2> QED
    BY <2>1, <2>2, <2>3, <2>4, <2>5, <2>6, <2>7 DEF DriverTypeOK
<1>2. Loads'
  BY DEF DriverEntry, Loads, engine
<1>3. Unloads'
  BY DEF DriverEntry, Unloads
<1>4. NeedsBfe'
  BY DEF DriverEntry, NeedsBfe, NoReg, engine
<1>5. StartsCounted'
  BY DEF DriverEntry, StartsCounted, NeedsBfe, Loads, DriverTypeOK, engine
<1>6. Registers'
  BY DEF DriverEntry, Registers, NoReg
<1>7. Remembers'
  BY DEF DriverEntry, Remembers
<1>8. NothingLeft'
  BY DEF DriverEntry, NothingLeft
<1>9. Backed'
  BY DEF DriverEntry, Backed
<1> QED
  BY <1>1, <1>2, <1>3, <1>4, <1>5, <1>6, <1>7, <1>8, <1>9

\* A start of the BFE that comes before is missed, later ones are notified.
LEMMA SubscribeChangesKeeps ==
    ASSUME DriverTypeOK, DriverInv, drv # "gone", SubscribeChanges
    PROVE  DriverTypeOK' /\ DriverInv'
<1> USE ConnectionsAssumption, ConstantsAssumption DEF DriverInv
<1>1. DriverTypeOK'
  BY DEF SubscribeChanges, DriverTypeOK, StartsCounted, engine, wfp
<1>2. Loads'
  BY DEF SubscribeChanges, Loads
<1>3. Unloads'
  BY DEF SubscribeChanges, Unloads
<1>4. NeedsBfe'
  BY DEF SubscribeChanges, NeedsBfe, engine, wfp
<1>5. StartsCounted'
  BY DEF SubscribeChanges, StartsCounted, engine, wfp
<1>6. Registers'
  BY DEF SubscribeChanges, Registers, wfp
<1>7. Remembers'
  BY DEF SubscribeChanges, Remembers, Loads, engine, wfp
<1>8. NothingLeft'
  BY DEF SubscribeChanges, NothingLeft
<1>9. Backed'
  BY DEF SubscribeChanges, Backed, wfp
<1> QED
  BY <1>1, <1>2, <1>3, <1>4, <1>5, <1>6, <1>7, <1>8, <1>9

\* Loaded, or undoing what was done.
LEMMA ConnectKeeps ==
    ASSUME DriverTypeOK, DriverInv, drv # "gone", Connect
    PROVE  DriverTypeOK' /\ DriverInv'
<1> USE ConnectionsAssumption, ConstantsAssumption DEF DriverInv
<1>1. DriverTypeOK'
  BY DEF Connect, DriverTypeOK, StartsCounted, engine, wfp
<1>2. Loads'
  BY DEF Connect, Loads
<1>3. Unloads'
  BY DEF Connect, Unloads
<1>4. NeedsBfe'
  BY DEF Connect, NeedsBfe, engine, wfp
<1>5. StartsCounted'
  BY DEF Connect, StartsCounted, engine, wfp
<1>6. Registers'
  BY DEF Connect, Registers, wfp
<1>7. Remembers'
  BY DEF Connect, Remembers, engine, wfp
<1>8. NothingLeft'
  BY DEF Connect, NothingLeft
<1>9. Backed'
  BY DEF Connect, Backed, wfp
<1> QED
  BY <1>1, <1>2, <1>3, <1>4, <1>5, <1>6, <1>7, <1>8, <1>9

\* Registering in a notification takes over its start of the BFE.
LEMMA NotifiedKeeps ==
    ASSUME DriverTypeOK, DriverInv, drv # "gone", Notified
    PROVE  DriverTypeOK' /\ DriverInv'
<1> USE ConnectionsAssumption, ConstantsAssumption DEF DriverInv
<1>1. DriverTypeOK'
  <2>1. (drv \in {"new", "registering", "subscribing", "connecting", "in",
                "removing", "unregistering", "unsubscribing", "gone"})'
    BY DEF Notified, DriverTypeOK, driver
  <2>2. ({monitor, device, subscribed, abandoned, bfe, notice, filters, unlucky, late}
           \subseteq BOOLEAN)'
    <3>1. late' \in BOOLEAN
      BY DEF Notified
    <3>2. UNCHANGED <<monitor, device, subscribed, abandoned, bfe, filters, unlucky>>
      BY DEF Notified, driver
    <3>3. notice' = FALSE
      BY DEF Notified
    <3> QED
      BY <3>1, <3>2, <3>3 DEF DriverTypeOK
  <2>3. (starts \in 0..MaxStarts)'
    BY DEF Notified, DriverTypeOK
  <2>4. (reg \in [by : {NULL, "driver", "bfe"}, step : 0..(Layers + 1),
                  session : BOOLEAN])'
    <3>1. 0 \in 0..(Layers + 1) /\ 1 \in 0..(Layers + 1)
      OBVIOUS
    <3>2. reg' = [by |-> "bfe", step |-> 0, session |-> FALSE]
      BY DEF Notified, NoReg
    <3> QED
      BY <3>2
  <2>5. (callouts \subseteq 1..Layers)'
    BY DEF Notified, DriverTypeOK
  <2>6. (gInj \in 0..(MaxStarts + 1) /\ handles \subseteq 1..gInj)'
    BY DEF Notified, DriverTypeOK
  <2>7. (reg.by = "driver" <=> drv = "registering")'
    BY DEF Notified, DriverTypeOK, driver
  <2> QED
    BY <2>1, <2>2, <2>3, <2>4, <2>5, <2>6, <2>7 DEF DriverTypeOK
<1>2. Loads'
  BY DEF Notified, Loads, NeedsBfe, driver
<1>3. Unloads'
  BY DEF Notified, Unloads, driver
<1>4. NeedsBfe'
  BY DEF Notified, NeedsBfe
<1>5. StartsCounted'
  BY DEF Notified, StartsCounted, DriverTypeOK
<1>6. Registers'
  BY DEF Notified, Registers, NoReg
<1>7. Remembers'
  BY DEF Notified, Remembers
<1>8. NothingLeft'
  BY DEF Notified, NothingLeft, driver
<1>9. Backed'
  BY DEF Notified, Backed
<1> QED
  BY <1>1, <1>2, <1>3, <1>4, <1>5, <1>6, <1>7, <1>8, <1>9

\* A start of the BFE yields one injection handle.
LEMMA RegisterBeginKeeps ==
    ASSUME DriverTypeOK, DriverInv, drv # "gone", RegisterBegin
    PROVE  DriverTypeOK' /\ DriverInv'
<1> USE ConnectionsAssumption, ConstantsAssumption DEF DriverInv
<1>1. DriverTypeOK'
  <2>1. (drv \in {"new", "registering", "subscribing", "connecting", "in",
                "removing", "unregistering", "unsubscribing", "gone"})'
    BY DEF RegisterBegin, DriverTypeOK, driver
  <2>2. ({monitor, device, subscribed, abandoned, bfe, notice, filters, unlucky, late}
           \subseteq BOOLEAN)'
    BY DEF RegisterBegin, DriverTypeOK, driver, engine
  <2>3. (starts \in 0..MaxStarts)'
    BY DEF RegisterBegin, DriverTypeOK, engine
  <2>4. (reg \in [by : {NULL, "driver", "bfe"}, step : 0..(Layers + 1),
                  session : BOOLEAN])'
    <3>1. 0 \in 0..(Layers + 1) /\ 1 \in 0..(Layers + 1)
      OBVIOUS
    <3>2. reg' = [by |-> reg.by, step |-> 1, session |-> TRUE]
      BY DEF RegisterBegin, DriverTypeOK
    <3> QED
      BY <3>2 DEF DriverTypeOK
  <2>5. (callouts \subseteq 1..Layers)'
    BY DEF RegisterBegin, DriverTypeOK
  <2>6. (gInj \in 0..(MaxStarts + 1) /\ handles \subseteq 1..gInj)'
    BY DEF RegisterBegin, DriverTypeOK, StartsCounted
  <2>7. (reg.by = "driver" <=> drv = "registering")'
    BY DEF RegisterBegin, DriverTypeOK, driver
  <2> QED
    BY <2>1, <2>2, <2>3, <2>4, <2>5, <2>6, <2>7 DEF DriverTypeOK
<1>2. Loads'
  BY DEF RegisterBegin, Loads, driver
<1>3. Unloads'
  BY DEF RegisterBegin, Unloads, driver
<1>4. NeedsBfe'
  BY DEF RegisterBegin, NeedsBfe, driver, engine
<1>5. StartsCounted'
  BY DEF RegisterBegin, StartsCounted, DriverTypeOK, engine
<1>6. Registers'
  BY DEF RegisterBegin, Registers
<1>7. Remembers'
  BY DEF RegisterBegin, Remembers, driver, engine
<1>8. NothingLeft'
  BY DEF RegisterBegin, NothingLeft, driver
<1>9. Backed'
  BY DEF RegisterBegin, Backed
<1> QED
  BY <1>1, <1>2, <1>3, <1>4, <1>5, <1>6, <1>7, <1>8, <1>9

\* One callout after the other.
LEMMA RegisterLayerKeeps ==
    ASSUME DriverTypeOK, DriverInv, drv # "gone", RegisterLayer
    PROVE  DriverTypeOK' /\ DriverInv'
<1> USE ConnectionsAssumption, ConstantsAssumption DEF DriverInv
<1>1. DriverTypeOK'
  BY DEF RegisterLayer, DriverTypeOK, driver, engine
<1>2. Loads'
  BY DEF RegisterLayer, Loads, driver, engine
<1>3. Unloads'
  BY DEF RegisterLayer, Unloads, NeedsBfe, NoReg, driver
<1>4. NeedsBfe'
  BY DEF RegisterLayer, NeedsBfe, NoReg, driver, engine
<1>5. StartsCounted'
  BY DEF RegisterLayer, StartsCounted, engine
<1>6. Registers'
  BY DEF RegisterLayer, Registers
<1>7. Remembers'
  BY DEF RegisterLayer, Remembers, driver, engine
<1>8. NothingLeft'
  BY DEF RegisterLayer, NothingLeft, driver
<1>9. Backed'
  BY DEF RegisterLayer, Backed, Unloads
<1> QED
  BY <1>1, <1>2, <1>3, <1>4, <1>5, <1>6, <1>7, <1>8, <1>9

\* The filters appear when every layer has its callout.
LEMMA RegisterCommitKeeps ==
    ASSUME DriverTypeOK, DriverInv, drv # "gone", RegisterCommit
    PROVE  DriverTypeOK' /\ DriverInv'
<1> USE ConnectionsAssumption, ConstantsAssumption DEF DriverInv
<1>1. DriverTypeOK'
  BY DEF RegisterCommit, DriverTypeOK, NoReg, engine
<1>2. Loads'
  BY DEF RegisterCommit, Loads, NoReg, engine
<1>3. Unloads'
  BY DEF RegisterCommit, Unloads, NeedsBfe, NoReg
<1>4. NeedsBfe'
  BY DEF RegisterCommit, NeedsBfe, engine
<1>5. StartsCounted'
  BY DEF RegisterCommit, StartsCounted, NoReg, engine
<1>6. Registers'
  BY DEF RegisterCommit, Registers, NoReg
<1>7. Remembers'
  BY DEF RegisterCommit, Remembers
<1>8. NothingLeft'
  BY DEF RegisterCommit, NothingLeft
<1>9. Backed'
  <2>1. ~late => 1..((Layers + 1) - 1) \subseteq callouts /\ gInj \in handles
    BY DEF RegisterCommit, Registers
  <2>2. (Layers + 1) - 1 = Layers /\ callouts \subseteq 1..Layers
    BY DEF DriverTypeOK
  <2>3. ~late => callouts = 1..Layers /\ gInj \in handles
    BY <2>1, <2>2
  <2> QED
    BY <2>3 DEF RegisterCommit, Backed
<1> QED
  BY <1>1, <1>2, <1>3, <1>4, <1>5, <1>6, <1>7, <1>8, <1>9

\* No filters were added; those there already keep their callouts.
LEMMA RegisterFailsKeeps ==
    ASSUME DriverTypeOK, DriverInv, drv # "gone", RegisterFails
    PROVE  DriverTypeOK' /\ DriverInv'
<1> USE ConnectionsAssumption, ConstantsAssumption DEF DriverInv
<1>0. /\ gInj \in 0..(MaxStarts + 1) /\ starts \in 0..MaxStarts
      /\ reg' = NoReg /\ handles' \subseteq handles /\ UNCHANGED engine
      /\ gInj' = gInj \/ (gInj' = gInj + 1 /\ gInj + 1 <= starts)
  <2>1. /\ gInj \in 0..(MaxStarts + 1) /\ starts \in 0..MaxStarts
        /\ gInj + (IF reg.by # NULL /\ reg.step = 0 THEN 1 ELSE 0)
                + (IF notice THEN 1 ELSE 0) <= starts
    BY DEF DriverTypeOK, StartsCounted
  <2>2. /\ reg.by # NULL /\ reg' = NoReg /\ handles' \subseteq handles
        /\ UNCHANGED engine
        /\ gInj' = gInj \/ (reg.step = 0 /\ gInj' = gInj + 1)
    BY DEF RegisterFails
  <2>3. reg.step = 0 => gInj + 1 <= starts
    BY <2>1, <2>2, MaxStarts \in Nat
  <2> QED
    BY <2>1, <2>2, <2>3
<1>1. DriverTypeOK'
  <2>1. (drv \in {"new", "registering", "subscribing", "connecting", "in",
                "removing", "unregistering", "unsubscribing", "gone"})'
    BY DEF RegisterFails, DriverTypeOK
  <2>2. ({monitor, device, subscribed, abandoned, bfe, notice, filters, unlucky, late}
           \subseteq BOOLEAN)'
    BY DEF RegisterFails, DriverTypeOK, StartsCounted, NoReg, engine
  <2>3. (starts \in 0..MaxStarts)'
    BY DEF RegisterFails, DriverTypeOK, engine
  <2>4. (reg \in [by : {NULL, "driver", "bfe"}, step : 0..(Layers + 1),
                  session : BOOLEAN])'
    BY DEF RegisterFails, NoReg
  <2>5. (callouts \subseteq 1..Layers)'
    BY DEF RegisterFails, DriverTypeOK
  <2>6. (gInj \in 0..(MaxStarts + 1) /\ handles \subseteq 1..gInj)'
    <3>1. handles \subseteq 1..gInj
      BY DEF DriverTypeOK
    <3>2. gInj' \in 0..(MaxStarts + 1) /\ 1..gInj \subseteq 1..gInj'
      BY <1>0
    <3> QED
      BY <1>0, <3>1, <3>2
  <2>7. (reg.by = "driver" <=> drv = "registering")'
    BY DEF RegisterFails, DriverTypeOK, NoReg
  <2> QED
    BY <2>1, <2>2, <2>3, <2>4, <2>5, <2>6, <2>7 DEF DriverTypeOK
<1>2. Loads'
  BY DEF RegisterFails, Loads
<1>3. Unloads'
  BY DEF RegisterFails, Unloads
<1>4. NeedsBfe'
  BY DEF RegisterFails, NeedsBfe, NoReg, engine
<1>5. StartsCounted'
  <2>1. /\ gInj + (IF reg.by # NULL /\ reg.step = 0 THEN 1 ELSE 0)
                + (IF notice THEN 1 ELSE 0) <= starts
        /\ reg.by # NULL /\ (bfe => starts > 0)
        /\ gInj' = gInj \/ (reg.step = 0 /\ gInj' = gInj + 1)
    BY DEF RegisterFails, StartsCounted
  <2>2. gInj' + (IF notice THEN 1 ELSE 0) <= starts
    BY <1>0, <2>1
  <2>3. /\ reg'.by = NULL /\ notice' = notice /\ starts' = starts
        /\ bfe' = bfe /\ gInj' \in Nat
    BY <1>0 DEF NoReg, engine
  <2>4. gInj' + (IF reg'.by # NULL /\ reg'.step = 0 THEN 1 ELSE 0)
              + (IF notice' THEN 1 ELSE 0) <= starts'
    BY <2>2, <2>3
  <2> QED
    BY <2>1, <2>3, <2>4 DEF StartsCounted
<1>6. Registers'
  BY DEF RegisterFails, Registers, NoReg
<1>7. Remembers'
  BY DEF RegisterFails, Remembers
<1>8. NothingLeft'
  BY DEF RegisterFails, NothingLeft
<1>9. Backed'
  BY DEF RegisterFails, Backed
<1> QED
  BY <1>1, <1>2, <1>3, <1>4, <1>5, <1>6, <1>7, <1>8, <1>9

\* Unloading begins.
LEMMA DriverUnloadKeeps ==
    ASSUME DriverTypeOK, DriverInv, drv # "gone", DriverUnload
    PROVE  DriverTypeOK' /\ DriverInv'
<1> USE ConnectionsAssumption, ConstantsAssumption DEF DriverInv
<1>1. DriverTypeOK'
  BY DEF DriverUnload, DriverTypeOK, engine, wfp
<1>2. Loads'
  BY DEF DriverUnload, Loads
<1>3. Unloads'
  BY DEF DriverUnload, Unloads
<1>4. NeedsBfe'
  BY DEF DriverUnload, NeedsBfe, engine, wfp
<1>5. StartsCounted'
  BY DEF DriverUnload, StartsCounted, engine, wfp
<1>6. Registers'
  BY DEF DriverUnload, Registers, wfp
<1>7. Remembers'
  BY DEF DriverUnload, Remembers
<1>8. NothingLeft'
  BY DEF DriverUnload, NothingLeft
<1>9. Backed'
  BY DEF DriverUnload, Backed, wfp
<1> QED
  BY <1>1, <1>2, <1>3, <1>4, <1>5, <1>6, <1>7, <1>8, <1>9

\* The filters go before the callouts do.
LEMMA RemoveFiltersKeeps ==
    ASSUME DriverTypeOK, DriverInv, drv # "gone", RemoveFilters
    PROVE  DriverTypeOK' /\ DriverInv'
<1> USE ConnectionsAssumption, ConstantsAssumption DEF DriverInv
<1>1. DriverTypeOK'
  BY DEF RemoveFilters, DriverTypeOK, StartsCounted, engine
<1>2. Loads'
  BY DEF RemoveFilters, Loads
<1>3. Unloads'
  BY DEF RemoveFilters, Unloads
<1>4. NeedsBfe'
  BY DEF RemoveFilters, NeedsBfe, engine
<1>5. StartsCounted'
  BY DEF RemoveFilters, StartsCounted, engine
<1>6. Registers'
  BY DEF RemoveFilters, Registers
<1>7. Remembers'
  BY DEF RemoveFilters, Remembers
<1>8. NothingLeft'
  BY DEF RemoveFilters, NothingLeft
<1>9. Backed'
  BY DEF RemoveFilters, Backed
<1> QED
  BY <1>1, <1>2, <1>3, <1>4, <1>5, <1>6, <1>7, <1>8, <1>9

\* By now nothing names the callouts any more.
LEMMA UnregisterCalloutsKeeps ==
    ASSUME DriverTypeOK, DriverInv, drv # "gone", UnregisterCallouts
    PROVE  DriverTypeOK' /\ DriverInv'
<1> USE ConnectionsAssumption, ConstantsAssumption DEF DriverInv
<1>1. DriverTypeOK'
  BY DEF UnregisterCallouts, DriverTypeOK, engine
<1>2. Loads'
  BY DEF UnregisterCallouts, Loads
<1>3. Unloads'
  BY DEF UnregisterCallouts, Unloads
<1>4. NeedsBfe'
  BY DEF UnregisterCallouts, NeedsBfe, engine
<1>5. StartsCounted'
  BY DEF UnregisterCallouts, StartsCounted, engine
<1>6. Registers'
  BY DEF UnregisterCallouts, Registers, Unloads, NeedsBfe, NoReg
<1>7. Remembers'
  BY DEF UnregisterCallouts, Remembers
<1>8. NothingLeft'
  BY DEF UnregisterCallouts, NothingLeft
<1>9. Backed'
  BY DEF UnregisterCallouts, Backed, Unloads
<1> QED
  BY <1>1, <1>2, <1>3, <1>4, <1>5, <1>6, <1>7, <1>8, <1>9

\* What is left goes with the subscription.
LEMMA UnsubscribeKeeps ==
    ASSUME DriverTypeOK, DriverInv, drv # "gone", Unsubscribe
    PROVE  DriverTypeOK' /\ DriverInv'
<1> USE ConnectionsAssumption, ConstantsAssumption DEF DriverInv
<1>1. DriverTypeOK'
  BY DEF Unsubscribe, DriverTypeOK, wfp
<1>2. Loads'
  BY DEF Unsubscribe, Loads
<1>3. Unloads'
  BY DEF Unsubscribe, Unloads
<1>4. NeedsBfe'
  BY DEF Unsubscribe, NeedsBfe, wfp
<1>5. StartsCounted'
  BY DEF Unsubscribe, StartsCounted, DriverTypeOK, wfp
<1>6. Registers'
  BY DEF Unsubscribe, Registers, wfp
<1>7. Remembers'
  BY DEF Unsubscribe, Remembers
<1>8. NothingLeft'
  BY DEF Unsubscribe, NothingLeft, Loads, Unloads, NeedsBfe, wfp
<1>9. Backed'
  BY DEF Unsubscribe, Backed, wfp
<1> QED
  BY <1>1, <1>2, <1>3, <1>4, <1>5, <1>6, <1>7, <1>8, <1>9

\* A start is notified, or known to be missed.
LEMMA BfeStartKeeps ==
    ASSUME DriverTypeOK, DriverInv, drv # "gone", BfeStart
    PROVE  DriverTypeOK' /\ DriverInv'
<1> USE ConnectionsAssumption, ConstantsAssumption DEF DriverInv
<1>1. DriverTypeOK'
  BY DEF BfeStart, DriverTypeOK, driver
<1>2. Loads'
  BY DEF BfeStart, Loads, driver
<1>3. Unloads'
  BY DEF BfeStart, Unloads, driver
<1>4. NeedsBfe'
  BY DEF BfeStart, NeedsBfe, driver
<1>5. StartsCounted'
  BY DEF BfeStart, StartsCounted, DriverTypeOK
<1>6. Registers'
  BY DEF BfeStart, Registers
<1>7. Remembers'
  BY DEF BfeStart, Remembers
<1>8. NothingLeft'
  BY DEF BfeStart, NothingLeft, driver
<1>9. Backed'
  BY DEF BfeStart, Backed, NeedsBfe
<1> QED
  BY <1>1, <1>2, <1>3, <1>4, <1>5, <1>6, <1>7, <1>8, <1>9

\* The filters and the sessions end with the BFE.
LEMMA BfeStopKeeps ==
    ASSUME DriverTypeOK, DriverInv, drv # "gone", BfeStop
    PROVE  DriverTypeOK' /\ DriverInv'
<1> USE ConnectionsAssumption, ConstantsAssumption DEF DriverInv
<1>1. DriverTypeOK'
  BY DEF BfeStop, DriverTypeOK, StartsCounted, driver
<1>2. Loads'
  BY DEF BfeStop, Loads, driver
<1>3. Unloads'
  BY DEF BfeStop, Unloads, driver
<1>4. NeedsBfe'
  <2>1. reg'.by = reg.by /\ reg'.session = FALSE /\ ~notice' /\ ~filters'
    BY DEF BfeStop
  <2>2. reg' = [by |-> reg'.by, step |-> reg'.step, session |-> reg'.session]
    BY <1>1 DEF DriverTypeOK
  <2>3. reg = NoReg => reg'.by = NULL /\ reg'.step = 0
    BY DEF BfeStop, NoReg
  <2>4. reg.by = NULL => reg' = NoReg
    BY <2>1, <2>2, <2>3 DEF NeedsBfe, NoReg
  <2> QED
    BY <2>1, <2>4 DEF NeedsBfe
<1>5. StartsCounted'
  BY DEF BfeStop, StartsCounted, DriverTypeOK
<1>6. Registers'
  BY DEF BfeStop, Registers
<1>7. Remembers'
  BY DEF BfeStop, Remembers
<1>8. NothingLeft'
  BY DEF BfeStop, NothingLeft, driver
<1>9. Backed'
  BY DEF BfeStop, Backed
<1> QED
  BY <1>1, <1>2, <1>3, <1>4, <1>5, <1>6, <1>7, <1>8, <1>9

-----------------------------------------------------------------------------
(* The list of connections *)

\* The types, by variable.
EntryTypeOK ==
    entry \in [Conns -> [addr : {NULL, AnyAddr, Here},
                         remote : Remotes \cup {NULL},
                         pid : Processes \cup {NULL}]]

FlowTypeOK ==
    flow \in [Flows -> [state : {"idle", "connecting", "establishing", "open",
                                 "closing"},
                        by : Processes \cup {NULL},
                        remote : Remotes \cup {NULL},
                        conn : Conns \cup {NULL}]]

\* c is the connection that AddConnection has added or updated.
Added(c, addr, remote) ==
    /\ c \in Conns
    /\ c \notin Listed \/ entry[c].remote = NULL
    /\ Listed' = Listed \cup {c}
    /\ entry'[c].remote = remote /\ entry'[c].addr \in {AnyAddr, addr}
    /\ \A d \in Conns \ {c} : entry'[d] = entry[d]
    /\ \A d \in Listed \ {c} : After(conns', d) = After(conns, d)
    /\ entry'[c].addr = Here =>
          \A d \in Listed \ {c} : entry[d].addr = Here => d \in After(conns', c)

\* The first entry with these ends is found, if there is one.
LEMMA FindsFirst ==
    ASSUME EntriesInv, IsInjective(conns), NEW addrs, NEW remote
    PROVE  LET c == FirstIn(conns, With(addrs, remote), NULL)
               Fits(d) == entry[d].addr \in addrs /\ entry[d].remote = remote
           IN  \/ c = NULL /\ \A d \in Listed : ~Fits(d)
               \/ /\ c \in Listed /\ Fits(c)
                  /\ \A d \in Listed : Fits(d) => d = c \/ d \in After(conns, c)
<1>1. conns \in Seq(Conns) /\ Listed \subseteq Conns
  BY Entries DEF EntriesInv, Listed
<1>2. LET c == FirstIn(conns, With(addrs, remote), NULL) IN
      \/ c = NULL /\ ToSet(conns) \cap With(addrs, remote) = {}
      \/ /\ c \in ToSet(conns) \cap With(addrs, remote)
         /\ \A d \in ToSet(conns) \cap With(addrs, remote) :
               d = c \/ d \in After(conns, c)
  BY <1>1, FirstInFinds
<1>3. \A d \in Listed :
         d \in With(addrs, remote) <=>
            entry[d].addr \in addrs /\ entry[d].remote = remote
  BY <1>1 DEF With
<1> QED
  BY <1>2, <1>3 DEF Listed

\* AddConnection updates the first unconnected entry, or puts a new one in front.
LEMMA AddConnectionAdds ==
    ASSUME TableTypeOK, EntriesInv,
           NEW pid \in Processes, NEW addr \in {AnyAddr, Here},
           NEW remote \in Remotes \cup {NULL}, addr = Here \/ remote = NULL,
           AddConnection(pid, addr, remote)
    PROVE  /\ EntryTypeOK' /\ IsInjective(conns') /\ (starved \in BOOLEAN)'
           /\ EntriesInv'
           /\ \/ starved'
              \/ starved' = starved /\ \E c \in Conns : Added(c, addr, remote)
<1> DEFINE old  == Unconnected(addr)
           free == Conns \ ToSet(conns)
<1>1. /\ conns \in Seq(Conns) /\ Listed \subseteq Conns /\ IsInjective(conns)
      /\ EntryTypeOK /\ starved \in BOOLEAN
  BY DEF EntriesInv, Listed, TableTypeOK, EntryTypeOK
<1>2. \A c, d \in Listed : c = d \/ d \in After(conns, c) \/ c \in After(conns, d)
  BY <1>1, Ordered DEF Listed
<1>3. \/ old = NULL /\ \A d \in Listed :
                 ~(entry[d].addr \in {AnyAddr, addr} /\ entry[d].remote = NULL)
      \/ old \in Listed /\ entry[old].addr \in {AnyAddr, addr} /\ entry[old].remote = NULL
  BY <1>1, FindsFirst DEF Unconnected
<1>4. NULL \notin Conns /\ AnyAddr # NULL /\ Here # NULL /\ AnyAddr # Here
  BY ConnectionsAssumption DEF AnyAddr, Here
<1> HIDE DEF old
<1>5. CASE /\ old # NULL
           /\ entry' = [entry EXCEPT ![old].remote = remote, ![old].pid = pid]
           /\ UNCHANGED <<conns, starved>>
  <2>1. old \in Listed /\ old \in Conns /\ entry[old].remote = NULL
        /\ entry[old].addr \in {AnyAddr, addr}
    BY <1>1, <1>3, <1>5
  <2>2. EntryTypeOK'
    <3> DEFINE E == [addr : {NULL, AnyAddr, Here}, remote : Remotes \cup {NULL},
                     pid : Processes \cup {NULL}]
    <3>1. [entry EXCEPT ![old].remote = remote] \in [Conns -> E]
      BY <1>1, <2>1 DEF EntryTypeOK
    <3>2. ASSUME NEW e \in [Conns -> E]
          PROVE  [e EXCEPT ![old].pid = pid] \in [Conns -> E]
      OBVIOUS
    <3>3. entry' = [[entry EXCEPT ![old].remote = remote] EXCEPT ![old].pid = pid]
      BY <1>5
    <3> QED
      BY <3>1, <3>2, <3>3 DEF EntryTypeOK
  <2>3. /\ entry'[old].remote = remote /\ entry'[old].addr = entry[old].addr
        /\ \A d \in Conns \ {old} : entry'[d] = entry[d]
    BY <1>1, <1>5, <2>1 DEF EntryTypeOK
  <2>4. Listed' = Listed /\ conns' = conns /\ starved' = starved
    BY <1>5 DEF Listed
  <2>5. EntriesInv'
    <3>1. \A c \in Listed : entry'[c].addr = entry[c].addr
                             /\ (entry'[c].remote = NULL => entry[c].remote = NULL)
      BY <1>1, <2>1, <2>3
    <3> QED
      BY <2>4, <3>1 DEF EntriesInv
  <2>6. Added(old, addr, remote)
    <3>1. ASSUME entry[old].addr = Here, NEW d \in Listed \ {old}, entry[d].addr = Here
          PROVE  d \in After(conns, old)
      BY <1>2, <1>4, <2>1, <3>1 DEF EntriesInv
    <3> QED
      BY <2>1, <2>3, <2>4, <3>1 DEF Added
  <2> QED
    BY <1>1, <2>1, <2>2, <2>4, <2>5, <2>6
<1>6. CASE /\ old = NULL /\ free # {}
           /\ LET c == CHOOSE c \in free : TRUE
              IN  /\ conns' = <<c>> \o conns
                  /\ entry' = [entry EXCEPT ![c] =
                                 [addr |-> addr, remote |-> remote, pid |-> pid]]
           /\ UNCHANGED starved
  <2> DEFINE c == CHOOSE c \in free : TRUE
  <2>1. c \in Conns /\ c \notin Listed
    BY <1>6 DEF Listed
  <2>2. /\ conns' = <<c>> \o conns
        /\ entry' = [entry EXCEPT ![c] = [addr |-> addr, remote |-> remote, pid |-> pid]]
        /\ starved' = starved
    BY <1>6
  <2> HIDE DEF c
  <2>3. /\ conns' \in Seq(Conns) /\ IsInjective(conns')
        /\ Listed' = Listed \cup {c}
        /\ After(conns', c) = Listed
        /\ \A d \in Listed : After(conns', d) = After(conns, d)
    BY <1>1, <2>1, <2>2, PrependKeeps DEF Listed
  <2>4. EntryTypeOK'
    BY <1>1, <2>2 DEF EntryTypeOK
  <2>5. /\ entry'[c].remote = remote /\ entry'[c].addr = addr
        /\ \A d \in Conns \ {c} : entry'[d] = entry[d]
    BY <1>1, <2>1, <2>2 DEF EntryTypeOK
  <2>6. EntriesInv'
    <3>1. \A e \in Listed' : entry'[e].addr # NULL
      BY <1>1, <1>4, <2>3, <2>5 DEF EntriesInv
    <3>2. ASSUME NEW e \in Listed', NEW d \in Listed',
                 entry'[e].remote = NULL, e \in After(conns', d)
          PROVE  entry'[d].addr = AnyAddr
      <4>1. CASE d = c
        <5>1. e \in Listed /\ entry[e].remote = NULL
          BY <1>1, <2>1, <2>3, <2>5, <3>2, <4>1
        <5>2. entry[e].addr \notin {AnyAddr, addr}
          BY <1>3, <1>4, <1>1, <1>6, <5>1
        <5>3. entry[e].addr \in {AnyAddr, Here}
          BY <1>1, <5>1 DEF EntriesInv, EntryTypeOK
        <5> QED
          BY <2>5, <4>1, <5>2, <5>3
      <4>2. CASE d # c
        <5>1. d \in Listed /\ e \in After(conns, d) /\ e \in Listed
          BY <2>3, <3>2, <4>2, Ordered
        <5> QED
          BY <1>1, <2>1, <2>5, <3>2, <5>1 DEF EntriesInv
      <4> QED
        BY <4>1, <4>2
    <3> QED
      BY <2>3, <3>1, <3>2 DEF EntriesInv
  <2>7. Added(c, addr, remote)
    BY <2>1, <2>3, <2>5 DEF Added
  <2> QED
    BY <1>1, <2>2, <2>3, <2>4, <2>6, <2>7
<1>7. CASE old = NULL /\ starved' = TRUE /\ UNCHANGED <<conns, entry>>
  <2>1. Listed' = Listed
    BY <1>7 DEF Listed
  <2> QED
    BY <1>1, <1>7, <2>1 DEF EntryTypeOK, EntriesInv
<1> QED
  BY <1>5, <1>6, <1>7 DEF AddConnection, old

\* RemoveConnection takes an entry off the list and leaves the others as they are.
LEMMA RemoveConnectionRemoves ==
    ASSUME TableTypeOK, EntriesInv, NEW c \in Conns, RemoveConnection(c)
    PROVE  /\ EntryTypeOK' /\ IsInjective(conns') /\ EntriesInv'
           /\ Listed' = Listed \ {c}
           /\ \A d \in Conns \ {c} : entry'[d] = entry[d]
           /\ \A d \in Listed' : After(conns', d) = After(conns, d) \ {c}
<1>1. /\ conns \in Seq(Conns) /\ Listed \subseteq Conns /\ IsInjective(conns)
      /\ EntryTypeOK
  BY DEF EntriesInv, Listed, TableTypeOK, EntryTypeOK
<1>2. /\ conns' \in Seq(Conns) /\ IsInjective(conns')
      /\ Listed' = Listed \ {c}
      /\ \A d : d # c => After(conns', d) = After(conns, d) \ {c}
  BY <1>1, UnlinkKeeps DEF RemoveConnection, Listed
<1>3. entry' = entry \/ entry' = [entry EXCEPT ![c] = NoEntry]
  BY DEF RemoveConnection
<1>4. EntryTypeOK'
  BY <1>1, <1>3 DEF EntryTypeOK, NoEntry
<1>5. \A d \in Conns \ {c} : entry'[d] = entry[d]
  BY <1>1, <1>3 DEF EntryTypeOK
<1>6. \A d \in Listed' : After(conns', d) = After(conns, d) \ {c}
  BY <1>2
<1>7. EntriesInv'
  BY <1>1, <1>2, <1>5 DEF EntriesInv
<1> QED
  BY <1>2, <1>4, <1>5, <1>7

-----------------------------------------------------------------------------
(* Events of sockets and flows *)

\* TableTypeOK by its parts.
LEMMA TableTypes ==
    ASSUME conns \in Seq(Conns)
    PROVE  TableTypeOK <=>
              /\ EntryTypeOK /\ FlowTypeOK /\ IsInjective(conns)
              /\ socket \in [by : Processes \cup {NULL}, addr : {AnyAddr, Here}]
              /\ starved \in BOOLEAN /\ captured \in BOOLEAN
  BY Entries DEF TableTypeOK, EntryTypeOK, FlowTypeOK

\* The contexts of flows are not what AddConnection updates, and stay.
LEMMA ContextsStay ==
    ASSUME TableTypeOK, TableInv, ~starved, ~captured,
           NEW c, NEW addr, NEW remote, Added(c, addr, remote), NEW f \in Flows,
           flow[f].conn # NULL
    PROVE  /\ flow[f].conn # c
           /\ flow[f].conn \in Listed'
           /\ entry'[flow[f].conn].remote = flow[f].remote
           /\ \A g \in Flows \ {f} : flow[g].conn # flow[f].conn
<1>1. /\ flow[f].conn \in Listed
      /\ entry[flow[f].conn].remote = flow[f].remote
      /\ \A g \in Flows \ {f} : flow[g].conn # flow[f].conn
  BY DEF TableInv, ContextLive, Listed
<1>2. flow[f].remote # NULL
  BY DEF TableInv, FlowsInv, NoFlow
<1>3. flow[f].conn \in Conns
  BY DEF TableTypeOK
<1> QED
  BY <1>1, <1>2, <1>3 DEF Added

\* No flow is active when a socket is bound.
LEMMA AssignmentKeeps ==
    ASSUME TableTypeOK, TableInv, ~starved, ~captured,
           NEW p \in Processes, NEW addr \in {AnyAddr, Here},
           AleResourceAssignmentV4Classify(p, addr)
    PROVE  TableTypeOK' /\ TableInv'
<1>1. /\ EntryTypeOK' /\ IsInjective(conns') /\ (starved \in BOOLEAN)'
      /\ EntriesInv'
      /\ \/ starved'
         \/ starved' = starved /\ \E c \in Conns : Added(c, addr, NULL)
  BY AddConnectionAdds DEF AleResourceAssignmentV4Classify, TableInv
<1>2. flow' = flow /\ captured' = captured /\ socket.by = NULL
      /\ socket' = [by |-> p, addr |-> addr]
  BY DEF AleResourceAssignmentV4Classify
<1>3. TableTypeOK'
  <2>1. conns' \in Seq(Conns)
    BY <1>1 DEF EntriesInv
  <2>2. FlowTypeOK'
    BY <1>2 DEF FlowTypeOK, TableTypeOK
  <2>3. captured' \in BOOLEAN
    BY <1>2 DEF TableTypeOK
  <2> QED
    BY <1>1, <1>2, <2>1, Entries DEF TableTypeOK, EntryTypeOK
<1>4. \A f \in Flows : ~Active(f)
  BY <1>2 DEF TableInv, FlowsInv
<1>5. FlowsInv'
  BY <1>2 DEF TableInv, FlowsInv, Active
<1>6. OwnEntry'
  BY <1>2, <1>4 DEF OwnEntry, Active
<1>7. ContextLive'
  <2>1. CASE starved'
    BY <2>1 DEF ContextLive
  <2>2. ASSUME NEW c, Added(c, addr, NULL)
        PROVE  ContextLive'
    BY <1>2, <2>2, ContextsStay DEF ContextLive, Listed
  <2> QED
    BY <1>1, <2>1, <2>2
<1> QED
  BY <1>1, <1>3, <1>5, <1>6, <1>7 DEF TableInv

\* A flow that starts has an entry of its own: the one AddConnection has updated,
\* which was no flow's, or a new one.
LEMMA AuthKeeps ==
    ASSUME TableTypeOK, TableInv, ~starved, ~captured,
           NEW f \in Flows, NEW remote \in Remotes,
           AleAuthConnectV4Classify(f, remote)
    PROVE  TableTypeOK' /\ TableInv'
<1> DEFINE new == [state |-> "connecting", by |-> socket.by,
                   remote |-> remote, conn |-> NULL]
<1>1. socket.by \in Processes /\ remote # NULL
  BY ConnectionsAssumption DEF AleAuthConnectV4Classify, TableTypeOK
<1>2. /\ EntryTypeOK' /\ IsInjective(conns') /\ (starved \in BOOLEAN)'
      /\ EntriesInv'
      /\ \/ starved'
         \/ starved' = starved /\ \E c \in Conns : Added(c, Here, remote)
  BY <1>1, AddConnectionAdds DEF AleAuthConnectV4Classify, TableInv
<1>3. /\ flow[f] = NoFlow
      /\ \A g \in Flows : Active(g) => flow[g].remote # remote
      /\ flow' = [flow EXCEPT ![f] = new]
      /\ socket' = socket /\ captured' = captured
  BY DEF AleAuthConnectV4Classify
<1>4. FlowTypeOK'
  BY <1>3 DEF FlowTypeOK, TableTypeOK
<1>5. TableTypeOK'
  <2>1. conns' \in Seq(Conns)
    BY <1>2 DEF EntriesInv
  <2>2. /\ socket' \in [by : Processes \cup {NULL}, addr : {AnyAddr, Here}]
        /\ captured' \in BOOLEAN
    BY <1>3 DEF TableTypeOK
  <2> QED
    BY <1>2, <1>4, <2>1, <2>2, Entries DEF TableTypeOK, EntryTypeOK, FlowTypeOK
<1>6. flow'[f] = new /\ \A g \in Flows \ {f} : flow'[g] = flow[g]
  BY <1>3 DEF TableTypeOK
<1> HIDE DEF new
<1>7. /\ new.state = "connecting" /\ new.by = socket.by
      /\ new.remote = remote /\ new.conn = NULL
  BY DEF new
<1>8. Active(f)' /\ \A g \in Flows \ {f} : Active(g)' <=> Active(g)
  BY <1>6, <1>7 DEF Active
<1>9. FlowsInv'
  <2>1. ASSUME NEW g \in Flows
        PROVE  /\ flow'[g].state = "idle" => flow'[g] = NoFlow
               /\ flow'[g].state # "idle" => flow'[g].remote # NULL
               /\ flow'[g].state = "connecting" => flow'[g].conn = NULL
               /\ flow'[g].state \in {"establishing", "closing"} => flow'[g].conn # NULL
    BY <1>1, <1>6, <1>7 DEF TableInv, FlowsInv
  <2>2. ASSUME NEW g \in Flows, NEW h \in Flows, Active(g)', Active(h)',
               flow'[g].remote = flow'[h].remote
        PROVE  g = h
    BY <1>3, <1>6, <1>7, <1>8, <2>2 DEF TableInv, FlowsInv
  <2>3. ASSUME NEW g \in Flows, Active(g)'
        PROVE  flow'[g].by = socket'.by /\ socket'.by # NULL
    BY <1>1, <1>3, <1>6, <1>7, <1>8, <2>3, ConnectionsAssumption
       DEF TableInv, FlowsInv
  <2> QED
    BY <2>1, <2>2, <2>3 DEF FlowsInv
<1>10. CASE starved'
  BY <1>2, <1>5, <1>9, <1>10 DEF TableInv, OwnEntry, ContextLive
<1>11. ASSUME starved' = starved, NEW c \in Conns, Added(c, Here, remote)
       PROVE  OwnEntry' /\ ContextLive'
  <2>1. \A g \in Flows : flow[g].conn # NULL =>
           /\ flow[g].conn # c
           /\ flow[g].conn \in Listed'
           /\ entry'[flow[g].conn].remote = flow[g].remote
           /\ \A h \in Flows \ {g} : flow[h].conn # flow[g].conn
    BY <1>11, ContextsStay
  <2>2. \A g \in Flows \ {f} : /\ flow'[g].conn = flow[g].conn
                              /\ flow'[g].remote = flow[g].remote
    BY <1>6
  <2>3. flow'[f].conn = NULL /\ flow'[f].remote = remote /\ c # NULL
    BY <1>6, <1>7, ConnectionsAssumption
  <2>4. ContextLive'
    BY <2>1, <2>2, <2>3 DEF ContextLive, Listed
  <2>5. Owns(f, c)'
    <3>1. \A g \in Flows \ {f} : flow'[g].conn # c
      BY <2>1, <2>2, <2>3
    <3>2. Findable(c)'
      <4>1. \A d \in Listed' : d = c \/ (d \in Listed \ {c} /\ entry'[d] = entry[d])
        BY <1>11 DEF Added, TableTypeOK, Listed
      <4> QED
        BY <1>11, <4>1 DEF Added, Findable
    <3> QED
      BY <1>11, <2>3, <3>1, <3>2 DEF Owns, Added
  <2>6. ASSUME NEW g \in Flows \ {f}, Active(g)
        PROVE  \E e \in Listed' : Owns(g, e)'
    <3>1. PICK e \in Listed : Owns(g, e)
      BY <2>6 DEF TableInv, OwnEntry
    <3>2. flow[g].remote # NULL /\ flow[g].remote # remote
      BY <1>3, <2>6 DEF TableInv, FlowsInv, Active
    <3>3. e # c /\ e \in Conns
      BY <1>11, <3>1, <3>2 DEF Added, Owns, TableTypeOK, Listed
    <3>4. e \in Listed' /\ entry'[e] = entry[e] /\ After(conns', e) = After(conns, e)
      BY <1>11, <3>3 DEF Added
    <3>5. \A h \in Flows \ {g} : flow'[h].conn # e
      BY <2>2, <2>3, <3>1, <3>3, ConnectionsAssumption DEF Owns
    <3>6. Findable(e) => Findable(e)'
      <4>1. \A d \in Listed' : entry'[d].remote = entry'[e].remote =>
               d \in Listed /\ entry'[d] = entry[d]
        BY <1>11, <3>1, <3>2 DEF Added, Owns, TableTypeOK, Listed
      <4> QED
        BY <3>4, <4>1 DEF Findable
    <3>7. Owns(g, e)'
      BY <1>6, <3>1, <3>4, <3>5, <3>6 DEF Owns
    <3> QED
      BY <3>4, <3>7
  <2>7. OwnEntry'
    <3>1. c \in Listed'
      BY <1>11 DEF Added
    <3> QED
      BY <1>8, <2>5, <2>6, <3>1 DEF OwnEntry
  <2> QED
    BY <2>4, <2>7
<1> QED
  BY <1>2, <1>5, <1>9, <1>10, <1>11 DEF TableInv

\* A flow's own entry is the one it finds, unless it captures another one.
LEMMA EstablishedKeeps ==
    ASSUME TableTypeOK, TableInv, ~starved, ~captured, NEW f \in Flows,
           FlowEstablished(f)
    PROVE  TableTypeOK' /\ TableInv'
<1> DEFINE c == GetConnection(Here, flow[f].remote)
           to == IF c = NULL THEN "open" ELSE "establishing"
<1>1. /\ flow[f].state = "connecting"
      /\ flow' = [flow EXCEPT ![f].conn = c, ![f].state = to]
      /\ captured' = (c # NULL /\ Unfindable(flow[f].remote))
      /\ UNCHANGED <<conns, entry, socket, starved>>
  BY DEF FlowEstablished
<1>2. \/ c = NULL
      \/ /\ c \in Listed /\ entry[c].addr = Here /\ entry[c].remote = flow[f].remote
         /\ \A d \in Listed : entry[d].addr = Here /\ entry[d].remote = flow[f].remote
                                 => d = c \/ d \in After(conns, c)
  BY FindsFirst DEF TableInv, TableTypeOK, GetConnection
<1> HIDE DEF c
<1>3. c \in Conns \cup {NULL}
  BY <1>2 DEF TableTypeOK, Listed
<1>4. captured' \in BOOLEAN /\ (captured' <=> c # NULL /\ Unfindable(flow[f].remote))
  BY <1>1
<1>5. FlowTypeOK'
  <2> DEFINE F == [state : {"idle", "connecting", "establishing", "open", "closing"},
                   by : Processes \cup {NULL}, remote : Remotes \cup {NULL},
                   conn : Conns \cup {NULL}]
  <2>1. [flow EXCEPT ![f].conn = c] \in [Flows -> F]
    BY <1>3 DEF TableTypeOK
  <2>2. ASSUME NEW e \in [Flows -> F]
        PROVE  [e EXCEPT ![f].state = to] \in [Flows -> F]
    OBVIOUS
  <2>3. flow' = [[flow EXCEPT ![f].conn = c] EXCEPT ![f].state = to]
    BY <1>1
  <2> QED
    BY <2>1, <2>2, <2>3 DEF FlowTypeOK
<1>6. TableTypeOK'
  BY <1>1, <1>5 DEF FlowTypeOK
<1>7. /\ \A g \in Flows \ {f} : flow'[g] = flow[g]
      /\ flow'[f].conn = c /\ flow'[f].state = to
      /\ flow'[f].remote = flow[f].remote /\ flow'[f].by = flow[f].by
  BY <1>1 DEF TableTypeOK
<1>8. flow[f].remote # NULL /\ Active(f) /\ flow[f].conn = NULL
  BY <1>1 DEF TableInv, FlowsInv, Active
<1>9. \A g \in Flows : Active(g)' <=> Active(g)
  BY <1>7, <1>8 DEF Active
<1>10. FlowsInv'
  <2>1. ASSUME NEW g \in Flows
        PROVE  /\ flow'[g].state = "idle" => flow'[g] = NoFlow
               /\ flow'[g].state # "idle" => flow'[g].remote # NULL
               /\ flow'[g].state = "connecting" => flow'[g].conn = NULL
               /\ flow'[g].state \in {"establishing", "closing"} => flow'[g].conn # NULL
    BY <1>7, <1>8 DEF TableInv, FlowsInv
  <2>2. ASSUME NEW g \in Flows, NEW h \in Flows, Active(g)', Active(h)',
               flow'[g].remote = flow'[h].remote
        PROVE  g = h
    BY <1>7, <1>9, <2>2 DEF TableInv, FlowsInv
  <2>3. ASSUME NEW g \in Flows, Active(g)'
        PROVE  flow'[g].by = socket'.by /\ socket'.by # NULL
    BY <1>1, <1>7, <1>9, <2>3 DEF TableInv, FlowsInv
  <2> QED
    BY <2>1, <2>2, <2>3 DEF FlowsInv
<1>11. EntriesInv' /\ Listed' = Listed
  BY <1>1 DEF TableInv, EntriesInv, Listed
<1>12. PICK e \in Listed : Owns(f, e)
  BY <1>8 DEF TableInv, OwnEntry
<1>13. OwnEntry'
  <2>1. Owns(f, e)'
    <3>1. entry'[e].remote = flow'[f].remote
      BY <1>1, <1>7, <1>12 DEF Owns
    <3>2. \A g \in Flows \ {f} : flow'[g].conn # e
      BY <1>7, <1>12 DEF Owns
    <3>3. flow'[f].state # "connecting"
      BY <1>7
    <3> QED
      BY <3>1, <3>2, <3>3 DEF Owns
  <2>2. ASSUME NEW g \in Flows \ {f}, Active(g) PROVE \E d \in Listed : Owns(g, d)'
    <3>1. PICK d \in Listed : Owns(g, d)
      BY <2>2 DEF TableInv, OwnEntry
    <3>2. flow[g].remote # flow[f].remote
      BY <1>8, <2>2 DEF TableInv, FlowsInv
    <3>3. d # c
      BY <1>2, <1>8, <3>1, <3>2 DEF Owns
    <3>4. Findable(d)' <=> Findable(d)
      BY <1>1, <1>11 DEF Findable
    <3>5. Owns(g, d)'
      BY <1>1, <1>7, <3>1, <3>3, <3>4 DEF Owns
    <3> QED
      BY <3>5
  <2> QED
    BY <1>9, <1>11, <2>1, <2>2 DEF OwnEntry
<1>14. ASSUME ~captured', c # NULL
       PROVE  \A g \in Flows \ {f} : flow[g].conn # c
  <2>1. ~Unfindable(flow[f].remote)
    BY <1>4, <1>14
  <2>2. entry[e].addr = Here /\ entry[e].remote = flow[f].remote
    <3>1. entry[e].addr \in {AnyAddr, Here} /\ entry[e].remote = flow[f].remote
      BY <1>12 DEF Owns, TableInv, EntriesInv, TableTypeOK, Listed
    <3> QED
      BY <2>1, <3>1 DEF Unfindable, Listed
  <2>3. Findable(e) /\ AnyAddr # Here
    BY <1>1, <1>12 DEF Owns, AnyAddr, Here
  <2>4. c = e \/ (e \in After(conns, c) /\ c \in After(conns, e))
    BY <1>2, <1>14, <2>2, <2>3 DEF Findable
  <2>5. c = e
    <3>1. /\ conns \in Seq(Conns) /\ IsInjective(conns)
          /\ c \in ToSet(conns) /\ e \in ToSet(conns)
      BY <1>2, <1>14 DEF TableInv, EntriesInv, TableTypeOK, Listed
    <3> QED
      BY <2>4, <3>1, Ordered
  <2> QED
    BY <1>12, <2>5 DEF Owns
<1>15. ContextLive'
  <2>1. ASSUME ~captured', NEW g \in Flows, flow'[g].conn # NULL
        PROVE  /\ flow'[g].conn \in Listed'
               /\ entry'[flow'[g].conn].remote = flow'[g].remote
               /\ \A h \in Flows \ {g} : flow'[h].conn # flow'[g].conn
    <3>1. CASE g = f
      <4>1. c # NULL /\ flow'[g].conn = c /\ flow'[g].remote = flow[f].remote
        BY <1>7, <2>1, <3>1
      <4>2. c \in Listed /\ entry[c].remote = flow[f].remote
        BY <1>2, <4>1
      <4>3. \A h \in Flows \ {f} : flow'[h].conn # c
        BY <1>7, <1>14, <2>1, <4>1
      <4>4. entry' = entry
        BY <1>1
      <4> QED
        BY <1>11, <4>1, <4>2, <4>3, <4>4
    <3>2. CASE g # f
      <4>1. flow'[g] = flow[g] /\ flow[g].conn # NULL
        BY <1>7, <2>1, <3>2
      <4>2. /\ flow[g].conn \in Listed
            /\ entry[flow[g].conn].remote = flow[g].remote
            /\ \A h \in Flows \ {g} : flow[h].conn # flow[g].conn
        BY <4>1 DEF TableInv, ContextLive, Listed
      <4>3. c # flow[g].conn
        BY <1>14, <2>1, <3>2, <4>1
      <4>4. entry' = entry
        BY <1>1
      <4>5. \A h \in Flows \ {g} : flow'[h].conn # flow[g].conn
        BY <1>7, <4>2, <4>3
      <4> QED
        BY <1>11, <4>1, <4>2, <4>4, <4>5
    <3> QED
      BY <3>1, <3>2
  <2> QED
    BY <2>1 DEF ContextLive, Listed
<1> QED
  BY <1>6, <1>10, <1>11, <1>13, <1>15 DEF TableInv

\* Flows that go on or end, without the list.
LEMMA FlowsGoOn ==
    ASSUME TableTypeOK, TableInv, UNCHANGED <<conns, entry, starved, captured>>,
           socket' = socket \/ \A f \in Flows : ~Active(f)',
           socket' \in [by : Processes \cup {NULL}, addr : {AnyAddr, Here}],
           FlowTypeOK',
           \A f \in Flows :
              \/ flow'[f] = flow[f] \/ flow'[f] = NoFlow
              \/ flow'[f].state = "closing" /\ flow'[f].conn = flow[f].conn
                   /\ flow[f].conn # NULL /\ flow'[f].remote = flow[f].remote
              \/ flow[f].state = "establishing" /\ flow'[f].state = "open"
                   /\ flow'[f].conn = flow[f].conn /\ flow'[f].remote = flow[f].remote
                   /\ flow'[f].by = flow[f].by
    PROVE  TableTypeOK' /\ TableInv'
<1>1. TableTypeOK'
  BY DEF TableTypeOK, FlowTypeOK
<1>2. EntriesInv' /\ Listed' = Listed
  BY DEF TableInv, EntriesInv, Listed
<1>3. NoFlow.state = "idle" /\ NoFlow.conn = NULL
  BY DEF NoFlow
<1>4. \A f \in Flows : Active(f)' =>
         /\ Active(f) /\ flow'[f].remote = flow[f].remote /\ flow'[f].by = flow[f].by
         /\ flow'[f].state = "connecting" => flow[f].state = "connecting"
  BY <1>3 DEF Active
<1>5. \A f \in Flows : flow'[f].conn # NULL =>
         flow'[f].conn = flow[f].conn /\ flow'[f].remote = flow[f].remote
  BY <1>3
<1>6. FlowsInv'
  <2>1. ASSUME NEW f \in Flows
        PROVE  /\ flow'[f].state = "idle" => flow'[f] = NoFlow
               /\ flow'[f].state # "idle" => flow'[f].remote # NULL
               /\ flow'[f].state = "connecting" => flow'[f].conn = NULL
               /\ flow'[f].state \in {"establishing", "closing"} => flow'[f].conn # NULL
    BY <1>3 DEF TableInv, FlowsInv
  <2>2. ASSUME NEW f \in Flows, NEW g \in Flows, Active(f)', Active(g)',
               flow'[f].remote = flow'[g].remote
        PROVE  f = g
    BY <1>4, <2>2 DEF TableInv, FlowsInv
  <2>3. ASSUME NEW f \in Flows, Active(f)'
        PROVE  flow'[f].by = socket'.by /\ socket'.by # NULL
    BY <1>4, <2>3 DEF TableInv, FlowsInv
  <2> QED
    BY <2>1, <2>2, <2>3 DEF FlowsInv
<1>7. OwnEntry'
  <2>1. ASSUME ~starved', NEW f \in Flows, Active(f)'
        PROVE  \E c \in Listed' : Owns(f, c)'
    <3>1. PICK c \in Listed : Owns(f, c)
      BY <1>4, <2>1 DEF TableInv, OwnEntry
    <3>2. c # NULL
      BY ConnectionsAssumption DEF TableTypeOK, Listed
    <3>3. Findable(c)' <=> Findable(c)
      BY <1>2 DEF Findable
    <3>4. \A g \in Flows \ {f} : flow'[g].conn # c
      BY <1>5, <3>1, <3>2 DEF Owns
    <3>5. Owns(f, c)'
      BY <1>4, <2>1, <3>1, <3>3, <3>4 DEF Owns
    <3> QED
      BY <1>2, <3>5
  <2> QED
    BY <2>1 DEF OwnEntry
<1>8. ContextLive'
  BY <1>5 DEF TableInv, ContextLive
<1> QED
  BY <1>1, <1>2, <1>6, <1>7, <1>8 DEF TableInv

\* The context is what was looked up.
LEMMA AssociateKeeps ==
    ASSUME TableTypeOK, TableInv, NEW f \in Flows, FlowAssociate(f)
    PROVE  TableTypeOK' /\ TableInv'
<1>1. /\ flow[f].state = "establishing"
      /\ flow' = [flow EXCEPT ![f].state = "open"]
      /\ UNCHANGED <<conns, entry, socket, starved, captured>>
  BY DEF FlowAssociate
<1>2. FlowTypeOK'
  BY <1>1 DEF FlowTypeOK, TableTypeOK
<1>3. \A g \in Flows :
         \/ flow'[g] = flow[g]
         \/ flow[g].state = "establishing" /\ flow'[g].state = "open"
              /\ flow'[g].conn = flow[g].conn /\ flow'[g].remote = flow[g].remote
              /\ flow'[g].by = flow[g].by
  BY <1>1
<1>4. socket' \in [by : Processes \cup {NULL}, addr : {AnyAddr, Here}]
  BY <1>1 DEF TableTypeOK
<1> QED
  BY <1>1, <1>2, <1>4, FlowsGoOn

\* What Ended leaves of a flow.
LEMMA EndedFlow ==
    ASSUME TableTypeOK, NEW f \in Flows
    PROVE  /\ Ended(f) \in [state : {"idle", "connecting", "establishing", "open",
                                     "closing"},
                            by : Processes \cup {NULL}, remote : Remotes \cup {NULL},
                            conn : Conns \cup {NULL}]
           /\ \/ Ended(f) = NoFlow
              \/ Ended(f).state = "closing" /\ Ended(f).conn = flow[f].conn
                   /\ flow[f].conn # NULL /\ Ended(f).remote = flow[f].remote
  BY DEF Ended, NoFlow, TableTypeOK

\* A flow that ends keeps its context until WFP tells of the end.
LEMMA EndsKeeps ==
    ASSUME TableTypeOK, TableInv, NEW f \in Flows, FlowEnds(f)
    PROVE  TableTypeOK' /\ TableInv'
<1>1. /\ flow' = [flow EXCEPT ![f] = Ended(f)]
      /\ UNCHANGED <<conns, entry, socket, starved, captured>>
  BY DEF FlowEnds
<1>2. FlowTypeOK'
  BY <1>1, EndedFlow DEF FlowTypeOK, TableTypeOK
<1>3. flow'[f] = Ended(f) /\ \A g \in Flows \ {f} : flow'[g] = flow[g]
  BY <1>1 DEF TableTypeOK
<1>4. \A g \in Flows :
         \/ flow'[g] = flow[g] \/ flow'[g] = NoFlow
         \/ flow'[g].state = "closing" /\ flow'[g].conn = flow[g].conn
              /\ flow[g].conn # NULL /\ flow'[g].remote = flow[g].remote
  BY <1>3, EndedFlow
<1>5. socket' \in [by : Processes \cup {NULL}, addr : {AnyAddr, Here}]
  BY <1>1 DEF TableTypeOK
<1> QED
  BY <1>1, <1>2, <1>4, <1>5, FlowsGoOn

\* The flows of a socket end with it.
LEMMA CloseKeeps ==
    ASSUME TableTypeOK, TableInv, SocketClose
    PROVE  TableTypeOK' /\ TableInv'
<1>1. /\ flow' = [f \in Flows |-> IF Active(f) THEN Ended(f) ELSE flow[f]]
      /\ socket' = [socket EXCEPT !.by = NULL]
      /\ UNCHANGED <<conns, entry, starved, captured>>
  BY DEF SocketClose
<1>2. \A f \in Flows : flow'[f] = IF Active(f) THEN Ended(f) ELSE flow[f]
  BY <1>1
<1>3. FlowTypeOK'
  BY <1>1, EndedFlow DEF FlowTypeOK, TableTypeOK
<1>4. \A f \in Flows :
         \/ flow'[f] = flow[f] \/ flow'[f] = NoFlow
         \/ flow'[f].state = "closing" /\ flow'[f].conn = flow[f].conn
              /\ flow[f].conn # NULL /\ flow'[f].remote = flow[f].remote
  BY <1>2, EndedFlow
<1>5. \A f \in Flows : ~Active(f)'
  <2>1. ASSUME NEW f \in Flows, Active(f) PROVE flow'[f].state \in {"idle", "closing"}
    BY <1>2, <2>1, EndedFlow DEF NoFlow
  <2>2. ASSUME NEW f \in Flows, ~Active(f) PROVE flow'[f] = flow[f]
    BY <1>2, <2>2
  <2> QED
    BY <2>1, <2>2 DEF Active
<1>6. socket' \in [by : Processes \cup {NULL}, addr : {AnyAddr, Here}]
  BY <1>1 DEF TableTypeOK
<1> QED
  BY <1>1, <1>3, <1>4, <1>5, <1>6, FlowsGoOn

\* The end of a flow takes nobody's entry but its own.
LEMMA DeleteKeeps ==
    ASSUME TableTypeOK, TableInv, NEW f \in Flows, AleFlowEstablishedV4Delete(f)
    PROVE  TableTypeOK' /\ TableInv'
<1> DEFINE x == flow[f].conn
<1>1. /\ flow[f].state = "closing" /\ RemoveConnection(x)
      /\ flow' = [flow EXCEPT ![f] = NoFlow]
      /\ UNCHANGED <<socket, starved, captured>>
  BY DEF AleFlowEstablishedV4Delete
<1>2. x # NULL /\ x \in Conns
  BY <1>1 DEF TableInv, FlowsInv, TableTypeOK
<1> HIDE DEF x
<1>3. /\ EntryTypeOK' /\ IsInjective(conns') /\ EntriesInv'
      /\ Listed' = Listed \ {x}
      /\ \A d \in Conns \ {x} : entry'[d] = entry[d]
      /\ \A d \in Listed' : After(conns', d) = After(conns, d) \ {x}
  BY <1>1, <1>2, RemoveConnectionRemoves DEF TableInv
<1>4. FlowTypeOK'
  BY <1>1 DEF FlowTypeOK, TableTypeOK, NoFlow
<1>5. flow'[f] = NoFlow /\ \A g \in Flows \ {f} : flow'[g] = flow[g]
  BY <1>1 DEF TableTypeOK
<1>6. TableTypeOK'
  <2>1. conns' \in Seq(Conns)
    BY <1>3 DEF EntriesInv
  <2>2. /\ socket' \in [by : Processes \cup {NULL}, addr : {AnyAddr, Here}]
        /\ starved' \in BOOLEAN /\ captured' \in BOOLEAN
    BY <1>1 DEF TableTypeOK
  <2> QED
    BY <1>3, <1>4, <2>1, <2>2, Entries DEF TableTypeOK, EntryTypeOK, FlowTypeOK
<1>7. NoFlow.state = "idle" /\ NoFlow.conn = NULL
  BY DEF NoFlow
<1>8. \A g \in Flows : Active(g)' => g # f /\ Active(g)
  BY <1>5, <1>7 DEF Active
<1>9. FlowsInv'
  <2>1. ASSUME NEW g \in Flows
        PROVE  /\ flow'[g].state = "idle" => flow'[g] = NoFlow
               /\ flow'[g].state # "idle" => flow'[g].remote # NULL
               /\ flow'[g].state = "connecting" => flow'[g].conn = NULL
               /\ flow'[g].state \in {"establishing", "closing"} => flow'[g].conn # NULL
    BY <1>5, <1>7 DEF TableInv, FlowsInv
  <2>2. ASSUME NEW g \in Flows, NEW h \in Flows, Active(g)', Active(h)',
               flow'[g].remote = flow'[h].remote
        PROVE  g = h
    BY <1>5, <1>8, <2>2 DEF TableInv, FlowsInv
  <2>3. ASSUME NEW g \in Flows, Active(g)'
        PROVE  flow'[g].by = socket'.by /\ socket'.by # NULL
    BY <1>1, <1>8, <2>3 DEF TableInv, FlowsInv
  <2> QED
    BY <2>1, <2>2, <2>3 DEF FlowsInv
<1>10. Listed \subseteq Conns
  BY DEF TableTypeOK, Listed
<1>11. OwnEntry'
  <2>1. ASSUME ~starved', NEW g \in Flows, Active(g)'
        PROVE  \E c \in Listed' : Owns(g, c)'
    <3>1. g # f /\ flow'[g] = flow[g] /\ Active(g)
      BY <1>5, <1>8, <2>1
    <3>2. PICK c \in Listed : Owns(g, c)
      BY <1>1, <2>1, <3>1 DEF TableInv, OwnEntry
    <3>3. c # x
      BY <3>1, <3>2 DEF Owns, x
    <3>4. c \in Listed' /\ entry'[c] = entry[c] /\ c # NULL
          /\ After(conns', c) = After(conns, c) \ {x}
      BY <1>3, <1>10, <3>3, ConnectionsAssumption
    <3>5. Findable(c) => Findable(c)'
      <4>1. \A d \in Listed' : d \in Listed /\ d # x /\ entry'[d] = entry[d]
        BY <1>3, <1>10
      <4> QED
        BY <3>4, <4>1 DEF Findable
    <3>6. \A h \in Flows \ {g} : flow'[h].conn # c
      BY <1>5, <1>7, <3>2, <3>4 DEF Owns
    <3>7. Owns(g, c)'
      BY <1>1, <3>1, <3>2, <3>4, <3>5, <3>6 DEF Owns
    <3> QED
      BY <3>4, <3>7
  <2> QED
    BY <2>1 DEF OwnEntry
<1>12. ContextLive'
  <2>1. ASSUME ~starved, ~captured, NEW g \in Flows, flow'[g].conn # NULL
        PROVE  /\ flow'[g].conn \in Listed'
               /\ entry'[flow'[g].conn].remote = flow'[g].remote
               /\ \A h \in Flows \ {g} : flow'[h].conn # flow'[g].conn
    <3>1. g # f /\ flow'[g] = flow[g]
      BY <1>5, <1>7, <2>1
    <3>2. /\ flow[g].conn \in Listed /\ entry[flow[g].conn].remote = flow[g].remote
          /\ \A h \in Flows \ {g} : flow[h].conn # flow[g].conn
      BY <2>1, <3>1 DEF TableInv, ContextLive, Listed
    <3>3. flow[g].conn # x
      BY <3>1, <3>2 DEF x
    <3>4. \A h \in Flows \ {g} : flow'[h].conn # flow'[g].conn
      BY <1>5, <1>7, <2>1, <3>2
    <3> QED
      BY <1>3, <1>10, <3>1, <3>2, <3>3, <3>4
  <2> QED
    BY <1>1, <2>1 DEF ContextLive, Listed
<1> QED
  BY <1>3, <1>6, <1>9, <1>11, <1>12 DEF TableInv

\* The driver drops the contexts, and forgets the list, when it is unloaded.
LEMMA ForgetKeeps ==
    ASSUME TableTypeOK, TableInv,
           flow' = [f \in Flows |-> NoFlow],
           UNCHANGED <<entry, socket, starved, captured>>,
           conns' = conns \/ conns' = <<>>
    PROVE  TableTypeOK' /\ TableInv'
<1>1. \A f \in Flows : flow'[f] = NoFlow
  OBVIOUS
<1>2. NoFlow.state = "idle" /\ NoFlow.conn = NULL
  BY DEF NoFlow
<1>3. \A f \in Flows : ~Active(f)'
  BY <1>2 DEF Active
<1>4. ToSet(<<>>) = {} /\ IsInjective(<<>>) /\ <<>> \in Seq(Conns)
  BY DEF ToSet, IsInjective
<1>5. FlowTypeOK'
  BY DEF FlowTypeOK, NoFlow
<1>6. conns' \in Seq(Conns) /\ ToSet(conns') \subseteq Conns /\ IsInjective(conns')
  BY <1>4 DEF TableInv, EntriesInv, TableTypeOK
<1>7. TableTypeOK'
  BY <1>5, <1>6 DEF TableTypeOK, FlowTypeOK
<1>8. EntriesInv'
  <2>1. CASE conns' = conns
    BY <2>1 DEF TableInv, EntriesInv, Listed
  <2>2. CASE conns' = <<>>
    BY <1>4, <2>2 DEF EntriesInv, Listed
  <2> QED
    BY <2>1, <2>2
<1>9. FlowsInv'
  BY <1>2, <1>3 DEF FlowsInv
<1>10. OwnEntry' /\ ContextLive'
  BY <1>2, <1>3 DEF OwnEntry, ContextLive
<1> QED
  BY <1>7, <1>8, <1>9, <1>10 DEF TableInv

-----------------------------------------------------------------------------
(* Loopback packets *)

\* A walk ends at the tail of the queue, or behind the client who stops it.
LEMMA Outcomes ==
    ASSUME NEW asked \in Seq(Clients), NEW o \in ProcessRequest(asked)
    PROVE  \/ /\ o.stopper = {} /\ o.kept \subseteq Before(asked, Len(asked))
           \/ \E k \in 0..(Len(asked) - 1) :
                  /\ o.stopper = {asked[k + 1]}
                  /\ o.kept \subseteq Before(asked, k) \cup {asked[k + 1]}
<1>1. CASE \E kept \in SUBSET (Before(asked, Len(asked)) \cup {}) :
             o = [passed |-> Before(asked, Len(asked)), stopper |-> {},
                  answer |-> "SUCCESS", kept |-> kept]
  BY <1>1
<1>2. CASE \E k \in 0..(Len(asked) - 1) : \E a \in Answers \ {"SUCCESS"} :
           \E kept \in SUBSET (Before(asked, k) \cup {asked[k + 1]}) :
             o = [passed |-> Before(asked, k), stopper |-> {asked[k + 1]},
                  answer |-> a, kept |-> kept]
  BY <1>2
<1> QED
  BY <1>1, <1>2, Z3 DEF ProcessRequest, Before

\* What showing the request to the clients in asked does: kept are those with a
\* new reference, next the one of them, if any, that may inject it, and ok says
\* whether actor a goes on to inject it.
Shown(a, asked, may, kept, next, ok) ==
    /\ kept \subseteq asked /\ IsFiniteSet(kept)
    /\ held' = held \cup kept
    /\ refs' = refs + Cardinality(kept)
    /\ mayInject' = may \cup next
    /\ at' = [at EXCEPT ![a] = IF ok THEN "check" ELSE Rest(a)]
    /\ rivals' = (rivals \/ (ok /\ next # {}))
    /\ next \subseteq kept
    /\ \A c \in next : next = {c} /\ After(fwList, c) \subseteq asked
                                 /\ After(fwList, c) \cap kept = {}

\* FWInjectRequest over the rest of the list of instances.
LEMMA InjectDoes ==
    ASSUME fwList \in Seq(Clients), IsInjective(fwList), NEW a, NEW may,
           NEW asked \in Seq(Clients), NEW m \in 0..Len(fwList),
           RestOf(asked, fwList, m), FWInjectRequest(a, asked, may)
    PROVE  /\ ToSet(asked) \subseteq Registered
           /\ \E kept, next \in SUBSET Clients, ok \in BOOLEAN :
                  Shown(a, ToSet(asked), may, kept, next, ok)
<1>1. /\ Before(asked, Len(asked)) = ToSet(asked)
      /\ \A k \in 0..(Len(asked) - 1) :
             /\ asked[k + 1] \in ToSet(asked)
             /\ ToSet(asked) = Before(asked, k) \cup {asked[k + 1]}
                                 \cup After(fwList, asked[k + 1])
             /\ (Before(asked, k) \cup {asked[k + 1]})
                  \cap After(fwList, asked[k + 1]) = {}
      /\ ToSet(asked) = {fwList[j] : j \in (m + 1)..Len(fwList)}
  BY RestEntries
<1>2. ToSet(asked) \subseteq Registered
  <2>1. Len(fwList) \in Nat /\ (m + 1)..Len(fwList) \subseteq 1..Len(fwList)
    BY Entries
  <2> QED
    BY <1>1, <2>1, Entries DEF Registered
<1>3. ToSet(asked) \subseteq Clients /\ IsFiniteSet(ToSet(asked))
  BY <1>2, Entries, EntriesCounted, FS_Subset DEF Registered
<1>4. PICK o \in ProcessRequest(asked) :
        /\ held' = held \cup o.kept
        /\ refs' = refs + Cardinality(o.kept)
        /\ mayInject' = may \cup (o.kept \cap o.stopper)
        /\ at' = [at EXCEPT ![a] = IF NT_SUCCESS(o.answer) THEN "check" ELSE Rest(a)]
        /\ rivals' = (rivals \/ (NT_SUCCESS(o.answer) /\ o.kept \cap o.stopper # {}))
  BY DEF FWInjectRequest
<1> DEFINE kept == o.kept
           next == o.kept \cap o.stopper
           ok == NT_SUCCESS(o.answer)
<1>5. /\ kept \subseteq ToSet(asked) /\ next \subseteq kept
      /\ \A c \in next : /\ next = {c}
                         /\ After(fwList, c) \subseteq ToSet(asked)
                         /\ After(fwList, c) \cap kept = {}
  <2>1. CASE o.stopper = {} /\ o.kept \subseteq Before(asked, Len(asked))
    BY <1>1, <2>1
  <2>2. ASSUME NEW k \in 0..(Len(asked) - 1), o.stopper = {asked[k + 1]},
               o.kept \subseteq Before(asked, k) \cup {asked[k + 1]}
        PROVE  /\ kept \subseteq ToSet(asked)
               /\ \A c \in next : /\ next = {c}
                                  /\ After(fwList, c) \subseteq ToSet(asked)
                                  /\ After(fwList, c) \cap kept = {}
    <3>1. \A c \in next : c = asked[k + 1] /\ next = {c}
      BY <2>2
    <3>2. /\ ToSet(asked) = Before(asked, k) \cup {asked[k + 1]}
                              \cup After(fwList, asked[k + 1])
          /\ (Before(asked, k) \cup {asked[k + 1]})
               \cap After(fwList, asked[k + 1]) = {}
          /\ kept \subseteq Before(asked, k) \cup {asked[k + 1]}
      BY <1>1, <2>2
    <3> HIDE DEF kept, next
    <3> QED
      BY <3>1, <3>2
  <2> QED
    BY <1>4, <2>1, <2>2, Outcomes
<1>6. /\ held' = held \cup kept /\ refs' = refs + Cardinality(kept)
      /\ mayInject' = may \cup next
      /\ at' = [at EXCEPT ![a] = IF ok THEN "check" ELSE Rest(a)]
      /\ rivals' = (rivals \/ (ok /\ next # {}))
      /\ ok \in BOOLEAN
  BY <1>4 DEF NT_SUCCESS
<1> HIDE DEF kept, next, ok
<1>7. IsFiniteSet(kept) /\ kept \subseteq Clients /\ next \subseteq Clients
  BY <1>3, <1>5, FS_Subset
<1> QED
  BY <1>2, <1>5, <1>6, <1>7 DEF Shown

\* The clients behind c are a rest of the list.
LEMMA BehindIsRest ==
    ASSUME fwList \in Seq(Clients), IsInjective(fwList), NEW c \in Registered
    PROVE  /\ Behind(c) \in Seq(Clients) /\ ToSet(Behind(c)) = After(fwList, c)
           /\ \E m \in 0..Len(fwList) : RestOf(Behind(c), fwList, m)
<1> DEFINE k == CHOOSE j \in 1..Len(fwList) : fwList[j] = c
<1>1. k \in 1..Len(fwList) /\ fwList[k] = c
  <2>1. \E j \in 1..Len(fwList) : fwList[j] = c
    BY Entries DEF Registered
  <2> QED
    BY <2>1
<1>2. Behind(c) = SubSeq(fwList, k + 1, Len(fwList))
  BY DEF Behind
<1> HIDE DEF k
<1>3. Len(fwList) \in Nat /\ k \in 0..Len(fwList)
  BY <1>1, Entries
<1>4. Behind(c) \in Seq(Clients) /\ RestOf(Behind(c), fwList, k)
  BY <1>2, <1>3, RestOfList
<1>5. ToSet(Behind(c)) = {fwList[j] : j \in (k + 1)..Len(fwList)}
  BY <1>3, <1>4, RestEntries
<1> QED
  BY <1>1, <1>3, <1>4, <1>5, AfterEntry

\* The list of clients in order is the whole list's rest.
LEMMA ListIsRest ==
    ASSUME fwList \in Seq(Clients)
    PROVE  0 \in 0..Len(fwList) /\ RestOf(fwList, fwList, 0)
<1>1. Len(fwList) \in Nat
  BY Entries
<1>2. Len(fwList) - 0 = Len(fwList) /\ \A j \in 1..Len(fwList) : 0 + j = j
  BY <1>1
<1> QED
  BY <1>1, <1>2 DEF RestOf

\* A walk over clients of whom none has kept the request, by actor a, who had the
\* only right to it; others may only if there are rivals.
LEMMA ShownKeeps ==
    ASSUME PacketTypeOK, PacketInv, NEW a \in Actors,
           NEW asked \in SUBSET Registered, asked \cap held = {},
           NEW kept \in SUBSET Clients, NEW next \in SUBSET Clients,
           NEW ok \in BOOLEAN, Shown(a, asked, {}, kept, next, ok),
           \/ at[a] = "ask" /\ a = Callout
           \/ a \in mayInject /\ at[a] = "idle",
           UNCHANGED <<ptr, clone, misused, fwList>>
    PROVE  PacketTypeOK' /\ PacketInv'
<1>1. /\ held' = held \cup kept /\ refs' = refs + Cardinality(kept)
      /\ mayInject' = next
      /\ at' = [at EXCEPT ![a] = IF ok THEN "check" ELSE Rest(a)]
      /\ rivals' = (rivals \/ (ok /\ next # {}))
      /\ kept \subseteq asked /\ IsFiniteSet(kept) /\ next \subseteq kept
      /\ \A c \in next : next = {c} /\ After(fwList, c) \subseteq asked
                                   /\ After(fwList, c) \cap kept = {}
  BY DEF Shown
<1>2. /\ fwList' = fwList /\ Registered' = Registered /\ Registered \subseteq Clients
      /\ ptr' = ptr /\ clone' = clone /\ misused' = misused
      /\ at \in [Actors -> {"idle", "ask", "check", "send", "clear", "free"}]
      /\ held \subseteq Clients /\ mayInject \subseteq Clients /\ refs \in Nat
  BY DEF PacketTypeOK, Registered
<1>3. /\ Rest(a) \in {"idle", "free"} /\ (a = Callout => Rest(a) = "free")
      /\ (a # Callout => Rest(a) = "idle")
      /\ Callout \in Actors /\ Callout \notin Clients
  BY CalloutAssumption DEF Rest, Actors
<1>4. /\ at' \in [Actors -> {"idle", "ask", "check", "send", "clear", "free"}]
      /\ at'[a] = (IF ok THEN "check" ELSE Rest(a))
      /\ \A b \in Actors : b # a => at'[b] = at[b]
  BY <1>1, <1>2, <1>3
<1>5. Cardinality(kept) \in Nat /\ refs' \in Nat
  BY <1>1, <1>2, FS_CardinalityType
<1>6. PacketTypeOK'
  BY <1>1, <1>2, <1>4, <1>5 DEF PacketTypeOK
<1>7. HoldersInv'
  <2>1. held \cap kept = {} /\ IsFiniteSet(held) /\ kept \subseteq Registered
    BY <1>1 DEF PacketInv, HoldersInv
  <2>2. /\ IsFiniteSet(held')
        /\ Cardinality(held') = Cardinality(held) + Cardinality(kept)
    <3>1. Cardinality({}) = 0 /\ Cardinality(held) \in Nat
      BY <2>1, FS_EmptySet, FS_CardinalityType
    <3>2. /\ IsFiniteSet(held \cup kept)
          /\ Cardinality(held \cup kept)
               = Cardinality(held) + Cardinality(kept) - Cardinality(held \cap kept)
      BY <1>1, <2>1, FS_Union
    <3>3. Cardinality(held \cap kept) = 0
      BY <2>1, <3>1
    <3>4. Cardinality(held \cup kept) = Cardinality(held) + Cardinality(kept)
      BY <1>5, <3>1, <3>2, <3>3
    <3> QED
      BY <1>1, <3>2, <3>4
  <2>3. at'[Callout] = "idle" <=> at[Callout] = "idle"
    <3>1. a = Callout => at[Callout] = "ask"
      BY <1>2, <1>3
    <3> QED
      BY <1>3, <1>4, <3>1
  <2>4. Cardinality(held) \in Nat
    BY <2>1, FS_CardinalityType
  <2>5. refs' = Cardinality(held') + (IF at'[Callout] = "idle" THEN 0 ELSE 1)
    BY <1>1, <1>5, <2>2, <2>3, <2>4 DEF PacketInv, HoldersInv
  <2>6. \A c \in Clients :
          at'[c] # "idle" => c \in held' /\ at'[c] \notin {"ask", "free"}
    BY <1>1, <1>3, <1>4 DEF PacketInv, HoldersInv, Actors
  <2>7. at'[Callout] # "ask"
    <3>1. at[Callout] = "ask" => a = Callout
      BY DEF PacketInv, HoldersInv
    <3> QED
      BY <1>3, <1>4, <3>1
  <2>8. mayInject' \subseteq held' /\ held' \subseteq Registered'
    BY <1>1, <1>2, <2>1 DEF PacketInv, HoldersInv
  <2> QED
    BY <1>2, <2>2, <2>5, <2>6, <2>7, <2>8 DEF PacketInv, HoldersInv
<1>8. WalkInv'
  BY <1>1, <1>2 DEF WalkInv
<1>9. TokenInv'
  <2>1. ~rivals => \A b \in Injecting : b = a
    BY DEF PacketInv, TokenInv, Injecting
  <2>2. ~rivals' => \A b \in Actors :
             at'[b] \in {"ask", "check", "send", "clear"} => b = a /\ ok
    BY <1>1, <1>3, <1>4, <2>1 DEF Injecting
  <2>3. ~rivals' => mayInject' = {} \/ ~ok
    BY <1>1
  <2> QED
    BY <2>2, <2>3 DEF TokenInv, Injecting
<1>10. CloneInv'
  <2>1. \A b \in Actors : /\ at'[b] = "clear" => b # a /\ at[b] = "clear"
                          /\ at[b] = "clear" => at'[b] = "clear"
                          /\ at'[b] = "send" => at[b] = "send"
    BY <1>3, <1>4
  <2>2. refs > 0 => refs' > 0
    BY <1>1, <1>2, <1>5
  <2> SUFFICES ASSUME ~rivals' PROVE CloneInv'
    BY DEF CloneInv
  <2>3. /\ ~misused
        /\ clone = "driver" => refs > 0 /\ ptr
        /\ ptr => clone = "driver" \/ \E b \in Actors : at[b] = "clear"
        /\ \A b \in Actors : /\ at[b] = "send" => ptr
                             /\ at[b] = "clear" => clone \in {"wfp", "freed"}
    BY <1>1 DEF PacketInv, CloneInv
  <2>4. /\ ~misused'
        /\ clone' = "driver" => refs' > 0 /\ ptr'
        /\ ptr' => clone' = "driver" \/ \E b \in Actors : at'[b] = "clear"
    BY <1>2, <2>1, <2>2, <2>3
  <2>5. \A b \in Actors : /\ at'[b] = "send" => ptr'
                          /\ at'[b] = "clear" => clone' \in {"wfp", "freed"}
    BY <1>2, <2>1, <2>3
  <2> QED
    BY <2>4, <2>5 DEF CloneInv
<1> QED
  BY <1>6, <1>7, <1>8, <1>9, <1>10 DEF PacketInv

\* The callout shows its request to the clients, or a client, to those behind it,
\* a request that it had stopped.
LEMMA WalksKeep ==
    ASSUME PacketTypeOK, PacketInv,
           ClassifyInject \/ \E c \in Clients : ClientInject(c)
    PROVE  PacketTypeOK' /\ PacketInv'
<1>1. fwList \in Seq(Clients) /\ IsInjective(fwList)
  BY DEF PacketInv, HoldersInv
<1>2. CASE ClassifyInject
  <2>1. /\ at[Callout] = "ask" /\ FWInjectRequest(Callout, fwList, {})
        /\ held = {} /\ UNCHANGED <<ptr, clone, misused, fwList>>
    BY <1>2 DEF ClassifyInject, PacketInv, HoldersInv
  <2>2. PICK kept, next \in SUBSET Clients, ok \in BOOLEAN :
            Shown(Callout, ToSet(fwList), {}, kept, next, ok)
    BY <1>1, <2>1, ListIsRest, InjectDoes
  <2>3. Callout \in Actors /\ ToSet(fwList) \in SUBSET Registered
    BY DEF Actors, Registered
  <2> QED
    BY <2>1, <2>2, <2>3, ShownKeeps
<1>3. ASSUME NEW c \in Clients, ClientInject(c) PROVE PacketTypeOK' /\ PacketInv'
  <2>1. /\ c \in mayInject /\ at[c] = "idle" /\ c \in Registered
        /\ mayInject \ {c} = {} /\ After(fwList, c) \cap held = {}
        /\ FWInjectRequest(c, Behind(c), mayInject \ {c})
        /\ UNCHANGED <<ptr, clone, misused, fwList>>
    BY <1>3 DEF ClientInject, PacketInv, HoldersInv, WalkInv
  <2>2. PICK m \in 0..Len(fwList) : RestOf(Behind(c), fwList, m)
    BY <1>1, <2>1, BehindIsRest
  <2>3. Behind(c) \in Seq(Clients) /\ ToSet(Behind(c)) = After(fwList, c)
    BY <1>1, <2>1, BehindIsRest
  <2>4. /\ ToSet(Behind(c)) \in SUBSET Registered
        /\ \E kept, next \in SUBSET Clients, ok \in BOOLEAN :
             Shown(c, ToSet(Behind(c)), {}, kept, next, ok)
    <3>1. FWInjectRequest(c, Behind(c), {})
      BY <2>1
    <3> QED
      BY <1>1, <2>2, <2>3, <3>1, InjectDoes
  <2>5. c \in Actors
    BY DEF Actors
  <2> QED
    BY <2>1, <2>3, <2>4, <2>5, ShownKeeps
<1> QED
  BY <1>2, <1>3

\* The test, the hand-over and the clearing, by an actor who is alone with the
\* clone unless there are rivals.
LEMMA InjectingKeeps ==
    ASSUME PacketTypeOK, PacketInv, NEW a \in Actors, NEW handle,
           InjectCheck(a) \/ InjectSend(a, handle) \/ InjectClear(a)
    PROVE  PacketTypeOK' /\ PacketInv'
<1>1. /\ Rest(a) \in {"idle", "free"} /\ (a = Callout => Rest(a) = "free")
      /\ (a # Callout => Rest(a) = "idle")
      /\ Callout \in Actors /\ Callout \notin Clients /\ Clients \subseteq Actors
  BY CalloutAssumption DEF Rest, Actors
<1>2. /\ at[a] \in {"check", "send", "clear"}
      /\ UNCHANGED <<refs, held, mayInject, rivals, fwList>>
      /\ \E x \in {"send", "clear", Rest(a)} : at' = [at EXCEPT ![a] = x]
  BY DEF InjectCheck, InjectSend, InjectClear
<1>3. at \in [Actors -> {"idle", "ask", "check", "send", "clear", "free"}]
  BY DEF PacketTypeOK
<1>4. PICK x \in {"send", "clear", Rest(a)} : at' = [at EXCEPT ![a] = x]
  BY <1>2
<1>5. /\ at' \in [Actors -> {"idle", "ask", "check", "send", "clear", "free"}]
      /\ at'[a] = x /\ \A b \in Actors : b # a => at'[b] = at[b]
  BY <1>1, <1>3, <1>4
<1>6. ptr' \in BOOLEAN /\ misused' \in BOOLEAN
      /\ clone' \in {"none", "driver", "wfp", "freed"}
  BY DEF PacketTypeOK, InjectCheck, InjectSend, InjectClear
<1>7. PacketTypeOK'
  BY <1>2, <1>5, <1>6 DEF PacketTypeOK, Registered
<1>8. HoldersInv'
  <2>1. at'[Callout] = "idle" <=> at[Callout] = "idle"
    BY <1>1, <1>2, <1>5
  <2>2. \A c \in Clients :
          at'[c] # "idle" => c \in held' /\ at'[c] \notin {"ask", "free"}
    BY <1>1, <1>2, <1>5 DEF PacketInv, HoldersInv
  <2>3. at'[Callout] = "ask" => at[Callout] = "ask"
    BY <1>1, <1>2, <1>5
  <2> QED
    BY <1>2, <2>1, <2>2, <2>3 DEF PacketInv, HoldersInv, Registered
<1>9. WalkInv'
  BY <1>2 DEF PacketInv, WalkInv
<1>10. TokenInv'
  <2>1. Injecting' \subseteq Injecting
    BY <1>1, <1>2, <1>5 DEF Injecting
  <2> QED
    BY <1>2, <2>1 DEF PacketInv, TokenInv
<1>11. CloneInv'
  <2> SUFFICES ASSUME ~rivals PROVE CloneInv'
    BY <1>2 DEF CloneInv
  <2>1. \A b \in Actors : at[b] \in {"check", "send", "clear"} => b = a
    BY <1>2 DEF PacketInv, TokenInv, Injecting
  <2>2. \A b \in Actors : at'[b] \in {"send", "clear"} => b = a
    BY <1>5, <2>1
  <2>3. CASE InjectCheck(a)
    <3>1. /\ at[a] = "check" /\ at'[a] = (IF ptr THEN "send" ELSE Rest(a))
          /\ ptr' = ptr /\ clone' = clone /\ misused' = misused
      BY <1>3, <2>3 DEF InjectCheck
    <3> QED
      BY <1>1, <1>2, <2>1, <2>2, <3>1 DEF PacketInv, CloneInv
  <2>4. CASE InjectSend(a, handle)
    <3>1. /\ at[a] = "send" /\ ptr' = ptr /\ ptr /\ clone = "driver" /\ ~misused
      BY <2>1, <2>4 DEF InjectSend, PacketInv, CloneInv
    <3>2. \/ at'[a] = "clear" /\ clone' = "wfp" /\ ~misused'
          \/ at'[a] = Rest(a) /\ clone' = clone /\ misused' = misused
      BY <1>3, <2>4, <3>1 DEF InjectSend
    <3> QED
      BY <1>1, <1>2, <2>1, <2>2, <3>1, <3>2 DEF PacketInv, CloneInv
  <2>5. CASE InjectClear(a)
    <3>1. /\ at[a] = "clear" /\ at'[a] = Rest(a)
          /\ ~ptr' /\ clone' = clone /\ misused' = misused
      BY <1>3, <2>5 DEF InjectClear
    <3> QED
      BY <1>1, <1>2, <2>1, <2>2, <3>1 DEF PacketInv, CloneInv
  <2> QED
    BY <2>3, <2>4, <2>5
<1> QED
  BY <1>7, <1>8, <1>9, <1>10, <1>11 DEF PacketInv

\* The callout or a client lets go of the request, nobody else being in a call
\* if it was the last.
LEMMA FreesKeep ==
    ASSUME PacketTypeOK, PacketInv, ClassifyFree \/ \E c \in Clients : ClientFree(c)
    PROVE  PacketTypeOK' /\ PacketInv'
<1>1. /\ Callout \in Actors /\ Callout \notin Clients
      /\ Actors = Clients \cup {Callout}
      /\ at \in [Actors -> {"idle", "ask", "check", "send", "clear", "free"}]
      /\ IsFiniteSet(held) /\ Cardinality(held) \in Nat /\ refs \in Nat
      /\ refs = Cardinality(held) + (IF at[Callout] = "idle" THEN 0 ELSE 1)
      /\ Cardinality(held) = 0 <=> held = {}
  BY CalloutAssumption, FS_CardinalityType, FS_EmptySet
     DEF Actors, PacketTypeOK, PacketInv, HoldersInv
<1>2. ASSUME FWFreeCloneRequest, refs > 0, UNCHANGED <<rivals, fwList>>,
             held' \subseteq held, mayInject' = mayInject \cap held',
             IsFiniteSet(held'),
             at' \in [Actors -> {"idle", "ask", "check", "send", "clear", "free"}],
             refs' = Cardinality(held') + (IF at'[Callout] = "idle" THEN 0 ELSE 1),
             \A b \in Actors : \/ at'[b] = at[b]
                               \/ at[b] = "free" /\ at'[b] = "idle",
             \A c \in Clients : at[c] # "idle" => c \in held',
             refs = 1 => \A b \in Actors : at[b] \in {"idle", "free"}
      PROVE  PacketTypeOK' /\ PacketInv'
  <2>1. /\ ptr' \in BOOLEAN /\ misused' \in BOOLEAN /\ refs' = refs - 1
        /\ clone' \in {"none", "driver", "wfp", "freed"}
    BY <1>2 DEF FWFreeCloneRequest, PacketTypeOK
  <2>2. PacketTypeOK'
    <3>1. refs' \in Nat
      BY <1>1, <1>2, <2>1
    <3> QED
      BY <1>2, <2>1, <3>1 DEF PacketTypeOK, Registered
  <2>3. HoldersInv'
    <3>1. \A c \in Clients :
            at'[c] # "idle" => c \in held' /\ at'[c] \notin {"ask", "free"}
      BY <1>1, <1>2 DEF PacketInv, HoldersInv
    <3>2. at'[Callout] = "ask" => held' = {}
      BY <1>1, <1>2 DEF PacketInv, HoldersInv
    <3> QED
      BY <1>2, <3>1, <3>2 DEF PacketInv, HoldersInv, Registered
  <2>4. WalkInv'
    BY <1>2 DEF PacketInv, WalkInv
  <2>5. TokenInv'
    <3>1. Injecting' \subseteq Injecting
      BY <1>2 DEF Injecting
    <3> QED
      BY <1>2, <3>1 DEF PacketInv, TokenInv
  <2>6. CloneInv'
    <3> SUFFICES ASSUME ~rivals PROVE CloneInv'
      BY <1>2 DEF CloneInv
    <3>1. \A b \in Actors : /\ at'[b] = "send" <=> at[b] = "send"
                            /\ at'[b] = "clear" <=> at[b] = "clear"
      BY <1>2
    <3>2. CASE refs = 1 /\ ptr
      <4>1. \A b \in Actors : at[b] # "clear" /\ at[b] # "send"
        BY <1>2, <3>2
      <4>2. clone = "driver" /\ ~misused
        BY <3>2, <4>1 DEF PacketInv, CloneInv
      <4>3. ~ptr' /\ clone' = "freed" /\ ~misused'
        BY <1>2, <3>2, <4>2 DEF FWFreeCloneRequest
      <4> QED
        BY <3>1, <4>1, <4>3 DEF CloneInv
    <3>3. CASE ~(refs = 1 /\ ptr)
      <4>1. ptr' = ptr /\ clone' = clone /\ misused' = misused
        BY <1>2, <3>3 DEF FWFreeCloneRequest
      <4>2. ptr => refs' > 0
        BY <1>1, <1>2, <2>1, <3>3
      <4> QED
        BY <3>1, <4>1, <4>2 DEF PacketInv, CloneInv
    <3> QED
      BY <3>2, <3>3
  <2> QED
    BY <2>2, <2>3, <2>4, <2>5, <2>6 DEF PacketInv
<1>3. CASE ClassifyFree
  <2>1. /\ at[Callout] = "free" /\ FWFreeCloneRequest
        /\ at' = [at EXCEPT ![Callout] = "idle"]
        /\ UNCHANGED <<held, mayInject, rivals, fwList>>
    BY <1>3 DEF ClassifyFree
  <2>2. refs > 0 /\ refs' = refs - 1 /\ refs = Cardinality(held) + 1
    BY <1>1, <2>1 DEF FWFreeCloneRequest
  <2>3. /\ at' \in [Actors -> {"idle", "ask", "check", "send", "clear", "free"}]
        /\ at'[Callout] = "idle" /\ \A b \in Actors : b # Callout => at'[b] = at[b]
    BY <1>1, <2>1
  <2>4. mayInject' = mayInject \cap held' /\ \A c \in Clients :
            at[c] # "idle" => c \in held'
    BY <2>1 DEF PacketInv, HoldersInv
  <2>5. refs' = Cardinality(held') + (IF at'[Callout] = "idle" THEN 0 ELSE 1)
    <3>1. Cardinality(held) \in Nat /\ held' = held
      BY <1>1, <2>1, FS_CardinalityType
    <3> QED
      BY <2>2, <2>3, <3>1
  <2>6. ASSUME refs = 1 PROVE \A b \in Actors : at[b] \in {"idle", "free"}
    <3>1. held = {}
      BY <1>1, <2>2, <2>6
    <3>2. \A c \in Clients : at[c] = "idle"
      BY <3>1 DEF PacketInv, HoldersInv
    <3> QED
      BY <1>1, <2>1, <3>2
  <2> QED
    BY <1>1, <1>2, <2>1, <2>2, <2>3, <2>4, <2>5, <2>6
<1>4. ASSUME NEW c \in Clients, ClientFree(c) PROVE PacketTypeOK' /\ PacketInv'
  <2>1. /\ c \in held /\ at[c] = "idle" /\ FWFreeCloneRequest
        /\ held' = held \ {c} /\ mayInject' = mayInject \ {c}
        /\ UNCHANGED <<at, rivals, fwList>>
    BY <1>4 DEF ClientFree
  <2>2. IsFiniteSet(held') /\ Cardinality(held') = Cardinality(held) - 1
    BY <1>1, <2>1, FS_RemoveElement
  <2>3. Cardinality(held) > 0
    BY <1>1, <2>1
  <2>4. refs > 0 /\ refs' = refs - 1
    BY <1>1, <2>1, <2>3 DEF FWFreeCloneRequest
  <2>5. refs' = Cardinality(held') + (IF at'[Callout] = "idle" THEN 0 ELSE 1)
    BY <1>1, <2>1, <2>2, <2>4
  <2>6. mayInject' = mayInject \cap held' /\ \A d \in Clients :
            at[d] # "idle" => d \in held'
    BY <2>1 DEF PacketInv, HoldersInv
  <2>7. ASSUME refs = 1 PROVE \A b \in Actors : at[b] \in {"idle", "free"}
    <3>1. at[Callout] = "idle" /\ Cardinality(held') = 0
      BY <1>1, <2>2, <2>3, <2>7
    <3>2. held' = {}
      BY <2>2, <3>1, FS_EmptySet
    <3> QED
      BY <1>1, <2>6, <3>1, <3>2
  <2> QED
    BY <1>1, <1>2, <2>1, <2>2, <2>4, <2>5, <2>6, <2>7
<1> QED
  BY <1>3, <1>4

\* Clients come and go, a client that holds the request stays.
LEMMA RegisteringKeeps ==
    ASSUME PacketTypeOK, PacketInv, NEW c \in Clients,
           ClientRegisters(c) \/ ClientDeregisters(c)
    PROVE  PacketTypeOK' /\ PacketInv'
<1>1. /\ fwList \in Seq(Clients) /\ IsInjective(fwList) /\ held \subseteq Registered
      /\ UNCHANGED request /\ mayInject \subseteq held /\ c \notin held'
      /\ held' = held /\ mayInject' = mayInject
  BY DEF PacketInv, HoldersInv, ClientRegisters, ClientDeregisters, request,
         FWRegisterRequestCallback
<1>2. /\ fwList' \in Seq(Clients) /\ IsInjective(fwList')
      /\ held \subseteq Registered' /\ Registered' \subseteq Clients
      /\ \A d \in held : After(fwList', d) \subseteq After(fwList, d) \cup {c}
  <2>1. CASE ClientRegisters(c)
    <3>1. fwList' = Append(fwList, c) /\ c \notin ToSet(fwList)
      BY <2>1 DEF ClientRegisters, FWRegisterRequestCallback, Registered
    <3> QED
      BY <1>1, <3>1, AppendKeeps, Entries DEF Registered
  <2>2. CASE ClientDeregisters(c)
    <3>1. fwList' = Unlink(fwList, c) /\ c \notin held
      BY <2>2 DEF ClientDeregisters, FWDeregisterRequestCallback
    <3>2. /\ fwList' \in Seq(Clients) /\ IsInjective(fwList')
          /\ ToSet(fwList') = ToSet(fwList) \ {c}
          /\ \A d : d # c => After(fwList', d) = After(fwList, d) \ {c}
      BY <1>1, <3>1, UnlinkKeeps
    <3>3. ToSet(fwList) \subseteq Clients /\ held \subseteq ToSet(fwList)
      BY <1>1, Entries DEF Registered
    <3>4. ToSet(fwList') \subseteq Clients /\ held \subseteq ToSet(fwList')
      BY <3>1, <3>2, <3>3
    <3>5. \A d \in held : After(fwList', d) \subseteq After(fwList, d) \cup {c}
      BY <3>1, <3>2
    <3> QED
      BY <3>2, <3>4, <3>5 DEF Registered
  <2> QED
    BY <2>1, <2>2
<1>3. PacketTypeOK'
  BY <1>1, <1>2 DEF PacketTypeOK, request
<1>4. HoldersInv'
  BY <1>1, <1>2 DEF PacketInv, HoldersInv, request
<1>5. WalkInv'
  BY <1>1, <1>2 DEF PacketInv, WalkInv
<1>6. TokenInv' /\ CloneInv'
  BY <1>1 DEF PacketInv, TokenInv, CloneInv, Injecting, request
<1> QED
  BY <1>3, <1>4, <1>5, <1>6 DEF PacketInv

\* A packet is absorbed when the one before is gone.
LEMMA ClassifyKeeps ==
    ASSUME PacketTypeOK, PacketInv, OutboundTransportV4Classify
    PROVE  PacketTypeOK' /\ PacketInv'
<1>1. /\ refs = 0 /\ refs' = 1 /\ ptr' = TRUE /\ clone' = "driver"
      /\ at' = [at EXCEPT ![Callout] = "ask"] /\ rivals' = FALSE /\ misused' = FALSE
      /\ UNCHANGED <<held, mayInject, fwList>>
  BY DEF OutboundTransportV4Classify
<1>2. /\ IsFiniteSet(held) /\ Cardinality(held) \in Nat
      /\ Cardinality(held) = 0 <=> held = {}
      /\ Callout \in Actors /\ Callout \notin Clients
      /\ Actors = Clients \cup {Callout}
  BY CalloutAssumption, FS_CardinalityType, FS_EmptySet
     DEF Actors, PacketInv, HoldersInv
<1>3. held = {} /\ Cardinality(held') = 0 /\ mayInject = {}
      /\ \A c \in Clients : at[c] = "idle"
  BY <1>1, <1>2 DEF PacketInv, HoldersInv
<1>4. /\ at' \in [Actors -> {"idle", "ask", "check", "send", "clear", "free"}]
      /\ at'[Callout] = "ask" /\ \A c \in Clients : at'[c] = "idle"
  BY <1>1, <1>2, <1>3 DEF PacketTypeOK
<1>5. PacketTypeOK'
  BY <1>1, <1>4 DEF PacketTypeOK, Registered
<1>6. HoldersInv'
  BY <1>1, <1>2, <1>3, <1>4 DEF PacketInv, HoldersInv, Registered
<1>7. WalkInv' /\ TokenInv' /\ CloneInv'
  BY <1>1, <1>2, <1>3, <1>4 DEF WalkInv, TokenInv, CloneInv, Injecting
<1> QED
  BY <1>5, <1>6, <1>7 DEF PacketInv

\* WFP frees a clone that was handed over.
LEMMA CompletionKeeps ==
    ASSUME PacketTypeOK, PacketInv, OutboundTransportV4Completion
    PROVE  PacketTypeOK' /\ PacketInv'
<1>1. /\ clone = "wfp" /\ clone' = "freed"
      /\ UNCHANGED <<refs, ptr, held, mayInject, at, rivals, misused, fwList>>
  BY DEF OutboundTransportV4Completion
<1>2. PacketTypeOK' /\ HoldersInv'
  BY <1>1 DEF PacketTypeOK, PacketInv, HoldersInv, Registered
<1>3. WalkInv' /\ TokenInv' /\ CloneInv'
  BY <1>1 DEF PacketInv, WalkInv, TokenInv, CloneInv, Injecting
<1> QED
  BY <1>2, <1>3 DEF PacketInv

\* What happens to a packet.
LEMMA LoopbackKeeps ==
    ASSUME PacketTypeOK, PacketInv, LoopbackPacket
    PROVE  PacketTypeOK' /\ PacketInv'
<1>1. OutboundTransportV4Classify \/ PacketNext(gInj \in handles)
  BY DEF LoopbackPacket
<1> QED
  BY <1>1, ClassifyKeeps, CompletionKeeps, WalksKeep, InjectingKeeps, FreesKeep,
     RegisteringKeeps DEF PacketNext

-----------------------------------------------------------------------------
(* The whole driver *)

\* TypeOK by component.
LEMMA TypeParts == TypeOK <=> TableTypeOK /\ DriverTypeOK /\ PacketTypeOK
  BY DEF TypeOK, DriverTypeOK

\* Connections and packets do not change what the driver has registered.
LEMMA DriverFrame ==
    ASSUME DriverTypeOK, DriverInv, UNCHANGED <<driver, engine, wfp>>
    PROVE  DriverTypeOK' /\ DriverInv'
<1> USE DEF driver, engine, wfp
<1>1. DriverTypeOK'
  BY DEF DriverTypeOK
<1>2. Loads' /\ Unloads' /\ NeedsBfe'
  BY DEF DriverInv, Loads, Unloads, NeedsBfe
<1>3. StartsCounted' /\ Registers' /\ Remembers'
  BY DEF DriverInv, StartsCounted, Registers, Remembers
<1>4. NothingLeft' /\ Backed'
  BY DEF DriverInv, NothingLeft, Backed
<1> QED
  BY <1>1, <1>2, <1>3, <1>4 DEF DriverInv

\* The table changes by its own operations only.
LEMMA TableFrame ==
    ASSUME TableTypeOK, TableInv, UNCHANGED table
    PROVE  TableTypeOK' /\ TableInv'
<1> USE DEF table
<1>1. TableTypeOK'
  BY DEF TableTypeOK
<1>2. EntriesInv' /\ FlowsInv'
  BY DEF TableInv, EntriesInv, FlowsInv, Active, Listed
<1>3. OwnEntry' /\ ContextLive'
  BY DEF TableInv, OwnEntry, Owns, Findable, Active, Listed, ContextLive
<1> QED
  BY <1>1, <1>2, <1>3 DEF TableInv

\* The packet changes by its own operations only.
LEMMA PacketFrame ==
    ASSUME PacketTypeOK, PacketInv, UNCHANGED packet
    PROVE  PacketTypeOK' /\ PacketInv'
<1> USE DEF packet, request
<1>1. PacketTypeOK' /\ HoldersInv' /\ WalkInv'
  BY DEF PacketTypeOK, PacketInv, HoldersInv, WalkInv, Registered
<1>2. TokenInv' /\ CloneInv'
  BY DEF PacketInv, TokenInv, CloneInv, Injecting
<1> QED
  BY <1>1, <1>2 DEF PacketInv

\* Loading, registering, unloading and the BFE's coming and going.
DriverNext ==
    Loading \/ Notified \/ Register \/ Unloading \/ BfeStart \/ BfeStop

\* The steps of loading, registering and unloading.
LEMMA DriverKeeps ==
    ASSUME DriverTypeOK, DriverInv, drv # "gone", DriverNext
    PROVE  DriverTypeOK' /\ DriverInv'
  BY DriverEntryKeeps, SubscribeChangesKeeps, ConnectKeeps, NotifiedKeeps,
     RegisterBeginKeeps, RegisterLayerKeeps, RegisterCommitKeeps,
     RegisterFailsKeeps, DriverUnloadKeeps, RemoveFiltersKeeps,
     UnregisterCalloutsKeeps, UnsubscribeKeeps, BfeStartKeeps, BfeStopKeeps
     DEF DriverNext, Loading, Register, Unloading

\* The events of sockets and flows.
LEMMA ConnectionKeeps ==
    ASSUME TableTypeOK, TableInv, Connection
    PROVE  TableTypeOK' /\ TableInv'
<1>1. CASE Classify
  BY <1>1, AssignmentKeeps, AuthKeeps, EstablishedKeeps DEF Classify
<1>2. CASE FlowEvent
  BY <1>2, AssociateKeeps, EndsKeeps, DeleteKeeps, CloseKeeps DEF FlowEvent
<1> QED
  BY <1>1, <1>2 DEF Connection

\* What a step of the driver's own does to the table and the packet.
LEMMA DriverTable ==
    ASSUME TableTypeOK, TableInv, PacketTypeOK, PacketInv, DriverNext
    PROVE  TableTypeOK' /\ TableInv' /\ PacketTypeOK' /\ PacketInv'
<1>1. UNCHANGED packet
  BY DEF DriverNext, Loading, DriverEntry, SubscribeChanges, Connect, Notified,
         Register, RegisterBegin, RegisterLayer, RegisterCommit, RegisterFails,
         Unloading, DriverUnload, RemoveFilters, UnregisterCallouts,
         Unsubscribe, BfeStart, BfeStop
<1>2. ASSUME UnregisterCallouts PROVE TableTypeOK' /\ TableInv'
  BY <1>2, ForgetKeeps DEF UnregisterCallouts
<1>3. ASSUME Unsubscribe PROVE TableTypeOK' /\ TableInv'
  BY <1>3, ForgetKeeps DEF Unsubscribe
<1>4. ASSUME UNCHANGED table PROVE TableTypeOK' /\ TableInv'
  BY <1>4, TableFrame
<1>5. UnregisterCallouts \/ Unsubscribe \/ UNCHANGED table
  BY DEF DriverNext, Loading, DriverEntry, SubscribeChanges, Connect, Notified,
         Register, RegisterBegin, RegisterLayer, RegisterCommit, RegisterFails,
         Unloading, DriverUnload, RemoveFilters, BfeStart, BfeStop
<1> QED
  BY <1>1, <1>2, <1>3, <1>4, <1>5, PacketFrame

\* The invariant holds before DriverEntry.
LEMMA InitInv == Init => IndInv
<1> SUFFICES ASSUME Init PROVE IndInv
  OBVIOUS
<1> USE ConnectionsAssumption, ConstantsAssumption DEF Init, TableInit
<1>1. DriverTypeOK
  <2>1. starts \in 0..MaxStarts /\ reg.by = NULL /\ handles \subseteq 1..gInj
    BY DEF NoReg
  <2>2. reg \in [by : {NULL, "driver", "bfe"}, step : 0..(Layers + 1),
                session : BOOLEAN]
    BY DEF NoReg
  <2>3. {monitor, device, subscribed, abandoned, bfe, notice, filters, unlucky, late}
           \subseteq BOOLEAN
    OBVIOUS
  <2>4. callouts \subseteq 1..Layers /\ gInj \in 0..(MaxStarts + 1)
    OBVIOUS
  <2> QED
    BY <2>1, <2>2, <2>4 DEF DriverTypeOK
<1>2. DriverInv
  BY DEF DriverInv, Loads, Unloads, NeedsBfe, StartsCounted, Registers,
         Remembers, NothingLeft, Backed, NoReg
<1>3. ToSet(<<>>) = {} /\ IsInjective(<<>>) /\ <<>> \in Seq(Conns)
  BY DEF ToSet, IsInjective
<1>4. TableTypeOK
  BY <1>3 DEF TableTypeOK, NoEntry, NoFlow
<1>5. \A f \in Flows : flow[f] = NoFlow /\ ~Active(f)
  BY DEF Active, NoFlow
<1>6. TableInv
  BY <1>3, <1>5
     DEF TableInv, EntriesInv, FlowsInv, OwnEntry, ContextLive, Listed, NoFlow
<1>7. PacketTypeOK /\ PacketInv
  <2>1. \A a \in Actors : at[a] = "idle"
    BY DEF PacketInit
  <2>2. Callout \in Actors /\ Clients \subseteq Actors
    BY DEF Actors
  <2>3. fwList = << >> /\ << >> \in Seq(Clients)
    BY DEF PacketInit
  <2>4. ToSet(fwList) = {}
    BY <1>3, <2>3
  <2>5. PacketTypeOK
    BY <2>1, <2>4 DEF PacketInit, PacketTypeOK, Registered
  <2>6. HoldersInv
    BY <1>3, <2>1, <2>2, <2>3, <2>4, FS_EmptySet DEF PacketInit, HoldersInv
  <2>7. WalkInv /\ TokenInv /\ CloneInv
    BY <2>1 DEF PacketInit, WalkInv, TokenInv, CloneInv, Injecting
  <2> QED
    BY <2>5, <2>6, <2>7 DEF PacketInv
<1> QED
  BY <1>1, <1>2, <1>4, <1>6, <1>7, TypeParts DEF IndInv

\* Every step keeps the invariant.
LEMMA StepInv == IndInv /\ [Next]_vars => IndInv'
<1> SUFFICES ASSUME IndInv, [Next]_vars PROVE IndInv'
  OBVIOUS
<1>1. /\ TableTypeOK /\ TableInv /\ DriverTypeOK /\ DriverInv
      /\ PacketTypeOK /\ PacketInv
  BY TypeParts DEF IndInv
<1>2. TypeOK' <=> (TableTypeOK /\ DriverTypeOK /\ PacketTypeOK)'
  BY DEF TypeOK, DriverTypeOK
<1>3. CASE drv # "gone" /\ DriverNext
  BY <1>1, <1>2, <1>3, DriverKeeps, DriverTable DEF IndInv
<1>4. CASE Connection
  BY <1>1, <1>2, <1>4, ConnectionKeeps, DriverFrame, PacketFrame
     DEF IndInv, Connection
<1>5. CASE LoopbackPacket
  <2>1. UNCHANGED <<driver, engine, wfp, table>>
    BY <1>5 DEF LoopbackPacket
  <2> QED
    BY <1>1, <1>2, <1>5, <2>1, LoopbackKeeps, DriverFrame, TableFrame
       DEF IndInv
<1>6. CASE UNCHANGED vars
  BY <1>1, <1>2, <1>6, DriverFrame, TableFrame, PacketFrame DEF IndInv, vars
<1> QED
  BY <1>3, <1>4, <1>5, <1>6 DEF Next, Gone, DriverNext

-----------------------------------------------------------------------------
(* Theorems *)

\* The inductive invariant holds of every state.
THEOREM Invariance == Spec => []IndInv
  BY InitInv, StepInv, PTL DEF Spec

\* The types, and that the filters never outlive the callouts and the injection
\* handle they call (wfp.c:254-409, 520-552).
THEOREM FiltersAlwaysBacked == Spec => []FiltersBacked
<1>1. IndInv => FiltersBacked
  BY DEF IndInv, DriverInv, Backed, FiltersBacked
<1> QED
  BY <1>1, Invariance, PTL

\* An unloaded driver has left nothing behind that would call it (init.c:57-98,
\* wfp.c:503-514).
THEOREM NothingEverLeft == Spec => []NothingLeft
<1>1. IndInv => NothingLeft
  BY DEF IndInv, DriverInv
<1> QED
  BY <1>1, Invariance, PTL

\* No start of the BFE is forgotten, however often it starts and stops while the
\* driver is loaded (wfp.c:222-246).
THEOREM StartsRemembered == Spec => []StartRemembered
<1>1. IndInv => StartRemembered
  BY DEF IndInv, DriverInv, Remembers, StartRemembered
<1> QED
  BY <1>1, Invariance, PTL

\* For any clients, whatever they answer and keep: the references of a request
\* are exact, and as long as nobody keeps it and answers STATUS_PENDING, the
\* clone of the packet is handed over or freed once by one of those who hold it
\* and never used after that (wfp.c:756-764, 799-843).
THEOREM ClonesAlwaysOwned == Spec => []ClonesOwned
<1>1. ASSUME IndInv PROVE ClonesOwned
  BY <1>1 DEF IndInv, PacketInv, HoldersInv, CloneInv, ClonesOwned
<1> QED
  BY <1>1, Invariance, PTL

\* The context of a flow is its own entry of the list, for any number of flows,
\* sockets and connections (connections.c:182-194, wfp.c:623-638).
THEOREM ContextsAlwaysLive == Spec => []ContextLive
<1>1. IndInv => ContextLive
  BY DEF IndInv, TableInv
<1> QED
  BY <1>1, Invariance, PTL

\* GetPidFromLocalInfo finds an entry with the remote end if there is one.
LEMMA PassesFind ==
    ASSUME TableTypeOK, TableInv, NEW remote \in Remotes, NEW c \in Listed,
           entry[c].remote = remote
    PROVE  \E d \in Listed : /\ entry[d].remote = remote
                             /\ GetPidFromLocalInfo(remote) = entry[d].pid
<1> DEFINE pass == Passes(remote)
           Pass(addrs, r) == FirstIn(conns, With(addrs, r), NULL)
<1>1. /\ \/ Pass({Here}, remote) = NULL
         \/ /\ Pass({Here}, remote) \in Listed
            /\ entry[Pass({Here}, remote)].remote = remote
      /\ Pass({Here}, NULL) = NULL \/ Pass({Here}, NULL) \in Listed
      /\ Pass({AnyAddr, Here}, NULL) = NULL \/ Pass({AnyAddr, Here}, NULL) \in Listed
  BY FindsFirst DEF TableInv, TableTypeOK
<1>2. Pass({AnyAddr, Here}, remote) \in Listed
      /\ entry[Pass({AnyAddr, Here}, remote)].remote = remote
  <2>1. entry[c].addr \in {AnyAddr, Here}
    BY DEF TableInv, EntriesInv, TableTypeOK, Listed
  <2> QED
    BY <2>1, FindsFirst DEF TableInv, TableTypeOK
<1>3. Listed \subseteq Conns /\ NULL \notin Conns
  BY ConnectionsAssumption DEF TableTypeOK, Listed
<1>4. pass = <<Pass({Here}, remote), Pass({AnyAddr, Here}, remote),
               Pass({Here}, NULL), Pass({AnyAddr, Here}, NULL)>>
  BY DEF Passes
<1> HIDE DEF Pass
<1>5. /\ pass \in Seq(Conns \cup {NULL}) /\ Len(pass) = 4
      /\ pass[1] = Pass({Here}, remote) /\ pass[2] = Pass({AnyAddr, Here}, remote)
  BY <1>1, <1>2, <1>3, <1>4
<1> HIDE DEF pass
<1>6. PICK k \in 1..4 : /\ FirstIn(pass, Conns, NULL) = pass[k] /\ pass[k] \in Conns
                        /\ \A j \in 1..4 : pass[j] \in Conns => k <= j
  <2>1. pass[2] \in Conns
    BY <1>2, <1>3, <1>5
  <2> QED
    BY <1>5, <2>1, FirstInIs
<1>7. k \in {1, 2}
  BY <1>2, <1>3, <1>5, <1>6
<1>8. pass[k] \in Listed /\ entry[pass[k]].remote = remote
  BY <1>1, <1>2, <1>3, <1>5, <1>6
<1>9. GetPidFromLocalInfo(remote) = entry[pass[k]].pid
  BY <1>3, <1>6 DEF GetPidFromLocalInfo, pass
<1> QED
  BY <1>8, <1>9

\* The packets of a connection are found to be those of the process that made it
\* (connections.c:78-113, 208-293).
THEOREM ProcessAlwaysFound == Spec => []ProcessFound
<1>1. ASSUME IndInv PROVE ProcessFound
  <2>1. TableTypeOK /\ TableInv
    BY <1>1 DEF IndInv, TypeOK
  <2>2. ASSUME ~starved, NEW f \in Flows, Active(f)
        PROVE  \/ GetPidFromLocalInfo(flow[f].remote) = flow[f].by
               \/ \E c \in ToSet(conns) : Stale(c) /\ entry[c].remote = flow[f].remote
    <3>1. PICK e \in Listed : entry[e].remote = flow[f].remote
      BY <2>1, <2>2 DEF TableInv, OwnEntry, Owns
    <3>2. flow[f].remote \in Remotes
      BY <2>1, <2>2 DEF TableInv, FlowsInv, TableTypeOK, Active
    <3>3. PICK d \in Listed : /\ entry[d].remote = flow[f].remote
                              /\ GetPidFromLocalInfo(flow[f].remote) = entry[d].pid
      BY <2>1, <3>1, <3>2, PassesFind
    <3>4. CASE Stale(d)
      BY <3>3, <3>4 DEF Listed
    <3>5. CASE ~Stale(d)
      <4>1. entry[d].remote # NULL
        BY <3>2, <3>3, ConnectionsAssumption
      <4>2. PICK g \in Flows : /\ Active(g) /\ flow[g].by = entry[d].pid
                               /\ flow[g].remote = entry[d].remote
        BY <3>5, <4>1 DEF Stale
      <4>3. g = f
        BY <2>1, <2>2, <3>3, <4>2 DEF TableInv, FlowsInv
      <4> QED
        BY <3>3, <4>2, <4>3
    <3> QED
      BY <3>4, <3>5
  <2> QED
    BY <2>2 DEF ProcessFound
<1> QED
  BY <1>1, Invariance, PTL
=============================================================================
