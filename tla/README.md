# ndisrd: models, checks and proofs

This directory holds TLA+ models of the ndisrd drivers, the TLC runs that
check them on small instances, and TLAPS proofs about them. Source paths are
relative to the repository's root; line numbers are of the commit the models
were written from. `PROJECT.json` maps every definition to the lines it models.

## 1. The system

Two kernel drivers and their clients, built for two generations of Windows.

* **ansfltr.sys** sits in the network stack and shows every packet to its
  clients, one after the other. A client answers "pass" or "stop"; it may keep a
  reference-counted clone of a packet and inject it later, behind its own place
  in the list of clients. Vista and later: an NDIS 6 lightweight filter
  (`ansfltr/vista`). XP: an NDIS 5 intermediate driver (`ansfltr/nt`).
* **ansfw.sys** is a client of ansfltr. It parses packets, reassembles
  fragmented datagrams, intercepts loopback connections (which never reach NDIS),
  ties packets to processes, and offers the same pass/stop/keep/inject interface
  to clients of its own.

### Inventory

| component | files | state | operations | interacts by |
|---|---|---|---|---|
| packet filter core | `ansfltr/callbacks.c` | `g_FltInstancesList` + lock, `g_PacketsList` + lock, `m_References` of a packet | register, deregister, inject, clone, free, close adapter | callbacks into clients under its lock; `SendPacket` |
| NDIS 6 filter | `ansfltr/vista/filter.c`, `init.c` | a module context and its state, NBL and buffer pools | attach, restart, pause, detach, send, receive, their completions, `SendPacket` | NDIS calls in, core called |
| NDIS 5 driver: adapters | `ansfltr/nt/ndisrd.c`, `miniport.c`, `protocol.c` | list of adapters, binding and miniport handles, init/unbind flags, pools, control device | bind, initialize, unbind, halt, load, unload | NDIS calls in; events between its threads |
| NDIS 5 driver: requests and power | `miniport.c`, `protocol.c` | one request, `QueuedRequest`, `OutstandingRequests`, two power states, `StandingBy`, media status | query, set, completion, power event, power OID, status | NDIS above and the device below |
| NDIS 5 driver: packets | `send.c`, `Util.c`, `protocol.c` | packet and buffer pools, list of pending transfers | send, receive, transfer complete, pass on | core called |
| control device, IOCTL | `ansfltr/ioctl.c`, `vista/device.c` | none of its own | hand out the function table | IOCTL from ansfw and clients |
| firewall core | `ansfw/callbacks.c` | `g_FwInstancesList` + lock, function table of ansfltr, `FW_REQUEST.m_References` | connect, register, `ProcessRequest`, inject, clone, free | ansfltr's client; callbacks into clients under its lock |
| datagram assembler | `ansfw/reassembly.c` | queue of fragments, list of datagrams, free buffers, counter, event | queue, `Analyze`, `Verify`, expire, recycle | two system threads, three locks |
| loopback firewall (XP) | `ansfw/nt/Firewall.c` | list of pended IRPs + lock, event, free requests | pend, cancel, serve, inject, free | I/O manager, system thread, clients |
| connection table (XP) | `ansfw/nt/openConn.c`, `anshlp.c` | lists of address objects, of connection objects, of pending objects; their links; event | hooks of TDI create, associate, connect, close and their completions, `addrThread` | TDI IRPs withheld and completed later |
| connection table (Vista) | `ansfw/vista/connections.c` | list of connections + lock | add, look up, remove | WFP's ALE callouts; a pointer kept as a flow's context |
| WFP driver and loopback | `ansfw/vista/init.c`, `wfp.c` | registrations of callouts, filters, BFE subscription, injection handle, the NBL of a request | load, unload, classify, inject, complete | filter engine, BFE (a service that stops and starts), clients |
| local addresses | `ansfw/ipmon.c` | list + lock | add, delete, look up | TDI address notifications |
| packet headers | `ansfw/tcpip.c` | none | validate and locate headers | pure function |
| kernel sockets | `ansfw/nt/KSUTIL.c` | none | synchronous wrappers of TDI | used by `addrThread` |

### What is hard here

Everything runs at raised IRQL on several processors at once. The code relies
on reference counts whose last user frees the memory, on callbacks made under
spin locks, on fields that are read under a lock and used after it, on IRP
cancellation against three other actors, on objects that are off every list
while an IRP has them, on NDIS calls that complete now or later and share one
event, on requests queued over power changes, on a service whose stops and starts
are notified late, and on a lossy, reordered, duplicated stream of fragments.
`PROJECT.json` "hazards" lists each at its line with the properties that watch it.

### What makes each component correct

* filter core: exact reference counts; nobody holds freed memory; no packet is
  sent unless every client present since it was first shown let it pass, and never
  twice at once; no packet names a closed adapter; handlers return; packets
  are freed.
* NDIS 5 adapters: what a binding owns is released once, whichever of unbind and
  halt comes first; no list names a freed adapter; one control device while
  there are miniports; binding and unbinding end.
* NDIS 5 packets: each packet of the pool is in one place and comes back;
  nothing is used when the adapter is gone.
* requests and power: each request is answered exactly once; none is with a
  device that the driver knows to sleep.
* loopback firewall: every pended IRP leaves exactly once - passed, failed or
  cancelled - and nobody touches it afterwards; only with everyone's consent;
  requests are counted exactly and recycled.
* assembler: what is delivered is of one datagram and whole, but for small gaps
  that the code cannot see; what is whole is delivered, in any order of arrival; every fragment and every buffer is in one
  place; all are freed.
* connection table (XP): every object is in one place and goes with its file;
  connection and address name each other; withheld IRPs are completed.
* connection table (Vista): a flow's context is its own connection; a packet is
  found to be of the process whose connection it belongs to.
* WFP: filters exist only while their callouts do; no start of the BFE is
  forgotten; an unloaded driver has left nothing that would call it; the clone of
  a loopback packet is handed over or freed once.
* across the drivers: calls never spin for each other's locks for ever.

## 2. Modules

| module | models | composed with |
|---|---|---|
| `Lists` | linking and unlinking an entry (`LIST_ENTRY`), the first entry of a kind | used by the models with lists; `ListsProofs` |
| `AnsFltr` | core and NDIS 6 filter together | `AnsFltrProofs` |
| `ImAdapter` | life of the adapters of the NDIS 5 driver, the control device they share | `ImAdapterProofs` |
| `ImPackets` | receives, deferred transfers, sends, the packet pool of one adapter | `ImPacketsProofs` |
| `ImPower` | requests, power events and unbinding of one adapter | |
| `FwClients` | ansfw's list of clients and `ProcessRequest`, a walk under one lock | extended by the next two and by `Loopback` |
| `TdiFirewall` | loopback firewall, its clients, the I/O manager | implements `IrpContract`; `TdiFirewallProofs` |
| `Reassembly` | assembler, its two threads, its clients, the network | implements `AssemblerContract`; `ReassemblyProofs` |
| `AssemblerContract` | what an assembler owes its clients and the network: a datagram is shown whole, is unchanged while it is held, and goes back whole and once | abstract specification |
| `IrpContract` | what a driver owes the I/O manager for an IRP it pends: answer it, once | abstract specification |
| `OpenConn` | address and connection objects on XP, their IRPs, `addrThread` | `OpenConnProofs` |
| `Connections` | table of connections on Vista, sockets and flows | extended by `WfpFirewall` |
| `Loopback` | a loopback packet on Vista: callout, clients and completion over its clone | extended by `WfpFirewall` |
| `WfpFirewall` | loading, the BFE, callouts and filters | `WfpFirewallProofs` |
| `LockOrder` | the order of eight spin locks in calls between the two drivers | |

`MC...` modules only give constants their values; `...Proofs` modules hold an inductive
invariant and theorems. Definitions preceded by a
comment "Mutant:" are deliberately wrong variants of their neighbour. They belong
to no specification; `PROJECT.json` "mutants" says which property each of them
breaks, so that no property is one the code could not break.

### How state and steps correspond to code

*Grain.* A step ends where another thread can get in: a spin lock taken or
dropped, an interlocked operation, an unlocked access to a shared field, a call
into NDIS or the filter engine. A section under a lock that is never held over
such a point is one step. A lock that is held over callbacks has an owner (`lock`
in `AnsFltr`, `pendLock` in `TdiFirewall`), or its owner follows from where the
threads are (`Reassembly`).

*AnsFltr.* `refs`, `held`, `live` are `m_References`, who has a reference, and
which packets exist. `cur`/`pc` is an actor inside `FLTInjectRequest`; `todo` is
the part of the list it has still to walk. `below[c]` is the order of the list,
which is where a client's own injection starts. `ndis[p]` counts how often NDIS
has the packet's net buffer list. `filterState` is `m_FilterState`; what NDIS has last
asked of the module is kept apart from it (`module`), because the handlers write
back what they have read of `m_FilterState` (`asked`, `TestFilterState`). `mustSee` and
`approved` are history.

*ImAdapter.* Two threads an adapter: `pnp` is in `PtBindAdapter` or
`PtUnbindAdapter`, `mp` in `MPInitialize` or `MPHalt`. `owned` is what the
adapter has allocated; `Uses` records in `astray` memory used after it was
freed and anything released twice. `ControlDeviceState` is waited for without the
lock, as in the code. Opening and closing share `Event`.

*ImPackets.* `hk` is where a packet of the pool is, `transfers` what the device
below still copies into, `status` is `m_nTransferDataStatus`, which two threads
write, `overtaken` that the second came too early. `kept` is the adapter that a frame in a client's hands names.

*ImPower.* Three threads: NDIS asking (one request at a time), PnP events of the
binding (one at a time), completions from below. `NdisRequest` chooses between
completing in the caller's thread and later. D3 stands for all states above D0.

*TdiFirewall.* `tdiPendIrp` is six steps, since a cancel may come between the
insertion, the setting of the cancel routine and the test of `Irp->Cancel`.
`irp[i] = "astray"` marks an IRP that left the firewall a second time. The
thread that dispatches an IRP is identified with the IRP. `FW_REQUEST` and
`TDI_CONN_REQUEST` are one record. History: `mustSee` and `approved` as in `AnsFltr`,
`skipped` for the clients that a `STATUS_PENDING` left out - the one who gave that answer and
those behind it - and `rivals`, which says that a client has kept a request that its
`STATUS_PENDING` lets pass, so that two may inject it.

*Loopback.* `refs` and `ptr` are `m_References` of the request and whether its
`m_pNetBufferList` is set; `clone` is whose the clone is. The three steps of
`InjectLoopbackRequest` - test, `FwpsInjectTransportSendAsync0`, clear - are steps of their
own, taken by the callout or by a client, and the completion comes when it likes.
`misused` records a clone that was handed over or freed by one who no longer
had it, `rivals` is as in `TdiFirewall`.

*Reassembly.* Lengths are real arithmetic on a scaled buffer: `WORKBUFSIZE` 96
instead of 65536, with the real 8-byte units and 20-byte header, so the header's
effect on the bitmap (`Bits`) is the code's. A pass of the expiry thread that
starts over at the head after each removal is the code's. `lost` collects the
requests that the code forgets on purpose or otherwise: options in the header, an
over-long fragment, with which those of its datagram go, and no buffer.
`AssemblesDatagrams` states `AssemblerContract` of it: what the contract knows of a
datagram is the set of its fragments, who holds it (`NULL` stands for the assembler
itself) and whether it was handed back to ansfltr.

*OpenConn.* `openList`, `tcpList`, `pendList` are `g_OpenAddrList`,
`g_TcpAddrList` and `g_PendingAddrList`; an operation takes its object off its
list into `ctx` and puts it back on completion. The completions exist twice, as in
the code: at passive level they ask the transport for the port at once, at
DISPATCH_LEVEL they withhold the IRP. `addrThread` is four steps. `early`,
`shared` and `crossed` are history: a close that missed its object, an address that
was given a second connection, and a `RemoveEntryList` on an object that was on no
list. After the last the lists are corrupt and the model stops (`Broken`).

*Connections and WfpFirewall.* The fields of a `CONNECTION` are there as far as
look-ups tell them apart: local address (0, `AnyAddr`, for a socket bound to
none), remote end, process. A flow's `conn` is the context, a pointer used
without the lock. `reg` is `RegisterCallouts` on its way through the layers, run by
`DriverEntry` or by the BFE's notification. `starved`, `captured`, `unlucky`,
`abandoned`, `late` are history: an exit of the code that forgets something
deliberately or by mistake; each property names those it is conditional on, and
section 3 says what each of them is.

*LockOrder.* A call is the sequence of locks it takes and drops. Data choose
between sequences and are left out.

## 3. Runs

Each module's types are the first conjunct of one of its invariants.

| run | checks | instance | states |
|---|---|---|---|
| `filter` | `RefsExact`, `NoDangling`, `SentOnlyIfApproved`, `SingleFlight`, `NoClosedAdapter`, `HandlersReturn`, `PacketsReclaimed` | 1 adapter, 2 clients, 1 NDIS thread, 1 packet | 30,958 |
| `im_adapter` | `ReleasedOnce`, `NamedAdaptersLive`, `DeviceExact`, `UnbindReturns` | 2 adapters | 33,840 |
| `im_packets` | `PacketsAccounted`, `FreedAdapterUnused`, `PacketsReturn` | 2 packets, 2 NDIS threads, 1 client | 125,666 |
| `requests_power` | `FlagsExact`, `SleepsQuietly`, `NotStuck`, `RequestsAnswered` | complete: the model is finite | 1,690 |
| `tdi_safety` | `TouchesOwnIrpsOnly` | 2 IRPs, 2 requests, 1 client, any answer | 560,654 |
| `tdi_live` | `PassedOnlyIfApproved`, `RefsExact`, `AnswersOnce`, `RequestsRecycled` | 1 IRP, 1 request, 2 clients, any answer | 27,832 |
| `reasm_safety` | `AssembledComplete`, `CompleteDelivered`, `FragmentsAccounted` | 3 fragments of 7 kinds, 1 buffer, pool may fail | 918,430 |
| `reasm_live` | `BuffersAccounted`, `FragmentsFreed`, `AssemblesDatagrams` | 2 fragments of 4 kinds, 2 buffers, 2 clients, pool may fail | 71,065 |
| `open_conn` | `ObjectsAccounted`, `ClosedForgotten`, `LinksMutual`, `WithheldAnswered` | 1 address, 1 IP file, 1 connection, 3 objects | 448,206 |
| `wfp` | `NothingLeft`, `FiltersBacked`, `StartRemembered`, `ClonesOwned`, `ContextLive`, `ProcessFound` | 2 layers, 2 starts of the BFE, 2 processes, 2 remote ends, 2 flows, 2 connections, 2 clients | 900,389 |
| `lock_order` | `CallsReturn` | 1 receive thread, 1 client, both system threads; no delivery | 8,692 |
| `lock_deadlock` | `CallsReturn` is violated | the same with delivery | |

### Why the bounds are enough

* `filter`: two clients are needed for an order in the list and for injection
  behind one's place; with one thread, two clients and one packet every pair of
  actors races for every lock and count. Its safety properties are theorems for
  any numbers (section 5), so that the instance serves liveness and the mutants.
* Two adapters let one miniport create the control device while the other
  deletes it. A third adds nobody who waits for anything else.
* Two packets let a frame be passed on in one while it is held in the other, and
  let the pool run dry. Two NDIS threads let a transfer be completed in one while
  the other is still in `PtReceive`.
* `tdi_safety` and `tdi_live` let clients answer `STATUS_PENDING`. `CONSTRAINT NoRivals` stops
  at states in which a client has kept a request and let it pass with that answer: the
  properties claim nothing from there on (see the divergences).
* Two IRPs and two requests let the scan of `fwThread` step past a request that
  is being cancelled, and slots be recycled.
* Three fragments make a datagram with a head, a middle and a tail in every
  order, or one with a gap of two units, which the code does not see, or of three, which
  it does. In `reasm_safety` `MAX_WORKBUFFER_COUNT` is 0, which gives one buffer (the code
  compares before it counts, so one more than the constant can be had): a second
  datagram's head finds none. In `reasm_live` there are two buffers, and among the
  fragments are one that is over-long and one with options, so that all the reasons for
  which the code forgets a fragment for ever occur.
* Three objects are one more than an address and a connection need, so a
  ghost of a closed one can be there with them. With two connections on one address
  the link between them dangles in the code: see the divergences.
* Two flows share both ends after one another or differ in one of them; two
  connections let an entry outlive its flow. Two starts of the BFE let one be
  missed and the next be seen. Loopback packets and connections share no
  variable, so `CONSTRAINT OneAtATime` keeps them apart: every state of each
  part is reached with the driver in every state.
* `MaxNB`, `MaxReceiving`, `MaxStarts` bound a call's list, how many threads
  receive at a time, and the service. They bound the environment, never the drivers.
* Symmetry is used in safety runs only.

### What the violated property shows

`lock_deadlock`: the assembler passes a datagram back to ansfltr with its two
locks held (`ansfw/reassembly.c:525`); a receive thread waits for the first of them
under ansfltr's lock. TLC finds the state in which both spin for ever, so
`CallsReturn` fails under the fairness of section 4. The cfg says
`CHECK_DEADLOCK FALSE` because that is how the system stops: the stop itself is
what the property forbids. Without that delivery the order is consistent
(`lock_order`, where TLC looks for deadlocks as well).

### Known divergences without a run

What the code does and a reader would not expect. The models do what the code
does; where a property holds only apart from such a case, the case is a history
variable in the property's statement.

Filter:

* `SendPacket` reads the adapter's handle under `g_PacketLock` and uses it after
  the lock is dropped (`vista/filter.c:747`). A client's injection takes no part
  in the filter's pause, so the adapter may be detached in between. The clearing
  of `m_pAdapter` in `CloseAdapter` (`callbacks.c:190`) narrows the window and
  does not close it: `NoClosedAdapter` says no more than that.
* The send and receive handlers read `m_FilterState` by
  `InterlockedExchange(&m_FilterState, m_FilterState)` (`vista/filter.c:422`, 557): the second
  argument is read first and then written back, so that a `FilterPause` or
  `FilterRestart` in between is undone. An adapter that NDIS has restarted then
  passes nothing until it is paused and restarted again, and one that is paused goes on. No
  property of `filter` depends on `m_FilterState`.
* `FilterPause` (`vista/filter.c:345`) returns at once. The comment above it
  (339) asks that outstanding receive indications be waited for.
* `FLTInjectRequest` reads the link of the client that injects
  (`callbacks.c:110`) without asking whether it has deregistered meanwhile. The
  model takes it that a client does not deregister during a call of its own.

NDIS 5 driver:

* The path on which an initialization was cancelled frees the adapter and not its
  pools (`nt/protocol.c:476-517`; the comment there says "release the memory
  allocated"). `ReleasedOnce` names it: `cancelled`.
* `MPInitialize` leaves `MiniportHandle` set when it fails. NDIS has no reason to
  make it fail here, and the model does not.
* A deferred transfer's frame is dropped: `PtReceive` leaves the status
  `NDIS_STATUS_PENDING` and its test takes that for a failure (1031, the comment
  at 1033).
* The device below may complete a transfer before `NdisTransferData` has returned,
  or before `PtReceive` has read the status and with the packet taken again
  (1360-1395): `PtReceive` then writes to, or completes, a packet that is no longer
  its own. `overtaken` records it, and the model stops there.
* The transfer of a protocol above is forgotten when the driver's own list is not
  empty (1099-1101). `PtReceiveComplete` never indicates (1440).
* `SendPacket` reads `m_pAdapter` without a lock while `MPHalt` frees the adapter
  (`send.c:25`, 69), and frames received between `CloseAdapter` and
  `NdisCloseAdapter` keep the freed adapter's name. `FreedAdapterUnused` says
  that there is no other way (`late`).
* `PtRequestComplete` asserts `OutstandingRequests == TRUE`
  (`nt/protocol.c:716`), which is false when it is called to fail a queued
  request on power-down or unbinding (1697-1701, 407-414).
* `PtPnPNetEventSetPower` waits for `OutstandingSends`, which nothing raises.
* A late answer to `OID_PNP_CAPABILITIES` sets `PTDeviceState` to D0 after
  `OutstandingRequests` was cleared, while a power-down is under way. `StandingBy`
  then survives the next power-up and requests are failed until the miniport
  edge is itself powered down and up. `NotStuck` says that this is the only way.

Firewall, both systems:

* An answer `STATUS_PENDING` ends the walk over the clients (`ansfw/callbacks.c:223`) and
  then, being a success to `NT_SUCCESS`, passes the connection on (305); the repository's
  `README.md:42` says anything but `STATUS_SUCCESS` drops. The clients behind are never
  asked. `PassedOnlyIfApproved` names them: `skipped`. A client that refuses is
  never passed over.
* If the client has also kept the request, it may inject it while `fwThread` or the callout
  does. `InjectLoopbackRequest` (`nt/Firewall.c:387-394`, "Injecting just once";
  `vista/wfp.c:811-832`) tests the field, hands the IRP or the clone over and only then clears
  the field, so that both hand it over. `TouchesOwnIrpsOnly`, `RefsExact` and `ClonesOwned`
  hold until then: `rivals`.
* The bitmap counts a fragment's header with its data (`reassembly.c:306`), so
  each fragment covers two units too many or, if its data end within a unit,
  one or two, and a missing middle of up to 16 bytes is delivered as it is in the
  buffer. `AssembledComplete` names these units (`Overrun`), and
  `AssembledAlwaysComplete` shows that nothing else can be missing.
* `Analyze` forgets a fragment with options in its header, one that is over-long, with those
  of its datagram that came before it, and one that finds no buffer: nobody frees it,
  nor the packet behind it (`reassembly.c:268-296`, 318-332, 404-421).
  `lost`, which `FragmentsAccounted` and `FragmentsFreed` name.
* The length of a datagram of exactly 65536 bytes, which IP does not allow, passes
  the test of its end and wraps to 0 (`End(w) % WORKBUFSIZE` in the model; no
  instance gets there). `Verify` refuses it, so that it waits until it expires.
* `RegisterFilterCallbacks` connects before it initializes its list, lock and
  lookaside list (`ansfw/callbacks.c:68`), on XP before the assembler
  (`anshlp.c:433`, 447). `UnloadCallback` clears the function table while others are
  between the test and the call (250). Requests freed after the connection is lost
  never drop ansfltr's reference.

Connection table on XP:

* A close that comes while `addrThread` has the object, or while another IRP has
  it, leaves the object behind (`openConn.c:512`); the close of an address that
  withholds a connection's IRP never completes that IRP (773-800). `early`.
* `RemoveEntryList` is called on objects on no list (525, 1493, 1672). `crossed`.
* Two connections that share an address leave `m_pAddrObj` of the first dangling:
  the address names the second only (1024-1029), so that its close clears that
  one. The object it names may be given out again, even to a file of the IP
  device, whose close then misses it. `shared`; the run has one connection, the
  theorems any number.
* `initAddrThread` (88) and `tdiInitFirewall` (`Firewall.c:81`) test the result of
  creating the thread the wrong way round.
* The body of `TDIH_TdiConnectComplete1` never does anything, its object is
  always `NULL`.

Vista:

* The BFE's state is read before its changes are subscribed to, and nothing is
  subscribed to when it runs at load (`wfp.c:222-229`): `unlucky`.
* `UninitializeWfpFilter` removes its registrations before it unsubscribes
  (503-514): `late`. `DriverEntry` giving up leaves callouts and device
  (`init.c:65-71`): `abandoned`. A registration that fails leaves a stale
  injection handle, and a restart leaks the old one. `DriverUnload` is set in DBG
  builds only.
* `AddConnection` updates an entry and leaves `LocalAddr` 0, so that
  `GetConnection` never finds it by its address (`connections.c:85-98`, 136-140);
  a failed connect leaks its entry; a bound socket's entry is used up by its first
  connect; inbound flows have none. A stale entry with the same ends answers for a
  new connection: `ProcessFound` names that case, and `captured` a flow that
  was given another's entry.
* A deleted local address is unlinked and never freed (`ipmon.c:126`).

## 4. Fairness

Each liveness run uses `FairSpec`; the parts and their grounds:

* *Threads run on* (weak fairness): the code runs at DISPATCH_LEVEL or is a
  system thread that the scheduler serves. `OpenConn` has this for `addrThread`
  only.
* *Spin locks are got in the end* (strong fairness on the acquiring step): a
  lock that is free again and again is got by who spins for it.
* *Clients free what they keep* (strong fairness on freeing): the sample client
  does (`sdk/src/fwtest/fwtest.c:115-138`). Nothing is assumed on injecting.
* *Registrations come to an end*: two clients that took turns to register anew,
  each behind the other, could pass one request on for ever.
* *NDIS completes what it was given; the device below completes opening, closing,
  transfers, sends and requests, and is powered up again unless it is unbound.*
  These are the contracts of NDIS.

No fairness is put on arrival of packets, cancellation, opening and closing of
files, the order of expiry, power-down, halting or unbinding.

## 5. Proofs

Seven models have their safety proved, for every value of their constants. Each
proof has the same shape: an inductive invariant `IndInv`, `InitInv` (it holds
at the start), `StepInv` (a step keeps it; one lemma or one case per
action), `Invariance` (`Spec => []IndInv`), and theorems that conclude the
properties of section 3 from it. TLC has checked every `IndInv` as an invariant of
the instances of section 3 before it was proved.

| module | theorems | properties |
|---|---|---|
| `AnsFltrProofs` | `TypeCorrect`, `ReferencesAreExact`, `NothingDangles`, `NothingSentUnseen`, `OneFlightAtATime`, `NoPacketOfAClosedAdapter` | all safety properties of `filter` |
| `ImAdapterProofs` | `AdapterReleasedOnce`, `ListedAdaptersLive`, `DeviceAlwaysExact` | all safety properties of `im_adapter` |
| `ImPacketsProofs` | `PacketsAlwaysAccounted`, `FreedAdapterNeverUsed` | all safety properties of `im_packets` |
| `TdiFirewallProofs` | `OwnIrpsOnly`, `PassedIsApproved`, `RefsAlwaysExact`, `AnswersAtMostOnce` | all safety properties of `tdi_safety` and `tdi_live`; the safety half of the refinement `AnswersOnce` |
| `ReassemblyProofs` | `FragmentsAlwaysAccounted`, `BuffersAlwaysAccounted`, `AssembledAlwaysComplete`, `CompleteAlwaysDelivered`, `AssemblesAlways` | all safety properties of `reasm_safety` and `reasm_live`, the refinement `AssemblesDatagrams` among them |
| `OpenConnProofs` | `ObjectsAlwaysAccounted`, `ClosedAlwaysForgotten`, `LinksAlwaysMutual` | all safety properties of `open_conn` |
| `WfpFirewallProofs` | `FiltersAlwaysBacked`, `NothingEverLeft`, `StartsRemembered`, `ClonesAlwaysOwned`, `ContextsAlwaysLive`, `ProcessAlwaysFound` | all properties of `wfp` |

`ListsProofs` has the lemmas on `Unlink`, `FirstIn` and the tail of a queue that the
others cite: on a list without repetition, unlinking an entry removes that one and
keeps the order of the others.

### What is assumed

The `ASSUME`s of the models say that sets of actors are disjoint, that `NULL` is not
one of their members, and that a number of layers or starts is positive. Sets are
assumed finite only where something is counted: the actors of `AnsFltr`, `Adapters`
(miniports are counted) and the `Requests` of `TdiFirewall` (the scan's position is
bounded by their number).

`BuffersAlwaysAccounted` and `AssemblesAlways` have a hypothesis, `DocumentedAnswers`: no client
answers `STATUS_PENDING`. `README.md:42` of the repository documents success and failure; with
`STATUS_PENDING` the properties are false (section 3, divergences), because `NT_SUCCESS` takes
it for a success while the client may still inject (`ansfw/callbacks.c:305`). The
theorems about `TdiFirewall` and `Loopback` have no such hypothesis: their properties say
what holds with any answers. Only `AnswersAtMostOnce`, a refinement, is about the
behaviours in which `rivals` stays false.

Two theorems about `Reassembly` have a hypothesis about the network. `NoSmallGaps`, for
`AssemblesAlways`: no fragment begins one or two 8-byte units behind the end
of another of its datagram. Whole fragments of an Ethernet link are 185 units long, so
that such a gap needs a sender or router that makes a fragment of 16 bytes or less
in the middle. `LengthsFit`, for `CompleteAlwaysDelivered`: no last fragment ends exactly
at `WORKBUFSIZE`, 65536 in the code, which is one byte more than an IP header can
state. Each names what the code gets wrong (section 3, divergences): TLC finds the
property violated on fragments that break the hypothesis.
`Reassembly` itself assumes what IP and the driver's types say:
every fragment but the last is a multiple of 8 bytes long, and a packet with its
header is shorter than `WORKBUFSIZE`.

### The invariants, and why they are needed

None of the properties is inductive by itself: each speaks of what is visible when
things go wrong, not of what keeps them right.

*AnsFltr.*

* `ControlInv`: what an actor's program counter says of its other variables; in
  particular, that whoever works on a packet holds a reference to it, and that
  the walker owns the lock. Without it `RefsExact` could be broken by a step of
  an actor that works on what it does not hold.
* `RefInv`: the counts are exact and nothing held is freed.
* `FlightInv`: at most one actor *carries* a packet - is injecting it or has
  the right to - and none while NDIS has it. This is why no packet is sent
  twice at once, although any number of clients hold clones.
* `ListInv`: the list of instances is a strict total order, kept by
  registration and deregistration in the middle of a walk.
* `ApprovalInv`: whose consent a packet lacks is always among those its
  carrier has still to visit: behind the injecting client, in the rest of the
  walk, or nobody once it is sent.
* `AdapterInv`: nobody is in a handler of, and no packet names, an adapter that
  is being closed.

*ImAdapter.* `PlaceInv` says where the two threads of an adapter can be at once,
`FlagInv` what the flags tell one of the other, `OwnedInv` what the adapter owns at
each place: a step that uses something is only taken where it is owned. `DeviceInv`
says which threads, of all adapters, have the control device in hand: one makes it
and one deletes it, and who comes while it is being deleted waits. `CountInv`
ties `MiniportCount` to the set of miniports it counts.

*ImPackets.* `ThreadInv` says what a thread holds where it is, `SoleInv` that two
threads hold one packet only while one of them is on its way out of `PtReceive`,
`PacketInv` that a packet in use has a holder. They end when a transfer is
completed too early (`overtaken`). `LateInv` says that a closed adapter is used by
nobody, unless `late` has recorded how.

*TdiFirewall.* One party has an unanswered IRP: its dispatch, the list, the canceller,
`fwThread`, or whoever may still inject its request. `OwnerInv` says so of the
IRP, `InjectInv` of the request; `PlaceInv` and `CountInv` follow the request and its
references; `QueueInv` and `RoutineInv` are about the handover between dispatch,
canceller and `fwThread` under the lock of the list; `WalkInv` and `SeenInv` follow a
request down the list of clients. All of it is lost with `rivals`: the invariant is
`rivals \/ IndInv`, and a step that sets `rivals` needs no proof. `StepRefines` maps each step to a step of
`IrpContract` or a stutter.

*Reassembly.* `PlaceInv` puts a request in one place and `BufferInv` a buffer with the
assembler or with those whom its references count; each rests on the other, since
a buffer is emptied when its last reference goes. `WalkInv` says that at most one
party may pass a datagram on and that none behind it on the list of clients has seen
it, and `SentInv` that the fragments of such a datagram were not handed back yet.
`DatagramInv` says that bitmap, length and key of a buffer are what the fragments
in it say and that a buffer leaves the list when its bitmap is full. What a full bitmap
means is then a question of arithmetic: `BitsNeeded` (whole means full) and
the steps of `AssembledAlwaysComplete` (full means whole, but for one or two units behind
a fragment).
`AssemblesAlways` needs two facts more: the memory of a request that does not exist holds
no fragment (`FragInv`), and a buffer in use that has left the list of datagrams is
whole (`WholeInv`). Then `StepMaps` maps each step to one of `AssemblerContract`, or to a
stutter: the `Analyze` that completes a datagram shows it, the end of a walk shares it or
hands it back, dropping a reference releases it, expiry forgets it. A set of requests
names one datagram, because what is shown has a last fragment (`DatagramInv`) and no
request is in two buffers (`PlaceInv`).

*OpenConn.* `HandInv` says where an IRP, or `addrThread`, has an object in hand;
`Once` and `Apart` that each object is in one of six places; `WaitInv` that a withheld
IRP is waited for by one pending object, without which `addrThread` could answer one
twice. `KindInv`, `FileInv` and `LinkInv` are about objects: which kind is on which
list, one to a file, and that a connection which names an address object is associated
with that address. The last could not be proved at first, for a good reason: with
two connections on one address it is false, which the run's one connection had hidden.
That is `shared`.

*Loopback, Connections and WfpFirewall.* `DriverInv` bounds how far loading, unloading and registering can be
from one another; the table needs the order of its list. `OwnEntry` says that
every active flow has an entry that is no other flow's context, and that
`GetConnection` will find it (`Findable`); `EntriesInv` says why: an entry in front of
an unconnected one was bound to no address, or `AddConnection` would have updated the
other one. Of `Loopback`: `WalkInv` says that one client at a time may let a request
pass and that those behind it have not kept it, `TokenInv` that no two are inside the
injection, and `CloneInv` what each of the three steps knows of the clone; the last two
end with `rivals`.

### What is only model-checked

* Liveness (`HandlersReturn`, `PacketsReclaimed`, `UnbindReturns`, `PacketsReturn`,
  `RequestsAnswered`, `AnswersOnce` as a whole, `RequestsRecycled`,
  `WithheldAnswered`, `FragmentsFreed`, `CallsReturn`): fairness and `ENABLED`
  are out of the prover's reach.
* `ImPower`: it has no parameter but a null value, so that its run is complete.
* `LockOrder`: see the plan.
* What recursive definitions of the library compute for every input. The proved
  modules use none, and no module declares a RECURSIVE operator.

## 6. Not modelled

* The IOCTL and Vista's control device, statistics, extensions, `KSUTIL.c`, build
  files, samples: they keep no state that matters or are not part of the drivers.
* Unloading of ansfltr, whose `UnInitializeANSfltr` frees packets that clients may
  hold, and whose loop takes the end of the list for an entry; connecting and
  disconnecting of ansfw. The models of the filter core, the clients, the assembler and the
  XP firewall begin with the drivers loaded and end before they are unloaded.
* A pool that `FilterDetach` frees while clients hold packets of it
  (`vista/filter.c:396`): `AnsFltr` leaves a freed pool's memory out.
* Requests of single packets in ansfw: a second reference count over ansfltr's.
* Header fields of an assembled datagram (`PrepareIpHeader`), packet headers
  (`tcpip.c`), and the 16-bit width of offsets: functions of bytes.
* The list of local addresses: three operations under one lock.
* What `GetPidFromLocalInfo` of XP and `TDIH_UdpSendDatagram` read out of an
  object: they change only fields the lists do not depend on.
* Media status of the NDIS 5 driver; sends over a power change, whose counter
  nothing raises.

## 7. Plan

Modelling has reached every component with state that several threads share, and
the safety of seven models is proved. What is left, the most valuable first:

1. `LockOrder` - without delivery no set of threads waits for one another, by the
   rank of the locks, for any number of receivers and clients.
2. `FwRequests` - requests of single packets and connecting to and losing ansfltr,
   over an abstract ansfltr that `AnsFltr` implements.
3. `PacketHeaders` - header validation as operators, against a reference
   definition over bounded header fields, with the real integer widths.
