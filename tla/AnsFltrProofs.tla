--------------------------- MODULE AnsFltrProofs ---------------------------
(***************************************************************************)
(* Proofs about AnsFltr, for any numbers of adapters, clients, threads and *)
(* packets.  The inductive invariant IndInv adds to the properties what    *)
(* makes them inductive: where an actor's program counter lets its other   *)
(* variables be, that g_FltInstancesList is totally ordered, and who has   *)
(* the right to send a packet.                                             *)
(***************************************************************************)
EXTENDS AnsFltr, FiniteSetTheorems, TLAPS

\* The program counter of an actor determines whether it has a packet, the
\* lock, a handle and a handler's parameters.
ControlInv ==
    /\ \A x \in Actors :
         /\ pc[x] \in Injecting \cup {"release"} <=> cur[x] # NULL
         /\ cur[x] # NULL => cur[x] \in held[x]
         /\ pc[x] = "walk" <=> lock = x
         /\ pc[x] = "handoff" => handle[x] # NULL
         /\ x \in Clients => pc[x] \in Injecting \cup {"idle"}
         /\ x \in Clients /\ pc[x] # "idle" => x \in inst
    /\ \A t \in Threads :
         /\ ctx[t] = NULL <=> pc[t] = "idle"
         /\ held[t] \subseteq {cur[t]}

\* The reference count and the memory.
RefInv ==
    /\ CountsExact
    /\ \A p \in Packets : Holders(p) # {} \/ ndis[p] > 0 => p \in live
    /\ \A p \in live : pool[p] # NULL

\* The actor has a packet on its way to NDIS, or the right to send it there.
Carries(x, p) ==
    \/ x \in Clients /\ p \in mayInject[x]
    \/ pc[x] \in Injecting /\ cur[x] = p

\* At most one actor carries a packet, and none while NDIS has it.
FlightInv ==
    /\ \A c \in Clients : mayInject[c] \subseteq held[c] \cap live
    /\ \A c \in Clients : c \notin inst => mayInject[c] = {}
    /\ \A x, y \in Actors, p \in Packets :
         Carries(x, p) /\ Carries(y, p) => x = y
    /\ \A c \in Clients : pc[c] \in Injecting => cur[c] \notin mayInject[c]
    /\ \A x \in Actors, p \in Packets : Carries(x, p) => ndis[p] = 0
    /\ \A p \in Packets : ndis[p] <= 1

\* g_FltInstancesList is a list: "behind" is a strict total order on it.
ListInv ==
    /\ \A c \in Clients : below[c] \subseteq inst /\ c \notin below[c]
    /\ \A c, d \in inst : c # d => d \in below[c] \/ c \in below[d]
    /\ \A c, d \in inst : d \in below[c] => below[d] \subseteq below[c]

\* The instances whose answer a packet still lacks are the ones its carrier
\* has still to visit.
ApprovalInv ==
    /\ \A p \in Packets : mustSee[p] \subseteq inst
    /\ \A p \in Packets : p \notin live => mustSee[p] = {}
    /\ \A x \in Actors :
         /\ todo[x] \subseteq inst
         /\ pc[x] # "walk" => todo[x] = {}
         /\ \A c \in todo[x] : below[c] \subseteq todo[x]
         /\ pc[x] = "inject" =>
              mustSee[cur[x]] \ approved[cur[x]] \subseteq
                 IF x \in Clients THEN below[x] ELSE {}
         /\ pc[x] = "walk" => mustSee[cur[x]] \ approved[cur[x]] \subseteq todo[x]
         /\ pc[x] \in {"send", "handoff"} => mustSee[cur[x]] \subseteq approved[cur[x]]
    /\ \A c \in Clients : \A p \in mayInject[c] :
         mustSee[p] \ approved[p] \subseteq below[c] \cup {c}
    /\ SentOnlyIfApproved

\* No packet and no handler names an adapter that is going away.
AdapterInv ==
    /\ NoClosedAdapter
    /\ \A p \in Packets : p \notin live => madapter[p] = NULL
    /\ \A t \in Threads :
         ctx[t] # NULL => module[ctx[t]] \in {"paused", "running"}

IndInv ==
    TypeOK /\ ControlInv /\ RefInv /\ FlightInv /\ ListInv /\ ApprovalInv
      /\ AdapterInv

-----------------------------------------------------------------------------

\* A step keeps program counters and the variables they go with in line.
LEMMA ControlStep ==
    ASSUME TypeOK, ControlInv, RefInv, FlightInv, [Next]_vars
    PROVE  ControlInv'
<1>1. ASSUME NEW t \in Threads, NEW a \in Adapters,
               NEW d \in {"out", "in"}, NEW n \in 1..MaxNB,
               Enter(t, a, d, n)
      PROVE  ControlInv'
  BY <1>1, ConstantsAssumption
     DEF TypeOK, ControlInv, Actors, Injecting, Enter, listVars
<1>2. ASSUME NEW t \in Threads,
               IsInstancesListEmpty(t)
      PROVE  ControlInv'
  BY <1>2
     DEF TypeOK, ControlInv, Actors, Injecting, IsInstancesListEmpty,
         LeaveHandler, listVars, callVars
<1>3. ASSUME NEW t \in Threads, NEW p \in Packets,
               FilterNetBuffer(t, p)
      PROVE  ControlInv'
  <2>1. \A y \in Actors :
          (pc'[y] \in Injecting \cup {"release"}) <=> (cur'[y] # NULL)
    BY <1>3, ConstantsAssumption
       DEF TypeOK, ControlInv, Injecting, FilterNetBuffer
  <2>3. \A y \in Actors : cur'[y] # NULL => cur'[y] \in held'[y]
    BY <1>3 DEF TypeOK, ControlInv, FilterNetBuffer
  <2>4. \A y \in Actors : (pc'[y] = "walk") <=> (lock' = y)
    BY <1>3 DEF ControlInv, FilterNetBuffer
  <2>5. \A y \in Actors :
          /\ pc'[y] = "handoff" => handle'[y] # NULL
          /\ y \in Clients => pc'[y] \in Injecting \cup {"idle"}
          /\ y \in Clients /\ pc'[y] # "idle" => y \in inst'
    BY <1>3, ConstantsAssumption DEF ControlInv, FilterNetBuffer, listVars
  <2>6. \A u \in Threads : (ctx'[u] = NULL) <=> (pc'[u] = "idle")
    BY <1>3 DEF ControlInv, FilterNetBuffer
  <2>8. held[t] = {}
    <3>1. cur[t] = NULL
      BY <1>3 DEF ControlInv, Injecting, Actors, FilterNetBuffer
    <3>2. held[t] \subseteq {NULL} /\ held[t] \subseteq Packets
      BY <3>1 DEF TypeOK, ControlInv, Actors
    <3>. QED
      BY <3>2, ConstantsAssumption DEF ConstantsAssumption
  <2>7. \A u \in Threads : held'[u] \subseteq {cur'[u]}
    BY <2>8, <1>3, ConstantsAssumption
       DEF TypeOK, ControlInv, Actors, FilterNetBuffer
  <2>. QED
    BY <2>1, <2>3, <2>4, <2>5, <2>6, <2>7 DEF ControlInv
<1>4. ASSUME NEW t \in Threads,
               FilterNetBufferNoMemory(t)
      PROVE  ControlInv'
  BY <1>4 DEF ControlInv, FilterNetBufferNoMemory, listVars
<1>5. ASSUME NEW t \in Threads,
               FilterNetBufferRelease(t)
      PROVE  ControlInv'
  BY <1>5
     DEF TypeOK, ControlInv, Injecting, FilterNetBufferRelease, listVars,
         callVars
<1>6. ASSUME NEW t \in Threads,
               HandlerReturn(t)
      PROVE  ControlInv'
  <2>1. \A y \in Actors :
          (pc'[y] \in Injecting \cup {"release"}) <=> (cur'[y] # NULL)
    BY <1>6 DEF ControlInv, Injecting, HandlerReturn
  <2>3. \A y \in Actors : cur'[y] # NULL => cur'[y] \in held'[y]
    BY <1>6 DEF ControlInv, HandlerReturn
  <2>4. \A y \in Actors : (pc'[y] = "walk") <=> (lock' = y)
    BY <1>6 DEF ControlInv, HandlerReturn
  <2>5. \A y \in Actors :
          /\ pc'[y] = "handoff" => handle'[y] # NULL
          /\ y \in Clients => pc'[y] \in Injecting \cup {"idle"}
          /\ y \in Clients /\ pc'[y] # "idle" => y \in inst'
    BY <1>6 DEF ControlInv, HandlerReturn, listVars
  <2>6. \A u \in Threads : (ctx'[u] = NULL) <=> (pc'[u] = "idle")
    BY <1>6 DEF TypeOK, ControlInv, Actors, HandlerReturn, LeaveHandler
  <2>7. \A u \in Threads : held'[u] \subseteq {cur'[u]}
    BY <1>6, ConstantsAssumption
       DEF ControlInv, TypeOK, HandlerReturn, LeaveHandler, listVars, callVars,
           actorVars
  <2>. QED
    BY <2>1, <2>3, <2>4, <2>5, <2>6, <2>7 DEF ControlInv
<1>7. ASSUME NEW x \in Actors,
               FLTInjectRequest(x)
      PROVE  ControlInv'
  BY <1>7, ConstantsAssumption
     DEF TypeOK, ControlInv, Injecting, FLTInjectRequest, listVars, callVars
<1>8. ASSUME NEW x \in Actors, NEW c \in Clients, NEW keep \in BOOLEAN,
               CallbackPass(x, c, keep)
      PROVE  ControlInv'
  <2>1. \A y \in Actors :
          (pc'[y] \in Injecting \cup {"release"}) <=> (cur'[y] # NULL)
    BY <1>8 DEF ControlInv, CallbackPass
  <2>2. /\ \A y \in Actors : held[y] \subseteq held'[y]
        /\ \A u \in Threads : held'[u] = held[u]
    <3>1. CASE keep
      <4>1. held' = [held EXCEPT ![c] = held[c] \cup {cur[x]}]
        BY <1>8, <3>1 DEF CallbackPass
      <4>. QED
        BY <4>1, ConstantsAssumption DEF TypeOK, ConstantsAssumption, Actors
    <3>2. CASE ~keep
      BY <1>8, <3>2
         DEF TypeOK, CallbackPass, IsNext, FLTCloneRequest, listVars, callVars,
             actorVars
    <3>. QED
      BY <3>1, <3>2
  <2>3. \A y \in Actors : cur'[y] # NULL => cur'[y] \in held'[y]
    BY <2>2, <1>8 DEF ControlInv, CallbackPass
  <2>4. \A y \in Actors : (pc'[y] = "walk") <=> (lock' = y)
    BY <1>8 DEF ControlInv, CallbackPass
  <2>5. \A y \in Actors :
          /\ pc'[y] = "handoff" => handle'[y] # NULL
          /\ y \in Clients => pc'[y] \in Injecting \cup {"idle"}
          /\ y \in Clients /\ pc'[y] # "idle" => y \in inst'
    BY <1>8 DEF ControlInv, CallbackPass, listVars
  <2>6. \A u \in Threads : (ctx'[u] = NULL) <=> (pc'[u] = "idle")
    BY <1>8 DEF ControlInv, CallbackPass, callVars
  <2>7. \A u \in Threads : held'[u] \subseteq {cur'[u]}
    BY <2>2, <1>8 DEF ControlInv, CallbackPass
  <2>. QED
    BY <2>1, <2>3, <2>4, <2>5, <2>6, <2>7 DEF ControlInv
<1>9. ASSUME NEW x \in Actors, NEW c \in Clients, NEW keep \in BOOLEAN,
               CallbackStop(x, c, keep)
      PROVE  ControlInv'
  <2>1. \A y \in Actors :
          (pc'[y] \in Injecting \cup {"release"}) <=> (cur'[y] # NULL)
    BY <1>9 DEF TypeOK, ControlInv, Injecting, CallbackStop, WalkStops, Return
  <2>2. /\ \A y \in Actors : held[y] \subseteq held'[y]
        /\ \A u \in Threads : held'[u] = held[u]
    <3>1. CASE keep
      <4>1. held' = [held EXCEPT ![c] = held[c] \cup {cur[x]}]
        BY <1>9, <3>1 DEF CallbackStop
      <4>. QED
        BY <4>1, ConstantsAssumption DEF TypeOK, ConstantsAssumption, Actors
    <3>2. CASE ~keep
      BY <1>9, <3>2 DEF CallbackStop
    <3>. QED
      BY <3>1, <3>2
  <2>3. \A y \in Actors : cur'[y] # NULL => cur'[y] \in held'[y]
    BY <2>2, <1>9 DEF ControlInv, CallbackStop, WalkStops
  <2>9. \A u \in Threads : cur'[u] = cur[u]
    BY <1>9 DEF CallbackStop, WalkStops
  <2>4. \A y \in Actors : (pc'[y] = "walk") <=> (lock' = y)
    BY <1>9, ConstantsAssumption
       DEF TypeOK, ControlInv, CallbackStop, WalkStops, Return
  <2>5. \A y \in Actors :
          /\ pc'[y] = "handoff" => handle'[y] # NULL
          /\ y \in Clients => pc'[y] \in Injecting \cup {"idle"}
          /\ y \in Clients /\ pc'[y] # "idle" => y \in inst'
    BY <1>9, ConstantsAssumption
       DEF ControlInv, CallbackStop, WalkStops, Return, listVars
  <2>6. \A u \in Threads : (ctx'[u] = NULL) <=> (pc'[u] = "idle")
    BY <1>9 DEF ControlInv, CallbackStop, WalkStops, Return, callVars
  <2>7. \A u \in Threads : held'[u] \subseteq {cur'[u]}
    BY <2>2, <2>9, <1>9, ConstantsAssumption DEF ControlInv
  <2>. QED
    BY <2>1, <2>3, <2>4, <2>5, <2>6, <2>7 DEF ControlInv
<1>10. ASSUME NEW x \in Actors,
               WalkDone(x)
      PROVE  ControlInv'
  BY <1>10, ConstantsAssumption
     DEF TypeOK, ControlInv, Injecting, WalkDone, listVars, callVars
<1>11. ASSUME NEW x \in Actors,
               SendPacketLookup(x)
      PROVE  ControlInv'
  BY <1>11, ConstantsAssumption
     DEF TypeOK, ControlInv, Actors, Injecting, SendPacketLookup, Return,
         listVars, callVars
<1>12. ASSUME NEW x \in Actors,
               SendPacketHandOff(x)
      PROVE  ControlInv'
  BY <1>12, ConstantsAssumption
     DEF TypeOK, ControlInv, Injecting, SendPacketHandOff, Return, listVars,
         callVars
<1>13. ASSUME NEW c \in Clients,
               FLTRegisterCallbacks(c)
      PROVE  ControlInv'
  BY <1>13 DEF ControlInv, FLTRegisterCallbacks, callVars, actorVars
<1>14. ASSUME NEW c \in Clients,
               FLTDeregisterCallbacks(c)
      PROVE  ControlInv'
  BY <1>14 DEF ControlInv, FLTDeregisterCallbacks, callVars, actorVars
<1>15. ASSUME NEW c \in Clients, NEW p \in Packets,
               ClientFree(c, p)
      PROVE  ControlInv'
  BY <1>15 DEF ControlInv, Injecting, ClientFree, listVars, callVars, actorVars
<1>16. ASSUME NEW c \in Clients, NEW p \in Packets,
               ClientInject(c, p)
      PROVE  ControlInv'
  BY <1>16, ConstantsAssumption
     DEF TypeOK, ControlInv, FlightInv, Injecting, ClientInject, listVars,
         callVars
<1>17. ASSUME NEW p \in Packets,
               FLTFreeCloneRequest(p)
      PROVE  ControlInv'
  BY <1>17 DEF ControlInv, FLTFreeCloneRequest, listVars, callVars, actorVars
<1>18. ASSUME NEW p \in Packets, NEW d \in {"out", "in"},
               Complete(p, d)
      PROVE  ControlInv'
  BY <1>18 DEF ControlInv, Complete, listVars, callVars, actorVars
<1>19. ASSUME NEW a \in Adapters,
               FilterAttach(a)
      PROVE  ControlInv'
  BY <1>19
     DEF ControlInv, FilterAttach, SetModule, listVars, callVars,
         actorVars
<1>20. ASSUME NEW a \in Adapters,
               FilterRestart(a)
      PROVE  ControlInv'
  BY <1>20
     DEF ControlInv, FilterRestart, SetModule, listVars, callVars,
         actorVars
<1>21. ASSUME NEW a \in Adapters,
               FilterPause(a)
      PROVE  ControlInv'
  BY <1>21
     DEF ControlInv, FilterPause, SetModule, listVars, callVars, actorVars
<1>22. ASSUME NEW a \in Adapters,
               CloseAdapter(a)
      PROVE  ControlInv'
  BY <1>22
     DEF ControlInv, CloseAdapter, SetModule, listVars, callVars,
         actorVars
<1>23. ASSUME NEW a \in Adapters,
               FilterDetach(a)
      PROVE  ControlInv'
  BY <1>23
     DEF ControlInv, FilterDetach, SetModule, listVars, callVars,
         actorVars
<1>24. CASE UNCHANGED vars
  BY <1>24 DEF ControlInv, vars, listVars, callVars, actorVars
<1>25. ASSUME NEW t \in Threads,
               TestFilterState(t)
      PROVE  ControlInv'
  BY <1>25
     DEF TypeOK, ControlInv, Actors, Injecting, TestFilterState,
         LeaveHandler, listVars, callVars
<1>. QED
  BY <1>1, <1>2, <1>3, <1>4, <1>5, <1>6, <1>7, <1>8, <1>9, <1>10, <1>11, <1>12,
     <1>13, <1>14, <1>15, <1>16, <1>17, <1>18, <1>19, <1>20, <1>21, <1>22,
     <1>23, <1>24, <1>25
     DEF Next, ThreadNext, InjectNext, ClientNext, PacketNext, AdapterNext,
         FilterSendNetBufferLists, FilterReceiveNetBufferLists,
         FilterSendNetBufferListsComplete, FilterReturnNetBufferLists

\* The holders of packets when one of them takes, or gives up, a reference.
LEMMA HoldersTake ==
    ASSUME TypeOK, NEW x \in Actors, NEW p \in Packets, p \notin held[x],
           held' = [held EXCEPT ![x] = held[x] \cup {p}]
    PROVE  /\ Cardinality(Holders(p)') = Cardinality(Holders(p)) + 1
           /\ Holders(p)' # {}
           /\ \A q \in Packets : q # p => Holders(q)' = Holders(q)
<1>1. Holders(p)' = Holders(p) \cup {x} /\ x \notin Holders(p)
  BY DEF TypeOK, Holders
<1>2. IsFiniteSet(Holders(p))
  BY ConstantsAssumption, FS_Subset DEF ConstantsAssumption, Holders
<1>3. \A q \in Packets : q # p => Holders(q)' = Holders(q)
  BY DEF TypeOK, Holders
<1>. QED
  BY <1>1, <1>2, <1>3, FS_AddElement

LEMMA HoldersDrop ==
    ASSUME TypeOK, NEW x \in Actors, NEW p \in Packets, p \in held[x],
           held' = [held EXCEPT ![x] = held[x] \ {p}]
    PROVE  /\ Cardinality(Holders(p)') = Cardinality(Holders(p)) - 1
           /\ Cardinality(Holders(p)) >= 1
           /\ Holders(p) # {}
           /\ \A q \in Packets : q # p => Holders(q)' = Holders(q)
<1>1. Holders(p)' = Holders(p) \ {x} /\ x \in Holders(p)
  BY DEF TypeOK, Holders
<1>2. IsFiniteSet(Holders(p))
  BY ConstantsAssumption, FS_Subset DEF ConstantsAssumption, Holders
<1>3. \A q \in Packets : q # p => Holders(q)' = Holders(q)
  BY DEF TypeOK, Holders
<1>4. Cardinality(Holders(p)) \in Nat /\ Cardinality(Holders(p)) # 0
  BY <1>1, <1>2, FS_CardinalityType, FS_EmptySet
<1>5. Cardinality(Holders(p)') = Cardinality(Holders(p)) - 1
  BY <1>1, <1>2, FS_RemoveElement
<1>. QED
  BY <1>1, <1>3, <1>4, <1>5

\* The number of holders is a number, zero exactly when there is none.
LEMMA HoldersCount ==
    ASSUME NEW p
    PROVE  /\ Cardinality(Holders(p)) \in Nat
           /\ Cardinality(Holders(p)) = 0 <=> Holders(p) = {}
<1>1. IsFiniteSet(Holders(p))
  BY ConstantsAssumption, FS_Subset DEF ConstantsAssumption, Holders
<1>. QED
  BY <1>1, FS_CardinalityType, FS_EmptySet

\* A step keeps the reference counts exact and the memory of what is held.
LEMMA RefStep ==
    ASSUME TypeOK, ControlInv, RefInv, [Next]_vars
    PROVE  RefInv'
<1>1. ASSUME NEW t \in Threads, NEW a \in Adapters,
               NEW d \in {"out", "in"}, NEW n \in 1..MaxNB,
               Enter(t, a, d, n)
      PROVE  RefInv'
  <2>1. UNCHANGED <<held, refs, ndis, live, pool>>
    BY <1>1 DEF Enter, vars, pktVars
  <2>. QED
    BY <2>1 DEF RefInv, CountsExact, Holders
<1>2. ASSUME NEW t \in Threads,
               IsInstancesListEmpty(t)
      PROVE  RefInv'
  <2>1. UNCHANGED <<held, refs, ndis, live, pool>>
    BY <1>2 DEF IsInstancesListEmpty, LeaveHandler, vars, pktVars
  <2>. QED
    BY <2>1 DEF RefInv, CountsExact, Holders
<1>3. ASSUME NEW t \in Threads, NEW p \in Packets,
               FilterNetBuffer(t, p)
      PROVE  RefInv'
  <2>1. ctx[t] # NULL /\ t \in Actors
    BY <1>3, ConstantsAssumption DEF ControlInv, Actors, FilterNetBuffer
  <2>2. Holders(p) = {} /\ ndis[p] = 0 /\ p \notin held[t]
    BY <1>3, <2>1 DEF TypeOK, RefInv, Holders, FilterNetBuffer
  <2>3. /\ held' = [held EXCEPT ![t] = held[t] \cup {p}]
        /\ refs' = [refs EXCEPT ![p] = 1]
        /\ live' = live \cup {p}
        /\ pool' = [pool EXCEPT ![p] = ctx[t]]
        /\ ndis' = ndis
    BY <1>3 DEF FilterNetBuffer
  <2>4. /\ Cardinality(Holders(p)') = Cardinality(Holders(p)) + 1
        /\ \A q \in Packets : q # p => Holders(q)' = Holders(q)
    BY <2>1, <2>2, <2>3, HoldersTake
  <2>9. Cardinality(Holders(p)) = 0
    BY <2>2, HoldersCount
  <2>5. Cardinality(Holders(p)') = 1
    BY <2>9, <2>4
  <2>6. CountsExact'
    BY <2>2, <2>3, <2>4, <2>5 DEF TypeOK, RefInv, CountsExact
  <2>7. \A q \in live' : pool'[q] # NULL
    BY <2>1, <2>3 DEF TypeOK, RefInv
  <2>. QED
    BY <2>3, <2>4, <2>6, <2>7 DEF RefInv
<1>4. ASSUME NEW t \in Threads,
               FilterNetBufferNoMemory(t)
      PROVE  RefInv'
  <2>1. UNCHANGED <<held, refs, ndis, live, pool>>
    BY <1>4 DEF FilterNetBufferNoMemory, vars, pktVars
  <2>. QED
    BY <2>1 DEF RefInv, CountsExact, Holders
<1>5. ASSUME NEW t \in Threads,
               FilterNetBufferRelease(t)
      PROVE  RefInv'
  <2>. PICK p \in Packets : p = cur[t]
    BY <1>5, ConstantsAssumption
       DEF TypeOK, ControlInv, Injecting, Actors, FilterNetBufferRelease
  <2>1. t \in Actors /\ p \in Packets /\ p \in held[t] /\ p \in live
    BY <1>5, ConstantsAssumption
       DEF TypeOK, ControlInv, RefInv, Holders, Injecting, Actors,
           FilterNetBufferRelease
  <2>2. /\ held' = [held EXCEPT ![t] = held[t] \ {p}]
        /\ refs' = [refs EXCEPT ![p] = refs[p] - 1]
        /\ UNCHANGED <<ndis, live, pool>>
    BY <1>5 DEF FilterNetBufferRelease, DropReference
  <2>3. /\ Cardinality(Holders(p)') = Cardinality(Holders(p)) - 1
        /\ \A q \in Packets : q # p => Holders(q)' = Holders(q)
    BY <2>1, <2>2, HoldersDrop
  <2>4. refs'[p] = Cardinality(Holders(p)') + ndis'[p]
    <3>1. refs'[p] = refs[p] - 1
      BY <2>1, <2>2 DEF TypeOK
    <3>2. refs[p] = Cardinality(Holders(p)) + ndis[p]
      BY <2>1 DEF RefInv, CountsExact
    <3>3. Cardinality(Holders(p)) \in Nat /\ ndis[p] \in Nat
      BY HoldersCount, <2>1 DEF TypeOK
    <3>. QED
      BY <2>2, <2>3, <3>1, <3>2, <3>3
  <2>5. CountsExact'
    BY <2>1, <2>2, <2>3, <2>4 DEF TypeOK, RefInv, CountsExact
  <2>. QED
    BY <2>1, <2>2, <2>3, <2>5 DEF RefInv
<1>6. ASSUME NEW t \in Threads,
               HandlerReturn(t)
      PROVE  RefInv'
  <2>1. UNCHANGED <<held, refs, ndis, live, pool>>
    BY <1>6 DEF HandlerReturn, LeaveHandler, vars, pktVars
  <2>. QED
    BY <2>1 DEF RefInv, CountsExact, Holders
<1>7. ASSUME NEW x \in Actors,
               FLTInjectRequest(x)
      PROVE  RefInv'
  <2>1. UNCHANGED <<held, refs, ndis, live, pool>>
    BY <1>7 DEF FLTInjectRequest, WalkFrom, vars, pktVars
  <2>. QED
    BY <2>1 DEF RefInv, CountsExact, Holders
<1>8. ASSUME NEW x \in Actors, NEW c \in Clients, NEW keep \in BOOLEAN,
               CallbackPass(x, c, keep)
      PROVE  RefInv'
  <2>. PICK p \in Packets : p = cur[x]
    BY <1>8, ConstantsAssumption
       DEF TypeOK, ControlInv, Injecting, Actors, CallbackPass
  <2>1. CASE keep
    <3>1. p \in held[x] /\ c \in Actors
      BY <1>8, ConstantsAssumption
         DEF ControlInv, Injecting, Actors, ConstantsAssumption, CallbackPass
    <3>2. p \in live
      BY <3>1 DEF RefInv, Holders
    <3>3. /\ held' = [held EXCEPT ![c] = held[c] \cup {p}]
          /\ p \notin held[c]
          /\ refs' = [refs EXCEPT ![p] = refs[p] + 1]
          /\ UNCHANGED <<ndis, live, pool>>
      BY <1>8, <2>1 DEF CallbackPass, FLTCloneRequest
    <3>4. /\ Cardinality(Holders(p)') = Cardinality(Holders(p)) + 1
          /\ \A q \in Packets : q # p => Holders(q)' = Holders(q)
      BY <3>1, <3>3, HoldersTake
    <3>5. CountsExact'
      <4>1. \A q \in Packets : Cardinality(Holders(q)) \in Nat
        BY HoldersCount
      <4>2. refs'[p] = refs[p] + 1 /\ \A q \in Packets : q # p => refs'[q] = refs[q]
        BY <3>3 DEF TypeOK
      <4>. QED
        BY <3>2, <3>3, <3>4, <4>1, <4>2 DEF TypeOK, RefInv, CountsExact
    <3>. QED
      BY <3>2, <3>3, <3>4, <3>5 DEF RefInv
  <2>2. CASE ~keep
    <3>1. UNCHANGED <<held, refs, ndis, live, pool>>
      BY <1>8, <2>2 DEF CallbackPass
    <3>. QED
      BY <3>1 DEF RefInv, CountsExact, Holders
  <2>. QED
    BY <2>1, <2>2
<1>9. ASSUME NEW x \in Actors, NEW c \in Clients, NEW keep \in BOOLEAN,
               CallbackStop(x, c, keep)
      PROVE  RefInv'
  <2>. PICK p \in Packets : p = cur[x]
    BY <1>9, ConstantsAssumption
       DEF TypeOK, ControlInv, Injecting, Actors, CallbackStop
  <2>1. CASE keep
    <3>1. p \in held[x] /\ c \in Actors
      BY <1>9, ConstantsAssumption
         DEF ControlInv, Injecting, Actors, ConstantsAssumption, CallbackStop
    <3>2. p \in live
      BY <3>1 DEF RefInv, Holders
    <3>3. /\ held' = [held EXCEPT ![c] = held[c] \cup {p}]
          /\ p \notin held[c]
          /\ refs' = [refs EXCEPT ![p] = refs[p] + 1]
          /\ UNCHANGED <<ndis, live, pool>>
      BY <1>9, <2>1 DEF CallbackStop, FLTCloneRequest
    <3>4. /\ Cardinality(Holders(p)') = Cardinality(Holders(p)) + 1
          /\ \A q \in Packets : q # p => Holders(q)' = Holders(q)
      BY <3>1, <3>3, HoldersTake
    <3>5. CountsExact'
      <4>1. \A q \in Packets : Cardinality(Holders(q)) \in Nat
        BY HoldersCount
      <4>2. refs'[p] = refs[p] + 1 /\ \A q \in Packets : q # p => refs'[q] = refs[q]
        BY <3>3 DEF TypeOK
      <4>. QED
        BY <3>2, <3>3, <3>4, <4>1, <4>2 DEF TypeOK, RefInv, CountsExact
    <3>. QED
      BY <3>2, <3>3, <3>4, <3>5 DEF RefInv
  <2>2. CASE ~keep
    <3>1. UNCHANGED <<held, refs, ndis, live, pool>>
      BY <1>9, <2>2 DEF CallbackStop
    <3>. QED
      BY <3>1 DEF RefInv, CountsExact, Holders
  <2>. QED
    BY <2>1, <2>2
<1>10. ASSUME NEW x \in Actors,
               WalkDone(x)
      PROVE  RefInv'
  <2>1. UNCHANGED <<held, refs, ndis, live, pool>>
    BY <1>10 DEF WalkDone, vars, pktVars
  <2>. QED
    BY <2>1 DEF RefInv, CountsExact, Holders
<1>11. ASSUME NEW x \in Actors,
               SendPacketLookup(x)
      PROVE  RefInv'
  <2>1. UNCHANGED <<held, refs, ndis, live, pool>>
    BY <1>11 DEF SendPacketLookup, Return, vars, pktVars
  <2>. QED
    BY <2>1 DEF RefInv, CountsExact, Holders
<1>12. ASSUME NEW x \in Actors,
               SendPacketHandOff(x)
      PROVE  RefInv'
  <2>1. cur[x] \in Packets /\ cur[x] \in live
    BY <1>12, ConstantsAssumption
       DEF TypeOK, ControlInv, RefInv, Holders, Injecting, Actors,
           SendPacketHandOff
  <2>2. /\ refs' = [refs EXCEPT ![cur[x]] = refs[cur[x]] + 1]
        /\ ndis' = [ndis EXCEPT ![cur[x]] = ndis[cur[x]] + 1]
        /\ UNCHANGED <<held, live, pool>>
    BY <1>12 DEF SendPacketHandOff, FLTCloneRequest
  <2>3. \A q \in Packets : Holders(q)' = Holders(q)
    BY <2>2 DEF Holders
  <2>4. CountsExact'
    BY <2>1, <2>2, <2>3, HoldersCount DEF TypeOK, RefInv, CountsExact
  <2>. QED
    BY <2>1, <2>2, <2>3, <2>4 DEF TypeOK, RefInv
<1>13. ASSUME NEW c \in Clients,
               FLTRegisterCallbacks(c)
      PROVE  RefInv'
  <2>1. UNCHANGED <<held, refs, ndis, live, pool>>
    BY <1>13 DEF FLTRegisterCallbacks, vars, pktVars
  <2>. QED
    BY <2>1 DEF RefInv, CountsExact, Holders
<1>14. ASSUME NEW c \in Clients,
               FLTDeregisterCallbacks(c)
      PROVE  RefInv'
  <2>1. UNCHANGED <<held, refs, ndis, live, pool>>
    BY <1>14 DEF FLTDeregisterCallbacks, vars, pktVars
  <2>. QED
    BY <2>1 DEF RefInv, CountsExact, Holders
<1>15. ASSUME NEW c \in Clients, NEW p \in Packets,
               ClientFree(c, p)
      PROVE  RefInv'
  <2>1. c \in Actors /\ p \in Packets /\ p \in held[c] /\ p \in live
    BY <1>15, ConstantsAssumption
       DEF TypeOK, ControlInv, RefInv, Holders, Injecting, Actors, ClientFree
  <2>2. /\ held' = [held EXCEPT ![c] = held[c] \ {p}]
        /\ refs' = [refs EXCEPT ![p] = refs[p] - 1]
        /\ UNCHANGED <<ndis, live, pool>>
    BY <1>15 DEF ClientFree, DropReference
  <2>3. /\ Cardinality(Holders(p)') = Cardinality(Holders(p)) - 1
        /\ \A q \in Packets : q # p => Holders(q)' = Holders(q)
    BY <2>1, <2>2, HoldersDrop
  <2>4. refs'[p] = Cardinality(Holders(p)') + ndis'[p]
    <3>1. refs'[p] = refs[p] - 1
      BY <2>1, <2>2 DEF TypeOK
    <3>2. refs[p] = Cardinality(Holders(p)) + ndis[p]
      BY <2>1 DEF RefInv, CountsExact
    <3>3. Cardinality(Holders(p)) \in Nat /\ ndis[p] \in Nat
      BY HoldersCount, <2>1 DEF TypeOK
    <3>. QED
      BY <2>2, <2>3, <3>1, <3>2, <3>3
  <2>5. CountsExact'
    BY <2>1, <2>2, <2>3, <2>4 DEF TypeOK, RefInv, CountsExact
  <2>. QED
    BY <2>1, <2>2, <2>3, <2>5 DEF RefInv
<1>16. ASSUME NEW c \in Clients, NEW p \in Packets,
               ClientInject(c, p)
      PROVE  RefInv'
  <2>1. UNCHANGED <<held, refs, ndis, live, pool>>
    BY <1>16 DEF ClientInject, vars, pktVars
  <2>. QED
    BY <2>1 DEF RefInv, CountsExact, Holders
<1>17. ASSUME NEW p \in Packets,
               FLTFreeCloneRequest(p)
      PROVE  RefInv'
  <2>1. refs[p] = 0 /\ p \in live
    BY <1>17 DEF FLTFreeCloneRequest, Dying
  <2>2. Holders(p) = {} /\ ndis[p] = 0
    BY <2>1, HoldersCount DEF TypeOK, RefInv, CountsExact
  <2>3. /\ live' = live \ {p}
        /\ pool' = [pool EXCEPT ![p] = NULL]
        /\ UNCHANGED <<held, refs, ndis>>
    BY <1>17 DEF FLTFreeCloneRequest
  <2>. QED
    BY <2>2, <2>3 DEF TypeOK, RefInv, CountsExact, Holders
<1>18. ASSUME NEW p \in Packets, NEW d \in {"out", "in"},
               Complete(p, d)
      PROVE  RefInv'
  <2>1. p \in live /\ ndis[p] > 0
    BY <1>18 DEF RefInv, Complete
  <2>2. /\ refs' = [refs EXCEPT ![p] = refs[p] - 1]
        /\ ndis' = [ndis EXCEPT ![p] = ndis[p] - 1]
        /\ UNCHANGED <<held, live, pool>>
    BY <1>18 DEF Complete, DropReference
  <2>3. \A q \in Packets : Holders(q)' = Holders(q)
    BY <2>2 DEF Holders
  <2>4. refs'[p] = Cardinality(Holders(p)') + ndis'[p]
    <3>1. refs'[p] = refs[p] - 1 /\ ndis'[p] = ndis[p] - 1
      BY <2>2 DEF TypeOK
    <3>2. refs[p] = Cardinality(Holders(p)) + ndis[p]
      BY <2>1 DEF RefInv, CountsExact
    <3>3. Cardinality(Holders(p)) \in Nat /\ ndis[p] \in Nat
      BY HoldersCount DEF TypeOK
    <3>4. Holders(p)' = Holders(p)
      BY <2>3
    <3>. QED
      BY <3>1, <3>2, <3>3, <3>4
  <2>5. CountsExact'
    BY <2>2, <2>3, <2>4 DEF TypeOK, RefInv, CountsExact
  <2>. QED
    BY <2>1, <2>2, <2>3, <2>5 DEF TypeOK, RefInv
<1>19. ASSUME NEW a \in Adapters,
               FilterAttach(a)
      PROVE  RefInv'
  <2>1. UNCHANGED <<held, refs, ndis, live, pool>>
    BY <1>19 DEF FilterAttach, SetModule, vars, pktVars
  <2>. QED
    BY <2>1 DEF RefInv, CountsExact, Holders
<1>20. ASSUME NEW a \in Adapters,
               FilterRestart(a)
      PROVE  RefInv'
  <2>1. UNCHANGED <<held, refs, ndis, live, pool>>
    BY <1>20 DEF FilterRestart, SetModule, vars, pktVars
  <2>. QED
    BY <2>1 DEF RefInv, CountsExact, Holders
<1>21. ASSUME NEW a \in Adapters,
               FilterPause(a)
      PROVE  RefInv'
  <2>1. UNCHANGED <<held, refs, ndis, live, pool>>
    BY <1>21 DEF FilterPause, SetModule, vars, pktVars
  <2>. QED
    BY <2>1 DEF RefInv, CountsExact, Holders
<1>22. ASSUME NEW a \in Adapters,
               CloseAdapter(a)
      PROVE  RefInv'
  <2>1. UNCHANGED <<held, refs, ndis, live, pool>>
    BY <1>22
       DEF CloseAdapter, SetModule, ClearAdapter, MayDetach, vars, pktVars
  <2>. QED
    BY <2>1 DEF RefInv, CountsExact, Holders
<1>23. ASSUME NEW a \in Adapters,
               FilterDetach(a)
      PROVE  RefInv'
  <2>1. UNCHANGED <<held, refs, ndis, live, pool>>
    BY <1>23 DEF FilterDetach, SetModule, vars, pktVars
  <2>. QED
    BY <2>1 DEF RefInv, CountsExact, Holders
<1>24. CASE UNCHANGED vars
  <2>1. UNCHANGED <<held, refs, ndis, live, pool>>
    BY <1>24 DEF vars, pktVars
  <2>. QED
    BY <2>1 DEF RefInv, CountsExact, Holders
<1>25. ASSUME NEW t \in Threads,
               TestFilterState(t)
      PROVE  RefInv'
  <2>1. UNCHANGED <<held, refs, ndis, live, pool>>
    BY <1>25 DEF TestFilterState, LeaveHandler, vars, pktVars
  <2>. QED
    BY <2>1 DEF RefInv, CountsExact, Holders
<1>. QED
  BY <1>1, <1>2, <1>3, <1>4, <1>5, <1>6, <1>7, <1>8, <1>9, <1>10, <1>11, <1>12,
     <1>13, <1>14, <1>15, <1>16, <1>17, <1>18, <1>19, <1>20, <1>21, <1>22,
     <1>23, <1>24, <1>25
     DEF Next, ThreadNext, InjectNext, ClientNext, PacketNext, AdapterNext,
         FilterSendNetBufferLists, FilterReceiveNetBufferLists,
         FilterSendNetBufferListsComplete, FilterReturnNetBufferLists

\* Who drops a reference finds a positive count.
LEMMA CountPositive ==
    ASSUME TypeOK, RefInv, NEW p \in Packets, Holders(p) # {} \/ ndis[p] > 0
    PROVE  p \in live /\ refs[p] - 1 \in Nat
<1>1. p \in live /\ refs[p] = Cardinality(Holders(p)) + ndis[p]
  BY DEF RefInv, CountsExact
<1>2. Cardinality(Holders(p)) \in Nat /\ ndis[p] \in Nat
  BY HoldersCount DEF TypeOK
<1>3. Cardinality(Holders(p)) > 0 \/ ndis[p] > 0
  BY <1>2, HoldersCount
<1>. QED
  BY <1>1, <1>2, <1>3

\* A step keeps the types.
LEMMA TypeStep ==
    ASSUME TypeOK, ControlInv, RefInv, [Next]_vars
    PROVE  TypeOK'
<1>1. ASSUME NEW t \in Threads, NEW a \in Adapters,
               NEW d \in {"out", "in"}, NEW n \in 1..MaxNB,
               Enter(t, a, d, n)
      PROVE  TypeOK'
  BY <1>1 DEF moduleVars, TypeOK, Actors, Enter, pktVars, listVars, histVars
<1>2. ASSUME NEW t \in Threads,
               IsInstancesListEmpty(t)
      PROVE  TypeOK'
  <2>1. CASE inst = {}
    <3>1. /\ ctx' \in [Threads -> Adapters \cup {NULL}]
          /\ way' \in [Threads -> {"out", "in"}]
          /\ nb' \in [Threads -> 0..MaxNB]
      <4>1. LeaveHandler(t)
        BY <1>2, <2>1 DEF IsInstancesListEmpty
      <4>. QED
        BY <4>1, ConstantsAssumption
           DEF moduleVars, TypeOK, ConstantsAssumption, LeaveHandler
    <3>2. pc' \in [Actors -> Injecting \cup {"idle", "test", "entry", "loop",
                                          "release"}]
      BY <1>2 DEF moduleVars, TypeOK, IsInstancesListEmpty
    <3>. QED
      BY <1>2, <3>1, <3>2
         DEF moduleVars, TypeOK, IsInstancesListEmpty, pktVars, listVars, histVars
  <2>2. CASE inst # {}
    BY <1>2, <2>2
       DEF moduleVars, TypeOK, Actors, IsInstancesListEmpty, pktVars, listVars, callVars,
           histVars
  <2>. QED
    BY <2>1, <2>2
<1>3. ASSUME NEW t \in Threads, NEW p \in Packets,
               FilterNetBuffer(t, p)
      PROVE  TypeOK'
  BY <1>3, ConstantsAssumption
     DEF moduleVars, TypeOK, Actors, Injecting, FilterNetBuffer, listVars, histVars
<1>4. ASSUME NEW t \in Threads,
               FilterNetBufferNoMemory(t)
      PROVE  TypeOK'
  BY <1>4, ConstantsAssumption
     DEF moduleVars, TypeOK, FilterNetBufferNoMemory, pktVars, listVars, histVars
<1>5. ASSUME NEW t \in Threads,
               FilterNetBufferRelease(t)
      PROVE  TypeOK'
  <2>1. cur[t] \in Packets /\ refs[cur[t]] - 1 \in Nat
    <3>1. PICK p \in Packets : p = cur[t] /\ p \in held[t]
      BY <1>5, ConstantsAssumption
         DEF moduleVars, TypeOK, ControlInv, Injecting, Actors, FilterNetBufferRelease
    <3>2. Holders(p) # {}
      BY <3>1 DEF Holders, Actors
    <3>. QED
      BY <3>1, <3>2, CountPositive
  <2>. QED
    BY <1>5, <2>1
       DEF moduleVars, TypeOK, FilterNetBufferRelease, DropReference, callVars, listVars,
           histVars
<1>6. ASSUME NEW t \in Threads,
               HandlerReturn(t)
      PROVE  TypeOK'
  BY <1>6 DEF moduleVars, TypeOK, HandlerReturn, LeaveHandler, pktVars, listVars, histVars
<1>7. ASSUME NEW x \in Actors,
               FLTInjectRequest(x)
      PROVE  TypeOK'
  <2>1. cur[x] \in Packets
    BY <1>7, ConstantsAssumption
       DEF moduleVars, TypeOK, ControlInv, Injecting, FLTInjectRequest
  <2>. QED
    BY <1>7
       DEF moduleVars, TypeOK, Injecting, FLTInjectRequest, WalkFrom, pktVars, listVars,
           callVars
<1>8. ASSUME NEW x \in Actors, NEW c \in Clients, NEW keep \in BOOLEAN,
               CallbackPass(x, c, keep)
      PROVE  TypeOK'
  <2>1. cur[x] \in Packets /\ c \in Actors
    BY <1>8, ConstantsAssumption
       DEF moduleVars, TypeOK, ControlInv, Injecting, Actors, CallbackPass
  <2>2. /\ refs' \in [Packets -> Nat]
        /\ held' \in [Actors -> SUBSET Packets]
        /\ mayInject' \in [Clients -> SUBSET Packets]
    <3>1. CASE keep
      <4>1. refs' \in [Packets -> Nat]
        <5>1. refs' = [refs EXCEPT ![cur[x]] = @ + 1]
          BY <1>8, <3>1 DEF CallbackPass, FLTCloneRequest
        <5>2. refs \in [Packets -> Nat]
          BY DEF moduleVars, TypeOK
        <5>. QED
          BY <2>1, <5>1, <5>2
      <4>2. held' \in [Actors -> SUBSET Packets]
        <5>1. held' = [held EXCEPT ![c] = @ \cup {cur[x]}]
          BY <1>8, <3>1 DEF CallbackPass
        <5>2. held \in [Actors -> SUBSET Packets]
          BY DEF moduleVars, TypeOK
        <5>. QED
          BY <2>1, <5>1, <5>2
      <4>3. mayInject' \in [Clients -> SUBSET Packets]
        BY <1>8, <2>1, <3>1 DEF moduleVars, TypeOK, CallbackPass
      <4>. QED
        BY <4>1, <4>2, <4>3
    <3>2. CASE ~keep
      BY <1>8, <3>2 DEF moduleVars, TypeOK, CallbackPass
    <3>. QED
      BY <3>1, <3>2
  <2>3. /\ todo' \in [Actors -> SUBSET Clients]
        /\ approved' \in [Packets -> SUBSET Clients]
    BY <1>8, <2>1 DEF moduleVars, TypeOK, CallbackPass
  <2>. QED
    BY <1>8, <2>2, <2>3 DEF moduleVars, TypeOK, CallbackPass, listVars, callVars
<1>9. ASSUME NEW x \in Actors, NEW c \in Clients, NEW keep \in BOOLEAN,
               CallbackStop(x, c, keep)
      PROVE  TypeOK'
  <2>1. cur[x] \in Packets /\ c \in Actors
    BY <1>9, ConstantsAssumption
       DEF moduleVars, TypeOK, ControlInv, Injecting, Actors, CallbackStop
  <2>2. /\ refs' \in [Packets -> Nat]
        /\ held' \in [Actors -> SUBSET Packets]
        /\ mayInject' \in [Clients -> SUBSET Packets]
    <3>1. CASE keep
      <4>1. refs' \in [Packets -> Nat]
        <5>1. refs' = [refs EXCEPT ![cur[x]] = @ + 1]
          BY <1>9, <3>1 DEF CallbackStop, FLTCloneRequest
        <5>2. refs \in [Packets -> Nat]
          BY DEF moduleVars, TypeOK
        <5>. QED
          BY <2>1, <5>1, <5>2
      <4>2. held' \in [Actors -> SUBSET Packets]
        <5>1. held' = [held EXCEPT ![c] = @ \cup {cur[x]}]
          BY <1>9, <3>1 DEF CallbackStop
        <5>2. held \in [Actors -> SUBSET Packets]
          BY DEF moduleVars, TypeOK
        <5>. QED
          BY <2>1, <5>1, <5>2
      <4>3. mayInject' \in [Clients -> SUBSET Packets]
        <5>1. mayInject' = [mayInject EXCEPT ![c] = @ \cup {cur[x]}]
          BY <1>9, <3>1 DEF CallbackStop
        <5>2. mayInject \in [Clients -> SUBSET Packets]
          BY DEF moduleVars, TypeOK
        <5>. QED
          BY <2>1, <5>1, <5>2
      <4>. QED
        BY <4>1, <4>2, <4>3
    <3>2. CASE ~keep
      BY <1>9, <3>2 DEF moduleVars, TypeOK, CallbackStop
    <3>. QED
      BY <3>1, <3>2
  <2>3. /\ todo' \in [Actors -> SUBSET Clients]
        /\ lock' \in Actors \cup {NULL}
        /\ cur' \in [Actors -> Packets \cup {NULL}]
    BY <1>9 DEF moduleVars, TypeOK, CallbackStop, WalkStops
  <2>4. pc' \in [Actors -> Injecting \cup {"idle", "test", "entry", "loop",
                                          "release"}]
    BY <1>9 DEF moduleVars, TypeOK, CallbackStop, WalkStops, Return
  <2>. QED
    BY <1>9, <2>2, <2>3, <2>4
       DEF moduleVars, TypeOK, CallbackStop, listVars, callVars, histVars
<1>10. ASSUME NEW x \in Actors,
               WalkDone(x)
      PROVE  TypeOK'
  BY <1>10
     DEF moduleVars, TypeOK, Injecting, WalkDone, pktVars, listVars, callVars, histVars
<1>11. ASSUME NEW x \in Actors,
               SendPacketLookup(x)
      PROVE  TypeOK'
  <2>1. cur[x] \in Packets
    BY <1>11, ConstantsAssumption
       DEF moduleVars, TypeOK, ControlInv, Injecting, SendPacketLookup
  <2>. QED
    BY <1>11, <2>1
       DEF moduleVars, TypeOK, Injecting, SendPacketLookup, Return, pktVars, listVars,
           callVars, histVars
<1>12. ASSUME NEW x \in Actors,
               SendPacketHandOff(x)
      PROVE  TypeOK'
  <2>1. cur[x] \in Packets
    BY <1>12, ConstantsAssumption
       DEF moduleVars, TypeOK, ControlInv, Injecting, SendPacketHandOff
  <2>. QED
    BY <1>12, <2>1
       DEF moduleVars, TypeOK, SendPacketHandOff, Return, FLTCloneRequest, listVars,
           callVars, histVars
<1>13. ASSUME NEW c \in Clients,
               FLTRegisterCallbacks(c)
      PROVE  TypeOK'
  BY <1>13
     DEF moduleVars, TypeOK, FLTRegisterCallbacks, pktVars, callVars, actorVars, histVars
<1>14. ASSUME NEW c \in Clients,
               FLTDeregisterCallbacks(c)
      PROVE  TypeOK'
  BY <1>14 DEF moduleVars, TypeOK, FLTDeregisterCallbacks, pktVars, callVars, actorVars
<1>15. ASSUME NEW c \in Clients, NEW p \in Packets,
               ClientFree(c, p)
      PROVE  TypeOK'
  <2>1. refs[p] - 1 \in Nat
    <3>1. Holders(p) # {}
      BY <1>15 DEF Holders, Actors, ClientFree
    <3>. QED
      BY <3>1, CountPositive
  <2>. QED
    BY <1>15, <2>1
       DEF moduleVars, TypeOK, ClientFree, DropReference, callVars, actorVars, listVars,
           histVars
<1>16. ASSUME NEW c \in Clients, NEW p \in Packets,
               ClientInject(c, p)
      PROVE  TypeOK'
  BY <1>16
     DEF moduleVars, TypeOK, Actors, Injecting, ClientInject, pktVars, listVars, callVars
<1>17. ASSUME NEW p \in Packets,
               FLTFreeCloneRequest(p)
      PROVE  TypeOK'
  BY <1>17 DEF moduleVars, TypeOK, FLTFreeCloneRequest, listVars, callVars, actorVars
<1>18. ASSUME NEW p \in Packets, NEW d \in {"out", "in"},
               Complete(p, d)
      PROVE  TypeOK'
  <2>1. refs[p] - 1 \in Nat /\ ndis[p] - 1 \in Nat
    BY <1>18, CountPositive DEF moduleVars, TypeOK, Complete
  <2>. QED
    BY <1>18, <2>1
       DEF moduleVars, TypeOK, Complete, DropReference, callVars, actorVars, listVars,
           histVars
<1>19. ASSUME NEW a \in Adapters,
               FilterAttach(a)
      PROVE  TypeOK'
  BY <1>19
     DEF moduleVars, TypeOK, FilterAttach, SetModule, listVars, callVars, actorVars,
         histVars
<1>20. ASSUME NEW a \in Adapters,
               FilterRestart(a)
      PROVE  TypeOK'
  BY <1>20
     DEF moduleVars, TypeOK, FilterRestart, SetModule, listVars, callVars, actorVars,
         histVars
<1>21. ASSUME NEW a \in Adapters,
               FilterPause(a)
      PROVE  TypeOK'
  BY <1>21
     DEF moduleVars, TypeOK, FilterPause, SetModule, listVars, callVars, actorVars,
         histVars
<1>22. ASSUME NEW a \in Adapters,
               CloseAdapter(a)
      PROVE  TypeOK'
  BY <1>22
     DEF moduleVars, TypeOK, CloseAdapter, SetModule, ClearAdapter, listVars,
         callVars, actorVars, histVars
<1>23. ASSUME NEW a \in Adapters,
               FilterDetach(a)
      PROVE  TypeOK'
  BY <1>23
     DEF moduleVars, TypeOK, FilterDetach, SetModule, listVars, callVars, actorVars,
         histVars
<1>24. CASE UNCHANGED vars
  BY <1>24 DEF moduleVars, TypeOK, vars, pktVars, listVars, callVars, actorVars, histVars
<1>25. ASSUME NEW t \in Threads,
               TestFilterState(t)
      PROVE  TypeOK'
  <2>1. /\ UNCHANGED <<module, listVars, lock, pktVars, cur, todo, handle, held,
                       mayInject, histVars>>
        /\ asked' = [asked EXCEPT ![t] = "PAUSED"]
        /\ filterState' = [filterState EXCEPT ![ctx[t]] = asked[t]]
        /\ \/ pc' = [pc EXCEPT ![t] = "entry"] /\ UNCHANGED callVars
           \/ pc' = [pc EXCEPT ![t] = "idle"] /\ LeaveHandler(t)
    BY <1>25 DEF TestFilterState
  <2>2. /\ asked' \in [Threads -> {"PAUSED", "RUNNING"}]
        /\ filterState' \in [Adapters -> {"PAUSED", "RUNNING"}]
    BY <2>1 DEF TypeOK
  <2>3. pc' \in [Actors -> Injecting \cup {"idle", "test", "entry", "loop",
                                          "release"}]
    BY <2>1 DEF TypeOK
  <2>4. /\ ctx' \in [Threads -> Adapters \cup {NULL}]
        /\ way' \in [Threads -> {"out", "in"}]
        /\ nb' \in [Threads -> 0..MaxNB]
    <3>1. CASE UNCHANGED callVars
      BY <3>1 DEF TypeOK, callVars
    <3>2. CASE LeaveHandler(t)
      BY <3>2, ConstantsAssumption DEF TypeOK, ConstantsAssumption, LeaveHandler
    <3>. QED
      BY <2>1, <3>1, <3>2
  <2>. QED
    BY <2>1, <2>2, <2>3, <2>4 DEF TypeOK, pktVars, listVars, histVars
<1>. QED
  BY <1>1, <1>2, <1>3, <1>4, <1>5, <1>6, <1>7, <1>8, <1>9, <1>10, <1>11, <1>12,
     <1>13, <1>14, <1>15, <1>16, <1>17, <1>18, <1>19, <1>20, <1>21, <1>22,
     <1>23, <1>24, <1>25
     DEF Next, ThreadNext, InjectNext, ClientNext, PacketNext, AdapterNext,
         FilterSendNetBufferLists, FilterReceiveNetBufferLists,
         FilterSendNetBufferListsComplete, FilterReturnNetBufferLists

\* A step keeps the order of the list.
LEMMA ListStep ==
    ASSUME TypeOK, ListInv, [Next]_vars
    PROVE  ListInv'
<1>1. ASSUME NEW t \in Threads, NEW a \in Adapters,
               NEW d \in {"out", "in"}, NEW n \in 1..MaxNB,
               Enter(t, a, d, n)
      PROVE  ListInv'
  BY <1>1 DEF TypeOK, ListInv, Enter, listVars
<1>2. ASSUME NEW t \in Threads,
               IsInstancesListEmpty(t)
      PROVE  ListInv'
  BY <1>2 DEF TypeOK, ListInv, IsInstancesListEmpty, LeaveHandler, listVars
<1>3. ASSUME NEW t \in Threads, NEW p \in Packets,
               FilterNetBuffer(t, p)
      PROVE  ListInv'
  BY <1>3 DEF TypeOK, ListInv, FilterNetBuffer, listVars
<1>4. ASSUME NEW t \in Threads,
               FilterNetBufferNoMemory(t)
      PROVE  ListInv'
  BY <1>4 DEF TypeOK, ListInv, FilterNetBufferNoMemory, listVars
<1>5. ASSUME NEW t \in Threads,
               FilterNetBufferRelease(t)
      PROVE  ListInv'
  BY <1>5 DEF TypeOK, ListInv, FilterNetBufferRelease, DropReference, listVars
<1>6. ASSUME NEW t \in Threads,
               HandlerReturn(t)
      PROVE  ListInv'
  BY <1>6 DEF TypeOK, ListInv, HandlerReturn, LeaveHandler, listVars
<1>7. ASSUME NEW x \in Actors,
               FLTInjectRequest(x)
      PROVE  ListInv'
  BY <1>7 DEF TypeOK, ListInv, FLTInjectRequest, WalkFrom, listVars
<1>8. ASSUME NEW x \in Actors, NEW c \in Clients, NEW keep \in BOOLEAN,
               CallbackPass(x, c, keep)
      PROVE  ListInv'
  BY <1>8 DEF TypeOK, ListInv, CallbackPass, IsNext, FLTCloneRequest, listVars
<1>9. ASSUME NEW x \in Actors, NEW c \in Clients, NEW keep \in BOOLEAN,
               CallbackStop(x, c, keep)
      PROVE  ListInv'
  BY <1>9
     DEF TypeOK, ListInv, CallbackStop, IsNext, WalkStops, Return,
         FLTCloneRequest, listVars
<1>10. ASSUME NEW x \in Actors,
               WalkDone(x)
      PROVE  ListInv'
  BY <1>10 DEF TypeOK, ListInv, WalkDone, listVars
<1>11. ASSUME NEW x \in Actors,
               SendPacketLookup(x)
      PROVE  ListInv'
  BY <1>11 DEF TypeOK, ListInv, SendPacketLookup, Return, listVars
<1>12. ASSUME NEW x \in Actors,
               SendPacketHandOff(x)
      PROVE  ListInv'
  BY <1>12
     DEF TypeOK, ListInv, SendPacketHandOff, Return, FLTCloneRequest, listVars
<1>13. ASSUME NEW c \in Clients,
               FLTRegisterCallbacks(c)
      PROVE  ListInv'
  BY <1>13 DEF TypeOK, ListInv, FLTRegisterCallbacks, listVars
<1>14. ASSUME NEW c \in Clients,
               FLTDeregisterCallbacks(c)
      PROVE  ListInv'
  BY <1>14 DEF TypeOK, ListInv, FLTDeregisterCallbacks, listVars
<1>15. ASSUME NEW c \in Clients, NEW p \in Packets,
               ClientFree(c, p)
      PROVE  ListInv'
  BY <1>15 DEF TypeOK, ListInv, ClientFree, DropReference, listVars
<1>16. ASSUME NEW c \in Clients, NEW p \in Packets,
               ClientInject(c, p)
      PROVE  ListInv'
  BY <1>16 DEF TypeOK, ListInv, ClientInject, listVars
<1>17. ASSUME NEW p \in Packets,
               FLTFreeCloneRequest(p)
      PROVE  ListInv'
  BY <1>17 DEF TypeOK, ListInv, FLTFreeCloneRequest, Dying, listVars
<1>18. ASSUME NEW p \in Packets, NEW d \in {"out", "in"},
               Complete(p, d)
      PROVE  ListInv'
  BY <1>18 DEF TypeOK, ListInv, Complete, DropReference, listVars
<1>19. ASSUME NEW a \in Adapters,
               FilterAttach(a)
      PROVE  ListInv'
  BY <1>19 DEF TypeOK, ListInv, FilterAttach, SetModule, listVars
<1>20. ASSUME NEW a \in Adapters,
               FilterRestart(a)
      PROVE  ListInv'
  BY <1>20 DEF TypeOK, ListInv, FilterRestart, SetModule, listVars
<1>21. ASSUME NEW a \in Adapters,
               FilterPause(a)
      PROVE  ListInv'
  BY <1>21 DEF TypeOK, ListInv, FilterPause, SetModule, listVars
<1>22. ASSUME NEW a \in Adapters,
               CloseAdapter(a)
      PROVE  ListInv'
  BY <1>22
     DEF TypeOK, ListInv, CloseAdapter, SetModule, ClearAdapter,
         MayDetach, listVars
<1>23. ASSUME NEW a \in Adapters,
               FilterDetach(a)
      PROVE  ListInv'
  BY <1>23 DEF TypeOK, ListInv, FilterDetach, SetModule, listVars
<1>24. CASE UNCHANGED vars
  BY <1>24 DEF TypeOK, ListInv, vars, listVars
<1>25. ASSUME NEW t \in Threads,
               TestFilterState(t)
      PROVE  ListInv'
  BY <1>25 DEF TypeOK, ListInv, TestFilterState, LeaveHandler, listVars
<1>. QED
  BY <1>1, <1>2, <1>3, <1>4, <1>5, <1>6, <1>7, <1>8, <1>9, <1>10, <1>11, <1>12,
     <1>13, <1>14, <1>15, <1>16, <1>17, <1>18, <1>19, <1>20, <1>21, <1>22,
     <1>23, <1>24, <1>25
     DEF Next, ThreadNext, InjectNext, ClientNext, PacketNext, AdapterNext,
         FilterSendNetBufferLists, FilterReceiveNetBufferLists,
         FilterSendNetBufferListsComplete, FilterReturnNetBufferLists

\* A step lets no packet or handler name an adapter that goes away.
LEMMA AdapterStep ==
    ASSUME TypeOK, ControlInv, RefInv, AdapterInv, [Next]_vars
    PROVE  AdapterInv'
<1>1. ASSUME NEW t \in Threads, NEW a \in Adapters,
               NEW d \in {"out", "in"}, NEW n \in 1..MaxNB,
               Enter(t, a, d, n)
      PROVE  AdapterInv'
  BY <1>1 DEF moduleVars, AdapterInv, NoClosedAdapter, Enter, pktVars
<1>2. ASSUME NEW t \in Threads,
               IsInstancesListEmpty(t)
      PROVE  AdapterInv'
  BY <1>2
     DEF moduleVars, TypeOK, ControlInv, RefInv, AdapterInv, NoClosedAdapter,
         IsInstancesListEmpty, LeaveHandler, pktVars, callVars
<1>3. ASSUME NEW t \in Threads, NEW p \in Packets,
               FilterNetBuffer(t, p)
      PROVE  AdapterInv'
  BY <1>3 DEF moduleVars, AdapterInv, NoClosedAdapter, FilterNetBuffer
<1>4. ASSUME NEW t \in Threads,
               FilterNetBufferNoMemory(t)
      PROVE  AdapterInv'
  BY <1>4 DEF moduleVars, AdapterInv, NoClosedAdapter, FilterNetBufferNoMemory, pktVars
<1>5. ASSUME NEW t \in Threads,
               FilterNetBufferRelease(t)
      PROVE  AdapterInv'
  BY <1>5 DEF moduleVars, AdapterInv, NoClosedAdapter, FilterNetBufferRelease, callVars
<1>6. ASSUME NEW t \in Threads,
               HandlerReturn(t)
      PROVE  AdapterInv'
  BY <1>6 DEF moduleVars, AdapterInv, NoClosedAdapter, HandlerReturn, LeaveHandler, pktVars
<1>7. ASSUME NEW x \in Actors,
               FLTInjectRequest(x)
      PROVE  AdapterInv'
  BY <1>7 DEF moduleVars, AdapterInv, NoClosedAdapter, FLTInjectRequest, pktVars, callVars
<1>8. ASSUME NEW x \in Actors, NEW c \in Clients, NEW keep \in BOOLEAN,
               CallbackPass(x, c, keep)
      PROVE  AdapterInv'
  BY <1>8 DEF moduleVars, AdapterInv, NoClosedAdapter, CallbackPass, callVars
<1>9. ASSUME NEW x \in Actors, NEW c \in Clients, NEW keep \in BOOLEAN,
               CallbackStop(x, c, keep)
      PROVE  AdapterInv'
  BY <1>9 DEF moduleVars, AdapterInv, NoClosedAdapter, CallbackStop, callVars
<1>10. ASSUME NEW x \in Actors,
               WalkDone(x)
      PROVE  AdapterInv'
  BY <1>10 DEF moduleVars, AdapterInv, NoClosedAdapter, WalkDone, pktVars, callVars
<1>11. ASSUME NEW x \in Actors,
               SendPacketLookup(x)
      PROVE  AdapterInv'
  BY <1>11 DEF moduleVars, AdapterInv, NoClosedAdapter, SendPacketLookup, pktVars, callVars
<1>12. ASSUME NEW x \in Actors,
               SendPacketHandOff(x)
      PROVE  AdapterInv'
  BY <1>12 DEF moduleVars, AdapterInv, NoClosedAdapter, SendPacketHandOff, callVars
<1>13. ASSUME NEW c \in Clients,
               FLTRegisterCallbacks(c)
      PROVE  AdapterInv'
  BY <1>13
     DEF moduleVars, AdapterInv, NoClosedAdapter, FLTRegisterCallbacks, pktVars, callVars,
         actorVars
<1>14. ASSUME NEW c \in Clients,
               FLTDeregisterCallbacks(c)
      PROVE  AdapterInv'
  BY <1>14
     DEF moduleVars, AdapterInv, NoClosedAdapter, FLTDeregisterCallbacks, pktVars,
         callVars, actorVars
<1>15. ASSUME NEW c \in Clients, NEW p \in Packets,
               ClientFree(c, p)
      PROVE  AdapterInv'
  BY <1>15 DEF moduleVars, AdapterInv, NoClosedAdapter, ClientFree, callVars, actorVars
<1>16. ASSUME NEW c \in Clients, NEW p \in Packets,
               ClientInject(c, p)
      PROVE  AdapterInv'
  BY <1>16 DEF moduleVars, AdapterInv, NoClosedAdapter, ClientInject, pktVars, callVars
<1>17. ASSUME NEW p \in Packets,
               FLTFreeCloneRequest(p)
      PROVE  AdapterInv'
  BY <1>17
     DEF moduleVars, TypeOK, AdapterInv, NoClosedAdapter, FLTFreeCloneRequest, callVars,
         actorVars
<1>18. ASSUME NEW p \in Packets, NEW d \in {"out", "in"},
               Complete(p, d)
      PROVE  AdapterInv'
  BY <1>18 DEF moduleVars, AdapterInv, NoClosedAdapter, Complete, callVars, actorVars
<1>19. ASSUME NEW a \in Adapters,
               FilterAttach(a)
      PROVE  AdapterInv'
  BY <1>19
     DEF moduleVars, AdapterInv, NoClosedAdapter, FilterAttach, SetModule, callVars,
         actorVars
<1>20. ASSUME NEW a \in Adapters,
               FilterRestart(a)
      PROVE  AdapterInv'
  BY <1>20
     DEF moduleVars, AdapterInv, NoClosedAdapter, FilterRestart, SetModule, callVars,
         actorVars
<1>21. ASSUME NEW a \in Adapters,
               FilterPause(a)
      PROVE  AdapterInv'
  BY <1>21
     DEF moduleVars, AdapterInv, NoClosedAdapter, FilterPause, SetModule, callVars,
         actorVars
<1>22. ASSUME NEW a \in Adapters,
               CloseAdapter(a)
      PROVE  AdapterInv'
  BY <1>22
     DEF moduleVars, TypeOK, AdapterInv, NoClosedAdapter, CloseAdapter, SetModule,
         ClearAdapter, MayDetach, callVars, actorVars
<1>23. ASSUME NEW a \in Adapters,
               FilterDetach(a)
      PROVE  AdapterInv'
  BY <1>23
     DEF moduleVars, AdapterInv, NoClosedAdapter, FilterDetach, SetModule, callVars,
         actorVars
<1>24. CASE UNCHANGED vars
  BY <1>24 DEF moduleVars, AdapterInv, NoClosedAdapter, vars, pktVars, callVars, actorVars
<1>25. ASSUME NEW t \in Threads,
               TestFilterState(t)
      PROVE  AdapterInv'
  BY <1>25
     DEF moduleVars, TypeOK, ControlInv, RefInv, AdapterInv, NoClosedAdapter,
         TestFilterState, LeaveHandler, pktVars, callVars
<1>. QED
  BY <1>1, <1>2, <1>3, <1>4, <1>5, <1>6, <1>7, <1>8, <1>9, <1>10, <1>11, <1>12,
     <1>13, <1>14, <1>15, <1>16, <1>17, <1>18, <1>19, <1>20, <1>21, <1>22,
     <1>23, <1>24, <1>25
     DEF Next, ThreadNext, InjectNext, ClientNext, PacketNext, AdapterNext,
         FilterSendNetBufferLists, FilterReceiveNetBufferLists,
         FilterSendNetBufferListsComplete, FilterReturnNetBufferLists

\* A step leaves every packet with at most one carrier.
LEMMA FlightStep ==
    ASSUME TypeOK, ControlInv, RefInv, FlightInv, ApprovalInv, [Next]_vars
    PROVE  FlightInv'
<1>1. ASSUME NEW t \in Threads, NEW a \in Adapters,
               NEW d \in {"out", "in"}, NEW n \in 1..MaxNB,
               Enter(t, a, d, n)
      PROVE  FlightInv'
  BY <1>1 DEF FlightInv, Carries, Injecting, Enter, pktVars, listVars
<1>2. ASSUME NEW t \in Threads,
               IsInstancesListEmpty(t)
      PROVE  FlightInv'
  BY <1>2
     DEF FlightInv, Carries, Injecting, IsInstancesListEmpty, pktVars, listVars
<1>3. ASSUME NEW t \in Threads, NEW p \in Packets,
               FilterNetBuffer(t, p)
      PROVE  FlightInv'
  BY <1>3
     DEF TypeOK, ControlInv, RefInv, FlightInv, Carries, Holders,
         FilterNetBuffer, listVars
<1>4. ASSUME NEW t \in Threads,
               FilterNetBufferNoMemory(t)
      PROVE  FlightInv'
  BY <1>4 DEF FlightInv, Carries, FilterNetBufferNoMemory, pktVars, listVars
<1>5. ASSUME NEW t \in Threads,
               FilterNetBufferRelease(t)
      PROVE  FlightInv'
  BY <1>5, ConstantsAssumption
     DEF FlightInv, Carries, Injecting, FilterNetBufferRelease, listVars
<1>6. ASSUME NEW t \in Threads,
               HandlerReturn(t)
      PROVE  FlightInv'
  BY <1>6 DEF FlightInv, Carries, Injecting, HandlerReturn, pktVars, listVars
<1>7. ASSUME NEW x \in Actors,
               FLTInjectRequest(x)
      PROVE  FlightInv'
  BY <1>7
     DEF FlightInv, Carries, Injecting, FLTInjectRequest, pktVars, listVars
<1>8. ASSUME NEW x \in Actors, NEW c \in Clients, NEW keep \in BOOLEAN,
               CallbackPass(x, c, keep)
      PROVE  FlightInv'
  <2>1. UNCHANGED <<pc, cur, mayInject, ndis, inst, live>>
    BY <1>8 DEF CallbackPass, listVars
  <2>2. \A d \in Clients : held[d] \subseteq held'[d]
    <3>1. c \in Actors /\ Clients \subseteq Actors
          /\ held \in [Actors -> SUBSET Packets]
      BY DEF TypeOK, Actors
    <3>2. \/ UNCHANGED held
          \/ held' = [held EXCEPT ![c] = @ \cup {cur[x]}]
      BY <1>8 DEF CallbackPass
    <3>. QED
      BY <3>1, <3>2
  <2>. QED
    BY <2>1, <2>2 DEF FlightInv, Carries
<1>9. ASSUME NEW x \in Actors, NEW c \in Clients, NEW keep \in BOOLEAN,
               CallbackStop(x, c, keep)
      PROVE  FlightInv'
  <2>. PICK p \in Packets : p = cur[x] /\ p \in held[x] /\ p \in live
    BY <1>9, ConstantsAssumption
       DEF TypeOK, ControlInv, RefInv, Holders, Injecting, Actors, CallbackStop
  <2>1. /\ pc' = [pc EXCEPT ![x] = Return(x)]
        /\ Return(x) \notin Injecting
        /\ \A y \in Actors : y # x => cur'[y] = cur[y]
        /\ UNCHANGED <<ndis, inst, live>>
    BY <1>9 DEF TypeOK, CallbackStop, WalkStops, Return, Injecting, listVars
  <2>2. Carries(x, p) /\ ndis[p] = 0
    BY <1>9 DEF FlightInv, Carries, Injecting, CallbackStop
  <2>3. CASE ~keep
    <3>1. UNCHANGED <<held, mayInject>>
      BY <1>9, <2>3 DEF CallbackStop
    <3>2. \A y \in Actors, q \in Packets : Carries(y, q)' => Carries(y, q)
      <4>. SUFFICES ASSUME NEW y \in Actors, NEW q \in Packets, Carries(y, q)'
                    PROVE  Carries(y, q)
        OBVIOUS
      <4>1. CASE y = x
        BY <2>1, <3>1, <4>1 DEF TypeOK, Carries
      <4>2. CASE y # x
        BY <2>1, <3>1, <4>2 DEF TypeOK, Carries
      <4>. QED
        BY <4>1, <4>2
    <3>3. \A d \in Clients : pc'[d] \in Injecting => cur'[d] \notin mayInject'[d]
      BY <2>1, <3>1 DEF TypeOK, FlightInv, Actors
    <3>. QED
      BY <2>1, <3>1, <3>2, <3>3 DEF FlightInv
  <2>4. CASE keep
    <3>1. /\ p \notin held[c]
          /\ held' = [held EXCEPT ![c] = held[c] \cup {p}]
          /\ mayInject' = [mayInject EXCEPT ![c] = mayInject[c] \cup {p}]
          /\ c \in inst
      BY <1>9, <2>4 DEF CallbackStop, IsNext, ApprovalInv
    <3>2. c # x /\ c \in Actors
      BY <3>1 DEF Actors
    <3>3. \A d \in Clients : /\ mayInject'[d] \subseteq held'[d] \cap live'
                             /\ d \notin inst' => mayInject'[d] = {}
      BY <2>1, <3>1 DEF TypeOK, FlightInv, Actors
    <3>4. \A y \in Actors, q \in Packets :
            Carries(y, q)' => \/ y = c /\ q = p
                              \/ q # p /\ Carries(y, q)
      <4>. SUFFICES ASSUME NEW y \in Actors, NEW q \in Packets, Carries(y, q)'
                    PROVE  \/ y = c /\ q = p
                           \/ q # p /\ Carries(y, q)
        OBVIOUS
      <4>0. Carries(y, p) => y = x
        BY <2>2 DEF FlightInv
      <4>1. CASE y = x
        <5>1. x \in Clients /\ q \in mayInject[x]
          BY <2>1, <3>1, <3>2, <4>1 DEF TypeOK, Carries
        <5>2. pc[x] \in Injecting /\ cur[x] = p
          BY <1>9 DEF CallbackStop, Injecting
        <5>3. q # p
          BY <5>1, <5>2 DEF FlightInv
        <5>. QED
          BY <4>1, <5>1, <5>3 DEF Carries
      <4>2. CASE y = c
        <5>1. q # p => Carries(y, q)
          BY <2>1, <3>1, <3>2, <4>2 DEF TypeOK, Carries
        <5>. QED
          BY <4>2, <5>1
      <4>3. CASE y # x /\ y # c
        <5>1. Carries(y, q)
          BY <2>1, <3>1, <4>3 DEF TypeOK, Carries
        <5>. QED
          BY <4>0, <4>3, <5>1
      <4>. QED
        BY <4>1, <4>2, <4>3
    <3>5. \A d \in Clients : pc'[d] \in Injecting => cur'[d] \notin mayInject'[d]
      <4>1. cur[c] # p
        BY <3>1, <3>2, ConstantsAssumption DEF ControlInv, ConstantsAssumption
      <4>. QED
        BY <2>1, <3>1, <4>1 DEF TypeOK, FlightInv, Actors
    <3>6. /\ \A y, z \in Actors, q \in Packets :
               Carries(y, q)' /\ Carries(z, q)' => y = z
          /\ \A y \in Actors, q \in Packets : Carries(y, q)' => ndis'[q] = 0
      BY <2>1, <2>2, <3>4 DEF FlightInv
    <3>. QED
      BY <2>1, <3>3, <3>5, <3>6 DEF FlightInv, Carries
  <2>. QED
    BY <2>3, <2>4
<1>10. ASSUME NEW x \in Actors,
               WalkDone(x)
      PROVE  FlightInv'
  BY <1>10 DEF FlightInv, Carries, Injecting, WalkDone, pktVars, listVars
<1>11. ASSUME NEW x \in Actors,
               SendPacketLookup(x)
      PROVE  FlightInv'
  BY <1>11, ConstantsAssumption
     DEF TypeOK, FlightInv, Carries, Injecting, SendPacketLookup, pktVars,
         listVars
<1>12. ASSUME NEW x \in Actors,
               SendPacketHandOff(x)
      PROVE  FlightInv'
  BY <1>12
     DEF TypeOK, FlightInv, Carries, Injecting, SendPacketHandOff, Return,
         listVars
<1>13. ASSUME NEW c \in Clients,
               FLTRegisterCallbacks(c)
      PROVE  FlightInv'
  BY <1>13 DEF FlightInv, Carries, FLTRegisterCallbacks, pktVars, actorVars
<1>14. ASSUME NEW c \in Clients,
               FLTDeregisterCallbacks(c)
      PROVE  FlightInv'
  BY <1>14
     DEF TypeOK, FlightInv, Carries, FLTDeregisterCallbacks, pktVars, actorVars
<1>15. ASSUME NEW c \in Clients, NEW p \in Packets,
               ClientFree(c, p)
      PROVE  FlightInv'
  BY <1>15 DEF TypeOK, FlightInv, Carries, ClientFree, listVars, actorVars
<1>16. ASSUME NEW c \in Clients, NEW p \in Packets,
               ClientInject(c, p)
      PROVE  FlightInv'
  BY <1>16 DEF TypeOK, FlightInv, Carries, ClientInject, pktVars, listVars
<1>17. ASSUME NEW p \in Packets,
               FLTFreeCloneRequest(p)
      PROVE  FlightInv'
  <2>1. Holders(p) = {}
    BY <1>17, HoldersCount
       DEF TypeOK, RefInv, CountsExact, FLTFreeCloneRequest, Dying
  <2>2. live' = live \ {p} /\ UNCHANGED <<pc, cur, held, mayInject, ndis, inst>>
    BY <1>17 DEF FLTFreeCloneRequest, listVars, actorVars
  <2>. QED
    BY <2>1, <2>2 DEF FlightInv, Carries, Holders, Actors
<1>18. ASSUME NEW p \in Packets, NEW d \in {"out", "in"},
               Complete(p, d)
      PROVE  FlightInv'
  BY <1>18 DEF TypeOK, FlightInv, Carries, Complete, listVars, actorVars
<1>19. ASSUME NEW a \in Adapters,
               FilterAttach(a)
      PROVE  FlightInv'
  BY <1>19
     DEF FlightInv, Carries, FilterAttach, SetModule, listVars, actorVars
<1>20. ASSUME NEW a \in Adapters,
               FilterRestart(a)
      PROVE  FlightInv'
  BY <1>20
     DEF FlightInv, Carries, FilterRestart, SetModule, listVars, actorVars
<1>21. ASSUME NEW a \in Adapters,
               FilterPause(a)
      PROVE  FlightInv'
  BY <1>21
     DEF FlightInv, Carries, FilterPause, SetModule, listVars, actorVars
<1>22. ASSUME NEW a \in Adapters,
               CloseAdapter(a)
      PROVE  FlightInv'
  BY <1>22
     DEF FlightInv, Carries, CloseAdapter, SetModule, listVars, actorVars
<1>23. ASSUME NEW a \in Adapters,
               FilterDetach(a)
      PROVE  FlightInv'
  BY <1>23
     DEF FlightInv, Carries, FilterDetach, SetModule, listVars, actorVars
<1>24. CASE UNCHANGED vars
  BY <1>24 DEF FlightInv, Carries, vars, pktVars, listVars, actorVars
<1>25. ASSUME NEW t \in Threads,
               TestFilterState(t)
      PROVE  FlightInv'
  <2>1. UNCHANGED <<cur, mayInject, ndis, inst, held, live>>
    BY <1>25 DEF TestFilterState, pktVars, listVars
  <2>2. \A x \in Actors : pc'[x] \in Injecting <=> pc[x] \in Injecting
    BY <1>25 DEF TypeOK, Injecting, TestFilterState
  <2>3. \A x \in Actors, p \in Packets : Carries(x, p)' <=> Carries(x, p)
    BY <2>1, <2>2 DEF Carries
  <2>4. \A c \in Clients : pc'[c] \in Injecting <=> pc[c] \in Injecting
    BY <2>2 DEF Actors
  <2>. QED
    BY <2>1, <2>3, <2>4 DEF FlightInv
<1>. QED
  BY <1>1, <1>2, <1>3, <1>4, <1>5, <1>6, <1>7, <1>8, <1>9, <1>10, <1>11, <1>12,
     <1>13, <1>14, <1>15, <1>16, <1>17, <1>18, <1>19, <1>20, <1>21, <1>22,
     <1>23, <1>24, <1>25
     DEF Next, ThreadNext, InjectNext, ClientNext, PacketNext, AdapterNext,
         FilterSendNetBufferLists, FilterReceiveNetBufferLists,
         FilterSendNetBufferListsComplete, FilterReturnNetBufferLists

\* A step keeps the account of who has still to be asked.
LEMMA ApprovalStep ==
    ASSUME TypeOK, ControlInv, RefInv, FlightInv, ListInv, ApprovalInv, [Next]_vars
    PROVE  ApprovalInv'
<1>1. ASSUME NEW t \in Threads, NEW a \in Adapters,
               NEW d \in {"out", "in"}, NEW n \in 1..MaxNB,
               Enter(t, a, d, n)
      PROVE  ApprovalInv'
  BY <1>1
     DEF ApprovalInv, SentOnlyIfApproved, Actors, Enter, pktVars, listVars,
         histVars
<1>2. ASSUME NEW t \in Threads,
               IsInstancesListEmpty(t)
      PROVE  ApprovalInv'
  <2>1. UNCHANGED <<inst, below, live, ndis, cur, todo, mayInject, mustSee, approved>>
    BY <1>2 DEF IsInstancesListEmpty, pktVars, listVars, histVars
  <2>2. /\ \A x \in Actors : x # t => pc'[x] = pc[x]
        /\ pc[t] = "entry" /\ pc'[t] \in {"idle", "loop"}
    BY <1>2 DEF TypeOK, Actors, IsInstancesListEmpty
  <2>3. todo[t] = {}
    BY <2>2 DEF ApprovalInv, Actors
  <2>. QED
    BY <2>1, <2>2, <2>3 DEF ApprovalInv, SentOnlyIfApproved
<1>3. ASSUME NEW t \in Threads, NEW p \in Packets,
               FilterNetBuffer(t, p)
      PROVE  ApprovalInv'
  <2>1. /\ UNCHANGED <<inst, below, ndis, todo, mayInject, mustSee, approved>>
        /\ live' = live \cup {p} /\ p \notin live /\ pc[t] = "loop"
    BY <1>3 DEF FilterNetBuffer, listVars, histVars
  <2>2. /\ \A x \in Actors : x # t => pc'[x] = pc[x] /\ cur'[x] = cur[x]
        /\ pc'[t] = "inject" /\ cur'[t] = p
    BY <1>3 DEF TypeOK, Actors, FilterNetBuffer
  <2>3. mustSee[p] = {} /\ todo[t] = {}
    BY <2>1 DEF ApprovalInv, Actors
  <2>. QED
    BY <2>1, <2>2, <2>3 DEF ApprovalInv, SentOnlyIfApproved
<1>4. ASSUME NEW t \in Threads,
               FilterNetBufferNoMemory(t)
      PROVE  ApprovalInv'
  <2>1. UNCHANGED <<inst, below, live, ndis, pc, cur, todo, mayInject, mustSee, approved>>
    BY <1>4 DEF FilterNetBufferNoMemory, pktVars, listVars, histVars
  <2>. QED
    BY <2>1 DEF ApprovalInv, SentOnlyIfApproved
<1>5. ASSUME NEW t \in Threads,
               FilterNetBufferRelease(t)
      PROVE  ApprovalInv'
  <2>1. UNCHANGED <<inst, below, live, ndis, todo, mayInject, mustSee, approved>>
    BY <1>5 DEF FilterNetBufferRelease, listVars, histVars
  <2>2. /\ \A x \in Actors : x # t => pc'[x] = pc[x] /\ cur'[x] = cur[x]
        /\ pc[t] = "release" /\ pc'[t] = "loop"
    BY <1>5 DEF TypeOK, Actors, FilterNetBufferRelease
  <2>3. todo[t] = {}
    BY <2>2 DEF ApprovalInv, Actors
  <2>. QED
    BY <2>1, <2>2, <2>3 DEF ApprovalInv, SentOnlyIfApproved
<1>6. ASSUME NEW t \in Threads,
               HandlerReturn(t)
      PROVE  ApprovalInv'
  BY <1>6
     DEF RefInv, FlightInv, ApprovalInv, SentOnlyIfApproved, Injecting, Actors,
         HandlerReturn, pktVars, listVars, histVars
<1>7. ASSUME NEW x \in Actors,
               FLTInjectRequest(x)
      PROVE  ApprovalInv'
  BY <1>7
     DEF TypeOK, ControlInv, RefInv, FlightInv, ListInv, ApprovalInv,
         SentOnlyIfApproved, Carries, Holders, Injecting, Actors,
         FLTInjectRequest, WalkFrom, pktVars, listVars
<1>8. ASSUME NEW x \in Actors, NEW c \in Clients, NEW keep \in BOOLEAN,
               CallbackPass(x, c, keep)
      PROVE  ApprovalInv'
  <2>. DEFINE p == cur[x]
  <2>1. /\ UNCHANGED <<inst, below, live, ndis, pc, cur, mayInject, mustSee>>
        /\ approved' = [approved EXCEPT ![p] = approved[p] \cup {c}]
        /\ todo' = [todo EXCEPT ![x] = todo[x] \ {c}]
        /\ p \in Packets
    BY <1>8, ConstantsAssumption
       DEF TypeOK, ControlInv, Injecting, CallbackPass, listVars
  <2>2. /\ todo'[x] \subseteq todo[x]
        /\ \A d \in todo'[x] : below[d] \subseteq todo'[x]
    <3>1. \A d \in todo[x] \ {c} : d \in below[c] /\ c \notin below[d]
      BY <1>8 DEF TypeOK, ListInv, ApprovalInv, CallbackPass, IsNext
    <3>. QED
      BY <2>1, <3>1 DEF TypeOK, ApprovalInv
  <2>3. \A q \in Packets : approved[q] \subseteq approved'[q]
    BY <2>1 DEF TypeOK
  <2>4. \A y \in Actors : pc[y] \in Injecting => cur[y] \in Packets
    BY ConstantsAssumption DEF TypeOK, ControlInv, Injecting
  <2>5. SentOnlyIfApproved'
    BY <2>1, <2>3 DEF ApprovalInv, SentOnlyIfApproved
  <2>6. \A d \in Clients : \A q \in mayInject'[d] :
          mustSee'[q] \ approved'[q] \subseteq below'[d] \cup {d}
    BY <2>1, <2>3 DEF TypeOK, ApprovalInv
  <2>7. /\ pc[x] = "walk"
        /\ mustSee[p] \ approved'[p] \subseteq todo'[x]
    BY <1>8, <2>1 DEF TypeOK, ApprovalInv, CallbackPass
  <2>8. \A y \in Actors :
          /\ pc'[y] = "inject" =>
               mustSee'[cur'[y]] \ approved'[cur'[y]] \subseteq
                  IF y \in Clients THEN below'[y] ELSE {}
          /\ pc'[y] = "walk" =>
               mustSee'[cur'[y]] \ approved'[cur'[y]] \subseteq todo'[y]
          /\ pc'[y] \in {"send", "handoff"} =>
               mustSee'[cur'[y]] \subseteq approved'[cur'[y]]
    <3>. TAKE y \in Actors
    <3>1. CASE y = x
      BY <2>1, <2>7, <3>1 DEF TypeOK
    <3>2. CASE y # x
      BY <2>1, <2>3, <2>4, <3>2 DEF TypeOK, ApprovalInv, Injecting
    <3>. QED
      BY <3>1, <3>2
  <2>9. \A y \in Actors :
          /\ todo'[y] \subseteq inst'
          /\ pc'[y] # "walk" => todo'[y] = {}
          /\ \A d \in todo'[y] : below'[d] \subseteq todo'[y]
    <3>. TAKE y \in Actors
    <3>1. CASE y = x
      BY <2>1, <2>2, <2>7, <3>1 DEF TypeOK, ApprovalInv
    <3>2. CASE y # x
      BY <2>1, <3>2 DEF TypeOK, ApprovalInv
    <3>. QED
      BY <3>1, <3>2
  <2>. QED
    BY <2>1, <2>5, <2>6, <2>8, <2>9 DEF ApprovalInv
<1>9. ASSUME NEW x \in Actors, NEW c \in Clients, NEW keep \in BOOLEAN,
               CallbackStop(x, c, keep)
      PROVE  ApprovalInv'
  <2>. PICK p \in Packets : p = cur[x]
    BY <1>9, ConstantsAssumption
       DEF TypeOK, ControlInv, Injecting, CallbackStop
  <2>1. /\ UNCHANGED <<inst, below, live, ndis, mustSee, approved>>
        /\ todo' = [todo EXCEPT ![x] = {}]
        /\ \A y \in Actors : y # x => pc'[y] = pc[y] /\ cur'[y] = cur[y]
        /\ pc'[x] \in {"idle", "release"}
    BY <1>9 DEF TypeOK, CallbackStop, WalkStops, Return, listVars, histVars
  <2>2. mustSee[p] \ approved[p] \subseteq below[c] \cup {c}
    BY <1>9 DEF ApprovalInv, CallbackStop, IsNext
  <2>3. \A d \in Clients : mayInject'[d] \subseteq mayInject[d] \cup
                              (IF d = c THEN {p} ELSE {})
    BY <1>9 DEF TypeOK, CallbackStop
  <2>4. \A d \in Clients : \A q \in mayInject'[d] :
          mustSee'[q] \ approved'[q] \subseteq below'[d] \cup {d}
    BY <2>1, <2>2, <2>3 DEF ApprovalInv
  <2>5. SentOnlyIfApproved'
    BY <2>1 DEF ApprovalInv, SentOnlyIfApproved
  <2>. QED
    BY <2>1, <2>4, <2>5 DEF TypeOK, ApprovalInv
<1>10. ASSUME NEW x \in Actors,
               WalkDone(x)
      PROVE  ApprovalInv'
  BY <1>10
     DEF TypeOK, ControlInv, RefInv, ApprovalInv, SentOnlyIfApproved,
         Injecting, WalkDone, pktVars, listVars, histVars
<1>11. ASSUME NEW x \in Actors,
               SendPacketLookup(x)
      PROVE  ApprovalInv'
  <2>1. UNCHANGED <<inst, below, live, ndis, todo, mayInject, mustSee, approved>>
    BY <1>11 DEF SendPacketLookup, pktVars, listVars, histVars
  <2>2. /\ \A y \in Actors : y # x => pc'[y] = pc[y] /\ cur'[y] = cur[y]
        /\ pc[x] = "send" /\ pc'[x] \in {"handoff", "release", "idle"}
        /\ pc'[x] = "handoff" => cur'[x] = cur[x]
    BY <1>11 DEF TypeOK, SendPacketLookup, Return
  <2>. QED
    BY <2>1, <2>2 DEF ApprovalInv, SentOnlyIfApproved
<1>12. ASSUME NEW x \in Actors,
               SendPacketHandOff(x)
      PROVE  ApprovalInv'
  <2>1. /\ UNCHANGED <<inst, below, live, todo, mayInject, mustSee, approved>>
        /\ \A y \in Actors : y # x => pc'[y] = pc[y] /\ cur'[y] = cur[y]
        /\ pc'[x] \in {"release", "idle"} /\ todo[x] = {}
    <3>1. UNCHANGED <<inst, below, live, todo, mayInject, mustSee, approved>>
      BY <1>12 DEF SendPacketHandOff, listVars, histVars
    <3>2. /\ \A y \in Actors : y # x => pc'[y] = pc[y] /\ cur'[y] = cur[y]
          /\ pc[x] = "handoff" /\ pc'[x] \in {"release", "idle"}
      BY <1>12 DEF TypeOK, SendPacketHandOff, Return
    <3>3. todo[x] = {}
      BY <3>2 DEF ApprovalInv
    <3>. QED
      BY <3>1, <3>2, <3>3
  <2>2. /\ mustSee[cur[x]] \subseteq approved[cur[x]]
        /\ \A q \in Packets : q # cur[x] => ndis'[q] = ndis[q]
    BY <1>12 DEF TypeOK, ApprovalInv, SendPacketHandOff
  <2>3. SentOnlyIfApproved'
    BY <2>1, <2>2 DEF ApprovalInv, SentOnlyIfApproved
  <2>. QED
    BY <2>1, <2>3 DEF ApprovalInv
<1>13. ASSUME NEW c \in Clients,
               FLTRegisterCallbacks(c)
      PROVE  ApprovalInv'
  BY <1>13
     DEF ListInv, ApprovalInv, SentOnlyIfApproved, FLTRegisterCallbacks,
         pktVars, actorVars, histVars
<1>14. ASSUME NEW c \in Clients,
               FLTDeregisterCallbacks(c)
      PROVE  ApprovalInv'
  BY <1>14, ConstantsAssumption
     DEF TypeOK, ControlInv, ApprovalInv, SentOnlyIfApproved, Injecting,
         FLTDeregisterCallbacks, pktVars, actorVars
<1>15. ASSUME NEW c \in Clients, NEW p \in Packets,
               ClientFree(c, p)
      PROVE  ApprovalInv'
  <2>1. /\ UNCHANGED <<pc, cur, todo, inst, below, live, ndis, mustSee, approved>>
        /\ \A d \in Clients : mayInject'[d] \subseteq mayInject[d]
    BY <1>15 DEF TypeOK, ClientFree, listVars, actorVars, histVars
  <2>. QED
    BY <2>1 DEF ApprovalInv, SentOnlyIfApproved
<1>16. ASSUME NEW c \in Clients, NEW p \in Packets,
               ClientInject(c, p)
      PROVE  ApprovalInv'
  <2>1. /\ UNCHANGED <<inst, below, live, ndis, todo, mustSee>>
        /\ approved' = [approved EXCEPT ![p] = approved[p] \cup {c}]
        /\ pc' = [pc EXCEPT ![c] = "inject"]
        /\ cur' = [cur EXCEPT ![c] = p]
        /\ \A d \in Clients : mayInject'[d] \subseteq mayInject[d]
    BY <1>16 DEF TypeOK, ClientInject, pktVars, listVars
  <2>0. c \in Actors /\ pc[c] = "idle" /\ todo[c] = {}
    BY <1>16 DEF Actors, ApprovalInv, ClientInject
  <2>2. mustSee[p] \ approved'[p] \subseteq below[c]
    BY <1>16, <2>1 DEF TypeOK, ApprovalInv, ClientInject
  <2>3. \A q \in Packets : approved[q] \subseteq approved'[q]
    BY <2>1 DEF TypeOK
  <2>4. \A y \in Actors : pc[y] \in Injecting => cur[y] \in Packets
    BY ConstantsAssumption DEF TypeOK, ControlInv, Injecting
  <2>5. SentOnlyIfApproved'
    BY <2>1, <2>3 DEF ApprovalInv, SentOnlyIfApproved
  <2>6. \A d \in Clients : \A q \in mayInject'[d] :
          mustSee'[q] \ approved'[q] \subseteq below'[d] \cup {d}
    BY <2>1, <2>3 DEF TypeOK, ApprovalInv
  <2>7. \A y \in Actors :
          /\ pc'[y] = "inject" =>
               mustSee'[cur'[y]] \ approved'[cur'[y]] \subseteq
                  IF y \in Clients THEN below'[y] ELSE {}
          /\ pc'[y] = "walk" =>
               mustSee'[cur'[y]] \ approved'[cur'[y]] \subseteq todo'[y]
          /\ pc'[y] \in {"send", "handoff"} =>
               mustSee'[cur'[y]] \subseteq approved'[cur'[y]]
    <3>. TAKE y \in Actors
    <3>1. CASE y = c
      BY <2>0, <2>1, <2>2, <3>1 DEF TypeOK
    <3>2. CASE y # c
      BY <2>1, <2>3, <2>4, <3>2 DEF TypeOK, ApprovalInv, Injecting
    <3>. QED
      BY <3>1, <3>2
  <2>. QED
    BY <2>0, <2>1, <2>5, <2>6, <2>7 DEF TypeOK, ApprovalInv
<1>17. ASSUME NEW p \in Packets,
               FLTFreeCloneRequest(p)
      PROVE  ApprovalInv'
  BY <1>17
     DEF TypeOK, ControlInv, ApprovalInv, SentOnlyIfApproved, Injecting,
         FLTFreeCloneRequest, listVars, actorVars
<1>18. ASSUME NEW p \in Packets, NEW d \in {"out", "in"},
               Complete(p, d)
      PROVE  ApprovalInv'
  BY <1>18
     DEF ListInv, ApprovalInv, SentOnlyIfApproved, Complete, listVars,
         actorVars, histVars
<1>19. ASSUME NEW a \in Adapters,
               FilterAttach(a)
      PROVE  ApprovalInv'
  BY <1>19
     DEF ApprovalInv, SentOnlyIfApproved, FilterAttach, SetModule,
         listVars, actorVars, histVars
<1>20. ASSUME NEW a \in Adapters,
               FilterRestart(a)
      PROVE  ApprovalInv'
  BY <1>20
     DEF ApprovalInv, SentOnlyIfApproved, FilterRestart, SetModule,
         listVars, actorVars, histVars
<1>21. ASSUME NEW a \in Adapters,
               FilterPause(a)
      PROVE  ApprovalInv'
  BY <1>21
     DEF ApprovalInv, SentOnlyIfApproved, FilterPause, SetModule,
         listVars, actorVars, histVars
<1>22. ASSUME NEW a \in Adapters,
               CloseAdapter(a)
      PROVE  ApprovalInv'
  BY <1>22
     DEF ListInv, ApprovalInv, SentOnlyIfApproved, CloseAdapter,
         SetModule, listVars, actorVars, histVars
<1>23. ASSUME NEW a \in Adapters,
               FilterDetach(a)
      PROVE  ApprovalInv'
  BY <1>23
     DEF ApprovalInv, SentOnlyIfApproved, FilterDetach, SetModule,
         listVars, actorVars, histVars
<1>24. CASE UNCHANGED vars
  BY <1>24
     DEF ApprovalInv, SentOnlyIfApproved, vars, pktVars, listVars, actorVars,
         histVars
<1>25. ASSUME NEW t \in Threads,
               TestFilterState(t)
      PROVE  ApprovalInv'
  <2>1. UNCHANGED <<inst, below, live, ndis, cur, todo, mayInject, mustSee, approved>>
    BY <1>25 DEF TestFilterState, pktVars, listVars, histVars
  <2>2. /\ \A x \in Actors : x # t => pc'[x] = pc[x]
        /\ pc[t] = "test" /\ pc'[t] \in {"idle", "entry"}
    BY <1>25 DEF TypeOK, Actors, TestFilterState
  <2>3. todo[t] = {}
    BY <2>2 DEF ApprovalInv, Actors
  <2>. QED
    BY <2>1, <2>2, <2>3 DEF ApprovalInv, SentOnlyIfApproved
<1>. QED
  BY <1>1, <1>2, <1>3, <1>4, <1>5, <1>6, <1>7, <1>8, <1>9, <1>10, <1>11, <1>12,
     <1>13, <1>14, <1>15, <1>16, <1>17, <1>18, <1>19, <1>20, <1>21, <1>22,
     <1>23, <1>24, <1>25
     DEF Next, ThreadNext, InjectNext, ClientNext, PacketNext, AdapterNext,
         FilterSendNetBufferLists, FilterReceiveNetBufferLists,
         FilterSendNetBufferListsComplete, FilterReturnNetBufferLists

-----------------------------------------------------------------------------
\* The driver starts with nothing allocated and nobody inside it.
LEMMA InitInv == Init => IndInv
<1>. SUFFICES ASSUME Init PROVE IndInv
  OBVIOUS
<1>1. TypeOK
  BY ConstantsAssumption DEF Init, TypeOK, Actors
<1>2. ControlInv
  BY ConstantsAssumption DEF Init, ControlInv, Injecting, Actors
<1>3. RefInv
  BY DEF Init, RefInv, CountsExact, Holders, Actors
<1>4. FlightInv
  BY DEF Init, FlightInv, Carries, Injecting, Actors
<1>5. ListInv
  BY DEF Init, ListInv
<1>6. ApprovalInv
  BY DEF Init, ApprovalInv, SentOnlyIfApproved, Actors
<1>7. AdapterInv
  BY DEF Init, AdapterInv, NoClosedAdapter
<1>. QED
  BY <1>1, <1>2, <1>3, <1>4, <1>5, <1>6, <1>7 DEF IndInv

\* Every step of the filter keeps the inductive invariant.
LEMMA StepInv == IndInv /\ [Next]_vars => IndInv'
<1>. SUFFICES ASSUME IndInv, [Next]_vars PROVE IndInv'
  OBVIOUS
<1>1. /\ TypeOK /\ ControlInv /\ RefInv /\ FlightInv
      /\ ListInv /\ ApprovalInv /\ AdapterInv
  BY DEF IndInv
<1>2. TypeOK' /\ ControlInv' /\ RefInv'
  BY <1>1, TypeStep, ControlStep, RefStep
<1>3. ListInv' /\ AdapterInv'
  BY <1>1, ListStep, AdapterStep
<1>4. FlightInv' /\ ApprovalInv'
  BY <1>1, FlightStep, ApprovalStep
<1>. QED
  BY <1>2, <1>3, <1>4 DEF IndInv

\* The inductive invariant holds in every reachable state.
THEOREM Invariance == Spec => []IndInv
  BY InitInv, StepInv, PTL DEF Spec

\* Every variable keeps its type; in particular m_References never goes below
\* zero (ansfltr/callbacks.c:156).
THEOREM TypeCorrect == Spec => []TypeOK
<1>1. IndInv => TypeOK
  BY DEF IndInv
<1>. QED
  BY <1>1, Invariance, PTL

\* m_References always is the number of references there are on a packet
\* (ansfltr/callbacks.c:139-164).
THEOREM ReferencesAreExact == Spec => []RefsExact
<1>1. IndInv => RefsExact
  BY DEF IndInv, RefInv, RefsExact
<1>. QED
  BY <1>1, Invariance, PTL

\* Nobody ever works on, keeps, or has handed to NDIS a packet whose memory
\* was given back (ansfltr/callbacks.c:156-163, ansfltr/vista/filter.c:462-465).
THEOREM NothingDangles == Spec => []NoDangling
<1>1. IndInv => NoDangling
  BY DEF IndInv, RefInv, ControlInv, NoDangling
<1>. QED
  BY <1>1, Invariance, PTL

\* What goes to the network has been let pass by every client that was there
\* when it was first shown and still is (README.md:23-26).
THEOREM NothingSentUnseen == Spec => []SentOnlyIfApproved
<1>1. IndInv => SentOnlyIfApproved
  BY DEF IndInv, ApprovalInv
<1>. QED
  BY <1>1, Invariance, PTL

\* NDIS never gets a net buffer list that it already owns
\* (ansfltr/vista/filter.c:751-779).
THEOREM OneFlightAtATime == Spec => []SingleFlight
<1>1. IndInv => SingleFlight
  BY DEF IndInv, FlightInv, SingleFlight
<1>. QED
  BY <1>1, Invariance, PTL

\* No packet names an adapter that has been closed
\* (ansfltr/callbacks.c:190-202).
THEOREM NoPacketOfAClosedAdapter == Spec => []NoClosedAdapter
<1>1. IndInv => NoClosedAdapter
  BY DEF IndInv, AdapterInv
<1>. QED
  BY <1>1, Invariance, PTL
=============================================================================
