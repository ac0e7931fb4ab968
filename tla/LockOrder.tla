----------------------------- MODULE LockOrder -----------------------------
(***************************************************************************)
(* The spin locks that ansfw.sys and ansfltr.sys take in each other's      *)
(* calls.  ansfltr calls ansfw's RequestCallback with g_FltInstancesLock   *)
(* held; ansfw calls FLTInjectRequest, which takes that lock, from the     *)
(* assembler and from its clients' threads.                                *)
(*                                                                         *)
(* A path is the sequence of locks that one call takes and drops.  Data    *)
(* only choose the path; every path stands for one way through the code.   *)
(***************************************************************************)
EXTENDS SequencesExt

CONSTANTS
    Receivers,   \* threads NDIS calls the filter in
    Clients,     \* threads of ansfw's clients
    Assembler,   \* IntermedThreadFunc
    Clock,       \* TtlDecrementThreadFunc
    Calls,       \* the paths that occur
    NULL

Threads == Receivers \cup Clients \cup {Assembler, Clock}

Locks == {"Flt",        \* g_FltInstancesLock   ansfltr/callbacks.c
          "Packet",     \* g_PacketLock         ansfltr/callbacks.c
          "Fw",         \* g_FwInstancesLock    ansfw/callbacks.c
          "Addresses",  \* g_NetAddressesLock   ansfw/ipmon.c
          "Connections",\* g_ConnectionsLock    ansfw/vista/connections.c
          "Queue",      \* g_slIntermedQueueLock
          "Datagrams",  \* g_slDatagrQueueLock
          "Buffers"}    \* g_FreeDatagramWorkBufListLock

Take(l)   == << <<"take", l>> >>
Drop(l)   == << <<"drop", l>> >>
Within(l, path) == Take(l) \o path \o Drop(l)
Brief(l)  == Within(l, << >>)

\* RequestCallback up to where fragments part: IsClientConnected,
\* InitPacketHeaders (IsLocalAddress), GetPacketPid.
Examine == Brief("Fw") \o Brief("Addresses") \o Brief("Connections")

\* FLTInjectRequest by ansfw: the instances behind its own, then SendPacket.
FLTInjectRequest == Brief("Flt") \o Brief("Packet")

\* Mutant: the list of clients stays locked while a request is passed on.
InjectLocked == Within("Fw", FLTInjectRequest)

\* FWInjectRequest: ProcessRequest, then ansfltr.
FWInjectRequest == Brief("Fw") \o FLTInjectRequest

\* What IntermedThreadFunc does with a fragment, under its queue's lock: copy
\* it, deliver a complete datagram and free it (FLTFreeCloneRequest of its
\* fragments, ruleRecycleDatagramWorkBuffer).
Copy    == Within("Datagrams", Brief("Buffers"))
Deliver == Within("Datagrams", FWInjectRequest \o Brief("Packet")
                                 \o Brief("Buffers"))

Path == [
    receive  |-> Within("Flt", Examine \o Brief("Fw")) \o Brief("Packet"),
    fragment |-> Within("Flt", Examine \o Brief("Queue")),
    copy     |-> Within("Queue", Copy),
    deliver  |-> Within("Queue", Deliver),
    expire   |-> Within("Datagrams", Brief("Packet") \o Brief("Buffers")),
    inject   |-> FWInjectRequest,
    free     |-> Brief("Packet") \o Brief("Buffers"),
    register |-> Brief("Fw")]

\* Who makes which call.
Made(t) ==
    CASE t \in Receivers -> Calls \cap {"receive", "fragment"}
      [] t = Assembler   -> Calls \cap {"copy", "deliver"}
      [] t = Clock       -> Calls \cap {"expire"}
      [] OTHER           -> Calls \cap {"inject", "free", "register"}

ASSUME ConstantsAssumption ==
    /\ Calls \subseteq DOMAIN Path
    /\ NULL \notin Threads
    /\ Receivers \cap Clients = {} /\ Assembler # Clock
    /\ {Assembler, Clock} \cap (Receivers \cup Clients) = {}

VARIABLES
    todo,   \* what is left of a thread's call
    owner   \* the owner of a lock, or NULL

vars == <<todo, owner>>

Init ==
    /\ todo = [t \in Threads |-> << >>]
    /\ owner = [l \in Locks |-> NULL]

Call(t) ==
    /\ todo[t] = << >>
    /\ \E c \in Made(t) : todo' = [todo EXCEPT ![t] = Path[c]]
    /\ UNCHANGED owner

\* KeAcquireSpinLock spins until the lock is free.
Acquire(t) ==
    /\ todo[t] # << >>
    /\ LET l == Head(todo[t])[2]
       IN  /\ Head(todo[t])[1] = "take"
           /\ owner[l] = NULL
           /\ owner' = [owner EXCEPT ![l] = t]
    /\ todo' = [todo EXCEPT ![t] = Tail(@)]

Release(t) ==
    /\ todo[t] # << >>
    /\ Head(todo[t])[1] = "drop"
    /\ owner' = [owner EXCEPT ![Head(todo[t])[2]] = NULL]
    /\ todo' = [todo EXCEPT ![t] = Tail(@)]

Next == \E t \in Threads : Call(t) \/ Acquire(t) \/ Release(t)

Spec == Init /\ [][Next]_vars

\* A thread that spins gets a lock that is free again and again in the end.
Fairness == \A t \in Threads : SF_vars(Acquire(t)) /\ WF_vars(Release(t))

FairSpec == Spec /\ Fairness

\* Every call returns, so that the drivers go back to wait for the next packet
\* (README.md:36, 40, 42, 45: "Returning to step 1").
CallsReturn == \A t \in Threads : todo[t] # << >> ~> todo[t] = << >>
=============================================================================
