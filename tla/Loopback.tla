------------------------------ MODULE Loopback ------------------------------
(***************************************************************************)
(* A loopback packet on Windows Vista: the callout of ansfw/vista/wfp.c    *)
(* absorbs it and shows a request for a clone of it to the clients         *)
(* (ansfw/callbacks.c); who may let it pass injects the clone, which the   *)
(* Windows Filtering Platform frees when it is done with it.               *)
(*                                                                         *)
(* No lock guards a request once the walk over the clients has ended, so   *)
(* the test of m_pNetBufferList, the hand-over of the clone and the        *)
(* clearing of m_pNetBufferList are steps of their own.                    *)
(*                                                                         *)
(* One packet is followed at a time: packets have nothing in common but    *)
(* the list of clients.                                                    *)
(***************************************************************************)
EXTENDS Naturals, FwClients

\* Those who inject: the callout, in OutboundTransportV4Classify, and clients.
Callout == "callout"
Actors  == Clients \cup {Callout}

ASSUME CalloutAssumption == Callout \notin Clients

VARIABLES
    refs,       \* m_References of the request
    ptr,        \* whether m_pNetBufferList is set
    clone,      \* whose the clone of the packet is
    held,       \* the clients that have kept the request
    mayInject,  \* those of them that have stopped it
    at,         \* where an actor is in its call
    rivals,     \* history: two may inject, since a client kept the request
                \* and answered STATUS_PENDING
    misused     \* history: a clone was handed over or freed that was not the
                \* driver's any more, or NULL was

request == <<refs, ptr, clone, held, mayInject, at, rivals, misused>>
packet  == <<request, fwList>>

PacketTypeOK ==
    /\ refs \in Nat
    /\ ptr \in BOOLEAN
    /\ clone \in {"none", "driver", "wfp", "freed"}
    /\ held \subseteq Clients /\ mayInject \subseteq Clients
    /\ at \in [Actors -> {"idle", "ask", "check", "send", "clear", "free"}]
    /\ rivals \in BOOLEAN /\ misused \in BOOLEAN
    /\ Registered \subseteq Clients

PacketInit ==
    /\ refs = 0 /\ ptr = FALSE /\ clone = "none"
    /\ held = {} /\ mayInject = {}
    /\ at = [a \in Actors |-> "idle"]
    /\ rivals = FALSE /\ misused = FALSE
    /\ fwList = << >>

\* A packet to a local address that this driver has not injected: a request for
\* a clone of it.  Without memory it is let go.
OutboundTransportV4Classify ==
    /\ refs = 0 /\ clone \in {"none", "freed"}
    /\ refs' = 1 /\ ptr' = TRUE /\ clone' = "driver"
    /\ at' = [at EXCEPT ![Callout] = "ask"]
    /\ rivals' = FALSE /\ misused' = FALSE
    /\ UNCHANGED <<held, mayInject, fwList>>

\* What an actor does when FWInjectRequest returns.
Rest(a) == IF a = Callout THEN "free" ELSE "idle"

\* FWInjectRequest by actor a shows the request to the instances clients, and
\* goes on to inject it if they let it pass.  Who may inject it later, besides
\* those in may, is who stopped it and kept it.
FWInjectRequest(a, clients, may) ==
    \E o \in ProcessRequest(clients) :
        /\ held' = held \cup o.kept
        /\ refs' = refs + Cardinality(o.kept)
        /\ mayInject' = may \cup (o.kept \cap o.stopper)
        /\ at' = [at EXCEPT ![a] = IF NT_SUCCESS(o.answer) THEN "check" ELSE Rest(a)]
        /\ rivals' = (rivals \/ (NT_SUCCESS(o.answer) /\ o.kept \cap o.stopper # {}))

ClassifyInject ==
    /\ at[Callout] = "ask"
    /\ FWInjectRequest(Callout, fwList, mayInject)
    /\ UNCHANGED <<ptr, clone, misused, fwList>>

ClientInject(c) ==
    /\ c \in mayInject /\ at[c] = "idle"
    /\ FWInjectRequest(c, Behind(c), mayInject \ {c})
    /\ UNCHANGED <<ptr, clone, misused, fwList>>

\* InjectLoopbackRequest: the test, ...
InjectCheck(a) ==
    /\ at[a] = "check"
    /\ at' = [at EXCEPT ![a] = IF ptr THEN "send" ELSE Rest(a)]
    /\ UNCHANGED <<refs, ptr, clone, held, mayInject, rivals, misused, fwList>>

\* ... FwpsInjectTransportSendAsync0 with what m_pNetBufferList is now, which
\* needs an injection handle and can fail all the same, ...
InjectSend(a, handle) ==
    /\ at[a] = "send"
    /\ \/ /\ handle
          /\ clone' = "wfp"
          /\ misused' = (misused \/ ~ptr \/ clone # "driver")
          /\ at' = [at EXCEPT ![a] = "clear"]
       \/ /\ at' = [at EXCEPT ![a] = Rest(a)]
          /\ UNCHANGED <<clone, misused>>
    /\ UNCHANGED <<refs, ptr, held, mayInject, rivals, fwList>>

\* Mutant: what was handed over is not forgotten.
ClearNothing(a) ==
    /\ at[a] = "clear"
    /\ at' = [at EXCEPT ![a] = Rest(a)]
    /\ UNCHANGED <<refs, ptr, clone, held, mayInject, rivals, misused, fwList>>

\* ... and m_pNetBufferList is cleared.
InjectClear(a) ==
    /\ at[a] = "clear"
    /\ ptr' = FALSE
    /\ at' = [at EXCEPT ![a] = Rest(a)]
    /\ UNCHANGED <<refs, clone, held, mayInject, rivals, misused, fwList>>

\* OutboundTransportV4Completion.
OutboundTransportV4Completion ==
    /\ clone = "wfp" /\ clone' = "freed"
    /\ UNCHANGED <<refs, ptr, held, mayInject, at, rivals, misused, fwList>>

\* The last reference takes the clone with it that was not handed over
\* (FreeLoopbackRequest).
FWFreeCloneRequest ==
    /\ refs' = refs - 1
    /\ IF refs = 1 /\ ptr
       THEN /\ ptr' = FALSE /\ clone' = "freed"
            /\ misused' = (misused \/ clone # "driver")
       ELSE UNCHANGED <<ptr, clone, misused>>

ClassifyFree ==
    /\ at[Callout] = "free"
    /\ FWFreeCloneRequest
    /\ at' = [at EXCEPT ![Callout] = "idle"]
    /\ UNCHANGED <<held, mayInject, rivals, fwList>>

ClientFree(c) ==
    /\ c \in held /\ at[c] = "idle"
    /\ FWFreeCloneRequest
    /\ held' = held \ {c} /\ mayInject' = mayInject \ {c}
    /\ UNCHANGED <<at, rivals, fwList>>

ClientRegisters(c) == FWRegisterRequestCallback(c) /\ UNCHANGED request

\* A client deregisters when it has freed its clones.
ClientDeregisters(c) ==
    /\ c \notin held
    /\ FWDeregisterRequestCallback(c)
    /\ UNCHANGED request

\* Whatever happens to a packet that has been absorbed.
PacketNext(handle) ==
    \/ ClassifyInject \/ ClassifyFree \/ OutboundTransportV4Completion
    \/ \E a \in Actors : InjectCheck(a) \/ InjectSend(a, handle) \/ InjectClear(a)
    \/ \E c \in Clients :
         ClientInject(c) \/ ClientFree(c) \/ ClientRegisters(c) \/ ClientDeregisters(c)

-----------------------------------------------------------------------------
(* Properties *)

\* The references of a request are counted exactly, however many clients keep
\* it.  The clone of the packet is handed over or freed once, by one of those who
\* hold the request, in whatever order they and the completion come, and is not
\* forgotten with the request: as long as it is the driver's there is
\* a request that names it, and the request names no other's but between the
\* hand-over and the clearing.  All but the counts is lost with a client that
\* keeps the request and answers STATUS_PENDING, which lets it pass and lets the
\* client inject it again (ansfw/vista/wfp.c:756-764, 799-843,
\* ansfw/callbacks.c:304-309, 348-370).
ClonesOwned ==
    /\ refs = Cardinality(held) + (IF at[Callout] = "idle" THEN 0 ELSE 1)
    /\ ~rivals =>
         /\ ~misused
         /\ clone = "driver" => refs > 0 /\ ptr
         /\ ptr => clone = "driver" \/ \E a \in Actors : at[a] = "clear"
=============================================================================
