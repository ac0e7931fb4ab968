------------------------------ MODULE ImPower ------------------------------
(***************************************************************************)
(* Requests and power states of one adapter of the NDIS 5 intermediate     *)
(* driver (ansfltr/nt).  NDIS asks its miniport edge one request at a time *)
(* (MPQueryInformation, MPSetInformation); the driver forwards it to the   *)
(* device below, keeps it in pAdapt->Request while that device sleeps, or  *)
(* fails it.  PnP calls tell it that the device below changes its power    *)
(* state (PtPnPNetEventSetPower) or goes away (PtUnbindAdapter).           *)
(*                                                                         *)
(* Three threads work on the adapter: the one that asks, the one that      *)
(* brings PnP events, one at a time, and the completions of the device     *)
(* below.  D3 stands for every state above NdisDeviceStateD0.  The adapter *)
(* is initialized; what PtUnbindAdapter does after it has failed a queued  *)
(* request is not part of this module, nor are sends and media status.     *)
(***************************************************************************)
CONSTANT NULL

\* Requests: OID_PNP_CAPABILITIES, and the others that are forwarded.
Kinds == {"capabilities", "other"}

States  == {"D0", "D3"}
Threads == {"requester", "pnp", "completer"}

VARIABLES
    MPDeviceState,          \* power state of the miniport edge
    PTDeviceState,          \* power state of the device below, as we know it
    StandingBy,
    QueuedRequest,          \* pAdapt->Request waits for the device below
    OutstandingRequests,    \* pAdapt->Request is with the device below
    UnbindingInProcess,
    req,        \* what NDIS waits for: "none", "asked"; "astray": an answer
                \* that nobody waits for
    kind,       \* the request's kind
    success,    \* its status is NDIS_STATUS_SUCCESS
    below,      \* the thread that will bring its completion, or NULL
    at,         \* where each thread is
    prev,       \* PrevDeviceState of PtPnPNetEventSetPower
    target,     \* *pDeviceState of the last PtPnPNetEventSetPower
    raced       \* history: capabilities were completed with PTDeviceState
                \* above D0

flags   == <<StandingBy, QueuedRequest, OutstandingRequests,
             UnbindingInProcess>>
power   == <<MPDeviceState, PTDeviceState>>
request == <<req, kind, success, below>>
event   == <<prev, target>>
vars    == <<flags, power, request, at, event, raced>>

TypeOK ==
    /\ MPDeviceState \in States /\ PTDeviceState \in States
    /\ StandingBy \in BOOLEAN /\ QueuedRequest \in BOOLEAN
    /\ OutstandingRequests \in BOOLEAN /\ UnbindingInProcess \in BOOLEAN
    /\ req \in {"none", "asked", "astray"}
    /\ kind \in Kinds \cup {NULL}
    /\ success \in BOOLEAN
    /\ below \in Threads \cup {NULL}
    /\ at \in [Threads -> {"idle", "check", "lock", "drain", "fail", "send",
                           "wait", "clear", "caps", "answer"}]
    /\ prev \in States \cup {NULL} /\ target \in States
    /\ at["pnp"] \in {"lock", "drain", "fail"} => prev \in States
    /\ raced \in BOOLEAN

\* The adapter as MPInitialize leaves it.
Init ==
    /\ MPDeviceState = "D0" /\ PTDeviceState = "D0"
    /\ StandingBy = FALSE /\ QueuedRequest = FALSE
    /\ OutstandingRequests = FALSE /\ UnbindingInProcess = FALSE
    /\ req = "none" /\ kind = NULL /\ success = FALSE /\ below = NULL
    /\ at = [x \in Threads |-> "idle"]
    /\ prev = NULL /\ target = "D0"
    /\ raced = FALSE

Go(x, place) == at' = [at EXCEPT ![x] = place]

-----------------------------------------------------------------------------
(* The miniport edge.  NDIS makes one request at a time, OID_PNP_SET_POWER *)
(* among them.                                                             *)

Ask(k) ==
    /\ req = "none" /\ at["requester"] = "idle"
    /\ req' = "asked" /\ kind' = k
    /\ success' = FALSE
    /\ Go("requester", "check")
    /\ UNCHANGED <<flags, power, below, event, raced>>

\* Below MPQueryInformation's and MPSetInformation's first test of
\* UnbindingInProcess, MPDeviceState fails requests; only requests change it.
CheckPower ==
    /\ at["requester"] = "check"
    /\ Go("requester", IF UnbindingInProcess \/ MPDeviceState # "D0"
                       THEN "answer" ELSE "lock")
    /\ UNCHANGED <<flags, power, request, event, raced>>

\* Under pAdapt->Lock the request is failed, ...
FailRequest ==
    /\ at["requester"] = "lock"
    /\ UnbindingInProcess \/ StandingBy
    /\ Go("requester", "answer")
    /\ UNCHANGED <<flags, power, request, event, raced>>

\* Mutant: UnbindingInProcess is not looked at again under the lock.
QueueUnbound ==
    /\ at["requester"] = "lock"
    /\ ~StandingBy
    /\ PTDeviceState # "D0"
    /\ QueuedRequest' = TRUE
    /\ Go("requester", "idle")
    /\ UNCHANGED <<StandingBy, OutstandingRequests, UnbindingInProcess, power,
                   request, event, raced>>

\* ... kept until the device below is up again, ...
QueueRequest ==
    /\ at["requester"] = "lock"
    /\ ~UnbindingInProcess /\ ~StandingBy
    /\ PTDeviceState # "D0"
    /\ QueuedRequest' = TRUE
    /\ Go("requester", "idle")
    /\ UNCHANGED <<StandingBy, OutstandingRequests, UnbindingInProcess, power,
                   request, event, raced>>

\* ... or marked as outstanding, to be sent when the lock is dropped.
ForwardRequest ==
    /\ at["requester"] = "lock"
    /\ ~UnbindingInProcess /\ ~StandingBy
    /\ PTDeviceState = "D0"
    /\ OutstandingRequests' = TRUE
    /\ Go("requester", "send")
    /\ UNCHANGED <<StandingBy, QueuedRequest, UnbindingInProcess, power,
                   request, event, raced>>

\* OID_PNP_SET_POWER.  A sleeping miniport can only be woken up.
MPProcessSetPowerOid(s) ==
    /\ req = "none" /\ at["requester"] = "idle"
    /\ MPDeviceState = "D0" \/ s = "D0"
    /\ StandingBy' = IF s # MPDeviceState THEN s # "D0" ELSE StandingBy
    /\ MPDeviceState' = s
    /\ UNCHANGED <<QueuedRequest, OutstandingRequests, UnbindingInProcess,
                   PTDeviceState, request, at, event, raced>>

-----------------------------------------------------------------------------
(* The device below.  NdisRequest completes at once, in the calling        *)
(* thread, or later, in a thread of its own.                               *)

NdisRequest(x) ==
    /\ at[x] = "send"
    /\ \/ below' = x /\ Go(x, "wait")
       \/ below' = "completer" /\ Go(x, "idle")
    /\ UNCHANGED <<flags, power, req, kind, success, event, raced>>

Completed(x, ok) ==
    /\ below = x
    /\ at[x] \in {"idle", "wait"}
    /\ below' = NULL
    /\ success' = ok
    /\ Go(x, "clear")
    /\ UNCHANGED <<flags, power, req, kind, event, raced>>

\* PtRequestComplete, and the end of MPSetInformation for a request that was
\* completed at once.
PtRequestComplete(x) ==
    /\ at[x] = "clear"
    /\ OutstandingRequests' = FALSE
    /\ Go(x, IF kind = "capabilities" /\ success THEN "caps" ELSE "answer")
    /\ UNCHANGED <<StandingBy, QueuedRequest, UnbindingInProcess, power,
                   request, event, raced>>

\* "Default, device is ON".
MPQueryPNPCapabilities(x) ==
    /\ at[x] = "caps"
    /\ MPDeviceState' = "D0"
    /\ PTDeviceState' = "D0"
    /\ raced' = (raced \/ PTDeviceState # "D0")
    /\ Go(x, "answer")
    /\ UNCHANGED <<flags, request, event>>

\* NdisMQueryInformationComplete, NdisMSetInformationComplete, or a status
\* other than NDIS_STATUS_PENDING that is returned.
Answer(x) ==
    /\ at[x] = "answer"
    /\ req' = IF req = "asked" THEN "none" ELSE "astray"
    /\ kind' = NULL
    /\ Go(x, "idle")
    /\ UNCHANGED <<flags, power, success, below, event, raced>>

-----------------------------------------------------------------------------
(* PnP events of the binding, one at a time.                               *)

\* NDIS powers the device below up only when it is down; a change from one
\* low power state to another is a step from D3 to D3.
\* PtPnPNetEventSetPower reads the previous state before it takes the lock.
SetPowerEvent(s) ==
    /\ at["pnp"] = "idle"
    /\ ~UnbindingInProcess
    /\ s = "D0" => target # "D0"
    /\ prev' = PTDeviceState
    /\ target' = s
    /\ Go("pnp", "lock")
    /\ UNCHANGED <<flags, power, request, raced>>

PowerDown ==
    /\ at["pnp"] = "lock" /\ target # "D0"
    /\ PTDeviceState' = target
    /\ StandingBy' = (StandingBy \/ prev = "D0")
    /\ Go("pnp", "drain")
    /\ UNCHANGED <<QueuedRequest, OutstandingRequests, UnbindingInProcess,
                   MPDeviceState, request, event, raced>>

\* Mutant: nobody waits.
DrainNothing ==
    /\ at["pnp"] = "drain"
    /\ Go("pnp", "fail")
    /\ UNCHANGED <<flags, power, request, event, raced>>

\* "Wait for outstanding sends and requests to complete."  OutstandingSends
\* is never raised.
Drain ==
    /\ at["pnp"] = "drain"
    /\ ~OutstandingRequests
    /\ Go("pnp", "fail")
    /\ UNCHANGED <<flags, power, request, event, raced>>

\* A queued request is failed with NDIS_STATUS_FAILURE.
FailQueued ==
    /\ QueuedRequest' = FALSE
    /\ Go("pnp", IF QueuedRequest THEN "clear" ELSE "idle")

PowerDownDone ==
    /\ at["pnp"] = "fail"
    /\ FailQueued
    /\ UNCHANGED <<StandingBy, OutstandingRequests, UnbindingInProcess, power,
                   request, event, raced>>

\* Mutant: what is queued stays queued.
PowerUpBlind ==
    /\ at["pnp"] = "lock" /\ target = "D0"
    /\ PTDeviceState' = target
    /\ StandingBy' = (StandingBy /\ prev = "D0")
    /\ Go("pnp", "idle")
    /\ UNCHANGED <<QueuedRequest, OutstandingRequests, UnbindingInProcess,
                   MPDeviceState, request, event, raced>>

\* Mutant: the flag stays as it is.
PowerUpStandingBy ==
    /\ at["pnp"] = "lock" /\ target = "D0"
    /\ PTDeviceState' = target
    /\ QueuedRequest' = FALSE
    /\ OutstandingRequests' = (OutstandingRequests \/ QueuedRequest)
    /\ Go("pnp", IF QueuedRequest THEN "send" ELSE "idle")
    /\ UNCHANGED <<StandingBy, UnbindingInProcess, MPDeviceState, request,
                   event, raced>>

PowerUp ==
    /\ at["pnp"] = "lock" /\ target = "D0"
    /\ PTDeviceState' = target
    /\ StandingBy' = (StandingBy /\ prev = "D0")
    /\ QueuedRequest' = FALSE
    /\ OutstandingRequests' = (OutstandingRequests \/ QueuedRequest)
    /\ Go("pnp", IF QueuedRequest THEN "send" ELSE "idle")
    /\ UNCHANGED <<UnbindingInProcess, MPDeviceState, request, event, raced>>

\* The beginning of PtUnbindAdapter, under the lock.
PtUnbindAdapter ==
    /\ at["pnp"] = "idle"
    /\ ~UnbindingInProcess
    /\ UnbindingInProcess' = TRUE
    /\ FailQueued
    /\ UNCHANGED <<StandingBy, OutstandingRequests, power, request, event,
                   raced>>

-----------------------------------------------------------------------------
RequesterNext == CheckPower \/ FailRequest \/ QueueRequest \/ ForwardRequest

\* Steps of a request that is under way, in whichever thread.
RequestNext(x) ==
    \/ NdisRequest(x) \/ \E ok \in BOOLEAN : Completed(x, ok)
    \/ PtRequestComplete(x) \/ MPQueryPNPCapabilities(x) \/ Answer(x)

PowerNext == PowerDown \/ Drain \/ PowerDownDone \/ PowerUp

Next ==
    \/ \E k \in Kinds : Ask(k)
    \/ \E s \in States : MPProcessSetPowerOid(s) \/ SetPowerEvent(s)
    \/ RequesterNext \/ PowerNext \/ PtUnbindAdapter
    \/ \E x \in Threads : RequestNext(x)

Spec == Init /\ [][Next]_vars

\* The threads run on, the device below completes what it was sent, and it
\* is powered up again in the end, unless it is unbound.
Fairness ==
    /\ WF_vars(RequesterNext)
    /\ WF_vars(PowerNext)
    /\ \A x \in Threads : WF_vars(RequestNext(x))
    /\ SF_vars(SetPowerEvent("D0"))

FairSpec == Spec /\ Fairness

-----------------------------------------------------------------------------
(* Properties *)

\* "TRUE iff a request is pending", "TRUE iff a request is queued"
\* (ansfltr/nt/ndisrd.h:405-407): the flags say where the adapter's only
\* request is, and a request is queued only as long as an event that takes it
\* off the queue is still to come.  One that is forwarded, queued and sent later,
\* failed by power-down or by unbinding, or completed from below while any of this
\* happens is answered once (ansfltr/nt/protocol.c:405-420, 716-762, 1697-1752).
FlagsExact ==
    LET sent == \/ below # NULL
                \/ at["requester"] \in {"send", "clear"}
                \/ at["pnp"] = "send" \/ at["completer"] = "clear"
    IN  /\ TypeOK
        /\ req # "astray"
        /\ sent => OutstandingRequests
        /\ OutstandingRequests => sent \/ at["pnp"] = "clear"
        /\ QueuedRequest => /\ req = "asked" /\ PTDeviceState # "D0"
                            /\ ~UnbindingInProcess /\ ~sent

\* Once PtPnPNetEventSetPower has returned for a low power state, no request
\* is with the device below, and none is sent there until the driver takes the
\* device for powered up (ansfltr/nt/protocol.c:1612, 1647, 1676-1708).
SleepsQuietly ==
    PTDeviceState # "D0" /\ at["pnp"] = "idle" =>
        below = NULL /\ \A x \in Threads : at[x] # "send"

\* With both edges powered, requests are not failed for a power-down that is
\* over; a late answer to OID_PNP_CAPABILITIES, which sets PTDeviceState under
\* PtPnPNetEventSetPower's feet, is the one way to miss this
\* (ansfltr/nt/miniport.c:503-509, ansfltr/nt/protocol.c:1655-1719).
NotStuck ==
    /\ StandingBy
    /\ MPDeviceState = "D0" /\ PTDeviceState = "D0"
    => raced

\* NDIS gets an answer to every request
\* (ansfltr/nt/miniport.c:564-672, 335-457).
RequestsAnswered == req = "asked" ~> req = "none"
=============================================================================
