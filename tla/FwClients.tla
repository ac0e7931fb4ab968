----------------------------- MODULE FwClients -----------------------------
(***************************************************************************)
(* The firewall's clients and the walk over them: g_FwInstancesList and    *)
(* ProcessRequest of ansfw/callbacks.c.  g_FwInstancesLock is held for a   *)
(* whole walk, so a walk is one step, and its outcome is a choice of how   *)
(* far it gets and of who keeps a clone of the request.                    *)
(***************************************************************************)
EXTENDS Lists

CONSTANTS
    Clients,    \* client drivers, each with at most one FW_INSTANCE
    Answers     \* the statuses a callback can answer

ASSUME AnswersAssumption == "SUCCESS" \in Answers

VARIABLE fwList     \* g_FwInstancesList

Registered == ToSet(fwList)

\* InsertTailList: a new client is asked last.
FWRegisterRequestCallback(c) ==
    /\ c \notin Registered
    /\ fwList' = Append(fwList, c)

\* RemoveEntryList.
FWDeregisterRequestCallback(c) ==
    /\ c \in Registered
    /\ fwList' = Unlink(fwList, c)

\* Mutant: a request that a client injects is not shown to the others.
BehindNobody(c) == << >>

\* The instances behind c on the list.
Behind(c) ==
    LET k == CHOOSE j \in 1..Len(fwList) : fwList[j] = c
    IN  SubSeq(fwList, k + 1, Len(fwList))

\* The outcomes of ProcessRequest over the instances queue: passed have
\* answered STATUS_SUCCESS; stopper, if there is one, has answered anything
\* else and ended the walk; kept have made a clone.
ProcessRequest(queue) ==
    LET First(k) == {queue[j] : j \in 1..k}
        Ends(k, s, a) ==
            {[passed |-> First(k), stopper |-> s, answer |-> a, kept |-> kept] :
                kept \in SUBSET (First(k) \cup s)}
    IN  Ends(Len(queue), {}, "SUCCESS")
        \cup
        UNION {UNION {Ends(k, {queue[k + 1]}, a) : a \in Answers \ {"SUCCESS"}} :
               k \in 0..(Len(queue) - 1)}

\* NT_SUCCESS: STATUS_PENDING is an informational, successful status.
NT_SUCCESS(status) == status \in {"SUCCESS", "PENDING"}
=============================================================================
