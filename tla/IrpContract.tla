---------------------------- MODULE IrpContract ----------------------------
(***************************************************************************)
(* What a firewall owes to the I/O manager: a request that it has taken is *)
(* answered in the end, once, in one of three ways.                        *)
(***************************************************************************)
CONSTANT Irps

VARIABLE status

Init == status = [i \in Irps |-> "none"]

\* A request arrives.
Take(i) ==
    /\ status[i] = "none"
    /\ status' = [status EXCEPT ![i] = "pending"]

\* It is passed to the transport, failed or cancelled.
Answer(i, how) ==
    /\ status[i] = "pending"
    /\ status' = [status EXCEPT ![i] = how]

\* The IRP is used again.
Reuse(i) ==
    /\ status[i] \in {"passed", "failed", "cancelled"}
    /\ status' = [status EXCEPT ![i] = "none"]

Next ==
    \E i \in Irps :
        \/ Take(i)
        \/ \E how \in {"passed", "failed", "cancelled"} : Answer(i, how)
        \/ Reuse(i)

Spec == Init /\ [][Next]_status

FairSpec ==
    Spec /\ \A i \in Irps :
              WF_status(\E how \in {"passed", "failed", "cancelled"} :
                          Answer(i, how))
=============================================================================
