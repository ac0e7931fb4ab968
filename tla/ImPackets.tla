----------------------------- MODULE ImPackets -----------------------------
(***************************************************************************)
(* Packets of one adapter of the NDIS 5 intermediate driver (ansfltr/nt):  *)
(* PtReceive copies a frame into a packet of the adapter's pool, has what  *)
(* is missing transferred by the device below, and shows it to the         *)
(* clients; MPSendPackets shows them what is to be sent; SendPacket takes  *)
(* another packet of the pool to pass a frame on; MPHalt frees the pool.   *)
(*                                                                         *)
(* What clients do with a frame while it is shown is AnsFltr's subject:    *)
(* here they pass it, stop it, or keep it to inject it later.  The pool of *)
(* buffers is never the smaller one and is left out: a step that finds no  *)
(* packet stands for one that finds no buffer.                             *)
(***************************************************************************)
EXTENDS FiniteSets, Naturals

CONSTANTS
    Packets,    \* the packets of the pool (NDISHK_PACKET)
    Threads,    \* threads in which NDIS calls the driver
    Client,     \* the thread of a client that injects what it has kept
    NULL

ASSUME ConstantsAssumption ==
    /\ Client \notin Threads /\ NULL \notin Packets

Callers == Threads \cup {Client}

VARIABLES
    hk,         \* a packet: "free"; "listed" in m_PendingTransfertData;
                \* "shown"; passed on: "up", "sent"
    status,     \* m_nTransferDataStatus
    transfers,  \* packets the device below transfers data to
    upper,      \* a transfer of the protocol above: "idle", "below", or
                \* "forgotten"
    at,         \* where a thread is
    has, out,   \* the packet it works on, the one it passes a frame on in
    dir,        \* m_Direction of the frame it shows or injects
    kept,       \* m_pAdapter of the frame a client has kept: "none" kept,
                \* "named", "cleared", "stale" (it names an adapter that was
                \* freed)
    life,       \* the adapter: "up", "closing", "closed", "freed"
    overtaken,  \* history: a packet was freed that PtReceive still had to write
                \* to, or was taken again before PtReceive read it
    astray,     \* history: the adapter was used when freed, and not for "late"
    late        \* history: frames were shown since CloseAdapter, or a client
                \* was injecting at that time

pool    == <<hk, status, transfers>>
threads == <<at, has, out, dir>>
vars    == <<pool, upper, threads, kept, life, overtaken, astray, late>>

Places == {"idle", "filled", "called", "wrote", "complete", "show", "send",
           "pass", "done"}

TypeOK ==
    /\ hk \in [Packets -> {"free", "listed", "shown", "up", "sent"}]
    /\ status \in [Packets -> {"SUCCESS", "PENDING", "FAILURE"}]
    /\ transfers \subseteq Packets
    /\ upper \in {"idle", "below", "forgotten"}
    /\ at \in [Callers -> Places]
    /\ has \in [Callers -> Packets \cup {NULL}]
    /\ out \in [Callers -> Packets \cup {NULL}]
    /\ \A t \in Callers :
        /\ at[t] \in {"filled", "called", "wrote", "complete"} => has[t] # NULL
        /\ at[t] = "pass" => out[t] # NULL
    /\ dir \in [Callers -> {"in", "out"}]
    /\ kept \in {"none", "named", "cleared", "stale"}
    /\ life \in {"up", "closing", "closed", "freed"}
    /\ {overtaken, astray, late} \subseteq BOOLEAN

Init ==
    /\ hk = [p \in Packets |-> "free"]
    /\ status = [p \in Packets |-> "SUCCESS"]
    /\ transfers = {} /\ upper = "idle"
    /\ at = [t \in Callers |-> "idle"]
    /\ has = [t \in Callers |-> NULL] /\ out = [t \in Callers |-> NULL]
    /\ dir = [t \in Callers |-> "in"]
    /\ kept = "none" /\ life = "up"
    /\ overtaken = FALSE /\ astray = FALSE /\ late = FALSE

Go(t, from, to) == at[t] = from /\ at' = [at EXCEPT ![t] = to]
Mark(p, state)  == hk' = [hk EXCEPT ![p] = state]
Listed          == {p \in Packets : hk[p] = "listed"}

\* NDIS indicates and sends as long as the binding is open, up to the
\* closing of it.
Bound == life \in {"up", "closing"}

-----------------------------------------------------------------------------
(* PtReceive.                                                              *)

\* A loopback frame, one that is too long, or one for which there is no
\* packet or buffer goes straight to the protocols above, which may have to
\* ask for the rest of it (MPTransferData).
IndicateStraight(t) ==
    /\ Bound /\ at[t] = "idle"
    /\ upper = "idle" /\ upper' = "below"
    /\ UNCHANGED <<pool, threads, kept, life, astray, late, overtaken>>

\* The packet is filled and put on the list.
PtReceive(t) ==
    /\ Bound /\ Go(t, "idle", "filled")
    /\ \E p \in Packets :
        /\ hk[p] = "free"
        /\ Mark(p, "listed")
        /\ status' = [status EXCEPT ![p] = "SUCCESS"]
        /\ has' = [has EXCEPT ![t] = p]
        /\ overtaken' = \E u \in Threads : has[u] = p
    /\ UNCHANGED <<transfers, upper, out, dir, kept, life, astray, late>>

\* The whole frame was indicated.
Whole(t) ==
    /\ Go(t, "filled", "complete")
    /\ UNCHANGED <<pool, upper, has, out, dir, kept, life, astray, late, overtaken>>

\* Mutant: it stays on the list.
NoBufferListed(t) ==
    /\ Go(t, "filled", "idle")
    /\ has' = [has EXCEPT ![t] = NULL]
    /\ UNCHANGED <<pool, upper, out, dir, kept, life, astray, late, overtaken>>

\* No buffer for the rest: off the list, and straight up.
NoBuffer(t) ==
    /\ Go(t, "filled", "done")
    /\ Mark(has[t], "shown")
    /\ UNCHANGED <<status, transfers, upper, has, out, dir, kept, life, astray,
                   late, overtaken>>

\* The device transfers the rest at once, or fails to, ...
TransferNow(t) ==
    /\ Go(t, "filled", "complete")
    /\ \E s \in {"SUCCESS", "FAILURE"} :
        status' = [status EXCEPT ![has[t]] = s]
    /\ UNCHANGED <<hk, transfers, upper, has, out, dir, kept, life, astray,
                   late, overtaken>>

\* ... or takes its time; that it does is written to the packet when
\* NdisTransferData returns.
NdisTransferData(t) ==
    /\ Go(t, "filled", "called")
    /\ transfers' = transfers \cup {has[t]}
    /\ UNCHANGED <<hk, status, upper, has, out, dir, kept, life, astray, late,
                   overtaken>>

WritePending(t) ==
    /\ Go(t, "called", "wrote")
    /\ status' = [status EXCEPT ![has[t]] = "PENDING"]
    /\ UNCHANGED <<hk, transfers, upper, has, out, dir, kept, life, astray,
                   late, overtaken>>

\* The status is read back from the packet: it is what was written, since the
\* packet has not been taken again.
TestPending(t) ==
    /\ Go(t, "wrote", "idle")
    /\ has' = [has EXCEPT ![t] = NULL]
    /\ UNCHANGED <<pool, upper, out, dir, kept, life, astray, late, overtaken>>

-----------------------------------------------------------------------------
(* PtTransferDataComplete, from PtReceive or from the device below.        *)

\* Mutant: the transfer is completed twice.
TransferDoneTwice(t, p) ==
    /\ p \in transfers
    /\ Go(t, "idle", "complete")
    /\ has' = [has EXCEPT ![t] = p]
    /\ overtaken' = (status[p] # "PENDING")
    /\ UNCHANGED <<pool, upper, out, dir, kept, life, astray, late>>

\* The device below is done with a transfer, with or without an error.  The
\* status it brings is not looked at, the one in the packet is.  It may be done
\* before NdisTransferData has returned.
TransferDone(t, p) ==
    /\ p \in transfers
    /\ Go(t, "idle", "complete")
    /\ transfers' = transfers \ {p}
    /\ has' = [has EXCEPT ![t] = p]
    /\ overtaken' = (status[p] # "PENDING")
    /\ UNCHANGED <<hk, status, upper, out, dir, kept, life, astray, late>>

Unlist(p) == Mark(p, "shown")

\* Under the list's lock.  A packet without data is freed, as is one for whose
\* copy there is no memory.
PtTransferDataComplete(t) ==
    /\ has[t] \in Listed
    /\ \/ status[has[t]] # "SUCCESS" /\ Go(t, "complete", "done")
       \/ status[has[t]] = "SUCCESS"
          /\ (Go(t, "complete", "show") \/ Go(t, "complete", "done"))
    /\ Unlist(has[t])
    /\ UNCHANGED <<status, transfers, upper, has, out, dir, kept, life, astray,
                   late, overtaken>>

\* A transfer of the protocol above: it is passed on to it, but only when the
\* driver has none of its own.
UpperDone(t) ==
    /\ at[t] = "idle" /\ upper = "below"
    /\ upper' = IF Listed = {} THEN "idle" ELSE "forgotten"
    /\ UNCHANGED <<pool, threads, kept, life, astray, late, overtaken>>

-----------------------------------------------------------------------------
(* Frames are shown to the clients and passed on.                          *)

MPSendPackets(t) ==
    /\ Bound /\ Go(t, "idle", "show")
    /\ dir' = [dir EXCEPT ![t] = "out"]
    /\ UNCHANGED <<pool, upper, has, out, kept, life, astray, late, overtaken>>

\* FLTInjectRequest: the frame is stopped, kept or passed on.
Show(t) ==
    /\ \/ Go(t, "show", "done") /\ UNCHANGED kept
       \/ Go(t, "show", "done") /\ kept = "none" /\ kept' = "named"
       \/ Go(t, "show", "send") /\ UNCHANGED kept
    /\ late' = (late \/ life # "up")
    /\ UNCHANGED <<pool, upper, has, out, dir, life, astray, overtaken>>

\* A client injects what it has kept (SendPacket).
Inject ==
    /\ kept \in {"named", "stale"} /\ Go(Client, "idle", "send")
    /\ \E d \in {"in", "out"} : dir' = [dir EXCEPT ![Client] = d]
    /\ UNCHANGED <<pool, upper, has, out, kept, life, astray, late, overtaken>>

FreeKept ==
    /\ kept # "none" /\ at[Client] = "idle"
    /\ kept' = "none"
    /\ late' = (late /\ life # "up")
    /\ UNCHANGED <<pool, upper, threads, life, astray, overtaken>>

\* The adapter that a thread's frame names is no more.
Gone(t) == life = "freed" \/ (t = Client /\ kept = "stale")

\* UF_SendPacketToProtocol, UF_SendPacketToAdapter: a packet of the pool, or
\* none.  Halting and power states have them return early.
TakePacket(t) ==
    /\ astray' = (astray \/ (Gone(t) /\ ~late))
    /\ \/ /\ ~Gone(t)
          /\ Go(t, "send", "pass")
          /\ \E p \in Packets :
                /\ hk[p] = "free"
                /\ Mark(p, "up")
                /\ out' = [out EXCEPT ![t] = p]
       \/ Go(t, "send", "done") /\ UNCHANGED <<hk, out>>
    /\ UNCHANGED <<status, transfers, upper, has, dir, kept, life, late, overtaken>>

\* Indicated to the protocols above, or sent at once: the packet is freed.
\* NdisSend may keep it instead.
Pass(t) ==
    /\ Go(t, "pass", "done")
    /\ \/ hk' = [hk EXCEPT ![out[t]] = "free"]
       \/ dir[t] = "out" /\ hk' = [hk EXCEPT ![out[t]] = "sent"]
    /\ out' = [out EXCEPT ![t] = NULL]
    /\ astray' = (astray \/ (Gone(t) /\ ~late))
    /\ UNCHANGED <<status, transfers, upper, has, dir, kept, life, late, overtaken>>

PtSendComplete(p) ==
    /\ hk[p] = "sent"
    /\ Mark(p, "free")
    /\ UNCHANGED <<status, transfers, upper, threads, kept, life, astray, late,
                   overtaken>>

\* UF_FreePacketAndBuffers, if the frame came in a packet.  What is left in a
\* thread's variables and in a free packet is not read again.
Done(t) ==
    /\ Go(t, "done", "idle")
    /\ hk' = [p \in Packets |-> IF p = has[t] THEN "free" ELSE hk[p]]
    /\ status' = [p \in Packets |-> IF p = has[t] THEN "SUCCESS" ELSE status[p]]
    /\ has' = [has EXCEPT ![t] = NULL] /\ dir' = [dir EXCEPT ![t] = "in"]
    /\ UNCHANGED <<transfers, upper, out, kept, life, astray, late, overtaken>>

-----------------------------------------------------------------------------
(* MPHalt.                                                                 *)

CloseAdapter ==
    /\ life = "up"
    /\ life' = "closing"
    /\ kept' = IF kept = "named" THEN "cleared" ELSE kept
    /\ late' = (late \/ \E t \in Callers : at[t] \in {"show", "send", "pass"})
    /\ UNCHANGED <<pool, upper, threads, astray, overtaken>>

\* NdisCloseAdapter completes when NDIS has left the driver's handlers and the
\* device below has completed all it was given.
NdisCloseAdapter ==
    /\ life = "closing"
    /\ \A t \in Threads : at[t] = "idle"
    /\ transfers = {} /\ upper # "below"
    /\ \A p \in Packets : hk[p] # "sent"
    /\ life' = "closed"
    /\ UNCHANGED <<pool, upper, threads, kept, astray, late, overtaken>>

\* Mutant: the pool is freed before the binding is closed.
FreeEarly ==
    /\ life = "closing"
    /\ life' = "freed"
    /\ kept' = IF kept = "named" THEN "stale" ELSE kept
    /\ UNCHANGED <<pool, upper, threads, astray, late, overtaken>>

MPFreeAllPacketPools ==
    /\ life = "closed"
    /\ life' = "freed"
    /\ kept' = IF kept = "named" THEN "stale" ELSE kept
    /\ UNCHANGED <<pool, upper, threads, astray, late, overtaken>>

\* The adapter is bound again, with a new pool.
Rebind ==
    /\ life = "freed"
    /\ life' = "up"
    /\ \A t \in Callers : at[t] = "idle"
    /\ upper' = "idle" /\ late' = (kept = "stale")
    /\ UNCHANGED <<pool, threads, kept, astray, overtaken>>

-----------------------------------------------------------------------------
Receiving(t) ==
    \/ Whole(t) \/ NoBuffer(t) \/ TransferNow(t) \/ NdisTransferData(t)
    \/ WritePending(t) \/ TestPending(t)
    \/ PtTransferDataComplete(t)

Passing(t) == Show(t) \/ TakePacket(t) \/ Pass(t) \/ Done(t)

\* Two threads use one packet: what they do to it is not followed.
Broken == overtaken /\ UNCHANGED vars

Next ==
    \/ /\ ~overtaken
       /\ \/ \E t \in Threads :
             \/ IndicateStraight(t) \/ PtReceive(t) \/ Receiving(t)
             \/ UpperDone(t) \/ MPSendPackets(t)
             \/ \E p \in Packets : TransferDone(t, p)
          \/ \E t \in Callers : Passing(t)
          \/ \E p \in Packets : PtSendComplete(p)
          \/ Inject \/ FreeKept
          \/ CloseAdapter \/ NdisCloseAdapter \/ MPFreeAllPacketPools \/ Rebind
    \/ Broken

Spec == Init /\ [][Next]_vars

\* Threads run on, and the device below completes what it was given.
Fairness ==
    /\ \A t \in Threads : WF_vars(~overtaken /\ Receiving(t))
    /\ \A t \in Callers : WF_vars(~overtaken /\ Passing(t))
    /\ \A p \in Packets :
        /\ SF_vars(~overtaken /\ \E t \in Threads : TransferDone(t, p))
        /\ WF_vars(~overtaken /\ PtSendComplete(p))

FairSpec == Spec /\ Fairness

-----------------------------------------------------------------------------
(* Properties *)

\* A packet of the pool is held by one thread, or is on the list while the
\* device below transfers to it, or is with the device below; a free packet by
\* nobody, but for a PtReceive that has only its status to read.  So it is
\* unless a completion overtakes PtReceive (ansfltr/nt/protocol.c:1034-1091,
\* 1336-1401, send.c:119-151, 213-243).
PacketsAccounted ==
    /\ TypeOK
    /\ ~overtaken => \A p \in Packets :
        LET in     == {t \in Callers : has[t] = p /\ at[t] \notin {"called", "wrote"}}
            called == {t \in Callers : has[t] = p /\ at[t] = "called"}
            passed == {t \in Callers : out[t] = p}
        IN  CASE hk[p] = "listed" ->
                    /\ Cardinality(in) + (IF p \in transfers THEN 1 ELSE 0) = 1
                    /\ passed = {} /\ Cardinality(called) <= 1
              [] hk[p] = "shown"  -> Cardinality(in) = 1 /\ passed \cup called = {}
              [] hk[p] = "up"     -> Cardinality(passed) = 1 /\ in \cup called = {}
              [] OTHER            -> in \cup passed \cup called = {}
                                     /\ p \notin transfers

\* "Mark closing adapter related packets as irrelevant"
\* (ansfltr/callbacks.c:190): an adapter that is freed is not used, and no
\* packet is out when its pool is, unless a client kept a frame that was shown
\* to it, or injected one, while the adapter was being closed; MPHalt does not
\* keep either from happening.
FreedAdapterUnused ==
    /\ ~astray
    /\ life = "freed" => late \/ \A p \in Packets : hk[p] = "free"

\* Every packet taken from the pool comes back (ansfltr/nt/protocol.c:1091,
\* 974, send.c:151, 242).
PacketsReturn == \A p \in Packets : hk[p] # "free" ~> hk[p] = "free" \/ overtaken
=============================================================================
