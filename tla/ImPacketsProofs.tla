-------------------------- MODULE ImPacketsProofs --------------------------
(***************************************************************************)
(* Proofs about ImPackets, for any pool and any number of threads.  What   *)
(* makes its properties inductive: where a thread is tells what it holds,  *)
(* two threads hold one packet only while one of them is on its way out of *)
(* PtReceive, and whoever may use the adapter once it is closed was        *)
(* noticed by late.                                                        *)
(***************************************************************************)
EXTENDS ImPackets, FiniteSetTheorems, TLAPS

Holding == {"filled", "complete"}               \* a packet on the list
Showing == {"show", "send", "pass", "done"}     \* a frame, maybe in a packet

\* What a thread holds.
ThreadInv == \A t \in Callers :
    /\ at[t] = "idle" => has[t] = NULL
    /\ at[t] \in Holding =>
         has[t] \in Packets /\ hk[has[t]] = "listed" /\ has[t] \notin transfers
    /\ at[t] = "called" => has[t] \in transfers
    /\ at[t] \in {"filled", "called"} => status[has[t]] # "PENDING"
    /\ at[t] \in Showing => has[t] = NULL \/ hk[has[t]] = "shown"
    /\ IF at[t] = "pass" THEN hk[out[t]] = "up" ELSE out[t] = NULL

\* A client receives nothing.
ClientInv == at[Client] \in {"idle", "send", "pass", "done"} /\ has[Client] = NULL

\* Two threads and one packet.
SoleInv == \A t, u \in Callers : t # u =>
    /\ has[t] # NULL /\ has[t] = has[u] => "wrote" \in {at[t], at[u]}
    /\ out[t] # NULL => out[t] # out[u]

\* Who holds a packet.
PacketInv == \A p \in Packets :
    /\ p \in transfers => hk[p] = "listed"
    /\ hk[p] = "listed" =>
         p \in transfers \/ \E t \in Callers : has[t] = p /\ at[t] \in Holding
    /\ hk[p] = "shown" => \E t \in Callers : has[t] = p /\ at[t] \in Showing
    /\ hk[p] = "up" => \E t \in Callers : out[t] = p

HoldInv == ThreadInv /\ ClientInv /\ SoleInv /\ PacketInv

\* What still uses the adapter when it is closed.
LateInv ==
    /\ kept = "stale" => late
    /\ life # "up" => \/ late
                      \/ /\ kept # "named"
                         /\ \A t \in Callers : at[t] \notin {"send", "pass"}
    /\ life \in {"closed", "freed"} =>
         /\ \A t \in Threads : at[t] = "idle"
         /\ transfers = {}
         /\ late \/ \A p \in Packets : hk[p] = "free"
    /\ ~astray

IndInv == TypeOK /\ (~overtaken => HoldInv) /\ LateInv

-----------------------------------------------------------------------------
\* Types.  A thread passes a frame on in a packet that it has.
LEMMA TypeStep ==
    ASSUME TypeOK, ~overtaken => HoldInv, [Next]_vars
    PROVE  TypeOK'
<1>1. ASSUME NEW t \in Threads, IndicateStraight(t) PROVE TypeOK'
  BY <1>1 DEF TypeOK, IndicateStraight, pool, threads
<1>2. ASSUME NEW t \in Threads, PtReceive(t) PROVE TypeOK'
  <2>1. overtaken' \in BOOLEAN
    BY <1>2 DEF PtReceive
  <2>2. UNCHANGED <<transfers, upper, out, dir, kept, life, astray, late>>
    BY <1>2 DEF PtReceive
  <2>3. PICK p \in Packets : /\ hk' = [hk EXCEPT ![p] = "listed"]
                             /\ status' = [status EXCEPT ![p] = "SUCCESS"]
                             /\ has' = [has EXCEPT ![t] = p]
    BY <1>2 DEF PtReceive, Mark
  <2>4. at[t] = "idle" /\ at' = [at EXCEPT ![t] = "filled"]
    BY <1>2 DEF PtReceive, Go
  <2>. QED
    BY <2>1, <2>2, <2>3, <2>4, ConstantsAssumption DEF TypeOK, Places, Callers
<1>3. ASSUME NEW t \in Threads, Whole(t) PROVE TypeOK'
  BY <1>3 DEF TypeOK, Places, Callers, Whole, Go, pool
<1>4. ASSUME NEW t \in Threads, NoBuffer(t) PROVE TypeOK'
  BY <1>4 DEF TypeOK, Places, Callers, NoBuffer, Go, Mark
<1>5. ASSUME NEW t \in Threads, TransferNow(t) PROVE TypeOK'
  BY <1>5 DEF TypeOK, Places, Callers, TransferNow, Go
<1>6. ASSUME NEW t \in Threads, NdisTransferData(t) PROVE TypeOK'
  BY <1>6 DEF TypeOK, Places, Callers, NdisTransferData, Go
<1>7. ASSUME NEW t \in Threads, WritePending(t) PROVE TypeOK'
  BY <1>7 DEF TypeOK, Places, Callers, WritePending, Go
<1>8. ASSUME NEW t \in Threads, TestPending(t) PROVE TypeOK'
  BY <1>8 DEF TypeOK, Places, TestPending, Go, pool
<1>9. ASSUME NEW t \in Threads, PtTransferDataComplete(t) PROVE TypeOK'
  BY <1>9 DEF TypeOK, Places, PtTransferDataComplete, Listed, Go, Unlist, Mark
<1>10. ASSUME NEW t \in Threads, UpperDone(t) PROVE TypeOK'
  BY <1>10 DEF TypeOK, UpperDone, pool, threads
<1>11. ASSUME NEW t \in Threads, MPSendPackets(t) PROVE TypeOK'
  BY <1>11 DEF TypeOK, Places, MPSendPackets, Go, pool
<1>12. ASSUME NEW t \in Threads, NEW p \in Packets, TransferDone(t, p)
      PROVE  TypeOK'
  <2>1. overtaken' \in BOOLEAN
    BY <1>12 DEF TransferDone
  <2>2. UNCHANGED <<hk, status, upper, out, dir, kept, life, astray, late>>
    BY <1>12 DEF TransferDone
  <2>3. /\ transfers' = transfers \ {p}
        /\ has' = [has EXCEPT ![t] = p]
        /\ at[t] = "idle" /\ at' = [at EXCEPT ![t] = "complete"]
    BY <1>12 DEF TransferDone, Go
  <2>. QED
    BY <2>1, <2>2, <2>3, ConstantsAssumption DEF TypeOK, Places, Callers
<1>13. ASSUME NEW t \in Callers, Show(t) PROVE TypeOK'
  BY <1>13 DEF TypeOK, Places, Show, Go, pool
<1>14. ASSUME NEW t \in Callers, TakePacket(t) PROVE TypeOK'
  <2>1. astray' \in BOOLEAN
    BY <1>14 DEF TakePacket
  <2>2. UNCHANGED <<status, transfers, upper, has, dir, kept, life, late, overtaken>>
    BY <1>14 DEF TakePacket
  <2>3. CASE Go(t, "send", "done") /\ UNCHANGED <<hk, out>>
    BY <2>1, <2>2, <2>3 DEF TypeOK, Places, Go
  <2>4. ASSUME NEW p \in Packets, Go(t, "send", "pass"), Mark(p, "up"),
               out' = [out EXCEPT ![t] = p]
        PROVE  TypeOK'
    BY <2>1, <2>2, <2>4, ConstantsAssumption DEF TypeOK, Places, Go, Mark
  <2>. QED
    BY <1>14, <2>3, <2>4 DEF TakePacket
<1>15. ASSUME NEW t \in Callers, Pass(t) PROVE TypeOK'
  BY <1>15 DEF TypeOK, Places, Pass, Go
<1>16. ASSUME NEW t \in Callers, Done(t) PROVE TypeOK'
  BY <1>16 DEF TypeOK, Places, Done, Go
<1>17. ASSUME NEW p \in Packets, PtSendComplete(p) PROVE TypeOK'
  BY <1>17 DEF TypeOK, PtSendComplete, Mark, threads
<1>18. ASSUME Inject PROVE TypeOK'
  BY <1>18 DEF TypeOK, Places, Callers, Inject, Go, pool
<1>19. ASSUME FreeKept PROVE TypeOK'
  BY <1>19 DEF TypeOK, FreeKept, pool, threads
<1>20. ASSUME CloseAdapter PROVE TypeOK'
  BY <1>20 DEF TypeOK, CloseAdapter, pool, threads
<1>21. ASSUME NdisCloseAdapter PROVE TypeOK'
  BY <1>21 DEF TypeOK, NdisCloseAdapter, pool, threads
<1>22. ASSUME MPFreeAllPacketPools PROVE TypeOK'
  BY <1>22 DEF TypeOK, MPFreeAllPacketPools, pool, threads
<1>23. ASSUME Rebind PROVE TypeOK'
  BY <1>23 DEF TypeOK, Rebind, pool, threads
<1>24. ASSUME UNCHANGED vars PROVE TypeOK'
  BY <1>24 DEF TypeOK, vars, pool, threads
<1>. QED
  BY <1>1, <1>2, <1>3, <1>4, <1>5, <1>6, <1>7, <1>8, <1>9, <1>10, <1>11, <1>12,
     <1>13, <1>14, <1>15, <1>16, <1>17, <1>18, <1>19, <1>20, <1>21, <1>22,
     <1>23, <1>24
     DEF Next, Broken, Receiving, Passing

\* Every step leaves its own thread with what its place tells, and the others
\* with what they hold.
LEMMA ThreadStep ==
    ASSUME TypeOK, TypeOK', HoldInv, ~overtaken, ~overtaken', [Next]_vars
    PROVE  ThreadInv'
<1>1. ASSUME NEW t \in Threads, IndicateStraight(t) PROVE ThreadInv'
  BY <1>1 DEF HoldInv, ThreadInv, IndicateStraight, pool, threads
<1>2. ASSUME NEW t \in Threads, PtReceive(t) PROVE ThreadInv'
  BY <1>2
     DEF TypeOK, HoldInv, ThreadInv, PacketInv, Showing, PtReceive, Go, Mark
<1>3. ASSUME NEW t \in Threads, Whole(t) PROVE ThreadInv'
  BY <1>3 DEF HoldInv, ThreadInv, Holding, Showing, Whole, Go, pool
<1>4. ASSUME NEW t \in Threads, NoBuffer(t) PROVE ThreadInv'
  BY <1>4 DEF TypeOK, HoldInv, ThreadInv, SoleInv, Holding, NoBuffer, Go, Mark
<1>5. ASSUME NEW t \in Threads, TransferNow(t) PROVE ThreadInv'
  BY <1>5 DEF HoldInv, ThreadInv, Holding, Showing, TransferNow, Go
<1>6. ASSUME NEW t \in Threads, NdisTransferData(t) PROVE ThreadInv'
  BY <1>6
     DEF TypeOK, HoldInv, ThreadInv, SoleInv, Holding, Showing,
         NdisTransferData, Go
<1>7. ASSUME NEW t \in Threads, WritePending(t) PROVE ThreadInv'
  BY <1>7
     DEF TypeOK, HoldInv, ThreadInv, SoleInv, Holding, Showing, WritePending,
         Go
<1>8. ASSUME NEW t \in Threads, TestPending(t) PROVE ThreadInv'
  BY <1>8 DEF TypeOK, HoldInv, ThreadInv, Holding, TestPending, Go, pool
<1>9. ASSUME NEW t \in Threads, PtTransferDataComplete(t) PROVE ThreadInv'
  BY <1>9
     DEF TypeOK, HoldInv, ThreadInv, SoleInv, Holding, Callers,
         PtTransferDataComplete, Go, Unlist, Mark
<1>10. ASSUME NEW t \in Threads, UpperDone(t) PROVE ThreadInv'
  BY <1>10 DEF HoldInv, ThreadInv, UpperDone, pool, threads
<1>11. ASSUME NEW t \in Threads, MPSendPackets(t) PROVE ThreadInv'
  BY <1>11 DEF HoldInv, ThreadInv, Holding, MPSendPackets, Go, pool
<1>12. ASSUME NEW t \in Threads, NEW p \in Packets, TransferDone(t, p)
      PROVE  ThreadInv'
  <2>1. status[p] = "PENDING"
    BY <1>12 DEF TransferDone
  <2>2. /\ p \in transfers /\ transfers' = transfers \ {p}
        /\ has' = [has EXCEPT ![t] = p]
        /\ at[t] = "idle" /\ at' = [at EXCEPT ![t] = "complete"]
        /\ UNCHANGED <<hk, status, out>>
    BY <1>12 DEF TransferDone, Go
  <2>. QED
    BY <2>1, <2>2 DEF TypeOK, HoldInv, ThreadInv, PacketInv, Showing
<1>13. ASSUME NEW t \in Callers, Show(t) PROVE ThreadInv'
  BY <1>13 DEF TypeOK, HoldInv, ThreadInv, Holding, Showing, Show, Go, pool
<1>14. ASSUME NEW t \in Callers, TakePacket(t) PROVE ThreadInv'
  BY <1>14
     DEF TypeOK, HoldInv, ThreadInv, Holding, Showing, TakePacket, Go, Mark
<1>15. ASSUME NEW t \in Callers, Pass(t) PROVE ThreadInv'
  BY <1>15 DEF TypeOK, HoldInv, ThreadInv, SoleInv, Holding, Showing, Pass, Go
<1>16. ASSUME NEW t \in Callers, Done(t) PROVE ThreadInv'
  BY <1>16 DEF TypeOK, HoldInv, ThreadInv, SoleInv, Holding, Showing, Done, Go
<1>17. ASSUME NEW p \in Packets, PtSendComplete(p) PROVE ThreadInv'
  BY <1>17 DEF HoldInv, ThreadInv, PtSendComplete, Mark, threads
<1>18. ASSUME Inject PROVE ThreadInv'
  BY <1>18 DEF HoldInv, ThreadInv, Holding, Inject, Go, pool
<1>19. ASSUME FreeKept PROVE ThreadInv'
  BY <1>19 DEF HoldInv, ThreadInv, FreeKept, pool, threads
<1>20. ASSUME CloseAdapter PROVE ThreadInv'
  BY <1>20 DEF HoldInv, ThreadInv, CloseAdapter, pool, threads
<1>21. ASSUME NdisCloseAdapter PROVE ThreadInv'
  BY <1>21 DEF HoldInv, ThreadInv, NdisCloseAdapter, pool, threads
<1>22. ASSUME MPFreeAllPacketPools PROVE ThreadInv'
  BY <1>22 DEF HoldInv, ThreadInv, MPFreeAllPacketPools, pool, threads
<1>23. ASSUME Rebind PROVE ThreadInv'
  BY <1>23, ConstantsAssumption DEF HoldInv, ThreadInv, Rebind, threads
<1>24. ASSUME UNCHANGED vars PROVE ThreadInv'
  BY <1>24 DEF HoldInv, ThreadInv, vars, pool, threads
<1>. QED
  BY <1>1, <1>2, <1>3, <1>4, <1>5, <1>6, <1>7, <1>8, <1>9, <1>10, <1>11, <1>12,
     <1>13, <1>14, <1>15, <1>16, <1>17, <1>18, <1>19, <1>20, <1>21, <1>22,
     <1>23, <1>24
     DEF Next, Broken, Receiving, Passing

\* A client is not given a packet.
LEMMA ClientStep ==
    ASSUME TypeOK, TypeOK', HoldInv, ~overtaken, ~overtaken', [Next]_vars
    PROVE  ClientInv'
<1>1. ASSUME NEW t \in Threads, IndicateStraight(t) PROVE ClientInv'
  BY <1>1 DEF HoldInv, ClientInv, IndicateStraight, threads
<1>2. ASSUME NEW t \in Threads, PtReceive(t) PROVE ClientInv'
  BY <1>2, ConstantsAssumption DEF HoldInv, ClientInv, PtReceive, Go
<1>3. ASSUME NEW t \in Threads, Whole(t) PROVE ClientInv'
  BY <1>3 DEF HoldInv, ClientInv, Whole, Go
<1>4. ASSUME NEW t \in Threads, NoBuffer(t) PROVE ClientInv'
  BY <1>4 DEF HoldInv, ClientInv, NoBuffer, Go
<1>5. ASSUME NEW t \in Threads, TransferNow(t) PROVE ClientInv'
  BY <1>5 DEF HoldInv, ClientInv, TransferNow, Go
<1>6. ASSUME NEW t \in Threads, NdisTransferData(t) PROVE ClientInv'
  BY <1>6 DEF HoldInv, ClientInv, NdisTransferData, Go
<1>7. ASSUME NEW t \in Threads, WritePending(t) PROVE ClientInv'
  BY <1>7 DEF HoldInv, ClientInv, WritePending, Go
<1>8. ASSUME NEW t \in Threads, TestPending(t) PROVE ClientInv'
  BY <1>8 DEF HoldInv, ClientInv, TestPending, Go
<1>9. ASSUME NEW t \in Threads, PtTransferDataComplete(t) PROVE ClientInv'
  BY <1>9 DEF TypeOK, HoldInv, ClientInv, Callers, PtTransferDataComplete, Go
<1>10. ASSUME NEW t \in Threads, UpperDone(t) PROVE ClientInv'
  BY <1>10 DEF HoldInv, ClientInv, UpperDone, threads
<1>11. ASSUME NEW t \in Threads, MPSendPackets(t) PROVE ClientInv'
  BY <1>11, ConstantsAssumption DEF HoldInv, ClientInv, MPSendPackets, Go
<1>12. ASSUME NEW t \in Threads, NEW p \in Packets, TransferDone(t, p)
      PROVE  ClientInv'
  BY <1>12, ConstantsAssumption DEF HoldInv, ClientInv, TransferDone, Go
<1>13. ASSUME NEW t \in Callers, Show(t) PROVE ClientInv'
  BY <1>13 DEF TypeOK, HoldInv, ClientInv, Callers, Show, Go
<1>14. ASSUME NEW t \in Callers, TakePacket(t) PROVE ClientInv'
  BY <1>14 DEF TypeOK, HoldInv, ClientInv, Callers, TakePacket, Go
<1>15. ASSUME NEW t \in Callers, Pass(t) PROVE ClientInv'
  BY <1>15 DEF HoldInv, ClientInv, Pass, Go
<1>16. ASSUME NEW t \in Callers, Done(t) PROVE ClientInv'
  BY <1>16 DEF HoldInv, ClientInv, Done, Go
<1>17. ASSUME NEW p \in Packets, PtSendComplete(p) PROVE ClientInv'
  BY <1>17 DEF HoldInv, ClientInv, PtSendComplete, threads
<1>18. ASSUME Inject PROVE ClientInv'
  BY <1>18 DEF HoldInv, ClientInv, Inject, Go
<1>19. ASSUME FreeKept PROVE ClientInv'
  BY <1>19 DEF HoldInv, ClientInv, FreeKept, threads
<1>20. ASSUME CloseAdapter PROVE ClientInv'
  BY <1>20 DEF HoldInv, ClientInv, CloseAdapter, threads
<1>21. ASSUME NdisCloseAdapter PROVE ClientInv'
  BY <1>21 DEF HoldInv, ClientInv, NdisCloseAdapter, threads
<1>22. ASSUME MPFreeAllPacketPools PROVE ClientInv'
  BY <1>22 DEF HoldInv, ClientInv, MPFreeAllPacketPools, threads
<1>23. ASSUME Rebind PROVE ClientInv'
  BY <1>23 DEF HoldInv, ClientInv, Rebind, threads
<1>24. ASSUME UNCHANGED vars PROVE ClientInv'
  BY <1>24 DEF HoldInv, ClientInv, vars, threads
<1>. QED
  BY <1>1, <1>2, <1>3, <1>4, <1>5, <1>6, <1>7, <1>8, <1>9, <1>10, <1>11, <1>12,
     <1>13, <1>14, <1>15, <1>16, <1>17, <1>18, <1>19, <1>20, <1>21, <1>22,
     <1>23, <1>24
     DEF Next, Broken, Receiving, Passing

\* A packet is taken from the pool when nobody has it, and completed by
\* whoever takes it from transfers.
LEMMA SoleStep ==
    ASSUME TypeOK, TypeOK', HoldInv, ~overtaken, ~overtaken', [Next]_vars
    PROVE  SoleInv'
<1>1. ASSUME NEW t \in Threads, IndicateStraight(t) PROVE SoleInv'
  BY <1>1 DEF HoldInv, SoleInv, IndicateStraight, threads
<1>2. ASSUME NEW t \in Threads, PtReceive(t) PROVE SoleInv'
  BY <1>2 DEF HoldInv, ClientInv, SoleInv, Callers, PtReceive, Go
<1>3. ASSUME NEW t \in Threads, Whole(t) PROVE SoleInv'
  BY <1>3 DEF HoldInv, SoleInv, Whole, Go
<1>4. ASSUME NEW t \in Threads, NoBuffer(t) PROVE SoleInv'
  BY <1>4 DEF HoldInv, SoleInv, NoBuffer, Go
<1>5. ASSUME NEW t \in Threads, TransferNow(t) PROVE SoleInv'
  BY <1>5 DEF HoldInv, SoleInv, TransferNow, Go
<1>6. ASSUME NEW t \in Threads, NdisTransferData(t) PROVE SoleInv'
  BY <1>6 DEF HoldInv, SoleInv, NdisTransferData, Go
<1>7. ASSUME NEW t \in Threads, WritePending(t) PROVE SoleInv'
  BY <1>7 DEF HoldInv, SoleInv, WritePending, Go
<1>8. ASSUME NEW t \in Threads, TestPending(t) PROVE SoleInv'
  BY <1>8 DEF TypeOK, HoldInv, SoleInv, TestPending, Go
<1>9. ASSUME NEW t \in Threads, PtTransferDataComplete(t) PROVE SoleInv'
  BY <1>9 DEF TypeOK, HoldInv, SoleInv, PtTransferDataComplete, Go
<1>10. ASSUME NEW t \in Threads, UpperDone(t) PROVE SoleInv'
  BY <1>10 DEF HoldInv, SoleInv, UpperDone, threads
<1>11. ASSUME NEW t \in Threads, MPSendPackets(t) PROVE SoleInv'
  BY <1>11 DEF HoldInv, SoleInv, MPSendPackets, Go
<1>12. ASSUME NEW t \in Threads, NEW p \in Packets, TransferDone(t, p)
      PROVE  SoleInv'
  <2>1. status[p] = "PENDING"
    BY <1>12 DEF TransferDone
  <2>2. /\ p \in transfers /\ transfers' = transfers \ {p}
        /\ has' = [has EXCEPT ![t] = p]
        /\ at[t] = "idle" /\ at' = [at EXCEPT ![t] = "complete"]
        /\ UNCHANGED <<hk, status, out>>
    BY <1>12 DEF TransferDone, Go
  <2>. QED
    BY <2>1, <2>2
       DEF TypeOK, HoldInv, ThreadInv, SoleInv, PacketInv, Holding, Showing,
           Places
<1>13. ASSUME NEW t \in Callers, Show(t) PROVE SoleInv'
  BY <1>13 DEF TypeOK, HoldInv, SoleInv, Show, Go
<1>14. ASSUME NEW t \in Callers, TakePacket(t) PROVE SoleInv'
  BY <1>14 DEF TypeOK, HoldInv, ThreadInv, SoleInv, TakePacket, Go
<1>15. ASSUME NEW t \in Callers, Pass(t) PROVE SoleInv'
  BY <1>15 DEF HoldInv, SoleInv, Pass, Go
<1>16. ASSUME NEW t \in Callers, Done(t) PROVE SoleInv'
  BY <1>16 DEF HoldInv, SoleInv, Done, Go
<1>17. ASSUME NEW p \in Packets, PtSendComplete(p) PROVE SoleInv'
  BY <1>17 DEF HoldInv, SoleInv, PtSendComplete, threads
<1>18. ASSUME Inject PROVE SoleInv'
  BY <1>18 DEF HoldInv, SoleInv, Inject, Go
<1>19. ASSUME FreeKept PROVE SoleInv'
  BY <1>19 DEF HoldInv, SoleInv, FreeKept, threads
<1>20. ASSUME CloseAdapter PROVE SoleInv'
  BY <1>20 DEF HoldInv, SoleInv, CloseAdapter, threads
<1>21. ASSUME NdisCloseAdapter PROVE SoleInv'
  BY <1>21 DEF HoldInv, SoleInv, NdisCloseAdapter, threads
<1>22. ASSUME MPFreeAllPacketPools PROVE SoleInv'
  BY <1>22 DEF HoldInv, SoleInv, MPFreeAllPacketPools, threads
<1>23. ASSUME Rebind PROVE SoleInv'
  BY <1>23 DEF HoldInv, SoleInv, Rebind, threads
<1>24. ASSUME UNCHANGED vars PROVE SoleInv'
  BY <1>24 DEF HoldInv, SoleInv, vars, threads
<1>. QED
  BY <1>1, <1>2, <1>3, <1>4, <1>5, <1>6, <1>7, <1>8, <1>9, <1>10, <1>11, <1>12,
     <1>13, <1>14, <1>15, <1>16, <1>17, <1>18, <1>19, <1>20, <1>21, <1>22,
     <1>23, <1>24
     DEF Next, Broken, Receiving, Passing

\* A packet that a thread lets go of is free, or with the device below.
LEMMA PacketStep ==
    ASSUME TypeOK, TypeOK', HoldInv, ~overtaken, ~overtaken', [Next]_vars
    PROVE  PacketInv'
<1>1. ASSUME NEW t \in Threads, IndicateStraight(t) PROVE PacketInv'
  BY <1>1 DEF HoldInv, ClientInv, PacketInv, IndicateStraight, pool, threads
<1>2. ASSUME NEW t \in Threads, PtReceive(t) PROVE PacketInv'
  BY <1>2 DEF TypeOK, HoldInv, PacketInv, Holding, Showing, PtReceive, Go, Mark
<1>3. ASSUME NEW t \in Threads, Whole(t) PROVE PacketInv'
  BY <1>3 DEF HoldInv, PacketInv, Holding, Showing, Whole, Go, pool
<1>4. ASSUME NEW t \in Threads, NoBuffer(t) PROVE PacketInv'
  BY <1>4
     DEF TypeOK, HoldInv, ThreadInv, PacketInv, Holding, Showing, NoBuffer, Go,
         Mark
<1>5. ASSUME NEW t \in Threads, TransferNow(t) PROVE PacketInv'
  BY <1>5 DEF HoldInv, ClientInv, PacketInv, Holding, Showing, TransferNow, Go
<1>6. ASSUME NEW t \in Threads, NdisTransferData(t) PROVE PacketInv'
  BY <1>6
     DEF HoldInv, ThreadInv, PacketInv, Holding, Callers, NdisTransferData, Go
<1>7. ASSUME NEW t \in Threads, WritePending(t) PROVE PacketInv'
  BY <1>7 DEF HoldInv, ClientInv, PacketInv, Holding, Showing, WritePending, Go
<1>8. ASSUME NEW t \in Threads, TestPending(t) PROVE PacketInv'
  BY <1>8
     DEF HoldInv, ClientInv, PacketInv, Holding, Showing, TestPending, Go, pool
<1>9. ASSUME NEW t \in Threads, PtTransferDataComplete(t) PROVE PacketInv'
  BY <1>9
     DEF TypeOK, HoldInv, ThreadInv, PacketInv, Holding, Showing, Callers,
         PtTransferDataComplete, Go, Unlist, Mark
<1>10. ASSUME NEW t \in Threads, UpperDone(t) PROVE PacketInv'
  BY <1>10 DEF HoldInv, PacketInv, UpperDone, pool, threads
<1>11. ASSUME NEW t \in Threads, MPSendPackets(t) PROVE PacketInv'
  BY <1>11 DEF HoldInv, PacketInv, Holding, Showing, MPSendPackets, Go, pool
<1>12. ASSUME NEW t \in Threads, NEW p \in Packets, TransferDone(t, p)
      PROVE  PacketInv'
  BY <1>12 DEF TypeOK, HoldInv, PacketInv, Holding, Showing, TransferDone, Go
<1>13. ASSUME NEW t \in Callers, Show(t) PROVE PacketInv'
  BY <1>13 DEF TypeOK, HoldInv, PacketInv, Holding, Showing, Show, Go, pool
<1>14. ASSUME NEW t \in Callers, TakePacket(t) PROVE PacketInv'
  BY <1>14, ConstantsAssumption
     DEF TypeOK, HoldInv, ThreadInv, PacketInv, Showing, TakePacket, Go, Mark
<1>15. ASSUME NEW t \in Callers, Pass(t) PROVE PacketInv'
  BY <1>15, ConstantsAssumption
     DEF TypeOK, HoldInv, ThreadInv, PacketInv, Showing, Pass, Go
<1>16. ASSUME NEW t \in Callers, Done(t) PROVE PacketInv'
  BY <1>16, ConstantsAssumption
     DEF HoldInv, ThreadInv, ClientInv, PacketInv, Showing, Done, Go
<1>17. ASSUME NEW p \in Packets, PtSendComplete(p) PROVE PacketInv'
  BY <1>17 DEF HoldInv, ClientInv, PacketInv, PtSendComplete, Mark, threads
<1>18. ASSUME Inject PROVE PacketInv'
  BY <1>18, ConstantsAssumption
     DEF HoldInv, ClientInv, PacketInv, Inject, Go, pool
<1>19. ASSUME FreeKept PROVE PacketInv'
  BY <1>19 DEF HoldInv, PacketInv, FreeKept, pool, threads
<1>20. ASSUME CloseAdapter PROVE PacketInv'
  BY <1>20 DEF HoldInv, PacketInv, CloseAdapter, pool, threads
<1>21. ASSUME NdisCloseAdapter PROVE PacketInv'
  BY <1>21 DEF HoldInv, ClientInv, PacketInv, NdisCloseAdapter, pool, threads
<1>22. ASSUME MPFreeAllPacketPools PROVE PacketInv'
  BY <1>22
     DEF HoldInv, ClientInv, PacketInv, MPFreeAllPacketPools, pool, threads
<1>23. ASSUME Rebind PROVE PacketInv'
  BY <1>23 DEF HoldInv, ClientInv, PacketInv, Rebind, pool, threads
<1>24. ASSUME UNCHANGED vars PROVE PacketInv'
  BY <1>24 DEF HoldInv, ClientInv, PacketInv, vars, pool, threads
<1>. QED
  BY <1>1, <1>2, <1>3, <1>4, <1>5, <1>6, <1>7, <1>8, <1>9, <1>10, <1>11, <1>12,
     <1>13, <1>14, <1>15, <1>16, <1>17, <1>18, <1>19, <1>20, <1>21, <1>22,
     <1>23, <1>24
     DEF Next, Broken, Receiving, Passing

\* The adapter is closed when NDIS has left it, and what may use it later was
\* noticed.
LEMMA LateStep ==
    ASSUME TypeOK, HoldInv, LateInv, [Next]_vars
    PROVE  LateInv'
<1>1. ASSUME NEW t \in Threads, IndicateStraight(t) PROVE LateInv'
  BY <1>1 DEF LateInv, IndicateStraight, pool, threads
<1>2. ASSUME NEW t \in Threads, PtReceive(t) PROVE LateInv'
  BY <1>2 DEF LateInv, PtReceive, Bound, Go
<1>3. ASSUME NEW t \in Threads, Whole(t) PROVE LateInv'
  BY <1>3 DEF LateInv, Whole, Go
<1>4. ASSUME NEW t \in Threads, NoBuffer(t) PROVE LateInv'
  BY <1>4 DEF LateInv, NoBuffer, Go
<1>5. ASSUME NEW t \in Threads, TransferNow(t) PROVE LateInv'
  BY <1>5 DEF LateInv, TransferNow, Go
<1>6. ASSUME NEW t \in Threads, NdisTransferData(t) PROVE LateInv'
  BY <1>6 DEF LateInv, NdisTransferData, Go
<1>7. ASSUME NEW t \in Threads, WritePending(t) PROVE LateInv'
  BY <1>7 DEF LateInv, WritePending, Go
<1>8. ASSUME NEW t \in Threads, TestPending(t) PROVE LateInv'
  BY <1>8 DEF LateInv, TestPending, Go
<1>9. ASSUME NEW t \in Threads, PtTransferDataComplete(t) PROVE LateInv'
  BY <1>9 DEF LateInv, TypeOK, PtTransferDataComplete, Go
<1>10. ASSUME NEW t \in Threads, UpperDone(t) PROVE LateInv'
  BY <1>10 DEF LateInv, UpperDone, pool, threads
<1>11. ASSUME NEW t \in Threads, MPSendPackets(t) PROVE LateInv'
  BY <1>11 DEF LateInv, MPSendPackets, Bound, Go
<1>12. ASSUME NEW t \in Threads, NEW p \in Packets, TransferDone(t, p)
      PROVE  LateInv'
  BY <1>12 DEF LateInv, TransferDone, Go
<1>13. ASSUME NEW t \in Callers, Show(t) PROVE LateInv'
  <2>1. (late => late') /\ (life # "up" => late')
    BY <1>13 DEF Show
  <2>2. /\ at[t] = "show"
        /\ at' = [at EXCEPT ![t] = "done"] \/ at' = [at EXCEPT ![t] = "send"]
        /\ kept' = kept \/ kept' = "named"
        /\ UNCHANGED <<hk, transfers, life, astray>>
    BY <1>13 DEF Show, Go, pool
  <2>3. t \in Threads
    BY <2>2 DEF HoldInv, ClientInv, Callers
  <2>4. CASE late \/ life # "up"
    <3>1. late'
      BY <2>1, <2>4
    <3>. QED
      BY <2>2, <2>3, <3>1 DEF LateInv
  <2>5. CASE ~late /\ life = "up"
    BY <2>2, <2>5 DEF LateInv
  <2>. QED
    BY <2>4, <2>5
<1>14. ASSUME NEW t \in Callers, TakePacket(t) PROVE LateInv'
  BY <1>14 DEF LateInv, TypeOK, Callers, TakePacket, Gone, Go
<1>15. ASSUME NEW t \in Callers, Pass(t) PROVE LateInv'
  BY <1>15 DEF LateInv, TypeOK, Pass, Go, Gone
<1>16. ASSUME NEW t \in Callers, Done(t) PROVE LateInv'
  BY <1>16 DEF LateInv, Done, Go
<1>17. ASSUME NEW p \in Packets, PtSendComplete(p) PROVE LateInv'
  BY <1>17 DEF LateInv, PtSendComplete, threads
<1>18. ASSUME Inject PROVE LateInv'
  BY <1>18, ConstantsAssumption DEF LateInv, Inject, Go, pool
<1>19. ASSUME FreeKept PROVE LateInv'
  BY <1>19 DEF LateInv, FreeKept, pool, threads
<1>20. ASSUME CloseAdapter PROVE LateInv'
  BY <1>20 DEF LateInv, CloseAdapter, threads
<1>21. ASSUME NdisCloseAdapter PROVE LateInv'
  <2>1. /\ life = "closing" /\ life' = "closed" /\ transfers' = {}
        /\ \A t \in Threads : at'[t] = "idle"
        /\ UNCHANGED <<hk, at, has, out, kept, astray, late, transfers, overtaken>>
    BY <1>21 DEF NdisCloseAdapter, pool, threads
  <2>2. ASSUME ~late PROVE \A p \in Packets : hk[p] = "free"
    <3>1. at[Client] \in {"idle", "done"} /\ has[Client] = NULL
      BY <2>1, <2>2 DEF HoldInv, ClientInv, LateInv, Callers
    <3>2. \A t \in Callers : has[t] = NULL /\ out[t] = NULL
      BY <2>1, <3>1 DEF HoldInv, ThreadInv, Callers
    <3>3. \A p \in Packets : hk[p] \notin {"listed", "shown", "up"}
      BY <2>1, <3>2, ConstantsAssumption DEF HoldInv, PacketInv
    <3>. QED
      BY <1>21, <3>3 DEF NdisCloseAdapter, TypeOK
  <2>. QED
    BY <2>1, <2>2 DEF LateInv
<1>22. ASSUME MPFreeAllPacketPools PROVE LateInv'
  BY <1>22 DEF LateInv, MPFreeAllPacketPools, pool, threads
<1>23. ASSUME Rebind PROVE LateInv'
  BY <1>23 DEF LateInv, Rebind
<1>24. ASSUME UNCHANGED vars PROVE LateInv'
  BY <1>24 DEF LateInv, vars, pool, threads
<1>. QED
  BY <1>1, <1>2, <1>3, <1>4, <1>5, <1>6, <1>7, <1>8, <1>9, <1>10, <1>11, <1>12,
     <1>13, <1>14, <1>15, <1>16, <1>17, <1>18, <1>19, <1>20, <1>21, <1>22,
     <1>23, <1>24
     DEF Next, Broken, Receiving, Passing

-----------------------------------------------------------------------------
\* The invariant holds of an adapter that is up and idle.
LEMMA InitInv == Init => IndInv
<1>. SUFFICES ASSUME Init PROVE IndInv
  OBVIOUS
<1>1. TypeOK
  BY DEF Init, TypeOK, Places
<1>2. HoldInv
  BY DEF Init, HoldInv, ThreadInv, ClientInv, SoleInv, PacketInv, Holding,
         Callers
<1>3. LateInv
  BY DEF Init, LateInv
<1>. QED
  BY <1>1, <1>2, <1>3 DEF IndInv

\* Every step keeps the invariant.
LEMMA StepInv == IndInv /\ [Next]_vars => IndInv'
<1>1. SUFFICES ASSUME IndInv, [Next]_vars PROVE IndInv'
  OBVIOUS
<1>2. TypeOK'
  BY <1>1, TypeStep DEF IndInv
<1>3. ASSUME ~overtaken' PROVE HoldInv'
  <2>1. ~overtaken
    BY <1>1, <1>3 DEF Next, Broken, vars
  <2>2. ThreadInv' /\ ClientInv' /\ SoleInv' /\ PacketInv'
    BY <1>1, <1>2, <1>3, <2>1, ThreadStep, ClientStep, SoleStep, PacketStep
       DEF IndInv
  <2>. QED
    BY <2>2 DEF HoldInv
<1>4. LateInv'
  <2>1. CASE overtaken
    <3>1. UNCHANGED vars
      BY <1>1, <2>1 DEF Next, Broken
    <3>. QED
      BY <1>1, <3>1 DEF IndInv, LateInv, vars, pool, threads
  <2>2. CASE ~overtaken
    BY <1>1, <2>2, LateStep DEF IndInv
  <2>. QED
    BY <2>1, <2>2
<1>. QED
  BY <1>2, <1>3, <1>4 DEF IndInv

\* The three parts of the invariant always hold.
THEOREM Invariance == Spec => []IndInv
  BY InitInv, StepInv, PTL DEF Spec

\* A packet of the pool is held by one thread, or is on the list while the
\* device below transfers to it, or is with the device below; a free packet by
\* nobody: PtReceive, PtTransferDataComplete and the send path neither lose nor
\* share one, unless a completion overtakes PtReceive.
THEOREM PacketsAlwaysAccounted == Spec => []PacketsAccounted
<1>1. ASSUME IndInv, ~overtaken, NEW p \in Packets
      PROVE  LET in     == {t \in Callers :
                                has[t] = p /\ at[t] \notin {"called", "wrote"}}
                 called == {t \in Callers : has[t] = p /\ at[t] = "called"}
                 passed == {t \in Callers : out[t] = p}
             IN  CASE hk[p] = "listed" ->
                         /\ Cardinality(in) + (IF p \in transfers THEN 1 ELSE 0) = 1
                         /\ passed = {} /\ Cardinality(called) <= 1
                   [] hk[p] = "shown"  -> Cardinality(in) = 1 /\ passed \cup called = {}
                   [] hk[p] = "up"     -> Cardinality(passed) = 1 /\ in \cup called = {}
                   [] OTHER            -> in \cup passed \cup called = {}
                                          /\ p \notin transfers
  <2> DEFINE in     == {t \in Callers : has[t] = p /\ at[t] \notin {"called", "wrote"}}
             called == {t \in Callers : has[t] = p /\ at[t] = "called"}
             passed == {t \in Callers : out[t] = p}
  <2>1. \A t, u \in Callers : /\ t \in in /\ u \in in => t = u
                              /\ t \in called /\ u \in called => t = u
                              /\ t \in passed /\ u \in passed => t = u
    BY <1>1, ConstantsAssumption DEF IndInv, HoldInv, SoleInv
  <2>2. ASSUME NEW S \in SUBSET Callers, \A t, u \in Callers : t \in S /\ u \in S => t = u
        PROVE  IF S = {} THEN Cardinality(S) = 0 ELSE Cardinality(S) = 1
    <3>1. CASE S = {}
      BY <3>1, FS_EmptySet
    <3>2. CASE S # {}
      <4>1. PICK t \in Callers : S = {t}
        BY <2>2, <3>2
      <4>. QED
        BY <4>1, FS_Singleton
    <3>. QED
      BY <3>1, <3>2
  <2>5. /\ IF in = {} THEN Cardinality(in) = 0 ELSE Cardinality(in) = 1
        /\ IF called = {} THEN Cardinality(called) = 0 ELSE Cardinality(called) = 1
        /\ IF passed = {} THEN Cardinality(passed) = 0 ELSE Cardinality(passed) = 1
    BY <2>1, <2>2
  <2>3. /\ passed # {} => hk[p] = "up"
        /\ called # {} => p \in transfers
        /\ p \in transfers => hk[p] = "listed" /\ in = {}
        /\ in # {} => hk[p] \in {"listed", "shown"}
    BY <1>1, ConstantsAssumption
       DEF IndInv, TypeOK, Places, HoldInv, ThreadInv, PacketInv, Holding,
           Showing
  <2>4. /\ hk[p] = "listed" /\ p \notin transfers => in # {}
        /\ hk[p] = "shown" => in # {}
        /\ hk[p] = "up" => passed # {}
    BY <1>1 DEF IndInv, HoldInv, PacketInv, Holding, Showing
  <2>. QED
    BY <2>3, <2>4, <2>5
<1>2. IndInv => PacketsAccounted
  BY <1>1 DEF IndInv, PacketsAccounted
<1>. QED
  BY <1>2, Invariance, PTL

\* An adapter that MPHalt has freed is used by nobody, and no packet is out
\* when its pool is freed, unless a client kept or injected a frame while the
\* adapter was being closed.
THEOREM FreedAdapterNeverUsed == Spec => []FreedAdapterUnused
<1>1. IndInv => FreedAdapterUnused
  BY DEF IndInv, LateInv, FreedAdapterUnused
<1>. QED
  BY <1>1, Invariance, PTL
=============================================================================
