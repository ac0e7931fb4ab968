-------------------------- MODULE ReassemblyProofs --------------------------
(***************************************************************************)
(* Theorems about Reassembly, for any number of fragments, buffers and     *)
(* clients.                                                                *)
(*                                                                         *)
(* A request is in one place (PlaceInv), and a buffer is with the          *)
(* assembler or with those whom its references count (BufferInv).  Each    *)
(* rests on the other: a buffer is emptied and reused when its last        *)
(* reference goes.  A fragment is handed back once because one party at a  *)
(* time may pass its datagram on (WalkInv, SentInv).                       *)
(***************************************************************************)
EXTENDS Reassembly, ListsProofs, FiniteSetTheorems

\* A callback answers with a status of its own: STATUS_PENDING, which NT_SUCCESS
\* takes for a success, is not one that the documentation names.
DocumentedAnswers == "PENDING" \notin Answers

\* The values of a DATA_LIST.
DataLists == [key : Keys \cup {NULL}, bits : SUBSET (0..MaxUnit),
              total : 0..(WORKBUFSIZE - 1), last : BOOLEAN, ttl : Nat,
              list : SUBSET Requests]

\* A request is on the queue once, a buffer on the list of datagrams, a client on
\* the list of instances.
TypeInv ==
    /\ live \subseteq Requests /\ lost \subseteq Requests
    /\ frag \in [Requests -> Wire \cup {NULL}]
    /\ sent \in [Requests -> 0..2]
    /\ queue \in Seq(Requests) /\ IsInjective(queue)
    /\ toSet \in 0..MaxReceiving /\ event \in BOOLEAN
    /\ datagrams \in Seq(Buffers) /\ IsInjective(datagrams)
    /\ buf \in [Buffers -> DataLists]
    /\ freeBufs \subseteq allocated /\ allocated \subseteq Buffers
    /\ refs \in [Buffers -> Nat]
    /\ pcI \in {"wait", "drain", "deliver", "free"} /\ onI \in Buffers \cup {NULL}
    /\ pcT \in {"sleep", "walk"} /\ atT \in 0..(Len(datagrams) + 1)
    /\ pcT = "sleep" => atT = 0
    /\ held \in [Clients -> SUBSET Buffers]
    /\ mayInject \in [Clients -> SUBSET Buffers]
    /\ fwList \in Seq(Clients) /\ IsInjective(fwList)

InUse == allocated \ freeBufs

\* A request is on the queue, with one buffer in use, or lost.
PlaceInv ==
    /\ \A f \in Requests : f \in live <=>
           f \in ToSet(queue) \cup lost \/ \E b \in InUse : f \in buf[b].list
    /\ \A f \in ToSet(queue) : f \notin lost
    /\ \A b \in InUse : \A f \in buf[b].list : f \notin ToSet(queue) \cup lost
    /\ \A a, b \in InUse : \A f \in buf[a].list : f \in buf[b].list => a = b

\* Those who have a clone of the datagram in b.
Keepers(b) == {c \in Clients : b \in held[c]}

\* A buffer in use is on the list, being delivered or held, and its references
\* are the latter two.
BufferInv ==
    /\ ToSet(datagrams) \subseteq InUse
    /\ \A b \in ToSet(datagrams) : b # onI /\ Keepers(b) = {}
    /\ \A b \in Buffers : b = onI \/ Keepers(b) # {} => b \in InUse
    /\ \A b \in InUse : b \in ToSet(datagrams) \/ b = onI \/ Keepers(b) # {}
    /\ \A b \in Buffers :
           /\ IsFiniteSet(Keepers(b))
           /\ refs[b] = Cardinality(Keepers(b)) + (IF onI = b THEN 1 ELSE 0)

\* A datagram goes down the list of clients once: one of them at a time may pass it
\* on, and those behind that one have no clone of it yet.
WalkInv ==
    /\ onI # NULL <=> pcI \in {"deliver", "free"}
    /\ pcI = "deliver" => Keepers(onI) = {}
    /\ \A c \in Clients : /\ mayInject[c] \subseteq held[c]
                          /\ held[c] # {} => c \in Registered
    /\ \A c, d \in Clients : \A b \in mayInject[c] : b \in mayInject[d] => c = d
    /\ \A c \in Clients : \A b \in mayInject[c], d \in After(fwList, c) :
           b \notin held[d]

\* Somebody has yet to hand back the fragments in b.
Unsent(b) ==
    \/ b \in ToSet(datagrams)
    \/ pcI = "deliver" /\ b = onI
    \/ \E c \in Clients : b \in mayInject[c]

SentInv ==
    /\ \A f \in Requests : sent[f] \in 0..1
    /\ \A f \in ToSet(queue) : sent[f] = 0
    /\ \A b \in Buffers : Unsent(b) => \A f \in buf[b].list : sent[f] = 0

IndInv ==
    /\ TypeInv /\ PlaceInv /\ BufferInv /\ WalkInv
    /\ DocumentedAnswers => SentInv

-----------------------------------------------------------------------------
(* Fragments and buffers *)

\* What the assumptions say of a fragment.
LEMMA WireFacts ==
    ASSUME NEW w \in Wire
    PROVE  /\ w.off \in Nat /\ w.data \in Nat \ {0} /\ w.ttl \in Nat
           /\ w.key \in Keys
           /\ FullLength(w) \in Nat /\ FullLength(w) < WORKBUFSIZE
           /\ WORKBUFSIZE \in Nat \ {0}
<1>1. /\ w \in [key : [id : Nat, src : Nat], off : Nat, data : Nat \ {0},
                more : BOOLEAN, options : BOOLEAN, ttl : Nat]
      /\ 20 + w.data < WORKBUFSIZE /\ WORKBUFSIZE \in Nat \ {0}
  BY ConstantsAssumption DEF ConstantsAssumption
<1>. QED
  BY <1>1 DEF Keys, FullLength, ipHeaderSize

\* A fragment that fits into a buffer fits into its bitmap.
LEMMA BitsFit ==
    ASSUME NEW w \in Wire, ~Overlong(w) \/ w.off = 0
    PROVE  /\ Bits(w) \in SUBSET (0..MaxUnit)
           /\ End(w) % WORKBUFSIZE \in 0..(WORKBUFSIZE - 1)
<1> DEFINE n == w.off
           l == FullLength(w)
           m == WORKBUFSIZE
<1>1. n \in Nat /\ l \in Nat /\ m \in Nat \ {0}
  BY WireFacts
<1>2. n * 8 + l <= m
  BY <1>1, WireFacts DEF Overlong, End
<1>3. MaxUnit = m \div 8 + 2 /\ Bits(w) = n..(n + l \div 8 - 1) /\ End(w) = n * 8 + l
  BY DEF MaxUnit, Bits, End
<1> HIDE DEF n, l, m
<1>4. n + l \div 8 - 1 <= m \div 8 + 2
  BY <1>1, <1>2
<1>5. n..(n + l \div 8 - 1) \subseteq 0..(m \div 8 + 2)
  BY <1>1, <1>4
<1>6. (n * 8 + l) % m \in 0..(m - 1)
  BY <1>1
<1>. QED
  BY <1>3, <1>5, <1>6 DEF m

\* A fragment is copied into a buffer.
LEMMA CopyKeeps ==
    ASSUME NEW d \in DataLists, NEW f \in Requests, NEW w \in Wire,
           ~Overlong(w) \/ w.off = 0
    PROVE  CopyInto(d, f, w) \in DataLists /\ CopyInto(d, f, w).list = d.list \cup {f}
<1>1. Bits(w) \in SUBSET (0..MaxUnit) /\ End(w) % WORKBUFSIZE \in 0..(WORKBUFSIZE - 1)
  BY BitsFit
<1>2. w.more \in BOOLEAN
  BY ConstantsAssumption DEF ConstantsAssumption
<1>. QED
  BY <1>1, <1>2 DEF CopyInto, DataLists

\* A new datagram.
LEMMA NewKeeps ==
    ASSUME NEW b \in Buffers, NEW w \in Wire
    PROVE  NewDatagram(b, w) \in DataLists /\ NewDatagram(b, w).list = {}
<1>1. w.key \in Keys /\ w.ttl \in Nat /\ 0 \in 0..(WORKBUFSIZE - 1)
  BY WireFacts
<1>. QED
  BY <1>1 DEF NewDatagram, Zeroed, DataLists

\* The request that is analyzed leaves the queue.
LEMMA QueueHead ==
    ASSUME TypeInv, NEW f \in Requests, NEW w \in Wire, Analyzing(f, w)
    PROVE  /\ f \in ToSet(queue)
           /\ queue' \in Seq(Requests) /\ IsInjective(queue')
           /\ ToSet(queue') = ToSet(queue) \ {f}
           /\ pcI = "drain"
  BY TailKeeps DEF TypeInv, Analyzing

\* A datagram leaves the list.
LEMMA DatagramLeaves ==
    ASSUME TypeInv, NEW b, datagrams' = Unlink(datagrams, b)
    PROVE  /\ datagrams' \in Seq(Buffers) /\ IsInjective(datagrams')
           /\ ToSet(datagrams') = ToSet(datagrams) \ {b}
           /\ Len(datagrams') \in Nat
  BY UnlinkKeeps, Entries DEF TypeInv

\* The datagram that a fragment belongs to is on the list.
LEMMA FoundListed ==
    ASSUME TypeInv, NEW w, NEW b \in Found(w)
    PROVE  b \in ToSet(datagrams) /\ b \in Buffers
<1>1. \E k \in DOMAIN datagrams : b = datagrams[k]
  BY DEF Found
<1>. QED
  BY <1>1, Entries DEF TypeInv

\* Whoever has yet to hand fragments back has a buffer in use.
LEMMA UnsentInUse ==
    ASSUME TypeInv, BufferInv, WalkInv, NEW b \in Buffers, Unsent(b)
    PROVE  b \in InUse
  BY DEF TypeInv, BufferInv, WalkInv, Unsent, Keepers

\* A buffer without references is free or on the list.
LEMMA References ==
    ASSUME TypeInv, BufferInv, NEW b \in Buffers
    PROVE  /\ Cardinality(Keepers(b)) \in Nat
           /\ Keepers(b) = {} <=> Cardinality(Keepers(b)) = 0
  BY FS_EmptySet, FS_CardinalityType DEF BufferInv

-----------------------------------------------------------------------------
(* The fragments *)

\* Steps that move no request and no buffer.
LEMMA QuietKeeps ==
    ASSUME IndInv, TypeInv',
           UNCHANGED <<live, lost, sent, queue, datagrams, allocated, freeBufs,
                       refs, onI, held, mayInject, fwList>>,
           \/ pcI' = pcI
           \/ pcI \in {"wait", "drain"} /\ pcI' \in {"wait", "drain"},
           \A b \in Buffers : buf'[b].list = buf[b].list
    PROVE  IndInv'
<1>1. PlaceInv'
  BY DEF IndInv, PlaceInv, TypeInv, InUse
<1>2. BufferInv'
  BY DEF IndInv, BufferInv, InUse, Keepers
<1>3. WalkInv'
  BY DEF IndInv, WalkInv, Keepers, Registered
<1>4. ASSUME SentInv PROVE SentInv'
  BY <1>4 DEF SentInv, Unsent
<1>. QED
  BY <1>1, <1>2, <1>3, <1>4 DEF IndInv, DocumentedAnswers

\* A fragment is queued.
LEMMA ReassemblePacketKeeps ==
    ASSUME IndInv, NEW f \in Requests, NEW w \in Wire, ReassemblePacket(f, w)
    PROVE  IndInv'
<1> USE DEF ReassemblePacket, bufVars, threadVars
<1>1. f \notin ToSet(queue) \cup lost /\ \A b \in InUse : f \notin buf[b].list
  BY DEF IndInv, PlaceInv
<1>2. /\ queue' \in Seq(Requests) /\ IsInjective(queue')
      /\ ToSet(queue') = ToSet(queue) \cup {f}
  BY <1>1, AppendKeeps DEF IndInv, TypeInv
<1>3. sent' \in [Requests -> 0..2] /\ sent'[f] = 0
  BY DEF IndInv, TypeInv
<1>4. toSet' \in 0..MaxReceiving
  BY ConstantsAssumption DEF ConstantsAssumption, IndInv, TypeInv
<1>5. TypeInv'
  BY <1>2, <1>3, <1>4 DEF IndInv, TypeInv
<1>6. PlaceInv'
  BY <1>1, <1>2 DEF IndInv, PlaceInv, InUse, TypeInv
<1>7. BufferInv'
  BY DEF IndInv, BufferInv, InUse, Keepers
<1>8. WalkInv'
  BY DEF IndInv, WalkInv, Keepers, Registered
<1>9. ASSUME SentInv PROVE SentInv'
  <2>1. \A b \in Buffers : Unsent(b)' = Unsent(b)
    BY DEF Unsent
  <2>2. \A b \in Buffers : Unsent(b) => f \notin buf[b].list
    BY <1>1, UnsentInUse DEF IndInv
  <2>3. \A g \in Requests : g # f => sent'[g] = sent[g]
    BY DEF IndInv, TypeInv
  <2>. QED
    BY <1>2, <1>3, <1>9, <2>1, <2>2, <2>3
       DEF IndInv, TypeInv, SentInv, DataLists
<1>. QED
  BY <1>5, <1>6, <1>7, <1>8, <1>9 DEF IndInv, DocumentedAnswers

\* A request is forgotten.
LEMMA LoseKeeps ==
    ASSUME IndInv, NEW f \in Requests, NEW w \in Wire,
           AnalyzeOptions(f, w) \/ AnalyzeNewFails(f, w)
    PROVE  IndInv'
<1>1. /\ Analyzing(f, w) /\ lost' = lost \cup {f}
      /\ UNCHANGED <<live, frag, toSet, event, bufVars, threadVars, clientVars,
                     fwList>>
  BY DEF AnalyzeOptions, AnalyzeNewFails
<1> USE DEF bufVars, threadVars, clientVars
<1>2. /\ f \in ToSet(queue)
      /\ queue' \in Seq(Requests) /\ IsInjective(queue')
      /\ ToSet(queue') = ToSet(queue) \ {f}
  BY <1>1, QueueHead DEF IndInv
<1>3. TypeInv'
  BY <1>1, <1>2 DEF IndInv, TypeInv
<1>4. PlaceInv'
  BY <1>1, <1>2 DEF IndInv, PlaceInv, InUse
<1>5. BufferInv'
  BY <1>1 DEF IndInv, BufferInv, InUse, Keepers
<1>6. WalkInv'
  BY <1>1 DEF IndInv, WalkInv, Keepers, Registered
<1>7. ASSUME SentInv PROVE SentInv'
  BY <1>1, <1>2, <1>7 DEF SentInv, Unsent
<1>. QED
  BY <1>3, <1>4, <1>5, <1>6, <1>7 DEF IndInv, DocumentedAnswers

\* A datagram is given up, and its fragments are forgotten with it.
LEMMA AnalyzeOverlongKeeps ==
    ASSUME IndInv, NEW f \in Requests, NEW w \in Wire, NEW b \in Buffers,
           AnalyzeOverlong(f, w, b)
    PROVE  IndInv'
<1> USE DEF threadVars, clientVars
<1>1. /\ Analyzing(f, w)
      /\ datagrams' = Unlink(datagrams, b)
      /\ freeBufs' = freeBufs \cup {b}
      /\ lost' = lost \cup buf[b].list \cup {f}
      /\ UNCHANGED <<live, frag, toSet, event, buf, allocated, threadVars,
                     clientVars, fwList>>
      /\ pcT # "walk"
  BY DEF AnalyzeOverlong, DatagramFree
<1>2. b \in ToSet(datagrams) /\ b \in InUse
  BY FoundListed DEF AnalyzeOverlong, IndInv, BufferInv
<1>3. /\ f \in ToSet(queue)
      /\ queue' \in Seq(Requests) /\ IsInjective(queue')
      /\ ToSet(queue') = ToSet(queue) \ {f}
  BY <1>1, QueueHead DEF IndInv
<1>4. /\ datagrams' \in Seq(Buffers) /\ IsInjective(datagrams')
      /\ ToSet(datagrams') = ToSet(datagrams) \ {b}
      /\ Len(datagrams') \in Nat
  BY <1>1, DatagramLeaves DEF IndInv
<1>5. InUse' = InUse \ {b}
  BY <1>1 DEF InUse
<1>6. buf[b].list \subseteq Requests
  BY DEF IndInv, TypeInv, DataLists
<1>7. atT = 0
  BY <1>1 DEF IndInv, TypeInv
<1>8. TypeInv'
  BY <1>1, <1>2, <1>3, <1>4, <1>6, <1>7 DEF IndInv, TypeInv, InUse
<1>9. PlaceInv'
  BY <1>1, <1>2, <1>3, <1>5, <1>6 DEF IndInv, PlaceInv
<1>10. BufferInv'
  BY <1>1, <1>2, <1>4, <1>5 DEF IndInv, BufferInv, Keepers
<1>11. WalkInv'
  BY <1>1 DEF IndInv, WalkInv, Keepers, Registered
<1>12. ASSUME SentInv PROVE SentInv'
  BY <1>1, <1>3, <1>4, <1>12 DEF SentInv, Unsent
<1>. QED
  BY <1>8, <1>9, <1>10, <1>11, <1>12 DEF IndInv, DocumentedAnswers

\* A fragment is added to its datagram, which may now be complete.
LEMMA AnalyzeAddKeeps ==
    ASSUME IndInv, NEW f \in Requests, NEW w \in Wire, NEW b \in Buffers,
           AnalyzeAdd(f, w, b)
    PROVE  IndInv'
<1> DEFINE d == CopyInto(buf[b], f, w)
<1>1. /\ Analyzing(f, w)
      /\ buf' = [buf EXCEPT ![b] = d]
      /\ IF d.last /\ Verify(d)
         THEN /\ datagrams' = Unlink(datagrams, b)
              /\ refs' = [refs EXCEPT ![b] = 1]
              /\ onI' = b
              /\ pcI' = "deliver"
         ELSE UNCHANGED <<datagrams, refs, onI, pcI>>
      /\ UNCHANGED <<live, frag, toSet, event, allocated, freeBufs, pcT, atT,
                     held, mayInject, sent, lost, fwList>>
      /\ pcT # "walk"
  BY DEF AnalyzeAdd, DatagramFree
<1>2. b \in ToSet(datagrams) /\ b \in InUse
  BY FoundListed DEF AnalyzeAdd, IndInv, BufferInv
<1>3. /\ f \in ToSet(queue)
      /\ queue' \in Seq(Requests) /\ IsInjective(queue')
      /\ ToSet(queue') = ToSet(queue) \ {f}
      /\ pcI = "drain"
  BY <1>1, QueueHead DEF IndInv
<1>4. d \in DataLists /\ d.list = buf[b].list \cup {f}
  BY CopyKeeps DEF AnalyzeAdd, IndInv, TypeInv
<1> HIDE DEF d
<1>5. /\ buf' \in [Buffers -> DataLists]
      /\ buf'[b].list = buf[b].list \cup {f}
      /\ \A a \in Buffers : a # b => buf'[a].list = buf[a].list
  BY <1>1, <1>4 DEF IndInv, TypeInv
<1>6. /\ datagrams' \in Seq(Buffers) /\ IsInjective(datagrams')
      /\ Len(datagrams') \in Nat
      /\ \/ /\ ToSet(datagrams') = ToSet(datagrams)
            /\ refs' = refs /\ onI' = onI /\ pcI' = pcI
         \/ /\ ToSet(datagrams') = ToSet(datagrams) \ {b}
            /\ refs' = [refs EXCEPT ![b] = 1]
            /\ onI' = b
            /\ pcI' = "deliver"
  BY <1>1, DatagramLeaves DEF IndInv, TypeInv
<1>7. InUse' = InUse /\ Keepers(b) = {} /\ onI = NULL
  BY <1>1, <1>2, <1>3 DEF InUse, IndInv, BufferInv, WalkInv
<1>8. atT = 0 /\ b # NULL
  BY <1>1, ConstantsAssumption DEF IndInv, TypeInv, ConstantsAssumption
<1>9. TypeInv'
  <2>1. refs \in [Buffers -> Nat]
    BY DEF IndInv, TypeInv
  <2>2. refs' = refs \/ refs' = [refs EXCEPT ![b] = 1]
    BY <1>6
  <2>3. refs' \in [Buffers -> Nat]
    BY <2>1, <2>2
  <2>4. pcI' \in {"wait", "drain", "deliver", "free"} /\ onI' \in Buffers \cup {NULL}
    BY <1>6 DEF IndInv, TypeInv
  <2>. QED
    BY <1>1, <1>3, <1>5, <1>6, <1>8, <2>3, <2>4 DEF IndInv, TypeInv
<1>10. PlaceInv'
  <2>1. InUse \subseteq Buffers
    BY DEF InUse, IndInv, TypeInv
  <2>2. \A a \in InUse : buf[a].list \subseteq Requests
    BY <2>1 DEF IndInv, TypeInv, DataLists
  <2>. QED
    BY <1>1, <1>2, <1>3, <1>5, <1>7, <2>1, <2>2 DEF IndInv, PlaceInv
<1>11. BufferInv'
  <2>1. \A a \in Buffers : Keepers(a)' = Keepers(a)
    BY <1>1 DEF Keepers
  <2>2. /\ refs \in [Buffers -> Nat] /\ Cardinality(Keepers(b)) = 0
        /\ \A a \in Buffers :
             refs[a] = Cardinality(Keepers(a)) + (IF onI = a THEN 1 ELSE 0)
    BY <1>7, References DEF IndInv, TypeInv, BufferInv
  <2>3. \A a \in Buffers : /\ a # onI /\ refs[a] = Cardinality(Keepers(a))
                            /\ Cardinality(Keepers(a)) \in Nat
    <3>1. \A a \in Buffers : Cardinality(Keepers(a)) \in Nat
      BY References DEF IndInv
    <3>. QED
      BY <1>7, <2>2, <3>1, ConstantsAssumption DEF ConstantsAssumption
  <2>4. \A a \in Buffers :
          refs'[a] = Cardinality(Keepers(a)) + (IF onI' = a THEN 1 ELSE 0)
    <3>1. CASE refs' = refs /\ onI' = onI
      BY <2>2, <3>1
    <3>2. CASE refs' = [refs EXCEPT ![b] = 1] /\ onI' = b
      BY <2>2, <2>3, <3>2
    <3>. QED
      BY <1>6, <3>1, <3>2
  <2>5. \A a \in Buffers :
          IsFiniteSet(Keepers(a))' /\ Cardinality(Keepers(a))' = Cardinality(Keepers(a))
    BY <2>1 DEF IndInv, BufferInv
  <2>6. InUse \subseteq Buffers
    BY DEF InUse, IndInv, TypeInv
  <2>7. /\ ToSet(datagrams)' \subseteq InUse
        /\ \A a \in ToSet(datagrams)' : a # onI' /\ Keepers(a) = {}
        /\ \A a \in Buffers : a = onI' \/ Keepers(a) # {} => a \in InUse
        /\ \A a \in InUse : a \in ToSet(datagrams)' \/ a = onI' \/ Keepers(a) # {}
    <3>1. CASE onI' = onI /\ ToSet(datagrams') = ToSet(datagrams)
      BY <3>1 DEF IndInv, BufferInv
    <3>2. CASE ToSet(datagrams') = ToSet(datagrams) \ {b} /\ onI' = b
      BY <1>2, <1>7, <2>3, <2>6, <3>2 DEF IndInv, BufferInv
    <3>. QED
      BY <1>6, <3>1, <3>2
  <2>8. \A a \in ToSet(datagrams)' : a \in Buffers
    BY <2>6, <2>7
  <2>. QED
    BY <1>7, <2>1, <2>4, <2>5, <2>6, <2>7, <2>8 DEF BufferInv
<1>12. WalkInv'
  BY <1>1, <1>3, <1>6, <1>7, <1>8 DEF IndInv, WalkInv, Keepers, Registered
<1>13. ASSUME SentInv PROVE SentInv'
  <2>1. sent[f] = 0 /\ \A g \in buf[b].list : sent[g] = 0
    BY <1>2, <1>3, <1>13 DEF SentInv, Unsent
  <2>2. \A a \in Buffers : Unsent(a)' => Unsent(a) \/ a = b
    BY <1>1, <1>6 DEF Unsent
  <2>. QED
    BY <1>1, <1>3, <1>5, <1>13, <2>1, <2>2 DEF SentInv
<1>. QED
  BY <1>9, <1>10, <1>11, <1>12, <1>13 DEF IndInv, DocumentedAnswers

\* A datagram is begun, in a buffer that is free or new.
LEMMA AnalyzeNewKeeps ==
    ASSUME IndInv, NEW f \in Requests, NEW w \in Wire, NEW b \in Buffers,
           AnalyzeNew(f, w, b)
    PROVE  IndInv'
<1> USE DEF threadVars, clientVars
<1>1. /\ Analyzing(f, w)
      /\ ruleAllocDatagramWorkBuffer(b)
      /\ buf' = [buf EXCEPT ![b] = CopyInto(NewDatagram(b, w), f, w)]
      /\ datagrams' = Append(datagrams, b)
      /\ UNCHANGED <<live, frag, toSet, event, threadVars, clientVars, lost,
                     fwList>>
      /\ pcT # "walk"
  BY DEF AnalyzeNew, DatagramFree
<1>2. /\ b \notin InUse /\ InUse' = InUse \cup {b}
      /\ freeBufs' \subseteq allocated' /\ allocated' \subseteq Buffers
  BY <1>1 DEF ruleAllocDatagramWorkBuffer, InUse, IndInv, TypeInv
<1>3. /\ f \in ToSet(queue)
      /\ queue' \in Seq(Requests) /\ IsInjective(queue')
      /\ ToSet(queue') = ToSet(queue) \ {f}
  BY <1>1, QueueHead DEF IndInv
<1>4. CopyInto(NewDatagram(b, w), f, w) \in DataLists
      /\ CopyInto(NewDatagram(b, w), f, w).list = {f}
  BY NewKeeps, CopyKeeps DEF AnalyzeNew
<1>5. /\ buf' \in [Buffers -> DataLists]
      /\ buf'[b].list = {f}
      /\ \A a \in Buffers : a # b => buf'[a].list = buf[a].list
  BY <1>1, <1>4 DEF IndInv, TypeInv
<1>6. b \notin ToSet(datagrams) /\ b # onI /\ Keepers(b) = {}
  BY <1>2 DEF IndInv, BufferInv
<1>7. /\ datagrams' \in Seq(Buffers) /\ IsInjective(datagrams')
      /\ Len(datagrams') \in Nat
      /\ ToSet(datagrams') = ToSet(datagrams) \cup {b}
  BY <1>1, <1>6, AppendKeeps, Entries DEF IndInv, TypeInv
<1>8. atT = 0
  BY <1>1 DEF IndInv, TypeInv
<1>9. TypeInv'
  BY <1>1, <1>2, <1>3, <1>5, <1>7, <1>8 DEF IndInv, TypeInv
<1>10. PlaceInv'
  <2>1. InUse \subseteq Buffers
    BY DEF InUse, IndInv, TypeInv
  <2>. QED
    BY <1>1, <1>2, <1>3, <1>5, <2>1 DEF IndInv, PlaceInv
<1>11. BufferInv'
  BY <1>1, <1>2, <1>6, <1>7 DEF IndInv, BufferInv, Keepers
<1>12. WalkInv'
  BY <1>1 DEF IndInv, WalkInv, Keepers, Registered
<1>13. ASSUME SentInv PROVE SentInv'
  <2>1. sent[f] = 0
    BY <1>3, <1>13 DEF SentInv
  <2>2. \A a \in Buffers : Unsent(a)' => Unsent(a) \/ a = b
    BY <1>1, <1>7 DEF Unsent
  <2>. QED
    BY <1>1, <1>3, <1>5, <1>13, <2>1, <2>2 DEF SentInv
<1>. QED
  BY <1>9, <1>10, <1>11, <1>12, <1>13 DEF IndInv, DocumentedAnswers

\* An expired datagram is freed with its fragments.
LEMMA TtlExpireKeeps ==
    ASSUME IndInv, TtlExpire
    PROVE  IndInv'
<1> USE DEF queueVars, clientVars
<1> DEFINE b == datagrams[atT]
<1>1. /\ atT \in DOMAIN datagrams
      /\ datagrams' = Unlink(datagrams, b)
      /\ FreeDatagram(b)
      /\ atT' = 1
      /\ UNCHANGED <<queueVars, buf, allocated, pcI, onI, pcT, clientVars, lost,
                     fwList>>
  BY DEF TtlExpire
<1>2. b \in ToSet(datagrams) /\ b \in Buffers
  BY <1>1, Entries DEF IndInv, TypeInv
<1> HIDE DEF b
<1>3. b \in InUse
  BY <1>2 DEF IndInv, BufferInv
<1>4. /\ datagrams' \in Seq(Buffers) /\ IsInjective(datagrams')
      /\ ToSet(datagrams') = ToSet(datagrams) \ {b}
      /\ Len(datagrams') \in Nat
  BY <1>1, DatagramLeaves DEF IndInv
<1>5. /\ InUse' = InUse \ {b}
      /\ live' = live \ buf[b].list /\ freeBufs' = freeBufs \cup {b}
  BY <1>1 DEF InUse, FreeDatagram
<1>6. frag' \in [Requests -> Wire \cup {NULL}]
  BY <1>1 DEF FreeDatagram, IndInv, TypeInv
<1>7. TypeInv'
  BY <1>1, <1>2, <1>3, <1>4, <1>5, <1>6 DEF IndInv, TypeInv, InUse
<1>8. PlaceInv'
  BY <1>1, <1>3, <1>5 DEF IndInv, PlaceInv
<1>9. BufferInv'
  BY <1>1, <1>2, <1>4, <1>5 DEF IndInv, BufferInv, Keepers
<1>10. WalkInv'
  BY <1>1 DEF IndInv, WalkInv, Keepers, Registered
<1>11. ASSUME SentInv PROVE SentInv'
  BY <1>1, <1>4, <1>11 DEF SentInv, Unsent
<1>. QED
  BY <1>7, <1>8, <1>9, <1>10, <1>11 DEF IndInv, DocumentedAnswers

\* A second passes for a datagram.
LEMMA TtlKeeps ==
    ASSUME NEW d \in DataLists, d.ttl > 0
    PROVE  /\ [d EXCEPT !.ttl = @ - 1] \in DataLists
           /\ [d EXCEPT !.ttl = @ - 1].list = d.list
  BY DEF DataLists

\* Steps that move neither requests nor buffers.
LEMMA QuietSteps ==
    ASSUME IndInv,
           \/ SetEvent \/ IntermWait \/ IntermDone
           \/ TtlWake \/ TtlStep \/ TtlDone \/ UNCHANGED vars
    PROVE  IndInv'
<1>1. CASE SetEvent
  <2>1. toSet' \in 0..MaxReceiving
    BY <1>1, ConstantsAssumption
       DEF SetEvent, ConstantsAssumption, IndInv, TypeInv
  <2>2. TypeInv'
    BY <1>1, <2>1
       DEF SetEvent, bufVars, threadVars, clientVars, IndInv, TypeInv
  <2>. QED
    BY <1>1, <2>2, QuietKeeps DEF SetEvent, bufVars, threadVars, clientVars
<1>2. CASE IntermWait
  <2>1. TypeInv'
    BY <1>2 DEF IntermWait, bufVars, clientVars, IndInv, TypeInv
  <2>. QED
    BY <1>2, <2>1, QuietKeeps DEF IntermWait, bufVars, clientVars
<1>3. CASE IntermDone
  <2>1. TypeInv'
    BY <1>3 DEF IntermDone, queueVars, bufVars, clientVars, IndInv, TypeInv
  <2>. QED
    BY <1>3, <2>1, QuietKeeps DEF IntermDone, queueVars, bufVars, clientVars
<1>4. CASE TtlWake
  <2>1. 1 \in 0..(Len(datagrams) + 1)
    BY Entries DEF IndInv, TypeInv
  <2>2. TypeInv'
    BY <1>4, <2>1 DEF TtlWake, queueVars, bufVars, clientVars, IndInv, TypeInv
  <2>. QED
    BY <1>4, <2>2, QuietKeeps DEF TtlWake, queueVars, bufVars, clientVars
<1>5. CASE TtlStep
  <2> DEFINE b == datagrams[atT]
  <2>1. b \in Buffers /\ atT + 1 \in 0..(Len(datagrams) + 1)
    BY <1>5, Entries DEF TtlStep, IndInv, TypeInv
  <2>2. buf' = [buf EXCEPT ![b] = [buf[b] EXCEPT !.ttl = @ - 1]] /\ buf[b].ttl > 0
    BY <1>5 DEF TtlStep
  <2> HIDE DEF b
  <2>3. buf \in [Buffers -> DataLists] /\ buf[b] \in DataLists
    BY <2>1 DEF IndInv, TypeInv
  <2>4. /\ buf' \in [Buffers -> DataLists]
        /\ \A a \in Buffers : buf'[a].list = buf[a].list
    BY <2>1, <2>2, <2>3, TtlKeeps
  <2>5. TypeInv'
    BY <1>5, <2>1, <2>4 DEF TtlStep, queueVars, clientVars, IndInv, TypeInv
  <2>. QED
    BY <1>5, <2>4, <2>5, QuietKeeps DEF TtlStep, queueVars, clientVars
<1>6. CASE TtlDone
  <2>1. 0 \in 0..(Len(datagrams) + 1)
    BY Entries DEF IndInv, TypeInv
  <2>2. TypeInv'
    BY <1>6, <2>1 DEF TtlDone, queueVars, bufVars, clientVars, IndInv, TypeInv
  <2>. QED
    BY <1>6, <2>2, QuietKeeps DEF TtlDone, queueVars, bufVars, clientVars
<1>7. CASE UNCHANGED vars
  <2>1. TypeInv'
    BY <1>7
       DEF vars, queueVars, bufVars, threadVars, clientVars, IndInv, TypeInv
  <2>. QED
    BY <1>7, <2>1, QuietKeeps
       DEF vars, queueVars, bufVars, threadVars, clientVars
<1>. QED
  BY <1>1, <1>2, <1>3, <1>4, <1>5, <1>6, <1>7

-----------------------------------------------------------------------------
(* The clients *)

\* A walk ends at the tail of the queue, or behind the client who stops it.
LEMMA Outcomes ==
    ASSUME NEW asked \in Seq(Clients), NEW o \in ProcessRequest(asked)
    PROVE  \/ /\ o.stopper = {} /\ o.answer = "SUCCESS"
              /\ o.passed = Before(asked, Len(asked))
              /\ o.kept \subseteq Before(asked, Len(asked))
           \/ \E k \in 0..(Len(asked) - 1) :
                  /\ o.stopper = {asked[k + 1]}
                  /\ o.answer \in Answers \ {"SUCCESS"}
                  /\ o.passed = Before(asked, k)
                  /\ o.kept \subseteq Before(asked, k) \cup {asked[k + 1]}
<1>1. CASE \E kept \in SUBSET (Before(asked, Len(asked)) \cup {}) :
             o = [passed |-> Before(asked, Len(asked)), stopper |-> {},
                  answer |-> "SUCCESS", kept |-> kept]
  BY <1>1
<1>2. CASE \E k \in 0..(Len(asked) - 1) : \E a \in Answers \ {"SUCCESS"} :
           \E kept \in SUBSET (Before(asked, k) \cup {asked[k + 1]}) :
             o = [passed |-> Before(asked, k), stopper |-> {asked[k + 1]},
                  answer |-> a, kept |-> kept]
  BY <1>2
<1>3. \/ \E kept \in SUBSET (Before(asked, Len(asked)) \cup {}) :
             o = [passed |-> Before(asked, Len(asked)), stopper |-> {},
                  answer |-> "SUCCESS", kept |-> kept]
      \/ \E k \in 0..(Len(asked) - 1) : \E a \in Answers \ {"SUCCESS"} :
           \E kept \in SUBSET (Before(asked, k) \cup {asked[k + 1]}) :
             o = [passed |-> Before(asked, k), stopper |-> {asked[k + 1]},
                  answer |-> a, kept |-> kept]
  BY Z3 DEF ProcessRequest, Before
<1>. QED
  BY <1>1, <1>2, <1>3

\* What showing the datagram in b to the clients in asked does: kept are those
\* with a new clone, next the one of them, if any, that may pass it on, and ok
\* says whether the fragments are handed back.
Shown(b, asked, may, kept, next, ok) ==
    /\ kept \subseteq asked /\ IsFiniteSet(kept)
    /\ held' = [c \in Clients |-> held[c] \cup {d \in {b} : c \in kept}]
    /\ mayInject' = [c \in Clients |-> may[c] \cup {d \in {b} : c \in next}]
    /\ refs' = [refs EXCEPT ![b] = @ + Cardinality(kept)]
    /\ sent' = [f \in Requests |->
                  IF ok /\ f \in buf[b].list /\ sent[f] < 2
                  THEN sent[f] + 1 ELSE sent[f]]
    /\ next \subseteq kept
    /\ \A c \in next : /\ next = {c}
                       /\ After(fwList, c) \subseteq asked
                       /\ After(fwList, c) \cap kept = {}
    /\ DocumentedAnswers /\ ok => next = {}

\* FWInjectRequest over the rest of the list of instances.
LEMMA InjectDoes ==
    ASSUME TypeInv, NEW b \in Buffers, NEW may,
           NEW asked \in Seq(Clients), NEW m \in 0..Len(fwList),
           RestOf(asked, fwList, m), FWInjectRequest(b, asked, may)
    PROVE  /\ ToSet(asked) \subseteq Registered
           /\ \E kept, next \in SUBSET Clients, ok \in BOOLEAN :
                  Shown(b, ToSet(asked), may, kept, next, ok)
<1>1. fwList \in Seq(Clients) /\ IsInjective(fwList) /\ Len(fwList) \in Nat
  BY DEF TypeInv
<1>2. /\ Before(asked, Len(asked)) = ToSet(asked)
      /\ \A k \in 0..(Len(asked) - 1) :
             /\ asked[k + 1] \in ToSet(asked)
             /\ ToSet(asked) = Before(asked, k) \cup {asked[k + 1]}
                                 \cup After(fwList, asked[k + 1])
             /\ (Before(asked, k) \cup {asked[k + 1]})
                  \cap After(fwList, asked[k + 1]) = {}
      /\ ToSet(asked) = {fwList[j] : j \in (m + 1)..Len(fwList)}
  BY <1>1, RestEntries
<1>3. ToSet(asked) \subseteq Registered
  <2>1. (m + 1)..Len(fwList) \subseteq 1..Len(fwList)
    BY <1>1
  <2>. QED
    BY <1>1, <1>2, <2>1, Entries DEF Registered
<1>4. ToSet(asked) \subseteq Clients /\ IsFiniteSet(ToSet(asked))
  BY <1>1, <1>3, Entries, EntriesCounted, FS_Subset DEF Registered
<1>5. PICK o \in ProcessRequest(asked) :
        /\ held' = [c \in Clients |-> held[c] \cup {d \in {b} : c \in o.kept}]
        /\ mayInject' = [c \in Clients |->
              may[c] \cup {d \in {b} : c \in o.kept \cap o.stopper}]
        /\ refs' = [refs EXCEPT ![b] = @ + Cardinality(o.kept)]
        /\ sent' = [f \in Requests |->
              IF NT_SUCCESS(o.answer) /\ f \in buf[b].list /\ sent[f] < 2
              THEN sent[f] + 1 ELSE sent[f]]
  BY DEF FWInjectRequest
<1> DEFINE kept == o.kept
           next == o.kept \cap o.stopper
           ok == NT_SUCCESS(o.answer)
<1>6. /\ kept \subseteq ToSet(asked) /\ next \subseteq kept
      /\ \A c \in next : /\ next = {c}
                         /\ After(fwList, c) \subseteq ToSet(asked)
                         /\ After(fwList, c) \cap kept = {}
      /\ DocumentedAnswers /\ ok => next = {}
  <2>1. CASE /\ o.stopper = {} /\ o.answer = "SUCCESS"
             /\ o.kept \subseteq Before(asked, Len(asked))
    BY <1>2, <2>1
  <2>2. ASSUME NEW k \in 0..(Len(asked) - 1), o.stopper = {asked[k + 1]},
               o.answer \in Answers \ {"SUCCESS"},
               o.kept \subseteq Before(asked, k) \cup {asked[k + 1]}
        PROVE  /\ kept \subseteq ToSet(asked)
               /\ \A c \in next : /\ next = {c}
                                  /\ After(fwList, c) \subseteq ToSet(asked)
                                  /\ After(fwList, c) \cap kept = {}
               /\ ~(DocumentedAnswers /\ ok)
    <3>1. ~(DocumentedAnswers /\ ok)
      BY <2>2 DEF NT_SUCCESS, DocumentedAnswers
    <3>2. \A c \in next : c = asked[k + 1] /\ next = {c}
      BY <2>2
    <3>3. /\ ToSet(asked) = Before(asked, k) \cup {asked[k + 1]}
                              \cup After(fwList, asked[k + 1])
          /\ (Before(asked, k) \cup {asked[k + 1]})
               \cap After(fwList, asked[k + 1]) = {}
          /\ kept \subseteq Before(asked, k) \cup {asked[k + 1]}
      BY <1>2, <2>2
    <3> HIDE DEF kept, next, ok
    <3>. QED
      BY <3>1, <3>2, <3>3
  <2>3. next \subseteq kept
    OBVIOUS
  <2>4. \/ /\ o.stopper = {} /\ o.answer = "SUCCESS"
           /\ o.kept \subseteq Before(asked, Len(asked))
        \/ \E k \in 0..(Len(asked) - 1) :
               /\ o.stopper = {asked[k + 1]}
               /\ o.answer \in Answers \ {"SUCCESS"}
               /\ o.kept \subseteq Before(asked, k) \cup {asked[k + 1]}
    BY <1>5, Outcomes
  <2> HIDE DEF kept, next, ok
  <2>. QED
    BY <2>1, <2>2, <2>3, <2>4
<1>7. /\ held' = [c \in Clients |-> held[c] \cup {d \in {b} : c \in kept}]
      /\ mayInject' = [c \in Clients |-> may[c] \cup {d \in {b} : c \in next}]
      /\ refs' = [refs EXCEPT ![b] = @ + Cardinality(kept)]
      /\ sent' = [f \in Requests |->
                    IF ok /\ f \in buf[b].list /\ sent[f] < 2
                    THEN sent[f] + 1 ELSE sent[f]]
      /\ ok \in BOOLEAN
  BY <1>5 DEF NT_SUCCESS
<1> HIDE DEF kept, next, ok
<1>8. IsFiniteSet(kept) /\ kept \subseteq Clients /\ next \subseteq Clients
  BY <1>4, <1>6, FS_Subset
<1>. QED
  BY <1>3, <1>6, <1>7, <1>8 DEF Shown

\* The clients behind c are a rest of the list.
LEMMA BehindIsRest ==
    ASSUME TypeInv, NEW c \in Registered
    PROVE  /\ Behind(c) \in Seq(Clients) /\ ToSet(Behind(c)) = After(fwList, c)
           /\ \E m \in 0..Len(fwList) : RestOf(Behind(c), fwList, m)
<1> DEFINE k == CHOOSE j \in 1..Len(fwList) : fwList[j] = c
<1>1. fwList \in Seq(Clients) /\ IsInjective(fwList) /\ Len(fwList) \in Nat
  BY DEF TypeInv
<1>2. k \in 1..Len(fwList) /\ fwList[k] = c
  <2>1. \E j \in 1..Len(fwList) : fwList[j] = c
    BY <1>1, Entries DEF Registered
  <2>. QED
    BY <2>1
<1>3. Behind(c) = SubSeq(fwList, k + 1, Len(fwList))
  BY DEF Behind
<1> HIDE DEF k
<1>4. k \in 0..Len(fwList)
  BY <1>1, <1>2
<1>5. Behind(c) \in Seq(Clients) /\ RestOf(Behind(c), fwList, k)
  BY <1>1, <1>3, <1>4, RestOfList
<1>6. ToSet(Behind(c)) = {fwList[j] : j \in (k + 1)..Len(fwList)}
  BY <1>1, <1>4, <1>5, RestEntries
<1>. QED
  BY <1>1, <1>2, <1>4, <1>5, <1>6, AfterEntry

\* A datagram that is shown to clients of whom none has a clone of it, and that
\* nobody else may pass on.
LEMMA ShownKeeps ==
    ASSUME IndInv, NEW b \in Buffers, Unsent(b), b \notin ToSet(datagrams),
           NEW asked \in SUBSET Registered, \A c \in asked : b \notin held[c],
           NEW may \in [Clients -> SUBSET Buffers],
           \A c \in Clients : may[c] = mayInject[c] \ {b},
           NEW kept \in SUBSET Clients, NEW next \in SUBSET Clients,
           NEW ok \in BOOLEAN, Shown(b, asked, may, kept, next, ok),
           UNCHANGED <<live, frag, queueVars, bufVars, onI, pcT, atT, lost, fwList>>,
           \/ b = onI /\ pcI' = "free"
           \/ ~(pcI = "deliver" /\ b = onI) /\ pcI' = pcI
    PROVE  IndInv'
<1> USE DEF queueVars, bufVars
<1>1. b \in InUse
  BY UnsentInUse DEF IndInv
<1>2. /\ \A c \in Clients : held'[c] = held[c] \cup {d \in {b} : c \in kept}
      /\ \A c \in Clients :
           mayInject'[c] = (mayInject[c] \ {b}) \cup {d \in {b} : c \in next}
      /\ kept \subseteq asked /\ next \subseteq kept
  BY DEF Shown
<1>3. sent \in [Requests -> 0..2] /\ \A f \in Requests :
        sent'[f] = IF ok /\ f \in buf[b].list /\ sent[f] < 2
                   THEN sent[f] + 1 ELSE sent[f]
  BY DEF Shown, IndInv, TypeInv
<1>4. /\ Keepers(b)' = Keepers(b) \cup kept /\ Keepers(b) \cap kept = {}
      /\ \A a \in Buffers : a # b => Keepers(a)' = Keepers(a)
  BY <1>2 DEF Keepers
<1>5. Cardinality(kept) \in Nat /\ IsFiniteSet(kept)
  BY FS_CardinalityType DEF Shown
<1>6. TypeInv'
  <2>1. held' \in [Clients -> SUBSET Buffers]
    BY DEF Shown, IndInv, TypeInv
  <2>2. mayInject' \in [Clients -> SUBSET Buffers]
    BY DEF Shown
  <2>3. refs' \in [Buffers -> Nat]
    <3>1. refs[b] + Cardinality(kept) \in Nat /\ refs \in [Buffers -> Nat]
      BY <1>5 DEF IndInv, TypeInv
    <3>2. refs' = [refs EXCEPT ![b] = @ + Cardinality(kept)]
      BY DEF Shown
    <3>. QED
      BY <3>1, <3>2
  <2>4. sent' \in [Requests -> 0..2]
    <3>1. \A f \in Requests : sent'[f] \in 0..2
      BY <1>3
    <3>2. sent' = [f \in Requests |-> sent'[f]]
      BY DEF Shown
    <3>. QED
      BY <3>1, <3>2
  <2>5. pcI' \in {"wait", "drain", "deliver", "free"}
    BY DEF IndInv, TypeInv
  <2>. QED
    BY <2>1, <2>2, <2>3, <2>4, <2>5 DEF IndInv, TypeInv
<1>7. PlaceInv'
  BY DEF IndInv, PlaceInv, InUse
<1>8. BufferInv'
  <2>1. IsFiniteSet(Keepers(b) \cup kept)
        /\ Cardinality(Keepers(b) \cup kept) = Cardinality(Keepers(b)) + Cardinality(kept)
    <3>1. /\ IsFiniteSet(Keepers(b)) /\ IsFiniteSet(Keepers(b) \cup kept)
          /\ Cardinality(Keepers(b) \cup kept) =
               Cardinality(Keepers(b)) + Cardinality(kept)
                 - Cardinality(Keepers(b) \cap kept)
      BY <1>5, FS_Union DEF IndInv, BufferInv
    <3>2. Cardinality(Keepers(b) \cap kept) = 0 /\ Cardinality(Keepers(b)) \in Nat
      BY <1>4, <3>1, FS_EmptySet, FS_CardinalityType
    <3>. QED
      BY <1>5, <3>1, <3>2
  <2>2. /\ refs \in [Buffers -> Nat]
        /\ refs' = [refs EXCEPT ![b] = @ + Cardinality(kept)]
        /\ \A a \in Buffers :
             /\ IsFiniteSet(Keepers(a)) /\ Cardinality(Keepers(a)) \in Nat
             /\ refs[a] = Cardinality(Keepers(a)) + (IF onI = a THEN 1 ELSE 0)
    BY References DEF Shown, IndInv, TypeInv, BufferInv
  <2>3. /\ IsFiniteSet(Keepers(b)')
        /\ refs'[b] = Cardinality(Keepers(b)') + (IF onI = b THEN 1 ELSE 0)
    <3> DEFINE i == IF onI = b THEN 1 ELSE 0
    <3>1. refs'[b] = refs[b] + Cardinality(kept)
      BY <2>2
    <3>2. refs[b] = Cardinality(Keepers(b)) + i /\ i \in Nat
      BY <2>2
    <3>3. Cardinality(Keepers(b)') = Cardinality(Keepers(b)) + Cardinality(kept)
      BY <1>4, <2>1
    <3> HIDE DEF i
    <3>4. refs'[b] = Cardinality(Keepers(b)') + i
      BY <1>5, <2>2, <3>1, <3>2, <3>3
    <3>. QED
      BY <1>4, <2>1, <3>4 DEF i
  <2>4. ASSUME NEW a \in Buffers, a # b
        PROVE  /\ IsFiniteSet(Keepers(a)')
               /\ refs'[a] = Cardinality(Keepers(a)') + (IF onI = a THEN 1 ELSE 0)
    BY <1>4, <2>2, <2>4
  <2>5. InUse' = InUse /\ InUse \subseteq Buffers
    BY DEF InUse, IndInv, TypeInv
  <2>6. \A a \in Buffers :
          a \in ToSet(datagrams) => a # onI /\ Keepers(a)' = {}
    BY <1>4 DEF IndInv, BufferInv
  <2>7. \A a \in Buffers : a = onI \/ Keepers(a)' # {} => a \in InUse
    BY <1>1, <1>4 DEF IndInv, BufferInv
  <2>8. \A a \in InUse :
          a \in ToSet(datagrams) \/ a = onI \/ Keepers(a)' # {}
    BY <1>4, <2>5 DEF IndInv, BufferInv
  <2>9. ToSet(datagrams) \subseteq InUse
    BY DEF IndInv, BufferInv
  <2>. QED
    BY <2>3, <2>4, <2>5, <2>6, <2>7, <2>8, <2>9 DEF BufferInv
<1>9. WalkInv'
  <2>1. onI' # NULL <=> pcI' \in {"deliver", "free"}
    BY ConstantsAssumption DEF ConstantsAssumption, IndInv, WalkInv
  <2>2. pcI' = "deliver" => Keepers(onI)' = {}
    <3>1. ASSUME pcI' = "deliver" PROVE onI \in Buffers /\ onI # b /\ Keepers(onI) = {}
      BY <3>1 DEF IndInv, TypeInv, WalkInv
    <3>. QED
      BY <1>4, <3>1
  <2>3. ASSUME NEW c \in Clients
        PROVE  /\ mayInject'[c] \subseteq held'[c]
               /\ held'[c] # {} => c \in Registered
    BY <1>2 DEF IndInv, WalkInv
  <2>4. ASSUME NEW c \in Clients, NEW d \in Clients, NEW a \in mayInject'[c],
               a \in mayInject'[d]
        PROVE  c = d
    <3>1. CASE a = b
      <4>1. c \in next /\ d \in next
        BY <1>2, <2>4, <3>1
      <4>. QED
        BY <4>1 DEF Shown
    <3>2. CASE a # b
      BY <1>2, <2>4, <3>2 DEF IndInv, WalkInv
    <3>. QED
      BY <3>1, <3>2
  <2>5. ASSUME NEW c \in Clients, NEW a \in mayInject'[c], NEW d \in After(fwList, c)
        PROVE  a \notin held'[d]
    <3>0. d \in Clients
      BY Ordered, Entries DEF IndInv, TypeInv
    <3>1. CASE a = b
      <4>1. c \in next
        BY <1>2, <3>1
      <4>2. d \in asked /\ d \notin kept
        BY <4>1 DEF Shown
      <4>. QED
        BY <1>2, <3>0, <3>1, <4>2
    <3>2. CASE a # b
      BY <1>2, <3>0, <3>2 DEF IndInv, WalkInv
    <3>. QED
      BY <3>1, <3>2
  <2>. QED
    BY <2>1, <2>2, <2>3, <2>4, <2>5 DEF WalkInv, Registered
<1>10. ASSUME SentInv, DocumentedAnswers PROVE SentInv'
  <2>1. \A f \in buf[b].list : sent[f] = 0
    BY <1>10 DEF SentInv
  <2>2. \A f \in Requests : sent'[f] \in 0..1
    BY <1>3, <1>10, <2>1 DEF SentInv
  <2>3. \A f \in ToSet(queue) : f \in Requests /\ sent'[f] = 0
    <3>1. \A f \in ToSet(queue) : f \in Requests
      BY Entries DEF IndInv, TypeInv
    <3>. QED
      BY <1>1, <1>3, <1>10, <3>1 DEF SentInv, IndInv, PlaceInv
  <2>4. ASSUME NEW a \in Buffers, Unsent(a)', NEW f \in buf[a].list
        PROVE  sent'[f] = 0
    <3>1. f \in Requests
      BY DEF IndInv, TypeInv, DataLists
    <3>2. CASE a = b
      <4>1. PICK c \in Clients : b \in mayInject'[c]
        BY <2>4, <3>2 DEF Unsent
      <4>2. c \in next
        BY <1>2, <4>1
      <4>3. ~ok
        BY <1>10, <4>2 DEF Shown
      <4>. QED
        BY <1>3, <2>1, <3>1, <3>2, <4>3
    <3>3. CASE a # b
      <4>1. Unsent(a)
        BY <1>2, <2>4, <3>3 DEF Unsent
      <4>2. sent[f] = 0 /\ a \in InUse
        BY <1>10, <4>1, UnsentInUse DEF SentInv, IndInv
      <4>3. f \notin buf[b].list
        BY <1>1, <3>3, <4>2 DEF IndInv, PlaceInv
      <4>. QED
        BY <1>3, <3>1, <4>2, <4>3
    <3>. QED
      BY <3>2, <3>3
  <2>. QED
    BY <2>2, <2>3, <2>4 DEF SentInv
<1>. QED
  BY <1>6, <1>7, <1>8, <1>9, <1>10 DEF IndInv, DocumentedAnswers

\* A complete datagram is shown to every client.
LEMMA DeliverKeeps ==
    ASSUME IndInv, Deliver
    PROVE  IndInv'
<1>1. /\ pcI = "deliver" /\ pcI' = "free"
      /\ FWInjectRequest(onI, fwList, mayInject)
      /\ UNCHANGED <<live, frag, queueVars, bufVars, onI, pcT, atT, lost, fwList>>
  BY DEF Deliver
<1>2. /\ onI \in Buffers /\ Unsent(onI) /\ onI \notin ToSet(datagrams)
      /\ \A c \in Clients : onI \notin held[c]
  BY <1>1 DEF IndInv, TypeInv, WalkInv, BufferInv, Unsent, Keepers
<1>3. /\ fwList \in Seq(Clients) /\ 0 \in 0..Len(fwList)
      /\ RestOf(fwList, fwList, 0) /\ Registered \subseteq Clients
  BY Entries DEF IndInv, TypeInv, RestOf, Registered
<1>4. PICK kept, next \in SUBSET Clients, ok \in BOOLEAN :
        Shown(onI, Registered, mayInject, kept, next, ok)
  BY <1>1, <1>2, <1>3, InjectDoes DEF IndInv, Registered
<1>5. /\ mayInject \in [Clients -> SUBSET Buffers]
      /\ \A c \in Clients : mayInject[c] = mayInject[c] \ {onI}
      /\ \A c \in Registered : onI \notin held[c]
  BY <1>2, <1>3 DEF IndInv, TypeInv, WalkInv
<1>. QED
  BY <1>1, <1>2, <1>4, <1>5, ShownKeeps

\* A client passes on what it had stopped, to those behind it.
LEMMA ClientInjectKeeps ==
    ASSUME IndInv, NEW c \in Clients, NEW b \in Buffers, ClientInject(c, b)
    PROVE  IndInv'
<1> DEFINE may == [mayInject EXCEPT ![c] = @ \ {b}]
<1>1. /\ b \in mayInject[c]
      /\ FWInjectRequest(b, Behind(c), may)
      /\ UNCHANGED <<live, frag, queueVars, bufVars, threadVars, lost, fwList>>
  BY DEF ClientInject
<1>2. /\ c \in Registered /\ Unsent(b) /\ Keepers(b) # {}
      /\ \A d \in After(fwList, c) : b \notin held[d]
  BY <1>1 DEF IndInv, WalkInv, Unsent, Keepers
<1>3. b \notin ToSet(datagrams) /\ ~(pcI = "deliver" /\ b = onI)
  BY <1>2 DEF IndInv, BufferInv, WalkInv
<1>4. /\ may \in [Clients -> SUBSET Buffers]
      /\ \A d \in Clients : may[d] = mayInject[d] \ {b}
  <2>1. /\ mayInject \in [Clients -> SUBSET Buffers]
        /\ \A d \in Clients : d # c => b \notin mayInject[d]
    BY <1>1 DEF IndInv, TypeInv, WalkInv
  <2>. QED
    BY <2>1
<1> HIDE DEF may
<1>5. /\ Behind(c) \in Seq(Clients) /\ ToSet(Behind(c)) = After(fwList, c)
      /\ \E m \in 0..Len(fwList) : RestOf(Behind(c), fwList, m)
  BY <1>2, BehindIsRest DEF IndInv
<1>6. /\ After(fwList, c) \in SUBSET Registered
      /\ \E kept, next \in SUBSET Clients, ok \in BOOLEAN :
             Shown(b, After(fwList, c), may, kept, next, ok)
  BY <1>1, <1>5, InjectDoes DEF IndInv
<1>7. PICK kept, next \in SUBSET Clients, ok \in BOOLEAN :
        Shown(b, After(fwList, c), may, kept, next, ok)
  BY <1>6
<1>. QED
  BY <1>1, <1>2, <1>3, <1>4, <1>6, <1>7, ShownKeeps DEF threadVars

\* A reference goes, and with the last one the buffer: to the assembler's clone
\* (c is NULL) or to a client's.
LEMMA ReleaseKeeps ==
    ASSUME IndInv, NEW b \in Buffers, b \in InUse, b \notin ToSet(datagrams),
           FWFreeCloneRequest(b),
           UNCHANGED <<queueVars, datagrams, buf, allocated, pcT, atT, sent, lost,
                       fwList>>,
           \/ /\ b = onI /\ onI' = NULL /\ pcI = "free" /\ pcI' = "drain"
              /\ UNCHANGED <<held, mayInject>>
           \/ /\ UNCHANGED <<onI, pcI>>
              /\ \E c \in Clients :
                   /\ b \in held[c]
                   /\ held' = [held EXCEPT ![c] = @ \ {b}]
                   /\ mayInject' = [mayInject EXCEPT ![c] = @ \ {b}]
    PROVE  IndInv'
<1> USE DEF queueVars
<1>1. /\ refs \in [Buffers -> Nat] /\ held \in [Clients -> SUBSET Buffers]
      /\ mayInject \in [Clients -> SUBSET Buffers]
      /\ NULL \notin Buffers /\ InUse \subseteq Buffers
  BY ConstantsAssumption DEF ConstantsAssumption, IndInv, TypeInv, InUse
<1>2. /\ \A c \in Clients : /\ held'[c] \subseteq held[c]
                            /\ held[c] \subseteq held'[c] \cup {b}
                            /\ mayInject'[c] \subseteq mayInject[c]
      /\ \A c \in Clients : mayInject[c] \subseteq held[c] =>
                                mayInject'[c] \subseteq held'[c]
      /\ held' \in [Clients -> SUBSET Buffers]
      /\ mayInject' \in [Clients -> SUBSET Buffers]
  BY <1>1
<1>3. /\ \A a \in Buffers : a # b => Keepers(a)' = Keepers(a)
      /\ \A a \in Buffers : Keepers(a)' \subseteq Keepers(a)
  BY <1>2 DEF Keepers
<1>4. \A a \in Buffers : a # b => (onI' = a <=> onI = a)
  BY <1>1
<1>5. /\ IsFiniteSet(Keepers(b)') /\ Cardinality(Keepers(b)') \in Nat
      /\ refs[b] = Cardinality(Keepers(b)') + (IF onI' = b THEN 1 ELSE 0) + 1
  <2>1. /\ IsFiniteSet(Keepers(b)) /\ Cardinality(Keepers(b)) \in Nat
        /\ refs[b] = Cardinality(Keepers(b)) + (IF onI = b THEN 1 ELSE 0)
    BY References DEF IndInv, BufferInv
  <2>2. CASE b = onI /\ onI' = NULL /\ UNCHANGED <<held, mayInject>>
    <3>1. Keepers(b)' = Keepers(b) /\ onI' # b
      BY <1>1, <2>2 DEF Keepers
    <3>. QED
      BY <2>1, <2>2, <3>1
  <2>3. ASSUME NEW c \in Clients, b \in held[c],
               held' = [held EXCEPT ![c] = @ \ {b}], onI' = onI
        PROVE  /\ IsFiniteSet(Keepers(b)') /\ Cardinality(Keepers(b)') \in Nat
               /\ refs[b] = Cardinality(Keepers(b)') + (IF onI' = b THEN 1 ELSE 0) + 1
    <3>1. Keepers(b)' = Keepers(b) \ {c} /\ c \in Keepers(b)
      BY <1>1, <2>3 DEF Keepers
    <3>2. /\ IsFiniteSet(Keepers(b) \ {c})
          /\ Cardinality(Keepers(b) \ {c}) = Cardinality(Keepers(b)) - 1
          /\ Cardinality(Keepers(b) \ {c}) \in Nat
      BY <2>1, <3>1, FS_RemoveElement, FS_CardinalityType
    <3>. QED
      BY <2>1, <2>3, <3>1, <3>2
  <2>. QED
    BY <2>2, <2>3
<1>6. refs' = [refs EXCEPT ![b] = @ - 1]
  BY DEF FWFreeCloneRequest
<1>7. refs[b] - 1 \in Nat /\ refs' \in [Buffers -> Nat]
  <2>1. refs[b] - 1 \in Nat
    BY <1>5
  <2>. QED
    BY <1>1, <1>6, <2>1
<1>8. refs[b] = 1 <=> Keepers(b)' = {} /\ onI' # b
  <2>1. Keepers(b)' = {} <=> Cardinality(Keepers(b)') = 0
    BY <1>5, FS_EmptySet
  <2>. QED
    BY <1>5, <2>1
<1>9. \/ /\ refs[b] = 1 /\ InUse' = InUse \ {b}
         /\ live' = live \ buf[b].list
         /\ frag' \in [Requests -> Wire \cup {NULL}]
         /\ freeBufs' = freeBufs \cup {b}
      \/ refs[b] # 1 /\ UNCHANGED <<live, frag, freeBufs>> /\ InUse' = InUse
  BY DEF FWFreeCloneRequest, FreeDatagram, InUse, IndInv, TypeInv
<1>10. TypeInv'
  BY <1>2, <1>7, <1>9 DEF IndInv, TypeInv, InUse
<1>11. PlaceInv'
  <2>1. CASE InUse' = InUse \ {b} /\ live' = live \ buf[b].list
    BY <2>1 DEF IndInv, PlaceInv
  <2>2. CASE InUse' = InUse /\ live' = live
    BY <2>2 DEF IndInv, PlaceInv
  <2>. QED
    BY <1>9, <2>1, <2>2
<1>12. BufferInv'
  <2>1. \A a \in Buffers : a # b =>
          /\ IsFiniteSet(Keepers(a)')
          /\ refs'[a] = Cardinality(Keepers(a)') + (IF onI' = a THEN 1 ELSE 0)
    BY <1>1, <1>3, <1>4, <1>6 DEF IndInv, BufferInv
  <2>2. /\ IsFiniteSet(Keepers(b)')
        /\ refs'[b] = Cardinality(Keepers(b)') + (IF onI' = b THEN 1 ELSE 0)
    BY <1>1, <1>5, <1>6
  <2>3. \A a \in Buffers :
          /\ a \in ToSet(datagrams) => a # onI' /\ Keepers(a)' = {} /\ a \in InUse'
          /\ a # b /\ (a = onI' \/ Keepers(a)' # {}) => a \in InUse'
          /\ a # b /\ a \in InUse' =>
               a \in ToSet(datagrams) \/ a = onI' \/ Keepers(a)' # {}
    BY <1>3, <1>4, <1>9 DEF IndInv, BufferInv
  <2>4. b \in InUse' <=> b = onI' \/ Keepers(b)' # {}
    BY <1>8, <1>9
  <2>5. ToSet(datagrams) \subseteq Buffers /\ InUse' \subseteq Buffers
    BY <1>1, <1>9 DEF IndInv, BufferInv
  <2>. QED
    BY <2>1, <2>2, <2>3, <2>4, <2>5 DEF BufferInv
<1>13. WalkInv'
  <2>1. onI' # NULL <=> pcI' \in {"deliver", "free"}
    BY DEF IndInv, WalkInv
  <2>2. pcI' = "deliver" => Keepers(onI)' = {} /\ onI' = onI
    BY <1>3 DEF IndInv, TypeInv, WalkInv
  <2>3. \A c \in Clients : /\ mayInject'[c] \subseteq held'[c]
                           /\ held'[c] # {} => c \in Registered'
    BY <1>2 DEF IndInv, WalkInv, Registered
  <2>4. \A c, d \in Clients : \A a \in mayInject'[c] : a \in mayInject'[d] => c = d
    BY <1>2 DEF IndInv, WalkInv
  <2>5. \A c \in Clients : After(fwList, c) \subseteq Clients
    BY Ordered, Entries DEF IndInv, TypeInv
  <2>6. \A c \in Clients : \A a \in mayInject'[c], d \in After(fwList, c) :
          a \notin held'[d]
    BY <1>2, <2>5 DEF IndInv, WalkInv
  <2>. QED
    BY <2>1, <2>2, <2>3, <2>4, <2>6 DEF WalkInv, Keepers
<1>14. ASSUME SentInv PROVE SentInv'
  BY <1>2, <1>14 DEF SentInv, Unsent
<1>. QED
  BY <1>10, <1>11, <1>12, <1>13, <1>14 DEF IndInv, DocumentedAnswers

\* Verify drops its reference.
LEMMA DeliverFreeKeeps ==
    ASSUME IndInv, DeliverFree
    PROVE  IndInv'
<1>1. /\ pcI = "free" /\ pcI' = "drain" /\ onI' = NULL
      /\ FWFreeCloneRequest(onI)
      /\ UNCHANGED <<queueVars, datagrams, buf, allocated, pcT, atT, held,
                     mayInject, sent, lost, fwList>>
  BY DEF DeliverFree
<1>2. onI \in Buffers /\ onI \in InUse /\ onI \notin ToSet(datagrams)
  BY <1>1 DEF IndInv, TypeInv, WalkInv, BufferInv
<1>. QED
  BY <1>1, <1>2, ReleaseKeeps

\* A client frees its clone.
LEMMA ClientFreeKeeps ==
    ASSUME IndInv, NEW c \in Clients, NEW b \in Buffers, ClientFree(c, b)
    PROVE  IndInv'
<1>1. b \in InUse /\ b \notin ToSet(datagrams)
  BY DEF ClientFree, Keepers, IndInv, BufferInv
<1>. QED
  BY <1>1, ReleaseKeeps DEF ClientFree, threadVars

\* A new client is asked last, and has no clone yet.
LEMMA ClientRegistersKeeps ==
    ASSUME IndInv, NEW c \in Clients, ClientRegisters(c)
    PROVE  IndInv'
<1> USE DEF queueVars, bufVars, threadVars, clientVars
<1>1. /\ c \notin ToSet(fwList) /\ fwList' = Append(fwList, c)
      /\ UNCHANGED <<live, frag, queueVars, bufVars, threadVars, clientVars, lost>>
  BY DEF ClientRegisters, FWRegisterRequestCallback, Registered
<1>2. /\ fwList' \in Seq(Clients) /\ IsInjective(fwList')
      /\ ToSet(fwList') = ToSet(fwList) \cup {c}
      /\ \A e \in ToSet(fwList) : After(fwList', e) = After(fwList, e) \cup {c}
  BY <1>1, AppendKeeps DEF IndInv, TypeInv
<1>3. held[c] = {}
  BY <1>1 DEF IndInv, WalkInv, Registered
<1>4. TypeInv'
  BY <1>1, <1>2 DEF IndInv, TypeInv
<1>5. PlaceInv' /\ BufferInv'
  BY <1>1 DEF IndInv, PlaceInv, BufferInv, InUse, Keepers
<1>6. WalkInv'
  BY <1>1, <1>2, <1>3 DEF IndInv, WalkInv, Keepers, Registered
<1>7. ASSUME SentInv PROVE SentInv'
  BY <1>1, <1>7 DEF SentInv, Unsent
<1>. QED
  BY <1>4, <1>5, <1>6, <1>7 DEF IndInv, DocumentedAnswers

\* A client leaves without a clone.
LEMMA ClientDeregistersKeeps ==
    ASSUME IndInv, NEW c \in Clients, ClientDeregisters(c)
    PROVE  IndInv'
<1> USE DEF queueVars, bufVars, threadVars, clientVars
<1>1. /\ held[c] = {} /\ fwList' = Unlink(fwList, c)
      /\ UNCHANGED <<live, frag, queueVars, bufVars, threadVars, clientVars, lost>>
  BY DEF ClientDeregisters, FWDeregisterRequestCallback
<1>2. /\ fwList' \in Seq(Clients) /\ IsInjective(fwList')
      /\ ToSet(fwList') = ToSet(fwList) \ {c}
      /\ \A e : e # c => After(fwList', e) = After(fwList, e) \ {c}
  BY <1>1, UnlinkKeeps DEF IndInv, TypeInv
<1>3. mayInject[c] = {}
  BY <1>1 DEF IndInv, WalkInv
<1>4. TypeInv'
  BY <1>1, <1>2 DEF IndInv, TypeInv
<1>5. PlaceInv' /\ BufferInv'
  BY <1>1 DEF IndInv, PlaceInv, BufferInv, InUse, Keepers
<1>6. WalkInv'
  BY <1>1, <1>2, <1>3 DEF IndInv, WalkInv, Keepers, Registered
<1>7. ASSUME SentInv PROVE SentInv'
  BY <1>1, <1>7 DEF SentInv, Unsent
<1>. QED
  BY <1>4, <1>5, <1>6, <1>7 DEF IndInv, DocumentedAnswers

-----------------------------------------------------------------------------
(* Requests and buffers, throughout *)

\* InitializeReassembly establishes the invariant.
LEMMA InitInv == Init => IndInv
<1> SUFFICES ASSUME Init PROVE IndInv
  OBVIOUS
<1>1. /\ <<>> \in Seq(Requests) /\ <<>> \in Seq(Buffers) /\ <<>> \in Seq(Clients)
      /\ IsInjective(<<>>) /\ ToSet(<<>>) = {} /\ Len(<<>>) = 0
  BY DEF IsInjective, ToSet
<1>2. Zeroed \in DataLists
  <2>1. WORKBUFSIZE \in Nat \ {0}
    BY ConstantsAssumption DEF ConstantsAssumption
  <2>2. 0 \in 0..(WORKBUFSIZE - 1)
    BY <2>1
  <2>. QED
    BY <2>2 DEF Zeroed, DataLists
<1>3. TypeInv
  <2>1. /\ toSet \in 0..MaxReceiving /\ Len(datagrams) = 0
        /\ atT \in 0..(Len(datagrams) + 1)
    BY <1>1, ConstantsAssumption DEF Init, ConstantsAssumption
  <2>2. /\ queue \in Seq(Requests) /\ IsInjective(queue)
        /\ datagrams \in Seq(Buffers) /\ IsInjective(datagrams)
        /\ fwList \in Seq(Clients) /\ IsInjective(fwList)
    BY <1>1 DEF Init
  <2>3. /\ buf \in [Buffers -> DataLists] /\ refs \in [Buffers -> Nat]
        /\ sent \in [Requests -> 0..2]
    BY <1>2 DEF Init
  <2>. QED
    BY <2>1, <2>2, <2>3 DEF Init, TypeInv
<1>4. PlaceInv
  BY <1>1 DEF Init, PlaceInv, InUse
<1>5. \A b \in Buffers : Keepers(b) = {} /\ b # onI
  <2>1. NULL \notin Buffers
    BY ConstantsAssumption DEF ConstantsAssumption
  <2>. QED
    BY <2>1 DEF Init, Keepers
<1>6. BufferInv
  <2>1. \A b \in Buffers :
          /\ IsFiniteSet(Keepers(b)) /\ Cardinality(Keepers(b)) = 0
          /\ refs[b] = 0 /\ onI # b
    BY <1>5, FS_EmptySet DEF Init
  <2>2. ToSet(datagrams) = {} /\ InUse = {}
    BY <1>1 DEF Init, InUse
  <2>. QED
    BY <1>5, <2>1, <2>2 DEF BufferInv
<1>7. WalkInv
  BY DEF Init, WalkInv
<1>8. SentInv
  BY <1>1, <1>5 DEF Init, SentInv, Unsent
<1>. QED
  BY <1>3, <1>4, <1>6, <1>7, <1>8 DEF IndInv

\* Every step keeps it.
LEMMA StepInv ==
    ASSUME IndInv, [Next]_vars PROVE IndInv'
<1>1. ASSUME NEW f \in Requests, NEW w \in Wire, NEW b \in Buffers,
             AnalyzeOverlong(f, w, b) \/ AnalyzeAdd(f, w, b) \/ AnalyzeNew(f, w, b)
      PROVE  IndInv'
  BY <1>1, AnalyzeOverlongKeeps, AnalyzeAddKeeps, AnalyzeNewKeeps
<1>2. ASSUME NEW f \in Requests, NEW w \in Wire, Analyze(f, w)
      PROVE  IndInv'
  BY <1>1, <1>2, LoseKeeps DEF Analyze
<1>3. ASSUME IntermNext PROVE IndInv'
  BY <1>2, <1>3, QuietSteps, DeliverKeeps, DeliverFreeKeeps DEF IntermNext
<1>4. ASSUME TtlNext PROVE IndInv'
  BY <1>4, QuietSteps, TtlExpireKeeps DEF TtlNext
<1>5. ASSUME NEW c \in Clients, NEW b \in Buffers,
             ClientInject(c, b) \/ ClientFree(c, b)
      PROVE  IndInv'
  BY <1>5, ClientInjectKeeps, ClientFreeKeeps
<1>6. ASSUME NEW c \in Clients, ClientRegisters(c) \/ ClientDeregisters(c)
      PROVE  IndInv'
  BY <1>6, ClientRegistersKeeps, ClientDeregistersKeeps
<1>. QED
  BY <1>3, <1>4, <1>5, <1>6, QuietSteps, ReassemblePacketKeeps DEF Next

\* The invariant holds throughout.
THEOREM Invariance == Spec => []IndInv
<1>1. Init => IndInv
  BY InitInv
<1>2. IndInv /\ [Next]_vars => IndInv'
  BY StepInv
<1>. QED
  BY <1>1, <1>2, PTL DEF Spec

\* The types that TLC checks follow.
LEMMA TypesHold == IndInv => TypeOK
<1>1. ASSUME IndInv PROVE TypeOK
  <2>1. ToSet(queue) \cup lost \subseteq live
    BY <1>1, Entries DEF IndInv, TypeInv, PlaceInv
  <2>2. ToSet(datagrams) \subseteq allocated \ freeBufs
    BY <1>1 DEF IndInv, BufferInv, InUse
  <2>3. Registered \subseteq Clients
    BY <1>1, Entries DEF IndInv, TypeInv, Registered
  <2>. QED
    BY <1>1, <2>1, <2>2, <2>3 DEF IndInv, TypeInv, DataLists, TypeOK
<1>. QED
  BY <1>1

\* No received fragment leaks but for the reasons for which the code forgets one,
\* none is freed while it is queued or part of a datagram, and none belongs to
\* two datagrams.
THEOREM FragmentsAlwaysAccounted == Spec => []FragmentsAccounted
<1>1. ASSUME IndInv PROVE FragmentsAccounted
  <2> DEFINE inUse == allocated \ freeBufs
             places == {ToSet(queue), lost} \cup {buf[b].list : b \in inUse}
  <2>1. InUse = inUse /\ InUse \subseteq Buffers
    BY <1>1 DEF InUse, IndInv, TypeInv
  <2>2. \A p \in places : p \subseteq Requests
    BY <1>1, <2>1, Entries DEF IndInv, TypeInv, DataLists
  <2>3. live = UNION places
    <3>1. \A f \in Requests : f \in live <=> \E p \in places : f \in p
      BY <1>1, <2>1 DEF IndInv, PlaceInv
    <3>. QED
      BY <1>1, <2>2, <3>1 DEF IndInv, TypeInv
  <2>4. \A b1, b2 \in inUse : b1 = b2 \/ buf[b1].list \cap buf[b2].list = {}
    BY <1>1, <2>1 DEF IndInv, PlaceInv
  <2>5. \A p, q \in places : p = q \/ p \cap q = {}
    <3>1. ToSet(queue) \cap lost = {}
      BY <1>1 DEF IndInv, PlaceInv
    <3>2. \A b \in inUse : buf[b].list \cap (ToSet(queue) \cup lost) = {}
      BY <1>1, <2>1 DEF IndInv, PlaceInv
    <3>. QED
      BY <2>4, <3>1, <3>2
  <2>. QED
    BY <1>1, <2>3, <2>4, <2>5, TypesHold DEF FragmentsAccounted
<1>. QED
  BY <1>1, Invariance, PTL

\* A buffer is freed with its last reference and not before, and the clients who
\* stop a datagram and let it pass hand its fragments back once between them.
THEOREM BuffersAlwaysAccounted ==
    ASSUME DocumentedAnswers PROVE Spec => []BuffersAccounted
<1>1. ASSUME IndInv PROVE BuffersAccounted
  <2>1. ASSUME NEW b \in Buffers
        PROVE  b \in allocated \ freeBufs <=> (b \in ToSet(datagrams)) # (refs[b] > 0)
    <3>1. refs[b] > 0 <=> b = onI \/ Keepers(b) # {}
      <4>1. /\ refs[b] = Cardinality(Keepers(b)) + (IF onI = b THEN 1 ELSE 0)
            /\ Cardinality(Keepers(b)) \in Nat
            /\ Keepers(b) = {} <=> Cardinality(Keepers(b)) = 0
        BY <1>1, References DEF IndInv, BufferInv
      <4>. QED
        BY <4>1
    <3>. QED
      BY <1>1, <3>1 DEF IndInv, BufferInv, InUse
  <2>2. \A f \in Requests : sent[f] <= 1
    BY <1>1 DEF IndInv, SentInv
  <2>. QED
    BY <1>1, <2>1, <2>2 DEF BuffersAccounted, IndInv, BufferInv, Keepers
<1>. QED
  BY <1>1, Invariance, PTL

-----------------------------------------------------------------------------
(* Datagrams, throughout *)

\* No datagram is as long as a buffer: one more than a USHORT can say, so that
\* its length would be 0.
LengthsFit == \A w \in Wire : ~w.more => End(w) # WORKBUFSIZE

\* The unit behind a fragment's data.
Beyond(w) == w.off + (w.data + 7) \div 8

\* No fragment begins one unit or two behind another of its datagram.  Both are
\* within the 20 bytes of header that Analyze counts with each fragment.
NoSmallGaps ==
    \A v, w \in Wire :
        v.key = w.key => w.off # Beyond(v) + 1 /\ w.off # Beyond(v) + 2

\* What the buffer knows is what the fragments it holds say, and it is on the list
\* until they are complete by the bitmap.
DatagramInv == \A b \in InUse :
    /\ \A f \in buf[b].list : frag[f] \in Wire /\ frag[f].key = buf[b].key
    /\ buf[b].bits = UNION {Bits(frag[f]) : f \in buf[b].list}
    /\ buf[b].last => \E f \in buf[b].list :
           /\ ~frag[f].more /\ End(frag[f]) <= WORKBUFSIZE
           /\ buf[b].total = End(frag[f]) % WORKBUFSIZE
    /\ b \in ToSet(datagrams) <=> ~(buf[b].last /\ Verify(buf[b]))

\* The units of a fragment, and the one or two more that its bits claim.
LEMMA UnitsAndBits ==
    ASSUME NEW w \in Wire
    PROVE  /\ w.off \in Nat /\ Beyond(w) \in Nat /\ w.off < Beyond(w)
           /\ Units(w) = w.off..(Beyond(w) - 1)
           /\ End(w) \in Nat /\ End(w) > 20
           /\ (End(w) - 20 + 7) \div 8 = Beyond(w)
           /\ Bits(w) = w.off..(End(w) \div 8 - 1)
           /\ End(w) \div 8 \in {Beyond(w) + 1, Beyond(w) + 2}
<1> DEFINE n == w.off
           d == w.data
<1>1. n \in Nat /\ d \in Nat \ {0}
  BY WireFacts
<1>2. /\ Beyond(w) = n + (d + 7) \div 8 /\ Units(w) = n..(n + (d + 7) \div 8 - 1)
      /\ End(w) = n * 8 + (20 + d) /\ Bits(w) = n..(n + (20 + d) \div 8 - 1)
  BY DEF Beyond, Units, End, Bits, FullLength, ipHeaderSize
<1> HIDE DEF n, d
<1>3. /\ n + (d + 7) \div 8 \in Nat /\ n < n + (d + 7) \div 8
      /\ n * 8 + (20 + d) \in Nat /\ n * 8 + (20 + d) > 20
  BY <1>1
<1>4. (n * 8 + (20 + d) - 20 + 7) \div 8 = n + (d + 7) \div 8
  BY <1>1
<1>5. (n * 8 + (20 + d)) \div 8 = n + (20 + d) \div 8
  BY <1>1
<1>6. (20 + d) \div 8 \in {(d + 7) \div 8 + 1, (d + 7) \div 8 + 2}
  BY <1>1
<1>7. n + (20 + d) \div 8 \in {n + (d + 7) \div 8 + 1, n + (d + 7) \div 8 + 2}
  BY <1>1, <1>6
<1>8. (End(w) - 20 + 7) \div 8 = Beyond(w) /\ End(w) \div 8 = n + (20 + d) \div 8
  BY <1>1, <1>2, <1>4, <1>5
<1>9. End(w) \div 8 \in {Beyond(w) + 1, Beyond(w) + 2}
  BY <1>2, <1>7, <1>8
<1>10. /\ n \in Nat /\ Beyond(w) \in Nat /\ n < Beyond(w)
       /\ End(w) \in Nat /\ End(w) > 20
       /\ Units(w) = n..(Beyond(w) - 1) /\ Bits(w) = n..(End(w) \div 8 - 1)
  BY <1>1, <1>2, <1>3, <1>8
<1>. QED
  BY <1>8, <1>9, <1>10 DEF n

\* Fragments whose bits reach up to the end of the last one l leave no gap: the
\* first would be one unit or two between the fragments v and x.
LEMMA BitsSuffice ==
    ASSUME NoSmallGaps, NEW F \in SUBSET Wire, \A v, w \in F : v.key = w.key,
           NEW l \in F,
           0..(End(l) \div 8 - 1) \subseteq UNION {Bits(w) : w \in F}
    PROVE  0..(Beyond(l) - 1) \subseteq UNION {Units(w) : w \in F}
<1> DEFINE gaps == {u \in Nat : u < Beyond(l) /\ \A w \in F : u \notin Units(w)}
<1>1. \A w \in F :
        /\ w.off \in Nat /\ Beyond(w) \in Nat /\ w.off < Beyond(w)
        /\ \A u \in Nat : u \in Units(w) <=> w.off <= u /\ u < Beyond(w)
        /\ \A u \in Nat : u \in Bits(w) => w.off <= u /\ u < Beyond(w) + 2
  <2>1. ASSUME NEW w \in F
        PROVE  /\ w.off \in Nat /\ Beyond(w) \in Nat /\ w.off < Beyond(w)
               /\ \A u \in Nat : u \in Units(w) <=> w.off <= u /\ u < Beyond(w)
               /\ \A u \in Nat : u \in Bits(w) => w.off <= u /\ u < Beyond(w) + 2
    <3>1. /\ w.off \in Nat /\ Beyond(w) \in Nat /\ w.off < Beyond(w)
          /\ Units(w) = w.off..(Beyond(w) - 1)
          /\ Bits(w) = w.off..(End(w) \div 8 - 1)
          /\ End(w) \div 8 \in {Beyond(w) + 1, Beyond(w) + 2}
      BY UnitsAndBits
    <3>. QED
      BY <3>1
  <2>. QED
    BY <2>1
<1>2. \A u \in Nat : u <= Beyond(l) => \E w \in F : u \in Bits(w)
  <2>1. End(l) \div 8 \in {Beyond(l) + 1, Beyond(l) + 2} /\ Beyond(l) \in Nat
    BY UnitsAndBits
  <2>2. \A u \in Nat : u <= Beyond(l) => u \in 0..(End(l) \div 8 - 1)
    BY <2>1
  <2>. QED
    BY <2>2
<1>3. ASSUME NEW m \in gaps, \A u \in gaps : m <= u
      PROVE  FALSE
  <2>1. /\ m \in Nat /\ m < Beyond(l)
        /\ \A w \in F : m < w.off \/ Beyond(w) <= m
    BY <1>1
  <2>2. m < l.off
    BY <1>1, <2>1
  <2>3. PICK w \in F : w.off <= m /\ m < Beyond(w) + 2
    BY <1>1, <1>2, <2>1
  <2>4. m # 0
    BY <1>1, <2>1, <2>3
  <2>5. PICK v \in F : Beyond(v) = m
    <3>1. m - 1 \in Nat /\ m - 1 < Beyond(l) /\ m - 1 \notin gaps
      BY <1>1, <1>3, <2>1, <2>4
    <3>2. PICK y \in F : y.off <= m - 1 /\ m - 1 < Beyond(y)
      BY <1>1, <3>1
    <3>. QED
      BY <1>1, <2>1, <3>2
  <2>6. ASSUME NEW x \in F PROVE x.off # m + 1 /\ x.off # m + 2
    BY <2>5, <2>6 DEF NoSmallGaps
  <2>7. \A x \in F : ~(x.off <= m + 1 /\ m + 1 < Beyond(x))
    BY <1>1, <2>1, <2>6
  <2>8. \A x \in F : ~(x.off <= m + 2 /\ m + 2 < Beyond(x))
    BY <1>1, <2>1, <2>6, <2>7
  <2>9. m + 2 < l.off
    BY <1>1, <2>2, <2>6
  <2>10. PICK x \in F : x.off <= m + 2 /\ m + 2 < Beyond(x) + 2
    BY <1>1, <1>2, <2>1, <2>9
  <2>. QED
    BY <1>1, <2>1, <2>7, <2>8, <2>10
<1>4. gaps = {}
  <2>1. gaps \in SUBSET Nat
    OBVIOUS
  <2> HIDE DEF gaps
  <2>. QED
    BY <1>3, <2>1, LeastExists
<1>5. \A u \in 0..(Beyond(l) - 1) : u \in Nat /\ u < Beyond(l)
  BY <1>1
<1>. QED
  BY <1>4, <1>5

\* Fragments without a gap up to the end of the last one set all its bits.
LEMMA BitsNeeded ==
    ASSUME NEW F \in SUBSET Wire, NEW l \in F,
           0..(Beyond(l) - 1) \subseteq UNION {Units(w) : w \in F}
    PROVE  0..(End(l) \div 8 - 1) \subseteq UNION {Bits(w) : w \in F}
<1>1. \A w \in F : Units(w) \subseteq Bits(w)
  <2>1. ASSUME NEW w \in F PROVE Units(w) \subseteq Bits(w)
    <3>1. /\ Units(w) = w.off..(Beyond(w) - 1) /\ Bits(w) = w.off..(End(w) \div 8 - 1)
          /\ End(w) \div 8 \in {Beyond(w) + 1, Beyond(w) + 2}
          /\ w.off \in Nat /\ Beyond(w) \in Nat
      BY UnitsAndBits
    <3>. QED
      BY <3>1
  <2>. QED
    BY <2>1
<1>2. /\ Bits(l) = l.off..(End(l) \div 8 - 1) /\ l.off \in Nat /\ Beyond(l) \in Nat
      /\ l.off < Beyond(l) /\ End(l) \div 8 \in {Beyond(l) + 1, Beyond(l) + 2}
  BY UnitsAndBits
<1>3. \A u \in 0..(End(l) \div 8 - 1) : u \in Bits(l) \/ u \in 0..(Beyond(l) - 1)
  BY <1>2
<1>. QED
  BY <1>1, <1>3

\* What DatagramInv says of one buffer with the last fragment in it.  A length that
\* wrapped is 0, and Verify refuses it.
LEMMA LastFragment ==
    ASSUME TypeInv, DatagramInv, NEW b \in InUse, buf[b].last,
           LengthsFit \/ Verify(buf[b])
    PROVE  /\ Fragments(b) \in SUBSET Wire
           /\ \A v, w \in Fragments(b) : v.key = w.key
           /\ buf[b].bits = UNION {Bits(w) : w \in Fragments(b)}
           /\ \E l \in Fragments(b) : ~l.more /\ buf[b].total = End(l)
<1>1. Fragments(b) \in SUBSET Wire /\ \A w \in Fragments(b) : w.key = buf[b].key
  BY DEF DatagramInv, Fragments
<1>2. buf[b].bits = UNION {Bits(w) : w \in Fragments(b)}
  BY DEF DatagramInv, Fragments
<1>3. PICK f \in buf[b].list :
        /\ ~frag[f].more /\ End(frag[f]) <= WORKBUFSIZE
        /\ buf[b].total = End(frag[f]) % WORKBUFSIZE
  BY DEF DatagramInv
<1>4. frag[f] \in Wire /\ frag[f] \in Fragments(b)
  BY DEF DatagramInv, Fragments
<1>5. End(frag[f]) \in Nat /\ End(frag[f]) < WORKBUFSIZE /\ WORKBUFSIZE \in Nat \ {0}
  <2>1. End(frag[f]) \in Nat /\ End(frag[f]) <= WORKBUFSIZE /\ WORKBUFSIZE \in Nat \ {0}
    BY <1>3, <1>4, UnitsAndBits, WireFacts
  <2>2. CASE LengthsFit
    BY <1>3, <1>4, <2>1, <2>2 DEF LengthsFit
  <2>3. CASE Verify(buf[b])
    <3>1. ASSUME End(frag[f]) = WORKBUFSIZE PROVE FALSE
      <4>1. buf[b].total = 0
        BY <1>3, <2>1, <3>1
      <4>. QED
        BY <2>3, <4>1 DEF Verify
    <3>. QED
      BY <2>1, <3>1
  <2>. QED
    BY <2>2, <2>3
<1>6. End(frag[f]) % WORKBUFSIZE = End(frag[f])
  BY <1>5
<1>. QED
  BY <1>1, <1>2, <1>3, <1>4, <1>6

\* Steps that leave the fragments and the bitmaps alone.
LEMMA DatagramQuiet ==
    ASSUME DatagramInv,
           UNCHANGED <<frag, datagrams, allocated, freeBufs>>,
           InUse \subseteq Buffers,
           \A b \in Buffers :
             /\ buf'[b].list = buf[b].list /\ buf'[b].key = buf[b].key
             /\ buf'[b].bits = buf[b].bits /\ buf'[b].last = buf[b].last
             /\ buf'[b].total = buf[b].total
    PROVE  DatagramInv'
<1>1. InUse' = InUse
  BY DEF InUse
<1>2. \A b \in InUse : Verify(buf[b])' <=> Verify(buf[b])
  BY DEF Verify
<1>. QED
  BY <1>1, <1>2 DEF DatagramInv

\* A buffer's fragments are not among those that arrive, ...
LEMMA ArrivalKeepsDatagrams ==
    ASSUME IndInv, DatagramInv, NEW f \in Requests, NEW w \in Wire,
           ReassemblePacket(f, w)
    PROVE  DatagramInv'
<1>1. \A b \in InUse : f \notin buf[b].list /\ buf[b].list \subseteq Requests
  BY DEF ReassemblePacket, IndInv, PlaceInv, TypeInv, DataLists, InUse
<1>2. \A g \in Requests : g # f => frag'[g] = frag[g]
  BY DEF ReassemblePacket, IndInv, TypeInv
<1>3. UNCHANGED <<buf, datagrams, InUse>>
  BY DEF ReassemblePacket, bufVars, InUse
<1>4. \A b \in InUse : \A g \in buf[b].list : frag'[g] = frag[g]
  BY <1>1, <1>2
<1>. QED
  BY <1>3, <1>4 DEF DatagramInv, Verify

\* ... nor among those of another buffer that goes.
LEMMA LeavingKeepsDatagrams ==
    ASSUME IndInv, DatagramInv, NEW b \in InUse,
           InUse' = InUse \ {b}, buf' = buf,
           ToSet(datagrams') = ToSet(datagrams) \ {b},
           \A f \in Requests : f \notin buf[b].list => frag'[f] = frag[f]
    PROVE  DatagramInv'
<1>1. \A a \in InUse : a # b =>
        \A f \in buf[a].list : f \in Requests /\ f \notin buf[b].list
  BY DEF IndInv, PlaceInv, TypeInv, DataLists, InUse
<1>2. \A a \in InUse : a # b => \A f \in buf[a].list : frag'[f] = frag[f]
  BY <1>1
<1>. QED
  BY <1>2 DEF DatagramInv, Verify

\* A fragment that is added to those of a buffer, or begins a new one.
LEMMA CopyAssembles ==
    ASSUME NEW d \in DataLists, NEW f \in Requests, NEW w \in Wire,
           ~Overlong(w) \/ w.off = 0, w = frag[f], d.key = w.key,
           \A g \in d.list : frag[g] \in Wire /\ frag[g].key = d.key,
           d.bits = UNION {Bits(frag[g]) : g \in d.list},
           d.last => \E g \in d.list :
               /\ ~frag[g].more /\ End(frag[g]) <= WORKBUFSIZE
               /\ d.total = End(frag[g]) % WORKBUFSIZE,
           NEW e, e = CopyInto(d, f, w)
    PROVE  /\ e.key = w.key
           /\ \A g \in e.list : frag[g] \in Wire /\ frag[g].key = e.key
           /\ e.bits = UNION {Bits(frag[g]) : g \in e.list}
           /\ e.last => \E g \in e.list :
                  /\ ~frag[g].more /\ End(frag[g]) <= WORKBUFSIZE
                  /\ e.total = End(frag[g]) % WORKBUFSIZE
<1>1. /\ e.key = d.key /\ e.bits = d.bits \cup Bits(w)
      /\ e.total = IF w.more THEN d.total ELSE End(w) % WORKBUFSIZE
      /\ e.last <=> d.last \/ ~w.more
      /\ e.list = d.list \cup {f}
  BY DEF CopyInto, DataLists
<1>2. End(w) <= WORKBUFSIZE
  <2>1. /\ w.off \in Nat /\ FullLength(w) \in Nat /\ FullLength(w) < WORKBUFSIZE
        /\ WORKBUFSIZE \in Nat
    BY WireFacts
  <2>2. CASE w.off = 0
    BY <2>1, <2>2 DEF End
  <2>3. CASE ~Overlong(w)
    BY <2>1, <2>3 DEF End, Overlong
  <2>. QED
    BY <2>2, <2>3
<1>3. e.bits = UNION {Bits(frag[g]) : g \in e.list}
  <2>1. \A u : u \in e.bits <=>
                u \in UNION {Bits(frag[g]) : g \in d.list} \/ u \in Bits(w)
    BY <1>1
  <2>2. \A u : u \in e.bits <=> \E g \in d.list \cup {f} : u \in Bits(frag[g])
    BY <2>1
  <2>. QED
    BY <1>1, <2>2
<1>4. ASSUME e.last
      PROVE  \E g \in e.list :
                 /\ ~frag[g].more /\ End(frag[g]) <= WORKBUFSIZE
                 /\ e.total = End(frag[g]) % WORKBUFSIZE
  <2>1. CASE w.more
    BY <1>1, <1>4, <2>1
  <2>2. CASE ~w.more
    BY <1>1, <1>2, <2>2
  <2>. QED
    BY <2>1, <2>2
<1>. QED
  BY <1>1, <1>3, <1>4

\* A fragment is added.
LEMMA AddAssembles ==
    ASSUME IndInv, DatagramInv, NEW f \in Requests, NEW w \in Wire,
           NEW b \in Buffers, AnalyzeAdd(f, w, b)
    PROVE  DatagramInv'
<1> DEFINE d == CopyInto(buf[b], f, w)
<1>1. /\ buf' = [buf EXCEPT ![b] = d] /\ w = frag[f]
      /\ IF d.last /\ Verify(d) THEN datagrams' = Unlink(datagrams, b)
                                ELSE datagrams' = datagrams
      /\ UNCHANGED <<frag, allocated, freeBufs>>
  BY DEF AnalyzeAdd, Analyzing
<1>2. b \in ToSet(datagrams) /\ b \in InUse
  BY FoundListed DEF AnalyzeAdd, IndInv, BufferInv
<1>3. buf[b] \in DataLists /\ buf[b].key = w.key
  <2>1. PICK k \in DOMAIN datagrams : b = datagrams[k] /\ Matches(b, w)
    BY DEF AnalyzeAdd, Found
  <2>. QED
    BY <2>1 DEF Matches, IndInv, TypeInv
<1>4. /\ d.key = w.key
      /\ \A g \in d.list : frag[g] \in Wire /\ frag[g].key = d.key
      /\ d.bits = UNION {Bits(frag[g]) : g \in d.list}
      /\ d.last => \E g \in d.list :
             /\ ~frag[g].more /\ End(frag[g]) <= WORKBUFSIZE
             /\ d.total = End(frag[g]) % WORKBUFSIZE
  <2>1. /\ ~Overlong(w) \/ w.off = 0
        /\ \A g \in buf[b].list : frag[g] \in Wire /\ frag[g].key = buf[b].key
        /\ buf[b].bits = UNION {Bits(frag[g]) : g \in buf[b].list}
        /\ buf[b].last => \E g \in buf[b].list :
               /\ ~frag[g].more /\ End(frag[g]) <= WORKBUFSIZE
               /\ buf[b].total = End(frag[g]) % WORKBUFSIZE
    BY <1>2 DEF AnalyzeAdd, DatagramInv
  <2>. QED
    BY <1>1, <1>3, <2>1, CopyAssembles
<1> HIDE DEF d
<1>5. /\ buf'[b] = d /\ \A a \in Buffers : a # b => buf'[a] = buf[a]
      /\ InUse' = InUse /\ InUse \subseteq Buffers
  BY <1>1 DEF InUse, IndInv, TypeInv
<1>6. /\ b \in ToSet(datagrams') <=> ~(d.last /\ Verify(d))
      /\ \A a \in Buffers : a # b => (a \in ToSet(datagrams') <=> a \in ToSet(datagrams))
  <2>1. ToSet(Unlink(datagrams, b)) = ToSet(datagrams) \ {b}
    BY UnlinkKeeps DEF IndInv, TypeInv
  <2>. QED
    BY <1>1, <1>2, <2>1
<1>7. \A a \in InUse : a # b => (Verify(buf[a])' <=> Verify(buf[a]))
  BY <1>5 DEF Verify
<1>8. Verify(buf[b])' <=> Verify(d)
  BY <1>5 DEF Verify
<1>. QED
  BY <1>1, <1>4, <1>5, <1>6, <1>7, <1>8 DEF DatagramInv

\* A datagram is begun: with the last fragment at most, which is not all of it.
LEMMA NewAssembles ==
    ASSUME IndInv, DatagramInv, NEW f \in Requests, NEW w \in Wire,
           NEW b \in Buffers, AnalyzeNew(f, w, b)
    PROVE  DatagramInv'
<1> DEFINE z == NewDatagram(b, w)
           d == CopyInto(z, f, w)
<1>1. /\ buf' = [buf EXCEPT ![b] = d] /\ w = frag[f]
      /\ datagrams' = Append(datagrams, b) /\ frag' = frag
      /\ ~Overlong(w)
  BY DEF AnalyzeNew, Analyzing
<1>2. b \notin InUse /\ InUse' = InUse \cup {b} /\ InUse \subseteq Buffers
  BY DEF AnalyzeNew, ruleAllocDatagramWorkBuffer, InUse, IndInv, TypeInv
<1>3. /\ z \in DataLists /\ z.key = w.key /\ z.list = {} /\ z.bits = {}
      /\ z.last = FALSE
  BY NewKeeps DEF NewDatagram, Zeroed
<1>4. /\ d.key = w.key
      /\ \A g \in d.list : frag[g] \in Wire /\ frag[g].key = d.key
      /\ d.bits = UNION {Bits(frag[g]) : g \in d.list}
      /\ d.last => \E g \in d.list :
             /\ ~frag[g].more /\ End(frag[g]) <= WORKBUFSIZE
             /\ d.total = End(frag[g]) % WORKBUFSIZE
  <2> HIDE DEF z
  <2>1. /\ \A g \in z.list : frag[g] \in Wire /\ frag[g].key = z.key
        /\ z.bits = UNION {Bits(frag[g]) : g \in z.list}
        /\ ~z.last
    BY <1>3
  <2>. QED
    BY <1>1, <1>3, <2>1, CopyAssembles
<1>5. ~(d.last /\ Verify(d))
  <2>1. d.bits = Bits(w) /\ (d.last <=> ~w.more)
    <3> HIDE DEF z
    <3>. QED
      BY <1>3 DEF CopyInto, DataLists
  <2>2. ~w.more => w.off # 0
    BY ConstantsAssumption DEF ConstantsAssumption
  <2>3. w.off \in Nat /\ End(w) \div 8 \in Int /\ Bits(w) = w.off..(End(w) \div 8 - 1)
    BY UnitsAndBits
  <2> HIDE DEF d
  <2>4. ASSUME d.last, Verify(d) PROVE FALSE
    <3>1. w.off # 0 /\ 0 \notin Bits(w)
      BY <2>1, <2>2, <2>3, <2>4
    <3>2. d.total \div 8 > 0 /\ 0..(d.total \div 8 - 1) \subseteq d.bits
      BY <2>4 DEF Verify
    <3>3. d.total \div 8 \in Int
      <4>1. d \in DataLists
        BY <1>1, <1>3, CopyKeeps DEF d
      <4>. QED
        BY <4>1 DEF DataLists
    <3>. QED
      BY <2>1, <3>1, <3>2, <3>3
  <2>. QED
    BY <2>4
<1> HIDE DEF d
<1>6. /\ buf'[b] = d /\ \A a \in Buffers : a # b => buf'[a] = buf[a]
  BY <1>1 DEF IndInv, TypeInv
<1>7. ToSet(datagrams') = ToSet(datagrams) \cup {b}
  <2>1. b \notin ToSet(datagrams)
    BY <1>2 DEF IndInv, BufferInv
  <2>. QED
    BY <1>1, <2>1, AppendKeeps DEF IndInv, TypeInv
<1>8. \A a \in InUse : Verify(buf[a])' <=> Verify(buf[a])
  BY <1>2, <1>6 DEF Verify
<1>9. Verify(buf[b])' <=> Verify(d)
  BY <1>6 DEF Verify
<1>. QED
  BY <1>1, <1>2, <1>4, <1>5, <1>6, <1>7, <1>8, <1>9 DEF DatagramInv

\* A datagram that is given up or has expired.
LEMMA LeavingSteps ==
    ASSUME IndInv, DatagramInv,
           \/ TtlExpire
           \/ \E f \in Requests, w \in Wire, b \in Buffers : AnalyzeOverlong(f, w, b)
    PROVE  DatagramInv'
<1>1. CASE TtlExpire
  <2> DEFINE b == datagrams[atT]
  <2>1. /\ atT \in DOMAIN datagrams /\ datagrams' = Unlink(datagrams, b)
        /\ FreeDatagram(b) /\ UNCHANGED <<buf, allocated>>
    BY <1>1 DEF TtlExpire
  <2>2. b \in ToSet(datagrams)
    BY <2>1, Entries DEF IndInv, TypeInv
  <2> HIDE DEF b
  <2>3. b \in InUse /\ InUse' = InUse \ {b}
    BY <2>1, <2>2 DEF IndInv, BufferInv, FreeDatagram, InUse
  <2>4. ToSet(datagrams') = ToSet(datagrams) \ {b}
    BY <2>1, DatagramLeaves DEF IndInv
  <2>5. \A f \in Requests : f \notin buf[b].list => frag'[f] = frag[f]
    BY <2>1 DEF FreeDatagram
  <2>. QED
    BY <2>1, <2>3, <2>4, <2>5, LeavingKeepsDatagrams
<1>2. ASSUME NEW f \in Requests, NEW w \in Wire, NEW b \in Buffers,
             AnalyzeOverlong(f, w, b)
      PROVE  DatagramInv'
  <2>1. /\ datagrams' = Unlink(datagrams, b) /\ freeBufs' = freeBufs \cup {b}
        /\ UNCHANGED <<frag, buf, allocated>>
    BY <1>2 DEF AnalyzeOverlong
  <2>2. b \in InUse /\ InUse' = InUse \ {b}
    BY <1>2, <2>1, FoundListed DEF AnalyzeOverlong, IndInv, BufferInv, InUse
  <2>3. ToSet(datagrams') = ToSet(datagrams) \ {b}
    BY <2>1, DatagramLeaves DEF IndInv
  <2>. QED
    BY <2>1, <2>2, <2>3, LeavingKeepsDatagrams
<1>. QED
  BY <1>1, <1>2

\* A reference goes, to the assembler's clone or to a client's.
LEMMA ReleasingSteps ==
    ASSUME IndInv, DatagramInv,
           DeliverFree \/ \E c \in Clients, d \in Buffers : ClientFree(c, d)
    PROVE  DatagramInv'
<1>1. PICK b \in Buffers :
        /\ FWFreeCloneRequest(b) /\ b \in InUse /\ b \notin ToSet(datagrams)
        /\ UNCHANGED <<datagrams, buf, allocated>>
  <2>1. CASE DeliverFree
    <3>1. onI \in Buffers /\ onI \in InUse /\ onI \notin ToSet(datagrams)
      BY <2>1 DEF DeliverFree, IndInv, TypeInv, WalkInv, BufferInv
    <3>. QED
      BY <2>1, <3>1 DEF DeliverFree
  <2>2. ASSUME NEW c \in Clients, NEW d \in Buffers, ClientFree(c, d)
        PROVE  /\ FWFreeCloneRequest(d) /\ d \in InUse /\ d \notin ToSet(datagrams)
               /\ UNCHANGED <<datagrams, buf, allocated>>
    BY <2>2 DEF ClientFree, Keepers, IndInv, BufferInv
  <2>. QED
    BY <2>1, <2>2
<1>2. CASE FreeDatagram(b)
  <2>1. InUse' = InUse \ {b}
    BY <1>1, <1>2 DEF FreeDatagram, InUse
  <2>2. ToSet(datagrams') = ToSet(datagrams) \ {b}
    BY <1>1
  <2>3. \A f \in Requests : f \notin buf[b].list => frag'[f] = frag[f]
    BY <1>2 DEF FreeDatagram
  <2>. QED
    BY <1>1, <2>1, <2>2, <2>3, LeavingKeepsDatagrams
<1>3. CASE UNCHANGED <<frag, freeBufs>>
  <2>1. InUse \subseteq Buffers
    BY DEF InUse, IndInv, TypeInv
  <2>. QED
    BY <1>1, <1>3, <2>1, DatagramQuiet
<1>. QED
  BY <1>1, <1>2, <1>3 DEF FWFreeCloneRequest

\* Every step keeps it.
LEMMA DatagramStep ==
    ASSUME IndInv, DatagramInv, [Next]_vars PROVE DatagramInv'
<1>1. InUse \subseteq Buffers
  BY DEF InUse, IndInv, TypeInv
<1>2. ASSUME UNCHANGED <<frag, bufVars>> PROVE DatagramInv'
  BY <1>1, <1>2, DatagramQuiet DEF bufVars
<1>3. ASSUME TtlStep PROVE DatagramInv'
  <2> DEFINE b == datagrams[atT]
  <2>1. /\ buf' = [buf EXCEPT ![b] = [buf[b] EXCEPT !.ttl = @ - 1]]
        /\ UNCHANGED <<frag, datagrams, allocated, freeBufs>>
    BY <1>3 DEF TtlStep
  <2>2. buf \in [Buffers -> DataLists] /\ b \in Buffers
    BY <1>3, Entries DEF TtlStep, IndInv, TypeInv
  <2> HIDE DEF b
  <2>3. \A a \in Buffers :
          /\ buf'[a].list = buf[a].list /\ buf'[a].key = buf[a].key
          /\ buf'[a].bits = buf[a].bits /\ buf'[a].last = buf[a].last
          /\ buf'[a].total = buf[a].total
    BY <2>1, <2>2 DEF DataLists
  <2>. QED
    BY <1>1, <2>1, <2>3, DatagramQuiet
<1>4. ASSUME NEW f \in Requests, NEW w \in Wire, Analyze(f, w)
      PROVE  DatagramInv'
  <2>1. CASE AnalyzeOptions(f, w) \/ AnalyzeNewFails(f, w)
    BY <1>2, <2>1 DEF AnalyzeOptions, AnalyzeNewFails
  <2>. QED
    BY <1>4, <2>1, LeavingSteps, AddAssembles, NewAssembles DEF Analyze
<1>5. ASSUME IntermNext PROVE DatagramInv'
  <2>1. CASE IntermWait \/ IntermDone \/ Deliver
    BY <1>2, <2>1 DEF IntermWait, IntermDone, Deliver
  <2>. QED
    BY <1>4, <1>5, <2>1, ReleasingSteps DEF IntermNext
<1>6. ASSUME TtlNext PROVE DatagramInv'
  <2>1. CASE TtlWake \/ TtlDone
    BY <1>2, <2>1 DEF TtlWake, TtlDone
  <2>. QED
    BY <1>3, <1>6, <2>1, LeavingSteps DEF TtlNext
<1>7. ASSUME NEW c \in Clients, ClientRegisters(c) \/ ClientDeregisters(c)
      PROVE  DatagramInv'
  BY <1>2, <1>7 DEF ClientRegisters, ClientDeregisters
<1>8. ASSUME NEW c \in Clients, NEW b \in Buffers, ClientInject(c, b)
      PROVE  DatagramInv'
  BY <1>2, <1>8 DEF ClientInject
<1>9. ASSUME SetEvent \/ UNCHANGED vars PROVE DatagramInv'
  BY <1>2, <1>9 DEF SetEvent, vars
<1>. QED
  BY <1>5, <1>6, <1>7, <1>8, <1>9, ArrivalKeepsDatagrams, ReleasingSteps
     DEF Next

\* The bitmap tells what the fragments say, throughout.
LEMMA DatagramsInvariant == Spec => []DatagramInv
<1>1. Init => DatagramInv
  BY DEF Init, DatagramInv, InUse
<1>2. IndInv /\ DatagramInv /\ [Next]_vars => DatagramInv'
  BY DatagramStep
<1>. QED
  BY <1>1, <1>2, Invariance, PTL DEF Spec

\* A unit that a fragment's bits claim is in its data or directly behind them.
LEMMA BitsClaim ==
    ASSUME NEW w \in Wire, NEW u \in Bits(w), u \notin Units(w)
    PROVE  u \in Overrun(w)
<1>1. /\ w.off \in Nat /\ Beyond(w) \in Nat
      /\ Units(w) = w.off..(Beyond(w) - 1) /\ Bits(w) = w.off..(End(w) \div 8 - 1)
      /\ End(w) \div 8 \in {Beyond(w) + 1, Beyond(w) + 2}
  BY UnitsAndBits
<1>2. Overrun(w) = {Beyond(w), Beyond(w) + 1}
  BY DEF Overrun, Beyond
<1>3. u \in Nat /\ Beyond(w) <= u /\ u < Beyond(w) + 2
  BY <1>1
<1>. QED
  BY <1>1, <1>2, <1>3

\* A datagram that clients get to see is of one sender and its end is known, and
\* whatever fragments arrive, nothing of it is missing but the two units behind
\* a fragment: the bitmap is filled up with the length of headers that are not
\* there, which hides such a gap and no other.
THEOREM AssembledAlwaysComplete == Spec => []AssembledComplete
<1>1. ASSUME IndInv, DatagramInv PROVE AssembledComplete
  <2>1. ASSUME NEW b \in Buffers, refs[b] > 0
        PROVE  /\ buf[b].last
               /\ Missing(b) \subseteq UNION {Overrun(w) : w \in Fragments(b)}
               /\ \A w \in Fragments(b) : w.key = buf[b].key
    <3>1. b \in InUse /\ b \notin ToSet(datagrams)
      <4>1. /\ refs[b] = Cardinality(Keepers(b)) + (IF onI = b THEN 1 ELSE 0)
            /\ Keepers(b) = {} <=> Cardinality(Keepers(b)) = 0
        BY <1>1, References DEF IndInv, BufferInv
      <4>2. b = onI \/ Keepers(b) # {}
        BY <2>1, <4>1
      <4>. QED
        BY <1>1, <4>2 DEF IndInv, BufferInv
    <3>2. buf[b].last /\ Verify(buf[b])
      BY <1>1, <3>1 DEF DatagramInv
    <3>3. PICK l \in Fragments(b) : buf[b].total = End(l)
      BY <1>1, <3>1, <3>2, LastFragment DEF IndInv
    <3>4. /\ Fragments(b) \in SUBSET Wire
          /\ buf[b].bits = UNION {Bits(w) : w \in Fragments(b)}
      BY <1>1, <3>1, <3>2, LastFragment DEF IndInv
    <3>5. /\ (buf[b].total - ipHeaderSize + 7) \div 8 = Beyond(l)
          /\ Beyond(l) \in Nat /\ End(l) \div 8 \in {Beyond(l) + 1, Beyond(l) + 2}
      BY <3>3, <3>4, UnitsAndBits DEF ipHeaderSize
    <3>6. ASSUME NEW u \in Missing(b)
          PROVE  \E w \in Fragments(b) : u \in Overrun(w)
      <4>1. u \in 0..(Beyond(l) - 1) /\ \A w \in Fragments(b) : u \notin Units(w)
        BY <3>5, <3>6 DEF Missing
      <4>2. u \in 0..(End(l) \div 8 - 1)
        BY <3>5, <4>1
      <4>3. PICK w \in Fragments(b) : u \in Bits(w)
        BY <3>2, <3>3, <3>4, <4>2 DEF Verify
      <4>. QED
        BY <3>4, <4>1, <4>3, BitsClaim
    <3>7. \A w \in Fragments(b) : w.key = buf[b].key
      BY <1>1, <3>1 DEF DatagramInv, Fragments
    <3>. QED
      BY <3>2, <3>6, <3>7
  <2>. QED
    BY <2>1 DEF AssembledComplete
<1>. QED
  BY <1>1, Invariance, DatagramsInvariant, PTL

\* A datagram is delivered with the fragment that completes it, in whatever order
\* they come, unless its length wraps.
THEOREM CompleteAlwaysDelivered ==
    ASSUME LengthsFit PROVE Spec => []CompleteDelivered
<1>1. ASSUME IndInv, DatagramInv PROVE CompleteDelivered
  <2>1. ASSUME NEW b \in ToSet(datagrams), Complete(b) PROVE FALSE
    <3>1. b \in InUse /\ buf[b].last
      BY <1>1, <2>1 DEF IndInv, BufferInv, Complete
    <3>2. PICK l \in Fragments(b) : buf[b].total = End(l)
      BY <1>1, <3>1, LastFragment DEF IndInv
    <3>3. /\ Fragments(b) \in SUBSET Wire
          /\ buf[b].bits = UNION {Bits(w) : w \in Fragments(b)}
      BY <1>1, <3>1, LastFragment DEF IndInv
    <3>4. (buf[b].total - ipHeaderSize + 7) \div 8 = Beyond(l)
      BY <3>2, <3>3, UnitsAndBits DEF ipHeaderSize
    <3>5. 0..(End(l) \div 8 - 1) \subseteq buf[b].bits
      BY <2>1, <3>3, <3>4, BitsNeeded DEF Complete, Missing
    <3>6. End(l) \div 8 > 0
      BY <3>3, UnitsAndBits
    <3>. QED
      BY <1>1, <2>1, <3>1, <3>2, <3>5, <3>6 DEF DatagramInv, Verify
  <2>. QED
    BY <2>1 DEF CompleteDelivered
<1>. QED
  BY <1>1, Invariance, DatagramsInvariant, PTL

-----------------------------------------------------------------------------
(* The promise of an assembler *)

\* Who holds a datagram, and which fragments are back with ansfltr, as
\* AssemblerContract sees them.
HoldersMap == [D \in SUBSET Requests |->
                 UNION {HoldersOf(b) : b \in {a \in Buffers : buf[a].list = D}}]
BackMap == {f \in live : sent[f] > 0}

\* The memory of a request that is not in existence holds no fragment.
FragInv == \A f \in Requests : f \in live \/ frag[f] = NULL

\* What has left the list of datagrams is whole.
WholeInv == \A b \in InUse : b \notin ToSet(datagrams) => Datagrams!Whole(Fragments(b))

MapInv == IndInv /\ SentInv /\ DatagramInv /\ FragInv /\ WholeInv

\* A fragment goes with its request.
LEMMA FragStep == ASSUME IndInv, FragInv, [Next]_vars PROVE FragInv'
<1>1. ASSUME UNCHANGED <<live, frag>> PROVE FragInv'
  BY <1>1 DEF FragInv
<1>2. ASSUME NEW b \in Buffers, FreeDatagram(b) PROVE FragInv'
  BY <1>2 DEF FreeDatagram, FragInv
<1>3. ASSUME NEW b \in Buffers, FWFreeCloneRequest(b) PROVE FragInv'
  BY <1>1, <1>2, <1>3 DEF FWFreeCloneRequest
<1>4. ASSUME NEW f \in Requests, NEW w \in Wire, ReassemblePacket(f, w)
      PROVE  FragInv'
  BY <1>4 DEF ReassemblePacket, FragInv, IndInv, TypeInv
<1>5. ASSUME NEW f \in Requests, NEW w \in Wire, Analyze(f, w)
      PROVE  FragInv'
  BY <1>1, <1>5
     DEF Analyze, AnalyzeOptions, AnalyzeNewFails, AnalyzeOverlong, AnalyzeAdd,
         AnalyzeNew
<1>6. ASSUME DeliverFree PROVE FragInv'
  <2>1. onI \in Buffers
    BY <1>6 DEF DeliverFree, IndInv, TypeInv, WalkInv
  <2>. QED
    BY <1>3, <1>6, <2>1 DEF DeliverFree
<1>7. ASSUME IntermNext PROVE FragInv'
  BY <1>1, <1>5, <1>6, <1>7 DEF IntermNext, IntermWait, IntermDone, Deliver
<1>8. ASSUME TtlExpire PROVE FragInv'
  <2>1. datagrams[atT] \in Buffers
    BY <1>8, Entries DEF TtlExpire, IndInv, TypeInv
  <2>. QED
    BY <1>2, <1>8, <2>1 DEF TtlExpire
<1>9. ASSUME TtlNext PROVE FragInv'
  BY <1>1, <1>8, <1>9 DEF TtlNext, TtlWake, TtlStep, TtlDone
<1>10. ASSUME NEW c \in Clients, NEW b \in Buffers, ClientInject(c, b) \/ ClientFree(c, b)
       PROVE  FragInv'
  BY <1>1, <1>3, <1>10 DEF ClientInject, ClientFree
<1>11. ASSUME \/ SetEvent \/ UNCHANGED vars
              \/ \E c \in Clients : ClientRegisters(c) \/ ClientDeregisters(c)
       PROVE  FragInv'
  BY <1>1, <1>11 DEF SetEvent, vars, ClientRegisters, ClientDeregisters
<1>. QED
  BY <1>4, <1>7, <1>9, <1>10, <1>11 DEF Next

\* Verify finds whole what is whole, but for the gaps that the bitmap hides.
LEMMA VerifiedWhole ==
    ASSUME NoSmallGaps, IndInv, DatagramInv PROVE WholeInv
<1>1. ASSUME NEW b \in InUse, b \notin ToSet(datagrams)
      PROVE  Datagrams!Whole(Fragments(b))
  <2>1. buf[b].last /\ Verify(buf[b])
    BY <1>1 DEF DatagramInv
  <2>2. /\ Fragments(b) \in SUBSET Wire
        /\ \A v, w \in Fragments(b) : v.key = w.key
        /\ buf[b].bits = UNION {Bits(w) : w \in Fragments(b)}
    BY <2>1, LastFragment DEF IndInv
  <2>3. PICK l \in Fragments(b) : ~l.more /\ buf[b].total = End(l)
    BY <2>1, LastFragment DEF IndInv
  <2>4. 0..(Beyond(l) - 1) \subseteq UNION {Units(w) : w \in Fragments(b)}
    BY <2>1, <2>2, <2>3, BitsSuffice DEF Verify
  <2>5. \A w \in Fragments(b) : Datagrams!After(w) = Beyond(w)
    BY DEF Datagrams!After, Beyond
  <2>6. Datagrams!Filled(Fragments(b)) = UNION {Units(w) : w \in Fragments(b)}
    BY <2>2, <2>5, UnitsAndBits DEF Datagrams!Filled
  <2>. QED
    BY <2>2, <2>3, <2>4, <2>5, <2>6 DEF Datagrams!Whole
<1>. QED
  BY <1>1 DEF WholeInv

\* A buffer whose datagram somebody holds is in use, off the list and not empty.
LEMMA HeldBuffer ==
    ASSUME IndInv, DatagramInv, NEW b \in Buffers, HoldersOf(b) # {}
    PROVE  b \in InUse /\ b \notin ToSet(datagrams) /\ buf[b].list # {}
<1>1. b = onI \/ Keepers(b) # {}
  BY DEF HoldersOf, Keepers
<1>2. b \in InUse /\ b \notin ToSet(datagrams)
  BY <1>1 DEF IndInv, BufferInv
<1>. QED
  BY <1>2 DEF DatagramInv

\* The requests of a datagram that somebody holds are its own.
LEMMA OwnRequests ==
    ASSUME IndInv, DatagramInv, NEW b \in InUse, NEW a \in Buffers,
           HoldersOf(a) # {}, a # b
    PROVE  buf[a].list \cap buf[b].list = {} /\ buf[a].list # buf[b].list
  BY HeldBuffer DEF IndInv, PlaceInv

\* The datagram in b is held by those who hold b.
LEMMA HoldersFound ==
    ASSUME IndInv, DatagramInv, NEW b \in InUse
    PROVE  HoldersMap[buf[b].list] = HoldersOf(b)
<1>1. b \in Buffers /\ buf[b].list \in SUBSET Requests
  BY DEF InUse, IndInv, TypeInv, DataLists
<1>2. \A a \in Buffers : a # b /\ buf[a].list = buf[b].list => HoldersOf(a) = {}
  BY OwnRequests
<1>3. HoldersMap[buf[b].list] =
        UNION {HoldersOf(e) : e \in {a \in Buffers : buf[a].list = buf[b].list}}
  BY <1>1 DEF HoldersMap
<1>. QED
  BY <1>1, <1>2, <1>3

\* Requests that wait in b are shown to nobody.
LEMMA NotShown ==
    ASSUME IndInv, DatagramInv, NEW f \in Requests,
           \/ f \in ToSet(queue)
           \/ \E b \in InUse : f \in buf[b].list /\ HoldersOf(b) = {}
    PROVE  f \notin UNION Datagrams!Shown
<1>1. ASSUME NEW D \in SUBSET Requests, HoldersMap[D] # {}, f \in D PROVE FALSE
  <2>1. PICK a \in Buffers : buf[a].list = D /\ HoldersOf(a) # {}
    BY <1>1 DEF HoldersMap
  <2>2. a \in InUse /\ f \in buf[a].list
    BY <1>1, <2>1, HeldBuffer
  <2>. QED
    BY <2>1, <2>2 DEF IndInv, PlaceInv
<1>. QED
  BY <1>1 DEF Datagrams!Shown, Datagrams!Datagrams, HoldersMap

\* Steps that those who hold datagrams do not notice.
LEMMA HoldersStay ==
    ASSUME \A a \in Buffers : /\ HoldersOf(a)' = HoldersOf(a)
                              /\ HoldersOf(a) # {} => buf'[a].list = buf[a].list
    PROVE  HoldersMap' = HoldersMap
<1>1. ASSUME NEW D \in SUBSET Requests PROVE HoldersMap'[D] = HoldersMap[D]
  <2>1. \A x : x \in HoldersMap'[D] <=>
          \E a \in Buffers : buf'[a].list = D /\ x \in HoldersOf(a)'
    BY DEF HoldersMap
  <2>2. \A x : x \in HoldersMap[D] <=>
          \E a \in Buffers : buf[a].list = D /\ x \in HoldersOf(a)
    BY DEF HoldersMap
  <2>3. ASSUME NEW a \in Buffers, NEW x
        PROVE  buf'[a].list = D /\ x \in HoldersOf(a)' <=>
                 buf[a].list = D /\ x \in HoldersOf(a)
    OBVIOUS
  <2>4. \A x : x \in HoldersMap'[D] <=> x \in HoldersMap[D]
    BY <2>1, <2>2, <2>3
  <2>. QED
    BY <2>4
<1>. QED
  BY <1>1 DEF HoldersMap

\* The datagram in b, D, gets other holders.
LEMMA HoldersMove ==
    ASSUME NEW b \in Buffers, NEW D \in SUBSET Requests, buf'[b].list = D,
           HoldersOf(b) = {} \/ buf[b].list = D,
           \A a \in Buffers : a # b =>
               /\ HoldersOf(a)' = HoldersOf(a)
               /\ HoldersOf(a) # {} => buf'[a].list = buf[a].list /\ buf[a].list # D
    PROVE  HoldersMap' = [HoldersMap EXCEPT ![D] = HoldersOf(b)']
<1>1. ASSUME NEW E \in SUBSET Requests
      PROVE  HoldersMap'[E] = IF E = D THEN HoldersOf(b)' ELSE HoldersMap[E]
  <2>1. \A x : x \in HoldersMap'[E] <=>
          \E a \in Buffers : buf'[a].list = E /\ x \in HoldersOf(a)'
    BY DEF HoldersMap
  <2>2. \A x : x \in HoldersMap[E] <=>
          \E a \in Buffers : buf[a].list = E /\ x \in HoldersOf(a)
    BY DEF HoldersMap
  <2>3. CASE E = D
    BY <2>1, <2>3
  <2>4. CASE E # D
    <3>1. ASSUME NEW a \in Buffers, NEW x
          PROVE  buf'[a].list = E /\ x \in HoldersOf(a)' <=>
                   buf[a].list = E /\ x \in HoldersOf(a)
      BY <2>4
    <3>2. \A x : x \in HoldersMap'[E] <=> x \in HoldersMap[E]
      BY <2>1, <2>2, <3>1
    <3>. QED
      BY <2>4, <3>2
  <2>. QED
    BY <2>3, <2>4
<1>2. /\ HoldersMap = [E \in SUBSET Requests |-> HoldersMap[E]]
      /\ HoldersMap' = [E \in SUBSET Requests |-> HoldersMap'[E]]
  BY DEF HoldersMap
<1>. QED
  BY <1>1, <1>2

\* Steps that the contract does not see.
LEMMA StutterMaps ==
    ASSUME UNCHANGED <<live, frag, sent, held, onI>>,
           \A a \in Buffers : HoldersOf(a) # {} => buf'[a].list = buf[a].list
    PROVE  UNCHANGED Datagrams!vars
<1>1. \A a \in Buffers : HoldersOf(a)' = HoldersOf(a)
  BY DEF HoldersOf
<1>2. HoldersMap' = HoldersMap
  BY <1>1, HoldersStay
<1>3. BackMap' = BackMap
  BY DEF BackMap
<1>. QED
  BY <1>2, <1>3 DEF Datagrams!vars, HoldersMap, BackMap

\* A fragment arrives.
LEMMA ReceiveMaps ==
    ASSUME MapInv, NEW f \in Requests, NEW w \in Wire, ReassemblePacket(f, w)
    PROVE  Datagrams!Receive(f, w)
<1>1. f \notin live /\ live' = live \cup {f} /\ frag' = [frag EXCEPT ![f] = w]
      /\ sent' = [sent EXCEPT ![f] = 0] /\ UNCHANGED <<buf, held, onI>>
  BY DEF ReassemblePacket, bufVars, threadVars
<1>2. frag[f] = NULL
  BY <1>1 DEF MapInv, FragInv
<1>3. HoldersMap' = HoldersMap
  <2>1. \A a \in Buffers : HoldersOf(a)' = HoldersOf(a)
    BY <1>1 DEF HoldersOf
  <2>. QED
    BY <1>1, <2>1, HoldersStay
<1>4. BackMap' = BackMap
  BY <1>1 DEF BackMap, MapInv, IndInv, TypeInv
<1>. QED
  BY <1>1, <1>2, <1>3, <1>4 DEF Datagrams!Receive, HoldersMap, BackMap

\* A fragment completes its datagram.
LEMMA ShowMaps ==
    ASSUME MapInv, WholeInv', DatagramInv', NEW f \in Requests, NEW w \in Wire,
           NEW b \in Buffers, AnalyzeAdd(f, w, b), pcI' = "deliver",
           NEW D, D = buf[b].list \cup {f}
    PROVE  Datagrams!Show(D)
<1> DEFINE d == CopyInto(buf[b], f, w)
<1>1. /\ Analyzing(f, w) /\ buf' = [buf EXCEPT ![b] = d]
      /\ pcI = "drain" /\ datagrams' = Unlink(datagrams, b) /\ onI' = b
      /\ UNCHANGED <<live, frag, allocated, freeBufs, held, sent>>
  BY DEF AnalyzeAdd, Analyzing
<1>2. b \in ToSet(datagrams) /\ b \in InUse
  BY FoundListed DEF AnalyzeAdd, MapInv, IndInv, BufferInv
<1>3. f \in ToSet(queue)
  BY <1>1, QueueHead DEF MapInv, IndInv
<1>4. d.list = D
  BY DEF CopyInto, MapInv, IndInv, TypeInv, DataLists
<1>5. /\ D \in SUBSET Requests /\ buf'[b].list = D
      /\ \A a \in Buffers : a # b => buf'[a] = buf[a]
  BY <1>1, <1>4 DEF MapInv, IndInv, TypeInv, DataLists
<1>6. b \in InUse' /\ b \notin ToSet(datagrams')
  BY <1>1, <1>2, DatagramLeaves DEF InUse, MapInv, IndInv
<1>7. /\ onI = NULL /\ NULL \notin Buffers /\ Keepers(b) = {}
  BY <1>1, <1>2, ConstantsAssumption
     DEF ConstantsAssumption, MapInv, IndInv, WalkInv, BufferInv
<1>8. /\ HoldersOf(b) = {} /\ HoldersOf(b)' = {NULL}
      /\ \A a \in Buffers : a # b => HoldersOf(a)' = HoldersOf(a)
  BY <1>1, <1>7 DEF HoldersOf, Keepers
<1> HIDE DEF d
<1>9. \A a \in Buffers : a # b /\ HoldersOf(a) # {} => buf[a].list # D
  <2>1. ASSUME NEW a \in Buffers, HoldersOf(a) # {} PROVE f \notin buf[a].list
    BY <1>3, <2>1, HeldBuffer DEF MapInv, IndInv, PlaceInv
  <2>. QED
    BY <2>1
<1>10. HoldersMap' = [HoldersMap EXCEPT ![D] = {NULL}]
  BY <1>5, <1>8, <1>9, HoldersMove
<1>11. D \cap UNION Datagrams!Shown = {}
  BY <1>2, <1>3, <1>5, <1>8, NotShown DEF MapInv
<1>12. \A g \in D : frag[g] \in Wire
  BY <1>1, <1>5, <1>6 DEF DatagramInv
<1>13. \A g \in D : frag[g] # NULL
  BY <1>12, ConstantsAssumption DEF ConstantsAssumption
<1>14. D \cap BackMap = {}
  <2>1. \A g \in D : sent[g] = 0
    BY <1>2, <1>3 DEF MapInv, SentInv, Unsent
  <2>. QED
    BY <2>1 DEF BackMap
<1>15. Datagrams!Whole({frag[g] : g \in D})
  <2>1. Fragments(b)' = {frag[g] : g \in D}
    BY <1>1, <1>5 DEF Fragments
  <2>2. Datagrams!Whole(Fragments(b)')
    BY <1>6 DEF WholeInv, Datagrams!Whole, Datagrams!Filled, Datagrams!After
  <2>. QED
    BY <2>1, <2>2
<1>16. BackMap' = BackMap
  BY <1>1 DEF BackMap
<1>. QED
  BY <1>1, <1>5, <1>10, <1>11, <1>13, <1>14, <1>15, <1>16
     DEF Datagrams!Show, Datagrams!Waiting, HoldersMap, BackMap

\* One who holds a datagram shows it to others.
LEMMA ShownMaps ==
    ASSUME MapInv, NEW b \in Buffers, Unsent(b), NEW h \in HoldersOf(b),
           NEW asked, NEW may, NEW kept \in SUBSET Clients,
           NEW next \in SUBSET Clients, NEW ok \in BOOLEAN,
           Shown(b, asked, may, kept, next, ok),
           UNCHANGED <<live, frag, buf, onI>>, NEW D, D = buf[b].list
    PROVE  Datagrams!HandBack(D, h, kept) \/ Datagrams!Share(D, h, kept)
<1>1. b \in InUse /\ D \in SUBSET Requests
  BY UnsentInUse DEF MapInv, IndInv, TypeInv, DataLists
<1>2. h \in HoldersMap[D] /\ HoldersMap[D] = HoldersOf(b)
  BY <1>1, HoldersFound DEF MapInv
<1>3. \A c \in Clients : held'[c] = held[c] \cup {e \in {b} : c \in kept}
  BY DEF Shown
<1>4. /\ HoldersOf(b)' = HoldersOf(b) \cup kept
      /\ \A a \in Buffers : a # b => HoldersOf(a)' = HoldersOf(a)
  BY <1>3 DEF HoldersOf
<1>5. HoldersMap' = [HoldersMap EXCEPT ![D] = @ \cup kept]
  <2>1. \A a \in Buffers : a # b /\ HoldersOf(a) # {} => buf[a].list # D
    BY <1>1, OwnRequests DEF MapInv
  <2>2. HoldersMap' = [HoldersMap EXCEPT ![D] = HoldersOf(b)']
    BY <1>1, <1>4, <2>1, HoldersMove
  <2>. QED
    BY <1>2, <1>4, <2>2
<1>6. \A f \in D : sent[f] = 0 /\ f \in live /\ f \in Requests
  BY <1>1 DEF MapInv, SentInv, IndInv, PlaceInv
<1>7. \A f \in Requests : sent'[f] = IF ok /\ f \in D /\ sent[f] < 2
                                     THEN sent[f] + 1 ELSE sent[f]
  BY DEF Shown
<1>8. live \subseteq Requests
  BY DEF MapInv, IndInv, TypeInv
<1>9. CASE ok
  <2>1. \A f \in live : sent'[f] > 0 <=> sent[f] > 0 \/ f \in D
    BY <1>6, <1>7, <1>8, <1>9
  <2>2. BackMap' = BackMap \cup D /\ D \cap BackMap = {}
    BY <1>6, <2>1 DEF BackMap
  <2>. QED
    BY <1>2, <1>5, <2>2 DEF Datagrams!HandBack, HoldersMap, BackMap
<1>10. CASE ~ok
  <2>1. BackMap' = BackMap
    BY <1>7, <1>8, <1>10 DEF BackMap
  <2>. QED
    BY <1>2, <1>5, <2>1 DEF Datagrams!Share, HoldersMap, BackMap
<1>. QED
  BY <1>9, <1>10

\* A datagram is freed, by the last who held it or because it has expired.
LEMMA FreeMaps ==
    ASSUME MapInv, NEW b \in InUse, FreeDatagram(b), sent' = sent,
           NEW D, D = buf[b].list
    PROVE  Datagrams!Free(D)
<1>1. BackMap' = BackMap \ D
  BY DEF FreeDatagram, BackMap
<1>. QED
  BY <1>1 DEF Datagrams!Free, FreeDatagram, BackMap

\* One who holds a datagram gives it up.
LEMMA ReleaseMaps ==
    ASSUME MapInv, IndInv', NEW b \in Buffers, NEW h \in HoldersOf(b),
           HoldersOf(b)' = HoldersOf(b) \ {h},
           \A a \in Buffers : a # b => HoldersOf(a)' = HoldersOf(a),
           FWFreeCloneRequest(b), UNCHANGED <<datagrams, buf, allocated, sent>>,
           NEW D, D = buf[b].list
    PROVE  Datagrams!Release(D, h)
<1>1. b \in InUse /\ b \notin ToSet(datagrams) /\ D \in SUBSET Requests
  BY HeldBuffer DEF MapInv, IndInv, TypeInv, DataLists
<1>2. HoldersMap[D] = HoldersOf(b)
  BY <1>1, HoldersFound DEF MapInv
<1>3. HoldersMap' = [HoldersMap EXCEPT ![D] = @ \ {h}]
  <2>1. \A a \in Buffers : a # b /\ HoldersOf(a) # {} => buf[a].list # D
    BY <1>1, OwnRequests DEF MapInv
  <2>2. HoldersMap' = [HoldersMap EXCEPT ![D] = HoldersOf(b)']
    BY <1>1, <2>1, HoldersMove
  <2>. QED
    BY <1>2, <2>2
<1>4. b \in InUse' <=> HoldersOf(b)' # {}
  BY <1>1 DEF IndInv, BufferInv, HoldersOf, Keepers
<1>5. CASE FreeDatagram(b)
  <2>1. b \notin InUse'
    BY <1>5 DEF FreeDatagram, InUse
  <2>2. HoldersMap[D] = {h}
    BY <1>2, <1>4, <2>1
  <2>. QED
    BY <1>1, <1>2, <1>3, <1>5, <2>2, FreeMaps DEF Datagrams!Release, HoldersMap
<1>6. CASE UNCHANGED <<live, frag, freeBufs>>
  <2>1. HoldersMap[D] # {h}
    BY <1>1, <1>2, <1>4, <1>6 DEF InUse
  <2>2. BackMap' = BackMap
    BY <1>6 DEF BackMap
  <2>. QED
    BY <1>2, <1>3, <1>6, <2>1, <2>2 DEF Datagrams!Release, HoldersMap, BackMap
<1>. QED
  BY <1>5, <1>6 DEF FWFreeCloneRequest

\* The assembler takes a step of the contract, or one that it does not see.
LEMMA StepMaps ==
    ASSUME MapInv, IndInv', DatagramInv', WholeInv', [Next]_vars
    PROVE  [Datagrams!Next]_(Datagrams!vars)
<1> DEFINE Goal == [Datagrams!Next]_(Datagrams!vars)
<1>1. /\ datagrams \in Seq(Buffers) /\ fwList \in Seq(Clients)
      /\ ToSet(datagrams) \subseteq InUse /\ InUse \subseteq Buffers
  BY DEF InUse, MapInv, IndInv, TypeInv, BufferInv
<1>2. ASSUME UNCHANGED <<live, frag, buf, sent, held, onI>> PROVE Goal
  BY <1>2, StutterMaps
<1>3. ASSUME NEW f \in Requests, NEW w \in Wire, ReassemblePacket(f, w) PROVE Goal
  BY <1>3, ReceiveMaps DEF Datagrams!Next
<1>4. ASSUME NEW f \in Requests, NEW w \in Wire,
             AnalyzeOptions(f, w) \/ AnalyzeNewFails(f, w)
      PROVE  Goal
  BY <1>2, <1>4
     DEF AnalyzeOptions, AnalyzeNewFails, bufVars, threadVars, clientVars
<1>5. ASSUME NEW f \in Requests, NEW w \in Wire, NEW b \in Buffers,
             AnalyzeOverlong(f, w, b)
      PROVE  Goal
  BY <1>2, <1>5 DEF AnalyzeOverlong, threadVars, clientVars
<1>6. ASSUME NEW b \in Buffers, b \notin InUse \/ b \in ToSet(datagrams),
             NEW d, buf' = [buf EXCEPT ![b] = d],
             UNCHANGED <<live, frag, sent, held, onI>>
      PROVE  Goal
  <2>1. HoldersOf(b) = {}
    BY <1>6, HeldBuffer DEF MapInv
  <2>2. \A a \in Buffers : HoldersOf(a) # {} => buf'[a].list = buf[a].list
    BY <1>6, <2>1 DEF MapInv, IndInv, TypeInv
  <2>. QED
    BY <1>6, <2>2, StutterMaps
<1>7. ASSUME NEW f \in Requests, NEW w \in Wire, NEW b \in Buffers,
             AnalyzeAdd(f, w, b)
      PROVE  Goal
  <2>1. b \in ToSet(datagrams)
    BY <1>7, FoundListed DEF AnalyzeAdd, MapInv, IndInv
  <2>2. CASE onI' = onI
    BY <1>6, <1>7, <2>1, <2>2 DEF AnalyzeAdd
  <2>3. CASE pcI' = "deliver"
    <3>1. PICK D \in SUBSET Requests : D = buf[b].list \cup {f}
      BY DEF MapInv, IndInv, TypeInv, DataLists
    <3>2. Datagrams!Show(D)
      BY <1>7, <2>3, <3>1, ShowMaps
    <3>. QED
      BY <3>1, <3>2 DEF Datagrams!Next, Datagrams!Datagrams
  <2>. QED
    BY <1>7, <2>2, <2>3 DEF AnalyzeAdd
<1>8. ASSUME NEW f \in Requests, NEW w \in Wire, NEW b \in Buffers,
             AnalyzeNew(f, w, b)
      PROVE  Goal
  <2>1. b \notin InUse
    BY <1>8
       DEF AnalyzeNew, ruleAllocDatagramWorkBuffer, InUse, MapInv, IndInv,
           TypeInv
  <2>. QED
    BY <1>6, <1>8, <2>1 DEF AnalyzeNew, threadVars, clientVars
<1>9. ASSUME NEW f \in Requests, NEW w \in Wire, Analyze(f, w) PROVE Goal
  BY <1>4, <1>5, <1>7, <1>8, <1>9 DEF Analyze
<1>10. ASSUME NEW D \in SUBSET Requests, NEW h \in Clients \cup {NULL},
             NEW kept \in SUBSET Clients,
             \/ Datagrams!HandBack(D, h, kept) \/ Datagrams!Share(D, h, kept)
             \/ Datagrams!Release(D, h)
      PROVE  Goal
  BY <1>10 DEF Datagrams!Next, Datagrams!Datagrams
<1>11. ASSUME NEW b \in Buffers PROVE \E D \in SUBSET Requests : D = buf[b].list
  BY DEF MapInv, IndInv, TypeInv, DataLists
<1>12. ASSUME Deliver PROVE Goal
  <2>0. PICK b \in Buffers : b = onI
    BY <1>12 DEF Deliver, MapInv, IndInv, TypeInv, WalkInv
  <2>1. Unsent(b) /\ NULL \in HoldersOf(b) /\ FWInjectRequest(b, fwList, mayInject)
    BY <1>12, <2>0
       DEF Deliver, HoldersOf, MapInv, IndInv, TypeInv, WalkInv, Unsent
  <2>2. /\ fwList \in Seq(Clients) /\ 0 \in 0..Len(fwList)
        /\ RestOf(fwList, fwList, 0)
    BY <1>1, Entries DEF RestOf
  <2>3. PICK kept, next \in SUBSET Clients, ok \in BOOLEAN :
          Shown(b, ToSet(fwList), mayInject, kept, next, ok)
    BY <1>12, <2>1, <2>2, InjectDoes DEF Deliver, MapInv, IndInv
  <2>4. PICK D \in SUBSET Requests : D = buf[b].list
    BY <1>11
  <2>5. Datagrams!HandBack(D, NULL, kept) \/ Datagrams!Share(D, NULL, kept)
    BY <1>12, <2>1, <2>3, <2>4, ShownMaps DEF Deliver, bufVars
  <2>. QED
    BY <1>10, <2>5
<1>13. ASSUME NEW c \in Clients, NEW b \in Buffers, ClientInject(c, b) PROVE Goal
  <2>1. /\ b \in mayInject[c] /\ c \in Registered /\ Unsent(b) /\ c \in HoldersOf(b)
    BY <1>13 DEF ClientInject, HoldersOf, MapInv, IndInv, WalkInv, Unsent
  <2>2. /\ Behind(c) \in Seq(Clients)
        /\ \E m \in 0..Len(fwList) : RestOf(Behind(c), fwList, m)
    BY <2>1, BehindIsRest DEF MapInv, IndInv
  <2>3. PICK kept, next \in SUBSET Clients, ok \in BOOLEAN :
          Shown(b, ToSet(Behind(c)), [mayInject EXCEPT ![c] = @ \ {b}], kept, next, ok)
    BY <1>13, <2>2, InjectDoes DEF ClientInject, MapInv, IndInv
  <2>4. PICK D \in SUBSET Requests : D = buf[b].list
    BY <1>11
  <2>5. Datagrams!HandBack(D, c, kept) \/ Datagrams!Share(D, c, kept)
    BY <1>13, <2>1, <2>3, <2>4, ShownMaps DEF ClientInject, bufVars, threadVars
  <2>. QED
    BY <1>10, <2>5
<1>14. NULL \notin Buffers \cup Clients
  BY ConstantsAssumption DEF ConstantsAssumption
<1>15. ASSUME DeliverFree PROVE Goal
  <2>1. PICK b \in Buffers : b = onI
    BY <1>15 DEF DeliverFree, MapInv, IndInv, TypeInv, WalkInv
  <2>2. onI' = NULL /\ held' = held /\ FWFreeCloneRequest(b)
    BY <1>15, <2>1 DEF DeliverFree
  <2>3. /\ NULL \in HoldersOf(b) /\ HoldersOf(b)' = HoldersOf(b) \ {NULL}
        /\ \A a \in Buffers : a # b => HoldersOf(a)' = HoldersOf(a)
    BY <1>14, <2>1, <2>2 DEF HoldersOf
  <2>4. PICK D \in SUBSET Requests : D = buf[b].list
    BY <1>11
  <2>5. Datagrams!Release(D, NULL)
    BY <1>15, <2>2, <2>3, <2>4, ReleaseMaps DEF DeliverFree
  <2>. QED
    BY <1>10, <2>5
<1>16. ASSUME NEW c \in Clients, NEW b \in Buffers, ClientFree(c, b) PROVE Goal
  <2>1. /\ b \in held[c] /\ held' = [held EXCEPT ![c] = @ \ {b}] /\ onI' = onI
        /\ held \in [Clients -> SUBSET Buffers]
    BY <1>16 DEF ClientFree, threadVars, MapInv, IndInv, TypeInv
  <2>2. c \in HoldersOf(b) /\ HoldersOf(b)' = HoldersOf(b) \ {c}
        /\ \A a \in Buffers : a # b => HoldersOf(a)' = HoldersOf(a)
    BY <1>14, <2>1 DEF HoldersOf
  <2>3. PICK D \in SUBSET Requests : D = buf[b].list
    BY <1>11
  <2>4. Datagrams!Release(D, c)
    BY <1>16, <2>2, <2>3, ReleaseMaps DEF ClientFree
  <2>. QED
    BY <1>10, <2>4
<1>17. ASSUME TtlExpire PROVE Goal
  <2>1. PICK b \in ToSet(datagrams) : b = datagrams[atT]
    BY <1>1, <1>17, Entries DEF TtlExpire
  <2>2. b \in InUse /\ b \in Buffers
    BY <1>1
  <2>3. FreeDatagram(b) /\ UNCHANGED <<buf, onI, held, sent>>
    BY <1>17, <2>1 DEF TtlExpire, clientVars
  <2>4. PICK D \in SUBSET Requests : D = buf[b].list
    BY <1>11, <2>2
  <2>5. HoldersOf(b) = {}
    BY <2>2, HeldBuffer DEF MapInv
  <2>6. \A f \in D : frag[f] # NULL
    BY <2>2, <2>4, ConstantsAssumption
       DEF MapInv, DatagramInv, ConstantsAssumption
  <2>7. D \subseteq Datagrams!Waiting
    BY <2>2, <2>4, <2>5, <2>6, NotShown DEF MapInv, Datagrams!Waiting
  <2>8. HoldersMap' = HoldersMap
    BY <2>3, HoldersStay DEF HoldersOf
  <2>9. Datagrams!Expire(D)
    BY <2>2, <2>3, <2>4, <2>7, <2>8, FreeMaps DEF Datagrams!Expire, HoldersMap
  <2>. QED
    BY <2>9 DEF Datagrams!Next, Datagrams!Datagrams
<1>18. ASSUME TtlStep PROVE Goal
  <2>1. PICK b \in ToSet(datagrams) : b = datagrams[atT]
    BY <1>1, <1>18, Entries DEF TtlStep
  <2>2. b \in Buffers
    BY <1>1
  <2>. QED
    BY <1>6, <1>18, <2>1, <2>2 DEF TtlStep, clientVars
<1>19. ASSUME TtlNext PROVE Goal
  BY <1>2, <1>17, <1>18, <1>19
     DEF TtlNext, TtlWake, TtlDone, bufVars, clientVars
<1>20. ASSUME IntermNext PROVE Goal
  BY <1>2, <1>9, <1>12, <1>15, <1>20
     DEF IntermNext, IntermWait, IntermDone, bufVars, clientVars
<1>21. ASSUME \/ SetEvent \/ UNCHANGED vars
              \/ \E c \in Clients : ClientRegisters(c) \/ ClientDeregisters(c)
       PROVE  Goal
  BY <1>2, <1>21
     DEF SetEvent, vars, ClientRegisters, ClientDeregisters, bufVars,
         threadVars, clientVars
<1>. QED
  BY <1>3, <1>13, <1>16, <1>19, <1>20, <1>21 DEF Next

\* At first nobody holds anything.
LEMMA InitMaps == Init => Datagrams!Init
<1>1. ASSUME Init PROVE Datagrams!Init
  <2>1. \A b \in Buffers : HoldersOf(b) = {}
    BY <1>1, ConstantsAssumption DEF Init, HoldersOf, ConstantsAssumption
  <2>2. HoldersMap = [D \in SUBSET Requests |-> {}]
    BY <2>1 DEF HoldersMap
  <2>3. BackMap = {} /\ frag = [f \in Requests |-> NULL]
    BY <1>1 DEF Init, BackMap
  <2>. QED
    BY <2>2, <2>3 DEF Datagrams!Init, Datagrams!Datagrams, HoldersMap, BackMap
<1>. QED
  BY <1>1

\* What clients get to see is whole, and it stays as it is, the memory of its
\* fragments too, until the last who holds it gives it up; it is handed back
\* whole, and once.
THEOREM AssemblesAlways ==
    ASSUME NoSmallGaps, DocumentedAnswers PROVE Spec => AssemblesDatagrams
<1>1. Init => FragInv
  BY DEF Init, FragInv
<1>2. IndInv /\ FragInv /\ [Next]_vars => FragInv'
  BY FragStep
<1>3. IndInv /\ DatagramInv => WholeInv
  BY VerifiedWhole
<1>4. IndInv /\ DatagramInv /\ FragInv /\ WholeInv => MapInv
  BY DEF IndInv, MapInv
<1>5. MapInv /\ IndInv' /\ DatagramInv' /\ WholeInv' /\ [Next]_vars
        => [Datagrams!Next]_(Datagrams!vars)
  BY StepMaps
<1>. QED
  BY <1>1, <1>2, <1>3, <1>4, <1>5, InitMaps, Invariance, DatagramsInvariant,
     PTL
     DEF Spec, AssemblesDatagrams, Datagrams!Spec
=============================================================================
