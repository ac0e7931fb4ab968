--------------------------- MODULE OpenConnProofs ---------------------------
(***************************************************************************)
(* Proofs about OpenConn, for any number of addresses, files of the IP     *)
(* device, connections and objects.  What makes its properties inductive:  *)
(* an IRP has an object in hand only between two of its routines, a        *)
(* withheld IRP is waited for by one pending object, each kind of object   *)
(* keeps to its own places, and a connection that names an address object  *)
(* is associated with that address.                                        *)
(***************************************************************************)
EXTENDS OpenConn, ListsProofs

-----------------------------------------------------------------------------
(* The inductive invariant *)

\* Where an object can be, beside free.
OnOpen == ToSet(openList)
OnTcp  == ToSet(tcpList)
OnPend == ToSet(pendList)
Held   == {ctx[f] : f \in Files} \ {NULL}
InHand == {hand} \ {NULL}

Used == Objs \ free

FileOf(o) == obj[o].file

ControlType ==
    /\ at \in [Files -> Places]
    /\ ctx \in [Files -> Objs \cup {NULL}]
    /\ assoc \in [Conns -> Addresses \cup {NULL}]
    /\ event \in BOOLEAN /\ pc \in {"wait", "scan", "answer", "place"}
    /\ hand \in Objs \cup {NULL} /\ next \in Objs \cup {NULL}
    /\ early \in BOOLEAN /\ shared \in BOOLEAN /\ crossed \in BOOLEAN

Fields == [file : Files \cup {NULL}, addr : Objs \cup {NULL},
           tcp : Objs \cup {NULL}, irp : Files \cup {NULL}]

ObjectType == obj \in [Objs -> Fields]

ListType ==
    /\ free \subseteq Objs
    /\ openList \in Seq(Objs) /\ tcpList \in Seq(Objs) /\ pendList \in Seq(Objs)

TypeInv == ControlType /\ ObjectType /\ ListType

\* What an IRP and addrThread have in hand where they are.  A file of the IP
\* device is open or not.
HandInv ==
    /\ \A f \in Files :
        /\ at[f] \in {"setting", "taken"} => ctx[f] # NULL
        /\ ctx[f] # NULL =>
             at[f] \in {"opening", "setting", "taken", "associating"}
    /\ \A f \in IpFiles : at[f] \in {"closed", "open"}
    /\ hand # NULL <=> pc \in {"answer", "place"}

\* No object is twice on a list, or in the hands of two IRPs ...
Once ==
    /\ IsInjective(openList) /\ IsInjective(tcpList) /\ IsInjective(pendList)
    /\ \A f, g \in Files : ctx[f] # NULL /\ ctx[f] = ctx[g] => f = g

\* ... and each is in one of the six places.
Apart == \A o \in Objs :
    /\ o \in free   => o \notin OnOpen \cup OnTcp \cup OnPend \cup Held \cup InHand
    /\ o \in OnOpen => o \notin OnTcp \cup OnPend \cup Held \cup InHand
    /\ o \in OnTcp  => o \notin OnPend \cup Held \cup InHand
    /\ o \in OnPend => o \notin Held \cup InHand
    /\ o \in Held   => o \notin InHand
    /\ o \in free \cup OnOpen \cup OnTcp \cup OnPend \cup Held \cup InHand

\* A pending object, until addrThread has answered for it, names the IRP it
\* withholds.
Waiting == OnPend \cup (IF pc = "answer" THEN InHand ELSE {})

WaitInv == \A o \in Waiting :
    /\ obj[o].irp \in Files /\ at[obj[o].irp] = "withheld"
    /\ \A p \in Waiting : obj[p].irp = obj[o].irp => p = o

PlaceInv == Once /\ Apart /\ WaitInv

\* Which kind of object is where.
KindInv ==
    /\ \A o \in OnTcp : FileOf(o) \in Conns
    /\ \A o \in OnOpen : FileOf(o) \in Addresses \cup IpFiles
    /\ \A o \in OnPend \cup InHand : FileOf(o) \in Addresses
    /\ \A f \in Files : ctx[f] # NULL =>
         IF at[f] = "opening" THEN FileOf(ctx[f]) = f
                              ELSE FileOf(ctx[f]) \in Addresses

\* The object of an open file, of a file that is being opened.
FileInv ==
    /\ \A o \in Used : FileOf(o) \in Files /\ at[FileOf(o)] # "closed"
    /\ \A o, p \in Used : FileOf(o) = FileOf(p) => o = p
    /\ \A o \in Used : at[FileOf(o)] = "opening" => ctx[FileOf(o)] = o

\* A connection and the address it is associated with.
LinkInv == \A o \in Used :
    /\ obj[o].addr # NULL =>
         /\ obj[o].addr \in Used /\ obj[obj[o].addr].tcp = o
         /\ FileOf(o) \in Conns /\ FileOf(obj[o].addr) \in Addresses
         /\ assoc[FileOf(o)] = FileOf(obj[o].addr)
    /\ obj[o].tcp # NULL =>
         obj[o].tcp \in Used /\ obj[obj[o].tcp].addr = o
    /\ at[FileOf(o)] = "opening" => obj[o].addr = NULL /\ obj[o].tcp = NULL

ObjectInv == KindInv /\ FileInv /\ LinkInv

IndInv ==
    /\ TypeInv /\ HandInv
    /\ ~crossed => PlaceInv
    /\ ~crossed /\ ~early /\ ~shared => ObjectInv

-----------------------------------------------------------------------------
(* Look-ups, and objects on their way *)

\* A look-up finds an object of the file if there is one.
LEMMA LookupFinds ==
    ASSUME NEW s \in Seq(Objs), NEW f
    PROVE  \/ Lookup(s, f) = NULL /\ \A o \in ToSet(s) : FileOf(o) # f
           \/ /\ Lookup(s, f) \in ToSet(s) /\ Lookup(s, f) \in Objs
              /\ Lookup(s, f) # NULL /\ FileOf(Lookup(s, f)) = f
<1> DEFINE found == {o \in Objs : obj[o].file = f}
<1>1. Lookup(s, f) = FirstIn(s, found, NULL)
  BY DEF Lookup
<1>2. \/ FirstIn(s, found, NULL) = NULL /\ \A i \in 1..Len(s) : s[i] \notin found
      \/ \E k \in 1..Len(s) :
            FirstIn(s, found, NULL) = s[k] /\ s[k] \in found
  BY FirstInIs
<1>3. /\ \A i \in 1..Len(s) : s[i] \in Objs /\ s[i] \in ToSet(s)
      /\ \A o \in ToSet(s) : \E i \in 1..Len(s) : o = s[i]
  BY Entries DEF ToSet
<1>4. \A o \in Objs : (o \in found <=> FileOf(o) = f) /\ o # NULL
  BY ConstantsAssumption DEF FileOf
<1>. QED
  BY <1>1, <1>2, <1>3, <1>4

\* What may be an object, and is not NULL, is one.
LEMMA TypeFacts ==
    ASSUME TypeInv
    PROVE  /\ NULL \notin Objs /\ NULL \notin Files
           /\ OnOpen \subseteq Objs /\ OnTcp \subseteq Objs /\ OnPend \subseteq Objs
           /\ Held \subseteq Objs /\ InHand \subseteq Objs
           /\ \A f \in Files : ctx[f] \in Objs \cup {NULL}
           /\ \A f \in Files : ctx[f] # NULL => ctx[f] \in Held
           /\ \A o \in Held : \E f \in Files : ctx[f] = o
<1>1. NULL \notin Objs /\ NULL \notin Files
  BY ConstantsAssumption DEF Files
<1>2. OnOpen \subseteq Objs /\ OnTcp \subseteq Objs /\ OnPend \subseteq Objs
  BY Entries DEF TypeInv, ListType, OnOpen, OnTcp, OnPend
<1>3. Held \subseteq Objs /\ InHand \subseteq Objs
  BY DEF TypeInv, ControlType, Held, InHand
<1>. QED
  BY <1>1, <1>2, <1>3 DEF TypeInv, ControlType, Held

\* A new object, or none.
LEMMA AllocDoes ==
    ASSUME TypeInv, NEW f \in Files, NEW o \in Objs \cup {NULL},
           tdiAllocOpenConn(f, o)
    PROVE  /\ free' = free \ {o}
           /\ o = NULL => obj' = obj
           /\ o # NULL => /\ o \in free
                          /\ obj' = [obj EXCEPT ![o] = New(f)]
           /\ o # NULL => o \in Objs
<1>1. CASE o = NULL
  <2>1. NULL \notin free
    BY ConstantsAssumption DEF TypeInv, ListType
  <2>2. obj' = obj /\ free' = free
    <3>1. ~(free # {} /\ o = CHOOSE p \in free : TRUE)
      BY <1>1, <2>1
    <3>. QED
      BY <3>1 DEF tdiAllocOpenConn
  <2>. QED
    BY <1>1, <2>1, <2>2
<1>2. CASE o # NULL
  <2>1. /\ free # {} /\ o = CHOOSE p \in free : TRUE
        /\ free' = free \ {o}
        /\ obj' = [obj EXCEPT ![o] = New(f)]
    BY <1>2 DEF tdiAllocOpenConn
  <2>2. o \in free
    BY <2>1
  <2>. QED
    BY <1>2, <2>1, <2>2
<1>. QED
  BY <1>1, <1>2

\* An IRP takes an object in hand ...
LEMMA HoldKeeps ==
    ASSUME TypeInv, NEW f \in Files, ctx[f] = NULL, NEW o \in Objs \cup {NULL},
           o \notin Held, ctx' = [ctx EXCEPT ![f] = o],
           \A g, h \in Files : ctx[g] # NULL /\ ctx[g] = ctx[h] => g = h
    PROVE  /\ Held' = Held \cup ({o} \ {NULL})
           /\ (\A g, h \in Files : ctx[g] # NULL /\ ctx[g] = ctx[h] => g = h)'
<1>1. \A g \in Files : ctx'[g] = IF g = f THEN o ELSE ctx[g]
  BY DEF TypeInv, ControlType
<1>2. Held' = Held \cup ({o} \ {NULL})
  BY <1>1 DEF Held
<1>3. \A g \in Files : ctx[g] # NULL => ctx[g] # o
  BY DEF Held
<1>. QED
  BY <1>1, <1>2, <1>3

\* ... and passes it on.
LEMMA PassKeeps ==
    ASSUME TypeInv, NEW f \in Files, ctx' = [ctx EXCEPT ![f] = NULL],
           \A g, h \in Files : ctx[g] # NULL /\ ctx[g] = ctx[h] => g = h
    PROVE  /\ Held' = Held \ {ctx[f]}
           /\ (\A g, h \in Files : ctx[g] # NULL /\ ctx[g] = ctx[h] => g = h)'
<1>1. \A g \in Files : ctx'[g] = IF g = f THEN NULL ELSE ctx[g]
  BY DEF TypeInv, ControlType
<1>2. Held' = Held \ {ctx[f]}
  BY <1>1 DEF Held
<1>. QED
  BY <1>1, <1>2

\* An object goes to the end of a list ...
LEMMA ListGains ==
    ASSUME NEW s \in Seq(Objs), IsInjective(s), NEW o \in Objs, o \notin ToSet(s)
    PROVE  /\ Append(s, o) \in Seq(Objs) /\ IsInjective(Append(s, o))
           /\ ToSet(Append(s, o)) = ToSet(s) \cup {o}
  BY AppendKeeps

\* ... or leaves it.
LEMMA ListLoses ==
    ASSUME NEW s \in Seq(Objs), IsInjective(s), NEW o
    PROVE  /\ Unlink(s, o) \in Seq(Objs) /\ IsInjective(Unlink(s, o))
           /\ ToSet(Unlink(s, o)) = ToSet(s) \ {o}
  BY UnlinkKeeps

\* The object of a file of the IP device, and of an open connection, is listed.
LEMMA Listed ==
    ASSUME TypeInv, HandInv, Apart, KindInv, NEW o \in Used
    PROVE  /\ FileOf(o) \in IpFiles => o \in OnOpen
           /\ FileOf(o) \in Conns /\ at[FileOf(o)] # "opening" => o \in OnTcp
<1>1. o \in OnOpen \cup OnTcp \cup OnPend \cup Held \cup InHand
  BY DEF Used, Apart
<1>2. ASSUME o \in Held
      PROVE  \/ FileOf(o) \in Addresses
             \/ at[FileOf(o)] = "opening" /\ FileOf(o) \notin IpFiles
  <2>1. PICK f \in Files : ctx[f] = o /\ o # NULL
    BY <1>2 DEF Held
  <2>. QED
    BY <2>1 DEF KindInv, HandInv
<1>. QED
  BY <1>1, <1>2, ConstantsAssumption DEF KindInv

-----------------------------------------------------------------------------
(* Each step keeps the invariant *)

\* A new object, if there is memory for it.
LEMMA TDIH_TdiOpenAddressKeeps ==
    ASSUME IndInv, ~crossed, NEW f \in Addresses, TDIH_TdiOpenAddress(f)
    PROVE  IndInv'
<1> USE ConstantsAssumption DEF Files
<1>1. /\ TypeInv /\ HandInv /\ PlaceInv /\ ControlType /\ ObjectType /\ ListType
      /\ Once /\ Apart /\ WaitInv
      /\ ~early /\ ~shared => ObjectInv
  BY DEF IndInv, TypeInv, PlaceInv
<1>2. PICK o \in Objs \cup {NULL} :
        tdiAllocOpenConn(f, o) /\ ctx' = [ctx EXCEPT ![f] = o]
  BY DEF TDIH_TdiOpenAddress
<1>3. /\ free' = free \ {o}
      /\ o = NULL => obj' = obj
      /\ o # NULL => o \in free /\ obj' = [obj EXCEPT ![o] = New(f)]
      /\ o # NULL => o \in Objs
  BY <1>1, <1>2, AllocDoes
<1>4. ctx[f] = NULL /\ o \notin Held
  BY <1>1, <1>3, TypeFacts DEF TDIH_TdiOpenAddress, Go, HandInv, Apart
<1>5. /\ Held' = Held \cup ({o} \ {NULL})
      /\ \A g, h \in Files : ctx'[g] # NULL /\ ctx'[g] = ctx'[h] => g = h
  BY <1>1, <1>2, <1>4, HoldKeeps DEF Once
<1>6. UNCHANGED <<OnOpen, OnTcp, OnPend, InHand>>
  BY DEF TDIH_TdiOpenAddress, OnOpen, OnTcp, OnPend, InHand, lists, thread
<1>7. ControlType'
  BY <1>1 DEF TDIH_TdiOpenAddress, Go, ControlType, Places, thread, past
<1>8. ObjectType'
  BY <1>1, <1>3 DEF ObjectType, Fields, New
<1>9. ListType'
  BY <1>1, <1>3 DEF TDIH_TdiOpenAddress, ListType, lists
<1>10. HandInv'
  BY <1>1 DEF TDIH_TdiOpenAddress, Go, HandInv, ControlType, thread
<1>11. ASSUME ~crossed' PROVE Once'
  BY <1>1, <1>5 DEF TDIH_TdiOpenAddress, Once, lists
<1>12. ASSUME ~crossed' PROVE Apart'
  BY <1>1, <1>3, <1>5, <1>6 DEF Apart
<1>13. ASSUME ~crossed' PROVE WaitInv'
  BY <1>1, <1>2, <1>3, <1>6, TypeFacts
     DEF TDIH_TdiOpenAddress, Go, Waiting, WaitInv, Apart, ObjectType, thread
<1>14. ASSUME ~crossed', ~early', ~shared' PROVE KindInv'
  BY <1>14, <1>1, <1>2, <1>3, <1>4, <1>6, TypeFacts
     DEF TDIH_TdiOpenAddress, Go, ObjectInv, KindInv, FileOf, Apart,
         ObjectType, New, past
<1>15. ASSUME ~crossed', ~early', ~shared' PROVE FileInv'
  BY <1>15, <1>1, <1>2, <1>3
     DEF TDIH_TdiOpenAddress, Go, ObjectInv, FileInv, FileOf, Used,
         ControlType, ObjectType, New, past
<1>16. ASSUME ~crossed', ~early', ~shared' PROVE LinkInv'
  BY <1>16, <1>1, <1>3
     DEF TDIH_TdiOpenAddress, Go, ObjectInv, FileInv, LinkInv, FileOf, Used,
         ObjectType, New, past
<1>. QED
  BY <1>7, <1>8, <1>9, <1>10, <1>11, <1>12, <1>13, <1>14, <1>15, <1>16
     DEF IndInv, TypeInv, PlaceInv, ObjectInv

\* The same for a connection.
LEMMA TDIH_TdiOpenConnectionKeeps ==
    ASSUME IndInv, ~crossed, NEW f \in Conns, TDIH_TdiOpenConnection(f)
    PROVE  IndInv'
<1> USE ConstantsAssumption DEF Files
<1>1. /\ TypeInv /\ HandInv /\ PlaceInv /\ ControlType /\ ObjectType /\ ListType
      /\ Once /\ Apart /\ WaitInv
      /\ ~early /\ ~shared => ObjectInv
  BY DEF IndInv, TypeInv, PlaceInv
<1>2. PICK o \in Objs \cup {NULL} :
        tdiAllocOpenConn(f, o) /\ ctx' = [ctx EXCEPT ![f] = o]
  BY DEF TDIH_TdiOpenConnection
<1>3. /\ free' = free \ {o}
      /\ o = NULL => obj' = obj
      /\ o # NULL => o \in free /\ obj' = [obj EXCEPT ![o] = New(f)]
      /\ o # NULL => o \in Objs
  BY <1>1, <1>2, AllocDoes
<1>4. ctx[f] = NULL /\ o \notin Held
  BY <1>1, <1>3, TypeFacts DEF TDIH_TdiOpenConnection, Go, HandInv, Apart
<1>5. /\ Held' = Held \cup ({o} \ {NULL})
      /\ \A g, h \in Files : ctx'[g] # NULL /\ ctx'[g] = ctx'[h] => g = h
  BY <1>1, <1>2, <1>4, HoldKeeps DEF Once
<1>6. UNCHANGED <<OnOpen, OnTcp, OnPend, InHand>>
  BY DEF TDIH_TdiOpenConnection, OnOpen, OnTcp, OnPend, InHand, lists, thread
<1>7. ControlType'
  BY <1>1 DEF TDIH_TdiOpenConnection, Go, ControlType, Places, thread, past
<1>8. ObjectType'
  BY <1>1, <1>3 DEF ObjectType, Fields, New
<1>9. ListType'
  BY <1>1, <1>3 DEF TDIH_TdiOpenConnection, ListType, lists
<1>10. HandInv'
  BY <1>1 DEF TDIH_TdiOpenConnection, Go, HandInv, ControlType, thread
<1>11. ASSUME ~crossed' PROVE Once'
  BY <1>1, <1>5 DEF TDIH_TdiOpenConnection, Once, lists
<1>12. ASSUME ~crossed' PROVE Apart'
  BY <1>1, <1>3, <1>5, <1>6 DEF Apart
<1>13. ASSUME ~crossed' PROVE WaitInv'
  BY <1>1, <1>3, <1>6, TypeFacts
     DEF TDIH_TdiOpenConnection, Go, Waiting, WaitInv, Apart, ObjectType,
         thread
<1>14. ASSUME ~crossed', ~early', ~shared' PROVE KindInv'
  BY <1>14, <1>1, <1>2, <1>3, <1>6, TypeFacts
     DEF TDIH_TdiOpenConnection, Go, ObjectInv, KindInv, FileOf, Apart,
         ControlType, ObjectType, New, past
<1>15. ASSUME ~crossed', ~early', ~shared' PROVE FileInv'
  BY <1>15, <1>1, <1>2, <1>3
     DEF TDIH_TdiOpenConnection, Go, ObjectInv, FileInv, FileOf, Used,
         ControlType, ObjectType, New, past
<1>16. ASSUME ~crossed', ~early', ~shared' PROVE LinkInv'
  BY <1>16, <1>1, <1>3
     DEF TDIH_TdiOpenConnection, Go, ObjectInv, FileInv, LinkInv, FileOf, Used,
         ObjectType, New, past
<1>. QED
  BY <1>7, <1>8, <1>9, <1>10, <1>11, <1>12, <1>13, <1>14, <1>15, <1>16
     DEF IndInv, TypeInv, PlaceInv, ObjectInv

\* The object goes back.
LEMMA OpenFailsKeeps ==
    ASSUME IndInv, ~crossed, NEW f \in Addresses \cup Conns, OpenFails(f)
    PROVE  IndInv'
<1> USE ConstantsAssumption DEF Files
<1>1. /\ TypeInv /\ HandInv /\ PlaceInv /\ ControlType /\ ObjectType /\ ListType
      /\ Once /\ Apart /\ WaitInv
      /\ ~early /\ ~shared => ObjectInv
  BY DEF IndInv, TypeInv, PlaceInv
<1>2. /\ f \in Files /\ ctx[f] \in Objs \cup {NULL}
      /\ ctx[f] # NULL => ctx[f] \in Held
  BY <1>1, TypeFacts
<1>3. /\ ctx' = [ctx EXCEPT ![f] = NULL] /\ Held' = Held \ {ctx[f]}
      /\ \A g, h \in Files : ctx'[g] # NULL /\ ctx'[g] = ctx'[h] => g = h
  BY <1>1, PassKeeps DEF Once, OpenFails
<1>4. free' = free \cup ({ctx[f]} \ {NULL})
  BY DEF OpenFails, Recycle
<1>5. obj' = IF ctx[f] = NULL THEN obj ELSE [obj EXCEPT ![ctx[f]] = Null]
  BY DEF OpenFails, Recycle
<1>6. \A p \in Objs : p # ctx[f] => obj'[p] = obj[p]
  BY <1>1, <1>5 DEF ObjectType
<1>7. UNCHANGED <<OnOpen, OnTcp, OnPend, InHand>>
  BY DEF OpenFails, OnOpen, OnTcp, OnPend, InHand, lists, thread
<1>8. ControlType'
  BY <1>1 DEF OpenFails, Go, ControlType, Places, thread, past
<1>9. ObjectType'
  BY <1>1, <1>5 DEF ObjectType, Fields, New, Null
<1>10. ListType'
  BY <1>1, <1>2, <1>4 DEF OpenFails, ListType, lists
<1>11. HandInv'
  BY <1>1 DEF OpenFails, Go, HandInv, ControlType, thread
<1>12. ASSUME ~crossed' PROVE Once'
  BY <1>1 DEF OpenFails, Once, lists
<1>13. ASSUME ~crossed' PROVE Apart'
  BY <1>1, <1>3, <1>4, <1>7, TypeFacts DEF Apart
<1>14. ASSUME ~crossed' PROVE WaitInv'
  BY <1>1, <1>6, <1>7, TypeFacts
     DEF OpenFails, Go, Waiting, WaitInv, Apart, thread
<1>15. ASSUME ~crossed', ~early', ~shared' PROVE KindInv'
  <2>1. KindInv
    BY <1>15, <1>1 DEF OpenFails, ObjectInv, past
  <2>2. \A o \in OnOpen \cup OnTcp \cup OnPend \cup InHand : o \in Objs /\ o # ctx[f]
    BY <1>1, <1>2, TypeFacts DEF Apart
  <2>3. ASSUME NEW g \in Files, ctx'[g] # NULL
        PROVE  /\ ctx'[g] = ctx[g] /\ at'[g] = at[g]
               /\ ctx[g] \in Objs /\ ctx[g] # ctx[f]
    BY <1>1, <2>3 DEF OpenFails, Go, ControlType, Once
  <2>4. \A o \in Objs : o # ctx[f] => FileOf(o)' = FileOf(o)
    BY <1>6 DEF FileOf
  <2>5. \A o \in OnOpen \cup OnTcp \cup OnPend \cup InHand : FileOf(o)' = FileOf(o)
    BY <2>2, <2>4
  <2>6. (\A g \in Files : ctx[g] # NULL =>
           IF at[g] = "opening" THEN FileOf(ctx[g]) = g
                                ELSE FileOf(ctx[g]) \in Addresses)'
    BY <2>1, <2>3, <2>4 DEF KindInv
  <2>. QED
    BY <1>7, <2>1, <2>5, <2>6 DEF KindInv
<1>16. ASSUME ~crossed', ~early', ~shared' PROVE FileInv'
  BY <1>16, <1>1, <1>4, <1>6
     DEF OpenFails, Go, ObjectInv, FileInv, FileOf, Used, past
<1>17. ASSUME ~crossed', ~early', ~shared' PROVE LinkInv'
  <2>1. FileInv /\ LinkInv /\ KindInv
    BY <1>17, <1>1 DEF OpenFails, ObjectInv, past
  <2>2. ctx[f] # NULL => obj[ctx[f]].addr = NULL /\ obj[ctx[f]].tcp = NULL
    <3>1. SUFFICES ASSUME ctx[f] # NULL
                   PROVE  obj[ctx[f]].addr = NULL /\ obj[ctx[f]].tcp = NULL
      OBVIOUS
    <3>2. ctx[f] \in Used /\ at[f] = "opening"
      BY <1>1, <3>1, TypeFacts DEF OpenFails, Go, Apart, Used
    <3>3. FileOf(ctx[f]) = f
      BY <1>2, <2>1, <3>1, <3>2 DEF KindInv
    <3>. QED
      BY <2>1, <3>2, <3>3 DEF LinkInv
  <2>3. Used' = Used \ {ctx[f]}
    BY <1>4, <1>2 DEF Used
  <2>4. \A o \in Used' : /\ o \in Objs /\ o # ctx[f] /\ o \in Used /\ o # NULL
                         /\ obj'[o] = obj[o] /\ FileOf(o)' = FileOf(o)
    BY <1>6, <2>3 DEF Used, FileOf
  <2>5. \A o \in Used' : /\ obj[o].addr # NULL => obj[o].addr \in Used'
                         /\ obj[o].tcp # NULL => obj[o].tcp \in Used'
    BY <2>1, <2>2, <2>3, <2>4 DEF LinkInv
  <2>6. \A o \in Used' : at'[FileOf(o)] = "opening" => at[FileOf(o)] = "opening"
    BY <1>1, <2>1, <2>4 DEF OpenFails, Go, ControlType, FileInv
  <2>7. assoc' = assoc
    BY DEF OpenFails
  <2>. QED
    BY <2>1, <2>4, <2>5, <2>6, <2>7 DEF LinkInv
<1>. QED
  BY <1>8, <1>9, <1>10, <1>11, <1>12, <1>13, <1>14, <1>15, <1>16, <1>17
     DEF IndInv, TypeInv, PlaceInv, ObjectInv

\* The object goes on the list.
LEMMA PassiveCompleteKeeps ==
    ASSUME IndInv, ~crossed, NEW f \in Addresses \cup Conns, PassiveComplete(f)
    PROVE  IndInv'
<1> USE ConstantsAssumption DEF Files
<1>1. /\ TypeInv /\ HandInv /\ PlaceInv /\ ControlType /\ ObjectType /\ ListType
      /\ Once /\ Apart /\ WaitInv
      /\ ~early /\ ~shared => ObjectInv
  BY DEF IndInv, TypeInv, PlaceInv
<1>2. /\ f \in Files /\ ctx[f] \in Objs \cup {NULL}
      /\ ctx[f] # NULL => ctx[f] \in Held
  BY <1>1, TypeFacts
<1>3. /\ ctx' = [ctx EXCEPT ![f] = NULL] /\ Held' = Held \ {ctx[f]}
      /\ \A g, h \in Files : ctx'[g] # NULL /\ ctx'[g] = ctx'[h] => g = h
  BY <1>1, PassKeeps DEF Once, PassiveComplete
<1>4. at[f] # "withheld"
  BY DEF PassiveComplete, Finishing
<1>5. /\ openList' \in Seq(Objs) /\ IsInjective(openList')
      /\ OnOpen' = OnOpen \cup ({ctx[f]} \ {NULL})
  <2>1. CASE ctx[f] = NULL
    BY <1>1, <2>1 DEF PassiveComplete, ListType, Once, OnOpen
  <2>2. CASE ctx[f] # NULL
    <3>1. /\ ctx[f] \in Objs /\ ctx[f] \notin ToSet(openList)
          /\ openList' = Append(openList, ctx[f])
      BY <1>1, <1>2, <2>2, TypeFacts DEF PassiveComplete, Apart, OnOpen
    <3>2. openList \in Seq(Objs) /\ IsInjective(openList)
      BY <1>1 DEF ListType, Once
    <3>3. /\ Append(openList, ctx[f]) \in Seq(Objs)
          /\ IsInjective(Append(openList, ctx[f]))
          /\ ToSet(Append(openList, ctx[f])) = ToSet(openList) \cup {ctx[f]}
      BY <3>1, <3>2, ListGains
    <3>. QED
      BY <2>2, <3>1, <3>3 DEF OnOpen
  <2>. QED
    BY <2>1, <2>2
<1>6. UNCHANGED <<free, OnTcp, OnPend, InHand>>
  BY DEF PassiveComplete, OnTcp, OnPend, InHand, lists, thread, past
<1>7. ControlType'
  BY <1>1 DEF PassiveComplete, ControlType, Places, thread, past
<1>8. ObjectType'
  BY <1>1 DEF PassiveComplete, ObjectType
<1>9. ListType'
  BY <1>1, <1>5 DEF PassiveComplete, ListType
<1>10. HandInv'
  BY <1>1 DEF PassiveComplete, HandInv, ControlType, thread
<1>11. ASSUME ~crossed' PROVE Once'
  BY <1>1, <1>5 DEF PassiveComplete, Once
<1>12. ASSUME ~crossed' PROVE Apart'
  BY <1>1, <1>3, <1>5, <1>6, TypeFacts DEF Apart
<1>13. ASSUME ~crossed' PROVE WaitInv'
  BY <1>1, <1>4, <1>6 DEF PassiveComplete, Waiting, WaitInv, thread
<1>14. ASSUME ~crossed', ~early', ~shared' PROVE KindInv'
  BY <1>14, <1>1, <1>5, <1>6
     DEF PassiveComplete, ObjectInv, KindInv, FileOf, past, Finishing
<1>15. ASSUME ~crossed', ~early', ~shared' PROVE FileInv'
  BY <1>15, <1>1
     DEF PassiveComplete, ObjectInv, FileInv, FileOf, Used, Apart, ControlType,
         past
<1>16. ASSUME ~crossed', ~early', ~shared' PROVE LinkInv'
  BY <1>16, <1>1 DEF PassiveComplete, ObjectInv, LinkInv, FileOf, Used, past
<1>. QED
  BY <1>7, <1>8, <1>9, <1>10, <1>11, <1>12, <1>13, <1>14, <1>15, <1>16
     DEF IndInv, TypeInv, PlaceInv, ObjectInv

\* The object waits for addrThread, with the IRP it withholds.
LEMMA DispatchCompleteKeeps ==
    ASSUME IndInv, ~crossed, NEW f \in Addresses \cup Conns, DispatchComplete(f)
    PROVE  IndInv'
<1> USE ConstantsAssumption DEF Files
<1>1. /\ TypeInv /\ HandInv /\ PlaceInv /\ ControlType /\ ObjectType /\ ListType
      /\ Once /\ Apart /\ WaitInv
      /\ ~early /\ ~shared => ObjectInv
  BY DEF IndInv, TypeInv, PlaceInv
<1>2. /\ f \in Files /\ ctx[f] \in Objs \cup {NULL}
      /\ ctx[f] # NULL => ctx[f] \in Held
  BY <1>1, TypeFacts
<1>3. /\ ctx' = [ctx EXCEPT ![f] = NULL] /\ Held' = Held \ {ctx[f]}
      /\ \A g, h \in Files : ctx'[g] # NULL /\ ctx'[g] = ctx'[h] => g = h
  BY <1>1, PassKeeps DEF Once, DispatchComplete
<1>4. /\ ctx[f] # NULL /\ at[f] # "withheld"
      /\ obj' = [obj EXCEPT ![ctx[f]].irp = f] /\ pendList' = Append(pendList, ctx[f])
  BY DEF DispatchComplete, Withhold, Finishing
<1>5. /\ pendList' \in Seq(Objs) /\ IsInjective(pendList')
      /\ OnPend' = OnPend \cup ({ctx[f]} \ {NULL})
  <2>1. CASE ctx[f] = NULL
    BY <1>1, <2>1 DEF DispatchComplete, ListType, Once, OnPend, Withhold
  <2>2. CASE ctx[f] # NULL
    <3>1. /\ ctx[f] \in Objs /\ ctx[f] \notin ToSet(pendList)
          /\ pendList' = Append(pendList, ctx[f])
      BY <1>1, TypeFacts DEF DispatchComplete, Apart, OnPend, Withhold
    <3>2. pendList \in Seq(Objs) /\ IsInjective(pendList)
      BY <1>1 DEF ListType, Once
    <3>3. /\ Append(pendList, ctx[f]) \in Seq(Objs)
          /\ IsInjective(Append(pendList, ctx[f]))
          /\ ToSet(Append(pendList, ctx[f])) = ToSet(pendList) \cup {ctx[f]}
      BY <3>1, <3>2, ListGains
    <3>. QED
      BY <2>2, <3>1, <3>3 DEF OnPend
  <2>. QED
    BY <2>1, <2>2
<1>6. UNCHANGED <<free, OnOpen, OnTcp, InHand>>
  BY DEF DispatchComplete, OnOpen, OnTcp, InHand, lists, thread, past
<1>7. ControlType'
  BY <1>1 DEF DispatchComplete, ControlType, Places, past, Withhold
<1>8. ObjectType'
  <2>1. ctx[f] \in Objs /\ f \in Files
    BY <1>2, <1>4
  <2>. QED
    BY <1>1, <1>4, <2>1 DEF ObjectType, Fields
<1>9. ListType'
  BY <1>1, <1>5 DEF DispatchComplete, ListType
<1>10. HandInv'
  BY <1>1 DEF DispatchComplete, HandInv, ControlType
<1>11. ASSUME ~crossed' PROVE Once'
  BY <1>1, <1>5 DEF DispatchComplete, Once
<1>12. ASSUME ~crossed' PROVE Apart'
  BY <1>1, <1>3, <1>5, <1>6, TypeFacts DEF Apart
<1>13. ASSUME ~crossed' PROVE WaitInv'
  BY <1>13, <1>1, <1>4, <1>5, <1>6
     DEF DispatchComplete, Waiting, WaitInv, ControlType, ObjectType
<1>14. ASSUME ~crossed', ~early', ~shared' PROVE KindInv'
  BY <1>14, <1>1, <1>3, <1>4, <1>5, <1>6, TypeFacts
     DEF DispatchComplete, ObjectInv, KindInv, FileOf, ControlType, past,
         Finishing, Withhold
<1>15. ASSUME ~crossed', ~early', ~shared' PROVE FileInv'
  BY <1>15, <1>1, <1>2, <1>3, <1>4, <1>5, TypeFacts, Listed
     DEF DispatchComplete, ObjectInv, FileInv, FileOf, Used, Apart,
         ControlType, past, Withhold
<1>16. ASSUME ~crossed', ~early', ~shared' PROVE LinkInv'
  BY <1>16, <1>1, <1>3, <1>4, <1>6
     DEF DispatchComplete, ObjectInv, FileInv, LinkInv, FileOf, Used, Apart,
         ObjectType, past
<1>. QED
  BY <1>7, <1>8, <1>9, <1>10, <1>11, <1>12, <1>13, <1>14, <1>15, <1>16
     DEF IndInv, TypeInv, PlaceInv, ObjectInv

\* The IRP has the object in hand.
LEMMA TDIH_TdiSetEventKeeps ==
    ASSUME IndInv, ~crossed, NEW f \in Addresses, TDIH_TdiSetEvent(f)
    PROVE  IndInv'
<1> USE ConstantsAssumption DEF Files
<1>1. /\ TypeInv /\ HandInv /\ PlaceInv /\ ControlType /\ ObjectType /\ ListType
      /\ Once /\ Apart /\ WaitInv
      /\ ~early /\ ~shared => ObjectInv
  BY DEF IndInv, TypeInv, PlaceInv
<1>2. PICK o : o = Lookup(openList, f)
  OBVIOUS
<1>3. \/ o = NULL /\ \A p \in OnOpen : FileOf(p) # f
      \/ o \in OnOpen /\ o \in Objs /\ o # NULL /\ FileOf(o) = f
  BY <1>1, <1>2, LookupFinds DEF ListType, OnOpen
<1>4. /\ openList' \in Seq(Objs) /\ IsInjective(openList')
      /\ OnOpen' = OnOpen \ {o}
  <2>1. openList \in Seq(Objs) /\ IsInjective(openList)
    BY <1>1 DEF ListType, Once
  <2>2. openList' = Unlink(openList, o)
    BY <1>2 DEF TDIH_TdiSetEvent
  <2>3. /\ Unlink(openList, o) \in Seq(Objs) /\ IsInjective(Unlink(openList, o))
        /\ ToSet(Unlink(openList, o)) = ToSet(openList) \ {o}
    BY <2>1, ListLoses
  <2>. QED
    BY <2>2, <2>3 DEF OnOpen
<1>5. /\ Held' = Held \cup ({o} \ {NULL})
      /\ \A g, h \in Files : ctx'[g] # NULL /\ ctx'[g] = ctx'[h] => g = h
  <2>1. ctx[f] = NULL /\ o \notin Held /\ o \in Objs \cup {NULL}
    BY <1>1, <1>3, TypeFacts DEF TDIH_TdiSetEvent, Go, HandInv, Apart
  <2>2. ctx' = [ctx EXCEPT ![f] = o]
    BY <1>2 DEF TDIH_TdiSetEvent
  <2>. QED
    BY <1>1, <2>1, <2>2, HoldKeeps DEF Once
<1>6. UNCHANGED <<free, OnTcp, OnPend, InHand>>
  BY DEF TDIH_TdiSetEvent, OnTcp, OnPend, InHand, lists, thread, past
<1>7. ControlType'
  BY <1>1, <1>2, <1>3
     DEF TDIH_TdiSetEvent, Go, ControlType, Places, thread, past
<1>8. ObjectType'
  BY <1>1 DEF TDIH_TdiSetEvent, ObjectType
<1>9. ListType'
  BY <1>1, <1>4 DEF TDIH_TdiSetEvent, ListType
<1>10. HandInv'
  BY <1>1 DEF TDIH_TdiSetEvent, Go, HandInv, ControlType, thread
<1>11. ASSUME ~crossed' PROVE Once'
  BY <1>1, <1>4, <1>5 DEF TDIH_TdiSetEvent, Once
<1>12. ASSUME ~crossed' PROVE Apart'
  BY <1>1, <1>3, <1>4, <1>5, <1>6 DEF Apart
<1>13. ASSUME ~crossed' PROVE WaitInv'
  BY <1>1, <1>6 DEF TDIH_TdiSetEvent, Go, Waiting, WaitInv, thread
<1>14. ASSUME ~crossed', ~early', ~shared' PROVE KindInv'
  BY <1>14, <1>1, <1>2, <1>3, <1>4, <1>6
     DEF TDIH_TdiSetEvent, Go, ObjectInv, KindInv, FileOf, past
<1>15. ASSUME ~crossed', ~early', ~shared' PROVE FileInv'
  BY <1>15, <1>1
     DEF TDIH_TdiSetEvent, Go, ObjectInv, FileInv, FileOf, Used, Apart, past
<1>16. ASSUME ~crossed', ~early', ~shared' PROVE LinkInv'
  BY <1>16, <1>1
     DEF TDIH_TdiSetEvent, Go, ObjectInv, LinkInv, FileOf, Used, past
<1>. QED
  BY <1>7, <1>8, <1>9, <1>10, <1>11, <1>12, <1>13, <1>14, <1>15, <1>16
     DEF IndInv, TypeInv, PlaceInv, ObjectInv

\* A file of the IP device that has no object gets one.
LEMMA TDIH_IpDispatchKeeps ==
    ASSUME IndInv, ~crossed, NEW f \in IpFiles, TDIH_IpDispatch(f)
    PROVE  IndInv'
<1> USE ConstantsAssumption DEF Files
<1>1. /\ TypeInv /\ HandInv /\ PlaceInv /\ ControlType /\ ObjectType /\ ListType
      /\ Once /\ Apart /\ WaitInv
      /\ ~early /\ ~shared => ObjectInv
  BY DEF IndInv, TypeInv, PlaceInv
<1>2. \A p \in OnOpen : FileOf(p) # f
  BY <1>1, LookupFinds DEF TDIH_IpDispatch, ListType, OnOpen
<1>3. PICK o \in Objs \cup {NULL} :
        /\ tdiAllocOpenConn(f, o)
        /\ openList' = IF o = NULL THEN openList ELSE Append(openList, o)
  BY DEF TDIH_IpDispatch
<1>4. /\ free' = free \ {o}
      /\ o = NULL => obj' = obj
      /\ o # NULL => o \in free /\ obj' = [obj EXCEPT ![o] = New(f)]
      /\ o # NULL => o \in Objs
  BY <1>1, <1>3, AllocDoes
<1>5. /\ openList' \in Seq(Objs) /\ IsInjective(openList')
      /\ OnOpen' = OnOpen \cup ({o} \ {NULL})
  <2>1. CASE o = NULL
    BY <1>1, <1>3, <2>1 DEF TDIH_IpDispatch, ListType, Once, OnOpen
  <2>2. CASE o # NULL
    <3>1. o \in Objs /\ o \notin ToSet(openList) /\ openList' = Append(openList, o)
      BY <1>1, <1>4, <1>3, <2>2 DEF Apart, OnOpen
    <3>2. openList \in Seq(Objs) /\ IsInjective(openList)
      BY <1>1 DEF ListType, Once
    <3>3. /\ Append(openList, o) \in Seq(Objs) /\ IsInjective(Append(openList, o))
          /\ ToSet(Append(openList, o)) = ToSet(openList) \cup {o}
      BY <3>1, <3>2, ListGains
    <3>. QED
      BY <2>2, <3>1, <3>3 DEF OnOpen
  <2>. QED
    BY <2>1, <2>2
<1>6. UNCHANGED <<OnTcp, OnPend, Held, InHand>>
  BY DEF TDIH_IpDispatch, OnTcp, OnPend, Held, InHand, thread
<1>7. ControlType'
  BY <1>1 DEF TDIH_IpDispatch, ControlType, Places, thread, past
<1>8. ObjectType'
  BY <1>1, <1>4 DEF ObjectType, Fields, New
<1>9. ListType'
  BY <1>1, <1>4 DEF TDIH_IpDispatch, ListType
<1>10. HandInv'
  BY <1>1 DEF TDIH_IpDispatch, HandInv, thread
<1>11. ASSUME ~crossed' PROVE Once'
  BY <1>1, <1>5 DEF TDIH_IpDispatch, Once
<1>12. ASSUME ~crossed' PROVE Apart'
  BY <1>1, <1>4, <1>5, <1>6 DEF Apart
<1>13. ASSUME ~crossed' PROVE WaitInv'
  BY <1>13, <1>1, <1>2, <1>4, <1>6, TypeFacts
     DEF TDIH_IpDispatch, Waiting, WaitInv, Apart, ControlType, ObjectType,
         Fields, thread, past
<1>14. ASSUME ~crossed', ~early', ~shared' PROVE KindInv'
  BY <1>14, <1>1, <1>2, <1>4, <1>5, <1>6, TypeFacts
     DEF TDIH_IpDispatch, ObjectInv, KindInv, FileOf, Apart, ControlType,
         ObjectType, New, thread, past
<1>15. ASSUME ~crossed', ~early', ~shared' PROVE FileInv'
  BY <1>15, <1>1, <1>2, <1>4, Listed
     DEF TDIH_IpDispatch, ObjectInv, FileInv, FileOf, Used, Apart, ControlType,
         ObjectType, New, past
<1>16. ASSUME ~crossed', ~early', ~shared' PROVE LinkInv'
  BY <1>16, <1>1, <1>4
     DEF TDIH_IpDispatch, ObjectInv, LinkInv, FileOf, Used, ObjectType, New,
         past
<1>. QED
  BY <1>7, <1>8, <1>9, <1>10, <1>11, <1>12, <1>13, <1>14, <1>15, <1>16
     DEF IndInv, TypeInv, PlaceInv, ObjectInv

\* Its object goes with it.
LEMMA CloseIpFileKeeps ==
    ASSUME IndInv, ~crossed, NEW f \in IpFiles, CloseIpFile(f)
    PROVE  IndInv'
<1> USE ConstantsAssumption DEF Files
<1>1. /\ TypeInv /\ HandInv /\ PlaceInv /\ ControlType /\ ObjectType /\ ListType
      /\ Once /\ Apart /\ WaitInv
      /\ ~early /\ ~shared => ObjectInv
  BY DEF IndInv, TypeInv, PlaceInv
<1>2. PICK o : o = Lookup(openList, f)
  OBVIOUS
<1>3. \/ o = NULL /\ \A p \in OnOpen : FileOf(p) # f
      \/ o \in OnOpen /\ o \in Objs /\ o # NULL /\ FileOf(o) = f
  BY <1>1, <1>2, LookupFinds DEF ListType, OnOpen
<1>4. /\ openList' \in Seq(Objs) /\ IsInjective(openList')
      /\ OnOpen' = OnOpen \ {o}
  <2>1. openList \in Seq(Objs) /\ IsInjective(openList)
    BY <1>1 DEF ListType, Once
  <2>2. openList' = Unlink(openList, o)
    BY <1>2 DEF CloseIpFile
  <2>3. /\ Unlink(openList, o) \in Seq(Objs) /\ IsInjective(Unlink(openList, o))
        /\ ToSet(Unlink(openList, o)) = ToSet(openList) \ {o}
    BY <2>1, ListLoses
  <2>. QED
    BY <2>2, <2>3 DEF OnOpen
<1>5. free' = free \cup ({o} \ {NULL})
  BY <1>2 DEF CloseIpFile, Recycle
<1>6. obj' = IF o = NULL THEN obj ELSE [obj EXCEPT ![o] = Null]
  BY <1>2 DEF CloseIpFile, Recycle
<1>7. \A p \in Objs : p # o => obj'[p] = obj[p]
  BY <1>1, <1>6 DEF ObjectType
<1>8. UNCHANGED <<OnTcp, OnPend, Held, InHand>>
  BY DEF CloseIpFile, OnTcp, OnPend, Held, InHand, thread
<1>9. ControlType'
  BY <1>1 DEF CloseIpFile, Go, ControlType, Places, thread, past
<1>10. ObjectType'
  BY <1>1, <1>6 DEF ObjectType, Fields, New, Null
<1>11. ListType'
  BY <1>1, <1>3, <1>4, <1>5 DEF CloseIpFile, ListType
<1>12. HandInv'
  BY <1>1 DEF CloseIpFile, Go, HandInv, thread
<1>13. ASSUME ~crossed' PROVE Once'
  BY <1>1, <1>4 DEF CloseIpFile, Once
<1>14. ASSUME ~crossed' PROVE Apart'
  BY <1>1, <1>3, <1>4, <1>5, <1>8 DEF Apart
<1>15. ASSUME ~crossed' PROVE WaitInv'
  BY <1>1, <1>3, <1>7, <1>8, TypeFacts
     DEF CloseIpFile, Go, Waiting, WaitInv, Apart, thread
<1>16. ASSUME ~crossed', ~early', ~shared' PROVE KindInv'
  BY <1>16, <1>1, <1>3, <1>4, <1>7, <1>8, TypeFacts
     DEF CloseIpFile, Go, ObjectInv, KindInv, FileOf, Apart, ObjectType, past
<1>17. ASSUME ~crossed', ~early', ~shared' PROVE FileInv'
  BY <1>17, <1>1, <1>3, <1>4, <1>5, <1>7, TypeFacts, Listed
     DEF CloseIpFile, Go, ObjectInv, FileInv, FileOf, Used, Apart, thread, past
<1>18. ASSUME ~crossed', ~early', ~shared' PROVE LinkInv'
  BY <1>18, <1>1, <1>3, <1>5, <1>6
     DEF CloseIpFile, Go, ObjectInv, LinkInv, FileOf, Used, past
<1>. QED
  BY <1>9, <1>10, <1>11, <1>12, <1>13, <1>14, <1>15, <1>16, <1>17, <1>18
     DEF IndInv, TypeInv, PlaceInv, ObjectInv

\* The close is under way.
LEMMA TDIH_TdiCloseAddressKeeps ==
    ASSUME IndInv, ~crossed, NEW f \in Addresses, TDIH_TdiCloseAddress(f)
    PROVE  IndInv'
<1> USE ConstantsAssumption DEF Files
<1>1. /\ TypeInv /\ HandInv /\ PlaceInv /\ ControlType /\ ObjectType /\ ListType
      /\ Once /\ Apart /\ WaitInv
      /\ ~early /\ ~shared => ObjectInv
  BY DEF IndInv, TypeInv, PlaceInv
<1>2. UNCHANGED <<free, OnOpen, OnTcp, OnPend, Held, InHand>>
  BY DEF TDIH_TdiCloseAddress, OnOpen, OnTcp, OnPend, Held, InHand, lists,
         thread
<1>3. ControlType'
  BY <1>1 DEF TDIH_TdiCloseAddress, Go, ControlType, Places, thread, past
<1>4. ObjectType'
  BY <1>1, <1>2 DEF TDIH_TdiCloseAddress, ObjectType, Fields, New, Null
<1>5. ListType'
  BY <1>1, <1>2 DEF TDIH_TdiCloseAddress, ListType, lists, thread, past
<1>6. HandInv'
  BY <1>1 DEF TDIH_TdiCloseAddress, Go, HandInv, thread
<1>7. ASSUME ~crossed' PROVE Once'
  BY <1>1 DEF TDIH_TdiCloseAddress, Once, lists
<1>8. ASSUME ~crossed' PROVE Apart'
  BY <1>8, <1>1, <1>2, TypeFacts DEF Apart
<1>9. ASSUME ~crossed' PROVE WaitInv'
  BY <1>1, <1>2 DEF TDIH_TdiCloseAddress, Go, Waiting, WaitInv, thread
<1>10. ASSUME ~crossed', ~early', ~shared' PROVE KindInv'
  BY <1>10, <1>1, <1>2
     DEF TDIH_TdiCloseAddress, Go, ObjectInv, KindInv, FileOf, past
<1>11. ASSUME ~crossed', ~early', ~shared' PROVE FileInv'
  BY <1>11, <1>1
     DEF TDIH_TdiCloseAddress, Go, ObjectInv, FileInv, FileOf, Used, past
<1>12. ASSUME ~crossed', ~early', ~shared' PROVE LinkInv'
  BY <1>12, <1>1
     DEF TDIH_TdiCloseAddress, Go, ObjectInv, LinkInv, FileOf, Used, past
<1>. QED
  BY <1>3, <1>4, <1>5, <1>6, <1>7, <1>8, <1>9, <1>10, <1>11, <1>12
     DEF IndInv, TypeInv, PlaceInv, ObjectInv

\* A request goes down.
LEMMA StartKeeps ==
    ASSUME IndInv, ~crossed, NEW f \in Addresses \cup Conns, Start(f)
    PROVE  IndInv'
<1> USE ConstantsAssumption DEF Files
<1>1. /\ TypeInv /\ HandInv /\ PlaceInv /\ ControlType /\ ObjectType /\ ListType
      /\ Once /\ Apart /\ WaitInv
      /\ ~early /\ ~shared => ObjectInv
  BY DEF IndInv, TypeInv, PlaceInv
<1>2. UNCHANGED <<free, OnOpen, OnTcp, OnPend, Held, InHand>>
  BY DEF Start, OnOpen, OnTcp, OnPend, Held, InHand, lists, thread
<1>3. ControlType'
  BY <1>1 DEF Start, Go, ControlType, Places, thread, past
<1>4. ObjectType'
  BY <1>1, <1>2 DEF Start, ObjectType, Fields, New, Null
<1>5. ListType'
  BY <1>1, <1>2 DEF Start, ListType, lists, thread, past
<1>6. HandInv'
  BY <1>1 DEF Start, Go, HandInv, thread
<1>7. ASSUME ~crossed' PROVE Once'
  BY <1>1 DEF Start, Once, lists
<1>8. ASSUME ~crossed' PROVE Apart'
  BY <1>8, <1>1, <1>2, TypeFacts DEF Apart
<1>9. ASSUME ~crossed' PROVE WaitInv'
  BY <1>1, <1>2 DEF Start, Go, Waiting, WaitInv, thread
<1>10. ASSUME ~crossed', ~early', ~shared' PROVE KindInv'
  BY <1>10, <1>1, <1>2 DEF Start, Go, ObjectInv, KindInv, FileOf, past
<1>11. ASSUME ~crossed', ~early', ~shared' PROVE FileInv'
  BY <1>11, <1>1 DEF Start, Go, ObjectInv, FileInv, FileOf, Used, past
<1>12. ASSUME ~crossed', ~early', ~shared' PROVE LinkInv'
  BY <1>12, <1>1 DEF Start, Go, ObjectInv, LinkInv, FileOf, Used, past
<1>. QED
  BY <1>3, <1>4, <1>5, <1>6, <1>7, <1>8, <1>9, <1>10, <1>11, <1>12
     DEF IndInv, TypeInv, PlaceInv, ObjectInv

\* It comes back without effect.
LEMMA NothingKeeps ==
    ASSUME IndInv, ~crossed, NEW f \in Addresses \cup Conns, Nothing(f)
    PROVE  IndInv'
<1> USE ConstantsAssumption DEF Files
<1>1. /\ TypeInv /\ HandInv /\ PlaceInv /\ ControlType /\ ObjectType /\ ListType
      /\ Once /\ Apart /\ WaitInv
      /\ ~early /\ ~shared => ObjectInv
  BY DEF IndInv, TypeInv, PlaceInv
<1>2. UNCHANGED <<free, OnOpen, OnTcp, OnPend, Held, InHand>>
  BY DEF Nothing, OnOpen, OnTcp, OnPend, Held, InHand, lists, thread
<1>3. ControlType'
  BY <1>1 DEF Nothing, Go, ControlType, Places, thread, past
<1>4. ObjectType'
  BY <1>1, <1>2 DEF Nothing, ObjectType, Fields, New, Null
<1>5. ListType'
  BY <1>1, <1>2 DEF Nothing, ListType, lists, thread, past
<1>6. HandInv'
  BY <1>1 DEF Nothing, Go, HandInv, thread
<1>7. ASSUME ~crossed' PROVE Once'
  BY <1>1 DEF Nothing, Once, lists
<1>8. ASSUME ~crossed' PROVE Apart'
  BY <1>8, <1>1, <1>2, TypeFacts DEF Apart
<1>9. ASSUME ~crossed' PROVE WaitInv'
  BY <1>1, <1>2 DEF Nothing, Go, Waiting, WaitInv, thread
<1>10. ASSUME ~crossed', ~early', ~shared' PROVE KindInv'
  BY <1>10, <1>1, <1>2 DEF Nothing, Go, ObjectInv, KindInv, FileOf, past
<1>11. ASSUME ~crossed', ~early', ~shared' PROVE FileInv'
  BY <1>11, <1>1 DEF Nothing, Go, ObjectInv, FileInv, FileOf, Used, past
<1>12. ASSUME ~crossed', ~early', ~shared' PROVE LinkInv'
  BY <1>12, <1>1 DEF Nothing, Go, ObjectInv, LinkInv, FileOf, Used, past
<1>. QED
  BY <1>3, <1>4, <1>5, <1>6, <1>7, <1>8, <1>9, <1>10, <1>11, <1>12
     DEF IndInv, TypeInv, PlaceInv, ObjectInv

\* addrThread wakes up.
LEMMA AddrWaitKeeps ==
    ASSUME IndInv, ~crossed, AddrWait
    PROVE  IndInv'
<1> USE ConstantsAssumption DEF Files
<1>1. /\ TypeInv /\ HandInv /\ PlaceInv /\ ControlType /\ ObjectType /\ ListType
      /\ Once /\ Apart /\ WaitInv
      /\ ~early /\ ~shared => ObjectInv
  BY DEF IndInv, TypeInv, PlaceInv
<1>2. UNCHANGED <<free, OnOpen, OnTcp, OnPend, Held, InHand>>
  BY DEF AddrWait, OnOpen, OnTcp, OnPend, Held, InHand, lists
<1>3. ControlType'
  BY <1>1 DEF AddrWait, ControlType, past
<1>4. ObjectType'
  BY <1>1, <1>2 DEF AddrWait, ObjectType, Fields, New, Null
<1>5. ListType'
  BY <1>1, <1>2 DEF AddrWait, ListType, lists, thread, past
<1>6. HandInv'
  BY <1>1 DEF AddrWait, HandInv
<1>7. ASSUME ~crossed' PROVE Once'
  BY <1>1 DEF AddrWait, Once, lists
<1>8. ASSUME ~crossed' PROVE Apart'
  BY <1>8, <1>1, <1>2, TypeFacts DEF Apart
<1>9. ASSUME ~crossed' PROVE WaitInv'
  BY <1>1, <1>2 DEF AddrWait, Waiting, WaitInv
<1>10. ASSUME ~crossed', ~early', ~shared' PROVE KindInv'
  BY <1>10, <1>1, <1>2 DEF AddrWait, ObjectInv, KindInv, FileOf, past
<1>11. ASSUME ~crossed', ~early', ~shared' PROVE FileInv'
  BY <1>11, <1>1 DEF AddrWait, ObjectInv, FileInv, FileOf, Used, past
<1>12. ASSUME ~crossed', ~early', ~shared' PROVE LinkInv'
  BY <1>12, <1>1 DEF AddrWait, ObjectInv, LinkInv, FileOf, Used, past
<1>. QED
  BY <1>3, <1>4, <1>5, <1>6, <1>7, <1>8, <1>9, <1>10, <1>11, <1>12
     DEF IndInv, TypeInv, PlaceInv, ObjectInv

\* The first half of a close: an object that is listed goes, and its connection is
\* dissociated.
LEMMA CloseOpenKeeps ==
    ASSUME IndInv, ~crossed, NEW f \in Addresses, CloseOpen(f)
    PROVE  IndInv'
<1> USE ConstantsAssumption DEF Files
<1>1. /\ TypeInv /\ HandInv /\ PlaceInv /\ ControlType /\ ObjectType /\ ListType
      /\ Once /\ Apart /\ WaitInv
      /\ ~early /\ ~shared => ObjectInv
  BY DEF IndInv, TypeInv, PlaceInv
<1>2. PICK o : o = Lookup(openList, f)
  OBVIOUS
<1>3. \/ o = NULL /\ \A p \in OnOpen : FileOf(p) # f
      \/ o \in OnOpen /\ o \in Objs /\ o # NULL /\ FileOf(o) = f
  BY <1>1, <1>2, LookupFinds DEF ListType, OnOpen
<1>4. /\ o = NULL => /\ at' = [at EXCEPT ![f] = "closingPending"]
                      /\ UNCHANGED <<assoc, obj, free, openList>>
      /\ o # NULL => /\ at' = [at EXCEPT ![f] = "closed"] /\ Dissociate(f)
                      /\ openList' = Unlink(openList, o) /\ Recycle(o, Unlinked(o))
      /\ at[f] = "closing"
  BY <1>2 DEF CloseOpen, Go
<1>5. /\ openList' \in Seq(Objs) /\ IsInjective(openList')
      /\ OnOpen' = OnOpen \ {o}
  <2>1. openList \in Seq(Objs) /\ IsInjective(openList)
    BY <1>1 DEF ListType, Once
  <2>2. CASE o = NULL
    BY <1>4, <2>1, <2>2, TypeFacts, <1>1 DEF OnOpen
  <2>3. CASE o # NULL
    <3>1. /\ Unlink(openList, o) \in Seq(Objs) /\ IsInjective(Unlink(openList, o))
          /\ ToSet(Unlink(openList, o)) = ToSet(openList) \ {o}
      BY <2>1, ListLoses
    <3>. QED
      BY <1>4, <2>3, <3>1 DEF OnOpen
  <2>. QED
    BY <2>2, <2>3
<1>6. free' = free \cup ({o} \ {NULL})
  BY <1>4 DEF Recycle
<1>7. \A p \in Objs : p # o =>
        /\ obj'[p].file = obj[p].file /\ obj'[p].tcp = obj[p].tcp
        /\ obj'[p].irp = obj[p].irp
        /\ obj'[p].addr = IF o # NULL /\ p = obj[o].tcp THEN NULL ELSE obj[p].addr
  <2>1. CASE o = NULL
    BY <1>4, <2>1
  <2>2. CASE o # NULL /\ obj[o].tcp = NULL
    <3>1. obj' = [obj EXCEPT ![o] = Null]
      BY <1>4, <2>2 DEF Recycle, Unlinked
    <3>. QED
      BY <1>1, <2>2, <3>1 DEF ObjectType
  <2>3. CASE o # NULL /\ obj[o].tcp # NULL
    <3>1. PICK t \in Objs : t = obj[o].tcp
      BY <1>1, <1>3, <2>3 DEF ObjectType, Fields
    <3>2. obj' = [[obj EXCEPT ![t].addr = NULL] EXCEPT ![o] = Null]
      BY <1>4, <2>3, <3>1 DEF Recycle, Unlinked
    <3>. QED
      BY <1>1, <2>3, <3>1, <3>2 DEF ObjectType, Fields
  <2>. QED
    BY <2>1, <2>2, <2>3
<1>8. UNCHANGED <<OnTcp, OnPend, Held, InHand>>
  BY DEF CloseOpen, OnTcp, OnPend, Held, InHand, thread
<1>9. ControlType'
  BY <1>1
     DEF CloseOpen, Go, ControlType, Places, thread, past, Recycle, Dissociate
<1>10. ObjectType'
  BY <1>1, <1>4 DEF ObjectType, Fields, New, Null, Recycle, Unlinked
<1>11. ListType'
  BY <1>1, <1>3, <1>5, <1>6 DEF CloseOpen, ListType
<1>12. HandInv'
  BY <1>1, <1>4 DEF CloseOpen, HandInv, ControlType, thread
<1>13. ASSUME ~crossed' PROVE Once'
  BY <1>1, <1>5 DEF CloseOpen, Once
<1>14. ASSUME ~crossed' PROVE Apart'
  BY <1>1, <1>3, <1>5, <1>6, <1>8 DEF Apart
<1>15. ASSUME ~crossed' PROVE WaitInv'
  BY <1>1, <1>3, <1>4, <1>7, <1>8, TypeFacts
     DEF CloseOpen, Waiting, WaitInv, Apart, ControlType, thread
<1>16. ASSUME ~crossed', ~early', ~shared' PROVE KindInv'
  <2>1. KindInv
    BY <1>1, <1>16 DEF CloseOpen, past, ObjectInv
  <2>2. \A p \in Objs : p # o => FileOf(p)' = FileOf(p)
    BY <1>7 DEF FileOf
  <2>3. /\ OnOpen \cup OnTcp \cup OnPend \cup InHand \cup Held \subseteq Objs
        /\ o \notin OnTcp \cup OnPend \cup InHand \cup Held
    BY <1>1, <1>3, TypeFacts DEF Apart
  <2>4. /\ \A q \in OnTcp' : FileOf(q)' \in Conns
        /\ \A q \in OnOpen' : FileOf(q)' \in Addresses \cup IpFiles
        /\ \A q \in OnPend' \cup InHand' : FileOf(q)' \in Addresses
    BY <1>5, <1>8, <2>1, <2>2, <2>3 DEF KindInv
  <2>5. ASSUME NEW g \in Files, ctx'[g] # NULL
        PROVE  IF at'[g] = "opening" THEN FileOf(ctx[g])' = g
                                     ELSE FileOf(ctx[g])' \in Addresses
    <3>1. ctx'[g] = ctx[g] /\ ctx[g] \in Held
      BY <2>5 DEF CloseOpen, Held
    <3>2. FileOf(ctx[g])' = FileOf(ctx[g])
      BY <2>2, <2>3, <3>1, <1>7 DEF FileOf
    <3>3. /\ at[f] = "closing" /\ at'[f] # "opening"
          /\ g # f => at'[g] = at[g]
      BY <1>1, <1>4 DEF ControlType
    <3>4. IF at[g] = "opening" THEN FileOf(ctx[g]) = g
                                ELSE FileOf(ctx[g]) \in Addresses
      BY <2>1, <2>5, <3>1 DEF KindInv
    <3>. QED
      BY <3>2, <3>3, <3>4
  <2>. QED
    BY <2>4, <2>5 DEF KindInv, FileOf
<1>17. ASSUME ~crossed', ~early', ~shared' PROVE FileInv'
  BY <1>17, <1>1, <1>2, <1>3, <1>4, <1>7
     DEF CloseOpen, Go, ObjectInv, FileInv, FileOf, Used, Apart, ControlType,
         New, Null, thread, past, Recycle, Unlinked, Dissociate
<1>18. ASSUME ~crossed', ~early', ~shared' PROVE LinkInv'
  BY <1>18, <1>1, <1>2, <1>3, <1>4, <1>6, <1>7, <1>8
     DEF CloseOpen, ObjectInv, FileInv, LinkInv, FileOf, Used, Apart,
         ControlType, ObjectType, Fields, New, Null, thread, past, Recycle,
         Dissociate
<1>. QED
  BY <1>9, <1>10, <1>11, <1>12, <1>13, <1>14, <1>15, <1>16, <1>17, <1>18
     DEF IndInv, TypeInv, PlaceInv, ObjectInv

\* The connection is known.
LEMMA OpenConnectionCompleteKeeps ==
    ASSUME IndInv, ~crossed, NEW k \in Conns, OpenConnectionComplete(k)
    PROVE  IndInv'
<1> USE ConstantsAssumption DEF Files
<1>1. /\ TypeInv /\ HandInv /\ PlaceInv /\ ControlType /\ ObjectType /\ ListType
      /\ Once /\ Apart /\ WaitInv
      /\ ~early /\ ~shared => ObjectInv
  BY DEF IndInv, TypeInv, PlaceInv
<1>2. /\ k \in Files /\ ctx[k] \in Objs \cup {NULL}
      /\ ctx[k] # NULL => ctx[k] \in Held
  BY <1>1, TypeFacts
<1>3. /\ ctx' = [ctx EXCEPT ![k] = NULL] /\ Held' = Held \ {ctx[k]}
      /\ \A g, h \in Files : ctx'[g] # NULL /\ ctx'[g] = ctx'[h] => g = h
  BY <1>1, PassKeeps DEF Once, OpenConnectionComplete
<1>4. /\ tcpList' \in Seq(Objs) /\ IsInjective(tcpList')
      /\ OnTcp' = OnTcp \cup ({ctx[k]} \ {NULL})
  <2>1. CASE ctx[k] = NULL
    BY <1>1, <2>1 DEF OpenConnectionComplete, ListType, Once, OnTcp
  <2>2. CASE ctx[k] # NULL
    <3>1. /\ ctx[k] \in Objs /\ ctx[k] \notin ToSet(tcpList)
          /\ tcpList' = Append(tcpList, ctx[k])
      BY <1>1, <1>2, <2>2, TypeFacts DEF OpenConnectionComplete, Apart, OnTcp
    <3>2. tcpList \in Seq(Objs) /\ IsInjective(tcpList)
      BY <1>1 DEF ListType, Once
    <3>3. /\ Append(tcpList, ctx[k]) \in Seq(Objs) /\ IsInjective(Append(tcpList, ctx[k]))
          /\ ToSet(Append(tcpList, ctx[k])) = ToSet(tcpList) \cup {ctx[k]}
      BY <3>1, <3>2, ListGains
    <3>. QED
      BY <2>2, <3>1, <3>3 DEF OnTcp
  <2>. QED
    BY <2>1, <2>2
<1>5. UNCHANGED <<free, OnOpen, OnPend, InHand>>
  BY DEF OpenConnectionComplete, OnOpen, OnPend, InHand, lists, thread, past
<1>6. ControlType'
  BY <1>1 DEF OpenConnectionComplete, Go, ControlType, Places, thread, past
<1>7. ObjectType'
  BY <1>1 DEF OpenConnectionComplete, ObjectType
<1>8. ListType'
  BY <1>1, <1>4 DEF OpenConnectionComplete, ListType
<1>9. HandInv'
  BY <1>1 DEF OpenConnectionComplete, Go, HandInv, ControlType, thread
<1>10. ASSUME ~crossed' PROVE Once'
  BY <1>1, <1>4 DEF OpenConnectionComplete, Once
<1>11. ASSUME ~crossed' PROVE Apart'
  BY <1>1, <1>3, <1>4, <1>5, TypeFacts DEF Apart
<1>12. ASSUME ~crossed' PROVE WaitInv'
  BY <1>1, <1>5 DEF OpenConnectionComplete, Go, Waiting, WaitInv, thread
<1>13. ASSUME ~crossed', ~early', ~shared' PROVE KindInv'
  BY <1>13, <1>1, <1>4, <1>5
     DEF OpenConnectionComplete, Go, ObjectInv, KindInv, FileOf, ControlType,
         past
<1>14. ASSUME ~crossed', ~early', ~shared' PROVE FileInv'
  BY <1>14, <1>1
     DEF OpenConnectionComplete, Go, ObjectInv, FileInv, FileOf, Used,
         ControlType, past
<1>15. ASSUME ~crossed', ~early', ~shared' PROVE LinkInv'
  BY <1>15, <1>1
     DEF OpenConnectionComplete, Go, ObjectInv, LinkInv, FileOf, Used, past
<1>. QED
  BY <1>6, <1>7, <1>8, <1>9, <1>10, <1>11, <1>12, <1>13, <1>14, <1>15
     DEF IndInv, TypeInv, PlaceInv, ObjectInv

\* The IRP of the connection has the object of the address.
LEMMA TDIH_TdiAssociateAddressKeeps ==
    ASSUME IndInv, ~crossed, NEW k \in Conns, NEW f \in Addresses,
           TDIH_TdiAssociateAddress(k, f)
    PROVE  IndInv'
<1> USE ConstantsAssumption DEF Files
<1>1. /\ TypeInv /\ HandInv /\ PlaceInv /\ ControlType /\ ObjectType /\ ListType
      /\ Once /\ Apart /\ WaitInv
      /\ ~early /\ ~shared => ObjectInv
  BY DEF IndInv, TypeInv, PlaceInv
<1>2. PICK o : o = Lookup(openList, f)
  OBVIOUS
<1>3. \/ o = NULL /\ \A p \in OnOpen : FileOf(p) # f
      \/ o \in OnOpen /\ o \in Objs /\ o # NULL /\ FileOf(o) = f
  BY <1>1, <1>2, LookupFinds DEF ListType, OnOpen
<1>4. /\ openList' \in Seq(Objs) /\ IsInjective(openList')
      /\ OnOpen' = OnOpen \ {o}
  <2>1. openList \in Seq(Objs) /\ IsInjective(openList)
    BY <1>1 DEF ListType, Once
  <2>2. openList' = Unlink(openList, o)
    BY <1>2 DEF TDIH_TdiAssociateAddress
  <2>3. /\ Unlink(openList, o) \in Seq(Objs) /\ IsInjective(Unlink(openList, o))
        /\ ToSet(Unlink(openList, o)) = ToSet(openList) \ {o}
    BY <2>1, ListLoses
  <2>. QED
    BY <2>2, <2>3 DEF OnOpen
<1>5. /\ Held' = Held \cup ({o} \ {NULL})
      /\ \A g, h \in Files : ctx'[g] # NULL /\ ctx'[g] = ctx'[h] => g = h
  <2>1. ctx[k] = NULL /\ o \notin Held /\ o \in Objs \cup {NULL}
    BY <1>1, <1>3, TypeFacts DEF TDIH_TdiAssociateAddress, Go, HandInv, Apart
  <2>2. ctx' = [ctx EXCEPT ![k] = o]
    BY <1>2 DEF TDIH_TdiAssociateAddress
  <2>. QED
    BY <1>1, <2>1, <2>2, HoldKeeps DEF Once
<1>6. UNCHANGED <<free, OnTcp, OnPend, InHand>>
  BY DEF TDIH_TdiAssociateAddress, OnTcp, OnPend, InHand, lists, thread, past
<1>7. ControlType'
  BY <1>1, <1>2, <1>3
     DEF TDIH_TdiAssociateAddress, Go, ControlType, Places, thread, past
<1>8. ObjectType'
  BY <1>1 DEF TDIH_TdiAssociateAddress, ObjectType
<1>9. ListType'
  BY <1>1, <1>4 DEF TDIH_TdiAssociateAddress, ListType
<1>10. HandInv'
  BY <1>1 DEF TDIH_TdiAssociateAddress, Go, HandInv, ControlType, thread
<1>11. ASSUME ~crossed' PROVE Once'
  BY <1>1, <1>4, <1>5 DEF TDIH_TdiAssociateAddress, Once
<1>12. ASSUME ~crossed' PROVE Apart'
  BY <1>1, <1>3, <1>4, <1>5, <1>6 DEF Apart
<1>13. ASSUME ~crossed' PROVE WaitInv'
  BY <1>1, <1>6 DEF TDIH_TdiAssociateAddress, Go, Waiting, WaitInv, thread
<1>14. ASSUME ~crossed', ~early', ~shared' PROVE KindInv'
  BY <1>14, <1>1, <1>2, <1>3, <1>4, <1>6
     DEF TDIH_TdiAssociateAddress, Go, ObjectInv, KindInv, FileOf, past
<1>15. ASSUME ~crossed', ~early', ~shared' PROVE FileInv'
  BY <1>15, <1>1
     DEF TDIH_TdiAssociateAddress, Go, ObjectInv, FileInv, FileOf, Used, past
<1>16. ASSUME ~crossed', ~early', ~shared' PROVE LinkInv'
  BY <1>16, <1>1
     DEF TDIH_TdiAssociateAddress, Go, ObjectInv, LinkInv, FileOf, Used, past
<1>. QED
  BY <1>7, <1>8, <1>9, <1>10, <1>11, <1>12, <1>13, <1>14, <1>15, <1>16
     DEF IndInv, TypeInv, PlaceInv, ObjectInv

\* The second half: an object that is pending goes, with its IRP unanswered; one
\* that is nowhere stays.
LEMMA ClosePendingKeeps ==
    ASSUME IndInv, ~crossed, NEW f \in Addresses, ClosePending(f)
    PROVE  IndInv'
<1> USE ConstantsAssumption DEF Files
<1>1. /\ TypeInv /\ HandInv /\ PlaceInv /\ ControlType /\ ObjectType /\ ListType
      /\ Once /\ Apart /\ WaitInv
      /\ ~early /\ ~shared => ObjectInv
  BY DEF IndInv, TypeInv, PlaceInv
<1>2. PICK o : o = Lookup(pendList, f)
  OBVIOUS
<1>3. \/ o = NULL /\ \A p \in OnPend : FileOf(p) # f
      \/ o \in OnPend /\ o \in Objs /\ o # NULL /\ FileOf(o) = f
  BY <1>1, <1>2, LookupFinds DEF ListType, OnPend
<1>4. /\ at' = [at EXCEPT ![f] = "closed"] /\ at[f] = "closingPending" /\ Dissociate(f)
      /\ o = NULL => /\ early' = (early \/ {p \in Objs \ free : obj[p].file = f} # {})
                      /\ UNCHANGED <<obj, free, pendList>>
      /\ o # NULL => /\ pendList' = Unlink(pendList, o) /\ early' = TRUE
                      /\ Recycle(o, Unlinked(o))
  BY <1>2 DEF ClosePending, Go
<1>5. early' \in BOOLEAN
  BY <1>1, <1>4 DEF ControlType
<1>6. ~early' => ~early /\ o = NULL /\ \A p \in Used : FileOf(p) # f
  BY <1>4 DEF Used, FileOf
<1>7. /\ pendList' \in Seq(Objs) /\ IsInjective(pendList')
      /\ OnPend' = OnPend \ {o}
  <2>1. pendList \in Seq(Objs) /\ IsInjective(pendList)
    BY <1>1 DEF ListType, Once
  <2>2. CASE o = NULL
    BY <1>4, <2>1, <2>2, TypeFacts, <1>1 DEF OnPend
  <2>3. CASE o # NULL
    <3>1. /\ Unlink(pendList, o) \in Seq(Objs) /\ IsInjective(Unlink(pendList, o))
          /\ ToSet(Unlink(pendList, o)) = ToSet(pendList) \ {o}
      BY <2>1, ListLoses
    <3>. QED
      BY <1>4, <2>3, <3>1 DEF OnPend
  <2>. QED
    BY <2>2, <2>3
<1>8. free' = free \cup ({o} \ {NULL})
  BY <1>4 DEF Recycle
<1>9. \A p \in Objs : p # o => obj'[p].irp = obj[p].irp /\ obj'[p].file = obj[p].file
  <2>1. CASE o = NULL
    BY <1>4, <2>1
  <2>2. CASE o # NULL /\ obj[o].tcp = NULL
    <3>1. obj' = [obj EXCEPT ![o] = Null]
      BY <1>4, <2>2 DEF Recycle, Unlinked
    <3>. QED
      BY <1>1, <2>2, <3>1 DEF ObjectType
  <2>3. CASE o # NULL /\ obj[o].tcp # NULL
    <3>1. PICK t \in Objs : t = obj[o].tcp
      BY <1>1, <1>3, <2>3 DEF ObjectType, Fields
    <3>2. obj' = [[obj EXCEPT ![t].addr = NULL] EXCEPT ![o] = Null]
      BY <1>4, <2>3, <3>1 DEF Recycle, Unlinked
    <3>. QED
      BY <1>1, <2>3, <3>1, <3>2 DEF ObjectType, Fields
  <2>. QED
    BY <2>1, <2>2, <2>3
<1>10. UNCHANGED <<OnOpen, OnTcp, Held, InHand>>
  BY DEF ClosePending, OnOpen, OnTcp, Held, InHand, thread
<1>11. ControlType'
  BY <1>1, <1>4 DEF ClosePending, ControlType, Places, thread, Dissociate
<1>12. ObjectType'
  BY <1>1, <1>3, <1>4, <1>6
     DEF ObjectType, Fields, New, Null, Recycle, Unlinked
<1>13. ListType'
  BY <1>1, <1>3, <1>7, <1>8 DEF ClosePending, ListType
<1>14. HandInv'
  BY <1>1, <1>4 DEF ClosePending, HandInv, thread
<1>15. ASSUME ~crossed' PROVE Once'
  BY <1>1, <1>7 DEF ClosePending, Once
<1>16. ASSUME ~crossed' PROVE Apart'
  BY <1>1, <1>3, <1>7, <1>8, <1>10 DEF Apart
<1>17. ASSUME ~crossed' PROVE WaitInv'
  BY <1>1, <1>3, <1>4, <1>7, <1>9, <1>10, TypeFacts
     DEF ClosePending, Waiting, WaitInv, Apart, thread
<1>18. ASSUME ~crossed', ~early', ~shared' PROVE KindInv'
  BY <1>18, <1>1, <1>4, <1>7, <1>10
     DEF ClosePending, ObjectInv, KindInv, FileOf, Apart, ControlType, thread
<1>19. ASSUME ~crossed', ~early', ~shared' PROVE FileInv'
  BY <1>19, <1>1, <1>2, <1>4, <1>5
     DEF ClosePending, ObjectInv, FileInv, FileOf, Used, New, Recycle,
         Dissociate
<1>20. ASSUME ~crossed', ~early', ~shared' PROVE LinkInv'
  BY <1>20, <1>1, <1>4, <1>6
     DEF ClosePending, ObjectInv, LinkInv, FileOf, Used, Dissociate
<1>. QED
  BY <1>11, <1>12, <1>13, <1>14, <1>15, <1>16, <1>17, <1>18, <1>19, <1>20
     DEF IndInv, TypeInv, PlaceInv, ObjectInv

\* The object of the connection goes, and its address is not linked any more.
LEMMA TDIH_TdiCloseConnectionKeeps ==
    ASSUME IndInv, ~crossed, NEW k \in Conns, TDIH_TdiCloseConnection(k)
    PROVE  IndInv'
<1> USE ConstantsAssumption DEF Files
<1>1. /\ TypeInv /\ HandInv /\ PlaceInv /\ ControlType /\ ObjectType /\ ListType
      /\ Once /\ Apart /\ WaitInv
      /\ ~early /\ ~shared => ObjectInv
  BY DEF IndInv, TypeInv, PlaceInv
<1>2. PICK o : o = Lookup(tcpList, k)
  OBVIOUS
<1>3. \/ o = NULL /\ \A p \in OnTcp : FileOf(p) # k
      \/ o \in OnTcp /\ o \in Objs /\ o # NULL /\ FileOf(o) = k
  BY <1>1, <1>2, LookupFinds DEF ListType, OnTcp
<1>4. /\ tcpList' \in Seq(Objs) /\ IsInjective(tcpList')
      /\ OnTcp' = OnTcp \ {o}
  <2>1. tcpList \in Seq(Objs) /\ IsInjective(tcpList)
    BY <1>1 DEF ListType, Once
  <2>2. tcpList' = Unlink(tcpList, o)
    BY <1>2 DEF TDIH_TdiCloseConnection
  <2>3. /\ Unlink(tcpList, o) \in Seq(Objs) /\ IsInjective(Unlink(tcpList, o))
        /\ ToSet(Unlink(tcpList, o)) = ToSet(tcpList) \ {o}
    BY <2>1, ListLoses
  <2>. QED
    BY <2>2, <2>3 DEF OnTcp
<1>5. free' = free \cup ({o} \ {NULL})
  BY <1>2 DEF TDIH_TdiCloseConnection, Recycle
<1>6. \A p \in Objs : p # o =>
        /\ obj'[p].file = obj[p].file /\ obj'[p].addr = obj[p].addr
        /\ obj'[p].irp = obj[p].irp
        /\ obj'[p].tcp = IF o # NULL /\ p = obj[o].addr THEN NULL ELSE obj[p].tcp
  <2>1. CASE o = NULL
    BY <1>2, <2>1 DEF TDIH_TdiCloseConnection, Recycle
  <2>2. CASE o # NULL /\ obj[o].addr = NULL
    <3>1. obj' = [obj EXCEPT ![o] = Null]
      BY <1>2, <2>2 DEF TDIH_TdiCloseConnection, Recycle
    <3>. QED
      BY <1>1, <2>2, <3>1 DEF ObjectType
  <2>3. CASE o # NULL /\ obj[o].addr # NULL
    <3>1. PICK a \in Objs : a = obj[o].addr
      BY <1>1, <1>3, <2>3 DEF ObjectType, Fields
    <3>2. obj' = [[obj EXCEPT ![a].tcp = NULL] EXCEPT ![o] = Null]
      BY <1>2, <2>3, <3>1 DEF TDIH_TdiCloseConnection, Recycle
    <3>. QED
      BY <1>1, <2>3, <3>1, <3>2 DEF ObjectType, Fields
  <2>. QED
    BY <2>1, <2>2, <2>3
<1>7. /\ Used' = Used \ {o} /\ at[k] = "open" /\ at' = [at EXCEPT ![k] = "closed"]
      /\ \A p \in Objs : p # o => FileOf(p)' = FileOf(p)
  BY <1>3, <1>5, <1>6 DEF TDIH_TdiCloseConnection, Go, Used, FileOf
<1>8. ~early' /\ ~shared' => KindInv /\ FileInv /\ LinkInv
  BY <1>1 DEF TDIH_TdiCloseConnection, ObjectInv, past
<1>9. UNCHANGED <<OnOpen, OnPend, Held, InHand>>
  BY DEF TDIH_TdiCloseConnection, OnOpen, OnPend, Held, InHand, thread, past
<1>10. ControlType'
  BY <1>1, <1>2, <1>3, <1>4, <1>5, <1>6, <1>7, <1>8, <1>9
     DEF TDIH_TdiCloseConnection, Go, ControlType, Places, lists, thread, past,
         Recycle
<1>11. ObjectType'
  BY <1>1, <1>2, <1>3, <1>5
     DEF TDIH_TdiCloseConnection, ObjectType, Fields, New, Null, Recycle
<1>12. ListType'
  BY <1>1, <1>3, <1>4, <1>5 DEF TDIH_TdiCloseConnection, ListType
<1>13. HandInv'
  BY <1>1, <1>7, <1>8 DEF TDIH_TdiCloseConnection, HandInv, thread
<1>14. ASSUME ~crossed' PROVE Once'
  BY <1>1, <1>4, <1>6 DEF TDIH_TdiCloseConnection, Once
<1>15. ASSUME ~crossed' PROVE Apart'
  BY <1>1, <1>2, <1>3, <1>4, <1>5, <1>9 DEF Apart
<1>16. ASSUME ~crossed' PROVE WaitInv'
  BY <1>1, <1>3, <1>6, <1>7, <1>9, TypeFacts
     DEF TDIH_TdiCloseConnection, Waiting, WaitInv, Apart, thread
<1>17. ASSUME ~crossed', ~early', ~shared' PROVE KindInv'
  <2>1. KindInv
    BY <1>17, <1>8
  <2>2. \A p \in OnTcp' \cup OnOpen \cup OnPend \cup InHand : p \in Objs /\ p # o
    BY <1>1, <1>3, <1>4, TypeFacts DEF Apart
  <2>3. ASSUME NEW g \in Files, ctx[g] # NULL
        PROVE  ctx[g] \in Objs /\ ctx[g] # o /\ at'[g] = at[g]
    BY <1>1, <1>3, <1>7, <2>3, TypeFacts DEF HandInv, Apart
  <2>. QED
    BY <1>4, <1>7, <1>9, <2>1, <2>2, <2>3 DEF KindInv, TDIH_TdiCloseConnection
<1>18. ASSUME ~crossed', ~early', ~shared' PROVE FileInv'
  <2>1. KindInv /\ FileInv
    BY <1>18, <1>8
  <2>2. \A p \in Used : FileOf(p) = k => p = o
    <3>1. ASSUME NEW p \in Used, FileOf(p) = k PROVE p = o
      <4>1. p \in OnTcp
        BY <1>1, <1>7, <2>1, <3>1, Listed
      <4>2. o \in Used /\ FileOf(o) = k
        BY <1>1, <1>3, <3>1, <4>1 DEF Apart, Used
      <4>. QED
        BY <2>1, <3>1, <4>2 DEF FileInv
    <3>. QED
      BY <3>1
  <2>3. \A p \in Used' :
            p \in Used /\ p \in Objs /\ FileOf(p)' = FileOf(p) /\ FileOf(p) # k
    BY <1>7, <2>2 DEF Used
  <2>4. \A p \in Used' : at'[FileOf(p)] = at[FileOf(p)]
    BY <1>1, <1>7, <2>1, <2>3 DEF ControlType, FileInv
  <2>. QED
    BY <2>1, <2>3, <2>4 DEF FileInv, TDIH_TdiCloseConnection
<1>19. ASSUME ~crossed', ~early', ~shared' PROVE LinkInv'
  <2>1. KindInv /\ FileInv /\ LinkInv
    BY <1>19, <1>8
  <2>2. \A p \in Used : FileOf(p) = k => p = o
    <3>1. ASSUME NEW p \in Used, FileOf(p) = k PROVE p = o
      <4>1. p \in OnTcp
        BY <1>1, <1>7, <2>1, <3>1, Listed
      <4>2. o \in Used /\ FileOf(o) = k
        BY <1>1, <1>3, <3>1, <4>1 DEF Apart, Used
      <4>. QED
        BY <2>1, <3>1, <4>2 DEF FileInv
    <3>. QED
      BY <3>1
  <2>3. \A p \in Used' : p \in Used /\ p \in Objs /\ p # o /\ p # NULL
                         /\ FileOf(p)' = FileOf(p) /\ FileOf(p) # k
    BY <1>7, <2>2 DEF Used
  <2>4. \A p \in Used' : at'[FileOf(p)] = at[FileOf(p)]
    BY <1>1, <1>7, <2>1, <2>3 DEF ControlType, FileInv
  <2>5. \A p \in Used' : FileOf(p) \in Conns => assoc'[FileOf(p)] = assoc[FileOf(p)]
    BY <1>1, <2>3 DEF TDIH_TdiCloseConnection, ControlType
  <2>6. o # NULL => o \in Used /\ FileOf(o) \in Conns
    BY <1>1, <1>3 DEF Apart, Used
  <2>7. \A p \in Used' : obj'[p].addr # NULL =>
          /\ obj[p].addr \in Used /\ obj[obj[p].addr].tcp = p
          /\ obj'[p].addr = obj[p].addr
          /\ obj[p].addr # o /\ (o # NULL => obj[p].addr # obj[o].addr)
    <3>1. ASSUME NEW p \in Used', obj'[p].addr # NULL
          PROVE  /\ obj[p].addr \in Used /\ obj[obj[p].addr].tcp = p
                 /\ obj'[p].addr = obj[p].addr /\ FileOf(obj[p].addr) \in Addresses
      BY <1>6, <2>1, <2>3, <3>1 DEF LinkInv
    <3>. QED
      BY <2>1, <2>3, <2>6, <3>1 DEF LinkInv
  <2>8. \A p \in Used' : obj'[p].tcp # NULL =>
          /\ obj'[p].tcp = obj[p].tcp /\ obj[p].tcp \in Used /\ obj[obj[p].tcp].addr = p
          /\ obj[p].tcp # o
    BY <1>6, <2>1, <2>3, <2>6 DEF LinkInv
  <2>. QED
    BY <1>7, <1>6, <2>1, <2>3, <2>5, <2>7 DEF LinkInv
<1>. QED
  BY <1>10, <1>11, <1>12, <1>13, <1>14, <1>15, <1>16, <1>17, <1>18, <1>19
     DEF IndInv, TypeInv, PlaceInv, ObjectInv

\* A request takes the object of its address off the list, where it is unless the
\* list is broken.
LEMMA TakeKeeps ==
    ASSUME IndInv, ~crossed, NEW f \in Addresses \cup Conns, Take(f)
    PROVE  IndInv'
<1> USE ConstantsAssumption DEF Files
<1>1. /\ TypeInv /\ HandInv /\ PlaceInv /\ ControlType /\ ObjectType /\ ListType
      /\ Once /\ Apart /\ WaitInv
      /\ ~early /\ ~shared => ObjectInv
  BY DEF IndInv, TypeInv, PlaceInv
<1>2. PICK o : o = AddrObject(f)
  OBVIOUS
<1>3. o # NULL /\ o \in Objs /\ f \in Files
  <2>1. PICK t : t = Lookup(tcpList, f)
    OBVIOUS
  <2>2. t = NULL \/ t \in Objs
    BY <1>1, <2>1, LookupFinds DEF ListType
  <2>3. Lookup(openList, f) \in Objs \cup {NULL}
    BY <1>1, LookupFinds DEF ListType
  <2>4. o # NULL
    BY <1>2 DEF Take
  <2>5. CASE t # NULL /\ obj[t].addr # NULL
    BY <1>1, <1>2, <2>1, <2>2, <2>5 DEF AddrObject, ObjectType, Fields
  <2>6. CASE ~(t # NULL /\ obj[t].addr # NULL)
    BY <1>2, <2>1, <2>3, <2>4, <2>6 DEF AddrObject
  <2>. QED
    BY <2>4, <2>5, <2>6
<1>4. /\ openList' \in Seq(Objs) /\ IsInjective(openList')
      /\ OnOpen' = OnOpen \ {o}
  <2>1. openList \in Seq(Objs) /\ IsInjective(openList)
    BY <1>1 DEF ListType, Once
  <2>2. openList' = Unlink(openList, o)
    BY <1>2 DEF Take
  <2>3. /\ Unlink(openList, o) \in Seq(Objs) /\ IsInjective(Unlink(openList, o))
        /\ ToSet(Unlink(openList, o)) = ToSet(openList) \ {o}
    BY <2>1, ListLoses
  <2>. QED
    BY <2>2, <2>3 DEF OnOpen
<1>5. ~crossed' => o \in OnOpen
  BY <1>2 DEF Take, OnOpen
<1>6. crossed' \in BOOLEAN
  BY DEF Take
<1>7. ctx' = [ctx EXCEPT ![f] = o] /\ ctx[f] = NULL
  BY <1>1, <1>2 DEF Take, Go, HandInv
<1>8. ASSUME ~crossed'
      PROVE  /\ Held' = Held \cup ({o} \ {NULL})
             /\ \A g, h \in Files : ctx'[g] # NULL /\ ctx'[g] = ctx'[h] => g = h
  BY <1>1, <1>5, <1>7, <1>8, HoldKeeps, TypeFacts DEF Once, Apart
<1>9. ~crossed' /\ ~early /\ ~shared => FileOf(o) \in Addresses
  <2>1. SUFFICES ASSUME o \in OnOpen, ObjectInv
                 PROVE  FileOf(o) \in Addresses
    BY <1>1, <1>5
  <2>2. PICK t : t = Lookup(tcpList, f)
    OBVIOUS
  <2>3. t = NULL \/ (t \in Objs /\ t \in OnTcp)
    BY <1>1, <2>2, LookupFinds DEF ListType, OnTcp
  <2>4. CASE t # NULL /\ obj[t].addr # NULL
    <3>1. o = obj[t].addr /\ t \in Used
      BY <1>1, <1>2, <2>2, <2>3, <2>4 DEF AddrObject, Apart, Used
    <3>. QED
      BY <2>1, <2>4, <3>1 DEF ObjectInv, LinkInv
  <2>5. CASE ~(t # NULL /\ obj[t].addr # NULL)
    <3>1. FileOf(o) = f
      BY <1>1, <1>2, <1>3, <2>2, <2>5, LookupFinds DEF AddrObject, ListType
    <3>. QED
      BY <2>1, <3>1 DEF ObjectInv, KindInv
  <2>. QED
    BY <2>4, <2>5
<1>10. UNCHANGED <<free, OnTcp, OnPend, InHand>>
  BY DEF Take, OnTcp, OnPend, InHand, lists, thread, past
<1>11. ControlType'
  BY <1>1, <1>3, <1>7 DEF Take, Go, ControlType, Places, thread
<1>12. ObjectType'
  BY <1>1 DEF Take, ObjectType
<1>13. ListType'
  BY <1>1, <1>4 DEF Take, ListType
<1>14. HandInv'
  BY <1>1 DEF Take, Go, HandInv, ControlType, thread
<1>15. ASSUME ~crossed' PROVE Once'
  BY <1>15, <1>1, <1>4, <1>8 DEF Take, Once
<1>16. ASSUME ~crossed' PROVE Apart'
  BY <1>16, <1>1, <1>4, <1>5, <1>8, <1>10 DEF Apart
<1>17. ASSUME ~crossed' PROVE WaitInv'
  BY <1>1, <1>10 DEF Take, Go, Waiting, WaitInv, thread
<1>18. ASSUME ~crossed', ~early', ~shared' PROVE KindInv'
  BY <1>18, <1>1, <1>4, <1>7, <1>9, <1>10
     DEF Take, Go, ObjectInv, KindInv, FileOf
<1>19. ASSUME ~crossed', ~early', ~shared' PROVE FileInv'
  BY <1>19, <1>1 DEF Take, Go, ObjectInv, FileInv, FileOf, Used
<1>20. ASSUME ~crossed', ~early', ~shared' PROVE LinkInv'
  BY <1>20, <1>1 DEF Take, Go, ObjectInv, LinkInv, FileOf, Used
<1>. QED
  BY <1>11, <1>12, <1>13, <1>14, <1>15, <1>16, <1>17, <1>18, <1>19, <1>20
     DEF IndInv, TypeInv, PlaceInv, ObjectInv

\* addrThread has the first pending object.
LEMMA AddrScanKeeps ==
    ASSUME IndInv, ~crossed, AddrScan
    PROVE  IndInv'
<1> USE ConstantsAssumption DEF Files
<1>1. /\ TypeInv /\ HandInv /\ PlaceInv /\ ControlType /\ ObjectType /\ ListType
      /\ Once /\ Apart /\ WaitInv
      /\ ~early /\ ~shared => ObjectInv
  BY DEF IndInv, TypeInv, PlaceInv
<1>2. pendList = <<>> => UNCHANGED <<pendList, hand>> /\ pc' = "wait"
  BY DEF AddrScan
<1>3. pendList # <<>> =>
        /\ pendList' = Tail(pendList) /\ hand' = Head(pendList) /\ pc' = "answer"
        /\ next' = IF Len(pendList) > 1 THEN pendList[2] ELSE NULL
  BY DEF AddrScan
<1>4. hand = NULL /\ InHand = {} /\ pc = "scan"
  BY <1>1 DEF AddrScan, HandInv, InHand
<1>5. /\ pendList' \in Seq(Objs) /\ IsInjective(pendList')
      /\ pendList = <<>> => OnPend' = OnPend /\ InHand' = {}
      /\ pendList # <<>> => /\ hand' \in OnPend /\ hand' \in Objs
                            /\ OnPend' = OnPend \ {hand'} /\ InHand' = {hand'}
  <2>1. pendList \in Seq(Objs) /\ IsInjective(pendList)
    BY <1>1 DEF ListType, Once
  <2>2. CASE pendList = <<>>
    BY <1>2, <1>4, <2>1, <2>2 DEF OnPend, InHand
  <2>3. CASE pendList # <<>>
    <3>1. /\ Tail(pendList) \in Seq(Objs) /\ IsInjective(Tail(pendList))
          /\ Head(pendList) \in ToSet(pendList)
          /\ ToSet(Tail(pendList)) = ToSet(pendList) \ {Head(pendList)}
      BY <2>1, <2>3, TailKeeps
    <3>2. Head(pendList) \in Objs /\ Head(pendList) # NULL
      BY <1>1, <3>1, TypeFacts DEF OnPend
    <3>. QED
      BY <1>3, <2>3, <3>1, <3>2 DEF OnPend, InHand
  <2>. QED
    BY <2>2, <2>3
<1>6. next' \in Objs \cup {NULL}
  BY <1>1 DEF AddrScan, ListType, ControlType
<1>7. UNCHANGED <<free, OnOpen, OnTcp, Held>>
  BY DEF AddrScan, OnOpen, OnTcp, Held, lists, thread, past
<1>8. ControlType'
  BY <1>1, <1>5, <1>6 DEF AddrScan, ControlType, past
<1>9. ObjectType'
  BY <1>1 DEF AddrScan, ObjectType
<1>10. ListType'
  BY <1>1, <1>5 DEF AddrScan, ListType
<1>11. HandInv'
  BY <1>1, <1>5 DEF AddrScan, HandInv
<1>12. ASSUME ~crossed' PROVE Once'
  BY <1>1, <1>5 DEF AddrScan, Once
<1>13. ASSUME ~crossed' PROVE Apart'
  BY <1>1, <1>4, <1>5, <1>7 DEF Apart
<1>14. ASSUME ~crossed' PROVE WaitInv'
  BY <1>1, <1>5 DEF AddrScan, Waiting, WaitInv
<1>15. ASSUME ~crossed', ~early', ~shared' PROVE KindInv'
  BY <1>15, <1>1, <1>5, <1>7 DEF AddrScan, ObjectInv, KindInv, FileOf, past
<1>16. ASSUME ~crossed', ~early', ~shared' PROVE FileInv'
  BY <1>16, <1>1 DEF AddrScan, ObjectInv, FileInv, FileOf, Used, past
<1>17. ASSUME ~crossed', ~early', ~shared' PROVE LinkInv'
  BY <1>17, <1>1 DEF AddrScan, ObjectInv, LinkInv, FileOf, Used, past
<1>. QED
  BY <1>8, <1>9, <1>10, <1>11, <1>12, <1>13, <1>14, <1>15, <1>16, <1>17
     DEF IndInv, TypeInv, PlaceInv, ObjectInv

\* The IRP withheld is completed.
LEMMA AddrAnswerKeeps ==
    ASSUME IndInv, ~crossed, AddrAnswer
    PROVE  IndInv'
<1> USE ConstantsAssumption DEF Files
<1>1. /\ TypeInv /\ HandInv /\ PlaceInv /\ ControlType /\ ObjectType /\ ListType
      /\ Once /\ Apart /\ WaitInv
      /\ ~early /\ ~shared => ObjectInv
  BY DEF IndInv, TypeInv, PlaceInv
<1>2. /\ hand \in Objs /\ hand # NULL /\ hand \in Waiting
      /\ obj[hand].irp \in Files /\ at[obj[hand].irp] = "withheld"
  BY <1>1 DEF AddrAnswer, HandInv, ControlType, WaitInv, Waiting, InHand
<1>3. PICK g \in Files : g = obj[hand].irp
  BY <1>2
<1>4. /\ at' = [at EXCEPT ![g] = "open"] /\ at[g] = "withheld"
      /\ obj' = [obj EXCEPT ![hand].irp = NULL]
  BY <1>2, <1>3 DEF AddrAnswer
<1>5. UNCHANGED <<free, OnOpen, OnTcp, OnPend, Held, InHand>>
  BY DEF AddrAnswer, OnOpen, OnTcp, OnPend, Held, InHand, lists
<1>6. ControlType'
  BY <1>1 DEF AddrAnswer, ControlType, Places, past
<1>7. ObjectType'
  BY <1>1, <1>2, <1>4 DEF ObjectType, Fields
<1>8. ListType'
  BY <1>1 DEF AddrAnswer, ListType, lists
<1>9. HandInv'
  BY <1>1, <1>4 DEF AddrAnswer, HandInv
<1>10. ASSUME ~crossed' PROVE Once'
  BY <1>1 DEF AddrAnswer, Once, lists
<1>11. ASSUME ~crossed' PROVE Apart'
  BY <1>1, <1>5 DEF Apart
<1>12. ASSUME ~crossed' PROVE WaitInv'
  <2>1. Waiting' = OnPend
    BY <1>5 DEF AddrAnswer, Waiting
  <2>2. \A o \in OnPend : o \in Waiting /\ o \in Objs /\ o # hand
    BY <1>1, <1>2, TypeFacts DEF Waiting, Apart, InHand
  <2>3. \A o \in OnPend : obj'[o].irp = obj[o].irp /\ obj[o].irp # g
    BY <1>1, <1>2, <1>3, <1>4, <2>2 DEF WaitInv, ObjectType
  <2>4. \A o \in OnPend : /\ obj[o].irp \in Files /\ at'[obj[o].irp] = "withheld"
                         /\ \A p \in OnPend : obj[p].irp = obj[o].irp => p = o
    BY <1>1, <1>4, <2>2, <2>3 DEF WaitInv, ControlType
  <2>. QED
    BY <2>1, <2>3, <2>4 DEF WaitInv
<1>13. ASSUME ~crossed', ~early', ~shared' PROVE KindInv'
  BY <1>13, <1>1, <1>4, <1>5 DEF AddrAnswer, ObjectInv, KindInv, FileOf, past
<1>14. ASSUME ~crossed', ~early', ~shared' PROVE FileInv'
  BY <1>14, <1>1, <1>2 DEF AddrAnswer, ObjectInv, FileInv, FileOf, Used, past
<1>15. ASSUME ~crossed', ~early', ~shared' PROVE LinkInv'
  BY <1>15, <1>1 DEF AddrAnswer, ObjectInv, LinkInv, FileOf, Used, past
<1>. QED
  BY <1>6, <1>7, <1>8, <1>9, <1>10, <1>11, <1>12, <1>13, <1>14, <1>15
     DEF IndInv, TypeInv, PlaceInv, ObjectInv

\* The object goes on the list, or back if its file has one already.
LEMMA AddrPlaceKeeps ==
    ASSUME IndInv, ~crossed, AddrPlace
    PROVE  IndInv'
<1> USE ConstantsAssumption DEF Files
<1>1. /\ TypeInv /\ HandInv /\ PlaceInv /\ ControlType /\ ObjectType /\ ListType
      /\ Once /\ Apart /\ WaitInv
      /\ ~early /\ ~shared => ObjectInv
  BY DEF IndInv, TypeInv, PlaceInv
<1>2. hand \in Objs /\ hand # NULL /\ hand \in InHand
  BY <1>1 DEF AddrPlace, HandInv, ControlType, InHand
<1>3. PICK known : known = AddrObject(FileOf(hand))
  OBVIOUS
<1>4. /\ known = NULL => /\ openList' = Append(openList, hand)
                         /\ UNCHANGED <<free, obj, crossed>>
      /\ known # NULL => /\ free' = free \cup {hand} /\ obj' = [obj EXCEPT ![hand] = Null]
                         /\ UNCHANGED openList /\ crossed' \in BOOLEAN
      /\ hand' = NULL /\ InHand' = {}
  BY <1>2, <1>3 DEF AddrPlace, FileOf, Recycle, InHand
<1>5. /\ openList' \in Seq(Objs) /\ IsInjective(openList')
      /\ OnOpen' = IF known = NULL THEN OnOpen \cup {hand} ELSE OnOpen
  <2>1. openList \in Seq(Objs) /\ IsInjective(openList)
    BY <1>1 DEF ListType, Once
  <2>2. hand \notin ToSet(openList)
    BY <1>1, <1>2 DEF Apart, OnOpen
  <2>3. /\ Append(openList, hand) \in Seq(Objs) /\ IsInjective(Append(openList, hand))
        /\ ToSet(Append(openList, hand)) = ToSet(openList) \cup {hand}
    BY <1>2, <2>1, <2>2, ListGains
  <2>. QED
    BY <1>4, <2>1, <2>3 DEF OnOpen
<1>6. ObjectInv => known = NULL
  <2>1. SUFFICES ASSUME ObjectInv PROVE known = NULL
    OBVIOUS
  <2>2. FileOf(hand) \in Addresses /\ hand \in Used
    BY <1>1, <1>2, <2>1 DEF ObjectInv, KindInv, Apart, Used
  <2>3. Lookup(tcpList, FileOf(hand)) = NULL
    BY <1>1, <2>1, <2>2, LookupFinds DEF ObjectInv, KindInv, ListType, OnTcp
  <2>4. \A p \in OnOpen : FileOf(p) # FileOf(hand)
    BY <1>1, <1>2, <2>1, TypeFacts DEF ObjectInv, FileInv, Apart, Used
  <2>5. Lookup(openList, FileOf(hand)) = NULL
    BY <1>1, <2>4, LookupFinds DEF ListType, OnOpen
  <2>. QED
    BY <1>3, <2>3, <2>5 DEF AddrObject
<1>7. UNCHANGED <<OnTcp, OnPend, Held>>
  BY DEF AddrPlace, OnTcp, OnPend, Held, lists, thread, past
<1>8. ControlType'
  BY <1>1, <1>6 DEF AddrPlace, ControlType
<1>9. ObjectType'
  BY <1>1, <1>4 DEF ObjectType, Fields, New, Null
<1>10. ListType'
  BY <1>1, <1>2, <1>4, <1>5 DEF AddrPlace, ListType
<1>11. HandInv'
  BY <1>1 DEF AddrPlace, HandInv
<1>12. ASSUME ~crossed' PROVE Once'
  BY <1>1, <1>5 DEF AddrPlace, Once
<1>13. ASSUME ~crossed' PROVE Apart'
  <2>1. \A o \in OnOpen \cup OnTcp \cup OnPend \cup Held \cup free : o # hand
    BY <1>1, <1>2 DEF Apart
  <2>2. InHand = {hand}
    BY <1>2 DEF InHand
  <2>3. CASE known = NULL
    <3>1. free' = free /\ OnOpen' = OnOpen \cup {hand} /\ InHand' = {}
      BY <1>4, <1>5, <2>3
    <3>. QED
      BY <1>1, <1>7, <2>1, <2>2, <3>1 DEF Apart
  <2>4. CASE known # NULL
    <3>1. free' = free \cup {hand} /\ OnOpen' = OnOpen /\ InHand' = {}
      BY <1>4, <1>5, <2>4
    <3>. QED
      BY <1>1, <1>7, <2>1, <2>2, <3>1 DEF Apart
  <2>. QED
    BY <2>3, <2>4
<1>14. ASSUME ~crossed' PROVE WaitInv'
  BY <1>1, <1>2, <1>4, <1>7, TypeFacts
     DEF AddrPlace, Waiting, WaitInv, Apart, ObjectType
<1>15. ASSUME ~crossed', ~early', ~shared' PROVE KindInv'
  BY <1>15, <1>1, <1>2, <1>4, <1>5, <1>6, <1>7
     DEF AddrPlace, ObjectInv, KindInv, FileOf
<1>16. ASSUME ~crossed', ~early', ~shared' PROVE FileInv'
  BY <1>16, <1>1, <1>4
     DEF AddrPlace, ObjectInv, FileInv, FileOf, Used, Apart, ControlType,
         ObjectType, New
<1>17. ASSUME ~crossed', ~early', ~shared' PROVE LinkInv'
  BY <1>17, <1>1, <1>4, <1>6 DEF AddrPlace, ObjectInv, LinkInv, FileOf, Used
<1>. QED
  BY <1>8, <1>9, <1>10, <1>11, <1>12, <1>13, <1>14, <1>15, <1>16, <1>17
     DEF IndInv, TypeInv, PlaceInv, ObjectInv

\* A connection and its address go their ways.
LEMMA TDIH_TdiDisAssociateAddressKeeps ==
    ASSUME IndInv, ~crossed, NEW k \in Conns, TDIH_TdiDisAssociateAddress(k)
    PROVE  IndInv'
<1> USE ConstantsAssumption DEF Files
<1>1. /\ TypeInv /\ HandInv /\ PlaceInv /\ ControlType /\ ObjectType /\ ListType
      /\ Once /\ Apart /\ WaitInv
      /\ ~early /\ ~shared => ObjectInv
  BY DEF IndInv, TypeInv, PlaceInv
<1>2. PICK o : o = Lookup(tcpList, k)
  OBVIOUS
<1>3. \/ o = NULL /\ \A p \in OnTcp : FileOf(p) # k
      \/ o \in OnTcp /\ o \in Objs /\ o # NULL /\ FileOf(o) = k
  BY <1>1, <1>2, LookupFinds DEF ListType, OnTcp
<1>4. obj' = [p \in Objs |->
              IF p = o THEN [obj[p] EXCEPT !.addr = NULL]
              ELSE IF o # NULL /\ p = obj[o].addr
              THEN [obj[p] EXCEPT !.tcp = NULL] ELSE obj[p]]
  BY <1>2 DEF TDIH_TdiDisAssociateAddress
<1>5. \A p \in Objs :
        /\ obj'[p].file = obj[p].file /\ obj'[p].irp = obj[p].irp
        /\ obj'[p].addr = IF p = o THEN NULL ELSE obj[p].addr
        /\ obj'[p].tcp = IF o # NULL /\ p # o /\ p = obj[o].addr THEN NULL
                         ELSE obj[p].tcp
  BY <1>1, <1>4 DEF ObjectType, Fields
<1>6. at[k] = "open" /\ assoc' = [assoc EXCEPT ![k] = NULL]
  BY DEF TDIH_TdiDisAssociateAddress
<1>7. /\ at' = at /\ ctx' = ctx
      /\ ~early' /\ ~shared' => KindInv /\ FileInv /\ LinkInv
  BY <1>1 DEF TDIH_TdiDisAssociateAddress, ObjectInv, past
<1>8. Used' = Used /\ \A p \in Objs : FileOf(p)' = FileOf(p)
  BY <1>5 DEF TDIH_TdiDisAssociateAddress, Used, FileOf
<1>9. UNCHANGED <<free, OnOpen, OnTcp, OnPend, Held, InHand>>
  BY DEF TDIH_TdiDisAssociateAddress, OnOpen, OnTcp, OnPend, Held, InHand,
         lists, thread
<1>10. ControlType'
  BY <1>1 DEF TDIH_TdiDisAssociateAddress, ControlType, thread, past
<1>11. ObjectType'
  BY <1>1, <1>4 DEF ObjectType, Fields
<1>12. ListType'
  BY <1>1 DEF TDIH_TdiDisAssociateAddress, ListType, lists
<1>13. HandInv'
  BY <1>1, <1>5 DEF TDIH_TdiDisAssociateAddress, HandInv, thread
<1>14. ASSUME ~crossed' PROVE Once'
  BY <1>1 DEF TDIH_TdiDisAssociateAddress, Once, lists
<1>15. ASSUME ~crossed' PROVE Apart'
  BY <1>1, <1>9 DEF Apart
<1>16. ASSUME ~crossed' PROVE WaitInv'
  BY <1>1, <1>9, TypeFacts
     DEF TDIH_TdiDisAssociateAddress, Waiting, WaitInv, thread
<1>17. ASSUME ~crossed', ~early', ~shared' PROVE KindInv'
  BY <1>17, <1>1, <1>7, <1>8, <1>9, TypeFacts DEF KindInv
<1>18. ASSUME ~crossed', ~early', ~shared' PROVE FileInv'
  BY <1>18, <1>7, <1>8 DEF FileInv, Used
<1>19. ASSUME ~crossed', ~early', ~shared' PROVE LinkInv'
  <2>1. KindInv /\ FileInv /\ LinkInv
    BY <1>19, <1>7
  <2>2. o # NULL => o \in Used /\ FileOf(o) = k
    BY <1>1, <1>3 DEF Apart, Used
  <2>3. ASSUME NEW p \in Used, FileOf(p) = k
        PROVE  p = o
    <3>1. p \in OnTcp
      BY <1>1, <1>6, <2>1, <2>3, Listed
    <3>. QED
      BY <1>3, <2>1, <2>2, <2>3, <3>1 DEF FileInv
  <2>4. \A p \in Used :
            p # o /\ FileOf(p) \in Conns => assoc'[FileOf(p)] = assoc[FileOf(p)]
    BY <1>1, <1>6, <2>3 DEF ControlType
  <2>5. ASSUME NEW p \in Used, obj'[p].addr # NULL
        PROVE  /\ p # o /\ obj'[p].addr = obj[p].addr
               /\ obj'[obj[p].addr].tcp = obj[obj[p].addr].tcp
    <3>1. p # o /\ obj'[p].addr = obj[p].addr
      BY <1>5, <2>5 DEF Used
    <3>2. obj[p].addr \in Used /\ obj[obj[p].addr].tcp = p
      BY <2>1, <2>5, <3>1 DEF LinkInv
    <3>3. o # NULL => obj[o].addr # obj[p].addr
      BY <2>1, <2>2, <2>5, <3>1, <3>2 DEF LinkInv
    <3>. QED
      BY <1>5, <3>1, <3>2, <3>3 DEF Used
  <2>6. ASSUME NEW p \in Used, obj'[p].tcp # NULL
        PROVE  /\ obj'[p].tcp = obj[p].tcp
               /\ obj'[obj[p].tcp].addr = obj[obj[p].tcp].addr
    <3>1. obj'[p].tcp = obj[p].tcp
      BY <1>5, <2>6 DEF Used
    <3>2. obj[p].tcp \in Used /\ obj[obj[p].tcp].addr = p
      BY <2>1, <2>6, <3>1 DEF LinkInv
    <3>3. ASSUME obj[p].tcp = o PROVE FALSE
      <4>1. o # NULL /\ obj[o].addr = p /\ p # NULL
        BY <1>1, <2>6, <3>1, <3>2, <3>3, TypeFacts DEF Used
      <4>2. p = o
        BY <1>5, <2>6, <4>1 DEF Used
      <4>. QED
        BY <2>1, <2>2, <4>1, <4>2 DEF LinkInv
    <3>. QED
      BY <1>5, <3>1, <3>2, <3>3 DEF Used
  <2>7. ASSUME NEW p \in Used, obj[p].addr = NULL
        PROVE  obj'[p].addr = NULL
    BY <1>5, <2>7 DEF Used
  <2>8. ASSUME NEW p \in Used, obj[p].tcp = NULL
        PROVE  obj'[p].tcp = NULL
    BY <1>5, <2>8 DEF Used
  <2>9. ASSUME NEW p \in Used, obj'[p].addr # NULL
        PROVE  /\ obj'[p].addr \in Used /\ obj'[obj'[p].addr].tcp = p
               /\ FileOf(p) \in Conns /\ FileOf(obj'[p].addr) \in Addresses
               /\ assoc'[FileOf(p)] = FileOf(obj'[p].addr)
    BY <2>1, <2>4, <2>5, <2>9 DEF LinkInv
  <2>10. \A p \in Objs : obj'[p].file = FileOf(p)
    BY <1>5 DEF FileOf
  <2>11. \A p \in Used :
             at'[FileOf(p)] = "opening" => obj[p].addr = NULL /\ obj[p].tcp = NULL
    BY <1>7, <2>1 DEF LinkInv
  <2>12. ASSUME NEW p \in Used, obj'[p].tcp # NULL
         PROVE  obj'[p].tcp \in Used /\ obj'[obj'[p].tcp].addr = p
    BY <2>1, <2>6, <2>12 DEF LinkInv
  <2>13. \A p \in Used : p \in Objs
    BY DEF Used
  <2>. QED
    BY <1>8, <2>7, <2>8, <2>9, <2>11, <2>12, <2>13 DEF LinkInv
<1>. QED
  BY <1>10, <1>11, <1>12, <1>13, <1>14, <1>15, <1>16, <1>17, <1>18, <1>19
     DEF IndInv, TypeInv, PlaceInv, ObjectInv

\* The address is listed again, and names its connection if the transport has
\* associated them.
LEMMA AssociateCompleteKeeps ==
    ASSUME IndInv, ~crossed, NEW k \in Conns, AssociateComplete(k)
    PROVE  IndInv'
<1> USE ConstantsAssumption DEF Files
<1>1. /\ TypeInv /\ HandInv /\ PlaceInv /\ ControlType /\ ObjectType /\ ListType
      /\ Once /\ Apart /\ WaitInv
      /\ ~early /\ ~shared => ObjectInv
  BY DEF IndInv, TypeInv, PlaceInv
<1>2. /\ k \in Files /\ ctx[k] \in Objs \cup {NULL}
      /\ ctx[k] # NULL => ctx[k] \in Held
  BY <1>1, TypeFacts
<1>3. /\ ctx' = [ctx EXCEPT ![k] = NULL] /\ Held' = Held \ {ctx[k]}
      /\ \A g, h \in Files : ctx'[g] # NULL /\ ctx'[g] = ctx'[h] => g = h
  BY <1>1, PassKeeps DEF Once, AssociateComplete
<1>4. /\ openList' \in Seq(Objs) /\ IsInjective(openList')
      /\ OnOpen' = OnOpen \cup ({ctx[k]} \ {NULL})
  <2>1. CASE ctx[k] = NULL
    BY <1>1, <2>1 DEF AssociateComplete, ListType, Once, OnOpen
  <2>2. CASE ctx[k] # NULL
    <3>1. /\ ctx[k] \in Objs /\ ctx[k] \notin ToSet(openList)
          /\ openList' = Append(openList, ctx[k])
      BY <1>1, <1>2, <2>2, TypeFacts DEF AssociateComplete, Apart, OnOpen
    <3>2. openList \in Seq(Objs) /\ IsInjective(openList)
      BY <1>1 DEF ListType, Once
    <3>3. /\ Append(openList, ctx[k]) \in Seq(Objs)
          /\ IsInjective(Append(openList, ctx[k]))
          /\ ToSet(Append(openList, ctx[k])) = ToSet(openList) \cup {ctx[k]}
      BY <3>1, <3>2, ListGains
    <3>. QED
      BY <2>2, <3>1, <3>3 DEF OnOpen
  <2>. QED
    BY <2>1, <2>2
<1>5. PICK t : t = Lookup(tcpList, k)
  OBVIOUS
<1>6. \/ t = NULL /\ \A p \in OnTcp : FileOf(p) # k
      \/ t \in OnTcp /\ t \in Objs /\ t # NULL /\ FileOf(t) = k
  BY <1>1, <1>5, LookupFinds DEF ListType, OnTcp
<1>7. \/ UNCHANGED <<assoc, obj, shared>>
      \/ \E f \in Addresses :
           /\ assoc[k] = NULL /\ assoc' = [assoc EXCEPT ![k] = f]
           /\ ctx[k] # NULL => FileOf(ctx[k]) = f
           /\ IF ctx[k] = NULL \/ t = NULL THEN UNCHANGED <<obj, shared>>
              ELSE /\ obj' = [obj EXCEPT ![t].addr = ctx[k], ![ctx[k]].tcp = t]
                   /\ shared' = (shared \/ (obj[ctx[k]].tcp # NULL /\ ~early))
  BY <1>5 DEF AssociateComplete, FileOf
<1>8. assoc' \in [Conns -> Addresses \cup {NULL}] /\ shared' \in BOOLEAN
  <2>1. assoc' \in [Conns -> Addresses \cup {NULL}]
    BY <1>1, <1>7 DEF ControlType
  <2>2. CASE shared' = shared
    BY <1>1, <2>1, <2>2 DEF ControlType
  <2>3. CASE shared' # shared
    <3>1. shared' = (shared \/ (obj[ctx[k]].tcp # NULL /\ ~early))
      BY <1>7, <2>3
    <3>. QED
      BY <2>1, <3>1
  <2>. QED
    BY <2>2, <2>3
<1>9. ctx[k] # NULL /\ t # NULL => ctx[k] # t
  BY <1>1, <1>2, <1>6 DEF Apart
<1>10. \A p \in Objs : obj'[p].file = obj[p].file /\ obj'[p].irp = obj[p].irp
  BY <1>1, <1>7 DEF ObjectType, Fields
<1>11. at[k] = "associating" /\ at' = [at EXCEPT ![k] = "open"]
  BY DEF AssociateComplete, Go
<1>12. ~early' /\ ~shared' => ~early /\ ~shared /\ KindInv /\ FileInv /\ LinkInv
  BY <1>1, <1>7 DEF AssociateComplete, ObjectInv
<1>13. Used' = Used /\ \A p \in Objs : FileOf(p)' = FileOf(p)
  BY <1>10 DEF AssociateComplete, Used, FileOf
<1>14. UNCHANGED <<free, OnTcp, OnPend, InHand>>
  BY DEF AssociateComplete, OnTcp, OnPend, InHand, lists, thread, past
<1>15. ControlType'
  BY <1>1, <1>3, <1>8, <1>11 DEF AssociateComplete, ControlType, Places, thread
<1>16. ObjectType'
  <2>1. CASE ctx[k] = NULL \/ t = NULL
    BY <1>1, <1>7, <2>1 DEF ObjectType
  <2>2. CASE ctx[k] # NULL /\ t # NULL
    <3>1. ctx[k] \in Objs /\ t \in Objs
      BY <1>2, <1>6, <2>2
    <3>2. obj' = obj \/ obj' = [obj EXCEPT ![t].addr = ctx[k], ![ctx[k]].tcp = t]
      BY <1>7, <2>2
    <3>. QED
      BY <1>1, <3>1, <3>2 DEF ObjectType, Fields
  <2>. QED
    BY <2>1, <2>2
<1>17. ListType'
  BY <1>1, <1>2, <1>4, <1>5, <1>6, <1>7, <1>8, <1>9, <1>11
     DEF AssociateComplete, ListType, thread
<1>18. HandInv'
  BY <1>1, <1>2, <1>3, <1>4, <1>11, <1>13
     DEF AssociateComplete, HandInv, ControlType, thread
<1>19. ASSUME ~crossed' PROVE Once'
  BY <1>1, <1>4, <1>8, <1>9, <1>10, <1>11 DEF AssociateComplete, Once
<1>20. ASSUME ~crossed' PROVE Apart'
  BY <1>1, <1>3, <1>4, <1>6, <1>9, <1>12, <1>13, <1>14, TypeFacts DEF Apart
<1>21. ASSUME ~crossed' PROVE WaitInv'
  BY <1>1, <1>10, <1>11, <1>14, TypeFacts
     DEF AssociateComplete, Waiting, WaitInv, thread
<1>22. ASSUME ~crossed', ~early', ~shared' PROVE KindInv'
  <2>1. KindInv
    BY <1>22, <1>12
  <2>2. \A g \in Files : ctx'[g] # NULL => g # k /\ ctx'[g] = ctx[g] /\ at'[g] = at[g]
    BY <1>1, <1>3, <1>11 DEF ControlType
  <2>3. ctx[k] # NULL => FileOf(ctx[k]) \in Addresses /\ ctx[k] \in Objs
    BY <1>11, <1>2, <2>1 DEF KindInv
  <2>4. \A g \in Files : ctx[g] # NULL => ctx[g] \in Objs
    BY TypeFacts, <1>1
  <2>. QED
    BY <1>1, <1>4, <1>13, <1>14, <2>1, <2>2, <2>3, TypeFacts DEF KindInv
<1>23. ASSUME ~crossed', ~early', ~shared' PROVE FileInv'
  <2>1. FileInv
    BY <1>23, <1>12
  <2>2. \A g \in Files : g # k => ctx'[g] = ctx[g] /\ at'[g] = at[g]
    BY <1>1, <1>3, <1>11 DEF ControlType
  <2>3. at'[k] = "open"
    BY <1>1, <1>2, <1>11 DEF ControlType
  <2>4. \A p \in Used : p \in Objs
    BY DEF Used
  <2>. QED
    BY <1>13, <2>1, <2>2, <2>3, <2>4 DEF FileInv
<1>24. ASSUME ~crossed', ~early', ~shared' PROVE LinkInv'
  <2>1. KindInv /\ FileInv /\ LinkInv /\ ~early /\ ~shared
    BY <1>24, <1>12
  <2>2. \A p \in Used : p \in Objs /\ FileOf(p) \in Files
                        /\ (at'[FileOf(p)] = "opening" =>
                              at[FileOf(p)] = "opening" /\ FileOf(p) # k)
    BY <1>1, <1>11, <2>1 DEF Used, FileInv, ControlType
  <2>3. CASE UNCHANGED <<assoc, obj, shared>>
    BY <1>13, <2>1, <2>2, <2>3 DEF LinkInv, FileOf
  <2>4. ASSUME NEW f \in Addresses, assoc[k] = NULL, assoc' = [assoc EXCEPT ![k] = f],
               ctx[k] # NULL => FileOf(ctx[k]) = f
        PROVE  /\ \A p \in Used : obj[p].addr # NULL =>
                    FileOf(p) # k /\ assoc'[FileOf(p)] = assoc[FileOf(p)]
               /\ assoc'[k] = f
    BY <1>1, <2>1, <2>2, <2>4, TypeFacts DEF LinkInv, ControlType
  <2>5. ASSUME NEW f \in Addresses, assoc[k] = NULL, assoc' = [assoc EXCEPT ![k] = f],
               ctx[k] # NULL => FileOf(ctx[k]) = f, UNCHANGED <<obj, shared>>
        PROVE  LinkInv'
    BY <1>13, <2>1, <2>2, <2>4, <2>5 DEF LinkInv, FileOf
  <2>6. ASSUME NEW f \in Addresses, assoc[k] = NULL, assoc' = [assoc EXCEPT ![k] = f],
               ctx[k] # NULL, FileOf(ctx[k]) = f, t # NULL,
               obj' = [obj EXCEPT ![t].addr = ctx[k], ![ctx[k]].tcp = t],
               shared' = (shared \/ (obj[ctx[k]].tcp # NULL /\ ~early))
        PROVE  LinkInv'
    <3>0. /\ \A p \in Used : obj[p].addr # NULL =>
               FileOf(p) # k /\ assoc'[FileOf(p)] = assoc[FileOf(p)]
          /\ assoc'[k] = f
      BY <2>4, <2>6
    <3>1. PICK o \in Objs : o = ctx[k] /\ o # t /\ o \in Used /\ t \in Objs /\ t \in Used
                            /\ FileOf(t) = k
      BY <1>1, <1>2, <1>6, <1>9, <2>6 DEF Apart, Used
    <3>2. obj[o].tcp = NULL /\ obj[t].addr = NULL
      BY <1>24, <2>1, <2>4, <2>6, <3>1
    <3>3. \A p \in Objs : /\ obj'[p].addr = IF p = t THEN o ELSE obj[p].addr
                          /\ obj'[p].tcp = IF p = o THEN t ELSE obj[p].tcp
      BY <1>1, <2>6, <3>1 DEF ObjectType, Fields
    <3>4. at[f] # "opening"
      BY <1>1, <1>2, <2>1, <2>6, <3>1 DEF FileInv, Once
    <3>5. ASSUME NEW p \in Used, obj'[p].addr # NULL
          PROVE  /\ obj'[p].addr \in Used /\ obj'[obj'[p].addr].tcp = p
                 /\ FileOf(p) \in Conns /\ FileOf(obj'[p].addr) \in Addresses
                 /\ assoc'[FileOf(p)] = FileOf(obj'[p].addr)
      <4>1. CASE p = t
        <5>1. obj'[p].addr = o /\ obj'[o].tcp = p
          BY <3>1, <3>3, <4>1
        <5>2. FileOf(o) = f
          BY <2>6, <3>1
        <5>. QED
          BY <3>0, <3>1, <4>1, <5>1, <5>2
      <4>2. CASE p # t
        <5>1. obj'[p].addr = obj[p].addr /\ obj[p].addr # NULL /\ p \in Objs
          BY <2>2, <3>3, <3>5, <4>2
        <5>2. /\ obj[p].addr \in Used /\ obj[obj[p].addr].tcp = p
              /\ FileOf(p) \in Conns /\ FileOf(obj[p].addr) \in Addresses
              /\ assoc[FileOf(p)] = FileOf(obj[p].addr)
          BY <2>1, <5>1 DEF LinkInv
        <5>3. obj[p].addr \in Objs /\ obj[p].addr # o
          BY <1>1, <2>2, <3>2, <5>1, <5>2, TypeFacts
        <5>. QED
          BY <3>0, <3>3, <5>1, <5>2, <5>3
      <4>. QED
        BY <4>1, <4>2
    <3>6. ASSUME NEW p \in Used, obj'[p].tcp # NULL
          PROVE  obj'[p].tcp \in Used /\ obj'[obj'[p].tcp].addr = p
      <4>1. CASE p = o
        BY <3>1, <3>3, <4>1
      <4>2. CASE p # o
        BY <2>1, <2>2, <3>2, <3>3, <3>6, <4>2 DEF LinkInv
      <4>. QED
        BY <4>1, <4>2
    <3>7. \A p \in Used : at'[FileOf(p)] = "opening" =>
                            obj'[p].addr = NULL /\ obj'[p].tcp = NULL
      <4>1. FileOf(o) = f /\ FileOf(t) = k
        BY <2>6, <3>1
      <4>2. \A p \in Used : at'[FileOf(p)] = "opening" => p # o /\ p # t
        BY <2>2, <3>4, <4>1
      <4>. QED
        BY <2>1, <2>2, <3>3, <4>2 DEF LinkInv
    <3>8. \A p \in Objs : obj'[p].file = FileOf(p)
      BY <1>10 DEF FileOf
    <3>. QED
      BY <1>13, <2>2, <3>5, <3>6, <3>7 DEF LinkInv
  <2>. QED
    BY <1>7, <2>3, <2>5, <2>6
<1>. QED
  BY <1>15, <1>16, <1>17, <1>18, <1>19, <1>20, <1>21, <1>22, <1>23, <1>24
     DEF IndInv, TypeInv, PlaceInv, ObjectInv

-----------------------------------------------------------------------------
(* The invariant *)

\* The invariant holds of a table without objects.
LEMMA InitInv == Init => IndInv
<1> SUFFICES ASSUME Init PROVE IndInv
  OBVIOUS
<1>1. OnOpen = {} /\ OnTcp = {} /\ OnPend = {}
  <2>1. ToSet(<<>>) = {}
    BY DEF ToSet
  <2>. QED
    BY <2>1 DEF Init, OnOpen, OnTcp, OnPend
<1>2. Held = {} /\ InHand = {} /\ Used = {} /\ Waiting = {}
  BY <1>1 DEF Init, Held, InHand, Used, Waiting
<1>3. TypeInv
  <2>1. ControlType
    BY DEF Init, ControlType, Places
  <2>2. ObjectType
    BY DEF Init, ObjectType, Fields, Null, New
  <2>3. ListType
    BY DEF Init, ListType
  <2>. QED
    BY <2>1, <2>2, <2>3 DEF TypeInv
<1>4. HandInv
  BY ConstantsAssumption DEF Init, HandInv, Files
<1>5. Once
  BY DEF Init, Once, IsInjective
<1>6. Apart
  BY <1>1, <1>2 DEF Init, Apart
<1>7. WaitInv
  BY <1>2 DEF WaitInv
<1>8. KindInv
  BY <1>1, <1>2 DEF Init, KindInv
<1>9. FileInv /\ LinkInv
  BY <1>2 DEF FileInv, LinkInv
<1>. QED
  BY <1>3, <1>4, <1>5, <1>6, <1>7, <1>8, <1>9 DEF IndInv, PlaceInv, ObjectInv

\* Every step of an address, of a file of the IP device, ...
LEMMA AddressKeeps ==
    ASSUME IndInv, ~crossed, NEW f \in Addresses, Address(f)
    PROVE  IndInv'
<1>1. f \in Addresses \cup Conns
  OBVIOUS
<1>2. CASE Complete(f)
  BY <1>1, <1>2, OpenFailsKeeps, PassiveCompleteKeeps, DispatchCompleteKeeps
     DEF Complete
<1>3. CASE TDIH_TdiOpenAddress(f) \/ TDIH_TdiSetEvent(f)
  BY <1>3, TDIH_TdiOpenAddressKeeps, TDIH_TdiSetEventKeeps
<1>4. CASE TDIH_TdiCloseAddress(f) \/ CloseOpen(f) \/ ClosePending(f)
  BY <1>4, TDIH_TdiCloseAddressKeeps, CloseOpenKeeps, ClosePendingKeeps
<1>. QED
  BY <1>2, <1>3, <1>4 DEF Address

\* ... of a connection, ...
LEMMA ConnectionKeeps ==
    ASSUME IndInv, ~crossed, NEW k \in Conns, Connection(k)
    PROVE  IndInv'
<1>1. k \in Addresses \cup Conns
  OBVIOUS
<1>2. CASE Complete(k)
  BY <1>1, <1>2, OpenFailsKeeps, PassiveCompleteKeeps, DispatchCompleteKeeps
     DEF Complete
<1>3. CASE TDIH_TdiOpenConnection(k) \/ OpenConnectionComplete(k)
  BY <1>3, TDIH_TdiOpenConnectionKeeps, OpenConnectionCompleteKeeps
<1>4. CASE TDIH_TdiCloseConnection(k)
  BY <1>4, TDIH_TdiCloseConnectionKeeps
<1>5. CASE AssociateComplete(k) \/ TDIH_TdiDisAssociateAddress(k)
  BY <1>5, AssociateCompleteKeeps, TDIH_TdiDisAssociateAddressKeeps
<1>6. CASE \E f \in Addresses : TDIH_TdiAssociateAddress(k, f)
  BY <1>6, TDIH_TdiAssociateAddressKeeps
<1>. QED
  BY <1>2, <1>3, <1>4, <1>5, <1>6 DEF Connection

\* ... and of addrThread keeps the invariant.
LEMMA AddrThreadKeeps ==
    ASSUME IndInv, ~crossed, AddrThread
    PROVE  IndInv'
  BY AddrWaitKeeps, AddrScanKeeps, AddrAnswerKeeps, AddrPlaceKeeps
     DEF AddrThread

\* A step without effect keeps it.
LEMMA StutterKeeps ==
    ASSUME IndInv, UNCHANGED vars
    PROVE  IndInv'
<1> USE DEF vars, lists, thread, past
<1>1. TypeInv' /\ HandInv'
  BY DEF IndInv, TypeInv, ControlType, ObjectType, ListType, HandInv
<1>2. UNCHANGED <<OnOpen, OnTcp, OnPend, Held, InHand, Used, Waiting>>
  BY DEF OnOpen, OnTcp, OnPend, Held, InHand, Used, Waiting
<1>3. \A o : FileOf(o)' = FileOf(o)
  BY DEF FileOf
<1>4. PlaceInv => PlaceInv'
  BY <1>2 DEF PlaceInv, Once, Apart, WaitInv
<1>5. KindInv => KindInv'
  BY <1>2, <1>3 DEF KindInv
<1>6. FileInv => FileInv'
  BY <1>2, <1>3 DEF FileInv
<1>7. LinkInv => LinkInv'
  BY <1>2, <1>3 DEF LinkInv
<1>. QED
  BY <1>1, <1>4, <1>5, <1>6, <1>7 DEF IndInv, ObjectInv

\* Every step keeps the invariant.
LEMMA StepInv == IndInv /\ [Next]_vars => IndInv'
<1>1. CASE UNCHANGED vars
  BY <1>1, StutterKeeps
<1>2. ASSUME IndInv, ~crossed, NEW f \in Addresses, Address(f)
      PROVE  IndInv'
  BY <1>2, AddressKeeps
<1>3. ASSUME IndInv, ~crossed, NEW f \in IpFiles, TDIH_IpDispatch(f) \/ CloseIpFile(f)
      PROVE  IndInv'
  BY <1>3, TDIH_IpDispatchKeeps, CloseIpFileKeeps
<1>4. ASSUME IndInv, ~crossed, NEW k \in Conns, Connection(k)
      PROVE  IndInv'
  BY <1>4, ConnectionKeeps
<1>5. ASSUME IndInv, ~crossed, NEW f \in Addresses \cup Conns,
             Start(f) \/ Nothing(f) \/ Take(f)
      PROVE  IndInv'
  BY <1>5, StartKeeps, NothingKeeps, TakeKeeps
<1>6. CASE ~crossed /\ AddrThread
  BY <1>6, AddrThreadKeeps
<1>. QED
  BY <1>1, <1>2, <1>3, <1>4, <1>5, <1>6 DEF Next, Broken

\* In every state the objects, the IRPs and the lists agree.
THEOREM Invariance == Spec => []IndInv
  BY InitInv, StepInv, PTL DEF Spec

-----------------------------------------------------------------------------
(* What follows from it *)

\* A set without two elements has one or none.
LEMMA OneOrNone ==
    ASSUME NEW T, \A i, j \in T : i = j
    PROVE  Cardinality(T) = IF T = {} THEN 0 ELSE 1
<1>1. CASE T = {}
  BY <1>1, FS_EmptySet
<1>2. CASE T # {}
  <2>1. PICK i : T = {i}
    BY <1>2
  <2>. QED
    BY <1>2, <2>1, FS_Singleton
<1>. QED
  BY <1>1, <1>2

\* How often an object is on a list ...
LEMMA TimesListed ==
    ASSUME NEW s \in Seq(Objs), IsInjective(s), NEW o
    PROVE  Cardinality({i \in DOMAIN s : s[i] = o}) = IF o \in ToSet(s) THEN 1 ELSE 0
<1>1. \A i, j \in {i \in DOMAIN s : s[i] = o} : i = j
  BY DEF IsInjective
<1>2. {i \in DOMAIN s : s[i] = o} = {} <=> o \notin ToSet(s)
  BY DEF ToSet
<1>. QED
  BY <1>1, <1>2, OneOrNone

\* ... and how many IRPs have it in hand.
LEMMA TimesHeld ==
    ASSUME TypeInv, Once, NEW o \in Objs
    PROVE  Cardinality({f \in Files : ctx[f] = o}) = IF o \in Held THEN 1 ELSE 0
<1>1. o # NULL
  BY ConstantsAssumption
<1>2. \A f, g \in {f \in Files : ctx[f] = o} : f = g
  BY <1>1 DEF Once
<1>3. {f \in Files : ctx[f] = o} = {} <=> o \notin Held
  BY <1>1 DEF Held
<1>. QED
  BY <1>2, <1>3, OneOrNone

\* Every object is in one place (ObjectsAccounted), whatever the order of
\* completions, closes and addrThread.
THEOREM ObjectsAlwaysAccounted == Spec => []ObjectsAccounted
<1>1. IndInv => ObjectsAccounted
  <2>1. SUFFICES ASSUME IndInv PROVE ObjectsAccounted
    OBVIOUS
  <2>2. TypeOK
    <3>1. TypeInv /\ HandInv
      BY <2>1 DEF IndInv
    <3>2. ToSet(openList) \cup ToSet(tcpList) \cup ToSet(pendList) \subseteq Objs
      BY <3>1, TypeFacts DEF OnOpen, OnTcp, OnPend
    <3>3. {early, shared, crossed} \subseteq BOOLEAN
      BY <3>1 DEF TypeInv, ControlType
    <3>. QED
      BY <3>1, <3>2
         DEF TypeOK, TypeInv, ControlType, ObjectType, ListType, Fields,
             HandInv
  <2>3. ASSUME ~crossed, NEW o \in Objs
        PROVE  Cardinality({i \in DOMAIN openList : openList[i] = o})
               + Cardinality({i \in DOMAIN tcpList : tcpList[i] = o})
               + Cardinality({i \in DOMAIN pendList : pendList[i] = o})
               + Cardinality({f \in Files : ctx[f] = o})
               + (IF hand = o THEN 1 ELSE 0) + (IF o \in free THEN 1 ELSE 0) = 1
    <3>1. TypeInv /\ ListType /\ Once /\ Apart
      BY <2>1, <2>3 DEF IndInv, TypeInv, PlaceInv
    <3>2. /\ Cardinality({i \in DOMAIN openList : openList[i] = o})
               = IF o \in OnOpen THEN 1 ELSE 0
          /\ Cardinality({i \in DOMAIN tcpList : tcpList[i] = o})
               = IF o \in OnTcp THEN 1 ELSE 0
          /\ Cardinality({i \in DOMAIN pendList : pendList[i] = o})
               = IF o \in OnPend THEN 1 ELSE 0
      BY <3>1, TimesListed DEF ListType, Once, OnOpen, OnTcp, OnPend
    <3>3. Cardinality({f \in Files : ctx[f] = o}) = IF o \in Held THEN 1 ELSE 0
      BY <3>1, TimesHeld
    <3>4. hand = o <=> o \in InHand
      BY ConstantsAssumption DEF InHand
    <3>5. (IF o \in OnOpen THEN 1 ELSE 0) + (IF o \in OnTcp THEN 1 ELSE 0)
          + (IF o \in OnPend THEN 1 ELSE 0) + (IF o \in Held THEN 1 ELSE 0)
          + (IF o \in InHand THEN 1 ELSE 0) + (IF o \in free THEN 1 ELSE 0) = 1
      BY <3>1 DEF Apart
    <3>. QED
      BY <3>2, <3>3, <3>4, <3>5
  <2>. QED
    BY <2>2, <2>3 DEF ObjectsAccounted
<1>. QED
  BY <1>1, Invariance, PTL

\* An object is there as long as its file is open and no longer
\* (ClosedForgotten).
THEOREM ClosedAlwaysForgotten == Spec => []ClosedForgotten
<1>1. IndInv => ClosedForgotten
  BY DEF IndInv, ObjectInv, FileInv, ClosedForgotten, FileOf, Used
<1>. QED
  BY <1>1, Invariance, PTL

\* A connection and its address name each other, and no object that was given
\* back (LinksMutual).
THEOREM LinksAlwaysMutual == Spec => []LinksMutual
<1>1. IndInv => LinksMutual
  BY DEF IndInv, ObjectInv, LinkInv, LinksMutual, Used
<1>. QED
  BY <1>1, Invariance, PTL
=============================================================================
