------------------------- MODULE AssemblerContract -------------------------
(***************************************************************************)
(* What an assembler of datagrams promises to its clients and to the       *)
(* network: a datagram that is shown is whole and stays as it is while     *)
(* anybody holds it, it is handed back as a whole and once, and only one   *)
(* who holds it can let others hold it.  How fragments find their datagram *)
(* is left open.                                                           *)
(***************************************************************************)
EXTENDS Integers

CONSTANTS
    Requests,   \* the memory of received packets
    Wire,       \* the fragments that can arrive
    Clients,
    Assembler,  \* the assembler, as a holder of the datagrams it shows
    NULL

VARIABLES
    packet,     \* the fragment that a request holds, or NULL
    holders,    \* who holds a datagram: nobody, unless it is shown
    back        \* the requests that were handed back to the network

vars == <<packet, holders, back>>

\* A datagram is a set of requests.
Datagrams == SUBSET Requests
Shown     == {D \in Datagrams : holders[D] # {}}
Waiting   == {f \in Requests : packet[f] # NULL} \ UNION Shown

\* The 8-byte units that fragments fill, and the unit behind the end of one.
After(w)  == w.off + (w.data + 7) \div 8
Filled(W) == UNION {w.off..(After(w) - 1) : w \in W}

\* Fragments of one datagram, its last one among them, without a gap.
Whole(W) ==
    /\ \A v, w \in W : v.key = w.key
    /\ \E last \in W : ~last.more /\ 0..(After(last) - 1) \subseteq Filled(W)

Init ==
    /\ packet = [f \in Requests |-> NULL]
    /\ holders = [D \in Datagrams |-> {}]
    /\ back = {}

Receive(f, w) ==
    /\ packet[f] = NULL
    /\ packet' = [packet EXCEPT ![f] = w]
    /\ UNCHANGED <<holders, back>>

\* A datagram is complete: the assembler begins to show it.
Show(D) ==
    /\ D \subseteq Waiting \ back
    /\ Whole({packet[f] : f \in D})
    /\ holders' = [holders EXCEPT ![D] = {Assembler}]
    /\ UNCHANGED <<packet, back>>

\* Holder h shows it to clients, of which some keep it.
Share(D, h, keep) ==
    /\ h \in holders[D]
    /\ holders' = [holders EXCEPT ![D] = @ \cup keep]
    /\ UNCHANGED <<packet, back>>

\* ... and they let it pass.
HandBack(D, h, keep) ==
    /\ h \in holders[D]
    /\ D \cap back = {}
    /\ holders' = [holders EXCEPT ![D] = @ \cup keep]
    /\ back' = back \cup D
    /\ UNCHANGED packet

Free(D) ==
    /\ packet' = [f \in Requests |-> IF f \in D THEN NULL ELSE packet[f]]
    /\ back' = back \ D

\* The last one to hold a datagram frees it.
Release(D, h) ==
    /\ h \in holders[D]
    /\ holders' = [holders EXCEPT ![D] = @ \ {h}]
    /\ IF holders[D] = {h} THEN Free(D) ELSE UNCHANGED <<packet, back>>

\* Fragments that nobody was shown expire.
Expire(D) ==
    /\ D \subseteq Waiting
    /\ Free(D)
    /\ UNCHANGED holders

Next ==
    \/ \E f \in Requests, w \in Wire : Receive(f, w)
    \/ \E D \in Datagrams :
         \/ Show(D) \/ Expire(D)
         \/ \E h \in Clients \cup {Assembler} :
              \/ Release(D, h)
              \/ \E keep \in SUBSET Clients : Share(D, h, keep) \/ HandBack(D, h, keep)

Spec == Init /\ [][Next]_vars
=============================================================================
