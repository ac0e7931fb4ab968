--------------------------- MODULE MCTdiFirewall ---------------------------
(***************************************************************************)
(* Small instances of TdiFirewall for TLC.                                 *)
(***************************************************************************)
EXTENDS TdiFirewall

CONSTANTS i1, i2, r1, r2, c1, c2

OneIrp      == {i1}
TwoIrps     == {i1, i2}
OneRequest  == {r1}
TwoRequests == {r1, r2}
OneClient   == {c1}
TwoClients  == {c1, c2}

\* What a callback may answer, STATUS_PENDING (that is, any status that
\* NT_SUCCESS takes for a success) included.
AnyAnswer == {"SUCCESS", "UNSUCCESSFUL", "PENDING"}

\* The runs stop at a state in which a client has kept a request that its
\* STATUS_PENDING lets pass: from there on two threads may inject it, and
\* nothing is claimed.
NoRivals == ~rivals

Symmetry ==
    Permutations(Irps) \cup Permutations(Requests) \cup Permutations(Clients)
=============================================================================
