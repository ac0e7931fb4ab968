--------------------------- MODULE MCWfpFirewall ---------------------------
(***************************************************************************)
(* Small instances of WfpFirewall for TLC.                                 *)
(***************************************************************************)
EXTENDS WfpFirewall

CONSTANTS p1, p2, r1, r2, f1, f2, c1, c2

TwoProcesses == {p1, p2}
TwoRemotes   == {r1, r2}
TwoFlows     == {f1, f2}
TwoClients   == {c1, c2}

AnyAnswer == {"SUCCESS", "PENDING", "UNSUCCESSFUL"}

Symmetry ==
    Permutations(Processes) \cup Permutations(Remotes) \cup Permutations(Flows)
      \cup Permutations(Clients)

\* Bound: connections and loopback packets share no state, and are there one at a
\* time; packets and their clients only while the BFE starts for the first time.
OneAtATime ==
    \/ conns = << >> /\ starts <= 1
    \/ clone = "none" /\ fwList = << >>
=============================================================================
