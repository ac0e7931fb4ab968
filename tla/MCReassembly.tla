---------------------------- MODULE MCReassembly ----------------------------
(***************************************************************************)
(* Small instances of Reassembly for TLC: a buffer of 96 bytes, datagrams  *)
(* of three fragments and of two.                                          *)
(***************************************************************************)
EXTENDS Reassembly

CONSTANTS f1, f2, f3, b1, b2, c1, c2

K1 == [id |-> 1, src |-> 1]
K2 == [id |-> 1, src |-> 2]     \* another sender, the same ID

Fragment(k, o, d, m, t) ==
    [key |-> k, off |-> o, data |-> d, more |-> m, options |-> FALSE, ttl |-> t]

Head1    == Fragment(K1, 0, 24, TRUE, 0)
Mid1     == Fragment(K1, 3, 24, TRUE, 0)
Tail1    == Fragment(K1, 6, 8, FALSE, 0)
Head2    == Fragment(K2, 0, 24, TRUE, 1)
Tail2    == Fragment(K2, 3, 24, FALSE, 0)
GapTail  == Fragment(K1, 5, 8, FALSE, 0)    \* two units behind Head1 are missing
TooLong  == Fragment(K1, 10, 8, TRUE, 1)
Options  == [Mid1 EXCEPT !.options = TRUE]
TooLong2 == Fragment(K2, 10, 8, TRUE, 0)
Options2 == [Tail2 EXCEPT !.options = TRUE]
ShortDatagram == {Head2, Tail2, TooLong2, Options2}
AllSorts      == {Head1, Mid1, Tail1, GapTail, Head2, TooLong, Options}

\* The answers that README.md:42 of the repository names.
YesOrNo == {"SUCCESS", "UNSUCCESSFUL"}

OneClient     == {c1}
TwoClients    == {c1, c2}
TwoBuffers    == {b1, b2}
TwoRequests   == {f1, f2}
ThreeRequests == {f1, f2, f3}

Symmetry ==
    Permutations(Requests) \cup Permutations(Buffers) \cup Permutations(Clients)
=============================================================================
