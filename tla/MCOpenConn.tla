----------------------------- MODULE MCOpenConn -----------------------------
(***************************************************************************)
(* Small instances of OpenConn for TLC.                                    *)
(***************************************************************************)
EXTENDS OpenConn

CONSTANTS a1, i1, k1, o1, o2, o3

OneAddress   == {a1}
OneIpFile    == {i1}
OneConn      == {k1}
ThreeObjects == {o1, o2, o3}
=============================================================================
