----------------------------- MODULE MCAnsFltr -----------------------------
(***************************************************************************)
(* A small instance of AnsFltr for TLC: one adapter, whose packets are     *)
(* shown to two clients, one after the other in either order.              *)
(***************************************************************************)
EXTENDS AnsFltr

CONSTANTS a1, c1, c2, t1, p1

OneAdapter == {a1}
TwoClients == {c1, c2}
OneThread  == {t1}
OnePacket  == {p1}
=============================================================================
