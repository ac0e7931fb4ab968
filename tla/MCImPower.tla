----------------------------- MODULE MCImPower -----------------------------
(***************************************************************************)
(* ImPower for TLC: it has finitely many states as it stands.              *)
(***************************************************************************)
EXTENDS ImPower
=============================================================================
