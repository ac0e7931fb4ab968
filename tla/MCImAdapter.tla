---------------------------- MODULE MCImAdapter ----------------------------
(***************************************************************************)
(* ImAdapter for TLC: with a set of adapters it has finitely many states.  *)
(***************************************************************************)
EXTENDS ImAdapter
=============================================================================
