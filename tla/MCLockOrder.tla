---------------------------- MODULE MCLockOrder ----------------------------
(***************************************************************************)
(* Small instances of LockOrder for TLC.                                   *)
(***************************************************************************)
EXTENDS LockOrder

CONSTANTS n1, c1

OneReceiver == {n1}
OneClient   == {c1}

\* Every call but the delivery of an assembled datagram to ansfltr.
WithoutDelivery == DOMAIN Path \ {"deliver"}
Everything      == DOMAIN Path
=============================================================================
