---------------------------- MODULE MCImPackets ----------------------------
(***************************************************************************)
(* Small instances of ImPackets for TLC.                                   *)
(***************************************************************************)
EXTENDS ImPackets
=============================================================================
