----------------------------- MODULE MCShmRing -----------------------------
(***************************************************************************)
(* TLC instances of ShmRing.                                               *)
(***************************************************************************)
EXTENDS ShmRing
=============================================================================
