----------------------------- MODULE MCRdbSave -----------------------------
(***************************************************************************)
(* TLC instances of RdbSave; the tasks are model values.                   *)
(***************************************************************************)
EXTENDS RdbSave
=============================================================================
