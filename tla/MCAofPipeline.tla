--------------------------- MODULE MCAofPipeline ---------------------------
(***************************************************************************)
(* TLC instances of AofPipeline: units 2 and 3 are transactions, and       *)
(* unit 3 writes to another database than units 1 and 2.                   *)
(***************************************************************************)
EXTENDS AofPipeline

MCTxUnits == {2, 3} \cap Units
MCDbOf    == [u \in Units |-> IF u = 3 THEN 1 ELSE 0]
=============================================================================
