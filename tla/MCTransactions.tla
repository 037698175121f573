--------------------------- MODULE MCTransactions ---------------------------
(***************************************************************************)
(* TLC instances of Transactions.                                          *)
(***************************************************************************)
EXTENDS Transactions, TLC

MCSlot == <<0, "k">>

Cmd(op) == [op |-> op, s |-> MCSlot, to |-> 0, val |-> 0]

\* SET ... GET and LMPOP are left out: the versions miss some of their writes.
MCCommands == {Cmd(op) : op \in {"SET", "SETNX", "DEL", "LPUSH", "EXPIRE", "FLUSHDB"}}
              \cup {[Cmd("SWAPDB") EXCEPT !.to = 1]}

MCQueued == {Cmd("SET")}

MCFewCommands == {Cmd(op) : op \in {"SET", "EXPIRE"}}

MCLists == {Cmd(op) : op \in {"LPUSH", "LMPOP"}}

Symmetry == Permutations(Clients)
=============================================================================
