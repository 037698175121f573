----------------------------- MODULE MCBlocking -----------------------------
(* Instances of Blocking for TLC. *)
EXTENDS Blocking

CONSTANTS a, b

Cmd(op, keys, count, timed) == [op |-> op, keys |-> keys, count |-> count, timed |-> timed]

\* A pop of two keys, a move from one to the other, and a pop of several values
\* with a timeout, in the other order of keys.
MCCommands ==
    {Cmd("BLPOP", <<a, b>>, 1, FALSE), Cmd("BLMOVE", <<a, b>>, 1, FALSE),
     Cmd("BLMPOP", <<b, a>>, 2, TRUE)}

\* After SWAPDB there is a value to pop, and a string under the other key.
MCOther == [lists |-> [k \in {a, b} |-> IF k = a THEN <<1>> ELSE <<>>], strings |-> {b}]
=============================================================================
