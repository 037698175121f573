--------------------------- MODULE MCAofEffects ---------------------------
(* One key in two databases.  The commands cover every branch of the capture: *)
(* conditions that fail, deadlines that are already past, popped members,     *)
(* generated IDs and commands that are logged as they came.                   *)
EXTENDS AofEffects

MCDbs == {0, 1}
MCKeys == {"k"}

C(op) == Cmd(op, 0, "k")

MCSets ==
    {[C("SET") EXCEPT !.val = 2, !.exp = "relative", !.ms = 1],
     [C("SET") EXCEPT !.val = 2, !.cond = "NX", !.get = TRUE],
     [C("SET") EXCEPT !.val = 1, !.cond = "XX", !.exp = "keepttl"],
     [C("SET") EXCEPT !.val = 1, !.cond = "XX", !.get = TRUE, !.exp = "absolute", !.ms = 1],
     [C("SETEX") EXCEPT !.val = 1, !.exp = "relative", !.ms = 2],
     [C("SETNX") EXCEPT !.val = 2]}

MCExpiries ==
    {[C("GETEX") EXCEPT !.exp = "relative", !.ms = 1],
     [C("GETEX") EXCEPT !.exp = "persist"],
     [C("EXPIRE") EXCEPT !.exp = "relative", !.ms = 1],
     [C("EXPIRE") EXCEPT !.exp = "absolute", !.ms = 1],
     [C("EXPIRE") EXCEPT !.exp = "absolute", !.ms = 3, !.cond = "GT"],
     C("PERSIST")}

MCData ==
    {C("INCR"), C("DEL"), C("GETDEL"),
     [C("SADD") EXCEPT !.mem = {1, 2}],
     [C("SREM") EXCEPT !.mem = {1}],
     [C("SPOP") EXCEPT !.mem = {1}],
     [C("SPOP") EXCEPT !.mem = {1, 2}],
     C("XADD"),
     [C("XADD") EXCEPT !.val = 20]}

MCCommands == MCSets \cup MCExpiries \cup MCData

\* What sets a key with a deadline, or ends it, and what is run over it.
MCQueues ==
    {<<[C("SET") EXCEPT !.val = 2, !.exp = "relative", !.ms = 1], C("INCR")>>,
     <<C("INCR"), [C("EXPIRE") EXCEPT !.exp = "relative", !.ms = 1]>>,
     <<[C("SADD") EXCEPT !.mem = {1, 2}], [C("SPOP") EXCEPT !.mem = {1}]>>,
     <<[C("SET") EXCEPT !.val = 2, !.cond = "NX", !.get = TRUE], [C("SADD") EXCEPT !.mem = {1, 2}]>>,
     <<C("DEL"), C("XADD")>>}
=============================================================================
