------------------------------ MODULE MCFanout ------------------------------
(***************************************************************************)
(* TLC instance of Fanout.  Connection 1 tracks keys and reads, connection  *)
(* 2 is the one it may redirect to, which also subscribes and monitors,     *)
(* and connection 3 writes and publishes.                                   *)
(***************************************************************************)
EXTENDS Fanout

MCMatches == [p \in Patterns |-> Channels]

Direct == [redirect |-> 0, bcast |-> FALSE, prefix |-> FALSE, noLoop |-> FALSE, opt |-> "none"]

MCModes == {[Direct EXCEPT !.noLoop = TRUE],
            [Direct EXCEPT !.redirect = 2],
            [Direct EXCEPT !.redirect = 2, !.bcast = TRUE, !.prefix = TRUE],
            [Direct EXCEPT !.opt = "in"]}

MCWriteSets == {{"p:a"}, {"p:a", "b"}}

Client(ops, left) == [ops |-> ops, left |-> left]

\* Caching with a redirection that ends, subscriptions, MONITOR, and a queue that is shared by
\* invalidations and messages.
MCWorkloads ==
    {<<Client({"tracking", "read", "fastread", "write"}, 3), Client({"reset", "hangup"}, 1), Client({"write"}, 2)>>,
     <<Client({"publish"}, 1), Client({"subscribe", "reset", "hangup"}, 2), Client({"publish"}, 2)>>,
     <<Client({"publish"}, 1), Client({"monitor", "reset"}, 2), Client({"publish", "hangup"}, 1)>>,
     <<Client({"tracking", "read"}, 2), Client({"subscribe"}, 1), Client({"write", "publish"}, 2)>>}

MCProtocol == <<3, 2, 2>>
=============================================================================
