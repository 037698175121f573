----------------------------- MODULE DurableLog -----------------------------
(***************************************************************************)
(* What persistence promises of a single node, independent of files and    *)
(* fsync policies: writes are applied in order, some of them are promised  *)
(* to be durable, and a restart comes back with a prefix of what had been  *)
(* applied that holds at least every promised write.                       *)
(* (docs/operations.md, section 4, the durability contract.)               *)
(***************************************************************************)
EXTENDS Integers

VARIABLES
    applied,   \* the writes applied to memory, numbered in the order they ran
    promised,  \* the writes the server has promised to keep
    running    \* the server answers clients

dvars == <<applied, promised, running>>

DInit == applied = {} /\ promised = {} /\ running = FALSE

\* A client's write runs after every earlier one.
DWrite ==
    /\ running
    /\ \E u \in applied' : /\ \A v \in applied : v < u
                           /\ applied' = applied \cup {u}
    /\ UNCHANGED <<promised, running>>

\* An acknowledgement or a completed fsync promises applied writes.
DPromise ==
    /\ running
    /\ promised \subseteq promised'
    /\ promised' \subseteq applied
    /\ UNCHANGED <<applied, running>>

\* The server stops, in order or not; an orderly stop may promise.
DStop ==
    /\ running /\ running' = FALSE
    /\ promised \subseteq promised'
    /\ promised' \subseteq applied
    /\ UNCHANGED applied

\* Recovery keeps a prefix of the applied writes with all promised ones.
DRestart ==
    /\ ~running /\ running' = TRUE
    /\ \E k \in {0} \cup applied : applied' = {u \in applied : u <= k}
    /\ promised \subseteq applied'
    /\ UNCHANGED promised

DNext == DWrite \/ DPromise \/ DStop \/ DRestart

DSpec == DInit /\ [][DNext]_dvars
=============================================================================
