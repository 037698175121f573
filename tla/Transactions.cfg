SPECIFICATION Spec
CONSTANTS
    Clients = {c1, c2}
    Dbs = {0, 1}
    Keys = {"k"}
    Commands <- MCCommands
    Queued <- MCQueued
    MaxTxQueueSize = 1
    MaxOps = 3
    MaxClock = 2
SYMMETRY Symmetry
INVARIANTS TypeOK RefCountsExact NoStaleExec
CHECK_DEADLOCK FALSE
