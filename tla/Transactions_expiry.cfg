SPECIFICATION Spec
CONSTANTS
    Clients = {c1, c2}
    Dbs = {0, 1}
    Keys = {"k"}
    Commands <- MCFewCommands
    Queued <- MCQueued
    MaxTxQueueSize = 1
    MaxOps = 3
    MaxClock = 2
SYMMETRY Symmetry
INVARIANTS ExpiryAborts
CHECK_DEADLOCK FALSE
