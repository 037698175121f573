SPECIFICATION Spec
CONSTANTS
    Dbs <- MCDbs
    Keys <- MCKeys
    Commands <- MCCommands
    Queues <- MCQueues
    Unlogged = {"swapdb", "evict", "eval", "reset", "password"}
    MaxUnits = 3
    MaxClock = 3
INVARIANTS
    TypeOK
    ReplayMatchesLive
CHECK_DEADLOCK FALSE
