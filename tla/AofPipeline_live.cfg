SPECIFICATION FairSpec
CONSTANTS
    QueueCap = 1
    TxUnits <- MCTxUnits
    DbOf <- MCDbOf
    Policies = {"always", "everysec", "no"}
    MaxUnits = 3
    MaxSeq = 3
    MaxRestarts = 0
    MaxFaults = 1

INVARIANTS RightDb
PROPERTIES LockReleased
CHECK_DEADLOCK FALSE
