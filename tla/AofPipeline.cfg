SPECIFICATION Spec
CONSTANTS
    QueueCap = 1
    TxUnits <- MCTxUnits
    DbOf <- MCDbOf
    Policies = {"always", "everysec", "no"}
    MaxUnits = 2
    MaxSeq = 3
    MaxRestarts = 2
    MaxFaults = 1
INVARIANTS TypeOK LogOrdered NoHoleInLog RefusedOnlyWhenNothingPromised
PROPERTIES Durable
CHECK_DEADLOCK FALSE
