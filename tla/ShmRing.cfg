SPECIFICATION FairSpec
CONSTANTS
    Cap = 2
    IndexSpace = 4
    Total = 5
    SockCap = 1
INVARIANTS TypeOK IndexOrder NeverCorrupt Fifo NoLostDataWakeup NoLostSpaceWakeup EofAfterData
PROPERTIES Delivery EofReached
CHECK_DEADLOCK FALSE
