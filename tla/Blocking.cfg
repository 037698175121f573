SPECIFICATION Spec
CONSTANTS
    Clients = {c1, c2}
    a = a
    b = b
    Keys = {a, b}
    Commands <- MCCommands
    Other <- MCOther
    PushSizes = {2}
    MaxValues = 3
    MaxSwaps = 1
    AofEnabled = TRUE
INVARIANTS RegistryExact NothingLost
PROPERTIES NoStrandedWaiter TimedAnswered
CHECK_DEADLOCK FALSE
