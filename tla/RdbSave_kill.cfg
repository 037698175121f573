SPECIFICATION Spec
CONSTANTS
    NumDbs = 2
    Tasks = {s1, s2}
    Kinds = {"bgsave"}
    MaxWrites = 2
    Commands = {{0}, {0, 1}}
    MaxCrashes = 1
    MaxFaults = 0
INVARIANTS RestartKeepsSaved
CHECK_DEADLOCK FALSE
