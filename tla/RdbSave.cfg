SPECIFICATION Spec
CONSTANTS
    NumDbs = 2
    Tasks = {s1, s2}
    Kinds = {"save", "bgsave", "queued"}
    MaxWrites = 2
    Commands = {{0}, {1}, {0, 1}}
    MaxCrashes = 1
    MaxFaults = 1
INVARIANTS AckedSaveOnDisk FlagOwned
PROPERTIES NeverLoadsMixture
CHECK_DEADLOCK FALSE
