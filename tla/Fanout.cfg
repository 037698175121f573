SPECIFICATION FairSpec
CONSTANTS
    Clients = {1, 2, 3}
    Keys = {"p:a", "b"}
    NoKey = NoKey
    Channels = {"news"}
    ShardChannels = {"shard"}
    Patterns = {"n*"}
    Matches <- MCMatches
    Prefixed = {"p:a"}
    Modes <- MCModes
    WriteSets <- MCWriteSets
    Workloads <- MCWorkloads
    Protocol <- MCProtocol
    HardLimit = 1
INVARIANTS Coherent NoGap RegistriesExact MonitorHears
PROPERTIES LossCloses
CHECK_DEADLOCK FALSE
