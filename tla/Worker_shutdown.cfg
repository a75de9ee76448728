CONSTANTS
    p1 = p1
    p2 = p2
    k1 = k1
    k2 = k2
    Partitions = {p1}
    NoPartition = NoPartition
    MaxOffset = 2
    MaxCommitErrors = 0
    Keys = {k1, k2}
    Invalid = Invalid
    ConcurrentJobs = 1
    NoMsg = NoMsg
    MaxStoreErrors = 0
    MaxExpiries = 0
    MaxRestarts = 0
SPECIFICATION FairSpec
PROPERTY
    ShutdownCompletes
CHECK_DEADLOCK FALSE
