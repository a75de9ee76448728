CONSTANTS
    p1 = p1
    p2 = p2
    k1 = k1
    k2 = k2
    Partitions = {p1}
    NoPartition = NoPartition
    MaxOffset = 2
    MaxCommitErrors = 1
    Keys = {k1, k2}
    Invalid = Invalid
    ConcurrentJobs = 1
    NoMsg = NoMsg
    MaxStoreErrors = 1
    MaxExpiries = 0
    MaxRestarts = 0
SPECIFICATION FairSpec
INVARIANT
    TypeOK
PROPERTY
    EveryMessageCommitted
CHECK_DEADLOCK FALSE
