CONSTANTS
    p1 = p1
    p2 = p2
    k1 = k1
    k2 = k2
    Partitions = {p1}
    NoPartition = NoPartition
    MaxOffset = 2
    MaxCommitErrors = 0
    Keys = {k1}
    Invalid = Invalid
    ConcurrentJobs = 2
    NoMsg = NoMsg
    MaxStoreErrors = 1
    MaxExpiries = 1
    MaxRestarts = 1
SYMMETRY Symmetry
SPECIFICATION Spec
INVARIANTS
    MessageInOnePlace
    AtMostOneCrawlPerKeyLife
    CommittedWorkIsDone
PROPERTY
    UsesCoordinator
CHECK_DEADLOCK FALSE
