CONSTANTS
    p1 = p1
    p2 = p2
    Partitions = {p1, p2}
    NoPartition = NoPartition
    MaxOffset = 2
    ChanCap = 1
    MaxCommitErrors = 1
SYMMETRY Symmetry
CONSTRAINT HandledBound
SPECIFICATION Spec
INVARIANTS
    TypeOK
    CommitCoversHandled
    StrandedOnlyIfSkipped
    IdleMeansCommitted
    PendingGaugeExact
PROPERTY
    ImplementsInOrderCommit
