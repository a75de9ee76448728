CONSTANTS
    p1 = p1
    p2 = p2
    Partitions = {p1, p2}
    NoPartition = NoPartition
    MaxOffset = 1
    ChanCap = 2
    MaxCommitErrors = 0
SPECIFICATION Spec
INVARIANT
    NeverCommitPastUnfinished
