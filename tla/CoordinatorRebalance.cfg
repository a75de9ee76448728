CONSTANTS
    p1 = p1
    Partitions = {p1}
    NoPartition = NoPartition
    MaxOffset = 2
    ChanCap = 2
    MaxCommitErrors = 1
    MaxRebalances = 2
SPECIFICATION RSpec
INVARIANTS
    CommitCoversHandled
PROPERTY
    RegressOnlyByStaleOffset
