CONSTANTS
    MaxDepth = 1
    RetryMax = 3
    RetryBase = 3
    RetryMaxDelay = 5
    Width = 4
    DepthBound = 1
    MaxLinks = 1
    MaxWriteErrors = 1
SPECIFICATION FairSpec
INVARIANTS
    TypeOK
    RequestsBounded
    FailedJobReachesDLQ
    PublishedIsPrefix
PROPERTIES
    SlotIsReleased
    BackoffGrowsUpToCap
CHECK_DEADLOCK FALSE
