SPECIFICATION Spec
CONSTANTS
    Environments <- MCEnvironments
    IntMax = 127
    HashMax = 15
    MaxChan = 100
    BadURLs = {"bad"}
    NoRules = NoRules
    Observers = {o1, o2}
    Durations = {0, 1, 3}
    Bounds <- MCBounds
INVARIANTS
    LimitsAreUsable
    ProxyIsFromPool
    OurBlocksAreObeyed
    OnlyOurBlocksForbid
    NamedProxyIsUsed
    HistogramExactAtRest
    ReportsAreHistograms
PROPERTIES
    StartEnds
CHECK_DEADLOCK FALSE
