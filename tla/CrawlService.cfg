SPECIFICATION Spec
CONSTANTS
    r1 = r1
    r2 = r2
    Requests = {r1, r2}
    Inputs <- MCInputs
    PageOf <- MCPageOf
    MaxClock = 1
    MaxApiFaults = 1
    MaxStatusExpiries = 1
    NoStatus = NoStatus
    URLs <- MCURLs
    Searches <- MCSearches
    Sessions = {0, 1}
    Sites <- MCSites
    Slots = {w1, w2}
    Idle = Idle
    MaxFaults = 1
    MaxRedeliveries = 1
    MaxExpiries = 1
    MaxDisturbances = 1
INVARIANTS
    JobsAreWithinReach
    LinksAreKept
    RestMeansComplete
    LimitedRestIsClosed
    AcceptedIsKept
    StatusHasJob
    AcceptedFindsOwnStatus
PROPERTIES
    ServiceRests
CHECK_DEADLOCK FALSE
