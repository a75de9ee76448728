CONSTANTS
    k1 = k1
    k2 = k2
    t1 = t1
    t2 = t2
    s1 = s1
    NodeKeys = {k1, k2}
    PageKeys = {k1}
    Titles = {t1, t2}
    NoTitle = NoTitle
    Sessions = {s1}
    NoSession = NoSession
    Bad = Bad
    Ignored = Ignored
    p1 = p1
    p2 = p2
    Relations = {r1, r2}
    Partitions = {p1, p2}
    Length <- TwoResults
    MaxWriteErrors = 1
    MaxCommitErrors = 1
    MaxRestarts = 0
SPECIFICATION Spec
INVARIANT
    FailedWriteStaysInLog
CHECK_DEADLOCK FALSE
