SPECIFICATION FairSpec
CONSTANTS
    Record = {r1}
    Path = {p1, p2}
    DefaultPath = p1
    NoPath = NoPath
    MaxWrites = 2
CHECK_DEADLOCK FALSE
INVARIANT DeliveredAsConfigured
INVARIANT AppendedAtMostOnce
PROPERTY LatestApplied
