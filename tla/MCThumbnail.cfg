SPECIFICATION FairSpec
CONSTANTS
    Session = {s1, s2}
    Http = {q1, q2}
    CacheSeconds = 1
    MaxTime = 1
    MaxConn = 2
    NoSession = NoSession
    NoHttp = NoHttp
CHECK_DEADLOCK FALSE
INVARIANT NoStampede
INVARIANT CacheOfConnection
INVARIANT ShowsChosenTab
PROPERTY EveryRequestAnswered
