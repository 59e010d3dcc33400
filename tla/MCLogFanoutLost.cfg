SPECIFICATION Spec
CONSTANTS
    Record = {r1}
    Path = {p1, p2}
    DefaultPath = p1
    NoPath = NoPath
    MaxWrites = 1
CHECK_DEADLOCK FALSE
INVARIANT EveryRecordAppended
