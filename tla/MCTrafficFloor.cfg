SPECIFICATION Spec
CONSTANTS
    Tab = {t1, t2}
    Request = {r1, r2}
    Host = {h1, h2}
    UnknownHost = unknown
    OverflowHost = overflow
    MaxTrackedHosts = 1
    ClosedTabHistory = 1
    MaxBody = 1
    MaxHeader = 1
    MaxHops = 2
    CanReconnect = TRUE
    NoTab = NoTab
SYMMETRY Interchangeable
CHECK_DEADLOCK FALSE
INVARIANT Floor
