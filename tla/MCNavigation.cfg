SPECIFICATION Spec
CONSTANTS
    d1 = d1
    d2 = d2
    d3 = d3
    Session = {s1}
    Doc = {d1, d2, d3}
    Kind = {k1}
    Url <- Reloaded
    Probes = 2
    NoSession = NoSession
    NoDoc = NoDoc
    NoUrl = NoUrl
    Unknown = unknown
SYMMETRY Interchangeable
CHECK_DEADLOCK FALSE
INVARIANT NavigationsExact
INVARIANT LoadedOrFailed
INVARIANT RequestsScoped
INVARIANT OncePerPage
