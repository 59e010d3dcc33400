SPECIFICATION Spec
CONSTANTS
    Session = {s1, s2}
    Rec = {r1, r2}
    Dir = {d1, d2}
    MaxFrames = 1
    CanCrash = TRUE
    NoSession = NoSession
    NoRec = NoRec
    NoDir = NoDir
SYMMETRY Interchangeable
INVARIANT TypeOK
INVARIANT ActiveIsExact
INVARIANT OneFinisher
INVARIANT WatchdogExact
INVARIANT FramesDirReclaimed
INVARIANT SidecarBesideVideo
INVARIANT NothingSurvivesDisconnect
INVARIANT ScreencastConsumed
PROPERTY RecordsWholeLifetime
PROPERTY ImplementsLifecycle
