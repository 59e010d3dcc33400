SPECIFICATION FairSpec
CONSTANTS
    Window = 2
    MinHold = 1
    MaxHold = 2
    Frames = 3
    MaxTime = 3
    Recordings = 2
    Chunks = 2
    Attempts = 2
    Mine = 1
CHECK_DEADLOCK FALSE
INVARIANT VideoIsCapture
INVARIANT TimelineKept
INVARIANT StallsOnlyByFailure
INVARIANT TellsTheTruth
PROPERTY Ends
