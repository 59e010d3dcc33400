SPECIFICATION Spec
CONSTANTS
    Session = {s1}
    Rec = {r1}
    Dir = {d1}
    MaxFrames = 1
    CanCrash = FALSE
    NoSession = NoSession
    NoRec = NoRec
    NoDir = NoDir
INVARIANT CapturedIsFinalized
