SPECIFICATION FairSpec
CONSTANTS
    Session = {s1, s2}
    Rec = {r1, r2}
    Dir = {d1}
    MaxFrames = 1
    CanCrash = FALSE
    NoSession = NoSession
    NoRec = NoRec
    NoDir = NoDir
PROPERTY ComesToRest
