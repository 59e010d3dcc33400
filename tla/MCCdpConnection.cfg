SPECIFICATION FairSpec
CONSTANTS
    Call = {c1, c2}
    Send = {s1, s2}
CHECK_DEADLOCK FALSE
INVARIANT WaitersReachable
INVARIANT OwnReply
INVARIANT TablesBounded
PROPERTY FutureSetOnce
PROPERTY EveryCallEnds
