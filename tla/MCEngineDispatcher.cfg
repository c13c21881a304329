SPECIFICATION FairPoolSpec
CONSTANTS
    Worker = {w1, w2}
    Session = {s1, s2, s3}
    NoSession = NoSession
INVARIANTS
    PermitAccounting
    RunOnce
PROPERTIES
    AcceptedIsServed
    ShutdownEnds
CHECK_DEADLOCK FALSE
