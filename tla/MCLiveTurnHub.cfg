CONSTANTS
    Turn = {t1, t2}
    Viewer = {v1, v2}
    NoTurn = NoTurn
    Call <- MCCall
    MaxViewers = 2
    DigestMax = 7
    QueueMaxBytes = 4
    QueueMaxFrames = 2
    MaxPublish = 3
SPECIFICATION Spec
INVARIANTS
    ViewIsExact
    AccountsAreExact
    EndsAreTold
SYMMETRY ViewerSymmetry
CHECK_DEADLOCK FALSE
