SPECIFICATION Spec
CONSTANTS
    t1 = t1
    t2 = t2
    Tasks = {t1, t2}
    Kinds = {"write", "once", "disconnect", "close"}
    Budgets = {{}}
    RxMax = 1
    MaxLinks = 2
    Advertised = {"AES_RC4_PSK"}
    BgcVersions = {"v1"}
    HasUnlock = FALSE
    HasSessionFrame = TRUE
    SessionAck = FALSE
    SessionAttempts = 2
    WriteAttempts = 2
    StreamLen = 2
SYMMETRY CallerSymmetry
INVARIANTS
    TypeOK
    NoOrphanLink
    TeardownsBounded
    LostLinkWakesWaiter
    ReplyFromOwnLink
    CopiesBounded
    ClosedForGood
