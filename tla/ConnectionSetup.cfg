SPECIFICATION Spec
CONSTANTS
    t1 = t1
    t2 = t2
    Tasks = {t1, t2}
    Kinds = {"query", "stream"}
    Budgets = {{}, {"attempts", "timeout"}}
    RxMax = 1
    MaxLinks = 2
    Advertised = {"NONE", "AES_RC4_PSK"}
    BgcVersions = {"v0", "v2"}
    HasUnlock = TRUE
    HasSessionFrame = TRUE
    SessionAck = TRUE
    SessionAttempts = 1
    WriteAttempts = 1
    StreamLen = 2
SYMMETRY CallerSymmetry
INVARIANTS
    LimitLeavesNoTeardown
PROPERTIES
    SentOnVettedLink
    ModeKept
