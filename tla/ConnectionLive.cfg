SPECIFICATION FairSpec
CONSTANTS
    t1 = t1
    t2 = t2
    Tasks = {t1, t2}
    Kinds = {"write", "query"}
    Budgets = {{}}
    RxMax = 1
    MaxLinks = 1
    Advertised = {"AES_RC4_PSK"}
    BgcVersions = {"v1"}
    HasUnlock = FALSE
    HasSessionFrame = FALSE
    SessionAck = FALSE
    SessionAttempts = 2
    WriteAttempts = 1
    StreamLen = 1
PROPERTIES
    EveryCallEnds
    EveryTeardownEnds
