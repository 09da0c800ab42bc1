SPECIFICATION Spec
CONSTANTS
    t1 = t1
    t2 = t2
    Tasks = {t1, t2}
    Kinds = {"command", "read", "release", "close"}
    Timings = {"fixed_rate", "after_quiet"}
    Idle = 3
    Warm = 5
    Interval = 2
    WriteBound = 1
    MaxLinks = 2
SYMMETRY CallerSymmetry
CHECK_DEADLOCK FALSE
INVARIANTS
    LinkNotKept
    NobodyWaitsForBeat
    ClosedIsSilent
    KeptAlive
PROPERTIES
    IdleNeverEarly
    BeatAfterQuiet
