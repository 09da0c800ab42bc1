SPECIFICATION Spec
CONSTANTS
    t1 = t1
    t2 = t2
    Tasks = {t1, t2}
    Kinds = {"command", "read"}
    Timings = {"fixed_rate"}
    Idle = 3
    Warm = 5
    Interval = 2
    WriteBound = 1
    MaxLinks = 2
SYMMETRY CallerSymmetry
CHECK_DEADLOCK FALSE
INVARIANTS
    WindowEndsWithLink
