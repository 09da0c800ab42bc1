SPECIFICATION Spec
CONSTANTS
    t1 = t1
    t2 = t2
    t3 = t3
    Tasks = {t1, t2, t3}
    Devices <- MCDevices
    MaxLinks = 2
    MaxSecrets = 1
SYMMETRY CallerSymmetry
INVARIANTS
    NoCircularWait
    Untorn
    CheckFirst
PROPERTIES
    ReleaseKeepsLaterWrites
