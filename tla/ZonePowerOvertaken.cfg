SPECIFICATION Spec
CONSTANTS
    t1 = t1
    z1 = z1
    z2 = z2
    Tasks = {t1}
    Zones = {z1, z2}
    MaxPosted = 2
    MaxWrites = 3
    MaxExtra = 0
SYMMETRY Symmetric
INVARIANTS
    StampsVouch
