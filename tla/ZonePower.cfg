SPECIFICATION Spec
CONSTANTS
    t1 = t1
    t2 = t2
    z1 = z1
    z2 = z2
    Tasks = {t1, t2}
    Zones = {z1, z2}
    MaxPosted = 2
    MaxWrites = 2
    MaxExtra = 1
SYMMETRY Symmetric
INVARIANTS
    StampsHold
    ReadVouchesForOn
    TwoReadsSettle
