SPECIFICATION Spec
CONSTANTS
    Tasks = {t1, t2}
    Instances <- MCInstances
    Store <- MCStore
    Names = {"sun", "sea"}
    MaxVersion = 2
    Header <- MCHeader
    Table <- MCTable
    Sku = "H1"
    Fallback = {}
    OwnKeys = {"a", "b"}
    ForeignKeys = {"x"}
    AirPacts <- MCAirPacts
SYMMETRY CallerSymmetry
INVARIANTS NewerSetterKept SegmentsOwn SceneOffered AdvertOwn
CHECK_DEADLOCK FALSE
