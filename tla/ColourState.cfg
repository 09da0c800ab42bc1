SPECIFICATION Spec
CONSTANTS
    Positions <- MCPositions
    KelvinByTint <- MCKelvinByTint
    FirstTint <- MCFirstTint
    Profiles <- MCProfiles
    Colours = {"red", "t40b"}
    Kelvins = {6500}
    Levels = {50}
    Codes = {7}
    MaxSteps = 4
    Versions = {1, 2}
    Pacts = {1, 2}
INVARIANTS ColourConsistent OwnReportAgrees SegmentsClaimed SentInRange
CHECK_DEADLOCK FALSE
