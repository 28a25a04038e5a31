\* The daemon's sweeps under fairness, with one restart.
CONSTANTS
    Domain = {d1, d2}
    Box = {b1}
    Shell = {s1}
    NoDomain = NoDomain
    NoBox = NoBox
    Freeze = 1
    Armed = {"reverify", "rotation"}
    MaxCrashes = 1
SPECIFICATION FairSpec
CHECK_DEADLOCK FALSE
PROPERTIES
    StaleIsWithdrawn
    OverdueIsFlagged
