\* One operator and the rotator sign, another operator publishes and seeds.
CONSTANTS
    Exit = {e1}
    Operator = {o1}
    Rotator = rotator
    MaxKey = 2
    MaxGen = 2
    MaxKills = 1
    Box = {b1}
    Publisher = {p1}
    MaxFailures = 2
    MaxOutages = 2
SPECIFICATION FairSpec
CHECK_DEADLOCK FALSE
INVARIANTS
    RefreshInductive
    HistoryIsSound
    OffOnlyAfterOutages
PROPERTIES
    BoxNeverRollsBack
    BoxCatchesUp
