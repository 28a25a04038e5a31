\* One alarm and the dead man's switch, windows of one and three units, acks for two, three acks,
\* outages, heartbeats by hand, compactions or restarts.
CONSTANTS
    Alarm = {obligation}
    Breach = Breach
    CritWindow = 1
    WarnWindow = 3
    AckFor = 2
    Threshold = 2
    MaxOps = 3
SPECIFICATION FairSpec
INVARIANTS
    AlertsInductive
PROPERTIES
    ToldOncePerWindow
    CritReachesOperator
    DeadMansSwitch
