\* A box with or without nfqws, two exits, two new descriptors and two troubles.
CONSTANTS
    x1 = x1
    x2 = x2
    ExitIp <- Exits
    Payload <- Payloads
    Child = {singbox}
    SingBox = singbox
    MaxCrashes = 2
    MaxAttempts = 2
    MaxRefreshes = 2
    MaxTrouble = 2
SPECIFICATION AgentFairSpec
CHECK_DEADLOCK FALSE
INVARIANTS
    RulesAreCurrent
PROPERTIES
    RulesHeal
