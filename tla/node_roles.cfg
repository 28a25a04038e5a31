\* Two machines, one command killed between two steps, three of the operators' commands or
\* spans of days.
CONSTANTS
    Machine = {a, b}
    NoDB = NoDB
    MaxAuth = 3
    MaxBackups = 1
    MaxKills = 1
    MaxOps = 3
SPECIFICATION FairSpec
CHECK_DEADLOCK FALSE
INVARIANTS
    RolesInductive
    ServingIsRestartable
PROPERTIES
    PromotionSettles
    PollerIsRight
