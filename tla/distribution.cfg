\* One box, two tokens, three steps of the operator, the user or the world after any start.
CONSTANTS
    Box = {b}
    None = None
    Threshold = 2
    MaxTokens = 2
    MaxOps = 3
SPECIFICATION FairSpec
INVARIANTS
    DistributionInductive
PROPERTIES
    FirstChannelIsCurrent
    FlagsAreRight
