\* Three images of two releases, two boxes, one command killed between two steps.
CONSTANTS
    a = a
    b = b
    c = c
    r = r
    s = s
    Image = {a, b, c}
    Release = {r, s}
    ReleaseOf <- MCReleaseOf
    Box = {x, y}
    None = None
    MinBoxes = 1
    MaxKills = 1
    MaxOps = 8
SPECIFICATION FairSpec
CHECK_DEADLOCK FALSE
INVARIANTS
    ImagesInductive
PROPERTIES
    RollbackFlagsItsBoxes
    UnbuiltIsAnnounced
