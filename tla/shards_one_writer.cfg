\* One writer at a time and every command runs to its end.
CONSTANTS
    User = {u1, u2, u3}
    Shard = {h0, h1, h2, h3}
    NoShard = NoShard
    DefaultShard = h0
    Shell = {s1}
    Wheel = wheel
    TargetSize = 1
    MaxSize = 2
    MaxListed = 2
    Commands = {"add", "onboard", "create", "reshuffle", "provision"}
    Overlap = FALSE
    MaxFaults = 0
SPECIFICATION Spec
SYMMETRY RosterSymmetry
CHECK_DEADLOCK FALSE
INVARIANTS
    RosterChecksPass
    BlastRadius
PROPERTIES
    ImplementsPartition
