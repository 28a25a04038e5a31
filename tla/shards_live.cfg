\* The wheel under fairness, overlapping with an operator and one fault: users are
\* seated, overdue shards reshuffled, and rosters keep to max_size.
CONSTANTS
    User = {u1, u2}
    Shard = {h0, h1, h2, h3}
    NoShard = NoShard
    DefaultShard = h0
    Shell = {s1}
    Wheel = wheel
    TargetSize = 1
    MaxSize = 1
    MaxListed = 2
    Commands = {"add", "reshuffle"}
    Overlap = TRUE
    MaxFaults = 1
SPECIFICATION FairSpec
CHECK_DEADLOCK FALSE
INVARIANTS
    OverlapInductive
PROPERTIES
    UnassignedIsSeated
    OverdueIsReshuffled
