\* Two vantages, one box, a window of two rows that are both needed, one step of the operator
\* or of a box, a network or a profile going bad.
CONSTANTS
    Vantage = {v, w}
    Box = {b}
    WindowM = 2
    ThresholdN = 2
    MinVantages = 2
    Faults = {{3}, {1, 2, 3}}
    MaxMoves = 1
SPECIFICATION ProbesFairSpec
PROPERTIES
    HardFailIsFlagged
    FalseAlarmClears
    SweepIsRight
