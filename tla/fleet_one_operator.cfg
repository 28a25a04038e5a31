\* One operator at a time, the auto-reverify sweep, one crash.
CONSTANTS
    Domain = {d1, d2}
    Box = {b1, b2}
    Shell = {s1}
    NoDomain = NoDomain
    NoBox = NoBox
    Freeze = 1
    Armed = {"auto"}
    MaxCrashes = 1
SPECIFICATION Spec
SYMMETRY FleetSymmetry
CHECK_DEADLOCK FALSE
INVARIANTS
    NeverReuseExposed
    FleetChecksPass
PROPERTIES
    ImplementsLifecycle
