SPECIFICATION FairSpec
CONSTANTS
    Keys = {k1, k2}
    Processes = {p1, p2, p3}
    Held = Held
    Values = {Held}
    None = None
    MayFail = TRUE
    MaxCrashes = 1
INVARIANTS
    ExcludesIfGranted
    HeldIfGranted
    NoLeak
PROPERTY EventuallyReleased
