SPECIFICATION Spec
CONSTANTS
    o = o
    Value = Value
    Other = Other
    Options = {o}
    Anything = Anything
    t = t
    g = g
    Goroutines = {t, g}
    Test = t
    MaxExpected = 2
    MaxConfigured = 3
    MaxCalls = 2
INVARIANTS
    TypeOK
    PassMeansMet
    DoesAsTold
PROPERTY ServedAsMeant
CHECK_DEADLOCK FALSE
