SPECIFICATION Spec
CONSTANTS
    old = old
    new = new
    m1 = m1
    m2 = m2
    m3 = m3
    Services = {old, new}
    Seeder = Seeder
    Base = Base
    Migrations = {m1, m2}
    Version <- MCVersion
    Registered <- MCRegisteredAll
    SeededBase = FALSE
    Steps <- MCForward
    MaxRuns = 1
    MaxFaults = 0
INVARIANT AppliedOnce
CHECK_DEADLOCK FALSE
