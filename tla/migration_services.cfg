SPECIFICATION FairSpec
CONSTANTS
    old = old
    new = new
    m1 = m1
    m2 = m2
    m3 = m3
    Services = {old, new}
    Seeder = Seeder
    Base = Base
    Migrations = {m1, m2}
    Version <- MCVersion
    Registered <- MCRegisteredRolling
    SeededBase = FALSE
    Steps <- MCForward
    MaxRuns = 3
    MaxFaults = 2
INVARIANTS
    TypeOK
    MutualExclusion
    AcceptedIsConsistent
PROPERTY MarkerRemoved
CHECK_DEADLOCK FALSE
