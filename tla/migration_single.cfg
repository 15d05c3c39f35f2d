SPECIFICATION Spec
CONSTANTS
    old = old
    new = new
    m1 = m1
    m2 = m2
    m3 = m3
    Services = {new}
    Seeder = Seeder
    Base = Base
    Migrations = {m1, m2, m3}
    Version <- MCVersion
    Registered <- MCRegisteredAll
    SeededBase = FALSE
    Steps <- MCUpAndDown
    MaxRuns = 5
    MaxFaults = 1
INVARIANT LedgerMatchesSchema
PROPERTIES
    RunMovesByNodes
    HistorySpec
CHECK_DEADLOCK FALSE
