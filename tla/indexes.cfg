SPECIFICATION Spec
CONSTANTS
    blue = blue
    green = green
    byCase = byCase
    byTime = byTime
    byCaseName = byCaseName
    byTimeName = byTimeName
    mine = mine
    Services = {blue, green}
    Names = {byCaseName, byTimeName, mine}
    Keys = {byCase, byTime}
    Wanted <- MCWanted
    Generated <- MCGenerated
    Foreign <- MCForeign
    MaxCalls = 2
    MaxFaults = 2
INVARIANTS
    WantedAreIndexed
    OnlyForeignConflict
CHECK_DEADLOCK FALSE
