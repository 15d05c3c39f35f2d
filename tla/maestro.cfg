SPECIFICATION FairSpec
CONSTANTS
    fired = fired
    foreign = foreign
    broken = broken
    Idle = Idle
    Names = {fired, foreign, broken}
    Intents = {fired, broken}
    NameOf <- MCNameOf
    Handled = {fired}
    Undecodable = {broken}
    Accepting <- MCAccepting
    Refusing <- MCRefusing
    Outcomes = {"nil", "error", "unknown"}
    r1 = r1
    r2 = r2
    g1 = g1
    g2 = g2
    Replicas = {r1, r2}
    Goroutines = {g1, g2}
    ReplicaOf <- MCReplicaOf
    maestro = maestro
    maestroOld = maestroOld
    Audience = maestro
    OtherAudiences = {maestroOld}
    Producers = {p1}
    Checked = {p1}
    Sources <- MCTokens
    Credentials <- MCTokens
    MaxEvents = 2
    MaxFaults = 2
INVARIANTS
    CheckIsExact
    TwiceOnlyIfUnheard
    AnnouncedOrMuted
    SettledMeansConsumed
    DroppedForCause
PROPERTY Delivered
CHECK_DEADLOCK FALSE
