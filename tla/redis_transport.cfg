SPECIFICATION FairSpec
CONSTANTS
    s1 = s1
    s2 = s2
    orders = orders
    acme = acme
    Topics = {orders}
    Tenants = {acme, System}
    SystemTenant = System
    NoTenant = NoTenant
    Malformed = Malformed
    NoFilter = NoFilter
    Subs = {s1, s2}
    TopicOf <- MCTopicOf
    FilterOf <- MCFilterOf
    Callers = {c1, c2}
    CallbackOps <- MCReentrant
    MaxSent = 2
INVARIANTS
    TypeOK
    ReleasedTogether
    InOrder
PROPERTIES
    ImplementsEventBus
    CloseCompletes
