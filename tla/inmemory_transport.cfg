SPECIFICATION FairSpec
CONSTANTS
    s1 = s1
    s2 = s2
    s3 = s3
    orders = orders
    bills = bills
    acme = acme
    Topics = {orders, bills}
    Tenants = {acme, System}
    SystemTenant = System
    NoTenant = NoTenant
    Malformed = Malformed
    NoFilter = NoFilter
    Subs = {s1, s2, s3}
    TopicOf <- MCTopicOf
    FilterOf <- MCFilterOf
    Callers = {c1, c2}
    MaxSent = 3
INVARIANTS
    TypeOK
    FanOutComplete
    ChainsKeepTenant
PROPERTIES
    PublishReturns
    ImplementsEventBus
