SPECIFICATION Spec
CONSTANTS
    user = user
    session = session
    job = job
    id = id
    aUser = aUser
    aSession = aSession
    aJob = aJob
    None = None
    Prefixes <- MCPrefixes
    Keys <- MCKeys
    ValuesOf <- MCValuesOf
    PatternsOf <- MCPatternsOf
INVARIANT Isolated
PROPERTY ImplementsCache
