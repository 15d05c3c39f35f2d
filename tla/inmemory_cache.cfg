SPECIFICATION Spec
CONSTANTS
    Keys = {k1, k2}
    Values = {v1, v2}
    None = None
    TTL = 1
    MaxTime = 3
PROPERTY ImplementsCache
