SPECIFICATION Spec
CONSTANTS
    jobs = jobs
    mails = mails
    Queues = {jobs, mails}
    c1 = c1
    c2 = c2
    anOrder = anOrder
    aBill = aBill
    aNaN = aNaN
    Values = {anOrder, aBill, aNaN}
    Callers = {c1, c2}
    None = None
    Encodable = {anOrder, aBill}
    Decodes <- MCDecodes
    MaxFaults = 2
INVARIANTS
    TypeOK
    AcceptedIsKept
    GivenOnce
PROPERTY ImplementsQueue
