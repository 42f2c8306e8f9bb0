SPECIFICATION Spec
CONSTANTS
    Workers = {w1, w2}
    Clients = {c1, c2}
    Owner = owner
    Jobs = {j1, j2}
    Groups = {}
    NoGroup = none
    NoJob = nojob
    Capacity = 2
    MaxCapacity = 2
    ActiveMask = 15
    StartPos = 0
    Calls <- ByRole
    Closer = c1
CHECK_DEADLOCK FALSE
PROPERTIES AcceptedJobRuns DestroyReturns
