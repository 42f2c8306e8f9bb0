SPECIFICATION Spec
CONSTANTS
    r1 = r1
    r2 = r2
    r3 = r3
    Requests = {r1, r2, r3}
    Conns = {k1, k2, k3, k4}
    MaxKept = 1
    MaxWaiting = 2
    RetryUnsent = 1
    Plans <- HeldPlans
CHECK_DEADLOCK FALSE
INVARIANT WholeRequests
