\* One request to a healthy service.
CONSTANTS
    r1 = r1
    r2 = r2
    g1 = g1
    g2 = g2
    a1 = a1
    a2 = a2
    Requests = {r1}
    Startups = {g1}
    Addrs = {a1}
    NoAddr = NoAddr
    DeadAddr = DeadAddr
    NoOne = NoOne
    MaxAdmin = 0
    Faults <- Healthy
SPECIFICATION Spec
INVARIANT
    RecordActivityReturns
CHECK_DEADLOCK FALSE
