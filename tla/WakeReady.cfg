\* The service is deactivated and activated again; Docker works.
CONSTANTS
    r1 = r1
    r2 = r2
    g1 = g1
    g2 = g2
    a1 = a1
    a2 = a2
    Requests = {r1, r2}
    Startups = {g1}
    Addrs = {a1}
    NoAddr = NoAddr
    DeadAddr = DeadAddr
    NoOne = NoOne
    MaxAdmin = 2
    Faults <- Healthy
SPECIFICATION Spec
PROPERTY
    AwaitReadyMeansUp
CHECK_DEADLOCK FALSE
