\* The service is stopped when idle and started again; Docker works.
CONSTANTS
    r1 = r1
    r2 = r2
    g1 = g1
    g2 = g2
    a1 = a1
    a2 = a2
    Requests = {r1, r2}
    Startups = {g1, g2}
    Addrs = {a1, a2}
    NoAddr = NoAddr
    DeadAddr = DeadAddr
    NoOne = NoOne
    MaxAdmin = 0
    Faults <- Healthy
SPECIFICATION Spec
SYMMETRY Symmetry
INVARIANT
    ProxiesToContainer
CHECK_DEADLOCK FALSE
