\* One request, one start that fails.
CONSTANTS
    r1 = r1
    r2 = r2
    g1 = g1
    g2 = g2
    a1 = a1
    a2 = a2
    Requests = {r1}
    Startups = {g1}
    Addrs = {a1}
    NoAddr = NoAddr
    DeadAddr = DeadAddr
    NoOne = NoOne
    MaxAdmin = 0
    Faults = {"start"}
SPECIFICATION Spec
INVARIANT
    WaitersShareStartup
CHECK_DEADLOCK FALSE
