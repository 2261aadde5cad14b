\* Two requests, two starts, every failure, two calls of SetActive.
CONSTANTS
    r1 = r1
    r2 = r2
    g1 = g1
    g2 = g2
    a1 = a1
    a2 = a2
    Requests = {r1, r2}
    Startups = {g1, g2}
    Addrs = {a1}
    NoAddr = NoAddr
    DeadAddr = DeadAddr
    NoOne = NoOne
    MaxAdmin = 2
    Faults <- Hostile
SPECIFICATION FairSpec
INVARIANTS
    TypeOK
    StartsOnce
    NoLostWakeup
    TargetKnown
    DeadlockStaysLocal
PROPERTIES
    ImplementsLifecycle
    StartEnds
CHECK_DEADLOCK FALSE
