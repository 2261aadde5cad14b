\* Two requests in every combination of operations, on two hosts that may
\* also serve as names and one further name.
CONSTANTS
    r1 = r1
    r2 = r2
    h1 = h1
    h2 = h2
    n1 = n1
    Requests = {r1, r2}
    Names = {h1, h2, n1}
    Hosts = {h1, h2}
    NoName = NoName
    MaxConfigured = 2
SPECIFICATION FairSpec
INVARIANTS
    TypeOK
    HostsLeadToServices
    CreatedIsServed
    OnlyTogglesRace
PROPERTY
    EveryRequestAnswered
CHECK_DEADLOCK FALSE
