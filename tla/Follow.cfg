\* Symmetry is off: two of the properties are liveness properties.
CONSTANTS
    c1 = c1
    c2 = c2
    Containers = {c1, c2}
    NoContainer = NoContainer
    MaxStarts = 3
SPECIFICATION FairSpec
INVARIANTS
    TypeOK
    OneFollower
    FollowedHasRow
    KeysMatchFollowers
PROPERTIES
    LostOnlyInTwoWays
    CancelStopsAll
    AttachedGetsFollowed
CHECK_DEADLOCK FALSE
