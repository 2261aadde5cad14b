\* Inserts may be refused.  Two lines cut a batch and one fills the channel.
CONSTANTS
    f1 = f1
    f2 = f2
    Followers = {f1, f2}
    MaxLines = 2
    BatchCap = 2
    ChanCap = 1
    InsertsMayFail = TRUE
SPECIFICATION FairSpec
INVARIANTS
    TypeOK
    ExactlyOnePlace
    DrainKeepsPromise
PROPERTIES
    DeliversLines
    EventuallyStored
    ShutdownEnds
CHECK_DEADLOCK FALSE
