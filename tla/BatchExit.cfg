\* The database works and the shutdown is clean.
CONSTANTS
    f1 = f1
    f2 = f2
    Followers = {f1, f2}
    MaxLines = 1
    BatchCap = 2
    ChanCap = 2
    InsertsMayFail = FALSE
SPECIFICATION Spec
SYMMETRY Symmetry
INVARIANT
    CleanExitStoresAll
CHECK_DEADLOCK FALSE
