SPECIFICATION FairSpec
CONSTANTS
    s1 = s1  s2 = s2  s3 = s3  u1 = u1  u2 = u2
    Contract = {1, 2, 3}
    Subject = {s1, s2, s3}
    Unit = {u1, u2}
    NoUnit = NoUnit
    None = None
    Placed <- MCPlaced
    Places <- MCPlacesFailing
    Failing = {s3}
    ChunkRows = 1
    DeriveLimit = 2
    Changes = {"source", "withdraw", "resolve", "reopen", "merge"}
    MaxChanges = 2
    Faults = {"reconcile", "crash", "version"}
    MaxFaults = 1
CHECK_DEADLOCK FALSE
INVARIANT NothingWrongLeft
INVARIANT ExactlyRebuilt
INVARIANT ChangedKeepsDue
PROPERTY DueGetsDerived
