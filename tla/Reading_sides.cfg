\* The same without liveness: no fairness, and passes that are never cut off.
SPECIFICATION Spec
CONSTANTS
    None = None
    Firsts <- MCFirsts
    FirstOf <- MCFirstOf
    Reads <- LiveReads
    Claimed = {1}
    Corrected <- MCCorrected
    MaxReaders = 2
    MaxExtractor = 1
    MaxSource <- OneSource
    MaxAccidents = 1
    MaxFailures = 0
    Backoff <- MCBackoff
    Week = 1
    BacklogLimit = 1
    RecheckPage = 2
    ChunkRows = 1
INVARIANT SidesAgree
