\* Two releases of the readers, one source of each market; one accident, one pass cut off.
SPECIFICATION FairSpec
CONSTANTS
    None = None
    Firsts <- MCFirsts
    FirstOf <- MCFirstOf
    Reads <- LiveReads
    Claimed = {1}
    Corrected <- MCCorrected
    MaxReaders = 2
    MaxExtractor = 1
    MaxSource <- OneSource
    MaxAccidents = 1
    MaxFailures = 1
    Backoff <- MCBackoff
    Week = 2
    BacklogLimit = 1
    RecheckPage = 2
    ChunkRows = 1
INVARIANT MarkedMeansChecked
INVARIANT SidesAgreeUnlessCorrected
PROPERTY ReadableGetsRead
