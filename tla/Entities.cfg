\* Two markets, two messages, batches cut off twice, and a security two markets share at first.
SPECIFICATION FairSpec
CONSTANTS
    None = None
    Markets <- MCMarkets
    Events = {"e1", "e2"}
    Names = {"a", "b"}
    NamesOf <- MCNamesOf
    EventsOf <- MCEventsOf
    Shared <- MCMarkets
    MaxReceives = 3
    MaxBatch = 2
    MaxMessages = 2
    MaxFailures = 2
    MaxSecurities = 3
CHECK_DEADLOCK FALSE
PROPERTY OneMarketEach
INVARIANT HalfMadeIsRetried
INVARIANT NotGivenUp
PROPERTY QueuedGetsListed
