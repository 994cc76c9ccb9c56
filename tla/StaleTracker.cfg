SPECIFICATION FairSpec
CONSTANTS
    e1 = e1  e2 = e2  e3 = e3  e4 = e4
    x1 = x1  x2 = x2
    Event = {e1, e2, e3, e4}
    Exchange = {x1, x2}
    ExchangeOf <- MCExchangeOf
    None = None
    MissThreshold = 2
    MaxMessages = 1
    RatioNum = 1
    RatioDen = 2
    Faults = {"venue", "partial", "empty", "fetch", "send", "save", "load", "restart"}
    MaxFaults = 1
    MaxChanges = 2
INVARIANT TypeOK
INVARIANT StaleAfterMisses
PROPERTY TrackedUntilTold
PROPERTY GoneGetsTold
