SPECIFICATION FairSpec
CONSTANTS
    m1 = m1  m2 = m2  m3 = m3  s1 = s1  s2 = s2  e1 = e1
    Market = {m1}
    Security = {s1}
    Event = {e1}
    SecurityOf <- MCOneSecurityOf
    EventOf <- MCOneEventOf
    Registered = {m1}
    Reactivation = TRUE
    SettleActive = FALSE
    MaxLookups = 1
    MaxBatch = 1
    Faults = {"venue", "missed", "wrong", "forgot", "redeliver"}
    MaxFaults = 1
    MaxChanges = 2
PROPERTY OpenComesBack
 
PROPERTY SettledGetsResolved
