SPECIFICATION Spec
CONSTANTS
    m1 = m1  m2 = m2  m3 = m3  s1 = s1  s2 = s2  e1 = e1
    Market = {m1, m2, m3}
    Security = {s1, s2}
    Event = {e1}
    SecurityOf <- MCSharedSecurityOf
    EventOf <- MCEventOf
    Registered = {m1, m2}
    Reactivation = FALSE
    SettleActive = FALSE
    MaxLookups = 2
    MaxBatch = 1
    Faults = {"venue", "missed", "wrong", "forgot", "redeliver"}
    MaxFaults = 1
    MaxChanges = 2
INVARIANT SecurityFollowsListings
