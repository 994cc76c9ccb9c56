SPECIFICATION Spec
CONSTANTS
    m1 = m1  m2 = m2  m3 = m3  s1 = s1  s2 = s2  e1 = e1
    Market = {m1, m2}
    Security = {s1, s2}
    Event = {e1}
    SecurityOf <- MCSecurityOf
    EventOf <- MCEventOf
    Registered = {m1, m2}
    Reactivation = TRUE
    SettleActive = FALSE
    MaxLookups = 2
    MaxBatch = 2
    Faults = {"crash", "venue", "missed", "wrong", "forgot", "redeliver"}
    MaxFaults = 1
    MaxChanges = 2
SYMMETRY Symmetry
INVARIANT ResolvedIsOver
PROPERTY SettledStaysRetired
