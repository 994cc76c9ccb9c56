\* One message per cycle, every kind of fault once, one change of the venue.
SPECIFICATION FairSpec
CONSTANTS
    c1 = c1  c2 = c2  c3 = c3
    e1 = e1  e2 = e2
    x1 = x1  g1 = g1  v1 = v1  v2 = v2
    Contract = {c1, c2, c3}
    Exchange = {x1}
    Event = {e1, e2}
    EventOf <- MCEventOf
    ExchangeOf <- MCExchangeOf
    GameOf <- MCGameOf
    Core = {e2}
    Version = {v1, v2}
    None = None
    Game = {g1}
    NoGame = NoGame
    MaxMessages = 1
    Faults = {"venue", "send", "load", "save", "crash"}
    MaxFaults = 1
    MaxChanges = 1
INVARIANT KnownWasSent
INVARIANT LeftFeedIsGone
INVARIANT GameTogether
PROPERTY KeepsOutbox
PROPERTY EventuallyCurrent
