SPECIFICATION FairSpec
CONSTANTS
    Market = {1, 2, 3}
    EventOf <- MCEventOf
    Scale = 1
    Listed <- MCListed
    MaxLookups = 1
    PageSize = 1
    MaxLeft = 2
    Budget = 2
    Threshold = 2
    MaxFaults = 1
    MaxChanges <- MCMaxChanges
    Has <- MCHas
INVARIANT OneIdentity
INVARIANT FeedIsFaithful
INVARIANT RecordedIsFinal
PROPERTY OpenStaysOn
PROPERTY FinalGetsRecorded
