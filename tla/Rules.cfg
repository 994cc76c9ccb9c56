\* Every pair of a set of propositions against every world of their family; listings of
\* up to four contracts; merges of up to three contracts with three, under the judge's names and measures; fee histories; batches of
\* events for the model. Nothing to do after an answer.
SPECIFICATION Asking
CONSTANTS
    None = None
    Unset = Unset
    Never = Never
    Infinity = 1000
    Tolerance = 1
    SettledTolerance = 1
    ShortFor <- MCShortFor
    Propositions <- MCPropositions
    GameScores <- MCScores
    Prices <- MCPrices
    Times <- MCTimes
    Holders <- MCHolders
    Listings <- MCListings
    Mergers <- MCMergers
    FeeTypes <- MCFeeTypes
    Multipliers = {1, 2, 3}
    Expressible = {"quadratic", "maker"}
    DefaultFee <- MCDefaultFee
    AccumulatorFrom = 2
    UnrecordedFrom = 0
    Rollout <- MCRollout
    FeeHistories <- MCFeeHistories
    RateHistories <- MCRateHistories
    SyncTimes <- MCSyncTimes
    Unanswered = Unanswered
    MinStaticTags = 2
    ChunkSize = 2
    Batches <- MCBatches
INVARIANT UnflaggedHolds
INVARIANT PricesLoseNothing
INVARIANT MergeKeepsRows
INVARIANT FeeInForce
INVARIANT AnswersStay
CHECK_DEADLOCK FALSE
