SPECIFICATION FairSpec
CONSTANTS
    Subject = {1, 2, 3}
    Keyed = {{1, 2}, {1, 3}}
    Near = {{2, 3}}
    Season = {}
    None = None
    Answers <- MCAnswers
    Checks <- MCChecks
    Volumes <- MCVolumes
    MinVolume = 2
    JudgeLimit = 2
    Changes = {"contracts", "entities", "close", "volume", "flag", "rules", "unmerge"}
    MaxChanges = 1
    Faults = {"dies", "forget", "unanswered"}
    MaxFaults = 1
INVARIANT QueuedUnlessDied
PROPERTY KeepsItsPromise
PROPERTY RestsOnItsVerdict
PROPERTY FindableGetsJudged
