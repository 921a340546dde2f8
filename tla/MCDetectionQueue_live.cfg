SPECIFICATION FairSpec
CONSTANTS
    None = None
    Ids <- TwoIds
    Sizes <- OneSize
    ContextLimit = 1
    ContentBudget = 100
    IdleGap = 30
    Workers = {w1}
    Instants <- BurstInstants
    Debounce = 20
    MaxAttempts = 2
    LeaseSeconds = 20
    RetryBase = 10
    MaxRuns = 3
    Operations = {"command", "bot", "targeted"}
INVARIANTS RunningRunIsLeased
PROPERTIES BatchIsAnalysed ImplementsBatches JobSettles
CHECK_DEADLOCK FALSE
