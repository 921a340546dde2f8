SPECIFICATION Spec
CONSTANTS
    None = None
    Ids <- OneId
    Sizes <- OneSize
    ContextLimit = 2
    ContentBudget = 100
    IdleGap = 900
    Workers = {w1, w2}
    Instants <- WorkInstants
    Debounce = 20
    MaxAttempts = 3
    LeaseSeconds = 30
    RetryBase = 10
    MaxRuns = 2
    Operations = {"cancel", "command", "bot", "targeted"}
INVARIANTS TypeOK CompletedIsMaterialized
PROPERTIES VerdictIsFinal
SYMMETRY WorkerSymmetry
CHECK_DEADLOCK FALSE
