SPECIFICATION Spec
CONSTANTS
    None = None
    TestMode = FALSE
    Tasks = {t1}
    Members = {m1}
    Workers = {w1}
    Deadlines <- TwoDeadlines
    Policies <- TwoPolicies
    Instants <- PlanInstants
    MaxAttempts = 1
    LeaseSeconds = 3600
    RetryBase = 30
    MaxRuns = 1
    Operations = {}
INVARIANTS WaitingHasAttempts
CHECK_DEADLOCK FALSE
