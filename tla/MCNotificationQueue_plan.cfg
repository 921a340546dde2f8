SPECIFICATION Spec
CONSTANTS
    None = None
    m1 = m1
    m2 = m2
    Tasks = {t1}
    Members = {m1, m2}
    Deadlines <- OneDeadline
    Policies <- TwoPolicies
    Appointed <- Everybody
    Creations <- TwoCreations
    Workers = {w1}
    Instants <- WorkInstants
    MaxAttempts = 2
    LeaseSeconds = 10
    RetryBase = 15
    MaxRuns = 2
    MaxEvents = 2
    Budgets <- ThreeBudgets
    Actions = {"confirm", "redetect", "rename", "reassign", "merge"}
INVARIANTS TypeOK ToldOnce MergedIsWithdrawn
PROPERTIES ReadIsPlanned ClaimsAuthorized BackoffKept ImplementsOutbox
CHECK_DEADLOCK FALSE
