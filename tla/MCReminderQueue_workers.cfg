SPECIFICATION Spec
CONSTANTS
    None = None
    TestMode = FALSE
    Tasks = {t1}
    Members = {m1}
    Workers = {w1, w2}
    Deadlines <- OneDeadline
    Policies <- ClosePolicy
    Instants <- CloseInstants
    MaxAttempts = 2
    LeaseSeconds = 3600
    RetryBase = 30
    MaxRuns = 1
    Operations = {"complete", "restore"}
INVARIANTS TypeOK LeasedFitsPlan SentWasAccepted
PROPERTIES ClaimsMostUrgent ImplementsOutbox
SYMMETRY WorkerSymmetry
CHECK_DEADLOCK FALSE
