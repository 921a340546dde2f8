SPECIFICATION Spec
CONSTANTS
    None = None
    TestMode = FALSE
    Tasks = {t1}
    Members = {m1, m2}
    Workers = {w1}
    Deadlines <- TwoDeadlines
    Policies <- GracePolicies
    Instants <- HandoverInstants
    MaxAttempts = 1
    LeaseSeconds = 3600
    RetryBase = 30
    MaxRuns = 1
    Operations = {"reassign", "reschedule", "redetect", "cancel"}
INVARIANTS PlanIsCovered
SYMMETRY MemberSymmetry
CHECK_DEADLOCK FALSE
