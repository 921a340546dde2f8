SPECIFICATION FairSpec
CONSTANTS
    None = None
    TestMode = FALSE
    Tasks = {t1}
    Members = {m1}
    Workers = {w1}
    Deadlines <- OneDeadline
    Policies <- LastStage
    Instants <- LiveInstants
    MaxAttempts = 2
    LeaseSeconds = 60
    RetryBase = 30
    MaxRuns = 2
    Operations = {"redetect", "confirm", "cancel", "merge", "targeted", "sync", "complete", "restore"}

PROPERTIES DueIsSettled
CHECK_DEADLOCK FALSE
