SPECIFICATION Spec
CONSTANTS
    None = None
    m1 = m1
    m2 = m2
    a = a
    b = b
    e1 = e1
    e2 = e2
    Tasks = {t1}
    Members = {m1}
    Deadlines <- WorkDeadlines
    Titles = {a, b}
    Similar <- OnePair
    Messages = {e1}
    Batches <- WorkBatches
    Requests = {r1, r2, r3}
    Kinds <- WorkKinds
    Instants <- WorkInstants
    MaxCycles = 2
    MaxGrants = 0
INVARIANTS TypeOK ReviewMatchesSubmission AuditExplainsStatus OverdueIsAudited
PROPERTIES ImplementsBoard
SYMMETRY RequestSymmetry
CHECK_DEADLOCK FALSE
