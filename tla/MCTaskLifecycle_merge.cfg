SPECIFICATION Spec
CONSTANTS
    None = None
    m1 = m1
    m2 = m2
    a = a
    b = b
    e1 = e1
    e2 = e2
    Tasks = {t1, t2, t3}
    Members = {m1}
    Deadlines <- NoDeadlines
    Titles = {a, b}
    Similar <- NoPair
    Messages = {e1, e2}
    Batches <- MergeBatches
    Requests = {r1, r2, r3}
    Kinds <- MergeKinds
    Instants <- OneInstant
    MaxCycles = 0
    MaxGrants = 1
INVARIANTS MergesEnd EvidenceFollowsMerge RequestActsOnce
PROPERTIES ImplementsBoard
SYMMETRY MergeSymmetry
CHECK_DEADLOCK FALSE
