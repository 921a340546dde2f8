SPECIFICATION Spec
CONSTANTS
    c1 = c1
    c2 = c2
    m1 = m1
    m2 = m2
    Chats = {c1, c2}
    People = {m1, m2}
    Names = {n1}
    Links = {l1}
    Threads = {listener, page}
    Rosters <- TwoRosters
    Foundings <- TwoFoundings
    Saves <- FourSaves
    Pages = {"grant", "revoke", "name", "save"}
    Budgets <- SixBudgets
INVARIANTS TypeOK OneUsePerLink LiveSessionIsExplained AuditExplainsAdministrators
PROPERTIES SavesTouchOnlyTheirFields
SYMMETRY Alike
CHECK_DEADLOCK FALSE
