SPECIFICATION Spec
CONSTANTS
    c1 = c1
    c2 = c2
    m1 = m1
    m2 = m2
    Chats = {c1}
    People = {m1, m2}
    Names = {n1}
    Links = {l1}
    Threads = {listener, page}
    Rosters <- OneRoster
    Foundings <- BothFound
    Saves <- FourSaves
    Pages = {"grant", "revoke", "name", "save"}
    Budgets <- TwoDismissals
INVARIANT DismissalsLeaveOne
CHECK_DEADLOCK FALSE
