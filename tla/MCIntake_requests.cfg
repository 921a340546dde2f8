SPECIFICATION Spec
CONSTANTS
    c1 = c1
    c2 = c2
    m1 = m1
    m2 = m2
    n1 = n1
    n2 = n2
    talk = talk
    list = list
    grouplist = grouplist
    ask = ask
    askown = askown
    note = note
    review = review
    change = change
    t1 = t1
    t2 = t2
    Chats = {c1, c2}
    People = {m1, m2}
    Names = {n1, n2}
    Texts = {talk, list, grouplist, ask, askown, note, review, change}
    Forms <- SomeForms
    Threads = {t1, t2}
    Text <- SomeTexts
    Called <- Names1
    FirstTasks <- ThreeTasks
    Founders <- TwoFounders
    Trusted <- NoPeople
    Allowed <- OneChat
    Detecting <- OneChat
    MaxCycles = 2
    Budgets <- SevenBudgets
INVARIANTS TypeOK CommandsSettledOnce AnswersFit NotesFollowCycles
PROPERTIES ListsStayInScope
CHECK_DEADLOCK FALSE
