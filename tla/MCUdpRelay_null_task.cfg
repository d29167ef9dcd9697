SPECIFICATION Spec
CONSTANTS
    q1 = q1
    r1 = r1
    a = a
    b = b
    v4 = v4
    v6 = v6
    NoQuery = NoQuery
    NoFamily = NoFamily
    Workers = {w1, w2}
    Queries = {q1}
    Remotes = {r1, r2}
    Families = {v4}
    Names = {a, b}
    Answered = {a, b}
    QuestionOf <- QuestionOf_ab
    ClientFamily <- ClientFamily_v4
    RemoteFamily <- RemoteFamily_v4
    MaxIndex = 1
    MaxClock = 0
SYMMETRY Symmetry
INVARIANTS NoCrash
CHECK_DEADLOCK FALSE
