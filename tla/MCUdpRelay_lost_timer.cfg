SPECIFICATION TimedSpec
CONSTANTS
    q1 = q1
    r1 = r1
    a = a
    b = b
    v4 = v4
    v6 = v6
    NoQuery = NoQuery
    NoFamily = NoFamily
    Workers = {w1, w2}
    Queries = {q1, q2}
    Remotes = {r1}
    Families = {v4}
    Names = {a, b}
    Answered = {b}
    QuestionOf <- QuestionOf_ab
    ClientFamily <- ClientFamily_v4
    RemoteFamily <- RemoteFamily_v4
    MaxIndex = 1
    MaxClock = 2
PROPERTIES TimeoutServed
CHECK_DEADLOCK FALSE
