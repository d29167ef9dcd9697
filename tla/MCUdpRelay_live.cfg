SPECIFICATION FairSpec
CONSTANTS
    q1 = q1
    r1 = r1
    a = a
    b = b
    v4 = v4
    v6 = v6
    NoQuery = NoQuery
    NoFamily = NoFamily
    Workers = {w1, w2}
    Queries = {q1, q2}
    Remotes = {r1}
    Families = {v4, v6}
    Names = {a, b}
    Answered = {a, b}
    QuestionOf <- QuestionOf_ab
    ClientFamily <- ClientFamily_v4
    RemoteFamily <- RemoteFamily_v6
    MaxIndex = 1
    MaxClock = 2
CONSTRAINT FirstQueryFirst
PROPERTIES RequestDrained AnswerRelayed AlarmServesExpired
CHECK_DEADLOCK FALSE
