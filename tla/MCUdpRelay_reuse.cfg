SPECIFICATION Spec
CONSTANTS
    q1 = q1
    r1 = r1
    a = a
    b = b
    v4 = v4
    v6 = v6
    NoQuery = NoQuery
    NoFamily = NoFamily
    Workers = {w1, w2}
    Queries = {q1, q2, q3}
    Remotes = {r1}
    Families = {v4}
    Names = {a, b}
    Answered = {a, b}
    QuestionOf <- QuestionOf_ab
    ClientFamily <- ClientFamily_v4
    RemoteFamily <- RemoteFamily_v4
    MaxIndex = 1
    MaxClock = 1
SYMMETRY Symmetry
INVARIANTS TypeOK ReplyAnswersItsQuery PendingHasTimer NoForgottenQuery TimedOutByOwnTimer
CHECK_DEADLOCK FALSE
