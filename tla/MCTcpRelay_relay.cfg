SPECIFICATION FairSpec
CONSTANTS
    c1 = c1
    n1 = n1
    n2 = n2
    a1 = a1
    w1 = w1
    Workers = {w1, w2}
    Conns = {c1, c2}
    Addrs = {a1, a2}
    Remotes = {r1}
    Queries = {1, 2, 3}
    ConnOf <- MCConnOf
    QuestionOf <- MCQuestionOf
    MaxIndex = 1
    MaxEvents = 4
    Listener = listener
    None = none
CONSTRAINT FirstAddressFirst
ACTION_CONSTRAINT FirstWorkerFirst
INVARIANTS TypeOK RegisteredIsListed AnswerReachesAsker ClosedOnlyIfHungUp
PROPERTIES HungUpIsClosed QueryForwarded AnswerRelayed
CHECK_DEADLOCK FALSE
