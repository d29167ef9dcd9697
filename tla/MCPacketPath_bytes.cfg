SPECIFICATION Spec
CONSTANTS
    QueryNames <- MCNames
    QueryFlags <- MCQueryFlags
    AnswerFlags <- MCAnswerFlags
    AnswerSections <- MCSections
    Ids = {1, 300}
    Garbage <- MCGarbage
INVARIANTS Transparent OwnQuestionOnly PrefixIsLength ServfailTellsFailure
CHECK_DEADLOCK FALSE
