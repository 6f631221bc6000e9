SPECIFICATION FairSpec
CONSTANTS
    p1 = p1
    p2 = p2
    None = None
    NoId = NoId
    Packets = {p1, p2}
    MaxAnswers = 1
    MaxOthers = 1
    Strangers <- OneStranger
    Flows <- BothFlows
    FlowOf <- TwoFlows
CHECK_DEADLOCK FALSE
INVARIANTS
    TypeOK
    NoAnswerMissed
    ForeignAnswerIsExplained
PROPERTY
    AnswerEndsWait
