SPECIFICATION FairSpec
CONSTANTS
    p1 = p1
    p2 = p2
    p3 = p3
    s1 = s1
    s2 = s2
    None = None
    NoId = NoId
    Packets = {p1, p2, p3}
    Socks = {s1, s2}
    MaxAnswers = 1
    Strangers <- OneStranger
    Flows <- BothFlows
    FlowOf <- SharedFlow
SYMMETRY SockSymmetry
CHECK_DEADLOCK FALSE
INVARIANTS
    TypeOK
    FlowIsKept
PROPERTY
    HangupEndsWait
