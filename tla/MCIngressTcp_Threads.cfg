SPECIFICATION FairSpec
CONSTANTS
    c1 = c1
    c2 = c2
    r1 = r1
    n3 = n3
    n4 = n4
    None = None
    NoId = NoId
    Conns = {c1, c2}
    Replies = {r1}
    Fds = {n3, n4}
    MaxPackets = 1
    Flows <- BothFlows
    Strangers <- OneStranger
    FlowOf <- TwoFlows
SYMMETRY FdSymmetry
CHECK_DEADLOCK FALSE
INVARIANTS
    TypeOK
    OwnDescriptor
    ForeignDeliveryIsExplained
PROPERTY
    DisconnectCleans
