SPECIFICATION FairSpec
CONSTANTS
    d1 = d1
    d2 = d2
    d3 = d3
    a1 = a1
    a2 = a2
    r1 = r1
    r2 = r2
    None = None
    NoId = NoId
    Datagrams = {d1, d2, d3}
    Replies = {r1, r2}
    Addrs = {a1, a2}
    Classified = {d1, d3}
    MaxRestarts = 0
    Flows <- BothFlows
    Strangers = {}
    FlowOf <- SharedFlow
    AddrOf <- TwoAddrs
CHECK_DEADLOCK FALSE
INVARIANT
    SoleEntryIsReachable
PROPERTY
    SoleEntryIsRemoved
