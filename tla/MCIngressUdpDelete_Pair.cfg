SPECIFICATION DeleteSpec
CONSTANTS
    d1 = d1
    d2 = d2
    a1 = a1
    a2 = a2
    r1 = r1
    None = None
    NoId = NoId
    Datagrams = {d1, d2}
    Replies = {r1}
    Addrs = {a1, a2}
    Classified = {d1, d2}
    MaxRestarts = 0
    Strangers = {}
    Flows <- OneFlow
    FlowOf <- PairFlow
    AddrOf <- PairAddrs
CHECK_DEADLOCK FALSE
INVARIANT
    DeleteReachesRoulette
