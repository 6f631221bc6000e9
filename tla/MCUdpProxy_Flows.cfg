SPECIFICATION Spec
CONSTANTS
    d1 = d1
    d2 = d2
    a1 = a1
    a2 = a2
    r1 = r1
    p1 = p1
    p2 = p2
    None = None
    NoId = NoId
    Datagrams = {d1, d2}
    Replies = {r1}
    Addrs = {a1, a2}
    Classified = {d1, d2}
    MaxRestarts = 1
    Packets = {p1, p2}
    MaxAnswers = 1
    MaxOthers = 0
    Strangers = {}
    Flows <- BothFlows
    FlowOf <- TwoFlows
    AddrOf <- TwoAddrs
    DatagramOf <- OneEach
CHECK_DEADLOCK FALSE
INVARIANTS
    DeliveryHasItsRoundTrip
    EntryAwaitsEgress
