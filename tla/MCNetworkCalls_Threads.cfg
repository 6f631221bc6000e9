SPECIFICATION FairSpec
CONSTANTS
    t1 = t1
    t2 = t2
    Threads = {t1, t2}
    Fds = {3, 4, 5}
    MaxAddrs = 2
    MaxCalls <- TwoAndOne
    NoFd = NoFd
    Free = Free
CHECK_DEADLOCK FALSE
INVARIANTS
    TypeOK
    OwnDescriptor
    LeaksAreExplained
    ConnectReturnsConnection
PROPERTIES
    ImplementsRemoteCall
    CallsEnd
