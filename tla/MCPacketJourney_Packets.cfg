SPECIFICATION Spec
CONSTANTS
    Packets <- SomePackets
    Answers <- SomeAnswers
    SfcMap <- ZeroMap
    PathLens = {0, 1, 61, 62}
    IngressEnd = IngressEnd
    EgressEnd = EgressEnd
    MyIp <- EgressIp
    ExtPort = 9000
    None = None
CHECK_DEADLOCK FALSE
INVARIANTS
    TypeOK
    KeysAgree
    EntryHasBothEnds
    TtlCoversPath
    ForgedIsAccepted
    PayloadsArrive
