SPECIFICATION MapSpec
CONSTANTS
    v1 = v1
    v2 = v2
    Values = {v1, v2}
    Missing = Missing
    KeySets <- AllKeySets
INVARIANTS
    TypeOK
    FindIsSound
    FindIsComplete
PROPERTY
    ImplementsStdMap
