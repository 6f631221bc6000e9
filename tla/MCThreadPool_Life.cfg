SPECIFICATION FairSpec
CONSTANTS
    w1 = w1
    w2 = w2
    t1 = t1
    t2 = t2
    t3 = t3
    NoTask = NoTask
    Workers = {w1, w2}
    Tasks = {t1, t2, t3}
CHECK_DEADLOCK FALSE
INVARIANTS
    TypeOK
    NoLostWakeup
    DrainedWhenDestroyed
PROPERTIES
    EveryTaskRuns
    DestructorReturns
