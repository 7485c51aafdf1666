SPECIFICATION FairSpec
CONSTANTS
    m1 = m1
    m2 = m2
    a1 = a1
    a2 = a2
    u1 = u1
    act1 = act1
    NONE = NONE
    Entity = {a1, a2, u1}
    awaited = a1
    TypeOf <- ApplicationType
    AppOf <- ApplicationApp
    Reported <- ApplicationReported
    MaxChanges = 2
CHECK_DEADLOCK FALSE
INVARIANTS
    TypeOK
    WatcherIsCaughtUp
    ReturnsOnFinalState
    CompletedIsFinal
PROPERTIES
    ImplementsStatusReport
    WaitEnds
