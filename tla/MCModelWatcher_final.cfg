SPECIFICATION Spec
CONSTANTS
    m1 = m1
    m2 = m2
    a1 = a1
    a2 = a2
    u1 = u1
    act1 = act1
    NONE = NONE
    Entity = {act1, u1}
    awaited = act1
    TypeOf <- ActionType
    AppOf <- ActionApp
    Reported <- ActionReported
    MaxChanges = 2
CHECK_DEADLOCK FALSE
INVARIANTS
    FinalStateIsWritten
