SPECIFICATION Spec
CONSTANTS
    m1 = m1
    m2 = m2
    a1 = a1
    a2 = a2
    u1 = u1
    act1 = act1
    NONE = NONE
    Entity = {m1, m2}
    awaited = m1
    TypeOf <- MachineType
    AppOf <- MachineApp
    Reported <- MachineReported
    MaxChanges = 2
CHECK_DEADLOCK FALSE
INVARIANTS
    TimeoutIsRaised
