SPECIFICATION Spec
CONSTANTS
    w1 = w1
    w2 = w2
    h1 = h1
    h2 = h2
    op = op
    CTOR = CTOR
    NONE = NONE
    Worker = {w1, w2}
    Call = {h1, h2}
    WorkerOf <- HealthWorkerOf
    KindOf <- HealthKindOf
    Faults = {"connection"}
    MaxVersion = 1
INVARIANTS
    HealthCheckLives
