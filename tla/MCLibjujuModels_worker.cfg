SPECIFICATION Spec
CONSTANTS
    w1 = w1
    w2 = w2
    c1 = c1
    c2 = c2
    c3 = c3
    d1 = d1
    d2 = d2
    ns = ns
    ns_k8s = ns_k8s
    NONE = NONE
    Worker = {w1}
    Model = {ns, ns_k8s}
    Task <- WorkerTask
    WorkerOf <- WorkerWorkerOf
    KindOf <- WorkerKindOf
    Target <- WorkerTarget
    Matched <- WorkerMatched
CHECK_DEADLOCK FALSE
INVARIANTS
    TypeOK
    LockHeldByCreator
    CreateOnlyUncached
    CacheHoldsOwnCreations
    DeleteReturnsGone
