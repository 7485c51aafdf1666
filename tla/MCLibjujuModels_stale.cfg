SPECIFICATION Spec
CONSTANTS
    w1 = w1
    w2 = w2
    c1 = c1
    c2 = c2
    c3 = c3
    d1 = d1
    d2 = d2
    ns = ns
    ns_k8s = ns_k8s
    NONE = NONE
    Worker = {w1, w2}
    Model = {ns}
    Task <- StaleTask
    WorkerOf <- StaleWorkerOf
    KindOf <- StaleKindOf
    Target <- StaleTarget
    Matched <- StaleMatched
CHECK_DEADLOCK FALSE
PROPERTIES
    CachedModelExists
