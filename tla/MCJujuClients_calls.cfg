SPECIFICATION MCSpec
CONSTANTS
    p1 = p1
    host = host
    in1 = in1
    in2 = in2
    cfg = cfg
    prim = prim
    ssh = ssh
    rel = rel
    x = x
    y = y
    ix = ix
    iy = iy
    jx = jx
    un = un
    rst = rst
    kprim = kprim
    look = look
    ini = ini
    ka = ka
    kb = kb
    w1 = w1
    w2 = w2
    w3 = w3
    appl = appl
    mach = mach
    u1 = u1
    u2 = u2
    u3 = u3
    lo = lo
    n1 = n1
    n2 = n2
    cr = cr
    de = de
    d1 = d1
    d2 = d2
    d3 = d3
    re = re
    nsr = nsr
    ch1 = ch1
    ch2 = ch2
    Prov = {p1}
    Host = {host}
    HostOf <- MCHostOf
    Retries = 1
    MaxPolls = 2
    Op = {in1, in2, cfg, prim, ssh, rel}
    OpKind <- MCOpKind
    MachineOf <- MCMachineOf
    Units = 2
    Verifiable = TRUE
    Verify = 3
    NOBODY = NOBODY
    KCall = {ix, iy, jx, un, rst, kprim, look, ini}
    KKind <- MCKKind
    Cluster = {x, y}
    ClusterOf <- MCClusterOf
    Instance = {ka, kb}
    InstanceOf <- MCInstanceOf
    NonAtomic = {jx}
    Logins = 4
    NOWHERE = NOWHERE
    Waiter = {w1, w2, w3}
    Watched = {appl, mach}
    WatchedBy <- MCWatchedBy
    Applications = {appl}
    Destroyed = {mach}
    Changes = 2
    NOONE = NOONE
    SCall = {u1, u2, u3, lo}
    SKind <- MCSKind
    ModelName = {n1, n2}
    NameOf <- MCNameOf
    LCall = {cr, de, d1, d2, d3, re}
    LKind <- MCLKind
    Service = {nsr}
    ServiceOf <- MCServiceOf
    Charm = {ch1, ch2}
    CharmOf <- MCCharmOf
    Declared <- MCDeclared
    Known = {1, 2}
CHECK_DEADLOCK FALSE
INVARIANTS
    ClientsTypeOK
    AgentKeepsConnection
    VerifyOneAtATime
    OneConnection
    WorkdirIsRestored
    NoLostWakeup
    ShownIsCurrent
    ModelOpenedOnce
    OpenIsObserved
    PrimitivesInOrder
PROPERTIES
    CharmCallEnds
    ImplementsBundleLife
    ImplementsEnvironmentLife
