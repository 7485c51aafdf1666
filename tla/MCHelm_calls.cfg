SPECIFICATION MCSpec
CONSTANTS
    i1 = i1
    i2 = i2
    up = up
    back = back
    un = un
    k1 = k1
    k2 = k2
    env = env
    wipe = wipe
    s1 = s1
    s2 = s2
    s3 = s3
    ra = ra
    rb = rb
    rc = rc
    na = na
    nb = nb
    n1 = n1
    n2 = n2
    NONE = NONE
    Call = {i1, i2, up, back, un}
    KindOf <- MCKindOf
    Kdu = {k1, k2}
    KduOf <- MCKduOf
    Atomic = {i1, up}
    Name = {n1, n2}
    Admin = {env, wipe, s1, s2, s3}
    AdminKind <- MCAdminKind
    Forced = {wipe}
    WithSoftware = {wipe}
    Repo = {ra, rb, rc}
    RepoName = {na, nb}
    NameOfRepo <- MCNameOfRepo
    Operator = 3
CHECK_DEADLOCK FALSE
INVARIANTS
    TypeOK
    NothingLeftBehind
    FinalStatusStands
    SyncedAsWanted
    InitializedIsReady
    ResetTakesAllListed
PROPERTIES
    ImplementsKduLife
    KduCallEnds
