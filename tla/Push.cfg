SPECIFICATION Spec
CONSTANTS
    a = a
    b = b
    c = c
    x = x
    s1 = s1
    s2 = s2
    x1 = x1
    f1 = f1
    f2 = f2
    fx = fx
    fA = fA
    fX = fX
    fB = fB
    k2 = k2
    k1 = k1
    Sites = {k1}
    Sessions = {s1, x1}
    Names = {a, b, c, x}
    HomeOf <- MCHomeOf
    AdHocNames = {x}
    Alike <- MCAlike
    FileOf <- MCFileOf
    NetFile <- MCNetFile
    InitialNets <- HasC
    InitialGrants = {1}
    CanCreateNets = TRUE
    Pushable = {s1, a, x1}
    MaxNets = 3
    MaxPushes = 2
    MaxRows = 4
    MaxJobs = 2
    NoName = NoName
    NoFile = NoFile
INVARIANT NotTwice
INVARIANT PushedIsThere
PROPERTY AskedFirst
PROPERTY PushesEnd
CHECK_DEADLOCK FALSE
