SPECIFICATION Spec
CONSTANTS
    one = one
    other = other
    ann = ann
    bob = bob
    k1 = k1
    k2 = k2
    k3 = k3
    net = net
    Console = Console
    Nobody = Nobody
    Sessions = {one, other}
    Usernames = {ann, bob}
    Keys = {k1, k2}
    Nets = {net}
    InitialUsers <- AdminAndNetAdmin
    InitialGrants <- BobsNet
    InitialNets = {net}
    InitialOptions <- Restricted
    Asked <- NetWork
    Picked <- Watching
    Added = {}
    kMaxKeysPerUser = 3
    MaxId = 2
SYMMETRY Symmetry
PROPERTY NetsGoToThoseWhoLog
CHECK_DEADLOCK FALSE
