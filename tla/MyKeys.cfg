SPECIFICATION Spec
CONSTANTS
    one = one
    other = other
    ann = ann
    bob = bob
    k1 = k1
    k2 = k2
    k3 = k3
    net = net
    Console = Console
    Nobody = Nobody
    Sessions = {one, other}
    Usernames = {ann, bob}
    Keys = {k1, k2, k3}
    Nets = {net}
    InitialUsers <- OneEach
    InitialGrants = {}
    InitialNets = {}
    InitialOptions <- OwnKeys
    Asked <- KeyWork
    Picked <- Promoting
    Added = {k3}
    kMaxKeysPerUser = 2
    MaxId = 4
SYMMETRY Symmetry
PROPERTY OwnRemovalLeavesAKey
PROPERTY OwnKeysAreNew
PROPERTY NoOneLocksThemselfOut
CHECK_DEADLOCK FALSE
