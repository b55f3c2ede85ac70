SPECIFICATION Spec
CONSTANTS
    w1 = w1
    w2 = w2
    a = a
    b = b
    c = c
    s1 = s1
    s2 = s2
    s3 = s3
    Windows = {w1}
    Console = w1
    Names = {a, b, c}
    Alike <- AlikeAB
    Sessions = {s1, s2, s3}
    InitialNets <- JustA
    InitialRows <- OneRow
    NetExports <- SmallExport
    SessionExports <- SessionFile
    Upstream <- UpstreamNets
    Elsewhere = {"edit", "delete net", "console ends"}
    Created = {a, b}
    MaxNets = 2
    MaxWrites = 2
    MaxGenerations = 4
    NoFile = NoFile
INVARIANT NotTwiceHere
PROPERTY NoPullLeft
PROPERTY PulledIsWanted
PROPERTY PullsEnd
CHECK_DEADLOCK FALSE
