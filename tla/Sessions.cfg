SPECIFICATION Spec
CONSTANTS
    ann = ann
    bob = bob
    callA = callA
    callB = callB
    callAM = callAM
    NoUser = NoUser
    NoCall = NoCall
    NetControl = NetControl
    NoRole = NoRole
    Users = {ann, bob}
    Callsigns = {callA, callB}
    Roles = {NetControl}
    Base <- BaseOf
    OperatorCallsign <- CallsignOf
    Power <- AnnManages
    StatementsFail = FALSE
    MaxSessions = 2
    MaxCheckIns = 2
    MaxTasks = 1
    Keys = {"view", "close", "closeNew", "history", "saved"}
INVARIANT CloserNeverTold
PROPERTY ClosedStays
PROPERTY WatchersOnlyWatch
INVARIANT ReferencesHold
