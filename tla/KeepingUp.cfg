SPECIFICATION FairSpec
CONSTANTS
    ann = ann
    bob = bob
    callA = callA
    callB = callB
    callAM = callAM
    NoUser = NoUser
    NoCall = NoCall
    NetControl = NetControl
    NoRole = NoRole
    Users = {ann, bob}
    Callsigns = {callA, callB}
    Roles = {NetControl}
    Base <- BaseOf
    OperatorCallsign <- CallsignOf
    Power <- BothLog
    StatementsFail = FALSE
    MaxSessions = 1
    MaxCheckIns = 1
    MaxTasks = 2
    Keys = {"view", "log", "pick", "delete", "close"}
PROPERTY ToldWhenClosed
PROPERTY StaysInStep
