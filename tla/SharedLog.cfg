SPECIFICATION Spec
CONSTANTS
    ann = ann
    bob = bob
    callA = callA
    callB = callB
    callAM = callAM
    NoUser = NoUser
    NoCall = NoCall
    NetControl = NetControl
    NoRole = NoRole
    Users = {ann, bob}
    Callsigns = {callA, callB, callAM}
    Roles = {NetControl}
    Base <- BaseOf
    OperatorCallsign <- CallsignOf
    Power <- BothLog
    StatementsFail = TRUE
    MaxSessions = 1
    MaxCheckIns = 2
    MaxTasks = 1
    Keys = {"log", "edit", "pick", "delete", "disconnect"}
INVARIANT UnnoticedIsUnchanged
INVARIANT NextNumbersDistinct
INVARIANT LoggedOnceButOperator
PROPERTY DeletesWhatWasNamed
PROPERTY OperatorKeepsRole
PROPERTY NumbersStand
