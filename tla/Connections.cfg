SPECIFICATION Spec
CONSTANTS
    c1 = c1
    c2 = c2
    Conns = {c1}
    Wants = {"shell", "sftp", "command", "scp", "mosh"}
    MaxRestarts = 1
PROPERTY ForkRule
PROPERTY NoOrphans
PROPERTY NoneStalls
PROPERTY PortFreed
CHECK_DEADLOCK FALSE
