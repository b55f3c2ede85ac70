SPECIFICATION ZmodemSpec
CONSTANTS
    Sizes <- ThreeFiles
    TooBig <- Second
    LooksBad <- FirstBlock
    MaxFaults = 2
    MaxAsks = 1
    MaxLine = 5
PROPERTY TransfersFiles
PROPERTY Recovers
CHECK_DEADLOCK FALSE
