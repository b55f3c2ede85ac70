SPECIFICATION Spec
CONSTANTS
    c1 = c1
    c2 = c2
    a = a
    b = b
    c = c
    OldName = OldName
    NewName = NewName
    Connections = {c1, c2}
    ViewOnly = {}
    Names = {a, b, c}
    Dirs = {OldName, NewName}
    Asks <- OneOfEach
    LoginsAfterMove = FALSE
    MaxUpload = 2
    MaxImports = 2
    MaxUploads = 2
    AtOnce = 2
    MaxMoved = 1
    Smallest = 1
    Longest = 2
SYMMETRY Symmetry
INVARIANT OnlyWhole
INVARIANT NoStrayTemps
INVARIANT WithinOneFile
PROPERTY ToldIsThere
CHECK_DEADLOCK FALSE
