SPECIFICATION Spec
CONSTANTS
    console = console
    updater = updater
    saved = saved
    seed = seed
    user = user
    license = license
    Processes = {console, updater}
    Stations = {saved, seed}
    Seeds = {seed}
    Usernames = {user}
    Leftovers = {license}
    Releases = {"1.4", "1.9", "2.1", "new"}
SYMMETRY Symmetry
INVARIANT UpgradedWhole
PROPERTY RowsKept
