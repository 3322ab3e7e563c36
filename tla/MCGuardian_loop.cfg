SPECIFICATION FairSpec
CONSTANTS
    unifi = unifi
    generic = generic
    Driver = {generic}
    DriverLists <- MCOneDriver
    Managed = {generic}
    External = {}
    Pinned = {}
    Image = {i1}
    NoImage = NoImage
    Modes = {TRUE, FALSE}
    Retries = 1
    MaxHelm = 1
    MaxRestart = 0
    MaxFault = 2
    MaxCrash = 1
PROPERTIES
    RunsTerminate
    NeverGivesUp
    Converges
    UndoCompletes
    GaugeFollows
