SPECIFICATION Spec
CONSTANTS
    unifi = unifi
    generic = generic
    Driver = {unifi, generic}
    DriverLists <- MCTwoDrivers
    Managed = {generic}
    External = {}
    Pinned = {unifi}
    Image = {i1, i2}
    NoImage = NoImage
    Modes = {TRUE, FALSE}
    Retries = 1
    MaxHelm = 1
    MaxRestart = 0
    MaxFault = 0
    MaxCrash = 0
INVARIANTS
    BuiltForImage
