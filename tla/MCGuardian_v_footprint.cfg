SPECIFICATION Spec
CONSTANTS
    unifi = unifi
    generic = generic
    Driver = {generic}
    DriverLists <- MCOneDriver
    Managed = {generic}
    External = {}
    Pinned = {}
    Image = {i1}
    NoImage = NoImage
    Modes = {TRUE, FALSE}
    Retries = 1
    MaxHelm = 0
    MaxRestart = 0
    MaxFault = 1
    MaxCrash = 1
PROPERTIES
    ZeroFootprint
