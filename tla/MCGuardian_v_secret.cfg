SPECIFICATION FairSpec
CONSTANTS
    unifi = unifi
    generic = generic
    Driver = {unifi, generic}
    DriverLists <- MCTwoDrivers
    Managed = {generic}
    External = {}
    Pinned = {}
    Image = {i1}
    NoImage = NoImage
    Modes = {FALSE}
    Retries = 1
    MaxHelm = 0
    MaxRestart = 0
    MaxFault = 1
    MaxCrash = 0
PROPERTIES
    PodComesUp
