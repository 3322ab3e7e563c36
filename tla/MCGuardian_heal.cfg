SPECIFICATION FairSpec
CONSTANTS
    unifi = unifi
    generic = generic
    Driver = {unifi, generic}
    DriverLists <- MCTwoDrivers
    Managed = {generic}
    External = {}
    Pinned = {unifi}
    Image = {i1, i2}
    NoImage = NoImage
    Modes = {FALSE}
    Retries = 1
    MaxHelm = 1
    MaxRestart = 1
    MaxFault = 0
    MaxCrash = 0
PROPERTIES
    SelfHeals
