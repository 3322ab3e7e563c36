SPECIFICATION Spec
CONSTANTS
    unifi = unifi
    generic = generic
    Driver = {generic}
    DriverLists <- MCOneDriver
    Managed = {generic}
    External = {}
    Pinned = {}
    Image = {i1}
    NoImage = NoImage
    Modes = {FALSE}
    Retries = 1
    MaxHelm = 1
    MaxRestart = 0
    MaxFault = 0
    MaxCrash = 0
PROPERTIES
    RenderingKept
