SPECIFICATION Spec
CONSTANTS
    unifi = unifi
    generic = generic
    Driver = {unifi, generic}
    DriverLists <- MCChangingDrivers
    Managed = {generic}
    External = {}
    Pinned = {}
    Image = {i1, i2}
    NoImage = NoImage
    Modes = {TRUE, FALSE}
    Retries = 0
    MaxHelm = 1
    MaxRestart = 0
    MaxFault = 1
    MaxCrash = 1
INVARIANTS
    TypeOK
    SecretBeforeRollout
    RevertNeverStrands
    RevertRemoves
    ZeroWhileRepaired
PROPERTIES
    WheelsBeforeRollout
    RepairNeverUnlists
    DryRunNeverInstalls
SYMMETRY MCImages
VIEW MCView
