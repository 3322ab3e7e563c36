SPECIFICATION FairSpec
CONSTANTS
    generic = generic
    Driver = {generic}
    OldLists <- MCOneDriver
    NewLists <- MCOneDriver
    OldModes = {TRUE, FALSE}
    NewModes = {TRUE, FALSE}
    Managed = {generic}
    External = {}
    Pinned = {}
    Image = {i1}
    NoImage = NoImage
    Retries = 1
    MaxHelm = 0
    MaxRestart = 0
INVARIANTS
    TypeOK
    SecretBeforeRollout
PROPERTIES
    DryRunStaysDry
    HandoverUndoes
    HandoverHeals
    HandoverRelists
    HandoverConverges
