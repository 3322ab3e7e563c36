SPECIFICATION Spec
CONSTANTS
    unifi = unifi
    generic = generic
    Driver = {unifi, generic}
    Name <- MCName
    DriverLists <- MCDriverLists
    Renderings <- MCRenderings
INVARIANTS
    TypeOK
    ForeignKept
    LoggersMatch
    ScriptWellFormed
    RoundTrip
PROPERTIES
    EditsAsEntries
