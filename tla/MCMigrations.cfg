SPECIFICATION FairSpec
CONSTANTS
    old = old
    new = new
    other = other
    Openers = {old, new, other}
    Nobody = Nobody
    Latest <- MCLatest
    MaxFaults = 2
INVARIANTS
    DatabaseTypeOK
    SchemaMatchesHistory
    OpenedUsable
PROPERTIES
    NewerUntouched
    OpenersSucceed
CHECK_DEADLOCK FALSE
