SPECIFICATION Spec
CONSTANTS
    Requests <- MCRequests
    MaxUnsuited = 2
    MaxChanges = 1
INVARIANTS
    NothingLastinglyUnsafe
    DenialIsTrue
