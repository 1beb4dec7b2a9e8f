SPECIFICATION Spec
CONSTANTS
    Length = 3
    Calls <- MCFileCalls
    Natures = {"plain"}
    MaxFlaws = 0
    MaxChanges = 1
INVARIANT
    IdentityConfirmed
