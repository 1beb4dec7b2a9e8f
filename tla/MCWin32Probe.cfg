SPECIFICATION Spec
CONSTANTS
    Length = 3
    Calls <- MCCalls
    Natures <- MCNatures
    MaxFlaws = 3
    MaxChanges = 2
INVARIANTS
    Win32TypeOK
    AcceptedChainIsReal
    QuietIsDecided
