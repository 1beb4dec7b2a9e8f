SPECIFICATION FairSpec
CONSTANTS
    Depth = 2
    Chains = 2
    Natures <- MCNatures
    MaxChanges = 2
INVARIANTS
    DarwinTypeOK
    AcceptedChainIsReal
    QuietIsDecided
PROPERTY
    ProbeReturns
