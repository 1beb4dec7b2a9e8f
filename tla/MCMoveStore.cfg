SPECIFICATION StoreSpec
CONSTANTS
    d1 = d1
    t1 = t1
    t2 = t2
    pA = pA
    pB = pB
    o1 = o1
    x1 = x1
    x2 = x2
    x3 = x3
    None = None
    Documents = {d1}
    Transactions = {t1, t2}
    Paths = {pA, pB}
    Objects = {o1}
    AuditIds = {x1, x2, x3}
    InitialPath <- MCInitialPath
    MaxRollbackEvents = 3
SYMMETRY Symmetry
INVARIANTS
    TypeOK
    JournalsAgree
    PointerSound
    LocationKnown
    AuditContinuous
    AuditAgrees
PROPERTY LedgerSpec
CHECK_DEADLOCK FALSE
