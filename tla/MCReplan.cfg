SPECIFICATION Spec
CONSTANTS
    d1 = d1
    t1 = t1
    t2 = t2
    pA = pA
    pB = pB
    pC = pC
    o1 = o1
    o2 = o2
    move1 = move1
    move2 = move2
    recover1 = recover1
    recover2 = recover2
    undo1 = undo1
    again1 = again1
    undo2 = undo2
    x1 = x1
    x2 = x2
    x3 = x3
    x4 = x4
    x5 = x5
    x6 = x6
    x7 = x7
    dest2 = pB
    undoes2 = t2
    None = None
    Vacant = Vacant
    Documents = {d1}
    AuditIds = {x1, x2, x3, x4, x5, x6, x7}
    InitialPath <- MCInitialPath
    InitialFiles <- MCInitialFiles
    Request <- MCRequest
    Calls = {move1, move2, recover1, recover2, undo1}
    Transactions = {t1, t2}
    Paths = {pA, pB, pC}
    Objects = {o1}
    Exclusive = TRUE
    MaxRollbackEvents = 4
    MaxFaults = 1
    MaxMeddling = 0
INVARIANT FindableFile
CHECK_DEADLOCK FALSE
