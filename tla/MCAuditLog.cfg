SPECIFICATION Spec
CONSTANTS
    Writers = {w1, w2}
    NoOne = NoOne
    Events <- MCEvents
    Transactions = {"txn_1", "txn_2"}
    Recorded = {"txn_1"}
    States = {"planned", "moved"}
    MaxBatch = 2
    MaxJournal = 2
INVARIANTS
    AuditTypeOK
    Chained
    ReturnedStays
PROPERTY
    AppendOnly
