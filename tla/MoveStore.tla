----------------------------- MODULE MoveStore -----------------------------
(***************************************************************************)
(* The durable SQLite state of My Senior Intern's file moves               *)
(* (fileops/move_store.py, move_commit.py, recovery_store.py, and the      *)
(* tables of core/schema_v1.py to schema_v3.py).                           *)
(*                                                                         *)
(* Every public function of the two stores is one BEGIN IMMEDIATE          *)
(* transaction, so it is one action here.  It is split in two: May...      *)
(* says that none of its checks raises, and the action itself adds the     *)
(* writes.  When May... is false the function rolls back and raises, and   *)
(* the database is unchanged; what the caller does then is modelled in     *)
(* MoveSystem, where the callers are.  The callers of this module's own    *)
(* StoreSpec are arbitrary: any thread may call any function with any      *)
(* context a request or a loaded record can supply.                        *)
(***************************************************************************)
EXTENDS Integers, Sequences

CONSTANTS
    Documents,          \* documents.document_id
    Transactions,       \* move_transactions.transaction_id
    Paths,              \* normalised absolute paths
    Objects,            \* file identities (device and inode)
    AuditIds,           \* audit event identifiers, also rollback attempt ids
    None,               \* SQL NULL
    InitialPath,        \* documents.current_path when the document is indexed
    MaxRollbackEvents   \* bound on the rollback journal of one transaction

ASSUME StoreAssumption ==
    /\ InitialPath \in [Documents -> Paths]
    /\ MaxRollbackEvents \in Nat
    /\ None \notin Documents \cup Transactions \cup Paths \cup Objects \cup AuditIds

VARIABLES
    documents,                \* [path, transaction] of each document
    document_paths,           \* path history of each document
    move_transactions,        \* one row per transaction, or NoRow
    move_transaction_events,  \* forward journal of each transaction
    move_rollbacks,           \* [state, attempt] of each transaction, or NoRollback
    move_rollback_events,     \* rollback journal of each transaction
    audit_events              \* the audit log, in sequence order

storeVars == <<documents, document_paths, move_transactions, move_transaction_events,
               move_rollbacks, move_rollback_events, audit_events>>

ForwardStates == {"planned", "validated", "moving", "moved", "verified",
                  "committed", "rollback_required", "failed"}

RollbackStates == {"rolling_back", "rolled_back", "rollback_failed"}

\* The forward transitions move_store.transition accepts.
Allowed ==
    { <<"planned", "validated">>, <<"planned", "failed">>,
      <<"validated", "moving">>, <<"validated", "failed">>,
      <<"moving", "moved">>, <<"moving", "failed">>, <<"moving", "rollback_required">>,
      <<"moved", "verified">>, <<"moved", "rollback_required">>,
      <<"verified", "committed">>, <<"verified", "rollback_required">> }

Rows == [state : ForwardStates, document : Documents, source : Paths,
         destination : Paths, object : Objects]
NoRow == [state |-> "absent", document |-> None, source |-> None,
          destination |-> None, object |-> None]

Rollbacks == [state : RollbackStates, attempt : AuditIds]
NoRollback == [state |-> "absent", attempt |-> None]

PathEntries == [path : Paths, reason : {"automatic_move", "manual_undo"}]

AuditTypes == {"document_moved", "move_undone", "move_recovered"}
AuditEvents == [id : AuditIds, type : AuditTypes, transaction : Transactions,
                document : Documents, source : Paths, destination : Paths]

\* What a caller knows of the transaction it works on.  "forward" is the state
\* of the record it loaded, which may be stale; a forward move has no use for it.
Contexts == [transaction : Transactions, document : Documents, source : Paths,
             destination : Paths, audit : AuditIds, forward : ForwardStates]

TypeOK ==
    /\ documents \in [Documents -> [path : Paths, transaction : Transactions \cup {None}]]
    /\ document_paths \in [Documents -> Seq(PathEntries)]
    /\ move_transactions \in [Transactions -> Rows \cup {NoRow}]
    /\ move_transaction_events \in [Transactions -> Seq(ForwardStates)]
    /\ move_rollbacks \in [Transactions -> Rollbacks \cup {NoRollback}]
    /\ move_rollback_events \in [Transactions -> Seq(RollbackStates)]
    /\ audit_events \in Seq(AuditEvents)

StoreInit ==
    /\ documents = [d \in Documents |-> [path |-> InitialPath[d], transaction |-> None]]
    /\ document_paths = [d \in Documents |-> <<>>]
    /\ move_transactions = [t \in Transactions |-> NoRow]
    /\ move_transaction_events = [t \in Transactions |-> <<>>]
    /\ move_rollbacks = [t \in Transactions |-> NoRollback]
    /\ move_rollback_events = [t \in Transactions |-> <<>>]
    /\ audit_events = <<>>

-----------------------------------------------------------------------------
(* Checks shared by the operations. *)

\* The stored association of the transaction is the one the caller brings.
Matches(ctx) ==
    LET row == move_transactions[ctx.transaction]
    IN  /\ row # NoRow
        /\ row.document = ctx.document
        /\ row.source = ctx.source
        /\ row.destination = ctx.destination

\* audit_events.event_id is UNIQUE: a second insert with one id raises.
\* Faulty: without the UNIQUE constraint.
ReusedAuditId(a) == a \in AuditIds

UnusedAuditId(a) == \A i \in DOMAIN audit_events : audit_events[i].id # a

\* Faulty: the event does not say which transaction it is about.
UnlinkedAuditEvent(ctx, type) ==
    [id |-> ctx.audit, type |-> type, transaction |-> None,
     document |-> ctx.document, source |-> ctx.source, destination |-> ctx.destination]

AuditEvent(ctx, type) ==
    [id |-> ctx.audit, type |-> type, transaction |-> ctx.transaction,
     document |-> ctx.document, source |-> ctx.source, destination |-> ctx.destination]

-----------------------------------------------------------------------------
(* The forward move. *)

MayRecordPlan(t, d, source) ==
    /\ documents[d].path = source
    /\ move_transactions[t] = NoRow

RecordPlan(t, d, source, destination, object) ==
    /\ MayRecordPlan(t, d, source)
    /\ move_transactions' = [move_transactions EXCEPT ![t] =
           [state |-> "planned", document |-> d, source |-> source,
            destination |-> destination, object |-> object]]
    /\ move_transaction_events' =
           [move_transaction_events EXCEPT ![t] = Append(@, "planned")]
    /\ UNCHANGED <<documents, document_paths, move_rollbacks, move_rollback_events,
                   audit_events>>

\* Faulty: the UPDATE does not ask for the source path.
MayCommitFromAnywhere(ctx) == UnusedAuditId(ctx.audit)

MayCommitDocumentPath(ctx) ==
    /\ documents[ctx.document].path = ctx.source
    /\ UnusedAuditId(ctx.audit)

CommitDocumentPath(ctx) ==
    /\ documents' = [documents EXCEPT ![ctx.document] =
           [path |-> ctx.destination, transaction |-> ctx.transaction]]
    /\ document_paths' = [document_paths EXCEPT ![ctx.document] =
           Append(@, [path |-> ctx.destination, reason |-> "automatic_move"])]
    /\ audit_events' = Append(audit_events, AuditEvent(ctx, "document_moved"))

MayTransition(ctx, state) ==
    /\ Matches(ctx)
    /\ <<move_transactions[ctx.transaction].state, state>> \in Allowed
    /\ state = "committed" => MayCommitDocumentPath(ctx)

Transition(ctx, state) ==
    /\ MayTransition(ctx, state)
    /\ move_transactions' = [move_transactions EXCEPT ![ctx.transaction].state = state]
    /\ IF state = "committed"
       THEN CommitDocumentPath(ctx)
       ELSE UNCHANGED <<documents, document_paths, audit_events>>
    /\ move_transaction_events' =
           [move_transaction_events EXCEPT ![ctx.transaction] = Append(@, state)]
    /\ UNCHANGED <<move_rollbacks, move_rollback_events>>

-----------------------------------------------------------------------------
(* The rollback. *)

RollbackState(t) == move_rollbacks[t].state

\* start_rollback returns false: the transaction is rolled back already.
AlreadyRolledBack(ctx) == RollbackState(ctx.transaction) = "rolled_back"

\* Faulty: any move of this context can be undone, whatever its state.
MayStartAnyRollback(ctx) ==
    /\ ~AlreadyRolledBack(ctx)
    /\ RollbackState(ctx.transaction) = "rolling_back"
           => move_rollbacks[ctx.transaction].attempt = ctx.audit
    /\ Matches(ctx)

\* Faulty: an attempt joins a rollback that another attempt is working on.
MayJoinRollback(ctx) ==
    /\ ~AlreadyRolledBack(ctx)
    /\ move_transactions[ctx.transaction].state \in {"committed", "rollback_required"}
    /\ Matches(ctx)

\* Faulty: an attempt that was interrupted is not resumed.
MayStartNewRollback(ctx) ==
    /\ ~AlreadyRolledBack(ctx)
    /\ RollbackState(ctx.transaction) # "rolling_back"
    /\ move_transactions[ctx.transaction].state \in {"committed", "rollback_required"}
    /\ Matches(ctx)

\* Neither that, nor another attempt's rollback, nor a move that cannot be undone.
MayStartRollback(ctx) ==
    /\ ~AlreadyRolledBack(ctx)
    /\ RollbackState(ctx.transaction) = "rolling_back"
           => move_rollbacks[ctx.transaction].attempt = ctx.audit
    /\ move_transactions[ctx.transaction].state \in {"committed", "rollback_required"}
    /\ Matches(ctx)

\* A rollback this attempt started before is resumed without a write.
StartRollback(ctx) ==
    /\ MayStartRollback(ctx)
    /\ IF RollbackState(ctx.transaction) = "rolling_back"
       THEN UNCHANGED <<move_rollbacks, move_rollback_events>>
       ELSE /\ move_rollbacks' = [move_rollbacks EXCEPT ![ctx.transaction] =
                   [state |-> "rolling_back", attempt |-> ctx.audit]]
            /\ move_rollback_events' = [move_rollback_events EXCEPT ![ctx.transaction] =
                   Append(@, "rolling_back")]
    /\ UNCHANGED <<documents, document_paths, move_transactions,
                   move_transaction_events, audit_events>>

\* Faulty: the attempt is compared but not the state.
OwnedRollback(ctx) == move_rollbacks[ctx.transaction].attempt = ctx.audit

OwnsRollback(ctx) ==
    move_rollbacks[ctx.transaction] = [state |-> "rolling_back", attempt |-> ctx.audit]

\* Where the document must be for its path to be restored.
ExpectedPath(ctx) == IF ctx.forward = "committed" THEN ctx.destination ELSE ctx.source

MayCompleteRollback(ctx) ==
    /\ OwnsRollback(ctx)
    /\ documents[ctx.document].path = ExpectedPath(ctx)
    /\ UnusedAuditId(ctx.audit)

\* Faulty: the path history misses the restored path.
RestoreWithoutHistory(ctx) ==
    /\ documents' = [documents EXCEPT ![ctx.document] =
           [path |-> ctx.source, transaction |-> None]]
    /\ audit_events' = Append(audit_events, AuditEvent(ctx,
           IF ctx.forward = "committed" THEN "move_undone" ELSE "move_recovered"))
    /\ UNCHANGED document_paths

\* Faulty: the document keeps the transaction that is being undone.
RestoreWithoutReset(ctx) ==
    /\ documents' = [documents EXCEPT ![ctx.document].path = ctx.source]
    /\ document_paths' =
           IF ctx.forward = "committed"
           THEN [document_paths EXCEPT ![ctx.document] =
                    Append(@, [path |-> ctx.source, reason |-> "manual_undo"])]
           ELSE document_paths
    /\ audit_events' = Append(audit_events, AuditEvent(ctx,
           IF ctx.forward = "committed" THEN "move_undone" ELSE "move_recovered"))

RestoreDocumentPath(ctx) ==
    /\ documents' = [documents EXCEPT ![ctx.document] =
           [path |-> ctx.source, transaction |-> None]]
    /\ document_paths' =
           IF ctx.forward = "committed"
           THEN [document_paths EXCEPT ![ctx.document] =
                    Append(@, [path |-> ctx.source, reason |-> "manual_undo"])]
           ELSE document_paths
    /\ audit_events' = Append(audit_events, AuditEvent(ctx,
           IF ctx.forward = "committed" THEN "move_undone" ELSE "move_recovered"))

CompleteRollback(ctx) ==
    /\ MayCompleteRollback(ctx)
    /\ RestoreDocumentPath(ctx)
    /\ move_rollbacks' = [move_rollbacks EXCEPT ![ctx.transaction].state = "rolled_back"]
    /\ move_rollback_events' =
           [move_rollback_events EXCEPT ![ctx.transaction] = Append(@, "rolled_back")]
    /\ UNCHANGED <<move_transactions, move_transaction_events>>

MayFailRollback(ctx) == OwnsRollback(ctx)

FailRollback(ctx) ==
    /\ MayFailRollback(ctx)
    /\ move_rollbacks' = [move_rollbacks EXCEPT ![ctx.transaction].state = "rollback_failed"]
    /\ move_rollback_events' =
           [move_rollback_events EXCEPT ![ctx.transaction] = Append(@, "rollback_failed")]
    /\ UNCHANGED <<documents, document_paths, move_transactions,
                   move_transaction_events, audit_events>>

-----------------------------------------------------------------------------
(* Arbitrary callers.  A rollback context comes from a loaded record, so its  *)
(* forward state is one the transaction is or was in.                         *)

Loaded(ctx) ==
    /\ Matches(ctx)
    /\ \E i \in DOMAIN move_transaction_events[ctx.transaction] :
           move_transaction_events[ctx.transaction][i] = ctx.forward

Plan == \E t \in Transactions, d \in Documents, source, destination \in Paths, o \in Objects :
            RecordPlan(t, d, source, destination, o)

Move == \E ctx \in Contexts, state \in ForwardStates :
            ctx.forward = "planned" /\ Transition(ctx, state)

Rollback ==
    \E ctx \in Contexts :
        /\ Loaded(ctx)
        /\ \/ /\ Len(move_rollback_events[ctx.transaction]) < MaxRollbackEvents
              /\ StartRollback(ctx)
           \/ CompleteRollback(ctx)
           \/ FailRollback(ctx)

StoreNext == Plan \/ Move \/ Rollback

StoreSpec == StoreInit /\ [][StoreNext]_storeVars
-----------------------------------------------------------------------------
(* What the store promises. *)

Last(s) == s[Len(s)]

\* The snapshot row and its append-only journal never disagree: the row is in
\* the state the journal ends in, the journal is a path of _ALLOWED from
\* "planned", and a rollback is journaled only for a move that has settled as
\* committed or rollback_required.
ForwardJournalAgrees(t) ==
    LET events == move_transaction_events[t]
    IN  /\ move_transactions[t].state = IF events = <<>> THEN "absent" ELSE Last(events)
        /\ events # <<>> => events[1] = "planned"
        /\ \A i \in 1 .. Len(events) - 1 : <<events[i], events[i + 1]>> \in Allowed

RollbackJournalAgrees(t) ==
    LET events == move_rollback_events[t]
    IN  /\ RollbackState(t) = IF events = <<>> THEN "absent" ELSE Last(events)
        /\ events # <<>> => move_transactions[t].state \in {"committed", "rollback_required"}
        /\ \A i \in 1 .. Len(events) :
               IF i % 2 = 1 THEN events[i] = "rolling_back"
                            ELSE events[i] \in {"rolled_back", "rollback_failed"}
        /\ \A i \in 1 .. Len(events) - 1 : events[i] # "rolled_back"

JournalsAgree == \A t \in Transactions : ForwardJournalAgrees(t) /\ RollbackJournalAgrees(t)

\* documents.move_transaction_id names the transaction that put the document
\* where it is: one that committed, for this document, to this path, and has
\* not been rolled back, however many moves and undos came before.
PointerSound ==
    \A d \in Documents :
        LET t == documents[d].transaction
        IN  t # None => /\ move_transactions[t].state = "committed"
                        /\ move_transactions[t].document = d
                        /\ move_transactions[t].destination = documents[d].path
                        /\ RollbackState(t) # "rolled_back"

Origin(e) == IF e.type = "move_undone" THEN e.destination ELSE e.source
Target(e) == IF e.type = "document_moved" THEN e.destination ELSE e.source

\* Event i of the log is the last one about document d before position n.
IsLatest(log, i, d, n) ==
    /\ i \in 1 .. n - 1
    /\ log[i].document = d
    /\ \A j \in i + 1 .. n - 1 : log[j].document # d

\* d is at path p after the first n - 1 events of the log, by what they say.
AuditSays(log, d, n, p) ==
    \/ /\ \A i \in 1 .. n - 1 : log[i].document # d
       /\ p = InitialPath[d]
    \/ \E i \in 1 .. n - 1 : IsLatest(log, i, d, n) /\ p = Target(log[i])

\* Both records of where a document went, the audit log and the path history,
\* lead to the path in its row.
LocationKnown ==
    \A d \in Documents :
        /\ AuditSays(audit_events, d, Len(audit_events) + 1, documents[d].path)
        /\ documents[d].path = IF document_paths[d] = <<>> THEN InitialPath[d]
                               ELSE Last(document_paths[d]).path

\* The audit log has no gaps: every event takes its document from where the
\* earlier events left it, so two interleaved plans for one document never
\* both commit from the same source.
AuditContinuous ==
    \A n \in DOMAIN audit_events :
        AuditSays(audit_events, audit_events[n].document, n, Origin(audit_events[n]))

\* The audit events of these types about transaction t.
EventsOf(t, types) ==
    {i \in DOMAIN audit_events : audit_events[i].transaction = t /\ audit_events[i].type \in types}

One(S) == \E i \in S : S = {i}

MovedOnce(t) ==
    LET moved == EventsOf(t, {"document_moved"})
    IN  IF move_transactions[t].state = "committed" THEN One(moved) ELSE moved = {}

UndoneOnce(t) ==
    LET undone == EventsOf(t, {"move_undone", "move_recovered"})
    IN  IF RollbackState(t) = "rolled_back" THEN One(undone) ELSE undone = {}

AuditIdsDiffer ==
    \A i, j \in DOMAIN audit_events : audit_events[i].id = audit_events[j].id => i = j

\* A committed transaction has exactly one document_moved event and an undone
\* one exactly one event that says so; no other transaction has any, and no
\* audit identifier appears twice.
AuditAgrees ==
    /\ \A t \in Transactions : MovedOnce(t) /\ UndoneOnce(t)
    /\ AuditIdsDiffer

-----------------------------------------------------------------------------
(* The store implements the ledger of MoveLedger.                            *)

Outcome(t) ==
    LET state == move_transactions[t].state
    IN  IF RollbackState(t) = "rolled_back"
        THEN "undone"
        ELSE CASE state = "absent"            -> "none"
               [] state = "failed"            -> "abandoned"
               [] state = "committed"         -> "committed"
               [] state = "rollback_required" -> "held"
               [] OTHER                       -> "open"

Ledger == INSTANCE MoveLedger WITH
              location <- [d \in Documents |-> documents[d].path],
              intent <- [t \in Transactions |->
                           [document |-> move_transactions[t].document,
                            source |-> move_transactions[t].source,
                            destination |-> move_transactions[t].destination]],
              outcome <- [t \in Transactions |-> Outcome(t)]

\* Every execution of the store is one of the ledger: a document changes place
\* only by the commit of an open move or the undo of a settled one, each at most
\* once per transaction, and every other write is invisible.
LedgerSpec == Ledger!LedgerSpec
=============================================================================
