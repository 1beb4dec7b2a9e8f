----------------------------- MODULE Migrations -----------------------------
(***************************************************************************)
(* Opening the application database: open_database (core/database.py) and  *)
(* apply_migrations (core/migrations.py), run by several processes on one  *)
(* SQLite file.  A process reads the recorded version once, outside any    *)
(* transaction, and then applies each later migration in a transaction of  *)
(* its own; another process may migrate between the two.  A process may    *)
(* crash at every step, and may be an application of another release.      *)
(***************************************************************************)
EXTENDS Integers, Sequences, SequencesExt

CONSTANTS
    Openers,        \* processes that open the database
    Nobody,         \* the holder of the write lock when it is free
    Latest,         \* LATEST_SCHEMA_VERSION of each opener's release
    MaxFaults       \* bound on crashes and on refusals of the WAL mode

-----------------------------------------------------------------------------
(* The migrations: what each statement makes and what it needs. *)

Table(t) == [makes |-> t, on |-> {}]

\* An index, a trigger or a column of a table.
Part(x, t) == [makes |-> x, on |-> {t}]

MIGRATION_1 ==
    << Table("move_transactions"), Table("documents"), Table("document_paths"),
       Table("document_rule_matches"), Table("document_relations"),
       Part("documents_review_status_idx", "documents"),
       Part("move_transactions_state_idx", "move_transactions") >>

MIGRATION_2 ==
    << Table("move_transaction_events"), Table("audit_events"),
       Part("audit_events_occurred_at_idx", "audit_events"),
       Part("move_transaction_events_transaction_idx", "move_transaction_events"),
       Part("audit_events_no_update", "audit_events"),
       Part("audit_events_no_delete", "audit_events"),
       Part("move_transaction_events_no_update", "move_transaction_events"),
       Part("move_transaction_events_no_delete", "move_transaction_events") >>

MIGRATION_3 ==
    << Part("source_root_path", "move_transactions"),
       Part("source_root_object_id", "move_transactions"),
       Part("source_object_id", "move_transactions"),
       Part("destination_directory_object_id", "move_transactions"),
       Part("volume_id", "move_transactions"),
       Part("source_file_hash", "move_transactions"),
       Part("source_file_size", "move_transactions"),
       Part("source_modified_at", "move_transactions"),
       Table("move_rollbacks"), Table("move_rollback_events"),
       Part("idx_move_rollback_events_transaction_sequence", "move_rollback_events"),
       Part("move_rollback_events_no_update", "move_rollback_events"),
       Part("move_rollback_events_no_delete", "move_rollback_events") >>

MIGRATIONS == << MIGRATION_1, MIGRATION_2, MIGRATION_3 >>

Versions == DOMAIN MIGRATIONS

ASSUME NobodyAssumption == Nobody \notin Openers

ASSUME LatestAssumption == Latest \in [Openers -> 1 .. 3]

ASSUME FaultAssumption == MaxFaults \in Nat

\* What a migration leaves in the schema.
Makes(v) == {MIGRATIONS[v][i].makes : i \in DOMAIN MIGRATIONS[v]}

-----------------------------------------------------------------------------
VARIABLES
    schema,             \* committed tables, columns, indexes and triggers
    schema_migrations,  \* versions in the order their rows were inserted
    wal,                \* the file is in WAL mode
    lock,               \* who is inside BEGIN IMMEDIATE
    at,                 \* where each opener is
    pending,            \* the migration it applies next
    done,               \* statements of it that ran in its open transaction
    faults

vars == <<schema, schema_migrations, wal, lock, at, pending, done, faults>>

Places == {"idle", "connected", "checked", "wal", "create", "created", "check",
           "begin", "apply", "open", "failed"}

Version == Len(schema_migrations)

DatabaseTypeOK ==
    /\ schema \subseteq {"schema_migrations"} \cup UNION {Makes(v) : v \in Versions}
    /\ schema_migrations \in Seq(Versions)
    /\ wal \in BOOLEAN
    /\ lock \in Openers \cup {Nobody}
    /\ at \in [Openers -> Places]
    /\ pending \in [Openers -> 1 .. 4]
    /\ done \in [Openers -> 0 .. 13]
    /\ faults \in 0 .. MaxFaults

Init ==
    /\ schema = {}
    /\ schema_migrations = <<>>
    /\ wal = FALSE
    /\ lock = Nobody
    /\ at = [o \in Openers |-> "idle"]
    /\ pending = [o \in Openers |-> 1]
    /\ done = [o \in Openers |-> 0]
    /\ faults = 0

database == <<schema, schema_migrations, wal>>

Go(o, place) == at' = [at EXCEPT ![o] = place]

\* Faulty: the connection stays open with its transaction.
EndHoldingLock(o, place) ==
    /\ Go(o, place)
    /\ done' = [done EXCEPT ![o] = 0]
    /\ UNCHANGED lock

\* The transaction, if one is open, is rolled back and the connection is closed.
End(o, place) ==
    /\ Go(o, place)
    /\ lock' = IF lock = o THEN Nobody ELSE lock
    /\ done' = [done EXCEPT ![o] = 0]

-----------------------------------------------------------------------------
(* open_database up to the migrations. *)

\* A first call, or another after a failure.
Connect(o) ==
    /\ at[o] \in {"idle", "failed"}
    /\ Go(o, "connected")
    /\ UNCHANGED <<database, lock, pending, done, faults>>

\* require_supported_schema: the table is absent at version 0.  Its two queries
\* act as one: the second alone decides when the table is there.
RequireSupported(o, from, to) ==
    /\ at[o] = from
    /\ Go(o, IF Version > Latest[o] THEN "failed" ELSE to)
    /\ UNCHANGED <<database, lock, pending, done, faults>>

CheckAtOpen(o) == RequireSupported(o, "connected", "checked")

\* The mode is refused where the file is busy or the filesystem lacks it.
RequireWal(o) ==
    /\ at[o] = "checked"
    /\ \/ wal' = TRUE /\ Go(o, "create") /\ UNCHANGED faults
       \/ /\ ~wal
          /\ faults < MaxFaults
          /\ faults' = faults + 1
          /\ Go(o, "failed")
          /\ UNCHANGED wal
    /\ UNCHANGED <<schema, schema_migrations, lock, pending, done>>

-----------------------------------------------------------------------------
(* apply_migrations. *)

\* CREATE TABLE IF NOT EXISTS writes, and waits for the lock, only the first time.
CreateMigrationTable(o) ==
    /\ at[o] = "create"
    /\ "schema_migrations" \in schema \/ lock = Nobody
    /\ schema' = schema \cup {"schema_migrations"}
    /\ Go(o, "created")
    /\ UNCHANGED <<schema_migrations, wal, lock, pending, done, faults>>

\* Faulty: a database with any recorded version is taken for a complete one.
FirstPendingOfFresh == IF Version = 0 THEN 1 ELSE 4

\* Faulty: the current version is applied again.
CurrentVersion == Version

\* Migrations up to the version that was read are skipped.
FirstPending == Version + 1

\* current_version, the only time the loop's version is read.
ReadVersion(o) ==
    /\ at[o] = "created"
    /\ pending' = [pending EXCEPT ![o] = FirstPending]
    /\ Go(o, "check")
    /\ UNCHANGED <<database, lock, done, faults>>

CheckBeforeApply(o) == RequireSupported(o, "check", "begin")

\* The loop is over when no migration of this release is left.
Finish(o) ==
    /\ at[o] = "begin"
    /\ pending[o] > Latest[o]
    /\ Go(o, "open")
    /\ UNCHANGED <<database, lock, pending, done, faults>>

BeginImmediate(o) ==
    /\ at[o] = "begin"
    /\ pending[o] <= Latest[o]
    /\ lock = Nobody
    /\ lock' = o
    /\ Go(o, "apply")
    /\ UNCHANGED <<database, pending, done, faults>>

\* The lock is not free within the busy timeout of 5 seconds: the call raises.
BusyTimeout(o) ==
    /\ lock \notin {Nobody, o}
    /\ \/ at[o] = "begin" /\ pending[o] <= Latest[o]
       \/ at[o] = "create" /\ "schema_migrations" \notin schema
    /\ Go(o, "failed")
    /\ UNCHANGED <<database, lock, pending, done, faults>>

Statements(o) == MIGRATIONS[pending[o]]

Draft(o) == {Statements(o)[i].makes : i \in 1 .. done[o]}

\* The next statement of the open transaction, or the INSERT of the version.
StatementsDone(o) == done[o] = Len(Statements(o))

\* Faulty: every statement says IF NOT EXISTS, and the version is inserted anew.
NeverRefused(o) == FALSE

\* What SQLite refuses: a thing that exists already, a part of a table that does
\* not exist, a version that has a row.
Refused(o) ==
    IF StatementsDone(o)
    THEN pending[o] \in Range(schema_migrations)
    ELSE LET next == Statements(o)[done[o] + 1]
         IN  \/ next.makes \in schema \cup Draft(o)
             \/ ~(next.on \subseteq schema \cup Draft(o))

Statement(o) ==
    /\ at[o] = "apply"
    /\ ~StatementsDone(o)
    /\ ~Refused(o)
    /\ done' = [done EXCEPT ![o] = @ + 1]
    /\ UNCHANGED <<database, lock, at, pending, faults>>

\* INSERT INTO schema_migrations and commit.
CommitVersion(o) ==
    /\ at[o] = "apply"
    /\ StatementsDone(o)
    /\ ~Refused(o)
    /\ schema' = schema \cup Draft(o)
    /\ schema_migrations' = Append(schema_migrations, pending[o])
    /\ pending' = [pending EXCEPT ![o] = @ + 1]
    /\ End(o, "begin")
    /\ UNCHANGED <<wal, faults>>

\* except BaseException: rollback, and close in open_database.
Refuse(o) ==
    /\ at[o] = "apply"
    /\ Refused(o)
    /\ End(o, "failed")
    /\ UNCHANGED <<database, pending, faults>>

\* Faulty: what ran before the crash is in the file.
CrashWithoutJournal(o) ==
    /\ at[o] \notin {"idle", "failed"}
    /\ faults < MaxFaults
    /\ faults' = faults + 1
    /\ End(o, "idle")
    /\ schema' = IF at[o] = "apply" THEN schema \cup Draft(o) ELSE schema
    /\ UNCHANGED <<schema_migrations, wal, pending>>

\* The process dies, inside a transaction or between two.
Crash(o) ==
    /\ at[o] \notin {"idle", "failed"}
    /\ faults < MaxFaults
    /\ faults' = faults + 1
    /\ End(o, "idle")
    /\ UNCHANGED <<database, pending>>

-----------------------------------------------------------------------------
Step(o) ==
    \/ CheckAtOpen(o)
    \/ RequireWal(o)
    \/ CreateMigrationTable(o)
    \/ ReadVersion(o)
    \/ CheckBeforeApply(o)
    \/ Finish(o)
    \/ BeginImmediate(o)
    \/ BusyTimeout(o)
    \/ Statement(o)
    \/ CommitVersion(o)
    \/ Refuse(o)

Next == \E o \in Openers : Connect(o) \/ Step(o) \/ Crash(o)

Spec == Init /\ [][Next]_vars

\* A running process goes on, and an application that failed to open its
\* database is started again.
FairSpec == Spec /\ \A o \in Openers : WF_vars(Step(o)) /\ WF_vars(Connect(o))
-----------------------------------------------------------------------------
(* What opening a database promises. *)

\* "Apply every pending schema migration exactly once": the versions are recorded
\* one by one in their order, and the schema is what the recorded migrations made,
\* all of each and nothing of another, although every opener works from a version
\* it read before it had the lock, and wherever openers crashed or were refused.
SchemaMatchesHistory ==
    /\ \A i \in 1 .. Version : schema_migrations[i] = i
    /\ schema \ {"schema_migrations"} = UNION {Makes(v) : v \in 1 .. Version}

\* A connection that open_database returned finds all tables and triggers of its
\* release and a file in WAL mode, also when another process migrated it, or died
\* half-way, while this one was opening.
OpenedUsable ==
    \A o \in Openers :
        at[o] = "open" =>
            /\ wal
            /\ UNION {Makes(v) : v \in 1 .. Latest[o]} \subseteq schema

\* "An older binary cannot mutate a database created by a newer version": no step
\* of an opener changes a schema newer than its release, also when the newer
\* release migrated after the opener's checks.
NewerUntouched ==
    [][\A o \in Openers :
          at'[o] # at[o] /\ Version > Latest[o] =>
              UNCHANGED <<schema, schema_migrations>>]_vars

\* Openers do not block one another for ever: a release that keeps trying opens
\* the database, unless a newer one has taken it over.
OpenersSucceed ==
    \A o \in Openers : at[o] = "connected" ~> at[o] = "open" \/ Version > Latest[o]
=============================================================================
