-------------------------- MODULE MigrationsProofs --------------------------
(* Theorems about Migrations, for any openers of any supported releases.     *)
EXTENDS Migrations, TLAPS

(* What the proofs use of the migrations: each has a statement, none makes  *)
(* the table of the versions.                                               *)
LEMMA MigrationFacts ==
    /\ Versions = 1 .. 3
    /\ \A v \in 1 .. 3 : /\ Len(MIGRATIONS[v]) \in 1 .. 13
                         /\ DOMAIN MIGRATIONS[v] = 1 .. Len(MIGRATIONS[v])
                         /\ "schema_migrations" \notin Makes(v)
<1>1. Versions = 1 .. 3
  BY DEF Versions, MIGRATIONS
<1>2. /\ MIGRATIONS[1] = MIGRATION_1
      /\ MIGRATIONS[2] = MIGRATION_2
      /\ MIGRATIONS[3] = MIGRATION_3
  BY DEF MIGRATIONS
<1>3. /\ Len(MIGRATION_1) = 7 /\ DOMAIN MIGRATION_1 = 1 .. 7
      /\ \A i \in 1 .. 7 : MIGRATION_1[i].makes # "schema_migrations"
  BY DEF MIGRATION_1, Table, Part
<1>4. /\ Len(MIGRATION_2) = 8 /\ DOMAIN MIGRATION_2 = 1 .. 8
      /\ \A i \in 1 .. 8 : MIGRATION_2[i].makes # "schema_migrations"
  BY DEF MIGRATION_2, Table, Part
<1>5. /\ Len(MIGRATION_3) = 13 /\ DOMAIN MIGRATION_3 = 1 .. 13
      /\ \A i \in 1 .. 13 : MIGRATION_3[i].makes # "schema_migrations"
  BY DEF MIGRATION_3, Table, Part
<1>6. ASSUME NEW v \in 1 .. 3
      PROVE  /\ Len(MIGRATIONS[v]) \in 1 .. 13
             /\ DOMAIN MIGRATIONS[v] = 1 .. Len(MIGRATIONS[v])
             /\ "schema_migrations" \notin Makes(v)
  <2>1. v = 1 \/ v = 2 \/ v = 3
    OBVIOUS
  <2>2. CASE v = 1
    BY <2>2, <1>2, <1>3 DEF Makes
  <2>3. CASE v = 2
    BY <2>3, <1>2, <1>4 DEF Makes
  <2>4. CASE v = 3
    BY <2>4, <1>2, <1>5 DEF Makes
  <2> QED
    BY <2>1, <2>2, <2>3, <2>4
<1> QED
  BY <1>1, <1>6

-----------------------------------------------------------------------------
(* The inductive invariant.  It adds who holds the lock, that the version a  *)
(* loop works from is never ahead of the database, and that a transaction    *)
(* that ran a statement applies a version the database does not have.        *)

Made(n) == UNION {Makes(v) : v \in 1 .. n}

Recorded ==
    /\ Version \in 0 .. 3
    /\ \A i \in 1 .. Version : schema_migrations[i] = i
    /\ schema \ {"schema_migrations"} = Made(Version)
    /\ Version > 0 => "schema_migrations" \in schema

LockHeld == \A o \in Openers : at[o] = "apply" <=> lock = o

Behind ==
    \A o \in Openers :
        at[o] \in {"check", "begin", "apply", "open"} => pending[o] <= Version + 1

Applying ==
    \A o \in Openers :
        /\ done[o] > 0 => at[o] = "apply" /\ pending[o] > Version
        /\ at[o] = "apply" => /\ pending[o] <= Latest[o]
                              /\ done[o] <= Len(MIGRATIONS[pending[o]])

Opened ==
    \A o \in Openers :
        /\ at[o] \in {"create", "created", "check", "begin", "apply", "open"} => wal
        /\ at[o] \in {"created", "check", "begin", "apply", "open"} =>
               "schema_migrations" \in schema
        /\ at[o] = "open" => pending[o] > Latest[o]

MigrationInv == DatabaseTypeOK /\ Recorded /\ LockHeld /\ Behind /\ Applying /\ Opened

(* An empty file is a database at version 0.                                *)
LEMMA MigrationInit == Init => MigrationInv
<1> SUFFICES ASSUME Init PROVE MigrationInv
  OBVIOUS
<1>1. Len(schema_migrations) = 0 /\ schema_migrations \in Seq(Versions)
  BY DEF Init
<1>2. DatabaseTypeOK
  <2>1. /\ at \in [Openers -> Places]
        /\ pending \in [Openers -> 1 .. 4]
        /\ done \in [Openers -> 0 .. 13]
    BY DEF Init, Places
  <2>2. faults \in 0 .. MaxFaults
    BY FaultAssumption DEF Init
  <2> QED
    BY <1>1, <2>1, <2>2 DEF Init, DatabaseTypeOK
<1>3. Recorded
  <2>1. Made(0) = {}
    BY DEF Made
  <2>2. Version = 0 /\ schema = {}
    BY <1>1 DEF Init, Version
  <2> QED
    BY <2>1, <2>2 DEF Recorded
<1> QED
  BY <1>2, <1>3, NobodyAssumption DEF Init, MigrationInv, LockHeld, Behind, Applying, Opened

(* A statement or the row of a version that is already there is refused: a  *)
(* transaction that gets on applies the first version that is missing.      *)
LEMMA NextVersion ==
    ASSUME MigrationInv, NEW o \in Openers, at[o] = "apply", ~Refused(o)
    PROVE  pending[o] = Version + 1
<1> USE MigrationFacts
<1> DEFINE v == pending[o]
<1>1. /\ v \in 1 .. 3 /\ v <= Version + 1 /\ done[o] \in 0 .. 13
      /\ done[o] <= Len(MIGRATIONS[v])
  BY LatestAssumption DEF MigrationInv, DatabaseTypeOK, Behind, Applying
<1>2. Version \in 0 .. 3
  BY DEF MigrationInv, Recorded
<1>3. CASE done[o] > 0
  BY <1>1, <1>2, <1>3 DEF MigrationInv, Applying
<1>4. CASE done[o] = 0
  <2>0. PICK n \in 1 .. 13 : Len(MIGRATIONS[v]) = n /\ DOMAIN MIGRATIONS[v] = 1 .. n
    BY <1>1
  <2>1. 1 \in DOMAIN MIGRATIONS[v]
    BY <2>0
  <2>5. ~StatementsDone(o)
    BY <2>0, <1>4 DEF StatementsDone, Statements
  <2>2. MIGRATIONS[v][1].makes \notin schema
    BY <1>4, <2>5 DEF Refused, Statements
  <2>3. MIGRATIONS[v][1].makes \in Makes(v)
    BY <2>1 DEF Makes
  <2>4. v \notin 1 .. Version
    BY <2>2, <2>3 DEF MigrationInv, Recorded, Made
  <2> QED
    BY <1>1, <1>2, <2>4
<1> QED
  BY <1>1, <1>3, <1>4

(* A step that keeps the schema and its history, and moves one opener that  *)
(* holds no transaction, keeps the invariant if its place is justified.     *)
LEMMA MoveOn ==
    ASSUME MigrationInv, NEW o \in Openers, NEW place \in Places \ {"apply"},
           at[o] # "apply", Go(o, place),
           wal' \in BOOLEAN, wal => wal', faults' \in 0 .. MaxFaults,
           UNCHANGED <<schema, schema_migrations, lock, done>>,
           \/ pending' = pending
           \/ place = "check" /\ pending' = [pending EXCEPT ![o] = Version + 1],
           place \in {"create", "created", "check", "begin", "open"} => wal',
           place \in {"created", "check", "begin", "open"} => "schema_migrations" \in schema,
           place \in {"begin", "open"} => pending' = pending /\ pending[o] <= Version + 1,
           place = "check" => pending'[o] = Version + 1,
           place = "open" => pending[o] > Latest[o]
    PROVE  MigrationInv'
<1>1. Version \in 0 .. 3 /\ Version' = Version
  BY DEF MigrationInv, Recorded, Version
<1>2. at' \in [Openers -> Places] /\ at' = [at EXCEPT ![o] = place]
  BY DEF Go, MigrationInv, DatabaseTypeOK
<1>3. pending' \in [Openers -> 1 .. 4]
  BY <1>1 DEF MigrationInv, DatabaseTypeOK
<1>4. DatabaseTypeOK'
  BY <1>2, <1>3 DEF MigrationInv, DatabaseTypeOK
<1>5. Recorded'
  BY <1>1 DEF MigrationInv, Recorded
<1>6. LockHeld'
  BY <1>2 DEF MigrationInv, DatabaseTypeOK, LockHeld
<1>7. \A p \in Openers \ {o} : at'[p] = at[p] /\ pending'[p] = pending[p]
  BY <1>2 DEF MigrationInv, DatabaseTypeOK
<1>8. at'[o] = place
  BY <1>2 DEF MigrationInv, DatabaseTypeOK
<1>9. Behind'
  <2> SUFFICES ASSUME NEW p \in Openers, at'[p] \in {"check", "begin", "apply", "open"}
               PROVE  pending'[p] <= Version + 1
    BY <1>1 DEF Behind
  <2>1. CASE p = o
    BY <2>1, <1>1, <1>8
  <2>2. CASE p # o
    BY <2>2, <1>7 DEF MigrationInv, Behind
  <2> QED
    BY <2>1, <2>2
<1>10. Applying'
  <2>1. done[o] = 0
    BY DEF MigrationInv, Applying, DatabaseTypeOK
  <2> QED
    BY <1>1, <1>7, <1>8, <2>1 DEF MigrationInv, Applying
<1>11. Opened'
  BY <1>7, <1>8 DEF MigrationInv, Opened
<1> QED
  BY <1>4, <1>5, <1>6, <1>9, <1>10, <1>11 DEF MigrationInv

(* The end of an opener, in a transaction or outside, loses only the draft. *)
LEMMA EndKeeps ==
    ASSUME MigrationInv, NEW o \in Openers, NEW place \in {"idle", "failed"},
           End(o, place), UNCHANGED <<database, pending>>, faults' \in 0 .. MaxFaults
    PROVE  MigrationInv'
<1>1. Version \in 0 .. 3 /\ Version' = Version
  BY DEF MigrationInv, Recorded, Version, database
<1>2. at' \in [Openers -> Places] /\ at'[o] = place /\ done'[o] = 0
  BY DEF End, Go, MigrationInv, DatabaseTypeOK, Places
<1>3. \A p \in Openers \ {o} : at'[p] = at[p] /\ done'[p] = done[p]
  BY DEF End, Go, MigrationInv, DatabaseTypeOK
<1>4. lock' = IF lock = o THEN Nobody ELSE lock
  BY DEF End
<1>5. DatabaseTypeOK'
  <2>1. done' \in [Openers -> 0 .. 13]
    BY DEF End, MigrationInv, DatabaseTypeOK
  <2> QED
    BY <1>2, <1>4, <2>1 DEF MigrationInv, DatabaseTypeOK, database
<1>6. Recorded'
  BY <1>1 DEF MigrationInv, Recorded, database
<1>7. LockHeld'
  BY <1>2, <1>3, <1>4, NobodyAssumption DEF MigrationInv, LockHeld
<1>8. Behind'
  BY <1>1, <1>2, <1>3 DEF MigrationInv, Behind
<1>9. Applying'
  BY <1>1, <1>2, <1>3 DEF MigrationInv, Applying
<1>10. Opened'
  BY <1>2, <1>3 DEF MigrationInv, Opened, database
<1> QED
  BY <1>5, <1>6, <1>7, <1>8, <1>9, <1>10 DEF MigrationInv

-----------------------------------------------------------------------------
(* A statement stays in the open transaction; only its holder can run one.  *)
LEMMA StatementKeeps ==
    ASSUME MigrationInv, NEW o \in Openers, Statement(o)
    PROVE  MigrationInv'
<1> USE MigrationFacts
<1>1. at[o] = "apply" /\ pending[o] = Version + 1 /\ ~StatementsDone(o)
  BY NextVersion DEF Statement
<1>2. Version' = Version /\ Version \in 0 .. 3
  BY DEF Statement, database, Version, MigrationInv, Recorded
<1>3. /\ pending[o] \in 1 .. 3 /\ done[o] \in 0 .. 13
      /\ done[o] <= Len(MIGRATIONS[pending[o]])
      /\ done[o] # Len(MIGRATIONS[pending[o]])
  BY <1>1, LatestAssumption
     DEF MigrationInv, DatabaseTypeOK, Applying, StatementsDone, Statements
<1>4. PICK n \in 1 .. 13 : Len(MIGRATIONS[pending[o]]) = n
  BY <1>3
<1>5. done' \in [Openers -> 0 .. 13] /\ done'[o] = done[o] + 1
  <2>1. done[o] + 1 \in 0 .. 13
    BY <1>3, <1>4
  <2> QED
    BY <2>1 DEF Statement, MigrationInv, DatabaseTypeOK
<1>6. \A p \in Openers \ {o} : done'[p] = done[p]
  BY DEF Statement, MigrationInv, DatabaseTypeOK
<1>7. DatabaseTypeOK'
  BY <1>5 DEF MigrationInv, DatabaseTypeOK, Statement, database
<1>8. Recorded'
  BY <1>2 DEF MigrationInv, Recorded, Statement, database
<1>9. LockHeld' /\ Behind' /\ Opened'
  BY <1>2 DEF MigrationInv, LockHeld, Behind, Opened, Statement, database
<1>10. Applying'
  <2> SUFFICES ASSUME NEW p \in Openers
               PROVE  /\ done'[p] > 0 => at[p] = "apply" /\ pending[p] > Version
                      /\ at[p] = "apply" => /\ pending[p] <= Latest[p]
                                            /\ done'[p] <= Len(MIGRATIONS[pending[p]])
    BY <1>2 DEF Applying, Statement
  <2>1. CASE p = o
    BY <2>1, <1>1, <1>2, <1>3, <1>4, <1>5 DEF MigrationInv, Applying
  <2>2. CASE p # o
    BY <2>2, <1>6 DEF MigrationInv, Applying
  <2> QED
    BY <2>1, <2>2
<1> QED
  BY <1>7, <1>8, <1>9, <1>10 DEF MigrationInv

(* A commit records the first missing version with everything it makes.     *)
LEMMA CommitKeeps ==
    ASSUME MigrationInv, NEW o \in Openers, CommitVersion(o)
    PROVE  MigrationInv'
<1> USE MigrationFacts
<1> DEFINE v == Version + 1
<1>1. at[o] = "apply" /\ pending[o] = v /\ StatementsDone(o) /\ lock = o
  BY NextVersion DEF CommitVersion, MigrationInv, LockHeld
<1>2. Version \in 0 .. 3 /\ v \in 1 .. 3 /\ Latest[o] \in 1 .. 3 /\ v <= Latest[o]
  BY <1>1, LatestAssumption DEF MigrationInv, Recorded, Applying
<1>3. Draft(o) = Makes(v)
  <2>1. done[o] = Len(MIGRATIONS[v]) /\ DOMAIN MIGRATIONS[v] = 1 .. Len(MIGRATIONS[v])
    BY <1>1, <1>2 DEF StatementsDone, Statements
  <2> QED
    BY <1>1, <2>1 DEF Draft, Statements, Makes
<1>4. schema_migrations \in Seq(Versions) /\ schema_migrations' = Append(schema_migrations, v)
  BY <1>1 DEF CommitVersion, MigrationInv, DatabaseTypeOK
<1>5. /\ schema_migrations' \in Seq(Versions)
      /\ Version' = v
      /\ \A i \in 1 .. Version : schema_migrations'[i] = schema_migrations[i]
      /\ schema_migrations'[v] = v
  BY <1>2, <1>4 DEF Version
<1>6. schema' = schema \cup Makes(v)
  BY <1>3 DEF CommitVersion
<1>7. /\ at' \in [Openers -> Places] /\ at'[o] = "begin"
      /\ done' \in [Openers -> 0 .. 13] /\ done'[o] = 0
      /\ pending' \in [Openers -> 1 .. 4] /\ pending'[o] = v + 1
      /\ lock' = Nobody
  BY <1>1, <1>2 DEF CommitVersion, End, Go, MigrationInv, DatabaseTypeOK, Places
<1>8. \A p \in Openers \ {o} :
          at'[p] = at[p] /\ done'[p] = done[p] /\ pending'[p] = pending[p]
  BY DEF CommitVersion, End, Go, MigrationInv, DatabaseTypeOK
<1>9. \A p \in Openers \ {o} : at[p] # "apply" /\ done[p] = 0
  BY <1>1 DEF MigrationInv, LockHeld, Applying, DatabaseTypeOK
<1>10. DatabaseTypeOK'
  <2>1. Makes(v) \subseteq UNION {Makes(u) : u \in Versions}
    BY <1>2
  <2>2. schema' \subseteq {"schema_migrations"} \cup UNION {Makes(u) : u \in Versions}
    BY <1>6, <2>1 DEF MigrationInv, DatabaseTypeOK
  <2>3. wal' \in BOOLEAN /\ faults' \in 0 .. MaxFaults
    BY DEF MigrationInv, DatabaseTypeOK, CommitVersion
  <2> QED
    BY <1>5, <1>7, <2>2, <2>3 DEF DatabaseTypeOK
<1>11. Recorded'
  <2>1. Made(v) = Made(Version) \cup Makes(v)
    <3>1. 1 .. v = (1 .. Version) \cup {v}
      BY <1>2
    <3> QED
      BY <3>1 DEF Made
  <2>2. schema' \ {"schema_migrations"} = Made(v)
    BY <1>2, <1>6, <2>1 DEF MigrationInv, Recorded
  <2>3. "schema_migrations" \in schema
    BY <1>1 DEF MigrationInv, Opened
  <2>4. \A i \in 1 .. v : schema_migrations'[i] = i
    BY <1>2, <1>5 DEF MigrationInv, Recorded
  <2> QED
    BY <1>2, <1>5, <1>6, <2>2, <2>3, <2>4 DEF Recorded
<1>12. LockHeld'
  BY <1>7, <1>8, <1>9, NobodyAssumption DEF LockHeld
<1>13. Behind'
  <2> SUFFICES ASSUME NEW p \in Openers, at'[p] \in {"check", "begin", "apply", "open"}
               PROVE  pending'[p] <= v + 1
    BY <1>5 DEF Behind
  <2>1. CASE p = o
    BY <1>2, <1>7, <2>1
  <2>2. CASE p # o
    <3>1. pending[p] <= Version + 1 /\ pending[p] \in 1 .. 4
      BY <1>8, <2>2 DEF MigrationInv, Behind, DatabaseTypeOK
    <3> QED
      BY <1>2, <1>8, <2>2, <3>1
  <2> QED
    BY <2>1, <2>2
<1>14. Applying'
  BY <1>7, <1>8, <1>9 DEF Applying
<1>15. Opened'
  BY <1>1, <1>6, <1>7, <1>8 DEF MigrationInv, Opened, CommitVersion
<1> QED
  BY <1>10, <1>11, <1>12, <1>13, <1>14, <1>15 DEF MigrationInv

(* Taking the lock opens an empty transaction.                              *)
LEMMA BeginKeeps ==
    ASSUME MigrationInv, NEW o \in Openers, BeginImmediate(o)
    PROVE  MigrationInv'
<1> USE MigrationFacts
<1>1. Version' = Version /\ Version \in 0 .. 3
  BY DEF BeginImmediate, database, Version, MigrationInv, Recorded
<1>2. at' \in [Openers -> Places] /\ at'[o] = "apply" /\ lock' = o /\ done[o] = 0
  BY DEF BeginImmediate, Go, MigrationInv, DatabaseTypeOK, Places, Applying
<1>3. \A p \in Openers \ {o} : at'[p] = at[p] /\ at[p] # "apply"
  BY NobodyAssumption DEF BeginImmediate, Go, MigrationInv, DatabaseTypeOK, LockHeld
<1>4. DatabaseTypeOK'
  BY <1>2 DEF BeginImmediate, MigrationInv, DatabaseTypeOK, database
<1>5. Recorded'
  BY <1>1 DEF MigrationInv, Recorded, BeginImmediate, database
<1>6. LockHeld'
  BY <1>2, <1>3 DEF LockHeld
<1>7. Behind' /\ Opened'
  BY <1>1, <1>2, <1>3 DEF MigrationInv, Behind, Opened, BeginImmediate, database
<1>8. Applying'
  <2>1. pending[o] \in 1 .. 3 /\ pending[o] <= Latest[o]
    BY LatestAssumption DEF BeginImmediate, MigrationInv, DatabaseTypeOK
  <2>2. Len(MIGRATIONS[pending[o]]) \in 1 .. 13
    BY <2>1
  <2> QED
    BY <1>1, <1>2, <1>3, <2>1, <2>2 DEF MigrationInv, Applying, BeginImmediate
<1> QED
  BY <1>4, <1>5, <1>6, <1>7, <1>8 DEF MigrationInv

(* CREATE TABLE IF NOT EXISTS adds the table of the versions to a fresh file *)
(* and nothing to another.                                                   *)
LEMMA CreateKeeps ==
    ASSUME MigrationInv, NEW o \in Openers, CreateMigrationTable(o)
    PROVE  MigrationInv'
<1>1. Version' = Version /\ Version \in 0 .. 3
  BY DEF CreateMigrationTable, Version, MigrationInv, Recorded
<1>2. at' \in [Openers -> Places] /\ at'[o] = "created" /\ at[o] = "create"
  BY DEF CreateMigrationTable, Go, MigrationInv, DatabaseTypeOK, Places
<1>3. \A p \in Openers \ {o} : at'[p] = at[p]
  BY DEF CreateMigrationTable, Go, MigrationInv, DatabaseTypeOK
<1>4. schema \subseteq schema' /\ schema' = schema \cup {"schema_migrations"}
  BY DEF CreateMigrationTable
<1>5. DatabaseTypeOK'
  BY <1>2, <1>4 DEF CreateMigrationTable, MigrationInv, DatabaseTypeOK
<1>6. Recorded'
  BY <1>1, <1>4 DEF CreateMigrationTable, MigrationInv, Recorded
<1>7. LockHeld'
  BY <1>2, <1>3 DEF CreateMigrationTable, MigrationInv, LockHeld
<1>8. Behind' /\ Applying'
  BY <1>1, <1>2, <1>3 DEF CreateMigrationTable, MigrationInv, Behind, Applying
<1>9. Opened'
  BY <1>2, <1>3, <1>4 DEF CreateMigrationTable, MigrationInv, Opened
<1> QED
  BY <1>5, <1>6, <1>7, <1>8, <1>9 DEF MigrationInv

(* Every step of an opener keeps the invariant.                             *)
LEMMA MigrationStep == MigrationInv /\ [Next]_vars => MigrationInv'
<1> SUFFICES ASSUME MigrationInv, [Next]_vars PROVE MigrationInv'
  OBVIOUS
<1>0. CASE UNCHANGED vars
  BY <1>0 DEF vars, MigrationInv, DatabaseTypeOK, Recorded, LockHeld, Behind, Applying,
              Opened, Version
<1> SUFFICES ASSUME NEW o \in Openers, Connect(o) \/ Step(o) \/ Crash(o)
             PROVE  MigrationInv'
  BY <1>0 DEF Next
<1> USE DEF database
<1>t. pending \in [Openers -> 1 .. 4] /\ wal \in BOOLEAN /\ faults \in 0 .. MaxFaults
  BY DEF MigrationInv, DatabaseTypeOK
<1>1. CASE Connect(o)
  BY <1>1, <1>t, MoveOn DEF Connect, Places
<1>2. CASE CheckAtOpen(o)
  <2>1. CASE Version > Latest[o]
    BY <1>2, <1>t, <2>1, MoveOn DEF CheckAtOpen, RequireSupported, Places
  <2>2. CASE ~(Version > Latest[o])
    BY <1>2, <1>t, <2>2, MoveOn DEF CheckAtOpen, RequireSupported, Places
  <2> QED
    BY <2>1, <2>2
<1>3. CASE RequireWal(o)
  <2>1. CASE wal' = TRUE /\ Go(o, "create") /\ UNCHANGED faults
    BY <1>3, <1>t, <2>1, MoveOn DEF RequireWal, Places
  <2>2. CASE faults < MaxFaults /\ faults' = faults + 1 /\ Go(o, "failed") /\ UNCHANGED wal
    <3>1. faults' \in 0 .. MaxFaults
      BY <1>t, <2>2, FaultAssumption
    <3> QED
      BY <1>3, <1>t, <2>2, <3>1, MoveOn DEF RequireWal, Places
  <2> QED
    BY <1>3, <2>1, <2>2 DEF RequireWal
<1>4. CASE CreateMigrationTable(o)
  BY <1>4, CreateKeeps
<1>5. CASE ReadVersion(o)
  <2>1. Go(o, "check") /\ pending' = [pending EXCEPT ![o] = Version + 1] /\ at[o] = "created"
    BY <1>5 DEF ReadVersion, FirstPending
  <2>2. pending'[o] = Version + 1
    BY <1>t, <2>1
  <2>3. wal /\ "schema_migrations" \in schema
    BY <2>1 DEF MigrationInv, Opened
  <2> QED
    BY <1>5, <1>t, <2>1, <2>2, <2>3, MoveOn DEF ReadVersion, Places
<1>6. CASE CheckBeforeApply(o)
  <2>1. at[o] = "check" /\ wal /\ "schema_migrations" \in schema /\ pending[o] <= Version + 1
    BY <1>6 DEF CheckBeforeApply, RequireSupported, MigrationInv, Opened, Behind
  <2>2. CASE Version > Latest[o]
    BY <1>6, <1>t, <2>1, <2>2, MoveOn DEF CheckBeforeApply, RequireSupported, Places
  <2>3. CASE ~(Version > Latest[o])
    BY <1>6, <1>t, <2>1, <2>3, MoveOn DEF CheckBeforeApply, RequireSupported, Places
  <2> QED
    BY <2>2, <2>3
<1>7. CASE Finish(o)
  <2>1. at[o] = "begin" /\ wal /\ "schema_migrations" \in schema /\ pending[o] <= Version + 1
    BY <1>7 DEF Finish, MigrationInv, Opened, Behind
  <2> QED
    BY <1>7, <1>t, <2>1, MoveOn DEF Finish, Places
<1>8. CASE BeginImmediate(o)
  BY <1>8, BeginKeeps
<1>9. CASE BusyTimeout(o)
  BY <1>9, <1>t, MoveOn DEF BusyTimeout, Places
<1>10. CASE Statement(o)
  BY <1>10, StatementKeeps
<1>11. CASE CommitVersion(o)
  BY <1>11, CommitKeeps
<1>12. CASE Refuse(o)
  BY <1>12, <1>t, EndKeeps DEF Refuse
<1>13. CASE Crash(o)
  <2>1. faults' \in 0 .. MaxFaults
    BY <1>13, <1>t, FaultAssumption DEF Crash
  <2> QED
    BY <1>13, <2>1, EndKeeps DEF Crash
<1> QED
  BY <1>1, <1>2, <1>3, <1>4, <1>5, <1>6, <1>7, <1>8, <1>9, <1>10, <1>11, <1>12, <1>13 DEF Step

(* The strengthened invariant holds of every behaviour.                     *)
LEMMA MigrationsInvariant == Spec => []MigrationInv
BY MigrationInit, MigrationStep, PTL DEF Spec

(* The state of the openers and of the database has its types.              *)
THEOREM DatabaseTypes == Spec => []DatabaseTypeOK
<1>1. MigrationInv => DatabaseTypeOK
  BY DEF MigrationInv
<1> QED
  BY <1>1, MigrationsInvariant, PTL

(* Each migration is recorded once and in order, and the schema is exactly   *)
(* what the recorded ones made, for any number of openers.                   *)
THEOREM AppliedExactlyOnce == Spec => []SchemaMatchesHistory
<1>1. MigrationInv => SchemaMatchesHistory
  BY DEF MigrationInv, Recorded, SchemaMatchesHistory, Made
<1> QED
  BY <1>1, MigrationsInvariant, PTL

(* Whatever open_database returns has the schema of the caller's release.    *)
THEOREM OpenedIsUsable == Spec => []OpenedUsable
<1>1. ASSUME MigrationInv PROVE OpenedUsable
  <2> SUFFICES ASSUME NEW o \in Openers, at[o] = "open"
               PROVE  wal /\ Made(Latest[o]) \subseteq schema
    BY DEF OpenedUsable, Made
  <2>1. wal /\ pending[o] > Latest[o] /\ pending[o] <= Version + 1
    BY <1>1 DEF MigrationInv, Opened, Behind
  <2>2. pending[o] \in 1 .. 4 /\ Latest[o] \in 1 .. 3 /\ Version \in 0 .. 3
    BY <1>1, LatestAssumption DEF MigrationInv, DatabaseTypeOK, Recorded
  <2>3. 1 .. Latest[o] \subseteq 1 .. Version
    BY <2>1, <2>2
  <2>4. Made(Latest[o]) \subseteq Made(Version)
    BY <2>3 DEF Made
  <2> QED
    BY <1>1, <2>1, <2>4 DEF MigrationInv, Recorded
<1> QED
  BY <1>1, MigrationsInvariant, PTL

(* A release never changes a database that is newer than itself: its stale   *)
(* view of the version is caught by the statements themselves.               *)
THEOREM NewerDatabasesUntouched == Spec => NewerUntouched
<1>1. ASSUME MigrationInv, [Next]_vars
      PROVE  [\A o \in Openers :
                 at'[o] # at[o] /\ Version > Latest[o] =>
                     UNCHANGED <<schema, schema_migrations>>]_vars
  <2> SUFFICES ASSUME Next, NEW o \in Openers, at'[o] # at[o], Version > Latest[o]
               PROVE  UNCHANGED <<schema, schema_migrations>>
    BY <1>1
  <2>1. Version \in 0 .. 3 /\ Latest[o] \in 1 .. 3
    BY <1>1, LatestAssumption DEF MigrationInv, Recorded
  <2>2. PICK p \in Openers : Connect(p) \/ Step(p) \/ Crash(p)
    BY DEF Next
  <2>3. p = o
    BY <1>1, <2>2 DEF Connect, Step, Crash, CheckAtOpen, RequireSupported, RequireWal,
       CreateMigrationTable, ReadVersion, CheckBeforeApply, Finish, BeginImmediate,
       BusyTimeout, Statement, CommitVersion, Refuse, End, Go, MigrationInv, DatabaseTypeOK
  <2>4. ASSUME CommitVersion(o) PROVE FALSE
    <3>1. pending[o] = Version + 1 /\ pending[o] <= Latest[o]
      BY <1>1, <2>4, NextVersion DEF CommitVersion, MigrationInv, Applying
    <3> QED
      BY <2>1, <3>1
  <2>5. ASSUME CreateMigrationTable(o) PROVE UNCHANGED <<schema, schema_migrations>>
    BY <1>1, <2>1, <2>5 DEF CreateMigrationTable, MigrationInv, Recorded
  <2> QED
    BY <2>2, <2>3, <2>4, <2>5 DEF Connect, Step, Crash, CheckAtOpen, RequireSupported,
       RequireWal, ReadVersion, CheckBeforeApply, Finish, BeginImmediate,
       BusyTimeout, Statement, Refuse, database
<1> QED
  BY <1>1, MigrationsInvariant, PTL DEF Spec, NewerUntouched
=============================================================================
