# Verification of My Senior Intern's file moves

My Senior Intern moves office documents into place while their owner is away. It
promises never to delete, overwrite or lose one: every move is journaled in
SQLite before it happens, performed as one no-replace rename, verified, audited,
recoverable after a crash and undoable. This directory holds TLA+ modules for the
part of the program that keeps that promise, the TLC configurations that check
them, and theorems about them checked by TLAPS.

## The system

| Component | State it keeps | Operations | What is hard | What makes it correct |
|---|---|---|---|---|
| Move store (`fileops/move_store.py`, `move_commit.py`, tables of `core/schema_v1..3.py`) | `documents`, `document_paths`, `move_transactions`, `move_transaction_events` | `record_plan`, `transition` | callers of two processes in any order; five tables written by one transition | rows, journals, path history and audit log agree; a document leaves a path only once |
| Rollback store (`recovery_store.py`) | `move_rollbacks`, `move_rollback_events` | `start_rollback`, `complete_rollback`, `fail_rollback` | attempts that compete, fail, resume | one owner at a time; restored at most once |
| Audit log (`core/audit.py`) | `audit_events` | `insert_audit_event`, `append_audit_event`, `append_transaction_event` | shared by all writers | append-only, no gaps, digest chain |
| Atomic mover (`mover.py`) | a call's memory | `execute_atomic_move` | crash between rename and journal | the file is always where the journal allows |
| Recovery and undo (`recovery.py`) | a call's memory: loaded record, rollback state read earlier | `recover_interrupted_move`, `undo_move` | stale reads, retries, races with moves | every move settles; undo succeeds once the file is left alone |
| Backends (protocols in `mover.py`, `recovery_types.py`; fixtures in `tests/`) | the filesystem | rename, classify, verify | refusals, the user's own changes | no-replace, bound to the identity |
| Database and migrations (`core/database.py`, `migrations.py`) | schema version | `open_database`, `apply_migrations` | concurrent openers, crash between migrations | each migration exactly once |
| Scanner (`scanner.py`, `discovery.py`) | queue, results, counters | `scan_documents` | limits, a changing tree | bounded, inside the root, says when truncated |
| Path policy (`path_policy.py`) | none | `evaluate_path_policy` | order of checks, facts of different moments | fails closed |
| Windows and macOS probes (`win32_*.py`, `darwin_*.py`, `native/`) | descriptors | `snapshot` | files renamed between two readings | only coherent readings are called stable |
| Identifiers, models, safety policy, CLI, TUI | none | | | single values, shells |

`execute_atomic_move` gets a ticket from path policy, which asks a platform probe.
It journals through the move store and renames through a backend. Recovery and
undo load the row, ask a backend where the file is, and go on through the two
stores. Commits and undos append to the audit log in the same SQLite transaction.
`docs/README.en.md` plans a headless worker beside a terminal interface with undo,
so several processes share the database; nothing but `BEGIN IMMEDIATE` orders them.

## Modules

### Moves

**`MoveStore`** is the durable state. Each variable is a table (`documents` keeps
the two columns that moves write). Each public function of the stores is one
`BEGIN IMMEDIATE` transaction and therefore one action: `RecordPlan`,
`Transition`, `StartRollback`, `CompleteRollback`, `FailRollback`. `May...` is the
conjunction of a function's checks; when it is false the function rolls back and
raises, and nothing changes. Paths, identities and identifiers are model values.
Timestamps, error codes and detail JSON are left out, as no check reads them. A
context (`MoveContext`, `RollbackContext`) is a record; its `forward` is the state
in the record the caller loaded, which `StoreNext` lets be any earlier state of
the transaction.

**`MoveLedger`** is what the store promises: where each document is, what each
transaction meant and what became of it. A document changes place only by the
commit of an open move from where it is, or the undo of a settled one, each at
most once. `MoveStore` implements it under the mapping at its end (`Ledger`).

**`MoveSystem`** extends `MoveStore` by the calls and the filesystem. `call[c]`
is where a call is and what it holds in memory (the ticket or the loaded record,
the rollback state read earlier). Between two accesses to the database or the
filesystem the other calls run. Steps are named after what they do; those that the
mover and recovery share (`RecordMoved` to `Commit`) are one action. A store
function that raises ends the call. `Ticket` takes what path policy observed, so a
ticket may be stale when it is used. The backend renames atomically, only a file
with the recorded identity and only to a vacant path, as the protocols say and the
fixtures under `tests/unit/fileops` do; it may also refuse, or fail to verify,
without a reason (`Fault`). Its check of the file and the rename are one step, so the refusal
after a rename that one fixture can produce (a late check of the identity) is left out. `Crash` ends a call anywhere: a process that dies, a
SQLite busy timeout, an unexpected exception of a backend. The user may rename,
create and edit files (`User`). A call that ended may be made again with the same
request.

### Opening the database

**`Migrations`** has one opener per process, each an application of some release
(`Latest`). `at[o]` is the line of `open_database` or `apply_migrations` it is at;
`pending[o]` comes from the one reading of the version, before any lock is held, and
`done[o]` counts the statements of the open transaction. `schema` is the set of
tables, indexes, triggers and columns, and a statement is refused when what it makes
is there or what it needs is not: this is how a migration that another process has
applied meanwhile fails. An opener may be refused the lock (`BusyTimeout`), refused WAL
mode or die anywhere (`Crash`), and is started again by `Connect`.

### Looking for documents

**`Scanner`** keeps the tree in `place` (the directory and the name of each node) and
the call in the variables named like those of `scan_documents`. A directory is read by
its path when its turn comes (`Resolve` follows what is there then, links included), in
one step, as a `scandir` that is not interrupted; its entries are processed one by one
in the order of `_process_entry`'s tests. The user moves nodes between any two steps.

### Judging a path

**`PathRules`** holds the checks of `_unsafe_fact_denial` in their order; the policy and
both probes share it, so that "accepted" means one thing. **`PathPolicy`** is
`evaluate_path_policy`: three inspections, one after the other, of a world that changes,
then one decision. `lasting` and `occurred` remember what was wrong throughout and at
some time; they only serve the properties.

**`Win32Probe`** is one call of `NativeWin32ProbeBackend.snapshot`: pairs of inspections
of target, root and every path of the chain, then the coherence sweep. One inspection is
`Open` and `Describe`, because the volume is asked for by path after the handle was
opened. What the sweep compares is as in the code the last observation of each path. A
handle's final path is told by the last link it was reached through (`Via`); a source file
is `Within` the root when both were reached through the same one. Links lead out of the
chain; a link that leads back into it is left out.

**`DarwinProbe`** is one call of `NativeDarwinProbeBackend.snapshot`: components opened
each relative to the one above, then four sweeps, two by descriptor and two through
the native helper, which compares path and descriptor before and after it asks
Foundation and File Provider. Objects, not paths, have natures, as a rename takes them
along. `TrustedStat` reads a path in one step, where `omt_trusted_path_stat` walks its components;
a rename in the middle of that walk is left out. `sweeps` are the complete sweeps, `readings` what the present one has read. `mid`
records, for the properties, where the paths led between the sweeps; `been` and
`returned` remember for them what each path has led to and whether one led again to what
it had left.

What is replaced and put back between two readings looks untouched to any sequence of
readings, so neither probe can tell, and the code does not claim to. In `Win32Probe` this
is a named bound: nothing returns to what it was before. In `DarwinProbe` objects may come
back, as they are identified by what they are and not by their path; there the property
says what is still so of the target, and asks the rest only while nothing has returned.

### Appending records

**`AuditLog`** is `append_audit_event` and `append_transaction_event` for several
connections. `staged[w]` and `noted[w]` are the rows of the open transaction, `link[w]` what
`_previous_digest` read for the next insertion. A digest stands for everything it is
computed from, so that two digests are equal only if all of that is (the external
hash is taken to be collision-free). `Fail` is an error or the end of the process before
the commit, `CommitUnheard` its end after it. `MoveStore` writes the same table as part of its own
transactions; there an event is one row with its predecessor's.

### Instances and faulty variants

The `MC...` modules give the constants values. A definition whose comment begins with
"Faulty" is a variant of the next definition with a plausible mistake; each property
below was seen to fail with one of them.

## Properties and runs

| Run | Shows | Instance |
|---|---|---|
| `store` | `TypeOK`; `JournalsAgree`: row and journal end in the same state, journals are paths of `_ALLOWED`, only settled moves are rolled back; `PointerSound`: `move_transaction_id` names a committed, not undone transaction that brought the document where it is; `LocationKnown`: audit log and path history both lead to `current_path`; `AuditContinuous`: every event takes its document from where the previous one left it; `AuditAgrees`: one event for each commit and each undo; `LedgerSpec` | 1 document, 2 transactions, 2 paths, 3 shared audit identifiers, 3 rollback events |
| `one` | `FindableFile`: a file only this program moved is at its document's path or at an endpoint of a move or rollback that is not over; `RestoreByOwner`: an undo renames only while the rollback row names its attempt; `UndoSucceeds`: a move that happened and is to be undone is undone in the end, unless the user changed a file | 1 move, its recovery, 2 undos, 2 faults, 1 change by the user, 8 rollback events |
| `two` | `FindableFile`; `VerifiedStays`: a file that the journal calls moved or verified stays at the destination until the move is settled; `MovesSettleAlone`: a move that reached the filesystem is settled in the end, unless an undo of another move of its document was begun; `ImplementsStore`: the system's steps are the store's, with contexts that `StoreNext` allows | 2 moves to different destinations, both recoveries, 1 undo, 3 faults |
| `migrations` | `SchemaMatchesHistory`: each migration is applied once, whole, in order; `OpenedUsable`: a returned connection finds everything of its release, in WAL mode; `NewerUntouched`: no step changes the schema of a newer release; `OpenersSucceed`: who keeps trying gets its database | 3 openers of 2 releases, 2 faults, the 3 migrations with all their statements |
| `scanner` | `LimitsRespected`: limits bound the result, and a scan is truncated and says so exactly when it had inspected or found all that a limit allows and met one more; `PathsDistinct`; `RootLeftByMovedLink`: what is reported lay below the root when it was read, unless a link was moved meanwhile; `FoundOrReported`: what stayed in place is found, or a directory above it is reported as inaccessible; `ScanReturns` | 6 directories with a link, a special file and an excluded name, limits below, at and above what the tree holds, 2 moves by the user of directories, a document or the link, 1 unreadable directory |
| `path_policy` | `NothingLastinglyUnsafe`: a ticket covers nothing that was wrong all the time; `DenialIsTrue`: a denial hands out no facts and names something that was the case | each pair of flaws in three paths, 1 change |
| `win32` | `Win32TypeOK` with no handle left open; `AcceptedChainIsReal`: accepted facts were all true at one moment; `QuietIsDecided`: in a world at rest a source file is within the root exactly when no link is at the root or between them, and what is accepted is exactly what is safe | a chain of 3, each role, a root in the chain, at its end and beside it; up to 3 objects that are not plain; up to 2 of those and changes together |
| `darwin` | `DarwinTypeOK` with no descriptor left open; `AcceptedChainIsReal`: the target was at one moment the object that was opened, over nothing that is a link, and so was the whole chain unless a path led again to what it had left; `QuietIsDecided`: in a world at rest exactly what is safe is accepted; `ProbeReturns`: also when File Provider never answers | root and two components, 2 objects for each, at most 1 of them not plain at first, up to 2 of those and changes together |
| `audit` | `Chained`: one digest chain without gap or fork; `ReturnedStays`: what a caller was told of keeps its place; `AppendOnly` | 2 connections, 4 events, batches of 2, 2 journal rows |

Each module's type invariant is checked along with them.

Why these bounds are enough. One document: nothing in the code relates two
documents except the audit log, which two transactions of one document already share.
Two transactions give every pairwise race; two undos give every contention for a
rollback. The bounds on rollback events cut repeated failures of an undo, each of which
leaves the same rows as the last: in `one` none without a change by the user (the two faults
allow eight events), and with one those of an undo whose file the user took; in `two` those of
an undo whose file another move took. `MaxFaults` bounds crashes, because the program
promises nothing if it crashes for ever. Three openers make one read a version, another
migrate past it and a third be of an older release. One move of a directory makes a
listed path stale, and the second puts something in its place: another directory, or a link
that is followed from then on. A chain of three paths has a first, a last and one
that is neither; two changes let a path differ between each two of three readings. Three
flaws at rest put a link at the root, one between it and the file, and a flaw at the file.
Deadlock is checked where a call is all there is, and not where a system may have
nothing left to do (all requests are settled, all openers have opened).

Fairness. A call that runs goes on (`Fairness`, `Step` in `Migrations`, `Scan`, the
calls of `DarwinProbe`), because nothing in it waits for another call: a busy database
raises after its timeout, which is `Crash` or `BusyTimeout`. A recovery or undo that was
asked for, or an application that could not open its database, is started again while
it has work to do; the first is the operating system's, the second the caller's, which
the source does not contain yet. Moves are not retried: their transaction exists already.
File Provider is not assumed to answer; the deadline of the helper is assumed to pass.

Assumptions of the passing runs. `Exclusive`: recovery of a transaction does not begin
while the call that executes it is live. Destinations of two moves differ. Every call has an
audit identity of its own and is repeated with it. None of these is enforced by the code.
Different destinations are given up in the run `replan`; the two others only in
`MCLiveRecovery.cfg`, `MCSharedAttempt.cfg` and `MCFreshUndo.cfg`, which are not part of the
regular runs, so what these three show is not covered by any property of a passing run.

### Runs that end in a violation

| Run | What the code does |
|---|---|
| `replan` | A move is interrupted before its rename and a second one to the same destination is planned. Recovery finds the file at the destination, takes the second's rename for the first's and commits it. After an undo, the second still commits, as a verified move is not verified again: path and audit log point at a place without the file, against "Every move is journaled, verified, auditable, and eligible for collision-safe undo when the file remains unchanged" of `docs/README.en.md`. |
| `win32_identity` | The coherence sweep keeps one observation per path, the last. A target replaced between its own readings and those of the chain passes, and the snapshot calls the identity of the object that is gone stable, against "Mutation after local pair checks invalidates the composed snapshot" of `tests/unit/fileops/test_win32_native.py`. |
| `scanner_link` | The user moves a listed directory away and a link to its place. `os.scandir` follows it when its turn comes, and documents outside the root are reported, against "Discover supported documents without broadening the selected root" and "Read directory entries without following links" of `fileops/scanner.py`. |

Further configurations, not part of the regular runs, each end in a violation of the
one property they name:

| Configuration | What the code does |
|---|---|
| `MCStranded.cfg` (`MovesSettle`) | A move planned from the same source as an earlier one renames the file while the undo of that one is between its rename and its completion. Its commit is refused, for ever, and undo accepts no verified move. |
| `MCLiveRecovery.cfg` (`FindableFile`) | Without `Exclusive`, recovery journals `failed` for a move that then renames. |
| `MCFreshUndo.cfg` (`UndoSucceeds`) | An undo that crashed can be resumed only with its own audit identity; a fresh one, which `RecoveryRequest` asks for, is refused for ever. |
| `MCSharedAttempt.cfg` (`RestoreByOwner`) | Two calls with one audit identity: one fails the rollback, another identity starts its own, and the remaining call renames in it. |
| `MCStranger.cfg` (`FindableFile`) | While the file of a failed move is at its destination, the user puts another one where it came from. A second move takes that for the document's, the undo of the first brings the document's own back, and the second commits: the index leads to the other file. |

Two more end without error: `MCMoveTwoUndone.cfg` is `two` with an undo of each move and one
fault, `MCMoveUser.cfg` is `one` with two changes by the user and one fault (`FindableFile`).

## Proofs

The theorems about a module `M` are in `MProofs`.

Everything the run `store` checks is also proved, for any sets of documents,
transactions, paths, objects and audit identifiers, under `StoreAssumption` (an initial
path for every document, and NULL is none of the values). The run shows it for one
document; the theorems add that documents do not disturb one another.

- `StoreTypeOK`: `TypeOK` is inductive; one lemma per operation.
- `StorePointerSound`: `PointerSound` alone is not inductive, as a commit must know
  that its transaction has no finished rollback. `SettledRollbacks` (a rollback row
  exists only for a committed or rollback_required move) closes the gap: a move that
  can still commit has no rollback at all. `PointerInv` joins the three.
- `StoreImplementsLedger`: `StoreSpec => LedgerSpec`. Each operation is one step of the
  ledger or invisible. The undo needs `CommittedForGood` (a journal that says committed
  belongs to a row that still does) because the forward state a caller loaded may be
  stale; `LedgerInv` adds it to `PointerInv`.
- `StoreLocationKnown`, `StoreAuditContinuous`: inductive together with the types. A
  commit and an undo both leave from the path in the row, which the log gives
  (`LocationKnown`), so the event they append continues the log; `Relocated` is the
  argument for both.
- `StoreAuditAgrees`: from `PointerInv`; commits and completed rollbacks are counted by
  the positions of their events (`EventsAppend`).
- `StoreJournalsAgree`: inductive with the types; `ForwardAppend` and `RollbackAppend`
  say when an entry may be appended, and each operation's checks imply it.

Of `Migrations`, for any openers of any releases: `MigrationInv` says that the schema
is what the recorded migrations made (`Recorded`), that who applies one holds the lock
(`LockHeld`) and has executed statements only of one not recorded yet (`Applying`), that
nobody skips a migration (`Behind`) and what an opener has seen so far (`Opened`). The
lemma `MigrationFacts` expands the three migrations; what makes a stale opener harmless is
that each migration's first statement makes something new. `DatabaseTypes`,
`AppliedExactlyOnce`, `OpenedIsUsable` and `NewerDatabasesUntouched` follow.

Of `AuditLog`, for any connections, events and bounds: `AuditInv` joins the types, that rows
are staged only under the write lock (`Held`), the chain of what a connection sees
(`Chains`) and that the link read is still the last digest when the row is inserted
(`Linked`). `AuditTypes`, `OneChain`, `ReturnedEventsStay` and `RecordsAreAppended` follow.

Of `PathPolicy`, for any requests and any number of flaws and changes: `PolicyInv` says that
every fact was true when it was taken (`Faithful`, by `Taken`), that a probe that answered for
another path was noticed (`Noticed`), that the request was contained when facts exist
(`Contained`) and what a ticket was granted on (`Granted`). `FirstDenial` and `TicketDenied`
say what the rules of `PathRules` return, `UnsafeFact` that a flaw of the world reaches them.
`TicketsAreSafe` and `DenialsAreTrue` follow: facts of three different moments can make a
denial late, but neither a ticket wrong nor a denial untrue.

Of `MoveSystem`, for any calls with any requests, any initial files and any number of faults
and changes by the user, under `SystemAssumption` (requests and files of the right kinds; a
move names its document and destination). `SystemInv` joins the types, that a running call
holds the evidence of a real move (`Holds`), that what an undo loaded was journaled for its
transaction (`UndosLoaded`), and `JournalsAgree`, which makes the state a call loads one of the
journal:

- `SystemImplementsStore`: `Spec => StoreSpec`. `StepIsStore` shows that every step is one of
  the store; `LoadedStays`, that what a call loaded stays true while others go on. So every
  theorem of the store holds of the system (`SystemRecordsAgree`, `SystemImplementsLedger`),
  with no need of `Exclusive` or of different destinations.
- `SystemTypes`: from the same invariant.
- `OnlyOwnersRestore`: `RestoreByOwner` under `DistinctAttempts`, no two undo calls of one
  transaction with the same audit identifier (`MCSharedAttempt.cfg` shows that it is needed).
  `OwnerInv` adds that an undo past its start owns the rollback; `RollbackChange`, that only an
  undo the row admits changes it.

Of the files themselves, for any number of documents, moves, recoveries and undos, under
`MovesApart`: `Exclusive`, `DistinctAttempts`, two transactions do not move to one
destination, nor to where a document is at first, and documents are different files at
different places. These are the assumptions of the passing runs (`MovesApart` is true of
the instances of `one` and `two`), and `replan` and `MCLiveRecovery.cfg` show what
becomes of the files without two of them. Three invariants build on one another:

- `PlacesInv`: a file is at one path (`OnePlace`); a call that moves has its transaction to
  itself and its row in the state it journaled (`Alone`, `Pace`); files are taken only from
  where a document was at first or a committed move led (`Sourced`), so no other call takes one
  from where it was renamed to (`Arrived`). `MovedFilesStay` is `VerifiedStays`.
- `FilesInv` says on which side of a move a file is. The documents, their moves and their
  files do not mix (`Housed`), and each move leads into a set of paths that no other one
  enters or leaves (`Divided`, `Sides`); before its rename, and after that of its undo, its
  file is outside of it (`Before`, `Apart`), however the moves of a document follow one another.
  `Found`: the file of a document is at its path, or at the place of a move or
  rollback that accounts for it. `FilesAreFound` is `NoStrangers => FindableFile`: no move was
  planned of a file that the user had put in a document's place. Without this
  `FindableFile` is false (`MCStranger.cfg`).
- `HandsOff`: if the user changes nothing there are no strangers. `NoFileIsLost` is
  `FindableFile` then, whatever crashes and whoever races.

Of `Win32Probe`, for a chain of any length and any number of flaws and changes (`Win32Chain`
says where the root of each role may be, as `_validate_lexical_containment` lets it): `ProbeInv` says what each
observation was true of when it was made (`SeenInv`) and that what the sweep has confirmed was
so at the moment before it (`SweepInv`). `ProbeTypeCorrect` and `AcceptedChainWasReal` follow.
`QuietInv`, that in a world at rest every observation is of what is there and was reached
through the links that are there, gives `QuietProbeDecides`; `FinalPaths` says that two paths
of one chain are reached through the same last link exactly when there is none between them.

Of `DarwinProbe`, for any depth, objects and changes: `OpenedInv` says what the first sweep knows
of the objects, `BeenInv` that each path has led to the object opened for it, `MidInv` what was so
between the second and third sweep, `ThirdInv` and `LastInv` what the later sweeps must read
if it was, `HelperInv` what a call of the helper has read by path between its two comparisons.
`ProbeTypeCorrect` and `AcceptedChainWasReal` follow from equal sweeps. The attempt to prove it
is what showed that the property must speak of returning: with enough changes and objects a
directory can be away at the one moment and back at the others.

`QuietProbeDecides` is its `QuietIsDecided`: where a path leads is a recursion over its
components, which `WalkExists` settles by the least component at which it would fail, and
`QuietInv` says that in a world at rest every reading is of what is there.

Of `Scanner`, for any tree, request and number of moves by the user, under `TreeAssumption`
(no two entries of a directory have one name, and a thing is of one kind; a stray entry has a
name of its own). `ScanInv` joins the types with the tree (`TypesInv`), the limits and
`PathsInv`: the paths that wait, are processed or are reported are different, because the
search goes level by level (`QueueInv`, `LevelsInv`, `CurrentInv`). `ScanTypeCorrect`,
`LimitsHold` and `NoPathTwice` follow; `LimitsHold` says that a scan is truncated exactly when it
met a limit and there was more. Two further invariants use it; `Climb` and `Resolve` are
recursive functions, of which `ClimbFacts` and `ResolveFacts` give the equations:

- `FoundInv`: while nothing is truncated, each document that stayed in its place has a directory
  on its way that waits (`Waits`), its next entry in the batch (`Listed`), or is told of
  (`Told`). `WayResolved` is why the path of a waiting directory leads to it.
  `NothingIsOverlooked` is `FoundOrReported`: it holds whatever the user moves elsewhere.
- `RootInv`: as long as no link, nor a directory one was in, has been moved (`LinksStay`, of the
  state), no queued path goes through a link (`Clean`), and a path that does not leads from
  directory to directory (`CleanResolved`) below the root (`ChainBeneath`, by counting).
  `RootLeftOnlyByMovedLinks` is `Spec => []RootLeftByMovedLink`, whatever the user moves: only a
  link that was moved during the scan leads it out of the root. That one does is what
  `scanner_link` shows.

Only model-checked, and why:

- `FindableFile` and `VerifiedStays` where a move goes back to where a document was at first
  (allowed by the code, excluded by `MovesApart`), and the violations above.
- Liveness (`MovesSettleAlone`, `UndoSucceeds`, `OpenersSucceed`, `ScanReturns`, `ProbeReturns`),
  which is out of the prover's reach.

## Plan

Done: the modules above with their runs, and the theorems about each of them. Next: moves
back to where a document was at first, under a weaker `MovesApart`.

## Not modelled

- The declarations for ctypes and Objective-C, the loading of the native library and the
  reading of access control lists: one platform call after the other without a
  decision; their results are the natures of the probes' objects.
- Identifiers, models and the safety policy: validation of single values, without state.
- Command line and terminal interface: they call no file operation yet.
- What a platform backend's rename does: the source holds its protocol and fixtures only.
- SQLite itself: a transaction is atomic and `BEGIN IMMEDIATE` exclusive.
