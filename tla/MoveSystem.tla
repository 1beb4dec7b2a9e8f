----------------------------- MODULE MoveSystem -----------------------------
(***************************************************************************)
(* The moves of My Senior Intern end to end: calls of execute_atomic_move  *)
(* (fileops/mover.py), recover_interrupted_move and undo_move              *)
(* (fileops/recovery.py) over one move store and one filesystem.           *)
(*                                                                         *)
(* A call is what one process does for one request.  Between two of its    *)
(* steps any other call may run, it may crash, and the user may work on    *)
(* the files.  A call that ended may be made again: the headless worker    *)
(* and the user's interface retry with the request they have.              *)
(*                                                                         *)
(* The repository has no AtomicMoveBackend or RecoveryBackend but those of *)
(* the tests; the platform is modelled from the two protocols as those     *)
(* fixtures implement them: renames are atomic, never replace a file and   *)
(* check the identity of the one they move.                                *)
(***************************************************************************)
EXTENDS MoveStore

CONSTANTS
    Calls,          \* the calls that may run, each for one request
    Request,        \* [kind, transaction, document, destination, audit] of each call
    Vacant,         \* what a path without a file holds
    InitialFiles,   \* the file at each path
    Exclusive,      \* TRUE: recovery waits until the move it recovers has no live call
    MaxFaults,      \* bound on crashes and on refusals without a reason
    MaxMeddling     \* bound on what the user does to the files

ASSUME SystemAssumption ==
    /\ Request \in [Calls -> [kind : {"move", "recover", "undo"}, transaction : Transactions,
                              document : Documents \cup {None},
                              destination : Paths \cup {None}, audit : AuditIds]]
    /\ \A c \in Calls : Request[c].kind = "move" =>
           Request[c].document \in Documents /\ Request[c].destination \in Paths
    /\ InitialFiles \in [Paths -> Objects \cup {Vacant}] /\ Vacant \notin Objects
    /\ MaxFaults \in Nat /\ MaxMeddling \in Nat

VARIABLES
    call,       \* where each call is, and what it holds in memory
    fs,         \* the file at each path
    edited,     \* files whose content is not the one that was planned for
    touched,    \* files the user renamed or edited
    faults, meddling

worldVars == <<fs, edited, touched, meddling>>
vars == <<storeVars, call, fs, edited, touched, faults, meddling>>

\* The evidence a call works with: the request and its ticket for a move, the
\* record that was loaded for a recovery or an undo.
Records == [document : Documents, source : Paths, destination : Paths,
            object : Objects, forward : ForwardStates]
NoRecord == [document |-> None, source |-> None, destination |-> None,
             object |-> None, forward |-> "absent"]

Idle == [at |-> "idle", record |-> NoRecord, existing |-> "absent"]

Places == {"idle", "ticketed", "planned", "validated", "moving", "refused", "classify",
           "renamed", "moved", "checked", "unverified", "verified",
           "undo_read", "undo_start", "undo_classify", "undo_verify_destination",
           "undo_rename", "undo_verify_source", "undo_complete", "undo_fail"}

SystemTypeOK ==
    /\ TypeOK
    /\ call \in [Calls -> [at : Places, record : Records \cup {NoRecord},
                           existing : RollbackStates \cup {"absent"}]]
    /\ fs \in [Paths -> Objects \cup {Vacant}]
    /\ edited \subseteq Objects
    /\ touched \subseteq Objects
    /\ faults \in 0 .. MaxFaults
    /\ meddling \in 0 .. MaxMeddling

Init ==
    /\ StoreInit
    /\ call = [c \in Calls |-> Idle]
    /\ fs = InitialFiles
    /\ edited = {}
    /\ touched = {}
    /\ faults = 0
    /\ meddling = 0

-----------------------------------------------------------------------------
(* What a call holds, where it goes next. *)

At(c, place) == call[c].at = place

Object(c) == call[c].record.object
Source(c) == call[c].record.source
Destination(c) == call[c].record.destination

Ctx(c) == [transaction |-> Request[c].transaction,
           document |-> call[c].record.document,
           source |-> Source(c), destination |-> Destination(c),
           audit |-> Request[c].audit, forward |-> call[c].record.forward]

\* The call returns or raises; nothing of its memory outlives it.
Stop(c) == call' = [call EXCEPT ![c] = Idle]

Go(c, place) ==
    call' = [call EXCEPT ![c] = IF place = "idle" THEN Idle ELSE [@ EXCEPT !.at = place]]

Holding(c, place, record) ==
    call' = [call EXCEPT ![c] = [at |-> place, record |-> record, existing |-> "absent"]]

\* The backend may refuse without a reason the model knows, MaxFaults times.
Fault == faults < MaxFaults /\ faults' = faults + 1

NoFault == UNCHANGED faults

-----------------------------------------------------------------------------
(* The platform. *)

OnlyAt(o, p, q) == fs[p] = o /\ fs[q] = Vacant

ObjectAt(c, p, q) == OnlyAt(Object(c), p, q)

\* Faulty: the endpoints are exchanged.
ExchangedDisposition(c) ==
    IF ObjectAt(c, Source(c), Destination(c)) THEN "destination"
    ELSE IF ObjectAt(c, Destination(c), Source(c)) THEN "source"
    ELSE "ambiguous"

Disposition(c) ==
    IF ObjectAt(c, Source(c), Destination(c)) THEN "source"
    ELSE IF ObjectAt(c, Destination(c), Source(c)) THEN "destination"
    ELSE "ambiguous"

\* verify_destination, or verify_source with the endpoints exchanged.
Verifies(c, p, q) == ObjectAt(c, p, q) /\ Object(c) \notin edited

Rename(c, p, q) == fs' = [fs EXCEPT ![p] = Vacant, ![q] = Object(c)]

\* A check of the endpoints that answers yes, answers no, or fails to say yes.
Check(c, p, q, yes, no) ==
    /\ \/ Verifies(c, p, q) /\ Go(c, yes) /\ NoFault
       \/ ~Verifies(c, p, q) /\ Go(c, no) /\ NoFault
       \/ Verifies(c, p, q) /\ Go(c, no) /\ Fault
    /\ UNCHANGED <<storeVars, worldVars>>

\* A rename that happens, is refused for its endpoints, or is refused anyway.
TryRename(c, p, q, done, refused) ==
    /\ \/ ObjectAt(c, p, q) /\ Rename(c, p, q) /\ Go(c, done) /\ NoFault
       \/ ~ObjectAt(c, p, q) /\ Go(c, refused) /\ NoFault /\ UNCHANGED fs
       \/ ObjectAt(c, p, q) /\ Go(c, refused) /\ Fault /\ UNCHANGED fs
    /\ UNCHANGED <<storeVars, edited, touched, meddling>>

\* A forward transition of the store, which raises if the store refuses it.
Persist(c, state, place) ==
    /\ \/ Transition(Ctx(c), state) /\ Go(c, place)
       \/ ~MayTransition(Ctx(c), state) /\ UNCHANGED storeVars /\ Stop(c)
    /\ NoFault
    /\ UNCHANGED worldVars

-----------------------------------------------------------------------------
(* execute_atomic_move. *)

\* Path policy observed the file where the document is and issued a ticket.
Ticket(c) ==
    LET d == Request[c].document
        p == documents[d].path
    IN  /\ Request[c].kind = "move"
        /\ At(c, "idle")
        /\ fs[p] # Vacant
        /\ Holding(c, "ticketed", [document |-> d, source |-> p, object |-> fs[p],
                                   destination |-> Request[c].destination,
                                   forward |-> "planned"])
        /\ NoFault
        /\ UNCHANGED <<storeVars, worldVars>>

PlanMove(c) ==
    LET t == Request[c].transaction
        d == Request[c].document
    IN  /\ At(c, "ticketed")
        /\ \/ /\ RecordPlan(t, d, Source(c), Destination(c), Object(c))
              /\ Go(c, "planned")
           \/ ~MayRecordPlan(t, d, Source(c)) /\ UNCHANGED storeVars /\ Stop(c)
        /\ NoFault
        /\ UNCHANGED worldVars

Validate(c) == At(c, "planned") /\ Persist(c, "validated", "validated")

BeginMoving(c) == At(c, "validated") /\ Persist(c, "moving", "moving")

RenameNoReplace(c) ==
    At(c, "moving") /\ TryRename(c, Source(c), Destination(c), "renamed", "refused")

-----------------------------------------------------------------------------
(* recover_interrupted_move.                                                 *)

Live(t) == \E c \in Calls : /\ Request[c].kind = "move"
                            /\ Request[c].transaction = t
                            /\ call[c].at \notin {"idle", "ticketed"}

\* Faulty: the identity column is not selected.
LoadAnonymousRecord(t) ==
    [document |-> move_transactions[t].document,
     source |-> move_transactions[t].source,
     destination |-> move_transactions[t].destination,
     object |-> None, forward |-> move_transactions[t].state]

LoadRecord(t) == [document |-> move_transactions[t].document,
               source |-> move_transactions[t].source,
               destination |-> move_transactions[t].destination,
               object |-> move_transactions[t].object,
               forward |-> move_transactions[t].state]

\* Faulty: a move that was verified is taken for settled.
BeginRecoveryOfUnverified(c) ==
    LET t == Request[c].transaction
        state == move_transactions[t].state
    IN  /\ Request[c].kind = "recover"
        /\ At(c, "idle")
        /\ Exclusive => ~Live(t)
        /\ state \in {"moving", "moved"}
        /\ Holding(c, IF state = "moving" THEN "classify" ELSE state, LoadRecord(t))
        /\ NoFault
        /\ UNCHANGED <<storeVars, worldVars>>

\* Any other state is settled or not recoverable: the call ends at once.
BeginRecovery(c) ==
    LET t == Request[c].transaction
        state == move_transactions[t].state
    IN  /\ Request[c].kind = "recover"
        /\ At(c, "idle")
        /\ Exclusive => ~Live(t)
        /\ state \in {"moving", "moved", "verified"}
        /\ Holding(c, IF state = "moving" THEN "classify" ELSE state, LoadRecord(t))
        /\ NoFault
        /\ UNCHANGED <<storeVars, worldVars>>

Classify(c) ==
    /\ At(c, "classify")
    /\ Go(c, CASE Disposition(c) = "source"      -> "refused"
               [] Disposition(c) = "destination" -> "renamed"
               [] OTHER                          -> "unverified")
    /\ NoFault
    /\ UNCHANGED <<storeVars, worldVars>>

-----------------------------------------------------------------------------
(* What a move and its recovery have in common.                              *)

RecordFailure(c) == At(c, "refused") /\ Persist(c, "failed", "idle")

RecordMoved(c) == At(c, "renamed") /\ Persist(c, "moved", "moved")

VerifyDestination(c) ==
    At(c, "moved") /\ Check(c, Destination(c), Source(c), "checked", "unverified")

RecordRollbackRequired(c) == At(c, "unverified") /\ Persist(c, "rollback_required", "idle")

RecordVerified(c) == At(c, "checked") /\ Persist(c, "verified", "verified")

\* Faulty: the transaction commits without its document.
CommitWithoutDocument(c) ==
    LET t == Request[c].transaction
    IN  /\ At(c, "verified")
        /\ move_transactions' = [move_transactions EXCEPT ![t].state = "committed"]
        /\ move_transaction_events' =
               [move_transaction_events EXCEPT ![t] = Append(@, "committed")]
        /\ Stop(c)
        /\ NoFault
        /\ UNCHANGED <<documents, document_paths, move_rollbacks, move_rollback_events,
                       audit_events, worldVars>>

Commit(c) == At(c, "verified") /\ Persist(c, "committed", "idle")

-----------------------------------------------------------------------------
(* undo_move. *)

BeginUndo(c) ==
    LET t == Request[c].transaction
    IN  /\ Request[c].kind = "undo"
        /\ At(c, "idle")
        /\ move_transactions[t] # NoRow
        /\ Holding(c, "undo_read", LoadRecord(t))
        /\ NoFault
        /\ UNCHANGED <<storeVars, worldVars>>

\* The rollback state is read apart from the record, and again by start_rollback.
ReadRollbackState(c) ==
    LET state == RollbackState(Request[c].transaction)
    IN  /\ At(c, "undo_read")
        /\ call' = [call EXCEPT ![c] =
               IF state = "rolled_back" THEN Idle
               ELSE [@ EXCEPT !.at = "undo_start", !.existing = state]]
        /\ NoFault
        /\ UNCHANGED <<storeVars, worldVars>>

RoomToStart(c) == Len(move_rollback_events[Request[c].transaction]) < MaxRollbackEvents

BeginRollback(c) ==
    /\ At(c, "undo_start")
    /\ \/ RoomToStart(c) /\ StartRollback(Ctx(c)) /\ Go(c, "undo_classify")
       \/ /\ ~(RoomToStart(c) /\ MayStartRollback(Ctx(c)))
          /\ UNCHANGED storeVars
          /\ Stop(c)
    /\ NoFault
    /\ UNCHANGED worldVars

Resumed(c) == call[c].existing \in {"rolling_back", "rollback_failed"}

UndoClassify(c) ==
    /\ At(c, "undo_classify")
    /\ Go(c, CASE Disposition(c) = "destination"             -> "undo_verify_destination"
               [] Disposition(c) = "source" /\ Resumed(c)    -> "undo_verify_source"
               [] OTHER                                      -> "undo_fail")
    /\ NoFault
    /\ UNCHANGED <<storeVars, worldVars>>

UndoVerifyDestination(c) ==
    /\ At(c, "undo_verify_destination")
    /\ Check(c, Destination(c), Source(c), "undo_rename", "undo_fail")

RollbackNoReplace(c) ==
    /\ At(c, "undo_rename")
    /\ TryRename(c, Destination(c), Source(c), "undo_verify_source", "undo_fail")

UndoVerifySource(c) ==
    /\ At(c, "undo_verify_source")
    /\ Check(c, Source(c), Destination(c), "undo_complete", "undo_fail")

UndoComplete(c) ==
    /\ At(c, "undo_complete")
    /\ \/ CompleteRollback(Ctx(c))
       \/ ~MayCompleteRollback(Ctx(c)) /\ UNCHANGED storeVars
    /\ Stop(c)
    /\ NoFault
    /\ UNCHANGED worldVars

UndoFail(c) ==
    /\ At(c, "undo_fail")
    /\ \/ FailRollback(Ctx(c))
       \/ ~MayFailRollback(Ctx(c)) /\ UNCHANGED storeVars
    /\ Stop(c)
    /\ NoFault
    /\ UNCHANGED worldVars

-----------------------------------------------------------------------------
(* Crashes and the user. *)

\* The process dies, SQLite stays busy past its timeout, or the backend raises
\* where the caller does not expect it: the call is gone, its last write stays.
Crash(c) ==
    /\ ~At(c, "idle")
    /\ Stop(c)
    /\ Fault
    /\ UNCHANGED <<storeVars, worldVars>>

Meddle(o) ==
    /\ meddling < MaxMeddling
    /\ meddling' = meddling + 1
    /\ touched' = touched \cup {o}
    /\ UNCHANGED <<storeVars, call, faults>>

UserRename(p, q) ==
    /\ fs[p] # Vacant
    /\ fs[q] = Vacant
    /\ fs' = [fs EXCEPT ![p] = Vacant, ![q] = fs[p]]
    /\ Meddle(fs[p])
    /\ UNCHANGED edited

UserCreate(p, o) ==
    /\ fs[p] = Vacant
    /\ \A q \in Paths : fs[q] # o
    /\ fs' = [fs EXCEPT ![p] = o]
    /\ Meddle(o)
    /\ UNCHANGED edited

UserEdit(p) ==
    /\ fs[p] \in Objects \ edited
    /\ edited' = edited \cup {fs[p]}
    /\ Meddle(fs[p])
    /\ UNCHANGED fs

-----------------------------------------------------------------------------
MoveStep(c) == Validate(c) \/ BeginMoving(c) \/ RenameNoReplace(c)

ForwardStep(c) ==
    \/ RecordFailure(c)
    \/ RecordMoved(c)
    \/ VerifyDestination(c)
    \/ RecordRollbackRequired(c)
    \/ RecordVerified(c)
    \/ Commit(c)

UndoStep(c) ==
    \/ ReadRollbackState(c)
    \/ BeginRollback(c)
    \/ UndoClassify(c)
    \/ UndoVerifyDestination(c)
    \/ RollbackNoReplace(c)
    \/ UndoVerifySource(c)
    \/ UndoComplete(c)
    \/ UndoFail(c)

Begin(c) == Ticket(c) \/ BeginRecovery(c) \/ BeginUndo(c)

Step(c) == PlanMove(c) \/ MoveStep(c) \/ Classify(c) \/ ForwardStep(c) \/ UndoStep(c)

User ==
    \/ \E p, q \in Paths : UserRename(p, q)
    \/ \E p \in Paths, o \in Objects : UserCreate(p, o)
    \/ \E p \in Paths : UserEdit(p)

Next == (\E c \in Calls : Begin(c) \/ Step(c) \/ Crash(c)) \/ User

Spec == Init /\ [][Next]_vars
-----------------------------------------------------------------------------
(* What the system promises. *)

FileOf(d) == InitialFiles[InitialPath[d]]

\* Where the journals of t allow the file it moves to be.
JournaledPlaces(t) ==
    LET row == move_transactions[t]
        ends == {row.source, row.destination}
        undoing == RollbackState(t) \in {"rolling_back", "rollback_failed"}
    IN  IF RollbackState(t) = "rolled_back"
        THEN {}
        ELSE CASE row.state \in {"moving", "rollback_required"} -> ends
               [] row.state \in {"moved", "verified"}           -> {row.destination}
               [] row.state = "committed" /\ undoing            -> ends
               [] OTHER                                         -> {}

\* A file only this program moved is where the database says: at the path of its
\* document, or at an endpoint of a move or rollback that is not over.  So no
\* crash, race or retry leaves the index pointing at a path without its file
\* while every transaction claims to be finished.
FindableFile ==
    \A d \in Documents :
        FileOf(d) \notin touched =>
            \E p \in Paths :
                /\ fs[p] = FileOf(d)
                /\ \/ p = documents[d].path
                   \/ \E t \in Transactions : /\ move_transactions[t].object = FileOf(d)
                                               /\ p \in JournaledPlaces(t)

\* What the journal says of a move in flight stays true until the move is settled:
\* a file it calls moved or verified is at the destination, and no other move,
\* recovery or undo has taken it from there.
VerifiedStays ==
    \A t \in Transactions :
        LET row == move_transactions[t]
        IN  row.state \in {"moved", "verified"} /\ row.object \notin touched =>
                fs[row.destination] = row.object

\* An undo takes a file back only while the rollback is its own: the attempt that
\* the rollback row names is the one that renames, whatever other attempts on
\* the same transaction started, failed or crashed since it checked.
RestoreByOwner ==
    [][\A c \in Calls :
          At(c, "undo_rename") /\ call'[c] # call[c] /\ fs' # fs => OwnsRollback(Ctx(c))]_vars

\* Every step of every call is a step of the store or leaves the database alone.
\* (StoreSpec, with the stutter first, which is cheaper to evaluate.)
ImplementsStore == StoreInit /\ [][UNCHANGED storeVars \/ StoreNext]_storeVars

-----------------------------------------------------------------------------
(* Progress.  A call that is running goes on, because nothing in it waits for  *)
(* another call, and a recovery or an undo that was asked for is asked for      *)
(* again until it has nothing left to do.                                      *)

Again(c) == BeginRecovery(c) \/ BeginUndo(c)

Fairness == \A c \in Calls : WF_vars(Step(c)) /\ WF_vars(Again(c))

FairSpec == Spec /\ Fairness

\* A move that reached the filesystem is eventually settled, by its own call or
\* by recovery, however often the calls crash.
MovesSettle ==
    \A t \in Transactions :
        move_transactions[t].state \in {"moving", "moved", "verified"} ~>
            move_transactions[t].state \in {"committed", "rollback_required", "failed"}

\* So is each of several moves of one document, unless the undo of another one was
\* begun, which may leave the file where this one can be neither committed nor
\* taken back.  A second move alone, planned or executed, is no excuse.
MovesSettleAlone ==
    \A t \in Transactions :
        move_transactions[t].state \in {"moving", "moved", "verified"} ~>
            \/ move_transactions[t].state \in {"committed", "rollback_required", "failed"}
            \/ \E u \in Transactions \ {t} :
                   /\ RollbackState(u) # "absent"
                   /\ move_transactions[u].document = move_transactions[t].document

\* A move that happened is eventually undone once undo is asked for, if the user
\* leaves the files alone, wherever earlier undos failed or crashed.
UndoSucceeds ==
    \A t \in Transactions :
        move_transactions[t].state \in {"committed", "rollback_required"} ~>
            RollbackState(t) = "rolled_back" \/ touched # {}
=============================================================================
